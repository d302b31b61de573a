-------------------------------- MODULE Ash ---------------------------------
(***************************************************************************)
(* The ASH session between the host and an Ember network co-processor      *)
(* (NCP), and the calls of sendEZSPCommand over it                         *)
(* (pkg/zigbee-dongle/ember/controller.go and port.go).                    *)
(*                                                                         *)
(* Each direction of the serial line is a FIFO.  A DATA frame carries its  *)
(* own number and the number its sender expects next, modulo Mod.  A       *)
(* command registers a Handler under its EZSP sequence number; the read    *)
(* loop, the Handler's timer and Close put results into its one-place      *)
(* channel.  A command that times out resets the session and is sent once  *)
(* more.  No lock covers txSeq, rxSeq and the write.                       *)
(*                                                                         *)
(* The EZSP sequence number is one byte in the code and a natural number   *)
(* here: what is checked and proved is about sessions in which it does not *)
(* wrap while an old frame with the same number is still on its way.       *)
(***************************************************************************)
EXTENDS Naturals, Sequences

CONSTANTS
  Caller,        \* goroutines that send commands
  Mod,           \* frame numbers of ASH: 8 in the code
  Sessions,      \* what the callers do and what may go wrong: records [todo, start, faults,
                 \* repeats, callbacks, closes]
  Boot,          \* what an NCP may have sent by itself after a hardware reset
  None

VARIABLES
  pc,            \* where in Start or sendEZSPCommand a caller is
  todo,          \* commands it has still to send
  frame,         \* the DATA frame it builds, with its EZSP sequence number
  try,           \* first or second try
  outcome,       \* what its last call returned
  sequence,      \* Port.sequence
  table,         \* Controller.handlers: sequence numbers with a Handler
  armed,         \* Handlers whose timer has not fired
  failing,       \* Handlers whose timer has fired and has still to fail them
  cmds, errs,    \* channels: answers, and sequence numbers with an error
  reader,        \* what the read loop is in the middle of
  reading,       \* the read loop runs
  stale,         \* reads that outlived their timeout and wait for the next bytes
  txSeq, rxSeq,  \* the host's frame numbers
  last,          \* the frame kept for retransmission
  closed,        \* Close was called
  toNcp, toHost, \* frames on the line
  expect, send,  \* the NCP's frame numbers
  unacked,       \* the NCP's last DATA frame, until it is acknowledged
  dead,          \* the NCP stopped for good
  faults,        \* bound: frames that may still be lost or garbled, writes that fail, answers
                 \* that are slow, an NCP that stops
  limits,        \* bounds: unasked repetitions and callbacks of the NCP, and whether Close is called
  clean,         \* history: nothing was lost since the session was reset
  ran            \* history: how often the NCP ran the command a caller is in

callers  == <<pc, todo, frame, try, outcome, sequence>>
handlers == <<table, armed, failing>>
channels == <<cmds, errs>>
loop     == <<reader, reading, stale>>
numbers  == <<txSeq, rxSeq>>
host     == <<loop, numbers, last, closed>>
line     == <<toNcp, toHost>>
ncp      == <<expect, send, unacked, dead>>
history  == <<faults, limits, clean, ran>>
vars == <<callers, handlers, channels, host, line, ncp, history>>

-----------------------------------------------------------------------------

\* A DATA frame of the host carries a command, one of the NCP the answer to
\* it or a callback (whose sequence number and caller are None).
Data(num, ack, seq, by, n) ==
  [type |-> "DATA", num |-> num, ack |-> ack, seq |-> seq, by |-> by, n |-> n]
Ctl(type) == [Data(0, 0, None, None, 0) EXCEPT !.type = type]
NoFrame == Ctl("none")
Frames(q) == {q[i] : i \in DOMAIN q}

\* One goroutine at most is in Start, and it has VERSION to send.  After a
\* hardware reset the NCP sends text and an RSTACK.
ASSUME ModAssumption == Mod \in Nat \ {0}
ASSUME NoneAssumption == None \notin Nat
ASSUME BootAssumption == Boot \subseteq Seq({Ctl("text"), Ctl("RSTACK")})
ASSUME SessionsAssumption ==
  \A s \in Sessions :
    /\ s.todo \in [Caller -> Nat] /\ s.start \subseteq Caller
    /\ \A p \in s.start : s.todo[p] > 0 /\ \A q \in s.start : p = q

Up(n) == (n + 1) % Mod
Fault == faults > 0 /\ faults' = faults - 1
ToNcp(f) == toNcp' = IF closed \/ dead THEN toNcp ELSE Append(toNcp, f)
Full(s) == s \in errs \/ \E r \in cmds : r.seq = s
Goes(p, l) == pc' = [pc EXCEPT ![p] = l]

Init ==
  \E s \in Sessions :
    /\ todo = s.todo
    /\ pc = [p \in Caller |-> IF p \in s.start THEN "start" ELSE "idle"]
    /\ frame = [p \in Caller |-> NoFrame]
    /\ try = [p \in Caller |-> 1]
    /\ outcome = [p \in Caller |-> None]
    /\ sequence = 0
    /\ table = {} /\ armed = {} /\ failing = {} /\ cmds = {} /\ errs = {}
    /\ reader = NoFrame /\ reading = (s.start = {}) /\ stale = 0
    /\ txSeq = 0 /\ rxSeq = 0 /\ last = NoFrame /\ closed = FALSE
    /\ toNcp = <<>> /\ toHost = <<>>
    /\ expect = 0 /\ send = 0 /\ unacked = NoFrame /\ dead = FALSE
    /\ faults = s.faults
    /\ limits = [repeats |-> s.repeats, callbacks |-> s.callbacks, closes |-> s.closes]
    /\ clean = TRUE
    /\ ran = [p \in Caller |-> 0]

-----------------------------------------------------------------------------
(* sendEZSPCommand.                                                        *)

\* The Handler is registered first, and the frame is built from txSeq and
\* rxSeq as they are now.
registerHandler(p, s) ==
  /\ table' = table \cup {s}
  /\ armed' = armed \cup {s}
  /\ frame' = [frame EXCEPT ![p] = Data(txSeq, rxSeq, s, p, todo[p])]
  /\ Goes(p, "write")
  /\ UNCHANGED failing

\* A mutant: every command has the same sequence number.
SendSameNumber(p) ==
  /\ pc[p] = "idle" /\ todo[p] > 0
  /\ registerHandler(p, sequence)
  /\ try' = [try EXCEPT ![p] = 1]
  /\ outcome' = [outcome EXCEPT ![p] = None]
  /\ ran' = [ran EXCEPT ![p] = 0]
  /\ UNCHANGED <<todo, sequence, channels, host, line, ncp, faults, limits, clean>>

sendEZSPCommand(p) ==
  /\ pc[p] = "idle" /\ todo[p] > 0
  /\ sequence' = sequence + 1
  /\ registerHandler(p, sequence + 1)
  /\ try' = [try EXCEPT ![p] = 1]
  /\ outcome' = [outcome EXCEPT ![p] = None]
  /\ ran' = [ran EXCEPT ![p] = 0]
  /\ UNCHANGED <<todo, channels, host, line, ncp, faults, limits, clean>>

\* The VERSION command of Start has the sequence number 0 and only one try.
IsVersion(p) == frame[p].seq = 0

sendVersion(p) ==
  /\ pc[p] = "version"
  /\ registerHandler(p, 0)
  /\ try' = [try EXCEPT ![p] = 2]
  /\ UNCHANGED <<todo, outcome, sequence, channels, host, line, ncp, history>>

\* txSeq advances, and the frame is kept for retransmission (VERSION is not).
Advance(p) ==
  /\ txSeq' = Up(txSeq)
  /\ last' = IF IsVersion(p) THEN last ELSE frame[p]

WriteBytes(p) ==
  /\ pc[p] = "write" /\ ~closed
  /\ Advance(p)
  /\ ToNcp(frame[p])
  /\ Goes(p, "receive")
  /\ UNCHANGED <<todo, frame, try, outcome, sequence, handlers, channels, loop, rxSeq, closed, toHost,
                 ncp, history>>

\* removeHandler fails the Handler even if it was not in the table any more.
WriteFails(p) ==
  /\ pc[p] = "write"
  /\ IF closed THEN UNCHANGED faults ELSE Fault
  /\ Advance(p)
  /\ table' = table \ {frame[p].seq}
  /\ Goes(p, "failing")
  /\ clean' = FALSE
  /\ UNCHANGED <<todo, frame, try, outcome, sequence, armed, failing, channels, loop, rxSeq, closed, line,
                 ncp, limits, ran>>

\* The call returns.  Start is over when VERSION fails.
Returns(p, r) ==
  /\ Goes(p, "idle")
  /\ outcome' = [outcome EXCEPT ![p] = r]
  /\ todo' = [todo EXCEPT ![p] = IF IsVersion(p) /\ r = "error" THEN 0 ELSE @ - 1]
  /\ frame' = [frame EXCEPT ![p] = NoFrame]

\* Nobody receives from the channel any more: its timer, and what it holds, do
\* not matter from here on.
Forget(s) ==
  /\ armed' = armed \ {s} /\ failing' = failing \ {s}
  /\ errs' = errs \ {s} /\ cmds' = {r \in cmds : r.seq # s}

FailOwn(p) ==
  /\ pc[p] = "failing" /\ ~Full(frame[p].seq)
  /\ Forget(frame[p].seq)
  /\ Returns(p, "error")
  /\ UNCHANGED <<try, sequence, table, host, line, ncp, history>>

\* A mutant: an error is returned as an answer.
ReceiveAnything(p) ==
  /\ pc[p] = "receive" /\ Full(frame[p].seq)
  /\ Forget(frame[p].seq)
  /\ Returns(p, "answer")
  /\ UNCHANGED <<try, sequence, table, host, line, ncp, history>>

Receive(p) ==
  /\ pc[p] = "receive" /\ Full(frame[p].seq)
  /\ Forget(frame[p].seq)
  /\ IF frame[p].seq \notin errs THEN Returns(p, "answer")
     ELSE IF IsVersion(p) THEN Returns(p, "error")
     ELSE Goes(p, "reset") /\ UNCHANGED <<outcome, todo, frame>>
  /\ UNCHANGED <<try, sequence, table, host, line, ncp, history>>

\* RST, and 500ms for the RSTACK to come.  The second time out is an error.
resetASHSession(p) ==
  /\ pc[p] = "reset"
  /\ ToNcp(Ctl("RST"))
  /\ IF try[p] = 1 THEN Goes(p, "retry") /\ UNCHANGED <<outcome, todo, frame>>
     ELSE Returns(p, "error")
  /\ UNCHANGED <<try, sequence, handlers, channels, host, toHost, ncp, history>>

\* A mutant: the command is sent again and again, under its first number.
RetryForEver(p) ==
  /\ pc[p] = "retry"
  /\ registerHandler(p, frame[p].seq)
  /\ UNCHANGED <<todo, try, outcome, sequence, channels, host, line, ncp, history>>

Retry(p) ==
  /\ pc[p] = "retry"
  /\ sequence' = sequence + 1
  /\ registerHandler(p, sequence + 1)
  /\ try' = [try EXCEPT ![p] = 2]
  /\ UNCHANGED <<todo, outcome, channels, host, line, ncp, history>>

-----------------------------------------------------------------------------
(* The timer of a Handler: removeHandler, and then fail.                   *)

\* A timer that fires although the command is still being written, or the NCP
\* would still answer, is a fault.
Slow(s) ==
  \/ \E p \in Caller : pc[p] \in {"write", "failing"} /\ frame[p].seq = s
  \/ reader.seq = s
  \/ ~dead /\ \E f \in Frames(toNcp) \cup Frames(toHost) : f.seq = s

removeHandler(s) ==
  /\ s \in armed
  /\ IF Slow(s) THEN Fault ELSE UNCHANGED faults
  /\ table' = table \ {s}
  /\ armed' = armed \ {s}
  /\ failing' = failing \cup {s}
  /\ UNCHANGED <<callers, channels, host, line, ncp, limits, clean, ran>>

fail(s) ==
  /\ s \in failing /\ ~Full(s)
  /\ errs' = errs \cup {s}
  /\ failing' = failing \ {s}
  /\ UNCHANGED <<callers, table, armed, cmds, host, line, ncp, history>>

-----------------------------------------------------------------------------
(* The read loop.                                                          *)

Arrives(type) ==
  /\ toHost # <<>> /\ Head(toHost).type = type /\ reading /\ stale = 0
  /\ reader = NoFrame /\ ~closed
  /\ toHost' = Tail(toHost)

\* A DATA frame is acknowledged, and handled whatever its number.  txSeq
\* follows what the NCP says it expects.  An ACK only ends the repetitions of
\* the NCP, so that it is not put on the line; it may be lost.  An answer
\* whose Handler is gone is handed to handleCallback, which ignores it.
handleData ==
  /\ Arrives("DATA")
  /\ LET f == Head(toHost) IN
       /\ rxSeq' = IF f.num = rxSeq THEN Up(rxSeq) ELSE rxSeq
       /\ txSeq' = f.ack
       /\ IF f.seq \in table THEN table' = table \ {f.seq} /\ reader' = f
          ELSE UNCHANGED <<table, reader>>
  /\ \/ unacked' = (IF rxSeq' = send THEN NoFrame ELSE unacked) /\ UNCHANGED faults
     \/ unacked # NoFrame /\ Fault /\ UNCHANGED unacked
  /\ UNCHANGED <<callers, armed, failing, channels, reading, stale, last, closed, toNcp, expect, send,
                 dead, limits, clean, ran>>

\* The answer goes into the channel, and is kept if a caller will take it.
fulfill ==
  /\ reader.type = "DATA" /\ ~Full(reader.seq)
  /\ cmds' = IF \E p \in Caller : frame[p].seq = reader.seq THEN cmds \cup {reader} ELSE cmds
  /\ armed' = armed \ {reader.seq}
  /\ reader' = NoFrame
  /\ UNCHANGED <<callers, table, failing, errs, reading, stale, numbers, last, closed, line, ncp, history>>

\* A garbled DATA frame is refused.
sendNAK ==
  /\ Arrives("garbled")
  /\ ToNcp(Ctl("NAK"))
  /\ UNCHANGED <<callers, handlers, channels, host, ncp, history>>

\* The frame to retransmit is chosen 100ms before it is written.
handleNAK ==
  /\ Arrives("NAK")
  /\ reader' = IF last = NoFrame THEN NoFrame ELSE [last EXCEPT !.type = "resend"]
  /\ UNCHANGED <<callers, handlers, channels, reading, stale, numbers, last, closed, toNcp, ncp, history>>

Retransmit ==
  /\ reader.type = "resend"
  /\ ToNcp([reader EXCEPT !.type = "DATA"])
  /\ reader' = NoFrame
  /\ UNCHANGED <<callers, handlers, channels, reading, stale, numbers, last, closed, toHost, ncp, history>>

\* A mutant: rxSeq is not reset.
HandleRSTACKHalf ==
  /\ Arrives("RSTACK")
  /\ txSeq' = 0 /\ UNCHANGED rxSeq
  /\ clean' = TRUE
  /\ UNCHANGED <<callers, handlers, channels, loop, last, closed, toNcp, ncp, faults, limits, ran>>

handleRSTACK ==
  /\ Arrives("RSTACK")
  /\ txSeq' = 0 /\ rxSeq' = 0
  /\ clean' = TRUE
  /\ UNCHANGED <<callers, handlers, channels, loop, last, closed, toNcp, ncp, faults, limits, ran>>

\* Close fails the Handlers of the table while it holds handlerMux.
Close ==
  /\ limits.closes /\ ~closed /\ \A s \in table : ~Full(s)
  /\ closed' = TRUE
  /\ errs' = errs \cup table
  /\ table' = {}
  /\ UNCHANGED <<callers, armed, failing, cmds, loop, numbers, last, line, ncp, history>>

-----------------------------------------------------------------------------
(* Start: the hardware reset, the handshake, and reads with a timeout.     *)

\* A read with a timeout finds what is on the line.  If there is nothing it
\* goes on after its timeout, and takes what comes later.
Reads == toHost = <<>> \/ stale = 0
Finds == toHost # <<>>

Stolen ==
  /\ toHost # <<>> /\ stale > 0
  /\ stale' = stale - 1
  /\ toHost' = Tail(toHost)
  /\ clean' = FALSE
  /\ UNCHANGED <<callers, handlers, channels, reader, reading, numbers, last, closed, toNcp, ncp, faults,
                 limits, ran>>

\* The reset may fail, which is only logged.
ResetDevice(p) ==
  /\ pc[p] = "start" /\ Goes(p, "bootData")
  /\ \/ toHost' \in Boot /\ expect' = 0 /\ send' = 0 /\ unacked' = NoFrame
     \/ UNCHANGED <<toHost, expect, send, unacked>>
  /\ UNCHANGED <<todo, frame, try, outcome, sequence, handlers, channels, host, toNcp, dead, history>>

HasRSTACK == \E f \in Frames(toHost) : f.type = "RSTACK"
IsText == Finds /\ \A f \in Frames(toHost) : f.type = "text"

\* The session is new, and needs no handshake.
Established(p) == txSeq' = 0 /\ rxSeq' = 0 /\ Goes(p, "drain")

\* The boot data hold an RSTACK, or they are text and more is waited for, or
\* the handshake has to be made.
ReadBootData(p) ==
  /\ pc[p] = "bootData" /\ Reads
  /\ toHost' \in (IF IsText THEN Boot ELSE {<<>>})
  /\ stale' = IF Finds THEN 0 ELSE stale + 1
  /\ IF HasRSTACK THEN Established(p)
     ELSE UNCHANGED numbers /\ Goes(p, IF IsText THEN "bootText" ELSE "rst")
  /\ UNCHANGED <<todo, frame, try, outcome, sequence, handlers, channels, reader, reading, last, closed,
                 toNcp, ncp, history>>

\* After text one more read, and another (CheckBootloaderMode) if it is text too.
ReadMoreBootData(p) ==
  /\ pc[p] = "bootText" /\ Reads
  /\ toHost' = <<>>
  /\ stale' = stale + (IF Finds THEN IF IsText THEN 1 ELSE 0 ELSE 2)
  /\ IF HasRSTACK THEN Established(p) ELSE UNCHANGED numbers /\ Goes(p, "rst")
  /\ UNCHANGED <<todo, frame, try, outcome, sequence, handlers, channels, reader, reading, last, closed,
                 toNcp, ncp, history>>

\* performRSTHandshake: four reads, and the RST; then the RSTACK.
SendRST(p) ==
  /\ pc[p] = "rst" /\ Reads /\ Goes(p, "rstack")
  /\ toHost' = <<>> /\ stale' = stale + IF Finds THEN 3 ELSE 4
  /\ ToNcp(Ctl("RST"))
  /\ UNCHANGED <<todo, frame, try, outcome, sequence, handlers, channels, reader, reading, numbers, last,
                 closed, ncp, history>>

StartFails(p) ==
  /\ Goes(p, "idle")
  /\ todo' = [todo EXCEPT ![p] = 0] /\ outcome' = [outcome EXCEPT ![p] = "error"]

ReadRSTACK(p) ==
  /\ pc[p] = "rstack" /\ Reads
  /\ IF Finds
     THEN /\ toHost' = Tail(toHost) /\ UNCHANGED stale
          /\ IF Head(toHost).type = "RSTACK"
             THEN Established(p) /\ UNCHANGED <<todo, outcome>>
             ELSE UNCHANGED numbers /\ StartFails(p)
     ELSE stale' = stale + 1 /\ StartFails(p) /\ UNCHANGED <<toHost, numbers>>
  /\ UNCHANGED <<frame, try, sequence, handlers, channels, reader, reading, last, closed, toNcp, ncp,
                 history>>

\* Drain reads until a read finds nothing, at least twice; the read loop starts.
Drain(p) ==
  /\ pc[p] = "drain" /\ Reads /\ Goes(p, "version")
  /\ toHost' = <<>> /\ stale' = stale + IF Finds THEN 1 ELSE 2
  /\ clean' = ~Finds
  /\ reading' = TRUE
  /\ UNCHANGED <<todo, frame, try, outcome, sequence, handlers, channels, reader, numbers, last, closed,
                 toNcp, ncp, faults, limits, ran>>

-----------------------------------------------------------------------------
(* The NCP.  It answers the frame it expects and discards any other.       *)

Reaches(type) == ~dead /\ toNcp # <<>> /\ Head(toNcp).type = type /\ toNcp' = Tail(toNcp)
Sends(f) == toHost' = Append(toHost, f) /\ unacked' = f /\ send' = Up(send)

NcpRuns ==
  /\ Reaches("DATA") /\ Head(toNcp).num = expect
  /\ expect' = Up(expect)
  /\ LET f == Head(toNcp) IN
       /\ Sends([f EXCEPT !.num = send, !.ack = Up(expect)])
       /\ ran' = [ran EXCEPT ![f.by] = IF frame[f.by].n = f.n THEN @ + 1 ELSE @]
  /\ UNCHANGED <<callers, handlers, channels, host, dead, faults, limits, clean>>

NcpDiscards ==
  /\ Reaches("DATA") /\ Head(toNcp).num # expect
  /\ UNCHANGED <<callers, handlers, channels, host, toHost, ncp, history>>

NcpCallsBack ==
  /\ ~dead /\ limits.callbacks > 0
  /\ limits' = [limits EXCEPT !.callbacks = @ - 1]
  /\ Sends(Data(send, expect, None, None, 0))
  /\ UNCHANGED <<callers, handlers, channels, host, toNcp, expect, dead, faults, clean, ran>>

\* It repeats its last frame when that is refused, or not acknowledged in time.
NcpRepeats ==
  /\ \/ Reaches("NAK") /\ UNCHANGED limits
     \/ /\ ~dead /\ UNCHANGED toNcp /\ toHost = <<>> /\ unacked # NoFrame
        /\ limits.repeats > 0 /\ limits' = [limits EXCEPT !.repeats = @ - 1]
  /\ toHost' = IF unacked = NoFrame THEN toHost ELSE Append(toHost, [unacked EXCEPT !.ack = expect])
  /\ UNCHANGED <<callers, handlers, channels, host, ncp, faults, clean, ran>>

NcpResets ==
  /\ Reaches("RST")
  /\ expect' = 0 /\ send' = 0 /\ unacked' = NoFrame
  /\ toHost' = Append(toHost, Ctl("RSTACK"))
  /\ UNCHANGED <<callers, handlers, channels, host, dead, history>>

NcpDies ==
  /\ ~dead /\ Fault
  /\ dead' = TRUE /\ toNcp' = <<>>
  /\ UNCHANGED <<callers, handlers, channels, host, toHost, expect, send, unacked, limits, clean, ran>>

\* A frame to the NCP is lost, or garbled and refused.
LoseToNcp ==
  /\ toNcp # <<>> /\ Fault
  /\ toNcp' = Tail(toNcp)
  /\ UNCHANGED toHost \/ toHost' = Append(toHost, Ctl("NAK"))
  /\ clean' = FALSE
  /\ UNCHANGED <<callers, handlers, channels, host, ncp, limits, ran>>

\* A frame to the host is lost, or a DATA frame garbled.
LoseToHost ==
  /\ toHost # <<>> /\ Fault
  /\ \/ toHost' = Tail(toHost)
     \/ Head(toHost).type = "DATA" /\ toHost' = [toHost EXCEPT ![1] = Ctl("garbled")]
  /\ clean' = FALSE
  /\ UNCHANGED <<callers, handlers, channels, host, toNcp, ncp, limits, ran>>

-----------------------------------------------------------------------------

Ended(p) == pc[p] = "idle" /\ todo[p] = 0

\* A caller that fails its own Handler after its timer or Close has failed it
\* waits for a receiver that does not exist.
Hung(p) == pc[p] = "failing" /\ Full(frame[p].seq)

CallerStep(p) ==
  \/ sendEZSPCommand(p) \/ sendVersion(p) \/ WriteBytes(p) \/ WriteFails(p) \/ FailOwn(p) \/ Receive(p)
  \/ resetASHSession(p) \/ Retry(p)
  \/ ResetDevice(p) \/ ReadBootData(p) \/ ReadMoreBootData(p) \/ SendRST(p) \/ ReadRSTACK(p) \/ Drain(p)
TimerStep == \E s \in armed \cup failing : removeHandler(s) \/ fail(s)
Handing == fulfill \/ Retransmit
ReaderStep == handleData \/ sendNAK \/ handleNAK \/ handleRSTACK \/ Stolen
NcpStep == NcpRuns \/ NcpDiscards \/ NcpRepeats \/ NcpResets
Trouble == NcpCallsBack \/ NcpDies \/ LoseToNcp \/ LoseToHost \/ Close

Stopped == (\A p \in Caller : Ended(p) \/ Hung(p)) /\ UNCHANGED vars

Next ==
  \/ \E p \in Caller : CallerStep(p)
  \/ TimerStep \/ Handing \/ ReaderStep \/ NcpStep \/ Trouble \/ Stopped

Spec == Init /\ [][Next]_vars

\* The goroutines of the host run and its timers fire.  An NCP that stops
\* answering is one that died; until then it works through the line.
Fairness ==
  /\ \A p \in Caller : WF_vars(CallerStep(p))
  /\ WF_vars(TimerStep) /\ WF_vars(Handing) /\ WF_vars(ReaderStep) /\ WF_vars(NcpStep)

FairSpec == Spec /\ Fairness

-----------------------------------------------------------------------------
(* Properties.                                                             *)

\* The answer in a Handler's channel is the answer to the command it was
\* registered for, and the NCP ran that command, whatever was lost, late,
\* repeated or reset in between.
Matched ==
  \A p \in Caller : pc[p] = "receive" =>
    \A r \in cmds : r.seq = frame[p].seq => r.by = p /\ r.n = frame[p].n /\ ran[p] > 0

\* When every call is over and the line is quiet, and nothing was lost since
\* the session was last reset, the two sides agree on the numbers of the next
\* frames: the next command will not be discarded.
InStep ==
  (/\ \A p \in Caller : Ended(p)
   /\ toNcp = <<>> /\ toHost = <<>> /\ reader = NoFrame /\ reading /\ clean /\ ~closed /\ ~dead)
     => txSeq = expect /\ rxSeq = send

\* Every call ends and the read loop never stays stuck, whatever the NCP does,
\* unless the write of a call failed after its Handler had been failed already.
Finishes == \A p \in Caller : <>(Ended(p) \/ Hung(p))

Stage == [p \in Caller |-> IF pc[p] = "idle" THEN "idle" ELSE IF ran[p] > 0 THEN "ran" ELSE "called"]

\* The calls implement what Ezsp promises: a call is answered only if the NCP
\* ran its command after the call began.
Promise == INSTANCE Ezsp WITH st <- Stage, res <- outcome
Promised == Promise!Spec

=============================================================================

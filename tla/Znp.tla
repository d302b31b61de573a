-------------------------------- MODULE Znp ---------------------------------
(***************************************************************************)
(* The Z-Stack serial port and the controller on top of it                 *)
(* (pkg/zigbee-dongle/znp).                                                *)
(*                                                                         *)
(* A synchronous request (SREQ) registers a Handler under the header of    *)
(* its answer (SRSP), writes a frame and receives from the Handler's       *)
(* one-place channel.  Three producers put results there: the read loop, a *)
(* timer, and Close.  An indication (AREQ) that a request provokes is      *)
(* awaited through a second Handler registered before the request.         *)
(* Permanent Handlers feed goroutines that hand messages to the            *)
(* coordinator.                                                            *)
(*                                                                         *)
(* The work of a goroutine is a sequence of groups: a request, the         *)
(* indication it awaits, the headers the dongle answers with, the number   *)
(* of tries, and how the work goes on.                                     *)
(***************************************************************************)
EXTENDS Naturals, Sequences

CONSTANTS
  Proc,          \* goroutines that use the port: main, stop, reset, senders, interviews
  Interview,     \* the interviews among them
  Scenarios,     \* what they do: a set of functions [Proc -> Seq(Group)]
  Header,        \* frame headers
  Perm,          \* those with a permanent Handler
  Blocking,      \* those whose goroutine blocks on an unbuffered channel
  Burst,         \* bound: messages of one kind that wait to be taken
  MaxFault,      \* bound: serial reads and writes that fail
  None

VARIABLES
  work,          \* the scenario
  pos,           \* group and try a goroutine is at
  pc,            \* where in WriteCommandTimeout it is
  deferred,      \* Handlers whose fail() it deferred, last first
  table,         \* Port.handlers: the Handlers registered, each under its header
  armed,         \* one-off Handlers whose timer has not fired
  failing,       \* those whose timer has removed them and has still to fail them
  cmds, errs,    \* Handlers whose channel holds a command, an error
  wire,          \* frames the dongle has still to send, per header
  reader,        \* the Handler the read loop is fulfilling
  loop,          \* the read loop is running
  consumer,      \* the goroutines behind the permanent Handlers
  running,       \* the coordinator's running() has not returned
  closer, todo,  \* Close, and the Handlers it has still to fail
  faults,
  late,          \* history: Handlers that somebody had taken when their write failed
  panicked

goroutines == <<work, pos, pc, deferred>>
handlers   == <<table, armed, failing>>
channels   == <<cmds, errs>>
shutdown   == <<running, closer, todo>>
history    == <<faults, late>>
vars == <<goroutines, handlers, channels, wire, reader, loop, consumer, shutdown, history, panicked>>

-----------------------------------------------------------------------------
(* The controller's operations, as the groups of requests they make.       *)

\* skip: how far the work goes on when every try has failed, or 0 if it ends.
\* ends: whether it may also end by what the answer says, or by a write
\* between two tries that fails.
Group == [req : Header \cup {None}, ind : Header \cup {None}, answers : SUBSET Header,
          tries : Nat \ {0}, skip : Nat, ends : {"no", "answer", "retry"}]

Req(r)        == [req |-> r, ind |-> None, answers |-> {r}, tries |-> 1, skip |-> 0, ends |-> "no"]
ReqInd(r, i)  == [Req(r) EXCEPT !.ind = i, !.answers = {r, i}]
Skip(g, n)    == [g EXCEPT !.skip = n]
Tries(g, n)   == [g EXCEPT !.tries = n]
Repeat(n, g)  == [k \in 1 .. n |-> g]

HealthCheck == <<Skip(Req("version"), 1)>>

\* The second ping follows a magic byte for the boot loader.
Ping == [Tries(Skip(Req("ping"), 1), 2) EXCEPT !.ends = "retry"]
StartupFromApp == ReqInd("startup", "stateChange")
Permanent == [Req(None) EXCEPT !.answers = {}]
Start(coordinator, endpoints) ==
  <<Ping, Req("version"), Req("info")>>
    \o (IF coordinator THEN <<>> ELSE <<StartupFromApp>>)
    \o Repeat(endpoints, Req("register"))
    \o <<Permanent>>

\* A failure also passes over the n groups that depend on the result.
GetNetworkInfo(n) == <<Skip(Req("nwkInfo"), n + 2), Skip(Req("info"), n + 1)>>

\* A magic byte that cannot be written ends the work as a lost version does.
nvWrite == [Req("nvWrite") EXCEPT !.ends = "answer"]
FormNetwork(items) ==
  Repeat(items, nvWrite)
    \o <<[ReqInd(None, "resetInd") EXCEPT !.answers = {}], Req("version"), Req("info"), StartupFromApp>>
Reset == <<[Req("reset") EXCEPT !.answers = {"reset", "resetInd"}]>>

PermitJoining == <<Skip(Req("permitJoin"), 1)>>
Send          == <<Skip(Req("dataRequest"), 1)>>

\* Without active endpoints the interview is over.
NodeDescriptor(n)  == Tries(Skip(ReqInd("nodeDescReq", "nodeDesc"), 1), n)
ActiveEndpoints(n) == [Tries(ReqInd("activeEPReq", "activeEP"), n) EXCEPT !.ends = "answer"]
SimpleDescriptor   == Skip(ReqInd("simpleDescReq", "simpleDesc"), 1)
InterviewDevice(n, m, endpoints) ==
  <<NodeDescriptor(n), ActiveEndpoints(m)>> \o Repeat(endpoints, SimpleDescriptor)

ASSUME ProcAssumption == "main" \in Proc /\ None \notin Proc

\* Every group makes a request, awaits an indication or registers the
\* permanent Handlers.
ASSUME WorkAssumption ==
  \A w \in Scenarios : \A p \in Proc :
    /\ w[p] \in Seq(Group)
    /\ \A i \in DOMAIN w[p] :
         w[p][i].req = None => w[p][i].ind # None \/ w[p][i] = Permanent

\* Goroutines that run at the same time make different requests: the code has
\* nothing that would keep two of them from one header (port.go registers one
\* Handler per header and panics).
ASSUME HeadersAssumption ==
  \A w \in Scenarios : \A p, q \in Proc : p # q =>
    \A i \in DOMAIN w[p] : \A j \in DOMAIN w[q] : w[p][i].req # None => w[p][i].req # w[q][j].req

-----------------------------------------------------------------------------

\* A one-off Handler is known by who registered it and when, a permanent one
\* by its header.
Handler == [owner : Proc, g : Nat, t : Nat, kind : {"req", "ind"}]
             \cup [owner : {None}, g : {0}, t : {0}, kind : Perm]
ASSUME HandlerAssumption == None \notin Handler

PermHandler(c) == [owner |-> None, g |-> 0, t |-> 0, kind |-> c]
OneOff(h)   == h.owner # None
HeaderOf(h) == IF ~OneOff(h) THEN h.kind
               ELSE IF h.kind = "req" THEN work[h.owner][h.g].req ELSE work[h.owner][h.g].ind

At(p)     == work[p][pos[p].g]
The(p, k) == [owner |-> p, g |-> pos[p].g, t |-> pos[p].t, kind |-> k]

\* handlers[hd], as a set of at most one.
Under(hd) == {h \in table : HeaderOf(h) = hd}

\* Close holds handlerMutex for as long as it fails Handlers.
Unlocked == closer # "sweep"

One(b)  == IF b THEN 1 ELSE 0
Full(h) == h \in cmds \cup errs

Init ==
  /\ work \in Scenarios
  /\ pos = [p \in Proc |-> [g |-> 1, t |-> 1]]
  /\ pc = [p \in Proc |-> IF work[p] = <<>> THEN "ended" ELSE "begin"]
  /\ deferred = [p \in Proc |-> <<>>]
  /\ table = {} /\ armed = {} /\ failing = {}
  /\ cmds = {} /\ errs = {}
  /\ wire = [hd \in Header |-> 0]
  /\ reader = None /\ loop = TRUE
  /\ consumer = [c \in Perm |-> "off"]
  /\ running = TRUE /\ closer = "open" /\ todo = {}
  /\ faults = 0 /\ late = {}
  /\ panicked = FALSE

-----------------------------------------------------------------------------
(* Handlers.                                                               *)

registerHandlerUntimed(h) ==
  /\ Unlocked
  /\ panicked' = (Under(HeaderOf(h)) # {})
  /\ table' = IF panicked' THEN table ELSE table \cup {h}
  /\ UNCHANGED <<armed, failing>>

\* One Handler per header, or the program panics.
registerHandler(h) ==
  /\ Unlocked
  /\ panicked' = (Under(HeaderOf(h)) # {})
  /\ table' = IF panicked' THEN table ELSE table \cup {h}
  /\ armed' = IF panicked' THEN armed ELSE armed \cup {h}
  /\ UNCHANGED failing

\* fail blocks while the channel is full.
fail(h) == ~Full(h) /\ errs' = errs \cup {h} /\ UNCHANGED cmds

removeHandlerNot(h) ==
  /\ failing' = IF h \in table THEN failing \cup {h} ELSE failing
  /\ UNCHANGED table

\* The Handler may have been answered, and its header registered again, since
\* the timer was started: removeHandler looks for this very Handler.
removeHandler(h) ==
  /\ table' = table \ {h}
  /\ failing' = IF h \in table THEN failing \cup {h} ELSE failing

TimerFires(h) ==
  /\ Unlocked
  /\ removeHandler(h)
  /\ armed' = armed \ {h}
  /\ UNCHANGED <<goroutines, channels, wire, reader, loop, consumer, shutdown, history, panicked>>

TimerFails(h) ==
  /\ fail(h)
  /\ failing' = failing \ {h}
  /\ UNCHANGED <<goroutines, table, armed, wire, reader, loop, consumer, shutdown, history, panicked>>

-----------------------------------------------------------------------------
(* The goroutines that make requests.                                      *)

Ends(p) == pc' = [pc EXCEPT ![p] = "defer"] /\ UNCHANGED pos

GoesOn(p, n) ==
  /\ pos' = [pos EXCEPT ![p] = [g |-> @.g + n, t |-> 1]]
  /\ pc' = [pc EXCEPT ![p] = IF pos[p].g + n <= Len(work[p]) THEN "begin" ELSE "defer"]

Succeeded(p) ==
  \/ GoesOn(p, 1)
  \/ At(p).ends = "answer" /\ Ends(p)

Failed(p) ==
  \/ /\ pos[p].t < At(p).tries
     /\ pos' = [pos EXCEPT ![p].t = @ + 1]
     /\ pc' = [pc EXCEPT ![p] = "begin"]
  \/ pos[p].t < At(p).tries /\ At(p).ends = "retry" /\ Ends(p)
  \/ pos[p].t = At(p).tries /\ At(p).skip > 0 /\ GoesOn(p, At(p).skip)
  \/ pos[p].t = At(p).tries /\ At(p).skip = 0 /\ Ends(p)

\* running() has reached its event loop.
EventLoop == running /\ pc["main"] = "ended" /\ pos["main"].g > Len(work["main"])

\* FormNetwork asks for the reset in a goroutine of its own, once the Handler
\* of the indication is registered.
ResetAsked == \E g \in 1 .. Len(work["main"]) :
  /\ work["main"][g].ind = "resetInd"
  /\ pos["main"].g > g \/ (pos["main"].g = g /\ pc["main"] # "begin")

Ready(p) ==
  /\ p = "stop" => ~running
  /\ p = "reset" => ResetAsked
  /\ p \in Interview => EventLoop \/ pos[p] # [g |-> 1, t |-> 1]

\* The Handler of the awaited indication is registered first.  An interview
\* defers a fail() of it.
Begin(p) ==
  /\ pc[p] = "begin" /\ Ready(p) /\ At(p) # Permanent
  /\ \/ /\ At(p).ind = None
        /\ pc' = [pc EXCEPT ![p] = "call"]
        /\ UNCHANGED <<handlers, deferred, panicked>>
     \/ /\ At(p).ind # None
        /\ registerHandler(The(p, "ind"))
        /\ deferred' = IF p \in Interview
                         THEN [deferred EXCEPT ![p] = <<The(p, "ind")>> \o @] ELSE deferred
        /\ pc' = [pc EXCEPT ![p] = IF panicked' THEN @
                                   ELSE IF At(p).req = None THEN "await" ELSE "call"]
  /\ UNCHANGED <<work, pos, channels, wire, reader, loop, consumer, shutdown, history>>

\* The Handler of the answer is registered before the frame is written.
WriteCommandTimeout(p) ==
  /\ pc[p] = "call"
  /\ registerHandler(The(p, "req"))
  /\ pc' = IF panicked' THEN pc ELSE [pc EXCEPT ![p] = "write"]
  /\ UNCHANGED <<work, pos, deferred, channels, wire, reader, loop, consumer, shutdown, history>>

\* The dongle may leave a request unanswered, and the parser reject an answer.
Write(p) ==
  /\ pc[p] = "write" /\ closer # "closed"
  /\ \E answers \in SUBSET At(p).answers :
       wire' = [hd \in Header |-> wire[hd] + One(hd \in answers)]
  /\ pc' = [pc EXCEPT ![p] = "receive"]
  /\ UNCHANGED <<work, pos, deferred, handlers, channels, reader, loop, consumer, shutdown,
                 history, panicked>>

\* Whatever Handler has the header leaves the table.  The goroutine's own may
\* be gone already, taken by its timer, by a stray frame or by Close.
WriteFails(p) ==
  /\ pc[p] = "write" /\ Unlocked
  /\ \/ closer = "closed" /\ UNCHANGED faults
     \/ closer # "closed" /\ faults < MaxFault /\ faults' = faults + 1
  /\ table' = table \ Under(At(p).req)
  /\ late' = IF The(p, "req") \in table THEN late ELSE late \cup {The(p, "req")}
  /\ pc' = [pc EXCEPT ![p] = "failing"]
  /\ UNCHANGED <<work, pos, deferred, armed, failing, channels, wire, reader, loop, consumer,
                 shutdown, panicked>>

\* Its fail() has no receiver.
FailOwn(p) ==
  /\ pc[p] = "failing"
  /\ fail(The(p, "req"))
  /\ Failed(p)
  /\ UNCHANGED <<work, deferred, handlers, wire, reader, loop, consumer, shutdown, history, panicked>>

take(h) == Full(h) /\ cmds' = cmds \ {h} /\ errs' = errs \ {h}

Receive(p) ==
  /\ pc[p] = "receive"
  /\ take(The(p, "req"))
  /\ \/ The(p, "req") \in errs /\ Failed(p)
     \/ /\ The(p, "req") \in cmds /\ At(p).ind # None
        /\ pc' = [pc EXCEPT ![p] = "await"] /\ UNCHANGED pos
     \/ The(p, "req") \in cmds /\ At(p).ind = None /\ Succeeded(p)
  /\ UNCHANGED <<work, deferred, handlers, wire, reader, loop, consumer, shutdown, history, panicked>>

\* An indication that reports an error status counts as a failed try.
Await(p) ==
  /\ pc[p] = "await"
  /\ take(The(p, "ind"))
  /\ \/ Failed(p)
     \/ The(p, "ind") \in cmds /\ Succeeded(p)
  /\ UNCHANGED <<work, deferred, handlers, wire, reader, loop, consumer, shutdown, history, panicked>>

\* Every try of an interview deferred a fail().
Defer(p) ==
  /\ pc[p] = "defer"
  /\ \/ /\ deferred[p] = <<>>
        /\ pc' = [pc EXCEPT ![p] = "ended"]
        /\ UNCHANGED <<channels, deferred>>
     \/ /\ deferred[p] # <<>>
        /\ fail(Head(deferred[p]))
        /\ deferred' = [deferred EXCEPT ![p] = Tail(@)]
        /\ UNCHANGED pc
  /\ UNCHANGED <<work, pos, handlers, wire, reader, loop, consumer, shutdown, history, panicked>>

-----------------------------------------------------------------------------
(* The dongle and the read loop.                                           *)

Backlog(c) == wire[c] + One(Full(PermHandler(c))) + One(reader = PermHandler(c))
                + One(consumer[c] = "send")

Arrive(c) ==
  /\ consumer[c] # "off" /\ Backlog(c) < Burst
  /\ wire' = [wire EXCEPT ![c] = @ + 1]
  /\ UNCHANGED <<goroutines, handlers, channels, reader, loop, consumer, shutdown, history, panicked>>

\* A one-off Handler leaves the table as soon as a frame matches its header.
handleFrame(hd) ==
  /\ wire[hd] > 0 /\ loop /\ reader = None /\ Unlocked
  /\ wire' = [wire EXCEPT ![hd] = @ - 1]
  /\ \/ Under(hd) = {} /\ UNCHANGED <<reader, table>>
     \/ \E h \in Under(hd) : /\ reader' = h
                            /\ table' = IF OneOff(h) THEN table \ {h} ELSE table
  /\ UNCHANGED <<goroutines, armed, failing, channels, loop, consumer, shutdown, history, panicked>>

\* fulfill blocks while the channel is full, and then stops the timer.
fulfill ==
  /\ reader # None /\ ~Full(reader)
  /\ cmds' = cmds \cup {reader}
  /\ armed' = armed \ {reader}
  /\ reader' = None
  /\ UNCHANGED <<goroutines, table, failing, errs, wire, loop, consumer, shutdown, history, panicked>>

\* The loop ends when the port is closed, and when a read fails.
LoopExits ==
  /\ loop /\ reader = None
  /\ \/ closer # "open" /\ UNCHANGED faults
     \/ closer = "open" /\ faults < MaxFault /\ faults' = faults + 1
  /\ loop' = FALSE
  /\ UNCHANGED <<goroutines, handlers, channels, wire, reader, consumer, shutdown, late, panicked>>

-----------------------------------------------------------------------------
(* The permanent Handlers and the goroutines behind them.                  *)

\* The last step of Start.
RegisterPermanent ==
  /\ pc["main"] = "begin" /\ At("main") = Permanent /\ Unlocked
  /\ panicked' = (\E c \in Perm : Under(c) # {})
  /\ table' = IF panicked' THEN table ELSE table \cup {PermHandler(c) : c \in Perm}
  /\ consumer' = [c \in Perm |-> "receive"]
  /\ GoesOn("main", 1)
  /\ UNCHANGED <<work, deferred, armed, failing, channels, wire, reader, loop, shutdown, history>>

\* An error ends the goroutine.  A join is handed on without blocking, and
\* dropped when the coordinator is behind.
Consume(c) ==
  /\ consumer[c] = "receive"
  /\ take(PermHandler(c))
  /\ consumer' = [consumer EXCEPT ![c] = IF PermHandler(c) \in errs THEN "exited"
                                         ELSE IF c \in Blocking THEN "send" ELSE @]
  /\ UNCHANGED <<goroutines, handlers, wire, reader, loop, shutdown, history, panicked>>

\* The coordinator's event loop takes the message.
Deliver(c) ==
  /\ consumer[c] = "send" /\ EventLoop
  /\ consumer' = [consumer EXCEPT ![c] = "receive"]
  /\ UNCHANGED <<goroutines, handlers, channels, wire, reader, loop, shutdown, history, panicked>>

-----------------------------------------------------------------------------
(* running() returns, stopping() forbids joining and closes the port.      *)

StopRunning ==
  /\ running /\ pc["main"] = "ended"
  /\ running' = FALSE
  /\ UNCHANGED <<goroutines, handlers, channels, wire, reader, loop, consumer, closer, todo, history,
                 panicked>>

Close ==
  /\ closer = "open" /\ ~running /\ pc["stop"] = "ended"
  /\ closer' = "done"
  /\ UNCHANGED <<goroutines, handlers, channels, wire, reader, loop, consumer, running, todo, history,
                 panicked>>

CloseLocks ==
  /\ closer = "done"
  /\ closer' = "sweep"
  /\ todo' = table
  /\ UNCHANGED <<goroutines, handlers, channels, wire, reader, loop, consumer, running, history,
                 panicked>>

CloseFailsAgain(h) ==
  /\ closer = "sweep" /\ fail(h)
  /\ UNCHANGED <<goroutines, handlers, wire, reader, loop, consumer, shutdown, history, panicked>>

CloseFails(h) ==
  /\ closer = "sweep" /\ fail(h)
  /\ todo' = todo \ {h}
  /\ UNCHANGED <<goroutines, handlers, wire, reader, loop, consumer, running, closer, history, panicked>>

CloseUnlocks ==
  /\ closer = "sweep" /\ todo = {}
  /\ table' = {}
  /\ closer' = "closed"
  /\ UNCHANGED <<goroutines, armed, failing, channels, wire, reader, loop, consumer, running, todo,
                 history, panicked>>

-----------------------------------------------------------------------------

Runs(p) == \/ Begin(p) \/ WriteCommandTimeout(p) \/ Write(p) \/ WriteFails(p) \/ FailOwn(p)
           \/ Receive(p) \/ Await(p) \/ Defer(p)

Next ==
  /\ ~panicked
  /\ \/ \E p \in Proc : Runs(p)
     \/ \E h \in armed : TimerFires(h)
     \/ \E h \in failing : TimerFails(h)
     \/ \E c \in Perm : Arrive(c) \/ Consume(c) \/ Deliver(c)
     \/ \E hd \in Header : handleFrame(hd)
     \/ fulfill \/ LoopExits \/ RegisterPermanent
     \/ StopRunning \/ Close \/ CloseLocks \/ CloseUnlocks
     \/ \E h \in todo : CloseFails(h)

Spec == Init /\ [][Next]_vars

\* Goroutines, timers and Close run.  The read loop need not, nor the dongle,
\* the network and whoever stops the program.
Fairness ==
  /\ WF_vars(~panicked /\ \E p \in Proc : Runs(p))
  /\ WF_vars(~panicked /\ \E h \in armed : TimerFires(h))
  /\ WF_vars(~panicked /\ \E h \in failing : TimerFails(h))
  /\ WF_vars(~panicked /\ fulfill)
  /\ WF_vars(~panicked /\ (CloseUnlocks \/ \E h \in todo : CloseFails(h)))

FairSpec == Spec /\ Fairness

-----------------------------------------------------------------------------
(* Properties.                                                             *)

\* Who owes a Handler its result: the table (of which Close, while it sweeps
\* and the table is locked, has still to fail a part), the read loop, the
\* timer, or the goroutine whose write failed.
InTable == IF closer = "sweep" THEN todo ELSE table
Reading == {reader} \ {None}
Writing == {The(p, "req") : p \in {q \in Proc : pc[q] = "failing"}}
Owed    == InTable \cup Reading \cup failing \cup Writing

\* A request Handler whose write did not fail too late.
Tracked(h) == OneOff(h) /\ h.kind = "req" /\ h \notin late
Apart(S, T) == \A h \in S \cap T : ~Tracked(h)

\* At most one of the read loop, the timer, Close and the writer answers for a
\* request: whoever removed its Handler from the table under handlerMutex.  A
\* second one would block for ever on the full one-place channel.
OneOwner ==
  /\ Apart(InTable, Reading \cup failing \cup Writing \cup cmds \cup errs)
  /\ Apart(Reading, failing \cup Writing \cup cmds \cup errs)
  /\ Apart(failing, Writing \cup cmds \cup errs)
  /\ Apart(Writing, cmds \cup errs)
  /\ Apart(cmds, errs)

\* The specification of a call, implemented by the request Handlers.
Unsent == {The(p, "req") : p \in {q \in Proc : pc[q] = "write"}}
Requests == UNION {UNION {UNION {[owner : {p}, g : {g}, t : 1..w[p][g].tries, kind : {"req"}] :
                                   g \in 1..Len(w[p])} : p \in Proc} : w \in Scenarios}
Promise == INSTANCE OneShot WITH
             Call     <- Requests,
             unsent   <- {h \in Unsent : Tracked(h)},
             pending  <- {h \in Owed : Tracked(h)},
             answered <- {h \in cmds : Tracked(h)},
             failed   <- {h \in errs : Tracked(h)}

\* What callers of WriteCommandTimeout rely on, whatever the order in which
\* the read loop, the timers, Close and failing writes get at a Handler: a
\* request that was written has one outcome, an answer or an error, which is
\* never replaced, lost or delivered a second time (port.go, handleFrame,
\* removeHandler and fail).
Promised == Promise!Spec

\* Every request and every awaited indication ends, with an answer or with the
\* error of its timer, even when the dongle is silent or the read loop has
\* ended (RegisterOneOffHandlerWithTimeout).
Returns ==
  \A p \in Proc : pc[p] \in {"receive", "await"}
                    ~> pc[p] \notin {"receive", "await"} \/ closer # "open" \/ panicked

\* "Fail all pending handlers so they don't block forever" (port.go:159): once
\* Close holds handlerMutex it finishes, provided no channel it has to write
\* to is full or about to be filled by a goroutine that needs no lock.
Unobstructed ==
  /\ \A h \in todo : ~Full(h) /\ \A p \in Proc : \A i \in DOMAIN deferred[p] : deferred[p][i] # h
  /\ \A c \in Perm : reader # PermHandler(c)
CloseEnds == (closer = "sweep" /\ Unobstructed) ~> (closer = "closed" \/ panicked)

=============================================================================

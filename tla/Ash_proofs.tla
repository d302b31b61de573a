----------------------------- MODULE Ash_proofs ------------------------------
(***************************************************************************)
(* Proofs about module Ash, for any number of callers and commands, any    *)
(* modulus of the frame numbers, and any number of lost, garbled, repeated *)
(* and late frames: the answer in a Handler's channel is the one to its    *)
(* command (Matched), and the calls implement what Ezsp promises.          *)
(*                                                                         *)
(* Every frame that is kept, on the line or in a channel says which call   *)
(* of which caller it belongs to.  Three facts about it are inductive: its *)
(* sequence number is not that of another call in progress, it is of this  *)
(* or an earlier call of its caller, and if it is an answer and its call   *)
(* is still in progress, the NCP has run the command.                      *)
(***************************************************************************)
EXTENDS Ash, TLAPS

Opening == {"start", "bootData", "bootText", "rst", "rstack", "drain", "version"}
Sending == {"write", "receive", "failing", "reset", "retry"}

Types == {"none", "DATA", "resend", "garbled", "NAK", "RST", "RSTACK", "text"}
Frame == [type : Types, num : Nat, ack : Nat, seq : Nat \cup {None}, by : Caller \cup {None}, n : Nat]

\* The answers that are on their way or have arrived, and all copies of
\* commands and answers outside of the calls themselves.
Answers == Frames(toHost) \cup cmds \cup {unacked} \cup {f \in {reader} : f.type = "DATA"}
Copies == Frames(toNcp) \cup {last, reader} \cup Answers
Carried == Copies \cup {frame[p] : p \in Caller}

CallsTyped ==
  /\ pc \in [Caller -> Opening \cup Sending \cup {"idle"}]
  /\ todo \in [Caller -> Nat] /\ frame \in [Caller -> Frame] /\ ran \in [Caller -> Nat]
  /\ outcome = [p \in Caller |-> outcome[p]]
  /\ sequence \in Nat

LineTyped ==
  /\ toNcp \in Seq(Frame) /\ toHost \in Seq(Frame)
  /\ reader \in Frame /\ last \in Frame /\ unacked \in Frame /\ cmds \subseteq Frame
  /\ txSeq \in Nat /\ rxSeq \in Nat /\ expect \in Nat /\ send \in Nat

\* A caller has a frame, its own, exactly while it sends a command.
Placed ==
  \A p \in Caller :
    /\ pc[p] \in Sending => /\ frame[p].seq \in Nat /\ frame[p].by = p
                            /\ frame[p].n = todo[p] /\ todo[p] > 0
    /\ pc[p] \notin Sending => frame[p] = NoFrame
    /\ pc[p] \in Opening => todo[p] > 0 /\ \A q \in Caller : pc[q] \in Opening => p = q

\* The frame f is of a call that has begun; the calls of a caller count down
\* todo; no call in progress has its number but its own; and number 0 is not
\* in use before Start sends VERSION.
Owned(f) ==
  f.seq # None =>
    /\ f.seq \in 0 .. sequence /\ f.by \in Caller /\ f.n \in Nat \ {0} /\ f.n >= todo[f.by]
    /\ pc[f.by] \notin Sending => f.n > todo[f.by]
    /\ \A p \in Caller : frame[p].seq = f.seq => f.by = p /\ f.n = frame[p].n
    /\ \A p \in Caller : pc[p] \in Opening => f.seq # 0

\* If f is an answer to a call in progress, the NCP has run its command.
Answered(f) == (f.seq # None /\ f.n = frame[f.by].n) => ran[f.by] > 0

IInv ==
  /\ CallsTyped /\ LineTyped /\ Placed
  /\ \A p \in Caller : Owned(frame[p])
  /\ \A f \in Copies : Owned(f)
  /\ \A f \in Answers : Answered(f)

-----------------------------------------------------------------------------
(* Frames in a sequence.                                                   *)

\* What is on a line after a frame was put on it or taken off it.
LEMMA OnTheLine ==
  ASSUME NEW q \in Seq(Frame), NEW f \in Frame
  PROVE  /\ Append(q, f) \in Seq(Frame)
         /\ Frames(Append(q, f)) \subseteq Frames(q) \cup {f}
         /\ q # <<>> => /\ Tail(q) \in Seq(Frame) /\ Frames(Tail(q)) \subseteq Frames(q)
                        /\ Head(q) \in Frames(q) /\ Head(q) \in Frame
                        /\ [q EXCEPT ![1] = f] \in Seq(Frame)
                        /\ Frames([q EXCEPT ![1] = f]) \subseteq Frames(q) \cup {f}
         /\ <<>> \in Seq(Frame) /\ Frames(<<>>) = {}
  <1>1. Append(q, f) \in Seq(Frame) /\ Frames(Append(q, f)) \subseteq Frames(q) \cup {f}
    BY DEF Frames
  <1>2. ASSUME q # <<>>
        PROVE  /\ Tail(q) \in Seq(Frame) /\ Frames(Tail(q)) \subseteq Frames(q)
               /\ Head(q) \in Frames(q) /\ Head(q) \in Frame
    BY <1>2 DEF Frames
  <1>3. ASSUME q # <<>>
        PROVE  /\ [q EXCEPT ![1] = f] \in Seq(Frame)
               /\ Frames([q EXCEPT ![1] = f]) \subseteq Frames(q) \cup {f}
    <2> DEFINE r == [q EXCEPT ![1] = f]
    <2>1. DOMAIN r = DOMAIN q /\ \A i \in DOMAIN q : r[i] = IF i = 1 THEN f ELSE q[i]
      OBVIOUS
    <2>2. r \in Seq(Frame)
      BY <1>3
    <2>3. Frames(r) \subseteq Frames(q) \cup {f}
      BY <2>1 DEF Frames
    <2> QED BY <2>2, <2>3, Zenon
  <1>4. <<>> \in Seq(Frame) /\ Frames(<<>>) = {}
    BY DEF Frames
  <1> QED BY <1>1, <1>2, <1>3, <1>4, Zenon

\* Frames without a sequence number belong to no call.
LEMMA Unnumbered ==
  /\ \A t \in Types : Ctl(t) \in Frame /\ Ctl(t).seq = None /\ Ctl(t).type = t
  /\ NoFrame \in Frame /\ NoFrame.seq = None /\ NoFrame.n = 0 /\ NoFrame.type = "none"
  /\ \A a, b \in Nat : Data(a, b, None, None, 0) \in Frame /\ Data(a, b, None, None, 0).seq = None
  <1>1. ASSUME NEW a \in Nat, NEW b \in Nat
        PROVE  Data(a, b, None, None, 0) \in Frame /\ Data(a, b, None, None, 0).seq = None
    BY DEF Data, Frame, Types
  <1>2. \A t \in Types : Ctl(t) = [type |-> t, num |-> 0, ack |-> 0, seq |-> None, by |-> None, n |-> 0]
    BY DEF Ctl, Data
  <1>3. \A t \in Types : Ctl(t) \in Frame /\ Ctl(t).seq = None /\ Ctl(t).type = t /\ Ctl(t).n = 0
    BY <1>2 DEF Frame
  <1>4. NoFrame \in Frame /\ NoFrame.seq = None /\ NoFrame.n = 0 /\ NoFrame.type = "none"
    BY <1>3 DEF NoFrame, Types
  <1> QED BY <1>1, <1>3, <1>4

-----------------------------------------------------------------------------
(* Which copies there are after a step, and whose they are.                *)

Same(f, g) == f.seq = g.seq /\ f.by = g.by /\ f.n = g.n

\* f is about no call, or about the same call as one of the frames of S.
Copied(f, S) == f.seq = None \/ \E g \in S : Same(f, g)

\* A step on the line, by the read loop or by the NCP keeps the invariant if it
\* only moves and copies frames, and answers only what was run.
LEMMA CopiesKeep ==
  ASSUME IInv, CallsTyped', LineTyped', Placed', UNCHANGED <<frame, todo, sequence>>,
         \A p \in Caller : ran'[p] >= ran[p],
         \A p \in Caller : (pc[p] \in Sending <=> pc'[p] \in Sending) /\ (pc'[p] \in Opening => pc[p] \in Opening),
         \A f \in Copies' : Copied(f, Carried),
         \A f \in Answers' : Copied(f, Answers) \/ Answered(f)'
  PROVE  IInv'
  <1>1. ASSUME NEW f, Owned(f)
        PROVE  Owned(f)'
    BY <1>1 DEF Owned
  <1>2. ASSUME NEW f, Owned(f), Answered(f)
        PROVE  Answered(f)'
    BY <1>2 DEF Owned, Answered, IInv, CallsTyped
  <1>3. ASSUME NEW p \in Caller
        PROVE  Owned(frame[p])'
    BY <1>1 DEF IInv
  <1>4. ASSUME NEW f \in Copies'
        PROVE  Owned(f)'
    <2>1. CASE f.seq = None
      BY <2>1 DEF Owned
    <2>2. ASSUME NEW g \in Carried, Same(f, g)
          PROVE  Owned(f)'
      <3>1. Owned(g)
        BY DEF IInv, Carried
      <3>2. Owned(f)
        BY <3>1, <2>2 DEF Owned, Same
      <3> QED BY <3>2, <1>1
    <2> QED BY <2>1, <2>2 DEF Copied
  <1>5. ASSUME NEW f \in Answers'
        PROVE  Answered(f)'
    <2>1. CASE f.seq = None
      BY <2>1 DEF Answered
    <2>2. ASSUME NEW g \in Answers, Same(f, g)
          PROVE  Answered(f)'
      <3>1. Owned(g) /\ Answered(g)
        BY DEF IInv, Copies
      <3>2. Owned(f) /\ Answered(f)
        BY <3>1, <2>2 DEF Owned, Answered, Same
      <3> QED BY <3>2, <1>2
    <2> QED BY <2>1, <2>2 DEF Copied
  <1> QED BY <1>3, <1>4, <1>5 DEF IInv

\* A call that registers a Handler under a new number keeps the invariant.  Its
\* frame is of the same call as before the retry, or of a call no frame is of.
LEMMA RegisterKeeps ==
  ASSUME IInv, CallsTyped', NEW p \in Caller, NEW s \in Nat, registerHandler(p, s),
         UNCHANGED <<todo, channels, host, line, ncp>>, todo[p] > 0,
         \/ s = sequence + 1 /\ sequence' = s
         \/ s = 0 /\ sequence' = sequence /\ pc[p] \in Opening,
         pc[p] \in Sending => ran'[p] = ran[p],
         \A q \in Caller : q # p => ran'[q] = ran[q]
  PROVE  IInv'
  <1> DEFINE d == Data(txSeq, rxSeq, s, p, todo[p])
  <1>1. LineTyped' /\ Copies' = Copies /\ Answers' = Answers
    BY DEF IInv, LineTyped, Copies, Answers, channels, host, loop, numbers, line, ncp
  <1>2. /\ frame'[p] = d /\ d.seq = s /\ d.by = p /\ d.n = todo[p] /\ pc'[p] = "write"
        /\ \A q \in Caller : q # p => frame'[q] = frame[q] /\ pc'[q] = pc[q]
    BY DEF registerHandler, Goes, IInv, CallsTyped, Data
  <1>3. Placed'
    BY <1>2 DEF IInv, Placed, Sending, Opening
  <1>4. ASSUME NEW f, Owned(f), f.seq # None
        PROVE  f.seq # s
    BY <1>4, NoneAssumption DEF Owned, IInv, CallsTyped
  <1>5. ASSUME NEW f, Owned(f), f.seq # None
        PROVE  Owned(f)'
    <2>1. f.seq \in 0 .. sequence'
      BY <1>5 DEF IInv, CallsTyped, Owned
    <2>2. f.by \in Caller /\ f.n \in Nat \ {0} /\ f.n >= todo'[f.by] /\ (pc'[f.by] \notin Sending => f.n > todo'[f.by])
      BY <1>5, <1>2 DEF Owned, Sending
    <2>3. \A q \in Caller : frame'[q].seq = f.seq => f.by = q /\ f.n = frame'[q].n
      BY <1>5, <1>2, <1>4 DEF Owned
    <2>4. \A q \in Caller : pc'[q] \in Opening => f.seq # 0
      BY <1>5, <1>2 DEF Owned, Opening
    <2> QED BY <2>1, <2>2, <2>3, <2>4 DEF Owned
  <1>6. ASSUME NEW f, Owned(f), Answered(f), f.seq # None
        PROVE  Answered(f)'
    <2>1. CASE f.by = p
      <3>1. CASE pc[p] \in Sending
        BY <3>1, <2>1, <1>6, <1>2 DEF Answered, IInv, Placed
      <3>2. CASE pc[p] \notin Sending
        BY <3>2, <2>1, <1>6, <1>2 DEF Owned, Answered, IInv, CallsTyped
      <3> QED BY <3>1, <3>2
    <2>2. CASE f.by # p
      BY <2>2, <1>6, <1>2 DEF Owned, Answered
    <2> QED BY <2>1, <2>2
  <1>7. ASSUME NEW q \in Caller
        PROVE  Owned(frame[q])'
    <2>1. CASE q = p
      <3>1. d.seq \in 0 .. sequence' /\ d.n \in Nat \ {0} /\ d.n >= todo'[p]
        BY <1>2 DEF IInv, CallsTyped
      <3>2. ASSUME NEW r \in Caller, frame'[r].seq = d.seq
            PROVE  r = p
        <4>1. CASE r # p
          <5>1. Owned(frame[r]) /\ frame[r].seq = s /\ s # None
            BY <4>1, <3>2, <1>2, NoneAssumption DEF IInv
          <5> QED BY <5>1, <1>4
        <4> QED BY <4>1
      <3>3. \A r \in Caller : pc'[r] \in Opening => d.seq # 0
        BY <1>2 DEF IInv, Placed, Opening, CallsTyped
      <3>4. pc'[p] \in Sending
        BY <1>2 DEF Sending
      <3> QED BY <2>1, <3>1, <3>2, <3>3, <3>4, <1>2 DEF Owned
    <2>2. CASE q # p
      <3>1. Owned(frame[q]) /\ frame'[q] = frame[q]
        BY <2>2, <1>2 DEF IInv
      <3>2. CASE frame[q].seq = None
        BY <3>1, <3>2 DEF Owned
      <3>3. CASE frame[q].seq # None
        BY <3>1, <3>3, <1>5
      <3> QED BY <3>2, <3>3
    <2> QED BY <2>1, <2>2
  <1>8. \A f \in Copies' : Owned(f)'
    BY <1>1, <1>5 DEF IInv, Owned
  <1>9. \A f \in Answers' : Answered(f)'
    BY <1>1, <1>6, Zenon DEF IInv, Copies, Answered
  <1> QED BY <1>1, <1>3, <1>7, <1>8, <1>9 DEF IInv

\* The end of a call, or of Start, keeps the invariant: every frame of the
\* caller is then of an earlier call.
LEMMA EndKeeps ==
  ASSUME IInv, CallsTyped', LineTyped', NEW p \in Caller, pc[p] # "idle",
         pc' = [pc EXCEPT ![p] = "idle"], frame' = [frame EXCEPT ![p] = NoFrame],
         todo'[p] < todo[p], \A q \in Caller : q # p => todo'[q] = todo[q],
         UNCHANGED <<sequence, ran>>,
         \A f \in Copies' : Copied(f, Carried),
         \A f \in Answers' : Copied(f, Answers) \/ Answered(f)'
  PROVE  IInv'
  <1>1. /\ frame'[p] = NoFrame /\ pc'[p] = "idle"
        /\ \A q \in Caller : q # p => frame'[q] = frame[q] /\ pc'[q] = pc[q]
    BY DEF IInv, CallsTyped
  <1>2. Placed'
    BY <1>1 DEF IInv, Placed, Sending, Opening
  <1>3. ASSUME NEW f, Owned(f), f.seq # None
        PROVE  Owned(f)'
    <2>1. f.by \in Caller /\ f.n \in Nat \ {0} /\ f.n >= todo'[f.by] /\ (pc'[f.by] \notin Sending => f.n > todo'[f.by])
      <3>1. CASE f.by = p
        BY <3>1, <1>3 DEF Owned, CallsTyped, IInv
      <3>2. CASE f.by # p
        BY <3>2, <1>3, <1>1 DEF Owned
      <3> QED BY <3>1, <3>2
    <2>2. \A q \in Caller : frame'[q].seq = f.seq => f.by = q /\ f.n = frame'[q].n
      BY <1>3, <1>1, Unnumbered DEF Owned
    <2>3. \A q \in Caller : pc'[q] \in Opening => f.seq # 0
      BY <1>3, <1>1 DEF Owned, Opening
    <2> QED BY <1>3, <2>1, <2>2, <2>3 DEF Owned
  <1>4. ASSUME NEW f, Owned(f), Answered(f), f.seq # None
        PROVE  Answered(f)'
    <2>1. f.by = p => f.n # frame'[f.by].n
      BY <1>4, <1>1, Unnumbered DEF Owned
    <2> QED BY <2>1, <1>4, <1>1 DEF Owned, Answered
  <1>5. ASSUME NEW q \in Caller
        PROVE  Owned(frame[q])'
    <2>1. CASE q = p
      BY <2>1, <1>1, Unnumbered DEF Owned
    <2>2. CASE q # p
      <3>1. Owned(frame[q]) /\ frame'[q] = frame[q]
        BY <2>2, <1>1 DEF IInv
      <3>2. CASE frame[q].seq = None
        BY <3>1, <3>2 DEF Owned
      <3>3. CASE frame[q].seq # None
        BY <3>1, <3>3, <1>3
      <3> QED BY <3>2, <3>3
    <2> QED BY <2>1, <2>2
  <1>6. ASSUME NEW f \in Copies'
        PROVE  Owned(f)'
    <2>1. CASE f.seq = None
      BY <2>1, Zenon DEF Owned
    <2>2. ASSUME NEW g \in Carried, Same(f, g), f.seq # None
          PROVE  Owned(f)'
      <3>1. Owned(g)
        BY Zenon DEF IInv, Carried
      <3>2. Owned(f)
        BY <3>1, <2>2 DEF Owned, Same
      <3> QED BY <3>2, <2>2, <1>3
    <2> QED BY <2>1, <2>2 DEF Copied
  <1>7. ASSUME NEW f \in Answers'
        PROVE  Answered(f)'
    <2>1. CASE f.seq = None
      BY <2>1, Zenon DEF Answered
    <2>2. ASSUME NEW g \in Answers, Same(f, g), f.seq # None
          PROVE  Answered(f)'
      <3>1. Owned(g) /\ Answered(g)
        BY DEF IInv, Copies
      <3>2. Owned(f) /\ Answered(f)
        BY <3>1, <2>2 DEF Owned, Answered, Same
      <3> QED BY <3>2, <2>2, <1>4
    <2> QED BY <2>1, <2>2, Zenon DEF Copied
  <1> QED BY <1>2, <1>5, <1>6, <1>7 DEF IInv

-----------------------------------------------------------------------------
(* The pieces of the line and of the read loop.                            *)

NewAnswer(f) == Copied(f, Answers) \/ (Copied(f, Carried) /\ Answered(f)')

NcpLine == toNcp' \in Seq(Frame) /\ \A f \in Frames(toNcp)' : Copied(f, Carried)
HostLine == toHost' \in Seq(Frame) /\ \A f \in Frames(toHost)' : NewAnswer(f)
Loop == /\ reader' \in Frame /\ last' \in Frame /\ Copied(reader', Carried) /\ Copied(last', Carried)
        /\ reader'.type = "DATA" => Copied(reader', Answers)
Rest == /\ unacked' \in Frame /\ cmds' \subseteq Frame /\ \A f \in cmds' \cup {unacked'} : NewAnswer(f)
        /\ txSeq' \in Nat /\ rxSeq' \in Nat /\ expect' \in Nat /\ send' \in Nat

\* A frame that is among the answers, or that belongs to no call, is no new
\* answer to a call.
LEMMA OldAnswers ==
  /\ \A f : f.seq = None => NewAnswer(f) /\ Copied(f, Answers) /\ Copied(f, Carried)
  /\ \A f \in Answers : NewAnswer(f) /\ Copied(f, Answers) /\ Copied(f, Carried)
  <1>1. \A f : f.seq = None => Copied(f, Answers) /\ Copied(f, Carried)
    BY DEF Copied
  <1>2. \A f \in Answers : Copied(f, Answers) /\ Copied(f, Carried)
    BY DEF Copied, Same, Carried, Copies
  <1>3. \A f : Copied(f, Answers) => NewAnswer(f)
    BY Zenon DEF NewAnswer
  <1> QED BY <1>1, <1>2, <1>3

\* Together the pieces are all the copies.
LEMMA Pieces ==
  ASSUME NcpLine, HostLine, Loop, Rest
  PROVE  /\ LineTyped'
         /\ \A f \in Copies' : Copied(f, Carried)
         /\ \A f \in Answers' : Copied(f, Answers) \/ Answered(f)'
  <1>1. LineTyped'
    BY DEF LineTyped, NcpLine, HostLine, Loop, Rest
  <1>2. \A f : Copied(f, Answers) => Copied(f, Carried)
    BY DEF Copied, Carried, Copies
  <1>3. \A f \in Answers' : Copied(f, Carried) /\ (Copied(f, Answers) \/ Answered(f)')
    BY <1>2, Zenon DEF Answers, HostLine, Loop, Rest, NewAnswer
  <1>4. \A f \in Copies' : Copied(f, Carried)
    BY <1>3 DEF Copies, NcpLine, Loop
  <1> QED BY <1>1, <1>3, <1>4

\* The line to the NCP after what a step may do to it.
LEMMA ToNcpKeeps ==
  ASSUME IInv,
         \/ UNCHANGED toNcp
         \/ toNcp' = <<>>
         \/ toNcp # <<>> /\ toNcp' = Tail(toNcp)
         \/ \E f \in Frame : Copied(f, Carried) /\ toNcp' = Append(toNcp, f)
  PROVE  NcpLine
  <1>1. toNcp \in Seq(Frame) /\ \A f \in Frames(toNcp) : Copied(f, Carried)
    BY DEF IInv, LineTyped, Copied, Carried, Copies, Same
  <1>2. CASE UNCHANGED toNcp
    BY <1>1, <1>2 DEF NcpLine, Frames
  <1>3. CASE toNcp' = <<>>
    BY <1>1, <1>3, OnTheLine, Unnumbered DEF NcpLine, Frames
  <1>4. CASE toNcp # <<>> /\ toNcp' = Tail(toNcp)
    <2>1. Tail(toNcp) \in Seq(Frame) /\ Frames(Tail(toNcp)) \subseteq Frames(toNcp)
      BY <1>1, <1>4, OnTheLine, Unnumbered
    <2>2. Frames(toNcp)' = Frames(Tail(toNcp))
      BY <1>4 DEF Frames
    <2> QED BY <1>1, <1>4, <2>1, <2>2 DEF NcpLine
  <1>5. ASSUME NEW f \in Frame, Copied(f, Carried), toNcp' = Append(toNcp, f)
        PROVE  NcpLine
    <2>1. Append(toNcp, f) \in Seq(Frame) /\ Frames(Append(toNcp, f)) \subseteq Frames(toNcp) \cup {f}
      BY <1>1, OnTheLine, Zenon
    <2>2. Frames(toNcp)' = Frames(Append(toNcp, f))
      BY <1>5 DEF Frames
    <2> QED BY <1>1, <1>5, <2>1, <2>2 DEF NcpLine
  <1> QED BY <1>2, <1>3, <1>4, <1>5

\* The line to the host after what a step may do to it.
LEMMA ToHostKeeps ==
  ASSUME IInv,
         \/ UNCHANGED toHost
         \/ toHost' = <<>>
         \/ toHost' \in Boot
         \/ toHost # <<>> /\ toHost' = Tail(toHost)
         \/ toHost # <<>> /\ toHost' = [toHost EXCEPT ![1] = Ctl("garbled")]
         \/ \E f \in Frame : NewAnswer(f) /\ toHost' = Append(toHost, f)
  PROVE  HostLine
  <1>1. toHost \in Seq(Frame) /\ \A f \in Frames(toHost) : NewAnswer(f)
    BY OldAnswers, Zenon DEF IInv, LineTyped, Answers
  <1>2. CASE UNCHANGED toHost
    BY <1>1, <1>2 DEF HostLine, Frames
  <1>3. CASE toHost' = <<>>
    BY <1>1, <1>3, OnTheLine, Unnumbered DEF HostLine, Frames
  <1>4. CASE toHost # <<>> /\ toHost' = Tail(toHost)
    <2>1. Tail(toHost) \in Seq(Frame) /\ Frames(Tail(toHost)) \subseteq Frames(toHost)
      BY <1>1, <1>4, OnTheLine, Unnumbered
    <2>2. Frames(toHost)' = Frames(Tail(toHost))
      BY <1>4 DEF Frames
    <2> QED BY <1>1, <1>4, <2>1, <2>2 DEF HostLine
  <1>5. ASSUME NEW f \in Frame, NewAnswer(f), toHost' = Append(toHost, f)
        PROVE  HostLine
    <2>1. Append(toHost, f) \in Seq(Frame) /\ Frames(Append(toHost, f)) \subseteq Frames(toHost) \cup {f}
      BY <1>1, OnTheLine, Zenon
    <2>2. Frames(toHost)' = Frames(Append(toHost, f))
      BY <1>5 DEF Frames
    <2> QED BY <1>1, <1>5, <2>1, <2>2 DEF HostLine
  <1>6. CASE toHost # <<>> /\ toHost' = [toHost EXCEPT ![1] = Ctl("garbled")]
    <2> DEFINE f == Ctl("garbled")
    <2>1. f \in Frame /\ NewAnswer(f)
      BY Unnumbered, OldAnswers DEF Types
    <2> HIDE DEF f
    <2>2. [toHost EXCEPT ![1] = f] \in Seq(Frame) /\ Frames([toHost EXCEPT ![1] = f]) \subseteq Frames(toHost) \cup {f}
      BY <1>1, <1>6, <2>1, OnTheLine, Zenon
    <2>3. toHost' = [toHost EXCEPT ![1] = f]
      BY <1>6 DEF f
    <2>4. Frames(toHost)' = Frames([toHost EXCEPT ![1] = f])
      BY <2>3 DEF Frames
    <2> QED BY <1>1, <2>1, <2>2, <2>3, <2>4, Zenon DEF HostLine
  <1>7. CASE toHost' \in Boot
    <2>1. toHost' \in Seq({Ctl("text"), Ctl("RSTACK")})
      BY <1>7, BootAssumption
    <2>2. Ctl("text") \in Frame /\ Ctl("RSTACK") \in Frame /\ Ctl("text").seq = None /\ Ctl("RSTACK").seq = None
      BY Unnumbered DEF Types
    <2>3. toHost' \in Seq(Frame)
      BY <2>1, <2>2
    <2>4. \A f \in Frames(toHost)' : f \in {Ctl("text"), Ctl("RSTACK")}
      BY <2>1 DEF Frames
    <2> QED BY <2>2, <2>3, <2>4, OldAnswers DEF HostLine
  <1> QED BY <1>2, <1>3, <1>4, <1>5, <1>6, <1>7

\* The read loop, the channels and the numbers when a step leaves them alone.
LEMMA LoopKeeps ==
  ASSUME IInv
  PROVE  /\ UNCHANGED <<reader, last>> => Loop
         /\ UNCHANGED <<unacked, txSeq, rxSeq, expect, send>> /\ cmds' \subseteq cmds => Rest
         /\ Copied(last, Carried) /\ Copied(reader, Carried)
         /\ \A f \in Answers : NewAnswer(f) /\ Copied(f, Answers) /\ Copied(f, Carried)
         /\ \A f \in Frames(toNcp) : Copied(f, Carried)
         /\ \A p \in Caller : Copied(frame[p], Carried)
         /\ \A f : f.seq = None => NewAnswer(f) /\ Copied(f, Answers) /\ Copied(f, Carried)
  <1>1. \A f : f.seq = None => NewAnswer(f) /\ Copied(f, Answers) /\ Copied(f, Carried)
    BY OldAnswers
  <1>2. \A f \in Answers : NewAnswer(f) /\ Copied(f, Answers) /\ Copied(f, Carried)
    BY OldAnswers
  <1>3. \A f \in Carried : Copied(f, Carried)
    BY DEF Copied, Same
  <1>4. UNCHANGED <<reader, last>> => Loop
    BY <1>2, <1>3, Zenon DEF Loop, IInv, LineTyped, Carried, Copies, Answers
  <1>5. UNCHANGED <<unacked, txSeq, rxSeq, expect, send>> /\ cmds' \subseteq cmds => Rest
    BY <1>2, Zenon DEF Rest, IInv, LineTyped, Answers
  <1> QED BY <1>1, <1>2, <1>3, <1>4, <1>5, Zenon DEF Carried, Copies

-----------------------------------------------------------------------------
(* The actions.                                                            *)

\* Initially there is no frame at all.
LEMMA InitHolds == Init => IInv
  <1> SUFFICES ASSUME NEW s \in Sessions, Init!(s)
               PROVE  IInv
    BY Zenon DEF Init
  <1>1. s.todo \in [Caller -> Nat] /\ s.start \subseteq Caller
        /\ \A p \in s.start : s.todo[p] > 0 /\ \A q \in s.start : p = q
    BY SessionsAssumption
  <1>2. CallsTyped
    BY <1>1, Unnumbered DEF CallsTyped, Opening
  <1>3. LineTyped
    BY Unnumbered DEF LineTyped
  <1>4. Placed
    BY <1>1, Zenon DEF Placed, Opening, Sending
  <1>5. \A p \in Caller : frame[p].seq = None
    BY Unnumbered, Zenon
  <1>6. \A f \in Copies : f.seq = None
    BY Unnumbered DEF Copies, Answers, Frames
  <1>7. \A f : f.seq = None => Owned(f) /\ Answered(f)
    BY DEF Owned, Answered
  <1> QED BY <1>2, <1>3, <1>4, <1>5, <1>6, <1>7, Zenon DEF IInv, Copies

\* The calls when a step leaves them alone.
LEMMA CallsKeep ==
  ASSUME IInv, UNCHANGED callers, ran' \in [Caller -> Nat], \A p \in Caller : ran'[p] >= ran[p],
         NcpLine, HostLine, Loop, Rest
  PROVE  IInv'
  <1>1. UNCHANGED <<pc, todo, frame, outcome, sequence>>
    BY DEF callers
  <1>2. CallsTyped' /\ Placed'
    BY <1>1 DEF IInv, CallsTyped, Placed
  <1> QED BY <1>1, <1>2, Pieces, CopiesKeep, Zenon

\* The timers keep the invariant.
LEMMA TimerKeeps == IInv /\ TimerStep => IInv'
  <1> SUFFICES ASSUME IInv, TimerStep PROVE IInv'
    OBVIOUS
  <1>1. /\ UNCHANGED <<callers, ran, reader, last, toNcp, toHost, unacked, txSeq, rxSeq, expect, send>>
        /\ cmds' = cmds
    BY DEF TimerStep, removeHandler, fail, channels, host, loop, numbers, line, ncp, history
  <1>2. NcpLine /\ HostLine /\ Loop /\ Rest
    BY <1>1, ToNcpKeeps, ToHostKeeps, LoopKeeps
  <1>3. ran' \in [Caller -> Nat] /\ \A p \in Caller : ran'[p] >= ran[p]
    BY <1>1 DEF IInv, CallsTyped
  <1> QED BY <1>1, <1>2, <1>3, CallsKeep

\* The read loop keeps the invariant when it hands on an answer or repeats a
\* command: the one goes into a channel, the other back on the line.
LEMMA HandingKeeps == IInv /\ Handing => IInv'
  <1> SUFFICES ASSUME IInv, Handing PROVE IInv'
    OBVIOUS
  <1>1. UNCHANGED <<callers, ran, last, toHost, unacked, txSeq, rxSeq, expect, send>> /\ reader' = NoFrame
    BY DEF Handing, fulfill, Retransmit, channels, host, loop, numbers, line, ncp, history
  <1>2. HostLine
    BY <1>1, ToHostKeeps
  <1>3. Loop
    BY <1>1, LoopKeeps, Unnumbered, Zenon DEF Loop, IInv, LineTyped
  <1>4. Rest
    <2>1. cmds' \subseteq cmds \cup {f \in {reader} : f.type = "DATA"}
      BY DEF Handing, fulfill, Retransmit, channels
    <2>2. cmds' \cup {unacked'} \subseteq Answers
      BY <1>1, <2>1 DEF Answers
    <2> QED BY <1>1, <2>1, <2>2, LoopKeeps, Zenon DEF Rest, IInv, LineTyped
  <1>5. NcpLine
    <2> DEFINE f == [reader EXCEPT !.type = "DATA"]
    <2>1. f \in Frame /\ Same(f, reader)
      BY Zenon DEF IInv, LineTyped, Frame, Types, Same
    <2>2. Copied(f, Carried)
      BY <2>1, LoopKeeps DEF Copied, Same
    <2>3. UNCHANGED toNcp \/ toNcp' = Append(toNcp, f)
      BY Zenon DEF Handing, fulfill, Retransmit, ToNcp, line
    <2> HIDE DEF f
    <2> QED BY <2>1, <2>2, <2>3, ToNcpKeeps
  <1>6. ran' \in [Caller -> Nat] /\ \A p \in Caller : ran'[p] >= ran[p]
    BY <1>1 DEF IInv, CallsTyped
  <1> QED BY <1>1, <1>2, <1>3, <1>4, <1>5, <1>6, CallsKeep

\* The read loop keeps the invariant when it takes a frame off the line.
LEMMA ReaderKeeps == IInv /\ ReaderStep => IInv'
  <1> SUFFICES ASSUME IInv, ReaderStep PROVE IInv'
    OBVIOUS
  <1>1. UNCHANGED <<callers, ran, last, cmds, expect, send>>
    BY DEF ReaderStep, handleData, sendNAK, handleNAK, handleRSTACK, Stolen,
           channels, host, loop, numbers, line, ncp, history
  <1>2. toHost # <<>> /\ toHost' = Tail(toHost)
    BY DEF ReaderStep, handleData, sendNAK, handleNAK, handleRSTACK, Stolen, Arrives
  <1>3. HostLine
    BY <1>2, ToHostKeeps
  <1>4. Head(toHost) \in Frame /\ Head(toHost) \in Frames(toHost)
    BY <1>2, OnTheLine, Unnumbered DEF IInv, LineTyped
  <1>5. NcpLine
    <2>1. Ctl("NAK") \in Frame /\ Copied(Ctl("NAK"), Carried)
      BY Unnumbered, OldAnswers DEF Types
    <2>2. UNCHANGED toNcp \/ toNcp' = Append(toNcp, Ctl("NAK"))
      BY DEF ReaderStep, handleData, sendNAK, handleNAK, handleRSTACK, Stolen, ToNcp
    <2> QED BY <2>1, <2>2, ToNcpKeeps
  <1>6. Loop
    <2>1. CASE handleNAK
      <3>1. CASE last = NoFrame
        BY <1>1, <2>1, <3>1, LoopKeeps, Unnumbered DEF handleNAK, Loop, IInv, LineTyped
      <3>2. CASE last # NoFrame
        <4>1. reader' = [last EXCEPT !.type = "resend"]
          BY <2>1, <3>2 DEF handleNAK
        <4>2. reader' \in Frame /\ Same(reader', last) /\ reader'.type = "resend"
          BY <4>1, Zenon DEF IInv, LineTyped, Frame, Types, Same
        <4>3. Copied(reader', Carried)
          BY <4>2, LoopKeeps DEF Copied, Same
        <4> QED BY <1>1, <4>2, <4>3, LoopKeeps, Zenon DEF Loop, IInv, LineTyped
      <3> QED BY <3>1, <3>2
    <2>2. CASE handleData
      <3>1. UNCHANGED reader \/ reader' = Head(toHost)
        BY <2>2 DEF handleData
      <3>2. CASE UNCHANGED reader
        BY <3>2, <1>1, LoopKeeps
      <3>3. CASE reader' = Head(toHost)
        BY <3>3, <1>1, <1>4, LoopKeeps, Zenon DEF Loop, IInv, LineTyped, Answers
      <3> QED BY <3>1, <3>2, <3>3
    <2>3. CASE sendNAK \/ handleRSTACK \/ Stolen
      <3>1. UNCHANGED reader
        BY <2>3 DEF sendNAK, handleRSTACK, Stolen, host, loop
      <3> QED BY <3>1, <1>1, LoopKeeps
    <2> QED BY <2>1, <2>2, <2>3 DEF ReaderStep
  <1>7. Rest
    <2>1. unacked' \in {unacked, NoFrame}
      BY DEF ReaderStep, handleData, sendNAK, handleNAK, handleRSTACK, Stolen, ncp
    <2>2. unacked' \in Frame /\ \A f \in {unacked'} : NewAnswer(f)
      BY <2>1, Unnumbered, OldAnswers, Zenon DEF IInv, LineTyped, Answers
    <2>3. txSeq' \in Nat /\ rxSeq' \in Nat
      <3>1. Up(rxSeq) \in Nat
        BY ModAssumption DEF Up, IInv, LineTyped
      <3>2. Head(toHost).ack \in Nat
        BY <1>4 DEF Frame
      <3>3. txSeq' \in {txSeq, 0, Head(toHost).ack} /\ rxSeq' \in {rxSeq, 0, Up(rxSeq)}
        BY DEF ReaderStep, handleData, sendNAK, handleNAK, handleRSTACK, Stolen, host, numbers
      <3> QED BY <3>1, <3>2, <3>3 DEF IInv, LineTyped
    <2>4. \A f \in cmds : NewAnswer(f)
      BY OldAnswers, Zenon DEF Answers
    <2> QED BY <1>1, <2>2, <2>3, <2>4 DEF Rest, IInv, LineTyped
  <1>8. ran' \in [Caller -> Nat] /\ \A p \in Caller : ran'[p] >= ran[p]
    BY <1>1 DEF IInv, CallsTyped
  <1> QED BY <1>1, <1>3, <1>5, <1>6, <1>7, <1>8, CallsKeep

\* The NCP keeps the invariant: it has run what it answers.
LEMMA RunKeeps == IInv /\ NcpRuns => IInv'
  <1> SUFFICES ASSUME IInv, NcpRuns PROVE IInv'
    OBVIOUS
  <1> PICK c : c = Head(toNcp)
    OBVIOUS
  <1> PICK a : a = [c EXCEPT !.num = send, !.ack = Up(expect)]
    OBVIOUS
  <1>1. UNCHANGED <<callers, frame, reader, last, cmds, txSeq, rxSeq>>
    BY DEF NcpRuns, callers, channels, host, loop, numbers
  <1>2. toNcp # <<>> /\ toNcp' = Tail(toNcp)
    BY DEF NcpRuns, Reaches
  <1>3. NcpLine /\ Loop
    BY <1>1, <1>2, ToNcpKeeps, LoopKeeps
  <1>4. c \in Frame /\ c \in Frames(toNcp)
    BY <1>2, OnTheLine, Unnumbered DEF IInv, LineTyped
  <1>5. Up(expect) \in Nat /\ Up(send) \in Nat
    BY ModAssumption DEF Up, IInv, LineTyped
  <1>6. a \in Frame /\ Same(a, c)
    BY <1>4, <1>5, Zenon DEF IInv, LineTyped, Frame, Same
  <1>7. /\ toHost' = Append(toHost, a) /\ unacked' = a /\ expect' = Up(expect) /\ send' = Up(send)
        /\ ran' = [ran EXCEPT ![c.by] = IF frame[c.by].n = c.n THEN @ + 1 ELSE @]
    BY DEF NcpRuns, Sends
  <1>8. ran' \in [Caller -> Nat] /\ \A p \in Caller : ran'[p] >= ran[p]
    <2>1. ran \in [Caller -> Nat]
      BY DEF IInv, CallsTyped
    <2>2. \A p \in Caller : ran'[p] \in {ran[p], ran[p] + 1}
      BY <1>7, <2>1
    <2>3. ran' = [p \in Caller |-> ran'[p]]
      BY <1>7, <2>1, Zenon
    <2>4. \A p \in Caller : ran'[p] \in Nat /\ ran'[p] >= ran[p]
      BY <2>1, <2>2
    <2> QED BY <2>3, <2>4
  <1>9. Copied(a, Carried)
    BY <1>4, <1>6, LoopKeeps DEF Copied, Same
  <1>10. Answered(a)'
    <2>1. CASE a.seq = None
      BY <2>1 DEF Answered
    <2>2. CASE a.seq # None
      <3>1. Owned(c)
        BY <1>4 DEF IInv, Copies
      <3>2. c.by \in Caller /\ c.by = a.by /\ c.n = a.n
        BY <2>2, <3>1, <1>6 DEF Owned, Same
      <3>3. frame[c.by].n = c.n => ran'[c.by] > 0
        BY <3>2, <1>7 DEF IInv, CallsTyped
      <3> QED BY <3>2, <3>3, <1>1 DEF Answered
    <2> QED BY <2>1, <2>2
  <1>11. NewAnswer(a)
    BY <1>9, <1>10 DEF NewAnswer
  <1>12. HostLine
    BY <1>6, <1>7, <1>11, ToHostKeeps
  <1>13. Rest
    <2>1. \A f \in cmds : NewAnswer(f)
      BY OldAnswers, Zenon DEF Answers
    <2> QED BY <2>1, <1>1, <1>5, <1>6, <1>7, <1>11 DEF Rest, IInv, LineTyped
  <1> QED BY <1>1, <1>3, <1>8, <1>12, <1>13, CallsKeep

\* So does what else the NCP does with a frame: it discards it, repeats its
\* last answer, or resets the session.
LEMMA NcpKeeps == IInv /\ NcpStep => IInv'
  <1> SUFFICES ASSUME IInv, NcpDiscards \/ NcpRepeats \/ NcpResets PROVE IInv'
    BY RunKeeps DEF NcpStep
  <1>1. UNCHANGED <<callers, ran, reader, last, cmds, txSeq, rxSeq>>
    BY DEF NcpDiscards, NcpRepeats, NcpResets, channels, host, loop, numbers, history
  <1>2. NcpLine
    <2>1. UNCHANGED toNcp \/ (toNcp # <<>> /\ toNcp' = Tail(toNcp))
      BY DEF NcpDiscards, NcpRepeats, NcpResets, Reaches
    <2> QED BY <2>1, ToNcpKeeps
  <1>3. HostLine
    <2>1. CASE NcpDiscards
      BY <2>1, ToHostKeeps DEF NcpDiscards
    <2>2. CASE NcpResets
      <3>1. Ctl("RSTACK") \in Frame /\ NewAnswer(Ctl("RSTACK"))
        BY Unnumbered, OldAnswers DEF Types
      <3> QED BY <2>2, <3>1, ToHostKeeps DEF NcpResets
    <2>3. CASE NcpRepeats
      <3> PICK f : f = [unacked EXCEPT !.ack = expect]
        OBVIOUS
      <3>1. f \in Frame /\ Same(f, unacked)
        BY Zenon DEF IInv, LineTyped, Frame, Same
      <3>2. Copied(f, Answers)
        BY <3>1 DEF Copied, Answers
      <3>3. NewAnswer(f)
        BY <3>2 DEF NewAnswer
      <3>4. UNCHANGED toHost \/ toHost' = Append(toHost, f)
        BY <2>3 DEF NcpRepeats
      <3> QED BY <3>1, <3>3, <3>4, ToHostKeeps
    <2> QED BY <2>1, <2>2, <2>3
  <1>4. Loop
    BY <1>1, LoopKeeps
  <1>5. Rest
    <2>1. unacked' \in {unacked, NoFrame} /\ expect' \in {expect, 0} /\ send' \in {send, 0}
      BY DEF NcpDiscards, NcpRepeats, NcpResets, ncp
    <2>2. unacked' \in Frame /\ \A f \in {unacked'} : NewAnswer(f)
      BY <2>1, Unnumbered, OldAnswers, Zenon DEF IInv, LineTyped, Answers
    <2>3. \A f \in cmds : NewAnswer(f)
      BY OldAnswers, Zenon DEF Answers
    <2> QED BY <1>1, <2>1, <2>2, <2>3 DEF Rest, IInv, LineTyped
  <1>6. ran' \in [Caller -> Nat] /\ \A p \in Caller : ran'[p] >= ran[p]
    BY <1>1 DEF IInv, CallsTyped
  <1> QED BY <1>1, <1>2, <1>3, <1>4, <1>5, <1>6, CallsKeep

\* Callbacks, lost and garbled frames, an NCP that stops and Close keep the
\* invariant.
LEMMA TroubleKeeps == IInv /\ Trouble => IInv'
  <1> SUFFICES ASSUME IInv, Trouble PROVE IInv'
    OBVIOUS
  <1>1. UNCHANGED <<callers, ran, reader, last, cmds, txSeq, rxSeq, expect>>
    BY DEF Trouble, NcpCallsBack, NcpDies, LoseToNcp, LoseToHost, Close, channels, host, loop, numbers,
           line, ncp, history
  <1>2. NcpLine
    <2>1. UNCHANGED toNcp \/ toNcp' = <<>> \/ (toNcp # <<>> /\ toNcp' = Tail(toNcp))
      BY DEF Trouble, NcpCallsBack, NcpDies, LoseToNcp, LoseToHost, Close, line
    <2> QED BY <2>1, ToNcpKeeps
  <1> PICK f : f = Data(send, expect, None, None, 0)
    OBVIOUS
  <1>3. f \in Frame /\ NewAnswer(f)
    BY Unnumbered, OldAnswers DEF IInv, LineTyped
  <1>4. HostLine
    <2>1. Ctl("NAK") \in Frame /\ NewAnswer(Ctl("NAK"))
      BY Unnumbered, OldAnswers DEF Types
    <2>2. \/ UNCHANGED toHost
          \/ toHost # <<>> /\ toHost' = Tail(toHost)
          \/ toHost # <<>> /\ toHost' = [toHost EXCEPT ![1] = Ctl("garbled")]
          \/ toHost' = Append(toHost, Ctl("NAK")) \/ toHost' = Append(toHost, f)
      BY DEF Trouble, NcpCallsBack, NcpDies, LoseToNcp, LoseToHost, Close, Sends, line
    <2> QED BY <1>3, <2>1, <2>2, ToHostKeeps
  <1>5. Loop
    BY <1>1, LoopKeeps
  <1>6. Rest
    <2>1. unacked' \in {unacked, f} /\ send' \in {send, Up(send)}
      BY DEF Trouble, NcpCallsBack, NcpDies, LoseToNcp, LoseToHost, Close, Sends, ncp
    <2>2. Up(send) \in Nat
      BY ModAssumption DEF Up, IInv, LineTyped
    <2>3. unacked' \in Frame /\ \A g \in {unacked'} : NewAnswer(g)
      BY <1>3, <2>1, OldAnswers, Zenon DEF IInv, LineTyped, Answers
    <2>4. \A g \in cmds : NewAnswer(g)
      BY OldAnswers, Zenon DEF Answers
    <2> QED BY <1>1, <2>1, <2>2, <2>3, <2>4 DEF Rest, IInv, LineTyped
  <1>7. ran' \in [Caller -> Nat] /\ \A p \in Caller : ran'[p] >= ran[p]
    BY <1>1 DEF IInv, CallsTyped
  <1> QED BY <1>1, <1>2, <1>4, <1>5, <1>6, <1>7, CallsKeep

\* A caller that goes on within its call, or within Start, keeps the invariant.
LEMMA MoveKeeps ==
  ASSUME IInv, NEW p \in Caller, NEW l, Goes(p, l),
         (pc[p] \in Sending /\ l \in Sending) \/ (pc[p] \in Opening /\ l \in Opening),
         UNCHANGED <<todo, frame, outcome, sequence, ran>>, NcpLine, HostLine, Loop, Rest
  PROVE  IInv'
  <1>1. pc'[p] = l /\ \A q \in Caller : q # p => pc'[q] = pc[q]
    BY DEF Goes, IInv, CallsTyped
  <1>2. CallsTyped'
    BY DEF Goes, IInv, CallsTyped
  <1>3. Sending \cap Opening = {}
    BY DEF Sending, Opening
  <1>4. Placed'
    BY <1>1, <1>3, Zenon DEF IInv, Placed
  <1>5. \A q \in Caller : (pc[q] \in Sending <=> pc'[q] \in Sending) /\ (pc'[q] \in Opening => pc[q] \in Opening)
    BY <1>1, <1>3, Zenon
  <1>6. \A q \in Caller : ran'[q] >= ran[q]
    BY DEF IInv, CallsTyped
  <1> QED BY <1>2, <1>4, <1>5, <1>6, Pieces, CopiesKeep, Zenon

\* sendEZSPCommand, VERSION and the retry keep the invariant.
LEMMA SendKeeps ==
  ASSUME IInv, NEW p \in Caller, sendEZSPCommand(p) \/ sendVersion(p) \/ Retry(p)
  PROVE  IInv'
  <1>1. ASSUME NEW s \in Nat, registerHandler(p, s)
        PROVE  frame' \in [Caller -> Frame] /\ pc' \in [Caller -> Opening \cup Sending \cup {"idle"}]
    <2>1. Data(txSeq, rxSeq, s, p, todo[p]) \in Frame
      BY DEF Data, Frame, Types, IInv, CallsTyped, LineTyped
    <2> QED BY <1>1, <2>1 DEF registerHandler, Goes, IInv, CallsTyped, Sending
  <1>2. CASE sendEZSPCommand(p)
    <2>1. sequence + 1 \in Nat /\ registerHandler(p, sequence + 1) /\ sequence' = sequence + 1
      BY <1>2 DEF sendEZSPCommand, IInv, CallsTyped
    <2>2. CallsTyped'
      BY <1>1, <1>2, <2>1, Zenon DEF sendEZSPCommand, IInv, CallsTyped
    <2>3. pc[p] \notin Sending /\ todo[p] > 0 /\ \A q \in Caller : q # p => ran'[q] = ran[q]
      BY <1>2 DEF sendEZSPCommand, Sending, IInv, CallsTyped
    <2>4. UNCHANGED <<todo, channels, host, line, ncp>>
      BY <1>2, Zenon DEF sendEZSPCommand
    <2> QED BY <2>1, <2>2, <2>3, <2>4, RegisterKeeps, Zenon
  <1>3. CASE sendVersion(p)
    <2>1. 0 \in Nat /\ registerHandler(p, 0) /\ sequence' = sequence
      BY <1>3 DEF sendVersion
    <2>2. CallsTyped' /\ ran' = ran
      BY <1>1, <1>3, <2>1 DEF sendVersion, IInv, CallsTyped, history
    <2>3. pc[p] \in Opening /\ todo[p] > 0
      BY <1>3, Zenon DEF sendVersion, Opening, IInv, Placed
    <2>4. UNCHANGED <<todo, channels, host, line, ncp>>
      BY <1>3 DEF sendVersion
    <2> QED BY <2>1, <2>2, <2>3, <2>4, RegisterKeeps, Zenon
  <1>4. CASE Retry(p)
    <2>1. sequence + 1 \in Nat /\ registerHandler(p, sequence + 1) /\ sequence' = sequence + 1
      BY <1>4 DEF Retry, IInv, CallsTyped
    <2>2. CallsTyped' /\ ran' = ran
      BY <1>1, <1>4, <2>1 DEF Retry, IInv, CallsTyped, history
    <2>3. todo[p] > 0
      BY <1>4, Zenon DEF Retry, Sending, IInv, Placed
    <2>4. UNCHANGED <<todo, channels, host, line, ncp>>
      BY <1>4 DEF Retry
    <2> QED BY <2>1, <2>2, <2>3, <2>4, RegisterKeeps, Zenon
  <1> QED BY <1>2, <1>3, <1>4

\* A call that returns keeps the invariant.
LEMMA ReturnKeeps ==
  ASSUME IInv, NEW p \in Caller, NEW r, pc[p] \in Sending, Returns(p, r), UNCHANGED <<sequence, ran>>,
         NcpLine, HostLine, Loop, Rest
  PROVE  IInv'
  <1>1. todo[p] > 0
    BY Zenon DEF IInv, Placed
  <1>2. pc[p] # "idle"
    BY DEF Sending
  <1>3. todo' \in [Caller -> Nat] /\ todo'[p] < todo[p] /\ \A q \in Caller : q # p => todo'[q] = todo[q]
    BY <1>1 DEF Returns, IInv, CallsTyped
  <1>4. CallsTyped'
    BY <1>3, Unnumbered, Zenon DEF Returns, Goes, IInv, CallsTyped
  <1> QED BY <1>2, <1>3, <1>4, Pieces, EndKeeps, Zenon DEF Returns, Goes

\* Writing the frame, successfully or not, receiving, failing the own Handler
\* and the reset of the session keep the invariant.
LEMMA CallKeeps ==
  ASSUME IInv, NEW p \in Caller,
         WriteBytes(p) \/ WriteFails(p) \/ FailOwn(p) \/ Receive(p) \/ resetASHSession(p)
  PROVE  IInv'
  <1>1. pc[p] \in Sending /\ UNCHANGED <<sequence, ran, reader, toHost, unacked, rxSeq, expect, send>>
    BY Zenon DEF WriteBytes, WriteFails, FailOwn, Receive, resetASHSession, Sending, channels, host, loop, numbers,
           line, ncp, history
  <1>2. HostLine
    BY <1>1, ToHostKeeps
  <1>3. NcpLine
    <2>1. Ctl("RST") \in Frame /\ Copied(Ctl("RST"), Carried)
      BY Unnumbered, OldAnswers DEF Types
    <2>2. frame[p] \in Frame /\ Copied(frame[p], Carried)
      BY LoopKeeps DEF IInv, CallsTyped
    <2>3. UNCHANGED toNcp \/ toNcp' = Append(toNcp, Ctl("RST")) \/ toNcp' = Append(toNcp, frame[p])
      BY Zenon DEF WriteBytes, WriteFails, FailOwn, Receive, resetASHSession, ToNcp, line
    <2> QED BY <2>1, <2>2, <2>3, ToNcpKeeps
  <1>4. Loop
    <2>1. last' \in {last, frame[p]}
      BY Zenon DEF WriteBytes, WriteFails, FailOwn, Receive, resetASHSession, Advance, host
    <2>2. last' \in Frame /\ Copied(last', Carried)
      BY <2>1, LoopKeeps DEF IInv, CallsTyped, LineTyped
    <2>3. reader' \in Frame /\ Copied(reader', Carried) /\ (reader'.type = "DATA" => Copied(reader', Answers))
      BY <1>1, LoopKeeps, Zenon DEF IInv, LineTyped, Answers
    <2> QED BY <2>2, <2>3 DEF Loop
  <1>5. Rest
    <2>1. txSeq' \in {txSeq, Up(txSeq)} /\ cmds' \subseteq cmds
      BY Zenon DEF WriteBytes, WriteFails, FailOwn, Receive, resetASHSession, Advance, Forget, channels, host, numbers
    <2>2. Up(txSeq) \in Nat
      BY ModAssumption DEF Up, IInv, LineTyped
    <2>3. \A f \in cmds \cup {unacked} : NewAnswer(f)
      BY OldAnswers, Zenon DEF Answers
    <2> QED BY <1>1, <2>1, <2>2, <2>3, Zenon DEF Rest, IInv, LineTyped
  <1>6. CASE \E r : Returns(p, r)
    BY <1>1, <1>2, <1>3, <1>4, <1>5, <1>6, ReturnKeeps
  <1>7. CASE \E l \in Sending : Goes(p, l) /\ UNCHANGED <<todo, frame, outcome>>
    BY <1>1, <1>2, <1>3, <1>4, <1>5, <1>7, MoveKeeps
  <1>8. (\E r : Returns(p, r)) \/ (\E l \in Sending : Goes(p, l) /\ UNCHANGED <<todo, frame, outcome>>)
    <2>1. {"receive", "failing", "reset", "retry"} \subseteq Sending
      BY DEF Sending
    <2> QED BY <2>1, Zenon DEF WriteBytes, WriteFails, FailOwn, Receive, resetASHSession
  <1> QED BY <1>6, <1>7, <1>8

\* Start keeps the invariant.
LEMMA StartKeeps ==
  ASSUME IInv, NEW p \in Caller,
         ResetDevice(p) \/ ReadBootData(p) \/ ReadMoreBootData(p) \/ SendRST(p) \/ ReadRSTACK(p) \/ Drain(p)
  PROVE  IInv'
  <1>1. UNCHANGED <<frame, sequence, ran, reader, last, cmds>> /\ pc[p] \in Opening
    BY Zenon DEF ResetDevice, ReadBootData, ReadMoreBootData, SendRST, ReadRSTACK, Drain, Opening, channels, host,
           loop, numbers, line, ncp, history
  <1>2. HostLine
    <2>1. \/ UNCHANGED toHost
          \/ toHost' = <<>>
          \/ toHost' \in Boot
          \/ toHost # <<>> /\ toHost' = Tail(toHost)
      BY Zenon DEF ResetDevice, ReadBootData, ReadMoreBootData, SendRST, ReadRSTACK, Drain, Finds
    <2> QED BY <2>1, ToHostKeeps
  <1>3. NcpLine
    <2>1. Ctl("RST") \in Frame /\ Copied(Ctl("RST"), Carried)
      BY Unnumbered, OldAnswers DEF Types
    <2>2. UNCHANGED toNcp \/ toNcp' = Append(toNcp, Ctl("RST"))
      BY Zenon DEF ResetDevice, ReadBootData, ReadMoreBootData, SendRST, ReadRSTACK, Drain, ToNcp
    <2> QED BY <2>1, <2>2, ToNcpKeeps
  <1>4. Loop
    BY <1>1, LoopKeeps, Zenon
  <1>5. Rest
    <2>1. /\ unacked' \in {unacked, NoFrame}
          /\ txSeq' \in {txSeq, 0} /\ rxSeq' \in {rxSeq, 0} /\ expect' \in {expect, 0} /\ send' \in {send, 0}
      BY Zenon DEF ResetDevice, ReadBootData, ReadMoreBootData, SendRST, ReadRSTACK, Drain, Established, host,
             numbers, ncp
    <2>2. unacked' \in Frame /\ \A f \in {unacked'} : NewAnswer(f)
      BY <2>1, Unnumbered, OldAnswers, Zenon DEF IInv, LineTyped, Answers
    <2>3. \A f \in cmds : NewAnswer(f)
      BY OldAnswers, Zenon DEF Answers
    <2>4. txSeq' \in Nat /\ rxSeq' \in Nat /\ expect' \in Nat /\ send' \in Nat /\ cmds \subseteq Frame
      BY <2>1 DEF IInv, LineTyped
    <2> QED BY <1>1, <2>2, <2>3, <2>4 DEF Rest
  <1>6. CASE StartFails(p)
    <2>1. frame[p] = NoFrame /\ todo[p] > 0 /\ pc[p] # "idle"
      BY <1>1, Zenon DEF IInv, Placed, Opening, Sending
    <2>2. frame' = [frame EXCEPT ![p] = NoFrame]
      BY <1>1, <2>1 DEF IInv, CallsTyped
    <2>3. todo'[p] < todo[p] /\ \A q \in Caller : q # p => todo'[q] = todo[q]
      BY <1>6, <2>1 DEF StartFails, IInv, CallsTyped
    <2>4. CallsTyped'
      BY <1>1, <1>6 DEF StartFails, Goes, IInv, CallsTyped
    <2> QED BY <1>1, <1>2, <1>3, <1>4, <1>5, <1>6, <2>1, <2>2, <2>3, <2>4, Pieces, EndKeeps, Zenon DEF StartFails, Goes
  <1>7. CASE \E l \in Opening : Goes(p, l) /\ UNCHANGED <<todo, outcome>>
    BY <1>1, <1>2, <1>3, <1>4, <1>5, <1>7, MoveKeeps
  <1>8. StartFails(p) \/ (\E l \in Opening : Goes(p, l) /\ UNCHANGED <<todo, outcome>>)
    <2>1. {"bootData", "bootText", "rst", "rstack", "drain", "version"} \subseteq Opening
      BY DEF Opening
    <2> QED BY <2>1, Zenon DEF ResetDevice, ReadBootData, ReadMoreBootData, SendRST, ReadRSTACK, Drain, Established
  <1> QED BY <1>6, <1>7, <1>8

\* The inductive invariant holds: whose frames there are, and that an answer to
\* a call in progress means that its command was run.
THEOREM Invariance == Spec => []IInv
  <1>1. IInv /\ [Next]_vars => IInv'
    <2> SUFFICES ASSUME IInv, [Next]_vars PROVE IInv'
      OBVIOUS
    <2>1. CASE \E p \in Caller : CallerStep(p)
      BY <2>1, SendKeeps, CallKeeps, StartKeeps DEF CallerStep
    <2>2. CASE UNCHANGED vars
      <3>1. UNCHANGED <<callers, ran, reader, last, toNcp, toHost, unacked, cmds, txSeq, rxSeq, expect, send>>
        BY <2>2 DEF vars, channels, host, loop, numbers, line, ncp, history
      <3>2. NcpLine /\ HostLine /\ Loop /\ Rest
        BY <3>1, ToNcpKeeps, ToHostKeeps, LoopKeeps
      <3>3. ran' \in [Caller -> Nat] /\ \A p \in Caller : ran'[p] >= ran[p]
        BY <3>1 DEF IInv, CallsTyped
      <3> QED BY <3>1, <3>2, <3>3, CallsKeep
    <2> QED BY <2>1, <2>2, TimerKeeps, HandingKeeps, ReaderKeeps, NcpKeeps, TroubleKeeps DEF Next, Stopped
  <1> QED BY <1>1, InitHolds, PTL DEF Spec

\* The answer in a Handler's channel is the answer to the command it was
\* registered for, which the NCP has run, for every session.
THEOREM MatchedHolds == Spec => []Matched
  <1>1. IInv => Matched
    <2> SUFFICES ASSUME IInv, NEW p \in Caller, pc[p] = "receive", NEW r \in cmds, r.seq = frame[p].seq
                 PROVE  r.by = p /\ r.n = frame[p].n /\ ran[p] > 0
      BY DEF Matched
    <2>1. frame[p].seq \in Nat /\ r.seq # None
      BY NoneAssumption, Zenon DEF IInv, Placed, Sending
    <2>2. Owned(r) /\ Answered(r)
      BY Zenon DEF IInv, Copies, Answers
    <2> QED BY <2>1, <2>2 DEF Owned, Answered
  <1> QED BY <1>1, Invariance, PTL

-----------------------------------------------------------------------------
(* The refinement of Ezsp.                                                 *)

Simulates == [Promise!Next]_<<Stage, outcome>>

\* A step that keeps the stage of every call, and what it returned.
LEMMA Stutters ==
  ASSUME UNCHANGED outcome, \A q \in Caller : Stage'[q] = Stage[q]
  PROVE  Simulates
  BY DEF Simulates, Stage

\* A step of the call of p alone.
LEMMA Advances ==
  ASSUME IInv, NEW p \in Caller, \A q \in Caller : q # p => Stage'[q] = Stage[q],
         \/ Stage[p] = "idle" /\ Stage'[p] = "called" /\ outcome' = [outcome EXCEPT ![p] = None]
         \/ Stage[p] = "called" /\ Stage'[p] = "ran" /\ UNCHANGED outcome
         \/ Stage[p] = "ran" /\ Stage'[p] = "idle" /\ outcome' = [outcome EXCEPT ![p] = "answer"]
         \/ Stage[p] # "idle" /\ Stage'[p] = "idle" /\ outcome' = [outcome EXCEPT ![p] = "error"]
  PROVE  Simulates
  <1>1. Stage' = [Stage EXCEPT ![p] = Stage'[p]]
    BY Zenon DEF Stage
  <1>2. Promise!Call(p) \/ Promise!Run(p) \/ Promise!Answer(p) \/ Promise!Fail(p)
    BY <1>1 DEF Promise!Call, Promise!Run, Promise!Answer, Promise!Fail
  <1> QED BY <1>2, Zenon DEF Simulates, Promise!Next

\* The stages of the calls, and how a step of a caller changes them.
LEMMA Stages ==
  ASSUME IInv, NEW p \in Caller
  PROVE  /\ Stage[p] = IF pc[p] = "idle" THEN "idle" ELSE IF ran[p] > 0 THEN "ran" ELSE "called"
         /\ Stage'[p] = IF pc'[p] = "idle" THEN "idle" ELSE IF ran'[p] > 0 THEN "ran" ELSE "called"
         /\ \A l : Goes(p, l) => pc'[p] = l /\ \A q \in Caller : q # p => pc'[q] = pc[q]
  BY DEF Stage, Goes, IInv, CallsTyped

\* Every step of a caller is one of a call of Ezsp.
LEMMA CallerSimulates ==
  ASSUME IInv, NEW p \in Caller, CallerStep(p)
  PROVE  Simulates
  <1>1. CASE sendEZSPCommand(p)
    <2>1. pc[p] = "idle" /\ Goes(p, "write") /\ outcome' = [outcome EXCEPT ![p] = None]
          /\ ran' = [ran EXCEPT ![p] = 0]
      BY <1>1, Zenon DEF sendEZSPCommand, registerHandler
    <2>2. ran'[p] = 0 /\ \A q \in Caller : q # p => ran'[q] = ran[q]
      BY <2>1 DEF IInv, CallsTyped
    <2>3. ASSUME NEW q \in Caller, q # p
          PROVE  Stage'[q] = Stage[q]
      <3>1. pc'[q] = pc[q] /\ ran'[q] = ran[q]
        BY <2>1, <2>2, <2>3 DEF Goes, IInv, CallsTyped
      <3> QED BY <3>1, Zenon DEF Stage
    <2>4. Stage[p] = "idle" /\ Stage'[p] = "called"
      <3>1. pc'[p] # "idle"
        BY <2>1 DEF Goes, IInv, CallsTyped
      <3>2. ~(ran'[p] > 0)
        BY <2>2
      <3> QED BY <2>1, <3>1, <3>2, Zenon DEF Stage
    <2> QED BY <2>1, <2>3, <2>4, Advances, Zenon
  <1>2. ASSUME UNCHANGED ran, NEW r \in {"answer", "error"}, pc[p] # "idle", Goes(p, "idle"),
               outcome' = [outcome EXCEPT ![p] = r], r = "answer" => ran[p] > 0
        PROVE  Simulates
    <2>1. \A q \in Caller : q # p => Stage'[q] = Stage[q]
      BY <1>2, Stages, Zenon
    <2>2. Stage'[p] = "idle" /\ Stage[p] # "idle" /\ (r = "answer" => Stage[p] = "ran")
      BY <1>2, Stages, Zenon
    <2> QED BY <1>2, <2>1, <2>2, Advances, Zenon
  <1>3. ASSUME UNCHANGED <<ran, outcome>>, pc[p] # "idle", NEW l, l # "idle", Goes(p, l)
        PROVE  Simulates
    <2>1. \A q \in Caller : Stage'[q] = Stage[q]
      BY <1>3, Stages
    <2> QED BY <1>3, <2>1, Stutters
  <1>4. CASE Receive(p)
    <2>1. UNCHANGED ran
      BY <1>4, Zenon DEF Receive, history
    <2>2. CASE frame[p].seq \notin errs
      <3>1. PICK r \in cmds : r.seq = frame[p].seq
        BY <1>4, <2>2, Zenon DEF Receive, Full
      <3>2. frame[p].seq \in Nat /\ r.seq # None
        BY <1>4, <3>1, NoneAssumption, Zenon DEF Receive, IInv, Placed, Sending
      <3>3. Owned(r) /\ Answered(r)
        BY Zenon DEF IInv, Copies, Answers
      <3>4. ran[p] > 0
        BY <3>1, <3>2, <3>3, Zenon DEF Owned, Answered
      <3> QED BY <1>4, <2>1, <2>2, <3>4, <1>2, Zenon DEF Receive, Returns
    <2>3. CASE frame[p].seq \in errs
      BY <1>4, <2>1, <2>3, <1>2, <1>3, Zenon DEF Receive, Returns
    <2> QED BY <2>2, <2>3
  <1>5. CASE FailOwn(p) \/ resetASHSession(p)
    BY <1>5, <1>2, <1>3, Zenon DEF FailOwn, resetASHSession, Returns, history
  <1>6. CASE sendVersion(p) \/ Retry(p) \/ WriteBytes(p) \/ WriteFails(p)
    BY <1>6, <1>3, Zenon DEF sendVersion, Retry, registerHandler, WriteBytes, WriteFails, history
  <1>7. CASE ResetDevice(p) \/ SendRST(p) \/ Drain(p)
    BY <1>7, <1>3, Zenon DEF ResetDevice, SendRST, Drain, history
  <1>8. CASE ReadBootData(p) \/ ReadMoreBootData(p)
    BY <1>8, <1>3 DEF ReadBootData, ReadMoreBootData, Established, history
  <1>9. CASE ReadRSTACK(p)
    BY <1>9, <1>2, <1>3, Zenon DEF ReadRSTACK, StartFails, Established, history
  <1> QED BY <1>1, <1>4, <1>5, <1>6, <1>7, <1>8, <1>9 DEF CallerStep

\* The NCP runs the command of a call in progress, or one nobody waits for.
LEMMA RunSimulates == IInv /\ NcpRuns => Simulates
  <1> SUFFICES ASSUME IInv, NcpRuns PROVE Simulates
    OBVIOUS
  <1> PICK c : c = Head(toNcp)
    OBVIOUS
  <1>1. UNCHANGED <<pc, outcome>> /\ ran' = [ran EXCEPT ![c.by] = IF frame[c.by].n = c.n THEN @ + 1 ELSE @]
    BY DEF NcpRuns, callers
  <1>2. CASE c.by \in Caller /\ Stage'[c.by] # Stage[c.by]
    <2>1. \A q \in Caller : q # c.by => Stage'[q] = Stage[q]
      BY <1>1, Stages, Zenon DEF IInv, CallsTyped
    <2>2. ran'[c.by] \in {ran[c.by], ran[c.by] + 1} /\ ran[c.by] \in Nat
      BY <1>1, <1>2 DEF IInv, CallsTyped
    <2>3. pc[c.by] # "idle" /\ ~(ran[c.by] > 0) /\ ran'[c.by] > 0
      <3>1. pc[c.by] # "idle" /\ ~(ran[c.by] > 0 <=> ran'[c.by] > 0)
        BY <1>1, <1>2, Zenon DEF Stage
      <3> QED BY <3>1, <2>2
    <2>4. Stage[c.by] = "called" /\ Stage'[c.by] = "ran"
      BY <1>1, <1>2, <2>3, Zenon DEF Stage
    <2> QED BY <1>1, <1>2, <2>1, <2>4, Advances, Zenon
  <1>3. CASE c.by \notin Caller \/ Stage'[c.by] = Stage[c.by]
    <2>1. \A q \in Caller : q # c.by => Stage'[q] = Stage[q]
      BY <1>1, Stages, Zenon DEF IInv, CallsTyped
    <2> QED BY <1>1, <1>3, <2>1, Stutters
  <1> QED BY <1>2, <1>3

\* sendEZSPCommand keeps its promise over a line that loses, garbles, repeats
\* and delays frames: a call returns an answer only if the NCP ran its command
\* during that call.
THEOREM PromisedHolds == Spec => Promised
  <1>1. Init => Promise!Init
    <2>1. SUFFICES ASSUME Init
                   PROVE  Promise!Init
      OBVIOUS
    <2>2. ran = [p \in Caller |-> 0] /\ outcome = [p \in Caller |-> None]
      BY <2>1, Zenon DEF Init
    <2>3. \A p \in Caller : ~(ran[p] > 0)
      BY <2>2, \A n \in {0} : ~(n > 0)
    <2>4. \A p \in Caller : Stage[p] \in {"idle", "called"}
      BY <2>3, Zenon DEF Stage
    <2>5. Stage \in [Caller -> {"idle", "called"}]
      BY <2>4, Zenon DEF Stage
    <2> QED BY <2>2, <2>5, Zenon DEF Promise!Init
  <1>2. IInv /\ [Next]_vars => Simulates
    <2> SUFFICES ASSUME IInv, [Next]_vars PROVE Simulates
      OBVIOUS
    <2>1. CASE UNCHANGED <<pc, outcome, ran>>
      BY <2>1, Stutters DEF Stage
    <2>2. UNCHANGED <<pc, outcome, ran>> \/ NcpRuns \/ \E p \in Caller : CallerStep(p)
      BY Zenon DEF Next, vars, callers, history, TimerStep, removeHandler, fail, Handing, fulfill, Retransmit,
             ReaderStep, handleData, sendNAK, handleNAK, handleRSTACK, Stolen, NcpStep, NcpDiscards, NcpRepeats,
             NcpResets, Trouble, NcpCallsBack, NcpDies, LoseToNcp, LoseToHost, Close, Stopped
    <2> QED BY <2>1, <2>2, CallerSimulates, RunSimulates
  <1> QED BY <1>1, <1>2, Invariance, PTL DEF Spec, Promised, Promise!Spec, Simulates

=============================================================================

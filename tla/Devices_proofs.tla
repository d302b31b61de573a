--------------------------- MODULE Devices_proofs ---------------------------
(***************************************************************************)
(* Proofs about the coordinator's interviews, its table of response        *)
(* waiters and whom its messages are taken for, for any devices,           *)
(* addresses, scenarios and numbers of goroutines.                         *)
(***************************************************************************)
EXTENDS Devices, TLAPS

Label == {"off", "start", "store", "save", "write", "rename", "remove", "interview", "read", "send",
          "await", "tell", "clear"}

\* Where the goroutines can be: a re-interview does nothing but read and tell,
\* and the goroutine of a join that is still to come has not been started.
Control ==
  /\ pc \in [Proc -> Label] /\ DOMAIN at = Proc /\ DOMAIN seq = Proc
  /\ joins \in Seq([dev : Device, nwk : Nwk]) /\ Len(joins) <= Joins
  /\ \A e \in Enrich : pc[e] \in {"off", "read", "send", "await", "tell", "clear"}
  /\ \A h \in Join : pc[h] # "clear"
  /\ \A h \in Join : h > Joins - Len(joins) => pc[h] = "off"

IInv == Control /\ OneInterview /\ WaitersFreed

-----------------------------------------------------------------------------
\* Nothing that the invariant speaks of changes.
LEMMA Still ==
  ASSUME IInv, UNCHANGED <<pc, at, seq, waiters, interviewing, joins>>
  PROVE  IInv'
  BY DEF IInv, Control, OneInterview, WaitersFreed, Busy, Key

\* A goroutine takes a step within its interview, or within its read.
LEMMA Moves ==
  ASSUME IInv, NEW p \in Proc, NEW l \in Label,
         pc' = [pc EXCEPT ![p] = l],
         UNCHANGED <<at, seq, waiters, interviewing, joins>>,
         l \in {"send", "await"} <=> pc[p] \in {"send", "await"},
         p \in Join => pc[p] \notin {"off", "start"} /\ l \notin {"off", "start", "clear"},
         p \in Enrich => l \in {"off", "read", "send", "await", "tell", "clear"}
  PROVE  IInv'
<1>1. Control'
  BY BoundsAssumption DEF IInv, Control, Proc, Join
<1>2. Busy' = Busy
  BY DEF IInv, Control, Proc, Busy, Join
<1>3. OneInterview'
  BY <1>2 DEF IInv, OneInterview
<1>4. {q \in Proc : pc'[q] \in {"send", "await"}} = {q \in Proc : pc[q] \in {"send", "await"}}
  BY DEF IInv, Control
<1>5. WaitersFreed'
  BY <1>4 DEF IInv, WaitersFreed, Key
<1> QED BY <1>1, <1>3, <1>5 DEF IInv

\* A re-interview starts or ends, outside its read.
LEMMA Switches ==
  ASSUME IInv, NEW e \in Enrich, NEW l \in {"off", "read"}, NEW n,
         pc' = [pc EXCEPT ![e] = l], at' = [at EXCEPT ![e] = n],
         pc[e] \notin {"send", "await"},
         UNCHANGED <<seq, waiters, interviewing, joins>>
  PROVE  IInv'
<1> USE DEF IInv
<1>1. /\ e \in Proc /\ e \notin Join
      /\ \A q \in Proc : q # e => at'[q] = at[q] /\ pc'[q] = pc[q]
      /\ \A h \in Join : h \in Proc /\ h # e
  BY BoundsAssumption DEF Control, Proc, Join
<1>2. Control'
  BY <1>1 DEF Control, Label
<1>3. Busy' = Busy /\ \A h \in Busy : at'[h] = at[h]
  BY <1>1 DEF Busy
<1>4. OneInterview'
  BY <1>3 DEF OneInterview
<1>5. {q \in Proc : pc'[q] \in {"send", "await"}} = {q \in Proc : pc[q] \in {"send", "await"}}
  BY <1>1 DEF Control
<1>6. \A w \in waiters : w.by \in Proc /\ w.by # e
  BY DEF WaitersFreed
<1>7. WaitersFreed'
  BY <1>1, <1>5, <1>6 DEF WaitersFreed, Key
<1> QED BY <1>2, <1>4, <1>7

\* The read of p is over: its waiter is removed, its number forgotten.
LEMMA Cleans ==
  ASSUME IInv, NEW p \in Proc, pc[p] \in {"send", "await"}, cleanup(p),
         NEW l \in {"off", "tell"}, pc' = [pc EXCEPT ![p] = l],
         DOMAIN at' = Proc, \A q \in Proc : at'[q] = at[q] \/ q = p,
         p \in Join => l = "tell" /\ at'[p] = at[p],
         UNCHANGED <<interviewing, joins>>
  PROVE  IInv'
<1> USE DEF IInv, cleanup
<1>1. /\ \A q \in Proc : q # p => at'[q] = at[q] /\ pc'[q] = pc[q] /\ seq'[q] = seq[q]
      /\ pc'[p] = l /\ DOMAIN seq' = Proc
      /\ pc' \in [Proc -> Label]
  BY DEF Control, Label
<1>2. Control'
  BY <1>1 DEF Control, Proc
<1>3. Busy' = Busy /\ \A h \in Busy : at'[h] = at[h]
  BY <1>1 DEF Busy, Proc
<1>4. OneInterview'
  BY <1>3 DEF OneInterview
<1>5. {q \in Proc : pc'[q] \in {"send", "await"}}
        = {q \in Proc : pc[q] \in {"send", "await"}} \ {p}
  BY <1>1
<1>6. {w.by : w \in waiters'} = {w.by : w \in waiters} \ {p}
  OBVIOUS
<1>7. \A w \in waiters' : w \in waiters /\ w.by \in Proc /\ w.by # p
  BY DEF WaitersFreed
<1>8. WaitersFreed'
  BY <1>1, <1>5, <1>6, <1>7 DEF WaitersFreed, Key
<1> QED BY <1>2, <1>4, <1>8

\* Both ways in which a read may end are covered by Cleans.
LEMMA ReadEnds ==
  ASSUME IInv, NEW p \in Proc, pc[p] \in {"send", "await"}, cleanup(p),
         UNCHANGED <<interviewing, joins>>,
         ReadFails(p) \/ \E d : ReadSucceeds(p, d)
  PROVE  IInv'
<1>1. CASE (p \in Join /\ ReadFails(p)) \/ \E d : ReadSucceeds(p, d)
  <2>1. pc' = [pc EXCEPT ![p] = "tell"] /\ at' = at
    BY <1>1 DEF ReadSucceeds, ReadFails, Goes
  <2> QED BY <2>1, Cleans, Zenon DEF IInv, Control
<1>2. CASE p \notin Join /\ ReadFails(p)
  BY <1>2, Cleans DEF ReadFails, Ends, Goes, IInv, Control
<1> QED BY <1>1, <1>2

-----------------------------------------------------------------------------
LEMMA Initially == Init => IInv
<1> SUFFICES ASSUME Init PROVE IInv
  OBVIOUS
<1>1. /\ pc = [p \in Proc |-> "off"] /\ at = [p \in Proc |-> None] /\ seq = [p \in Proc |-> 0]
      /\ interviewing = {} /\ waiters = {}
      /\ joins \in Seq([dev : Device, nwk : Nwk]) /\ Len(joins) <= Joins
  <2>1. PICK s \in Scenarios : joins = s.joins
    BY DEF Init
  <2>2. joins \in Seq([dev : Device, nwk : Nwk]) /\ Len(joins) <= Joins
    BY <2>1, JoinsAssumption, Zenon
  <2> QED BY <2>2, Zenon DEF Init
<1>2. Control
  BY <1>1 DEF Control, Label, Proc
<1>3. OneInterview
  BY <1>1 DEF OneInterview, Busy, Proc
<1>4. WaitersFreed
  BY <1>1 DEF WaitersFreed
<1> QED BY <1>2, <1>3, <1>4 DEF IInv

\* A join starts a goroutine of its own, one that does not run yet.
LEMMA JoinStarts == IInv /\ DeviceJoins => IInv'
<1> SUFFICES ASSUME IInv, DeviceJoins PROVE IInv'
  OBVIOUS
<1> DEFINE h == Joins - Len(joins) + 1
<1> USE DEF IInv
<1>1. /\ h \in Join /\ Len(joins) \in Nat /\ Len(joins') = Len(joins) - 1
      /\ joins' \in Seq([dev : Device, nwk : Nwk])
  <2>1. joins \in Seq([dev : Device, nwk : Nwk]) /\ Len(joins) <= Joins
    BY DEF Control
  <2>2. joins # <<>> /\ joins' = Tail(joins)
    BY DEF DeviceJoins
  <2>3. Len(joins) \in Nat /\ Len(joins) # 0
    BY <2>1, <2>2
  <2>4. Len(joins') = Len(joins) - 1 /\ joins' \in Seq([dev : Device, nwk : Nwk])
    BY <2>1, <2>2, <2>3
  <2> QED BY <2>1, <2>3, <2>4, BoundsAssumption DEF Join
<1>2. pc[h] = "off" /\ h \in Proc
  BY <1>1, BoundsAssumption DEF Control, Proc
<1>3. /\ pc' = [pc EXCEPT ![h] = "start"] /\ at' = [at EXCEPT ![h] = Head(joins).nwk]
      /\ UNCHANGED <<seq, waiters, interviewing>>
  BY DEF DeviceJoins, Goes, zcl
<1> HIDE DEF h
<1>4. \A q \in Proc : q # h => pc'[q] = pc[q] /\ at'[q] = at[q]
  BY <1>3 DEF Control
<1>5. pc'[h] = "start" /\ pc' \in [Proc -> Label] /\ DOMAIN at' = Proc
  BY <1>2, <1>3 DEF Control, Label
<1>6. \A g \in Join : g > Joins - Len(joins') => pc'[g] = "off"
  <2> SUFFICES ASSUME NEW g \in Join, g > Joins - Len(joins') PROVE pc'[g] = "off"
    OBVIOUS
  <2>1. g > h /\ g > Joins - Len(joins)
    BY <1>1, BoundsAssumption DEF h, Join
  <2> QED BY <2>1, <1>4, <1>1 DEF Control, Proc, Join
<1>7. Control'
  <2>1. /\ \A e \in Enrich : e # h /\ e \in Proc
        /\ \A g \in Join : g \in Proc
    BY <1>1, BoundsAssumption DEF Join, Proc
  <2>2. /\ \A e \in Enrich : pc'[e] \in {"off", "read", "send", "await", "tell", "clear"}
        /\ \A g \in Join : pc'[g] # "clear"
    BY <2>1, <1>4, <1>5 DEF Control
  <2>3. DOMAIN seq' = Proc /\ Len(joins') <= Joins
    BY <1>1, <1>3, BoundsAssumption DEF Control
  <2> QED BY <2>2, <2>3, <1>1, <1>5, <1>6 DEF Control
<1>8. OneInterview'
  <2>1. Busy' = Busy /\ \A g \in Busy : at'[g] = at[g]
    BY <1>2, <1>4, <1>5 DEF Busy, Proc
  <2> QED BY <2>1, <1>3 DEF OneInterview
<1>9. WaitersFreed'
  <2>1. {q \in Proc : pc'[q] \in {"send", "await"}} = {q \in Proc : pc[q] \in {"send", "await"}}
    BY <1>2, <1>4, <1>5
  <2>2. \A w \in waiters : w.by \in Proc /\ w.by # h
    BY <1>2 DEF WaitersFreed
  <2> QED BY <2>1, <2>2, <1>3, <1>4 DEF WaitersFreed, Key
<1> QED BY <1>7, <1>8, <1>9

\* The step that marks an address, and the early end of a second join of it.
LEMMA Marks == ASSUME IInv, NEW h \in Join, Dedup(h) PROVE IInv'
<1> USE DEF IInv
<1>1. h \in Proc /\ pc[h] = "start" /\ UNCHANGED <<seq, waiters, joins>>
  BY DEF Dedup, Proc, zcl, world
<1>2. PICK l \in {"off", "store"} : pc' = [pc EXCEPT ![h] = l]
  BY DEF Dedup, Ends, Goes
<1>3. /\ \A q \in Proc : q # h => at'[q] = at[q] /\ pc'[q] = pc[q]
      /\ DOMAIN at' = Proc /\ pc' \in [Proc -> Label] /\ pc'[h] = l
  BY <1>1, <1>2 DEF Dedup, Ends, Control, Label
<1>4. Control'
  BY <1>1, <1>2, <1>3, BoundsAssumption DEF Control, Proc, Join
<1>5. WaitersFreed'
  <2>1. {q \in Proc : pc'[q] \in {"send", "await"}} = {q \in Proc : pc[q] \in {"send", "await"}}
    BY <1>1, <1>3
  <2>2. \A w \in waiters : w.by \in Proc /\ w.by # h
    BY <1>1 DEF WaitersFreed
  <2> QED BY <2>1, <2>2, <1>1, <1>3 DEF WaitersFreed, Key
<1>6. CASE at[h] \in interviewing
  <2>1. pc' = [pc EXCEPT ![h] = "off"] /\ interviewing' = interviewing
    BY <1>6 DEF Dedup, Ends, Goes
  <2>2. Busy' = Busy /\ \A g \in Busy : at'[g] = at[g]
    BY <1>1, <1>3, <2>1 DEF Busy, Proc, Control
  <2>3. OneInterview'
    BY <2>1, <2>2 DEF OneInterview
  <2> QED BY <1>4, <1>5, <2>3
<1>7. CASE at[h] \notin interviewing
  <2>1. /\ pc' = [pc EXCEPT ![h] = "store"] /\ at' = at
        /\ interviewing' = interviewing \cup {at[h]}
    BY <1>7 DEF Dedup, Goes
  <2>2. Busy' = Busy \cup {h} /\ h \notin Busy
    BY <1>1, <1>3, <2>1 DEF Busy, Proc, Control
  <2>3. \A g \in Busy : at[g] # at[h]
    BY <1>7 DEF OneInterview
  <2>4. OneInterview'
    BY <2>1, <2>2, <2>3 DEF OneInterview
  <2> QED BY <1>4, <1>5, <2>4
<1> QED BY <1>6, <1>7

\* The end of a join removes the mark it made.
LEMMA Unmarks == ASSUME IInv, NEW h \in Join, Dispatch(h) PROVE IInv'
<1> USE DEF IInv
<1>1. /\ h \in Proc /\ pc[h] = "tell" /\ UNCHANGED <<seq, waiters, joins>>
      /\ pc' = [pc EXCEPT ![h] = "off"] /\ at' = [at EXCEPT ![h] = None]
      /\ interviewing' = interviewing \ {at[h]}
  BY DEF Dispatch, Ends, Goes, Proc, zcl, world
<1>2. /\ \A q \in Proc : q # h => at'[q] = at[q] /\ pc'[q] = pc[q]
      /\ DOMAIN at' = Proc /\ pc' \in [Proc -> Label] /\ pc'[h] = "off"
  BY <1>1 DEF Control, Label
<1>3. Control'
  BY <1>1, <1>2, BoundsAssumption DEF Control, Proc, Join
<1>4. WaitersFreed'
  <2>1. {q \in Proc : pc'[q] \in {"send", "await"}} = {q \in Proc : pc[q] \in {"send", "await"}}
    BY <1>1, <1>2
  <2>2. \A w \in waiters : w.by \in Proc /\ w.by # h
    BY <1>1 DEF WaitersFreed
  <2> QED BY <2>1, <2>2, <1>1, <1>2 DEF WaitersFreed, Key
<1>5. OneInterview'
  <2>1. h \in Busy /\ Busy' = Busy \ {h} /\ \A g \in Busy' : at'[g] = at[g]
    BY <1>1, <1>2 DEF Busy, Proc, Control
  <2>2. \A g \in Busy' : at[g] # at[h]
    BY <2>1 DEF OneInterview
  <2>3. interviewing' = {at'[g] : g \in Busy'}
    BY <1>1, <2>1, <2>2 DEF OneInterview
  <2> QED BY <2>1, <2>3 DEF OneInterview
<1> QED BY <1>3, <1>4, <1>5

\* A read registers its waiter, or finds its key taken and fails.
LEMMA Registers == ASSUME IInv, NEW p \in Proc, registerResponseWaiter(p) PROVE IInv'
<1> USE DEF IInv
<1> DEFINE k == [nwk |-> at[p], seq |-> seq'[p]]
<1>1. /\ pc[p] = "read" /\ UNCHANGED <<interviewing, joins>>
      /\ seq' = [seq EXCEPT ![p] = nextZclTxnSequence]
  BY DEF registerResponseWaiter, world
<1>2. DOMAIN seq' = Proc /\ \A q \in Proc : q # p => seq'[q] = seq[q]
  BY <1>1 DEF Control
<1>3. \A w \in waiters : w.by \in Proc /\ w.by # p
  BY <1>1 DEF WaitersFreed
<1>4. CASE \E w \in waiters : w.key = k
  <2>1. ReadFails(p) /\ waiters' = waiters
    BY <1>4 DEF registerResponseWaiter
  <2>2. PICK l \in {"off", "tell"} : pc' = [pc EXCEPT ![p] = l] /\ (p \in Join => l = "tell")
    BY <2>1 DEF ReadFails, Ends, Goes
  <2>3. /\ DOMAIN at' = Proc /\ \A q \in Proc : q # p => at'[q] = at[q] /\ pc'[q] = pc[q]
        /\ p \in Join => at' = at
        /\ pc' \in [Proc -> Label] /\ pc'[p] = l
    BY <2>1, <2>2 DEF ReadFails, Ends, Control, Label
  <2>4. Control'
    BY <1>1, <1>2, <2>2, <2>3 DEF Control, Proc
  <2>5. Busy' = Busy /\ \A g \in Busy : at'[g] = at[g]
    BY <1>1, <2>2, <2>3 DEF Busy, Proc
  <2>6. OneInterview'
    BY <1>1, <2>5 DEF OneInterview
  <2>7. {q \in Proc : pc'[q] \in {"send", "await"}} = {q \in Proc : pc[q] \in {"send", "await"}}
    BY <1>1, <2>2, <2>3
  <2>8. WaitersFreed'
    <3>1. \A w \in waiters : Key(w.by)' = Key(w.by)
      BY <1>2, <1>3, <2>3 DEF Key
    <3> QED BY <2>1, <2>7, <3>1 DEF WaitersFreed
  <2> QED BY <2>4, <2>6, <2>8
<1>5. CASE ~\E w \in waiters : w.key = k
  <2>1. /\ waiters' = waiters \cup {[key |-> k, by |-> p]}
        /\ pc' = [pc EXCEPT ![p] = "send"] /\ at' = at
    BY <1>5 DEF registerResponseWaiter, Goes
  <2>2. /\ pc' \in [Proc -> Label] /\ pc'[p] = "send"
        /\ \A q \in Proc : q # p => pc'[q] = pc[q]
    BY <2>1 DEF Control, Label
  <2>3. Control'
    BY <1>1, <1>2, <2>1, <2>2 DEF Control, Proc
  <2>4. Busy' = Busy
    BY <1>1, <2>2 DEF Busy, Proc
  <2>5. OneInterview'
    BY <1>1, <2>1, <2>4 DEF OneInterview
  <2>6. {q \in Proc : pc'[q] \in {"send", "await"}} = {q \in Proc : pc[q] \in {"send", "await"}} \cup {p}
    BY <2>2
  <2>7. {w.by : w \in waiters'} = {w.by : w \in waiters} \cup {p}
    <3> DEFINE new == [key |-> k, by |-> p]
    <3>1. new.by = p
      OBVIOUS
    <3> HIDE DEF new
    <3>2. waiters' = waiters \cup {new}
      BY <2>1 DEF new
    <3> QED BY <3>1, <3>2
  <2>8. \A w \in waiters' : w.key = Key(w.by)'
    <3>1. \A w \in waiters : w.key = Key(w.by)'
      BY <1>2, <1>3, <2>1 DEF WaitersFreed, Key
    <3>2. k = Key(p)'
      BY <2>1 DEF Key
    <3> QED BY <3>1, <3>2, <2>1
  <2>9. \A v, w \in waiters' : v # w => v.key # w.key /\ v.by # w.by
    BY <1>3, <1>5, <2>1 DEF WaitersFreed
  <2> QED BY <2>3, <2>5, <2>6, <2>7, <2>8, <2>9 DEF WaitersFreed
<1> QED BY <1>4, <1>5

\* Everything stops; the joins to come are still to come.
LEMMA Restarts == IInv /\ Restart => IInv'
<1> SUFFICES ASSUME IInv, Restart PROVE IInv'
  OBVIOUS
<1>1. /\ pc' = [p \in Proc |-> "off"] /\ at' = [p \in Proc |-> None] /\ seq' = [p \in Proc |-> 0]
      /\ interviewing' = {} /\ waiters' = {} /\ joins' = joins
  BY DEF Restart
<1>2. Control'
  BY <1>1 DEF IInv, Control, Label, Proc
<1>3. OneInterview'
  BY <1>1 DEF OneInterview, Busy, Proc
<1>4. WaitersFreed'
  BY <1>1 DEF WaitersFreed
<1> QED BY <1>2, <1>3, <1>4 DEF IInv

(* IInv is kept by every step.                                             *)
LEMMA StepKeeps == IInv /\ [Next]_vars => IInv'
<1> SUFFICES ASSUME IInv, [Next]_vars PROVE IInv'
  OBVIOUS
<1> USE DEF Goes, Ends, zcl, world, procs, air
<1>1. CASE DeviceJoins
  BY <1>1, JoinStarts
<1>2. ASSUME NEW h \in Join, HandlerStep(h) PROVE IInv'
  <2>1. CASE Dedup(h)
    BY <2>1, Marks
  <2>2. CASE Dispatch(h)
    BY <2>2, Unmarks
  <2>3. CASE Store(h) \/ Truncate(h) \/ Write(h) \/ Rename(h) \/ Remove(h) \/ Interview(h)
    <3>1. /\ pc[h] \in {"store", "save", "write", "rename", "remove", "interview"}
          /\ UNCHANGED <<at, seq, waiters, interviewing, joins>>
      BY <2>3, Zenon DEF Store, Truncate, Write, Rename, Remove, Interview
    <3>2. PICK l \in {"save", "write", "rename", "remove", "interview", "tell", "read"} :
            pc' = [pc EXCEPT ![h] = l]
      BY <2>3, Zenon DEF Store, Truncate, Write, Rename, Remove, Interview
    <3>3. h \in Proc /\ h \notin Enrich
      BY BoundsAssumption DEF Proc, Join
    <3>4. l \in Label /\ l \notin {"off", "start", "clear", "send", "await"}
      BY DEF Label
    <3> QED BY <3>1, <3>2, <3>3, <3>4, Moves, Zenon
  <2> QED BY <1>2, <2>1, <2>2, <2>3 DEF HandlerStep
<1>3. ASSUME NEW e \in Enrich, EnrichStep(e) PROVE IInv'
  <2>1. CASE EnrichDispatch(e)
    <3>1. /\ pc[e] = "tell" /\ pc' = [pc EXCEPT ![e] = "clear"]
          /\ UNCHANGED <<at, seq, waiters, interviewing, joins>>
      BY <2>1 DEF EnrichDispatch
    <3>2. e \in Proc /\ e \notin Join /\ "clear" \in Label
      BY BoundsAssumption DEF Proc, Join, Label
    <3> QED BY <3>1, <3>2, Moves, Zenon
  <2>2. CASE clearReinterviewAnnotation(e)
    BY <2>2, Switches, Zenon DEF clearReinterviewAnnotation
  <2> QED BY <1>3, <2>1, <2>2 DEF EnrichStep
<1>4. ASSUME NEW p \in Proc, ReadStep(p) PROVE IInv'
  <2>1. CASE registerResponseWaiter(p)
    BY <2>1, Registers
  <2>2. CASE SendZcl(p)
    <3>1. /\ pc[p] = "send" /\ pc' = [pc EXCEPT ![p] = "await"] /\ "await" \in Label
          /\ UNCHANGED <<at, seq, waiters, interviewing, joins>>
      BY <2>2, Zenon DEF SendZcl, Label
    <3> QED BY <3>1, Moves, Zenon
  <2>3. CASE SendFails(p)
    BY <2>3, ReadEnds DEF SendFails
  <2>4. CASE Answered(p)
    BY <2>4, ReadEnds DEF Answered
  <2>5. CASE Timeout(p)
    BY <2>5, ReadEnds DEF Timeout
  <2> QED BY <1>4, <2>1, <2>2, <2>3, <2>4, <2>5 DEF ReadStep
<1>5. CASE forwardMessageToRouter
  <2>1. /\ UNCHANGED <<seq, waiters, interviewing, joins>>
        /\ triggerPendingEnrichmentIfAny(Head(inbox).nwk)
    BY <1>5 DEF forwardMessageToRouter
  <2>2. CASE pending[Head(inbox).nwk] = None
    BY <2>1, <2>2, Still DEF triggerPendingEnrichmentIfAny
  <2>3. CASE pending[Head(inbox).nwk] # None
    <3>1. PICK e \in Enrich : /\ pc[e] = "off" /\ pc' = [pc EXCEPT ![e] = "read"]
                              /\ at' = [at EXCEPT ![e] = Head(inbox).nwk]
      BY <2>1, <2>3 DEF triggerPendingEnrichmentIfAny
    <3> QED BY <2>1, <3>1, Switches, Zenon
  <2> QED BY <2>2, <2>3
<1>6. CASE Restart
  BY <1>6, Restarts
<1>7. ASSUME NEW d \in Device,
             DeviceAnswers(d) \/ DeviceReports(d) \/ DeviceReportsSame(d) \/ SendCommand(d)
      PROVE  IInv'
  BY <1>7, Still, Zenon DEF DeviceAnswers, DeviceReports, DeviceReportsSame, SendCommand, Airs
<1>8. CASE LoseRequest \/ reinterviewTick \/ (\E r \in results : InterviewRoute(r)) \/ UNCHANGED vars
  BY <1>8, Still, Zenon DEF LoseRequest, reinterviewTick, InterviewRoute, Airs, vars
<1> QED BY <1>1, <1>2, <1>3, <1>4, <1>5, <1>6, <1>7, <1>8 DEF Next

(* The invariant: where the goroutines can be, with the marks and the      *)
(* waiters that go with it (handleDeviceJoin, registerResponseWaiter).     *)
THEOREM Invariance == Spec => []IInv
  BY Initially, StepKeeps, PTL DEF Spec

(* Of the joins of an address one at a time is interviewed, and no mark    *)
(* outlives its interview (handleDeviceJoin, interviewAndDispatch).        *)
THEOREM OneInterviewHolds == Spec => []OneInterview
<1>1. IInv => OneInterview
  BY DEF IInv
<1> QED BY <1>1, Invariance, PTL

(* A read that is over, however it ended, leaves no waiter, and two reads  *)
(* never share a key (sendZclAndAwait, registerResponseWaiter).            *)
THEOREM WaitersFreedHolds == Spec => []WaitersFreed
<1>1. IInv => WaitersFreed
  BY DEF IInv
<1> QED BY <1>1, Invariance, PTL

-----------------------------------------------------------------------------
(* Who is meant.  As long as no device changes its address, or takes over  *)
(* that of another, whatever pairs a device with an address pairs it with  *)
(* its own: the maps, their copies on the way to the disk and on it, the   *)
(* goroutines, the messages, the results and the resources.                *)

Map == [Nwk -> Device \cup {None}]
Addresses == [Device -> Nwk \cup {None}]

\* Of addresses a: a map from addresses, one from devices, and a message.
Knows(a, m) == m \in Map /\ \A n \in Nwk : m[n] # None => a[m[n]] = n
Places(a, m) == m \in Addresses /\ \A d \in Device : m[d] # None => a[d] = m[d]
Sent(a, m) == m.dev \in Device /\ m.nwk \in Nwk /\ a[m.dev] = m.nwk

\* Two devices do not have one address.
Apart(a) == a \in Addresses /\ \A d, e \in Device : a[d] = a[e] /\ a[d] # None => d = e

MapsRight == Knows(addr, nwkToIEEE) /\ Places(addr, ieeeToNWK)

DiskRight ==
  /\ snap \in [Join -> Map] /\ \A h \in Join : Knows(addr, snap[h])
  /\ fd \in [Join -> 0..Joins] /\ file \in 0..Joins /\ tmp \in (0..Joins) \cup {None}
  /\ content = [i \in 0..Joins |-> content[i]]
  /\ \A i \in 0..Joins : content[i] = Garbled \/ Knows(addr, content[i])

\* What a goroutine learns it learns of its own device.
Meant(p) ==
  IF pc[p] = "off" THEN learned[p] = None
  ELSE who[p] \in Device /\ at[p] \in Nwk /\ addr[who[p]] = at[p] /\ learned[p] \in {None, who[p]}
WhoRight ==
  /\ who \in [Proc -> Device \cup {None}] /\ learned \in [Proc -> Device \cup {None}]
  /\ \A p \in Proc : Meant(p)

InboxRight ==
  /\ inbox \in Seq({inbox[i] : i \in DOMAIN inbox})
  /\ \A i \in DOMAIN inbox : Sent(addr, inbox[i])
ChanRight ==
  /\ chan = [p \in Proc |-> chan[p]]
  /\ \A p \in Proc : chan[p] # None =>
       pc[p] \in {"send", "await"} /\ Sent(addr, chan[p]) /\ chan[p].nwk = at[p]
ResultsRight == \A r \in results : Sent(addr, r) /\ r.from = r.dev

ResourcesRight == Places(addr, crNwk) /\ Knows(addr, pending)

Right == /\ Apart(addr) /\ MapsRight /\ DiskRight /\ WhoRight
         /\ InboxRight /\ ChanRight /\ ResultsRight /\ ResourcesRight

RInv == moved \in BOOLEAN /\ misled = FALSE /\ (moved = FALSE => Right)

-----------------------------------------------------------------------------
\* The device at an address is the one that has it.
LEMMA AtIs ==
  ASSUME Apart(addr), NEW d \in Device, NEW n \in Nwk, addr[d] = n
  PROVE  At(n) = d
<1>1. \A e \in Device : addr[e] = n => e = d
  BY NoneAssumption DEF Apart
<1>2. (CHOOSE e \in Device : addr[e] = n) = d
  BY <1>1
<1> QED BY <1>2 DEF At

\* Devices keep the addresses they have.
Grows == \A d \in Device : addr[d] # None => addr'[d] = addr[d]

LEMMA Stays ==
  ASSUME Grows
  PROVE  /\ \A m : Knows(addr, m) => Knows(addr', m)
         /\ \A m : Places(addr, m) => Places(addr', m)
         /\ \A m : Sent(addr, m) => Sent(addr', m)
<1>1. ASSUME NEW m, Knows(addr, m) PROVE Knows(addr', m)
  BY <1>1, NoneAssumption DEF Knows, Map, Grows
<1>2. ASSUME NEW m, Places(addr, m) PROVE Places(addr', m)
  BY <1>2 DEF Places, Addresses, Grows
<1>3. ASSUME NEW m, Sent(addr, m) PROVE Sent(addr', m)
  BY <1>3, NoneAssumption DEF Sent, Grows
<1> QED BY <1>1, <1>2, <1>3

\* What a step does not touch stays right.
LEMMA MapsStill == ASSUME MapsRight, Grows, UNCHANGED maps PROVE MapsRight'
  BY Stays DEF MapsRight, maps

LEMMA DiskStill == ASSUME DiskRight, Grows, UNCHANGED disk PROVE DiskRight'
  BY Stays DEF DiskRight, disk

LEMMA InboxStill == ASSUME InboxRight, Grows, UNCHANGED inbox PROVE InboxRight'
  BY Stays DEF InboxRight

LEMMA ResultsStill == ASSUME ResultsRight, Grows, UNCHANGED results PROVE ResultsRight'
  BY Stays DEF ResultsRight

LEMMA ResourcesStill == ASSUME ResourcesRight, Grows, UNCHANGED <<crNwk, pending>> PROVE ResourcesRight'
  BY Stays DEF ResourcesRight

LEMMA WhoStill == ASSUME WhoRight, Grows, UNCHANGED procs PROVE WhoRight'
  BY NoneAssumption DEF WhoRight, Meant, procs, Grows

\* A goroutine moves on, and it is still meant for its device.
LEMMA WhoMoves ==
  ASSUME WhoRight, Grows, NEW p \in Proc, Meant(p)',
         who' \in [Proc -> Device \cup {None}], learned' \in [Proc -> Device \cup {None}],
         \A q \in Proc : q # p => /\ pc'[q] = pc[q] /\ at'[q] = at[q]
                                  /\ who'[q] = who[q] /\ learned'[q] = learned[q]
  PROVE  WhoRight'
  BY NoneAssumption DEF WhoRight, Meant, Grows

\* A read in progress stays where it is, with what it has received.
LEMMA ChanStill ==
  ASSUME ChanRight, Grows, UNCHANGED chan,
         \A p \in Proc : pc[p] \in {"send", "await"} => pc'[p] \in {"send", "await"} /\ at'[p] = at[p]
  PROVE  ChanRight'
  BY Stays DEF ChanRight

-----------------------------------------------------------------------------
LEMMA RightInitially == Init => RInv
<1> SUFFICES ASSUME Init PROVE RInv
  OBVIOUS
<1>1. PICK s \in Scenarios :
        /\ pc = [p \in Proc |-> "off"] /\ who = [p \in Proc |-> None]
        /\ at = [p \in Proc |-> None] /\ learned = [p \in Proc |-> None]
        /\ addr = s.addr /\ moved = FALSE
        /\ nwkToIEEE = IF s.known THEN [n \in Nwk |-> At(n)] ELSE NoMap
        /\ ieeeToNWK = IF s.known THEN s.addr ELSE [d \in Device |-> None]
        /\ snap = [h \in Join |-> NoMap] /\ fd = [h \in Join |-> 0]
        /\ content = [i \in 0..Joins |-> IF i = 0 THEN nwkToIEEE ELSE NoMap] /\ file = 0 /\ tmp = None
        /\ chan = [p \in Proc |-> None] /\ inbox = <<>> /\ results = {}
        /\ pending = NoMap /\ crNwk = s.addr /\ misled = FALSE
  BY Zenon DEF Init
<1>2. Apart(addr)
  BY <1>1, AddressAssumption, Zenon DEF Apart, Addresses
<1>3. Knows(addr, NoMap)
  BY Zenon DEF Knows, Map, NoMap
<1>4. Knows(addr, [n \in Nwk |-> At(n)])
  <2>1. ASSUME NEW n \in Nwk PROVE At(n) = None \/ (At(n) \in Device /\ addr[At(n)] = n)
    BY DEF At
  <2> QED BY <2>1 DEF Knows, Map
<1>5. Knows(addr, nwkToIEEE)
  BY <1>1, <1>3, <1>4
<1>6. Places(addr, addr) /\ Places(addr, [d \in Device |-> None])
  BY <1>2 DEF Apart, Places, Addresses
<1>7. MapsRight /\ ResourcesRight
  BY <1>1, <1>3, <1>5, <1>6, Zenon DEF MapsRight, ResourcesRight
<1>8. DiskRight
  <2>1. 0 \in 0..Joins
    BY BoundsAssumption
  <2>2. NoMap \in Map
    BY <1>3 DEF Knows
  <2> QED BY <2>1, <2>2, <1>1, <1>3, <1>5, Zenon DEF DiskRight
<1>9. WhoRight
  BY <1>1 DEF WhoRight, Meant
<1>10. InboxRight /\ ChanRight /\ ResultsRight
  BY <1>1 DEF InboxRight, ChanRight, ResultsRight
<1> QED BY <1>1, <1>2, <1>7, <1>8, <1>9, <1>10, Zenon DEF RInv, Right

\* A join that is handled is one of a device at an address, and its goroutine
\* has not been started.
LEMMA JoinTurn ==
  ASSUME IInv, joins # <<>>
  PROVE  /\ Head(joins).dev \in Device /\ Head(joins).nwk \in Nwk
         /\ Joins - Len(joins) + 1 \in Join /\ pc[Joins - Len(joins) + 1] = "off"
<1> DEFINE h == Joins - Len(joins) + 1
<1>1. joins \in Seq([dev : Device, nwk : Nwk]) /\ Len(joins) <= Joins
  BY DEF IInv, Control
<1>2. Len(joins) \in Nat /\ Len(joins) # 0 /\ Head(joins) \in [dev : Device, nwk : Nwk]
  <2>1. Len(joins) \in Nat /\ Len(joins) # 0
    BY <1>1
  <2> DEFINE S == [dev : Device, nwk : Nwk]
  <2>2. joins \in Seq(S)
    BY <1>1
  <2> HIDE DEF S
  <2>3. Head(joins) \in S
    BY <2>1, <2>2
  <2> QED BY <2>1, <2>3 DEF S
<1>3. h \in Join /\ h > Joins - Len(joins)
  BY <1>1, <1>2, BoundsAssumption DEF Join
<1> QED BY <1>2, <1>3 DEF IInv, Control

LEMMA JoinsRight ==
  ASSUME IInv, Right, DeviceJoins, moved' = FALSE
  PROVE  Right'
<1>d. PICK d \in Device : d = Head(joins).dev
  BY JoinTurn DEF DeviceJoins
<1>n. PICK n \in Nwk : n = Head(joins).nwk
  BY JoinTurn DEF DeviceJoins
<1>h. PICK h \in Join : h = Joins - Len(joins) + 1
  BY JoinTurn DEF DeviceJoins
<1>1. h \in Proc /\ pc[h] = "off"
  BY <1>h, JoinTurn DEF DeviceJoins, Proc
<1>2. /\ addr' = [e \in Device |-> IF e = d THEN n ELSE IF addr[e] = n THEN None ELSE addr[e]]
      /\ moved' = (moved \/ addr[d] \notin {None, n} \/ \E e \in Device \ {d} : addr[e] = n)
      /\ who' = [who EXCEPT ![h] = d] /\ at' = [at EXCEPT ![h] = n]
      /\ pc' = [pc EXCEPT ![h] = "start"] /\ learned' = learned
      /\ UNCHANGED <<maps, disk, inbox, results, chan, crNwk, pending>>
  BY <1>d, <1>n, <1>h, Zenon DEF DeviceJoins, Goes, zcl, air, resources
<1>3. addr[d] \in {None, n} /\ \A e \in Device : e # d => addr[e] # n
  BY <1>2, Zenon
<1>4. addr'[d] = n /\ \A e \in Device : e # d => addr'[e] = addr[e]
  BY <1>1, <1>2, <1>3
<1>5. Apart(addr) /\ WhoRight /\ ChanRight /\ Control
  BY DEF Right, IInv
<1>6. Grows
  BY <1>3, <1>4 DEF Grows
<1>7. Apart(addr')
  BY <1>1, <1>2, <1>3, <1>4, <1>5 DEF Apart, Addresses
<1>8. /\ pc'[h] = "start" /\ who'[h] = d /\ at'[h] = n
      /\ who' \in [Proc -> Device \cup {None}] /\ learned' \in [Proc -> Device \cup {None}]
      /\ \A q \in Proc : q # h => /\ pc'[q] = pc[q] /\ at'[q] = at[q]
                                  /\ who'[q] = who[q] /\ learned'[q] = learned[q]
  BY <1>1, <1>2, <1>5, Zenon DEF WhoRight, Control
<1>9. Meant(h)'
  <2>1. learned'[h] = None
    BY <1>1, <1>2, <1>5 DEF WhoRight, Meant
  <2> QED BY <1>4, <1>8, <2>1 DEF Meant
<1>10. WhoRight'
  BY <1>1, <1>5, <1>6, <1>8, <1>9, WhoMoves, Zenon
<1>11. ChanRight'
  BY <1>1, <1>2, <1>5, <1>6, <1>8, ChanStill, Zenon
<1> QED BY <1>2, <1>6, <1>7, <1>10, <1>11, MapsStill, DiskStill, InboxStill, ResultsStill, ResourcesStill
        DEF Right

-----------------------------------------------------------------------------
(* The steps of goroutines, with the addresses as they are.                *)

LEMMA AddressesStay == ASSUME addr' = addr PROVE Grows
  BY DEF Grows

LEMMA Advances ==
  ASSUME IInv, Right, addr' = addr, NEW p \in Proc, pc[p] # "off",
         NEW l, l # "off", pc' = [pc EXCEPT ![p] = l], UNCHANGED <<who, at>>,
         learned' = learned \/ learned' = [learned EXCEPT ![p] = who[p]]
  PROVE  WhoRight'
<1>1. WhoRight /\ Control /\ Grows
  BY AddressesStay DEF Right, IInv
<1>2. who[p] \in Device /\ at[p] \in Nwk /\ addr[who[p]] = at[p] /\ learned[p] \in {None, who[p]}
  BY <1>1 DEF WhoRight, Meant
<1>3. /\ pc'[p] = l /\ learned'[p] \in {None, who[p]}
      /\ who' \in [Proc -> Device \cup {None}] /\ learned' \in [Proc -> Device \cup {None}]
      /\ \A q \in Proc : q # p => /\ pc'[q] = pc[q] /\ at'[q] = at[q]
                                  /\ who'[q] = who[q] /\ learned'[q] = learned[q]
  BY <1>1, <1>2 DEF WhoRight, Control
<1>4. Meant(p)'
  BY <1>2, <1>3, Zenon DEF Meant
<1> QED BY <1>1, <1>3, <1>4, WhoMoves

LEMMA Stops == ASSUME IInv, Right, addr' = addr, NEW p \in Proc, Ends(p) PROVE WhoRight'
<1>1. WhoRight /\ Control /\ Grows
  BY AddressesStay DEF Right, IInv
<1>2. /\ pc'[p] = "off" /\ learned'[p] = None
      /\ who' \in [Proc -> Device \cup {None}] /\ learned' \in [Proc -> Device \cup {None}]
      /\ \A q \in Proc : q # p => /\ pc'[q] = pc[q] /\ at'[q] = at[q]
                                  /\ who'[q] = who[q] /\ learned'[q] = learned[q]
  BY <1>1 DEF WhoRight, Control, Ends, Goes
<1>3. Meant(p)'
  BY <1>2 DEF Meant
<1> QED BY <1>1, <1>2, <1>3, WhoMoves, Zenon

\* One goroutine moves, outside its read or within it.
LEMMA ChanMoves ==
  ASSUME IInv, Right, addr' = addr, UNCHANGED chan, NEW p \in Proc, NEW l, NEW n,
         pc' = [pc EXCEPT ![p] = l], at' = at \/ at' = [at EXCEPT ![p] = n],
         pc[p] \in {"send", "await"} => l \in {"send", "await"} /\ at' = at
  PROVE  ChanRight'
<1>1. ChanRight /\ Control /\ Grows
  BY AddressesStay DEF Right, IInv
<1>2. \A q \in Proc : pc[q] \in {"send", "await"} => pc'[q] \in {"send", "await"} /\ at'[q] = at[q]
  BY <1>1 DEF Control
<1> QED BY <1>1, <1>2, ChanStill

\* The read of p is over.
LEMMA ChanCleans ==
  ASSUME IInv, Right, addr' = addr, NEW p \in Proc, cleanup(p), NEW l, NEW n,
         pc' = [pc EXCEPT ![p] = l], at' = at \/ at' = [at EXCEPT ![p] = n]
  PROVE  ChanRight'
<1>1. ChanRight /\ Control
  BY DEF Right, IInv
<1>2. chan' = [chan EXCEPT ![p] = None]
  BY DEF cleanup
<1>3. chan' = [q \in Proc |-> chan'[q]] /\ chan'[p] = None /\ \A q \in Proc : q # p => chan'[q] = chan[q]
  BY <1>1, <1>2 DEF ChanRight
<1>4. \A q \in Proc : q # p => pc'[q] = pc[q] /\ at'[q] = at[q]
  BY <1>1 DEF Control
<1>5. ASSUME NEW q \in Proc, chan'[q] # None
      PROVE  pc'[q] \in {"send", "await"} /\ Sent(addr', chan'[q]) /\ chan'[q].nwk = at'[q]
  BY <1>1, <1>3, <1>4, <1>5 DEF ChanRight
<1> QED BY <1>3, <1>5 DEF ChanRight

\* What the router is told concerns the device it names.
LEMMA Tells ==
  ASSUME Right, addr' = addr, NEW p \in Proc, pc[p] # "off", sendInterviewResult(p)
  PROVE  ResultsRight'
<1>1. ResultsRight /\ WhoRight /\ Grows
  BY AddressesStay DEF Right
<1>2. CASE UNCHANGED results
  BY <1>1, <1>2, ResultsStill
<1>3. CASE learned[p] # None /\ results' = results \cup {[dev |-> who[p], nwk |-> at[p], from |-> learned[p]]}
  <2> DEFINE r == [dev |-> who[p], nwk |-> at[p], from |-> learned[p]]
  <2>1. who[p] \in Device /\ at[p] \in Nwk /\ addr[who[p]] = at[p] /\ learned[p] = who[p]
    BY <1>1, <1>3, Zenon DEF WhoRight, Meant
  <2>2. Sent(addr', r) /\ r.from = r.dev
    BY <2>1, Zenon DEF Sent
  <2> HIDE DEF r
  <2>3. results' = results \cup {r}
    BY <1>3 DEF r
  <2> QED BY <1>1, <2>2, <2>3 DEF ResultsRight
<1> QED BY <1>2, <1>3 DEF sendInterviewResult

\* A read that fails ends its goroutine or has it tell; a re-interview is
\* registered again, under the address of its device.
LEMMA FailsRight ==
  ASSUME IInv, Right, addr' = addr, NEW p \in Proc, pc[p] # "off", ReadFails(p), UNCHANGED crNwk
  PROVE  WhoRight' /\ ResourcesRight'
<1>1. WhoRight /\ ResourcesRight /\ Grows
  BY AddressesStay DEF Right
<1>2. CASE p \in Join
  <2>1. pc' = [pc EXCEPT ![p] = "tell"] /\ UNCHANGED <<who, at, learned, pending>>
    BY <1>2 DEF ReadFails, Goes
  <2>2. WhoRight'
    BY <2>1, Advances, Zenon
  <2> QED BY <1>1, <2>1, <2>2, ResourcesStill
<1>3. CASE p \notin Join
  <2>1. Ends(p) /\ pending' = [pending EXCEPT ![at[p]] = who[p]]
    BY <1>3 DEF ReadFails
  <2>2. who[p] \in Device /\ at[p] \in Nwk /\ addr[who[p]] = at[p]
    BY <1>1 DEF WhoRight, Meant
  <2>3. Knows(addr', pending')
    BY <1>1, <2>1, <2>2, Zenon DEF ResourcesRight, Knows, Map
  <2>4. Places(addr', crNwk')
    BY <1>1 DEF ResourcesRight
  <2> QED BY <2>1, <2>3, <2>4, Stops, Zenon DEF ResourcesRight
<1> QED BY <1>2, <1>3

-----------------------------------------------------------------------------
LEMMA StoreRight == ASSUME IInv, Right, NEW h \in Join, Store(h) PROVE Right'
<1>1. /\ h \in Proc /\ pc[h] = "store" /\ pc' = [pc EXCEPT ![h] = "save"]
      /\ nwkToIEEE' = [nwkToIEEE EXCEPT ![at[h]] = who[h]]
      /\ ieeeToNWK' = [ieeeToNWK EXCEPT ![who[h]] = at[h]]
      /\ snap' = [snap EXCEPT ![h] = nwkToIEEE']
      /\ UNCHANGED <<addr, who, at, learned, fd, content, file, tmp, chan, inbox, results, crNwk, pending>>
  BY Zenon DEF Store, Goes, Proc, zcl, air, resources, world
<1>2. Apart(addr) /\ MapsRight /\ DiskRight /\ WhoRight /\ Grows
  BY <1>1, AddressesStay, Zenon DEF Right
<1>3. who[h] \in Device /\ at[h] \in Nwk /\ addr[who[h]] = at[h]
  BY <1>1, <1>2, Zenon DEF WhoRight, Meant
<1>4. Knows(addr, nwkToIEEE')
  BY <1>1, <1>2, <1>3, Zenon DEF MapsRight, Knows, Map
<1>5. Places(addr, ieeeToNWK')
  BY <1>1, <1>2, <1>3, Zenon DEF MapsRight, Places, Addresses
<1>6. MapsRight'
  BY <1>1, <1>4, <1>5, Zenon DEF MapsRight
<1>7. DiskRight'
  <2>1. snap' \in [Join -> Map] /\ \A g \in Join : Knows(addr, snap'[g])
    BY <1>1, <1>2, <1>4, Zenon DEF DiskRight, Knows
  <2> QED BY <1>1, <1>2, <2>1, Zenon DEF DiskRight
<1>8. WhoRight' /\ ChanRight'
  BY <1>1, Advances, ChanMoves, Zenon
<1> QED BY <1>1, <1>2, <1>6, <1>7, <1>8, InboxStill, ResultsStill, ResourcesStill, Zenon DEF Right

\* The steps of SaveNWKMap put nothing into a file but the snapshot.
LEMMA SaveRight ==
  ASSUME IInv, Right, NEW h \in Join, Truncate(h) \/ Write(h) \/ Rename(h) \/ Remove(h)
  PROVE  Right'
<1>1. /\ h \in Proc /\ pc[h] \in {"save", "write", "rename", "remove"}
      /\ UNCHANGED <<addr, who, at, learned, maps, snap, chan, inbox, results, crNwk, pending>>
  BY Zenon DEF Truncate, Write, Rename, Remove, Proc, zcl, air, resources, world
<1>2. PICK l \in {"write", "rename", "remove", "interview"} : pc' = [pc EXCEPT ![h] = l]
  BY Zenon DEF Truncate, Write, Rename, Remove, Goes
<1>3. Apart(addr) /\ MapsRight /\ DiskRight /\ Grows
  BY <1>1, AddressesStay DEF Right
<1>4. WhoRight' /\ ChanRight'
  BY <1>1, <1>2, Advances, ChanMoves, Zenon
<1>5. h \in 0..Joins /\ fd[h] \in 0..Joins /\ Knows(addr, NoMap) /\ Knows(addr, snap[h])
  BY <1>3, BoundsAssumption DEF DiskRight, Join, Knows, Map, NoMap
<1>6. fd' \in [Join -> 0..Joins] /\ file' \in 0..Joins /\ tmp' \in (0..Joins) \cup {None}
  <2>1. CASE Truncate(h)
    <3>1. UNCHANGED <<fd, file, tmp>> \/ \E f \in 0..Joins : tmp' = f /\ fd' = [fd EXCEPT ![h] = f] /\ file' = file
      BY <1>3, <1>5, <2>1, Zenon DEF Truncate, DiskRight
    <3> QED BY <1>3, <3>1 DEF DiskRight
  <2>2. CASE Write(h) \/ Rename(h) \/ Remove(h)
    BY <1>3, <2>2, Zenon DEF Write, Rename, Remove, DiskRight
  <2> QED BY <2>1, <2>2
<1>7. content' = content
        \/ \E f \in 0..Joins : \E c \in {NoMap, snap[h], Garbled} : content' = [content EXCEPT ![f] = c]
  BY <1>3, <1>5, NoneAssumption, Zenon DEF Truncate, Write, Rename, Remove, DiskRight
<1>8. /\ content' = [i \in 0..Joins |-> content'[i]]
      /\ \A i \in 0..Joins : content'[i] = Garbled \/ Knows(addr, content'[i])
  BY <1>3, <1>5, <1>7, Zenon DEF DiskRight
<1>9. DiskRight'
  BY <1>1, <1>3, <1>6, <1>8 DEF DiskRight
<1> QED BY <1>1, <1>3, <1>4, <1>9, MapsStill, InboxStill, ResultsStill, ResourcesStill DEF Right

LEMMA HandlersRight == ASSUME IInv, Right, NEW h \in Join, HandlerStep(h) PROVE Right'
<1>1. h \in Proc /\ Apart(addr) /\ MapsRight /\ DiskRight /\ InboxRight /\ ResultsRight /\ ResourcesRight
  BY DEF Right, Proc
<1> USE DEF zcl, air, resources, world
<1>2. CASE Dedup(h)
  <2>1. /\ pc[h] = "start"
        /\ UNCHANGED <<addr, maps, disk, chan, inbox, results, crNwk, pending>>
        /\ Ends(h) \/ (pc' = [pc EXCEPT ![h] = "store"] /\ UNCHANGED <<who, at, learned>>)
    BY <1>2 DEF Dedup, Goes
  <2>2. WhoRight'
    BY <1>1, <2>1, Advances, Stops
  <2>3. ChanRight'
    BY <1>1, <2>1, ChanMoves DEF Ends, Goes
  <2> QED BY <1>1, <2>1, <2>2, <2>3, AddressesStay, MapsStill, DiskStill, InboxStill, ResultsStill,
             ResourcesStill DEF Right
<1>3. CASE Interview(h)
  <2>1. /\ pc[h] = "interview"
        /\ UNCHANGED <<addr, who, at, maps, disk, chan, inbox, results, crNwk, pending>>
    BY <1>3, Zenon DEF Interview
  <2>2. PICK l \in {"tell", "read"} : pc' = [pc EXCEPT ![h] = l]
    BY <1>3 DEF Interview, Goes
  <2>3. At(at[h]) = who[h]
    BY <1>1, <2>1, AtIs, Zenon DEF Right, WhoRight, Meant
  <2>4. learned' = learned \/ learned' = [learned EXCEPT ![h] = who[h]]
    BY <1>3, <2>3, Zenon DEF Interview
  <2>5. WhoRight' /\ ChanRight'
    BY <1>1, <2>1, <2>2, <2>4, Advances, ChanMoves, Zenon
  <2> QED BY <1>1, <2>1, <2>5, AddressesStay, MapsStill, DiskStill, InboxStill, ResultsStill,
             ResourcesStill DEF Right
<1>4. CASE Dispatch(h)
  <2>1. /\ pc[h] = "tell" /\ Ends(h) /\ sendInterviewResult(h)
        /\ UNCHANGED <<addr, maps, disk, chan, inbox, crNwk, pending>>
    BY <1>4, Zenon DEF Dispatch
  <2>2. WhoRight' /\ ResultsRight'
    BY <1>1, <2>1, Stops, Tells
  <2>3. ChanRight'
    BY <1>1, <2>1, ChanMoves, Zenon DEF Ends, Goes
  <2> QED BY <1>1, <2>1, <2>2, <2>3, AddressesStay, MapsStill, DiskStill, InboxStill, ResourcesStill DEF Right
<1> QED BY <1>2, <1>3, <1>4, StoreRight, SaveRight DEF HandlerStep

LEMMA EnrichRight == ASSUME IInv, Right, NEW e \in Enrich, EnrichStep(e) PROVE Right'
<1>1. e \in Proc /\ Apart(addr) /\ MapsRight /\ DiskRight /\ InboxRight /\ ResultsRight /\ ResourcesRight
  BY DEF Right, Proc
<1> USE DEF zcl, air, resources, world
<1>2. CASE EnrichDispatch(e)
  <2>1. /\ pc[e] = "tell" /\ pc' = [pc EXCEPT ![e] = "clear"] /\ sendInterviewResult(e)
        /\ UNCHANGED <<addr, who, at, learned, maps, disk, chan, inbox, crNwk, pending>>
    BY <1>2 DEF EnrichDispatch, Goes
  <2>2. WhoRight' /\ ChanRight' /\ ResultsRight'
    BY <1>1, <2>1, Advances, ChanMoves, Tells, Zenon
  <2> QED BY <1>1, <2>1, <2>2, AddressesStay, MapsStill, DiskStill, InboxStill, ResourcesStill DEF Right
<1>3. CASE clearReinterviewAnnotation(e)
  <2>1. /\ pc[e] = "clear" /\ Ends(e)
        /\ UNCHANGED <<addr, maps, disk, chan, inbox, results, crNwk, pending>>
    BY <1>3, Zenon DEF clearReinterviewAnnotation
  <2>2. WhoRight'
    BY <1>1, <2>1, Stops
  <2>3. ChanRight'
    BY <1>1, <2>1, ChanMoves, Zenon DEF Ends, Goes
  <2> QED BY <1>1, <2>1, <2>2, <2>3, AddressesStay, MapsStill, DiskStill, InboxStill, ResultsStill,
             ResourcesStill DEF Right
<1> QED BY <1>2, <1>3 DEF EnrichStep

LEMMA ReadsRight == ASSUME IInv, Right, NEW p \in Proc, ReadStep(p) PROVE Right'
<1>1. Apart(addr) /\ MapsRight /\ DiskRight /\ InboxRight /\ ResultsRight /\ ResourcesRight /\ WhoRight /\ ChanRight
  BY DEF Right
<1> USE DEF zcl, air, resources, world
<1>2. UNCHANGED <<addr, maps, disk, inbox, results, crNwk>> /\ pc[p] \in {"read", "send", "await"}
  BY Zenon DEF ReadStep, registerResponseWaiter, SendZcl, SendFails, Answered, Timeout
<1>3. MapsRight' /\ DiskRight' /\ InboxRight' /\ ResultsRight' /\ Apart(addr') /\ Grows
  BY <1>1, <1>2, AddressesStay, MapsStill, DiskStill, InboxStill, ResultsStill
<1>4. CASE registerResponseWaiter(p)
  <2>1. pc[p] = "read" /\ UNCHANGED chan
    BY <1>4, Zenon DEF registerResponseWaiter
  <2>2. CASE ReadFails(p)
    <3>1. WhoRight' /\ ResourcesRight'
      BY <1>2, <2>2, FailsRight
    <3>2. ChanRight'
      BY <1>2, <2>1, <2>2, ChanMoves DEF ReadFails, Ends, Goes
    <3> QED BY <1>3, <3>1, <3>2 DEF Right
  <2>3. CASE pc' = [pc EXCEPT ![p] = "send"] /\ UNCHANGED <<who, at, learned, pending>>
    <3>1. WhoRight' /\ ChanRight' /\ ResourcesRight'
      BY <1>1, <1>2, <1>3, <2>1, <2>3, Advances, ChanMoves, ResourcesStill, Zenon
    <3> QED BY <1>3, <3>1 DEF Right
  <2> QED BY <1>4, <2>2, <2>3, Zenon DEF registerResponseWaiter, Goes
<1>5. CASE SendZcl(p)
  <2>1. pc[p] = "send" /\ pc' = [pc EXCEPT ![p] = "await"] /\ UNCHANGED <<who, at, learned, pending, chan>>
    BY <1>5, Zenon DEF SendZcl, Goes
  <2>2. WhoRight' /\ ChanRight' /\ ResourcesRight'
    BY <1>1, <1>2, <1>3, <2>1, Advances, ChanMoves, ResourcesStill, Zenon
  <2> QED BY <1>3, <2>2 DEF Right
<1>6. CASE cleanup(p) /\ ReadFails(p)
  <2>1. WhoRight' /\ ResourcesRight'
    BY <1>2, <1>6, FailsRight
  <2>2. ChanRight'
    BY <1>2, <1>6, ChanCleans DEF ReadFails, Ends, Goes
  <2> QED BY <1>3, <2>1, <2>2 DEF Right
<1>7. CASE pc[p] = "await" /\ chan[p] # None /\ cleanup(p) /\ ReadSucceeds(p, chan[p].dev)
  <2>1. /\ pc' = [pc EXCEPT ![p] = "tell"] /\ UNCHANGED <<who, at, pending>>
        /\ learned' = [learned EXCEPT ![p] = chan[p].dev]
    BY <1>7 DEF ReadSucceeds, Goes
  <2>2. who[p] \in Device /\ at[p] \in Nwk /\ addr[who[p]] = at[p]
    BY <1>1, <1>7, Zenon DEF WhoRight, Meant
  <2>3. chan[p].dev \in Device /\ addr[chan[p].dev] = at[p]
    BY <1>1, <1>7 DEF ChanRight, Sent
  <2>4. chan[p].dev = who[p]
    BY <1>1, <2>2, <2>3, NoneAssumption, Zenon DEF Apart
  <2>5. WhoRight' /\ ChanRight' /\ ResourcesRight'
    BY <1>1, <1>2, <1>3, <1>7, <2>1, <2>4, Advances, ChanCleans, ResourcesStill, Zenon
  <2> QED BY <1>3, <2>5 DEF Right
<1> QED BY <1>4, <1>5, <1>6, <1>7, Zenon DEF ReadStep, SendFails, Answered, Timeout

-----------------------------------------------------------------------------
(* Messages, resources and a restart.                                      *)

\* A device speaks from its own address.
LEMMA AirRight ==
  ASSUME Right, NEW d \in Device, DeviceAnswers(d) \/ DeviceReports(d) \/ DeviceReportsSame(d)
  PROVE  Right'
<1>1. Apart(addr) /\ InboxRight
  BY DEF Right
<1>2. addr[d] # None /\ addr[d] \in Nwk
  BY <1>1, Zenon DEF DeviceAnswers, DeviceReports, DeviceReportsSame, Apart, Addresses
<1>3. PICK m : inbox' = Append(inbox, m) /\ m.dev = d /\ m.nwk = addr[d]
  <2>1. CASE DeviceAnswers(d)
    <3>1. PICK q : Hears([kind |-> "answer", nwk |-> addr[d], dev |-> d, seq |-> q.seq, by |-> q.by, life |-> q.life])
      BY <2>1, Zenon DEF DeviceAnswers
    <3> DEFINE m == [kind |-> "answer", nwk |-> addr[d], dev |-> d, seq |-> q.seq, by |-> q.by, life |-> q.life]
    <3>2. m.dev = d /\ m.nwk = addr[d]
      OBVIOUS
    <3>3. inbox' = Append(inbox, m)
      BY <3>1 DEF Hears
    <3> HIDE DEF m
    <3> QED BY <3>2, <3>3
  <2>2. CASE DeviceReports(d) \/ DeviceReportsSame(d)
    <3>1. PICK s : Hears(Report(d, s))
      BY <2>2, Zenon DEF DeviceReports, DeviceReportsSame
    <3>2. Report(d, s).dev = d /\ Report(d, s).nwk = addr[d]
      BY DEF Report
    <3> QED BY <3>1, <3>2, Zenon DEF Hears
  <2> QED BY <2>1, <2>2
<1>4. UNCHANGED <<addr, procs, maps, disk, chan, results, crNwk, pending>>
  BY Zenon DEF DeviceAnswers, DeviceReports, DeviceReportsSame, Airs, zcl, resources, world
<1>5. Sent(addr, m)
  BY <1>2, <1>3 DEF Sent
<1>6. InboxRight'
  <2> DEFINE S == {inbox[i] : i \in DOMAIN inbox} \cup {m}
  <2>1. inbox \in Seq(S)
    BY <1>1 DEF InboxRight
  <2> HIDE DEF S
  <2>2. /\ inbox' \in Seq(S) /\ DOMAIN inbox' = 1..(Len(inbox) + 1) /\ DOMAIN inbox = 1..Len(inbox)
        /\ \A i \in 1..Len(inbox) : inbox'[i] = inbox[i]
        /\ inbox'[Len(inbox) + 1] = m /\ Len(inbox) \in Nat /\ Len(inbox') = Len(inbox) + 1
    BY <1>3, <2>1 DEF S
  <2>3. \A i \in DOMAIN inbox' : i \in DOMAIN inbox \/ i = Len(inbox) + 1
    BY <2>2
  <2>4. \A i \in DOMAIN inbox' : Sent(addr, inbox'[i])
    BY <1>1, <1>5, <2>2, <2>3 DEF InboxRight
  <2>5. inbox' \in Seq({inbox'[i] : i \in DOMAIN inbox'})
    BY <2>2
  <2> QED BY <1>4, <2>4, <2>5 DEF InboxRight
<1>7. Grows
  BY <1>4, AddressesStay
<1>8. WhoRight' /\ ChanRight'
  BY <1>4, <1>7, WhoStill, ChanStill DEF Right, procs
<1> QED BY <1>1, <1>4, <1>6, <1>7, <1>8, MapsStill, DiskStill, ResultsStill, ResourcesStill DEF Right

\* A message is put into the channel of a read of its sender's address, and
\* starts a re-interview of the device that was registered under it.
LEMMA ForwardRight == ASSUME IInv, Right, forwardMessageToRouter PROVE Right'
<1> DEFINE m == Head(inbox)
<1>1. /\ inbox # <<>> /\ inbox' = Tail(inbox) /\ notifyResponseWaiter(m)
      /\ triggerPendingEnrichmentIfAny(m.nwk)
      /\ UNCHANGED <<addr, maps, disk, results, crNwk, waiters, seq>>
  BY Zenon DEF forwardMessageToRouter, world
<1>2. Apart(addr) /\ InboxRight /\ ChanRight /\ WhoRight /\ ResourcesRight /\ Control /\ WaitersFreed /\ Grows
  BY <1>1, AddressesStay DEF Right, IInv
<1>3. Sent(addr, m) /\ InboxRight'
  <2> DEFINE S == {inbox[i] : i \in DOMAIN inbox}
  <2>1. inbox \in Seq(S)
    BY <1>2 DEF InboxRight
  <2> HIDE DEF S
  <2>2. /\ inbox' \in Seq(S) /\ DOMAIN inbox' = 1..(Len(inbox) - 1) /\ DOMAIN inbox = 1..Len(inbox)
        /\ \A i \in 1..(Len(inbox) - 1) : inbox'[i] = inbox[i + 1]
        /\ m = inbox[1] /\ Len(inbox) \in Nat /\ Len(inbox) >= 1 /\ Len(inbox') = Len(inbox) - 1
    BY <1>1, <2>1
  <2>3. 1 \in DOMAIN inbox /\ \A i \in DOMAIN inbox' : i + 1 \in DOMAIN inbox
    BY <2>2
  <2>4. Sent(addr, m) /\ \A i \in DOMAIN inbox' : Sent(addr, inbox'[i])
    BY <1>2, <2>2, <2>3 DEF InboxRight
  <2>5. inbox' \in Seq({inbox'[i] : i \in DOMAIN inbox'})
    BY <2>2
  <2> QED BY <1>1, <2>4, <2>5 DEF InboxRight
<1> HIDE DEF m
<1>4. m.dev \in Device /\ m.nwk \in Nwk /\ addr[m.dev] = m.nwk
  BY <1>3 DEF Sent
<1>5. /\ \A q \in Proc : pc[q] \in {"send", "await"} => pc'[q] = pc[q] /\ at'[q] = at[q]
      /\ WhoRight' /\ ResourcesRight'
  <2>1. CASE pending[m.nwk] = None
    <3>1. UNCHANGED <<procs, pending>>
      BY <1>1, <2>1 DEF triggerPendingEnrichmentIfAny
    <3> QED BY <1>1, <1>2, <3>1, WhoStill, ResourcesStill DEF procs
  <2>2. CASE pending[m.nwk] # None
    <3>1. PICK e \in Enrich :
            /\ pc[e] = "off" /\ pc' = [pc EXCEPT ![e] = "read"] /\ learned' = learned
            /\ who' = [who EXCEPT ![e] = pending[m.nwk]] /\ at' = [at EXCEPT ![e] = m.nwk]
            /\ pending' = [pending EXCEPT ![m.nwk] = None]
      BY <1>1, <2>2 DEF triggerPendingEnrichmentIfAny, Goes
    <3>2. e \in Proc /\ pending[m.nwk] \in Device /\ addr[pending[m.nwk]] = m.nwk
      BY <1>2, <1>4, <2>2, Zenon DEF Proc, ResourcesRight, Knows, Map
    <3>3. /\ pc'[e] = "read" /\ who'[e] = pending[m.nwk] /\ at'[e] = m.nwk /\ learned'[e] = None
          /\ who' \in [Proc -> Device \cup {None}] /\ learned' \in [Proc -> Device \cup {None}]
          /\ \A q \in Proc : q # e => /\ pc'[q] = pc[q] /\ at'[q] = at[q]
                                      /\ who'[q] = who[q] /\ learned'[q] = learned[q]
      BY <1>2, <3>1, <3>2, Zenon DEF WhoRight, Meant, Control
    <3>4. Meant(e)'
      BY <1>1, <1>4, <3>2, <3>3, Zenon DEF Meant
    <3>5. WhoRight'
      BY <1>2, <3>2, <3>3, <3>4, WhoMoves, Zenon
    <3>6. Knows(addr', pending')
      BY <1>1, <1>2, <1>4, <3>1, Zenon DEF ResourcesRight, Knows, Map
    <3>7. ResourcesRight'
      BY <1>1, <1>2, <3>6 DEF ResourcesRight
    <3> QED BY <3>1, <3>2, <3>3, <3>5, <3>7, Zenon
  <2> QED BY <2>1, <2>2
<1>6. ChanRight'
  <2> DEFINE w(q) == [key |-> [nwk |-> m.nwk, seq |-> m.seq], by |-> q]
  <2>1. chan' = [q \in Proc |-> IF chan[q] = None /\ w(q) \in waiters THEN m ELSE chan[q]]
    BY <1>1 DEF notifyResponseWaiter
  <2>2. ASSUME NEW q \in Proc, w(q) \in waiters PROVE pc[q] \in {"send", "await"} /\ m.nwk = at[q]
    <3>1. w(q).by = q /\ w(q).key.nwk = m.nwk
      OBVIOUS
    <3>2. q \in {v.by : v \in waiters}
      BY <2>2, <3>1
    <3>3. w(q).key = Key(q)
      BY <1>2, <2>2, <3>1, Zenon DEF WaitersFreed
    <3> QED BY <1>2, <3>1, <3>2, <3>3, Zenon DEF WaitersFreed, Key
  <2>3. ASSUME NEW q \in Proc, chan'[q] # None
        PROVE  pc'[q] \in {"send", "await"} /\ Sent(addr', chan'[q]) /\ chan'[q].nwk = at'[q]
    <3>1. CASE chan[q] = None /\ w(q) \in waiters
      BY <1>1, <1>3, <1>5, <2>1, <2>2, <3>1, Zenon
    <3>2. CASE ~(chan[q] = None /\ w(q) \in waiters)
      <4>1. chan'[q] = chan[q]
        BY <2>1, <3>2
      <4> QED BY <1>1, <1>2, <1>5, <2>3, <4>1 DEF ChanRight
    <3> QED BY <3>1, <3>2, Zenon
  <2>4. chan' = [q \in Proc |-> chan'[q]]
    BY <2>1
  <2> QED BY <2>3, <2>4 DEF ChanRight
<1> QED BY <1>1, <1>2, <1>3, <1>5, <1>6, MapsStill, DiskStill, ResultsStill, Zenon DEF Right

\* What the router writes, and what is registered for a re-interview.
LEMMA RoutesRight ==
  ASSUME Right, (\E r \in results : InterviewRoute(r)) \/ reinterviewTick
  PROVE  Right'
<1>1. UNCHANGED <<addr, procs, maps, disk, chan, inbox>>
  BY Zenon DEF InterviewRoute, reinterviewTick, zcl, air, world
<1>2. /\ Apart(addr) /\ MapsRight /\ DiskRight /\ WhoRight /\ InboxRight /\ ChanRight /\ ResultsRight
      /\ ResourcesRight /\ Grows
  BY <1>1, AddressesStay DEF Right
<1>3. MapsRight' /\ DiskRight' /\ WhoRight' /\ InboxRight' /\ ChanRight'
  BY <1>1, <1>2, MapsStill, DiskStill, WhoStill, InboxStill, ChanStill, Zenon DEF procs
<1>4. CASE \E r \in results : InterviewRoute(r)
  <2>1. PICK r \in results : /\ results' = results \ {r} /\ crNwk' = [crNwk EXCEPT ![r.dev] = r.nwk]
                             /\ pending' = pending
    BY <1>4, Zenon DEF InterviewRoute
  <2>2. r.dev \in Device /\ r.nwk \in Nwk /\ addr[r.dev] = r.nwk
    BY <1>2 DEF ResultsRight, Sent
  <2>3. Places(addr', crNwk')
    BY <1>1, <1>2, <2>1, <2>2, Zenon DEF ResourcesRight, Places, Addresses
  <2>4. ResourcesRight' /\ ResultsRight'
    BY <1>1, <1>2, <2>1, <2>3, Zenon DEF ResourcesRight, ResultsRight
  <2> QED BY <1>1, <1>2, <1>3, <2>4 DEF Right
<1>5. CASE reinterviewTick
  <2>1. /\ pending' \in [Nwk -> Device \cup {None}] /\ UNCHANGED <<crNwk, results>>
        /\ \A n \in Nwk : IF Registered(n) = {} THEN pending'[n] = pending[n] ELSE pending'[n] \in Registered(n)
    BY <1>5, Zenon DEF reinterviewTick, air
  <2>2. ASSUME NEW n \in Nwk, pending'[n] # None PROVE addr[pending'[n]] = n
    <3>1. CASE pending'[n] = pending[n]
      BY <1>2, <2>2, <3>1, Zenon DEF ResourcesRight, Knows
    <3>2. CASE pending'[n] \in Registered(n)
      <4>1. crNwk[pending'[n]] = n /\ pending'[n] \in Device
        BY <2>1, <2>2, <3>2 DEF Registered
      <4> QED BY <1>2, <4>1, NoneAssumption DEF ResourcesRight, Places
    <3> QED BY <2>1, <3>1, <3>2, Zenon
  <2>3. Knows(addr', pending')
    BY <1>1, <2>1, <2>2, Zenon DEF Knows, Map
  <2>4. ResourcesRight' /\ ResultsRight'
    BY <1>1, <1>2, <2>1, <2>3, Zenon DEF ResourcesRight, ResultsRight
  <2> QED BY <1>1, <1>2, <1>3, <2>4 DEF Right
<1> QED BY <1>4, <1>5

\* A restart finds on the disk a map that is right, if it can be read.
LEMMA RestartRight == ASSUME Right, Restart PROVE Right'
<1>1. Apart(addr) /\ DiskRight /\ ResultsRight /\ ResourcesRight
  BY DEF Right
<1>2. /\ pc' = [p \in Proc |-> "off"] /\ who' = [p \in Proc |-> None]
      /\ at' = [p \in Proc |-> None] /\ learned' = [p \in Proc |-> None]
      /\ pending' = NoMap /\ inbox' = <<>> /\ chan' = [p \in Proc |-> None]
      /\ nwkToIEEE' = LoadNWKMap
      /\ ieeeToNWK' \in [Device -> Nwk \cup {None}]
      /\ UNCHANGED <<disk, results, crNwk, addr>>
  BY Zenon DEF Restart
<1>3. \A d \in Device : ieeeToNWK'[d] # None => LoadNWKMap[ieeeToNWK'[d]] = d /\ ieeeToNWK'[d] \in Nwk
  <2>1. \A d \in Device : IF {n \in Nwk : LoadNWKMap[n] = d} = {} THEN ieeeToNWK'[d] = None
                          ELSE ieeeToNWK'[d] \in {n \in Nwk : LoadNWKMap[n] = d}
    BY Zenon DEF Restart
  <2> QED BY <2>1
<1>4. Grows
  BY <1>2, AddressesStay
<1>5. Knows(addr, NoMap)
  BY DEF Knows, Map, NoMap
<1>6. Knows(addr, LoadNWKMap)
  BY <1>1, <1>5 DEF LoadNWKMap, DiskRight
<1>7. \A d \in Device : ieeeToNWK'[d] # None => addr[d] = ieeeToNWK'[d]
  BY <1>3, <1>6, NoneAssumption DEF Knows
<1>8. MapsRight'
  BY <1>2, <1>6, <1>7 DEF MapsRight, Places, Addresses
<1>9. WhoRight'
  BY <1>2 DEF WhoRight, Meant
<1>10. InboxRight' /\ ChanRight'
  BY <1>2 DEF InboxRight, ChanRight
<1>11. ResourcesRight'
  BY <1>1, <1>2, <1>5 DEF ResourcesRight
<1> QED BY <1>1, <1>2, <1>4, <1>8, <1>9, <1>10, <1>11, DiskStill, ResultsStill DEF Right

\* Nothing of it changes.
LEMMA RightStill ==
  ASSUME Right, UNCHANGED <<addr, procs, maps, disk, chan, inbox, results, crNwk, pending>>
  PROVE  Right'
<1>1. Grows
  BY AddressesStay
<1>2. WhoRight' /\ ChanRight'
  BY <1>1, WhoStill, ChanStill, Zenon DEF Right, procs
<1> QED BY <1>1, <1>2, MapsStill, DiskStill, InboxStill, ResultsStill, ResourcesStill DEF Right

LEMMA RightKeeps == ASSUME IInv, Right, Next, moved' = FALSE PROVE Right'
<1>1. CASE \E d \in Device : SendCommand(d)
  BY <1>1, RightStill DEF SendCommand, air, resources
<1>2. CASE LoseRequest
  BY <1>2, RightStill DEF LoseRequest, Airs, zcl, resources, world
<1>3. CASE \E d \in Device : DeviceAnswers(d) \/ DeviceReports(d) \/ DeviceReportsSame(d)
  BY <1>3, AirRight
<1> QED BY <1>1, <1>2, <1>3, JoinsRight, HandlersRight, EnrichRight, ReadsRight, ForwardRight, RoutesRight,
           RestartRight DEF Next

-----------------------------------------------------------------------------
\* A device that moved has moved for good.
LEMMA MovedStays ==
  ASSUME moved \in BOOLEAN, [Next]_vars
  PROVE  moved' \in BOOLEAN /\ (moved' = FALSE => moved = FALSE)
<1>1. CASE DeviceJoins
  <2>1. PICK b : moved' = (moved \/ b)
    BY <1>1, Zenon DEF DeviceJoins
  <2> QED BY <2>1, Zenon
<1>2. CASE UNCHANGED moved
  BY <1>2
<1>3. CASE ~DeviceJoins
  <2>1. UNCHANGED moved
    BY <1>3, Zenon DEF Next, vars, world, Airs, HandlerStep, EnrichStep, ReadStep, Dedup, Store, Truncate, Write,
       Rename, Remove, Interview, Dispatch, EnrichDispatch, clearReinterviewAnnotation,
       registerResponseWaiter, SendZcl, SendFails, Answered, Timeout, DeviceAnswers, DeviceReports,
       DeviceReportsSame, LoseRequest, forwardMessageToRouter, InterviewRoute, reinterviewTick,
       SendCommand, Restart
  <2> QED BY <2>1
<1> QED BY <1>1, <1>3, Zenon

\* The three places at which somebody could be misled.
LEMMA Attributed ==
  ASSUME IInv, RInv, forwardMessageToRouter
  PROVE  misled' = FALSE
<1> DEFINE m == Head(inbox)
<1>1. CASE UNCHANGED misled
  BY <1>1 DEF RInv
<1>2. CASE \E d \in Source(m.nwk) : Concerns(d, m.dev)
  <2>1. PICK d \in Source(m.nwk) : misled' = (misled \/ (~moved /\ d # m.dev))
    BY <1>2 DEF Concerns
  <2>2. ASSUME moved = FALSE PROVE d = m.dev
    <3>1. Apart(addr) /\ InboxRight /\ MapsRight /\ ResourcesRight
      BY <2>2 DEF RInv, Right
    <3>2. Sent(addr, m)
      <4>1. inbox # <<>>
        BY Zenon DEF forwardMessageToRouter
      <4>2. m = inbox[1] /\ 1 \in DOMAIN inbox
        BY <3>1, <4>1 DEF InboxRight
      <4> QED BY <3>1, <4>2 DEF InboxRight
    <3> HIDE DEF m
    <3>3. m.dev \in Device /\ m.nwk \in Nwk /\ addr[m.dev] = m.nwk /\ m.nwk # None
      BY <3>2, NoneAssumption DEF Sent
    <3>4. d \in Device /\ addr[d] = m.nwk
      <4>1. CASE nwkToIEEE[m.nwk] # None
        BY <2>1, <3>1, <3>3, <4>1, Zenon DEF Source, getDeviceByIEEE, MapsRight, Knows, Map
      <4>2. CASE nwkToIEEE[m.nwk] = None
        BY <2>1, <3>1, <3>3, <4>2, Zenon DEF Source, getDeviceByNWK, ResourcesRight, Places
      <4> QED BY <4>1, <4>2
    <3> QED BY <3>1, <3>3, <3>4 DEF Apart
  <2> HIDE DEF m
  <2>3. misled = FALSE /\ (moved = FALSE \/ moved = TRUE)
    BY DEF RInv
  <2>4. ~moved => d = m.dev
    BY <2>2, <2>3, Zenon
  <2> QED BY <2>1, <2>3, <2>4, Zenon
<1> QED BY <1>1, <1>2, Zenon DEF forwardMessageToRouter

LEMMA Recorded ==
  ASSUME RInv, NEW r \in results, InterviewRoute(r)
  PROVE  misled' = FALSE
<1>1. misled' = (misled \/ (~moved /\ r.dev # r.from))
  BY Zenon DEF InterviewRoute, Concerns
<1>2. moved = FALSE => r.dev = r.from
  BY DEF RInv, Right, ResultsRight
<1>3. misled = FALSE /\ (moved = FALSE \/ moved = TRUE)
  BY DEF RInv
<1>4. ~moved => r.dev = r.from
  BY <1>2, <1>3, Zenon
<1> QED BY <1>1, <1>3, <1>4, Zenon

LEMMA Commanded ==
  ASSUME RInv, NEW d \in Device, SendCommand(d)
  PROVE  misled' = FALSE
<1> DEFINE e == At(ieeeToNWK[d])
<1>1. CASE UNCHANGED misled
  BY <1>1 DEF RInv
<1>2. CASE ieeeToNWK[d] # None /\ Concerns(d, e)
  <2>1. misled' = (misled \/ (~moved /\ d # e))
    BY <1>2 DEF Concerns
  <2>2. ASSUME moved = FALSE PROVE d = e
    <3>1. Apart(addr) /\ Places(addr, ieeeToNWK)
      BY <2>2 DEF RInv, Right, MapsRight
    <3>2. addr[d] = ieeeToNWK[d] /\ ieeeToNWK[d] \in Nwk
      BY <1>2, <3>1 DEF Places, Addresses
    <3> QED BY <3>1, <3>2, AtIs, Zenon
  <2> HIDE DEF e
  <2>3. misled = FALSE /\ (moved = FALSE \/ moved = TRUE)
    BY DEF RInv
  <2>4. ~moved => d = e
    BY <2>2, <2>3, Zenon
  <2> QED BY <2>1, <2>3, <2>4, Zenon
<1> QED BY <1>1, <1>2, Zenon DEF SendCommand

LEMMA NobodyMisled == ASSUME IInv, RInv, [Next]_vars PROVE misled' = FALSE
<1>1. CASE ~(forwardMessageToRouter \/ (\E r \in results : InterviewRoute(r)) \/ \E d \in Device : SendCommand(d))
  <2>1. UNCHANGED misled
    BY <1>1, Zenon DEF Next, vars, Airs, HandlerStep, EnrichStep, ReadStep, DeviceJoins, Dedup, Store, Truncate,
       Write, Rename, Remove, Interview, Dispatch, EnrichDispatch, clearReinterviewAnnotation,
       registerResponseWaiter, SendZcl, SendFails, Answered, Timeout, DeviceAnswers, DeviceReports,
       DeviceReportsSame, LoseRequest, reinterviewTick, Restart
  <2> QED BY <2>1 DEF RInv
<1> QED BY <1>1, Attributed, Recorded, Commanded, Zenon

LEMMA RightStep == IInv /\ RInv /\ [Next]_vars => RInv'
<1> SUFFICES ASSUME IInv, RInv, [Next]_vars PROVE RInv'
  OBVIOUS
<1>1. misled' = FALSE
  BY NobodyMisled, Zenon
<1>2. moved' \in BOOLEAN /\ (moved' = FALSE => moved = FALSE)
  BY MovedStays, Zenon DEF RInv
<1>3. ASSUME moved' = FALSE PROVE Right'
  <2>1. Right
    BY <1>2, <1>3 DEF RInv
  <2>2. CASE UNCHANGED vars
    BY <2>1, <2>2, RightStill, Zenon DEF vars, zcl, air, resources, world
  <2> QED BY <1>3, <2>1, <2>2, RightKeeps, Zenon
<1> QED BY <1>1, <1>2, <1>3, Zenon DEF RInv

(* As long as every device keeps its address, no message, result or        *)
(* command is taken for another device's: not by the maps, whichever save  *)
(* wins and whatever a restart reads back, and not by a late answer        *)
(* (forwardMessageToRouter, DeviceRoute, InterviewRoute, SendCommand).     *)
THEOREM RightDeviceHolds == Spec => []RightDevice
<1>1. RInv => RightDevice
  BY DEF RInv, RightDevice
<1>2. Init /\ [][Next]_vars => []RInv
  BY Initially, RightInitially, StepKeeps, RightStep, PTL
<1> QED BY <1>1, <1>2, PTL DEF Spec
=============================================================================

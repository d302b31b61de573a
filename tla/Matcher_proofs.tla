--------------------------- MODULE Matcher_proofs ---------------------------
(***************************************************************************)
(* Proofs about Matcher: a debounced Binding dispatches at most once while *)
(* the value is stable, and only for a value that was reported for its     *)
(* MinDuration without another in between; for every set of goroutines,    *)
(* values and Bindings.                                                    *)
(***************************************************************************)
EXTENDS Matcher, WellFoundedInduction, TLAPS

-----------------------------------------------------------------------------
(* The inductive invariant.                                                *)

PCs == {"idle", "observe", "dispatch", "schedule", "deferred", "relist", "redispatch"}

LocalTyped ==
  /\ pc \in [Proc -> PCs]
  /\ ev = [p \in Proc |-> ev[p]]
  /\ todo \in [Proc -> SUBSET Bindings]
  /\ tnow \in [Proc -> Nat]

SharedTyped ==
  /\ sc \in Scenarios /\ clock \in Nat /\ fails \in Nat
  /\ present \subseteq Bindings
  /\ entry \in Entry \cup {None}
  /\ count \in [Bindings -> Nat]
  /\ seen \in [Value -> Nat \cup {None}]
  /\ \A v \in Value : seen[v] = None \/ seen[v] <= clock

\* A running timer has a Binding, and there is a window.
TimersOK ==
  /\ \A t \in timers : t.binding \in Bindings /\ t = [binding |-> t.binding, due |-> t.due, recorded |-> t.recorded]
  /\ timers # {} => entry # None

\* entry.fired remembers exactly the dispatches of the window.
Once == \A b \in Bindings : b.dwell > 0 => count[b] = IF b \in fired THEN 1 ELSE 0

\* What a goroutine is about to do it does for Bindings on the value it handles.
Handles(p) ==
  /\ pc[p] \in {"observe", "dispatch", "schedule"} => ev[p] \in Event
  /\ pc[p] \in {"observe", "dispatch", "schedule", "redispatch"} =>
       \A b \in todo[p] : propertyMatches(b, ev[p].value)
  /\ pc[p] \in {"dispatch", "schedule", "deferred", "relist", "redispatch"} => entry # None /\ todo[p] # {}
  /\ pc[p] \in {"deferred", "relist", "redispatch"} => \E b \in Bindings : todo[p] = {b}

\* A prompt goroutine has read the clock of this tick, and the window is of its
\* value, or was opened in this tick.
Keeps(p) ==
  /\ pc[p] \in {"observe", "dispatch", "schedule", "redispatch"} => tnow[p] = clock
  /\ pc[p] \in {"dispatch", "schedule", "relist", "redispatch"} =>
       entry.value = ev[p].value \/ entry.firstSeen = clock

\* Every other value was last reported before the window began.
Undisturbed ==
  sc.prompt /\ fails = 0 /\ entry # None =>
    \A v \in Value : v # entry.value => seen[v] = None \/ seen[v] <= entry.firstSeen

Local == LocalTyped /\ (\A p \in Proc : Handles(p)) /\ (sc.prompt => \A p \in Proc : Keeps(p))
Shared == SharedTyped /\ TimersOK /\ Once /\ Undisturbed
IInv == Local /\ Shared

-----------------------------------------------------------------------------
(* The first Binding of a set by name is one of the set.                   *)

LEMMA FirstIn ==
  ASSUME Shared, NEW S \in SUBSET Bindings, S # {}
  PROVE  First(S) \in S
<1>1. \A b \in S : b.name \in Nat
  BY ConstantsAssumption DEF Shared, SharedTyped, Bindings, AllBindings
<1> DEFINE N == {b.name : b \in S}
           R == OpToRel(<, Nat)
<1>2. N \subseteq Nat /\ N # {}
  BY <1>1
<1>3. \E x \in N : \A y \in N : ~(<<y, x>> \in R)
  BY <1>2, WFMin, NatLessThanWellFounded, Zenon
<1>4. PICK x \in N : \A y \in N : ~(y < x)
  BY <1>2, <1>3 DEF OpToRel
<1>5. PICK b \in S : b.name = x
  BY <1>4
<1>6. \A c \in S : b.name <= c.name
  BY <1>1, <1>4, <1>5
<1> QED BY <1>6 DEF First

LEMMA FirstOne ==
  ASSUME Shared, NEW b \in Bindings
  PROVE  First({b}) = b
BY FirstIn

-----------------------------------------------------------------------------
(* The goroutines: one goes to l, with the event e, the Bindings S to do   *)
(* and the clock n, while the window may become a new one.                 *)

Turns(p, l, e, S, n) ==
  /\ pc' = [pc EXCEPT ![p] = l]
  /\ ev' = [ev EXCEPT ![p] = e]
  /\ todo' = [todo EXCEPT ![p] = S]
  /\ tnow' = [tnow EXCEPT ![p] = n]

\* The window stays, or one is opened in this tick.
Window ==
  /\ UNCHANGED <<sc, clock>>
  /\ entry # None => entry' # None
  /\ sc.prompt => \/ entry' = entry \/ entry'.firstSeen = clock
                  \/ entry # None /\ entry'.value = entry.value /\ entry'.firstSeen = entry.firstSeen

LEMMA LocalStep ==
  ASSUME Local, NEW p \in Proc, NEW l \in PCs, NEW e, NEW S \in SUBSET Bindings, NEW n \in Nat,
         Turns(p, l, e, S, n), Window,
         l \in {"observe", "dispatch", "schedule"} => e \in Event,
         l \in {"observe", "dispatch", "schedule", "redispatch"} => \A b \in S : propertyMatches(b, e.value),
         l \in {"dispatch", "schedule", "deferred", "relist", "redispatch"} => entry' # None /\ S # {},
         l \in {"deferred", "relist", "redispatch"} => \E b \in Bindings : S = {b},
         sc.prompt /\ l \in {"observe", "dispatch", "schedule", "redispatch"} => n = clock,
         sc.prompt /\ l \in {"dispatch", "schedule", "relist", "redispatch"} =>
           entry'.value = e.value \/ entry'.firstSeen = clock
  PROVE  Local'
<1>1. /\ pc'[p] = l /\ ev'[p] = e /\ todo'[p] = S /\ tnow'[p] = n
      /\ \A q \in Proc \ {p} : pc'[q] = pc[q] /\ ev'[q] = ev[q] /\ todo'[q] = todo[q] /\ tnow'[q] = tnow[q]
  BY DEF Turns, Local, LocalTyped
<1>2. Bindings' = Bindings /\ Event' = Event
  BY DEF Bindings, Event, Devices, Window
<1>3. LocalTyped'
  BY <1>2 DEF Turns, Local, LocalTyped
<1>4. ASSUME NEW q \in Proc PROVE Handles(q)'
  <2>1. CASE q = p
    BY <2>1, <1>1, <1>2 DEF Handles, propertyMatches
  <2>2. CASE q # p
    <3>1. Handles(q)
      BY DEF Local
    <3> QED BY <2>2, <3>1, <1>1, <1>2 DEF Handles, propertyMatches, Window
  <2> QED BY <2>1, <2>2
<1>5. ASSUME NEW q \in Proc, sc'.prompt PROVE Keeps(q)'
  <2>0. sc.prompt
    BY <1>5 DEF Window
  <2>1. CASE q = p
    BY <2>0, <2>1, <1>1 DEF Keeps, Window
  <2>2. CASE q # p
    <3>1. Keeps(q) /\ Handles(q)
      BY <2>0 DEF Local
    <3> QED BY <2>0, <2>2, <3>1, <1>1 DEF Keeps, Handles, Window
  <2> QED BY <2>1, <2>2
<1> QED BY <1>3, <1>4, <1>5 DEF Local

\* The goroutine returns.
LEMMA Idles ==
  ASSUME Local, NEW p \in Proc, Idle(p), Window
  PROVE  Local'
<1>1. Turns(p, "idle", None, {}, 0) /\ "idle" \in PCs
  BY DEF Idle, Turns, PCs
<1> QED BY <1>1, LocalStep

\* It goes on to the next of its winners, or returns.
LEMMA NextWinners ==
  ASSUME Local, SharedTyped, NEW p \in Proc, NEW S \in SUBSET todo[p], NextWinner(p, S), Window,
         pc[p] \in {"observe", "dispatch", "schedule"}, entry' # None,
         sc.prompt => entry'.value = ev[p].value \/ entry'.firstSeen = clock
  PROVE  Local'
<1>1. CASE S = {}
  BY <1>1, Idles DEF NextWinner
<1>2. CASE S # {}
  <2>1. Turns(p, "dispatch", ev[p], S, clock) /\ "dispatch" \in PCs
    BY <1>2 DEF NextWinner, Turns, PCs, Local, LocalTyped
  <2>2. S \in SUBSET Bindings /\ clock \in Nat
    BY DEF Local, LocalTyped, SharedTyped
  <2>3. ev[p] \in Event /\ \A b \in S : propertyMatches(b, ev[p].value)
    BY DEF Local, Handles
  <2> HIDE DEF Local, Window, Turns
  <2> QED BY <1>2, <2>1, <2>2, <2>3, LocalStep
<1> QED BY <1>1, <1>2

\* Nothing that is shared changes but for the bounds.
LEMMA SharedKept ==
  ASSUME Shared, UNCHANGED <<sc, clock, entry, fired, timers, count, seen>>,
         fails' \in Nat, fails' = 0 => fails = 0, present' \subseteq Bindings
  PROVE  Shared'
<1>1. Bindings' = Bindings
  BY DEF Bindings
<1>2. SharedTyped'
  BY <1>1 DEF Shared, SharedTyped
<1>3. TimersOK' /\ Once'
  BY <1>1 DEF Shared, TimersOK, Once
<1>4. Undisturbed'
  BY DEF Shared, Undisturbed
<1> QED BY <1>2, <1>3, <1>4 DEF Shared

-----------------------------------------------------------------------------
(* FindConditions.                                                         *)

LEMMA ReceiveKeeps ==
  ASSUME IInv, NEW p \in Proc, Receive(p) \/ ReceiveFails(p)
  PROVE  IInv'
<1> USE DEF IInv
<1>0. SharedTyped
  BY DEF Shared
<1>1. CASE Receive(p)
  <2>1. PICK e \in Event :
          /\ ev' = [ev EXCEPT ![p] = e]
          /\ todo' = [todo EXCEPT ![p] = Winners(present, e)]
    BY <1>1 DEF Receive
  <2>2. Turns(p, "observe", e, Winners(present, e), clock) /\ "observe" \in PCs /\ Window
    BY <1>1, <2>1 DEF Receive, Turns, PCs, Window
  <2>3. /\ Winners(present, e) \in SUBSET Bindings /\ clock \in Nat
        /\ \A b \in Winners(present, e) : propertyMatches(b, e.value)
    BY <1>0 DEF SharedTyped, Winners, Candidates, Event
  <2>4. Local'
    <3> HIDE DEF Local, Window, Turns
    <3> QED BY <2>2, <2>3, LocalStep
  <2>5. Shared'
    BY <1>0, <1>1, SharedKept DEF Receive, SharedTyped
  <2> QED BY <2>4, <2>5
<1>2. CASE ReceiveFails(p)
  <2>1. PICK e \in Event : seen' = [seen EXCEPT ![e.value] = clock]
    BY <1>2 DEF ReceiveFails
  <2>2. /\ UNCHANGED <<sc, clock, present, entry, fired, timers, local, count>>
        /\ fails' = fails + 1 /\ e.value \in Value
    BY <1>2 DEF ReceiveFails, Event
  <2>3. Local'
    BY <2>2 DEF local, Local, LocalTyped, Handles, Keeps, Bindings, Event, Devices, propertyMatches
  <2>4. SharedTyped' /\ fails' # 0
    BY <1>0, <2>1, <2>2 DEF SharedTyped, Bindings
  <2>5. TimersOK' /\ Once'
    BY <2>2 DEF Shared, TimersOK, Once, Bindings
  <2> QED BY <2>3, <2>4, <2>5 DEF Shared, Undisturbed
<1> QED BY <1>1, <1>2

LEMMA ObserveKeeps ==
  ASSUME IInv, NEW p \in Proc, Observe(p)
  PROVE  IInv'
<1> USE DEF IInv
<1> DEFINE e == ev[p]
           same == entry # None /\ entry.value = e.value
<1>1. /\ pc[p] = "observe"
      /\ entry' = [value |-> e.value, device |-> e.device, firstSeen |-> FirstSeen(p, same)]
      /\ fired' = FiredAfter(same)
      /\ timers' = {t \in timers : same \/ ~t.recorded}
      /\ count' = IF same THEN count ELSE [b \in Bindings |-> 0]
      /\ seen' = [seen EXCEPT ![e.value] = clock]
      /\ NextWinner(p, todo[p])
      /\ UNCHANGED <<sc, clock, present, fails>>
  BY DEF Observe, used
<1>2. /\ SharedTyped /\ TimersOK /\ Once /\ Undisturbed /\ tnow[p] \in Nat
      /\ e \in Event /\ (sc.prompt => tnow[p] = clock)
  BY <1>1 DEF Local, LocalTyped, Shared, Handles, Keeps
<1>3. e.value \in Value /\ e.device \in AllDevices /\ Bindings' = Bindings
  BY <1>1, <1>2 DEF Event, Devices, AllDevices, SharedTyped, Bindings
<1>4. entry # None => entry.firstSeen \in Nat /\ entry.firstSeen \in Int
  BY <1>2 DEF SharedTyped, Entry
<1>5. /\ entry'.value = e.value /\ entry'.firstSeen = (IF same THEN entry.firstSeen ELSE tnow[p])
      /\ entry' \in Entry
  BY <1>1, <1>2, <1>3, <1>4 DEF FirstSeen, Entry
<1>6. entry' # None
  BY <1>5, ConstantsAssumption
<1>7. Window
  BY <1>1, <1>2, <1>5, <1>6 DEF Window
<1>8. Local'
  BY <1>1, <1>2, <1>5, <1>6, <1>7, NextWinners
<1>9. SharedTyped'
  BY <1>1, <1>2, <1>3, <1>5 DEF SharedTyped
<1>10. TimersOK'
  BY <1>1, <1>2, <1>3, <1>6 DEF TimersOK
<1>11. Once'
  BY <1>1, <1>2, <1>3 DEF Once, FiredAfter
<1>12. Undisturbed'
  <2> SUFFICES ASSUME sc.prompt, fails = 0, NEW v \in Value, v # e.value
               PROVE  seen'[v] = None \/ seen'[v] <= entry'.firstSeen
    BY <1>1, <1>5 DEF Undisturbed
  <2>1. seen'[v] = seen[v] /\ (seen[v] = None \/ seen[v] <= clock)
    BY <1>1, <1>2 DEF SharedTyped
  <2>2. CASE same
    BY <2>1, <2>2, <1>2, <1>5 DEF Undisturbed
  <2>3. CASE ~same
    BY <2>1, <2>3, <1>2, <1>5
  <2> QED BY <2>2, <2>3
<1> QED BY <1>8, <1>9, <1>10, <1>11, <1>12 DEF Shared

\* A dispatch is counted and remembered.
LEMMA FiresKeeps ==
  ASSUME Shared, NEW p \in Proc, NEW b \in Bindings, Fires(p, b),
         UNCHANGED <<sc, clock, present, entry, timers, fails, seen>>
  PROVE  Shared'
<1>1. Bindings' = Bindings
  BY DEF Bindings
<1>2. b \notin fired /\ fired' = fired \cup {b} /\ count' = [count EXCEPT ![b] = @ + 1]
  BY DEF Fires, DwellPassed
<1>3. SharedTyped'
  BY <1>1, <1>2 DEF Shared, SharedTyped
<1>4. TimersOK' /\ Undisturbed'
  BY <1>1 DEF Shared, TimersOK, Undisturbed
<1>5. Once'
  BY <1>1, <1>2 DEF Shared, Once, SharedTyped
<1> QED BY <1>3, <1>4, <1>5 DEF Shared

\* Where a goroutine with winners to dispatch is.
LEMMA Dispatching ==
  ASSUME IInv, NEW p \in Proc, pc[p] \in {"dispatch", "schedule", "deferred", "relist", "redispatch"}
  PROVE  /\ SharedTyped /\ LocalTyped /\ entry # None
         /\ todo[p] \in SUBSET Bindings /\ First(todo[p]) \in todo[p]
         /\ sc.prompt /\ pc[p] \in {"dispatch", "schedule", "relist", "redispatch"} =>
              entry.value = ev[p].value \/ entry.firstSeen = clock
<1>1. SharedTyped /\ LocalTyped /\ Handles(p) /\ (sc.prompt => Keeps(p))
  BY DEF IInv, Shared, Local
<1>2. entry # None /\ todo[p] # {} /\ todo[p] \in SUBSET Bindings
  BY <1>1 DEF Handles, LocalTyped
<1>3. First(todo[p]) \in todo[p]
  BY <1>2, FirstIn DEF IInv
<1> QED BY <1>1, <1>2, <1>3 DEF Keeps

LEMMA DispatchKeeps ==
  ASSUME IInv, NEW p \in Proc, Dispatch(p)
  PROVE  IInv'
<1> DEFINE b == First(todo[p])
<1>1. pc[p] = "dispatch" /\ UNCHANGED <<sc, clock, present, entry, timers, fails, seen>>
  BY DEF Dispatch, used
<1>2. /\ SharedTyped /\ LocalTyped /\ entry # None
      /\ todo[p] \in SUBSET Bindings /\ b \in todo[p] /\ b \in Bindings
      /\ sc.prompt => entry.value = ev[p].value \/ entry.firstSeen = clock
  BY <1>1, Dispatching
<1>3. Window /\ todo[p] \ {b} \in SUBSET todo[p]
  BY <1>1 DEF Window
<1>4. ASSUME NextWinner(p, todo[p] \ {b}) PROVE Local'
  BY <1>1, <1>2, <1>3, <1>4, NextWinners DEF IInv
<1>5. CASE /\ b.dwell = 0 /\ count' = [count EXCEPT ![b] = @ + 1]
           /\ NextWinner(p, todo[p] \ {b}) /\ UNCHANGED fired
  <2>1. Bindings' = Bindings
    BY <1>1 DEF Bindings
  <2>2. SharedTyped'
    BY <1>1, <1>2, <1>5, <2>1 DEF SharedTyped
  <2>3. TimersOK' /\ Undisturbed'
    BY <1>1, <2>1 DEF IInv, Shared, TimersOK, Undisturbed
  <2>4. Once'
    BY <1>2, <1>5, <2>1 DEF IInv, Shared, Once, SharedTyped
  <2> QED BY <1>4, <1>5, <2>2, <2>3, <2>4 DEF IInv, Shared
<1>6. CASE b.dwell > 0 /\ Fires(p, b) /\ NextWinner(p, todo[p] \ {b})
  <2>1. Shared'
    BY <1>1, <1>2, <1>6, FiresKeeps DEF IInv
  <2> QED BY <1>4, <1>6, <2>1 DEF IInv
<1>7. CASE pc' = [pc EXCEPT ![p] = "schedule"] /\ UNCHANGED <<fired, count, ev, todo, tnow>>
  <2>1. Turns(p, "schedule", ev[p], todo[p], tnow[p]) /\ "schedule" \in PCs /\ tnow[p] \in Nat
    BY <1>2, <1>7 DEF Turns, PCs, LocalTyped
  <2>2. /\ ev[p] \in Event /\ (\A c \in todo[p] : propertyMatches(c, ev[p].value))
        /\ todo[p] # {} /\ (sc.prompt => tnow[p] = clock)
    BY <1>1 DEF IInv, Local, Handles, Keeps
  <2>3. Local'
    <3>1. Local /\ entry' # None /\ (sc.prompt => entry'.value = ev[p].value \/ entry'.firstSeen = clock)
      BY <1>1, <1>2 DEF IInv
    <3> HIDE DEF Local, Window, Turns
    <3> QED BY <1>2, <1>3, <2>1, <2>2, <3>1, LocalStep
  <2>4. Shared'
    BY <1>1, <1>2, <1>7, SharedKept DEF IInv, SharedTyped
  <2> QED BY <2>3, <2>4 DEF IInv
<1> QED BY <1>5, <1>6, <1>7 DEF Dispatch

\* A deferred timer has a Binding of the scenario.
LEMMA ScheduleKeeps ==
  ASSUME IInv, NEW p \in Proc, ScheduleDeferred(p)
  PROVE  IInv'
<1> DEFINE b == First(todo[p])
           t == [binding |-> b, due |-> Due(b), recorded |-> TRUE]
<1>1. /\ pc[p] = "schedule" /\ UNCHANGED <<sc, clock, present, entry, fired, fails, count, seen>>
      /\ NextWinner(p, todo[p] \ {b}) /\ (timers' = timers \/ timers' = timers \cup {t})
  BY DEF ScheduleDeferred, used
<1>2. /\ SharedTyped /\ LocalTyped /\ entry # None
      /\ todo[p] \in SUBSET Bindings /\ b \in todo[p] /\ b \in Bindings
      /\ sc.prompt => entry.value = ev[p].value \/ entry.firstSeen = clock
  BY <1>1, Dispatching
<1>3. Window /\ todo[p] \ {b} \in SUBSET todo[p]
  BY <1>1 DEF Window
<1>4. Local'
  BY <1>1, <1>2, <1>3, NextWinners DEF IInv
<1>5. SharedTyped' /\ Once' /\ Undisturbed'
  BY <1>1 DEF IInv, Shared, SharedTyped, Once, Undisturbed, Bindings
<1>6. TimersOK'
  <2>1. t.binding \in Bindings /\ t = [binding |-> t.binding, due |-> t.due, recorded |-> t.recorded]
    BY <1>2
  <2> HIDE DEF t
  <2> QED BY <1>1, <1>2, <2>1 DEF IInv, Shared, TimersOK, Bindings
<1> QED BY <1>4, <1>5, <1>6 DEF IInv, Shared

-----------------------------------------------------------------------------
(* fireDeferred.                                                           *)

LEMMA TimerFiresKeeps ==
  ASSUME IInv, NEW p \in Proc, TimerFires(p)
  PROVE  IInv'
<1>1. PICK t \in timers :
        /\ timers' = timers \ {t}
        /\ todo' = [todo EXCEPT ![p] = {t.binding}]
  BY DEF TimerFires
<1>2. /\ pc' = [pc EXCEPT ![p] = "deferred"]
      /\ UNCHANGED <<sc, clock, present, entry, fired, ev, tnow, fails, count, seen>>
  BY DEF TimerFires, used
<1>3. t.binding \in Bindings /\ entry # None
  BY DEF IInv, Shared, TimersOK
<1>4. Turns(p, "deferred", ev[p], {t.binding}, tnow[p]) /\ "deferred" \in PCs /\ tnow[p] \in Nat
  BY <1>1, <1>2 DEF Turns, PCs, IInv, Local, LocalTyped
<1>5. Window
  BY <1>2 DEF Window
<1>6. Local'
  <2>1. Local /\ entry' # None /\ {t.binding} \in SUBSET Bindings /\ {t.binding} # {}
        /\ \E c \in Bindings : {t.binding} = {c}
    BY <1>2, <1>3 DEF IInv
  <2> HIDE DEF Local, Window, Turns
  <2> QED BY <1>4, <1>5, <2>1, LocalStep
<1>7. SharedTyped' /\ Once' /\ Undisturbed'
  BY <1>2 DEF IInv, Shared, SharedTyped, Once, Undisturbed, Bindings
<1>8. TimersOK'
  BY <1>1, <1>2 DEF IInv, Shared, TimersOK, Bindings
<1> QED BY <1>6, <1>7, <1>8 DEF IInv, Shared

LEMMA DeferredKeeps ==
  ASSUME IInv, NEW p \in Proc, Deferred(p)
  PROVE  IInv'
<1> DEFINE b == First(todo[p])
           f(t) == IF t.binding = b THEN [t EXCEPT !.recorded = FALSE] ELSE t
           e == [value |-> entry.value, device |-> entry.device]
<1>1. /\ pc[p] = "deferred" /\ timers' = {f(t) : t \in timers}
      /\ UNCHANGED <<sc, clock, present, entry, fired, fails, count, seen>>
      /\ \/ Idle(p)
         \/ /\ ev' = [ev EXCEPT ![p] = e]
            /\ pc' = [pc EXCEPT ![p] = "relist"]
            /\ UNCHANGED <<todo, tnow>>
  BY DEF Deferred, used
<1>2. /\ SharedTyped /\ LocalTyped /\ entry # None /\ tnow[p] \in Nat
      /\ todo[p] \in SUBSET Bindings /\ todo[p] # {} /\ \E c \in Bindings : todo[p] = {c}
  <2>1. Handles(p) /\ SharedTyped /\ LocalTyped
    BY DEF IInv, Local, Shared
  <2> QED BY <1>1, <2>1 DEF Handles, LocalTyped
<1>3. Window
  BY <1>1 DEF Window
<1>4. Local'
  <2>1. CASE Idle(p)
    BY <1>3, <2>1, Idles DEF IInv
  <2>2. CASE /\ ev' = [ev EXCEPT ![p] = e]
             /\ pc' = [pc EXCEPT ![p] = "relist"]
             /\ UNCHANGED <<todo, tnow>>
    <3>1. Turns(p, "relist", e, todo[p], tnow[p]) /\ "relist" \in PCs
      BY <1>2, <2>2 DEF Turns, PCs, LocalTyped
    <3>2. entry' # None /\ entry'.value = e.value /\ Local
      BY <1>1, <1>2 DEF IInv
    <3> HIDE DEF Local, Window, Turns, e
    <3> QED BY <1>2, <1>3, <3>1, <3>2, LocalStep
  <2> QED BY <1>1, <2>1, <2>2
<1>5. SharedTyped' /\ Once' /\ Undisturbed'
  BY <1>1 DEF IInv, Shared, SharedTyped, Once, Undisturbed, Bindings
<1>6. TimersOK'
  <2>1. ASSUME NEW t \in timers
        PROVE  f(t).binding \in Bindings /\
               f(t) = [binding |-> f(t).binding, due |-> f(t).due, recorded |-> f(t).recorded]
    <3>1. t.binding \in Bindings /\ t = [binding |-> t.binding, due |-> t.due, recorded |-> t.recorded]
      BY DEF IInv, Shared, TimersOK
    <3>2. CASE t.binding = b
      <4>1. f(t) = [binding |-> t.binding, due |-> t.due, recorded |-> FALSE]
        BY <3>1, <3>2
      <4> HIDE DEF f
      <4> QED BY <3>1, <4>1
    <3>3. CASE t.binding # b
      BY <3>1, <3>3
    <3> QED BY <3>2, <3>3
  <2> HIDE DEF f
  <2> QED BY <1>1, <1>2, <2>1 DEF TimersOK, Bindings
<1> QED BY <1>4, <1>5, <1>6 DEF IInv, Shared

LEMMA RelistKeeps ==
  ASSUME IInv, NEW p \in Proc, Relist(p) \/ RelistFails(p)
  PROVE  IInv'
<1>1. pc[p] = "relist" /\ UNCHANGED <<sc, clock, present, entry, fired, timers, count, seen>>
  BY DEF Relist, RelistFails
<1>2. /\ SharedTyped /\ LocalTyped /\ entry # None /\ clock \in Nat /\ fails \in Nat
      /\ todo[p] \in SUBSET Bindings /\ todo[p] # {}
      /\ sc.prompt => entry.value = ev[p].value \/ entry.firstSeen = clock
  BY <1>1, Dispatching DEF SharedTyped
<1>3. Window
  BY <1>1 DEF Window
<1>4. Shared'
  <2>1. fails' \in Nat /\ (fails' = 0 => fails = 0) /\ present' \subseteq Bindings
    <3>1. fails' = fails \/ fails' = fails + 1
      BY DEF Relist, RelistFails, used
    <3> QED BY <1>1, <1>2, <3>1 DEF SharedTyped
  <2> QED BY <1>1, <2>1, SharedKept DEF IInv
<1>5. CASE Idle(p)
  BY <1>3, <1>4, <1>5, Idles DEF IInv
<1>6. CASE /\ First(todo[p]) \in Candidates(present, ev[p])
           /\ tnow' = [tnow EXCEPT ![p] = clock]
           /\ pc' = [pc EXCEPT ![p] = "redispatch"]
           /\ UNCHANGED <<ev, todo>>
  <2>1. Turns(p, "redispatch", ev[p], todo[p], clock) /\ "redispatch" \in PCs
    BY <1>2, <1>6 DEF Turns, PCs, LocalTyped
  <2>2. PICK b \in Bindings : todo[p] = {b}
    BY <1>1 DEF IInv, Local, Handles
  <2>3. \A c \in todo[p] : propertyMatches(c, ev[p].value)
    BY <1>6, <2>2, FirstOne DEF IInv, Candidates
  <2>4. entry' # None /\ Local /\ (sc.prompt => entry'.value = ev[p].value \/ entry'.firstSeen = clock)
    BY <1>1, <1>2 DEF IInv
  <2>5. Local'
    <3> HIDE DEF Local, Window, Turns
    <3> QED BY <1>2, <1>3, <2>1, <2>2, <2>3, <2>4, LocalStep
  <2> QED BY <1>4, <2>5 DEF IInv
<1> QED BY <1>5, <1>6 DEF Relist, RelistFails

LEMMA RedispatchKeeps ==
  ASSUME IInv, NEW p \in Proc, Redispatch(p)
  PROVE  IInv'
<1>1. pc[p] = "redispatch" /\ Idle(p) /\ UNCHANGED <<sc, clock, present, entry, timers, fails, seen>>
  BY DEF Redispatch, used
<1>2. First(todo[p]) \in Bindings /\ SharedTyped
  BY <1>1, Dispatching
<1>3. Local'
  BY <1>1, Idles DEF IInv, Window
<1>4. CASE Fires(p, First(todo[p]))
  BY <1>1, <1>2, <1>3, <1>4, FiresKeeps DEF IInv
<1>5. CASE UNCHANGED <<fired, count>>
  BY <1>1, <1>2, <1>3, <1>5, SharedKept DEF IInv, SharedTyped
<1> QED BY <1>4, <1>5 DEF Redispatch

-----------------------------------------------------------------------------
(* Every step.                                                             *)

\* Time passes for a prompt process only when no goroutine is at work.
LEMMA AdvanceKeeps ==
  ASSUME IInv, Advance
  PROVE  IInv'
<1>1. /\ clock' = clock + 1 /\ clock \in Nat
      /\ UNCHANGED <<sc, present, entry, fired, timers, pc, ev, todo, tnow, fails, count, seen>>
      /\ sc.prompt => \A p \in Proc : pc[p] = "idle"
  BY DEF Advance, local, used, IInv, Shared, SharedTyped
<1>2. Bindings' = Bindings /\ Event' = Event
  BY <1>1 DEF Bindings, Event, Devices
<1>3. LocalTyped' /\ \A p \in Proc : Handles(p)'
  BY <1>1, <1>2 DEF IInv, Local, LocalTyped, Handles, propertyMatches
<1>4. sc'.prompt => \A p \in Proc : Keeps(p)'
  BY <1>1 DEF Keeps
<1>5. SharedTyped'
  BY <1>1, <1>2 DEF IInv, Shared, SharedTyped
<1>6. TimersOK' /\ Once' /\ Undisturbed'
  BY <1>1, <1>2 DEF IInv, Shared, TimersOK, Once, Undisturbed
<1> QED BY <1>3, <1>4, <1>5, <1>6 DEF IInv, Local, Shared

LEMMA StaysOrEdits ==
  ASSUME IInv, EditBinding \/ UNCHANGED vars
  PROVE  IInv'
<1>1. /\ UNCHANGED <<sc, clock, entry, fired, timers, pc, ev, todo, tnow, fails, count, seen>>
      /\ present' \subseteq Bindings
  BY DEF EditBinding, vars, local, used, IInv, Shared, SharedTyped
<1>2. Bindings' = Bindings /\ Event' = Event
  BY <1>1 DEF Bindings, Event, Devices
<1>3. Local'
  BY <1>1, <1>2 DEF IInv, Local, LocalTyped, Handles, Keeps, propertyMatches
<1>4. Shared'
  BY <1>1, SharedKept DEF IInv, Shared, SharedTyped
<1> QED BY <1>3, <1>4 DEF IInv

LEMMA NextKeeps ==
  ASSUME IInv, [Next]_vars
  PROVE  IInv'
<1>1. ASSUME NEW p \in Proc,
             \/ Receive(p) \/ ReceiveFails(p) \/ TimerFires(p) \/ Continue(p) \/ RelistFails(p)
      PROVE  IInv'
  BY <1>1, ReceiveKeeps, TimerFiresKeeps, ObserveKeeps, DispatchKeeps, ScheduleKeeps, DeferredKeeps,
     RelistKeeps, RedispatchKeeps DEF Continue
<1> QED BY <1>1, AdvanceKeeps, StaysOrEdits DEF Next

LEMMA InitHolds ==
  ASSUME Init
  PROVE  IInv
<1>1. LocalTyped /\ SharedTyped
  BY DEF Init, LocalTyped, SharedTyped, PCs
<1>2. \A p \in Proc : Handles(p) /\ Keeps(p)
  BY DEF Init, Handles, Keeps
<1>3. TimersOK /\ Once /\ Undisturbed
  BY DEF Init, TimersOK, Once, Undisturbed
<1> QED BY <1>1, <1>2, <1>3 DEF IInv, Local, Shared

\* The inductive invariant holds in every reachable state.
THEOREM Invariance == Spec => []IInv
<1>1. Init => IInv
  BY InitHolds
<1>2. IInv /\ [Next]_vars => IInv'
  BY NextKeeps
<1> QED BY <1>1, <1>2, PTL DEF Spec

\* A debounced Binding dispatches at most once per window (debounceDispatch,
\* fireDeferred), however many goroutines and timers race for it.
THEOREM AtMostOnceHolds == Spec => []AtMostOnce
<1>1. IInv => AtMostOnce
  BY DEF IInv, Shared, SharedTyped, Once, AtMostOnce
<1> QED BY <1>1, Invariance, PTL

-----------------------------------------------------------------------------
(* The action property.                                                    *)

\* What a step that dispatches b for the value of the window needs.
Observed(b) ==
  sc.prompt /\ fails = 0 /\ b.dwell > 0 /\ count'[b] > count[b] =>
    /\ propertyMatches(b, entry.value)
    /\ \A v \in Value : v # entry.value => seen[v] = None \/ seen[v] + b.dwell <= clock

\* The window of a prompt goroutine that fires is older than this tick: it is
\* the window of the value the goroutine handles.
LEMMA FiresObserved ==
  ASSUME IInv, NEW p \in Proc, pc[p] \in {"dispatch", "redispatch"}, Fires(p, First(todo[p]))
  PROVE  \A b \in Bindings : Observed(b)
<1> SUFFICES ASSUME NEW b \in Bindings, sc.prompt, fails = 0, b.dwell > 0, count'[b] > count[b]
             PROVE  /\ propertyMatches(b, entry.value)
                    /\ \A v \in Value : v # entry.value => seen[v] = None \/ seen[v] + b.dwell <= clock
  BY DEF Observed
<1>1. /\ SharedTyped /\ entry # None /\ First(todo[p]) \in todo[p]
      /\ entry.value = ev[p].value \/ entry.firstSeen = clock
  BY Dispatching
<1>2. First(todo[p]) = b
  BY <1>1 DEF Fires, SharedTyped
<1>3. entry.firstSeen \in Nat /\ clock \in Nat /\ b.dwell \in Nat
  BY <1>1, ConstantsAssumption DEF SharedTyped, Entry, Bindings, AllBindings
<1>4. tnow[p] = clock /\ \A c \in todo[p] : propertyMatches(c, ev[p].value)
  BY DEF IInv, Local, Handles, Keeps
<1>5. clock - entry.firstSeen >= b.dwell
  BY <1>2, <1>4 DEF Fires, DwellPassed
<1>6. entry.value = ev[p].value
  BY <1>1, <1>3, <1>5
<1>7. propertyMatches(b, entry.value)
  BY <1>1, <1>2, <1>4, <1>6
<1>8. ASSUME NEW v \in Value, v # entry.value
      PROVE  seen[v] = None \/ seen[v] + b.dwell <= clock
  <2>1. seen[v] \in Nat \cup {None} /\ (seen[v] = None \/ seen[v] <= entry.firstSeen)
    BY <1>1, <1>8 DEF IInv, Shared, SharedTyped, Undisturbed
  <2> QED BY <2>1, <1>3, <1>5
<1> QED BY <1>7, <1>8

LEMMA StepObserved ==
  ASSUME IInv, [Next]_vars
  PROVE  \A b \in Bindings : Observed(b)
<1>0. count \in [Bindings -> Nat]
  BY DEF IInv, Shared, SharedTyped
<1>1. ASSUME UNCHANGED count PROVE \A b \in Bindings : Observed(b)
  BY <1>0, <1>1 DEF Observed
<1>2. ASSUME NEW p \in Proc, Observe(p) PROVE \A b \in Bindings : Observed(b)
  <2>1. \A b \in Bindings : count'[b] = count[b] \/ count'[b] = 0
    BY <1>2 DEF Observe
  <2>2. \A b \in Bindings : ~(count'[b] > count[b])
    BY <1>0, <2>1
  <2> QED BY <2>2 DEF Observed
<1>3. ASSUME NEW p \in Proc, Dispatch(p) PROVE \A b \in Bindings : Observed(b)
  <2>1. CASE First(todo[p]).dwell = 0 /\ count' = [count EXCEPT ![First(todo[p])] = @ + 1]
    <3>1. \A b \in Bindings : b.dwell > 0 => count'[b] = count[b]
      BY <1>0, <2>1
    <3>2. \A b \in Bindings : b.dwell > 0 => ~(count'[b] > count[b])
      BY <1>0, <3>1
    <3> QED BY <3>2 DEF Observed
  <2>2. CASE Fires(p, First(todo[p]))
    BY <1>3, <2>2, FiresObserved DEF Dispatch
  <2> QED BY <1>1, <1>3, <2>1, <2>2 DEF Dispatch
<1>4. ASSUME NEW p \in Proc, Redispatch(p) PROVE \A b \in Bindings : Observed(b)
  BY <1>1, <1>4, FiresObserved DEF Redispatch
<1>5. \/ \E p \in Proc : Observe(p) \/ Dispatch(p) \/ Redispatch(p)
      \/ UNCHANGED count
  BY DEF Next, Continue, Receive, ReceiveFails, TimerFires, RelistFails, ScheduleDeferred, Deferred, Relist,
     EditBinding, Advance, vars
<1> QED BY <1>1, <1>2, <1>3, <1>4, <1>5

\* A debounced Binding dispatches only for a value that was reported for its
\* MinDuration with no other in between (observeValue, debounceDispatch), if no
\* goroutine lags a tick and no report was dropped.
THEOREM ContinuouslyObservedHolds == Spec => ContinuouslyObserved
<1>1. IInv /\ [Next]_vars =>
        [\A b \in Bindings : sc.prompt /\ fails = 0 /\ b.dwell > 0 /\ count'[b] > count[b] =>
           /\ propertyMatches(b, entry.value)
           /\ \A v \in Value : v # entry.value =>
                seen[v] = None \/ seen[v] + b.dwell <= clock]_vars
  BY StepObserved DEF Observed
<1> QED BY <1>1, Invariance, PTL DEF Spec, ContinuouslyObserved

=============================================================================

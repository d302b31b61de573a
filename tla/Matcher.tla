------------------------------ MODULE Matcher -------------------------------
(***************************************************************************)
(* The Binding matcher (pkg/iot/bindings/match.go): which Conditions an    *)
(* event dispatches, and the debounce that holds a Binding with a          *)
(* MinDuration back until the value has been observed that long, either    *)
(* for a later event (inline) or for a timer (deferred).                   *)
(*                                                                         *)
(* The debounce map is keyed by (property, device) and nothing reads two   *)
(* keys, so one key is modelled.  Events and timer callbacks run on the    *)
(* goroutines in Proc.  A Binding's selector, and the device it is held    *)
(* against, are sets of facts <<kind, value>>.                             *)
(***************************************************************************)
EXTENDS Integers, FiniteSetsExt

CONSTANTS Proc,
          Value,      \* values the device reports for the property
          Scenarios,  \* what there is, and how often things may happen
          None

(* A scenario: the Binding CRs on the property that may exist; the facts    *)
(* about the device, as events carry them; whether every goroutine is       *)
(* prompt (none lags a whole tick between two steps); and bounds on the     *)
(* clock, the events, the instant of the last one, failed List calls, and   *)
(* Binding creations and deletions.                                         *)
Kinds == {"ieee", "device", "label", "type", "zone"}

AllBindings == UNION {s.bindings : s \in Scenarios}
AllDevices == UNION {s.devices : s \in Scenarios}

Entry == [value : Value, device : AllDevices, firstSeen : Nat]

(* name stands for the CR's name in sort order; values = {} is a wildcard. *)
ASSUME ConstantsAssumption ==
  /\ \A b \in AllBindings :
       /\ b.name \in Nat /\ b.dwell \in Nat /\ b.values \subseteq Value
       /\ IsFiniteSet(b.sel) /\ \A f \in b.sel : f[1] \in Kinds
  /\ \A b, c \in AllBindings : b.name = c.name => b = c
  /\ None \notin Value /\ None \notin AllBindings /\ None \notin Entry
  /\ \A s \in Scenarios :
       /\ s.prompt \in BOOLEAN
       /\ {s.maxClock, s.maxEvents, s.lastEvent, s.maxFail, s.maxEdit} \subseteq Nat

VARIABLES
  sc,        \* the scenario
  clock,
  present,   \* the Bindings the kube client lists
  entry,     \* m.debounce[key] without its maps: value, firstSeen, device
  fired,     \* entry.fired: Bindings dispatched in this window
  timers,    \* timers running; recorded ones are also in entry.timers
  pc,
  ev,        \* the event a goroutine handles: value and device
  todo,      \* winners it has still to dispatch; for a callback its Binding
  tnow,      \* m.now(), read before debounceMu is waited for
  events, fails, edits,
  count,     \* history: dispatches of each Binding in this window
  seen       \* history: when each value was last received

local == <<pc, ev, todo, tnow>>
used  == <<events, fails, edits>>
vars  == <<sc, clock, present, entry, fired, timers, local, used, count, seen>>

Bindings == sc.bindings
Devices == sc.devices

Event == [value : Value, device : Devices]

Init ==
  /\ sc \in Scenarios
  /\ clock = 0 /\ present = Bindings /\ entry = None
  /\ fired = {} /\ timers = {}
  /\ pc = [p \in Proc |-> "idle"]
  /\ ev = [p \in Proc |-> None]
  /\ todo = [p \in Proc |-> {}]
  /\ tnow = [p \in Proc |-> 0]
  /\ events = 0 /\ fails = 0 /\ edits = 0
  /\ count = [b \in Bindings |-> 0]
  /\ seen = [v \in Value |-> None]
-----------------------------------------------------------------------------
(* Matching.                                                               *)

Weight(f) == CASE f[1] = "ieee" -> 16 [] f[1] = "device" -> 8 [] f[1] = "label" -> 4
               [] f[1] = "type" -> 2 [] f[1] = "zone" -> 1

specificity(sel) == MapThenSumSet(Weight, sel)

selectorMatches(sel, d) == sel \subseteq d

propertyMatches(b, v) == b.values = {} \/ v \in b.values

Candidates(L, e) ==
  {b \in L : propertyMatches(b, e.value) /\ selectorMatches(b.sel, e.device)}

(* Every candidate tied at the top score.                                  *)
Winners(L, e) ==
  {b \in Candidates(L, e) :
     \A c \in Candidates(L, e) : specificity(c.sel) <= specificity(b.sel)}

First(S) == CHOOSE b \in S : \A c \in S : b.name <= c.name
-----------------------------------------------------------------------------
(* FindConditions.                                                         *)

Idle(p) ==
  /\ pc' = [pc EXCEPT ![p] = "idle"]
  /\ ev' = [ev EXCEPT ![p] = None]
  /\ todo' = [todo EXCEPT ![p] = {}]
  /\ tnow' = [tnow EXCEPT ![p] = 0]

Arrives(p, e) ==
  /\ pc[p] = "idle" /\ events < sc.maxEvents /\ clock <= sc.lastEvent
  /\ events' = events + 1

(* List succeeds; the winners are those of the list it returned.           *)
Receive(p) ==
  /\ \E e \in Event :
       /\ Arrives(p, e)
       /\ ev' = [ev EXCEPT ![p] = e]
       /\ todo' = [todo EXCEPT ![p] = Winners(present, e)]
  /\ tnow' = [tnow EXCEPT ![p] = clock]
  /\ pc' = [pc EXCEPT ![p] = "observe"]
  /\ UNCHANGED <<sc, clock, present, entry, fired, timers, fails, edits, count, seen>>

(* List fails: the event is dropped before its value is observed.          *)
ReceiveFails(p) ==
  /\ fails < sc.maxFail /\ fails' = fails + 1
  /\ \E e \in Event :
       /\ Arrives(p, e)
       /\ seen' = [seen EXCEPT ![e.value] = clock]
  /\ UNCHANGED <<sc, clock, present, entry, fired, timers, local, edits, count>>

(* Reads the clock for the next debounceDispatch, or returns.              *)
NextWinner(p, S) ==
  IF S = {} THEN Idle(p)
  ELSE /\ pc' = [pc EXCEPT ![p] = "dispatch"]
       /\ todo' = [todo EXCEPT ![p] = S]
       /\ tnow' = [tnow EXCEPT ![p] = clock]
       /\ ev' = ev

FirstSeenKept(p, same) == IF entry # None THEN entry.firstSeen ELSE tnow[p]

FirstSeen(p, same) == IF same THEN entry.firstSeen ELSE tnow[p]

FiredAfter(same) == IF same THEN fired ELSE {}

(* observeValue: a new value stops the recorded timers and opens a window. *)
Observe(p) ==
  /\ pc[p] = "observe"
  /\ LET e == ev[p] same == entry # None /\ entry.value = e.value IN
     /\ entry' = [value |-> e.value, device |-> e.device,
                  firstSeen |-> FirstSeen(p, same)]
     /\ fired' = FiredAfter(same)
     /\ timers' = {t \in timers : same \/ ~t.recorded}
     /\ count' = IF same THEN count ELSE [b \in Bindings |-> 0]
     /\ seen' = [seen EXCEPT ![e.value] = clock]
  /\ NextWinner(p, todo[p])
  /\ UNCHANGED <<sc, clock, present, used>>

DwellIgnoresFired(p, b) == tnow[p] - entry.firstSeen >= b.dwell

DwellPassed(p, b) == b \notin fired /\ tnow[p] - entry.firstSeen >= b.dwell

(* debounceDispatch of one Binding, decided under debounceMu.              *)
Fires(p, b) ==
  /\ DwellPassed(p, b)
  /\ fired' = fired \cup {b}
  /\ count' = [count EXCEPT ![b] = @ + 1]

Dispatch(p) ==
  /\ pc[p] = "dispatch"
  /\ LET b == First(todo[p]) IN
     \/ /\ b.dwell = 0
        /\ count' = [count EXCEPT ![b] = @ + 1]
        /\ NextWinner(p, todo[p] \ {b})
        /\ UNCHANGED fired
     \/ /\ b.dwell > 0
        /\ Fires(p, b)
        /\ NextWinner(p, todo[p] \ {b})
     \/ /\ b.dwell > 0 /\ ~DwellPassed(p, b)
        /\ pc' = [pc EXCEPT ![p] = "schedule"]
        /\ UNCHANGED <<fired, count, ev, todo, tnow>>
  /\ UNCHANGED <<sc, clock, present, entry, timers, used, seen>>

(* epsilon is less than a tick, so a past-due timer is due now.            *)
Due(b) == Max({entry.firstSeen + b.dwell, clock})

NothingDeferred(p) ==
  /\ pc[p] = "schedule"
  /\ NextWinner(p, todo[p] \ {First(todo[p])})
  /\ UNCHANGED <<sc, clock, present, entry, fired, timers, used, count, seen>>

(* scheduleDeferred: one timer per Binding and window.                     *)
ScheduleDeferred(p) ==
  /\ pc[p] = "schedule"
  /\ LET b == First(todo[p]) IN
     /\ timers' = IF b \in fired \/ \E t \in timers : t.recorded /\ t.binding = b
                  THEN timers
                  ELSE timers \cup {[binding |-> b, due |-> Due(b), recorded |-> TRUE]}
     /\ NextWinner(p, todo[p] \ {b})
  /\ UNCHANGED <<sc, clock, present, entry, fired, used, count, seen>>
-----------------------------------------------------------------------------
(* fireDeferred, on the timer's goroutine.  Between the timer's expiry and *)
(* the lock, Stop no longer helps.                                         *)

TimerFires(p) ==
  /\ pc[p] = "idle"
  /\ \E t \in timers :
       /\ clock >= t.due
       /\ timers' = timers \ {t}
       /\ todo' = [todo EXCEPT ![p] = {t.binding}]
  /\ pc' = [pc EXCEPT ![p] = "deferred"]
  /\ UNCHANGED <<sc, clock, present, entry, fired, ev, tnow, used, count, seen>>

(* Drops the record of the Binding's timer, whichever window armed it.     *)
Deferred(p) ==
  /\ pc[p] = "deferred"
  /\ LET b == First(todo[p]) IN
     /\ timers' = {IF t.binding = b THEN [t EXCEPT !.recorded = FALSE] ELSE t : t \in timers}
     /\ \/ b \in fired /\ Idle(p)
        \/ /\ b \notin fired
           /\ ev' = [ev EXCEPT ![p] = [value |-> entry.value, device |-> entry.device]]
           /\ pc' = [pc EXCEPT ![p] = "relist"]
           /\ UNCHANGED <<todo, tnow>>
  /\ UNCHANGED <<sc, clock, present, entry, fired, used, count, seen>>

(* List again: the Binding must still be there and match the value read.   *)
Relist(p) ==
  /\ pc[p] = "relist"
  /\ LET b == First(todo[p]) found == b \in Candidates(present, ev[p]) /\ b.dwell > 0 IN
     \/ /\ found
        /\ tnow' = [tnow EXCEPT ![p] = clock]
        /\ pc' = [pc EXCEPT ![p] = "redispatch"]
        /\ UNCHANGED <<ev, todo>>
     \/ ~found /\ Idle(p)
  /\ UNCHANGED <<sc, clock, present, entry, fired, timers, used, count, seen>>

RelistFails(p) ==
  /\ pc[p] = "relist" /\ fails < sc.maxFail
  /\ fails' = fails + 1
  /\ Idle(p)
  /\ UNCHANGED <<sc, clock, present, entry, fired, timers, events, edits, count, seen>>

Redispatch(p) ==
  /\ pc[p] = "redispatch"
  /\ LET b == First(todo[p]) IN
     \/ Fires(p, b)
     \/ ~DwellPassed(p, b) /\ UNCHANGED <<fired, count>>
  /\ Idle(p)
  /\ UNCHANGED <<sc, clock, present, entry, timers, used, seen>>
-----------------------------------------------------------------------------
EditBinding ==
  /\ edits < sc.maxEdit /\ edits' = edits + 1
  /\ \E b \in Bindings : present' = IF b \in present THEN present \ {b} ELSE present \cup {b}
  /\ UNCHANGED <<sc, clock, entry, fired, timers, local, events, fails, count, seen>>

Advance ==
  /\ clock < sc.maxClock
  /\ sc.prompt => \A p \in Proc : pc[p] = "idle"
  /\ clock' = clock + 1
  /\ UNCHANGED <<sc, present, entry, fired, timers, local, used, count, seen>>

Continue(p) ==
  \/ Observe(p) \/ Dispatch(p) \/ ScheduleDeferred(p)
  \/ Deferred(p) \/ Relist(p) \/ Redispatch(p)

Next ==
  \/ \E p \in Proc : \/ Receive(p) \/ ReceiveFails(p) \/ TimerFires(p)
                     \/ Continue(p) \/ RelistFails(p)
  \/ EditBinding
  \/ Advance

Spec == Init /\ [][Next]_vars

TimerDue ==
  /\ \E p \in Proc : pc[p] = "idle"
  /\ \E t \in timers : clock >= t.due

MayAdvance == clock < sc.maxClock /\ (sc.prompt => \A p \in Proc : pc[p] = "idle")

(* Goroutines run on, due timers fire and time passes; no event need come. *)
(* (Weak fairness of each goroutine and strong fairness of the timers and  *)
(* of time, with the conditions under which they can move written out.)    *)
FairSpec ==
  /\ Spec
  /\ \A p \in Proc : <>[](pc[p] # "idle") => []<><<pc'[p] # pc[p] \/ todo'[p] # todo[p]>>_vars
  /\ []<>TimerDue => []<><<\E p \in Proc : pc'[p] = "deferred" /\ pc[p] = "idle">>_vars
  /\ []<>MayAdvance => []<><<clock' # clock>>_vars
-----------------------------------------------------------------------------
(* Properties.                                                             *)

(* A debounced Binding dispatches at most once while the value is stable,  *)
(* although inline and deferred dispatches race for it.                    *)
AtMostOnce == \A b \in Bindings : b.dwell > 0 => count[b] <= 1

(* A debounced Binding dispatches only when its value has been reported    *)
(* for at least MinDuration with no report of another value in between, as *)
(* long as no goroutine lags a tick behind between two of its steps, and   *)
(* no report was dropped because List failed.                              *)
ContinuouslyObserved ==
  [][\A b \in Bindings : sc.prompt /\ fails = 0 /\ b.dwell > 0 /\ count'[b] > count[b] =>
       /\ propertyMatches(b, entry.value)
       /\ \A v \in Value : v # entry.value =>
            seen[v] = None \/ seen[v] + b.dwell <= clock]_vars

(* If the value stays and a debounced Binding stays among the winners, it  *)
(* dispatches in that window without any further event: no cancelled,      *)
(* stale or displaced timer leaves it waiting.  (A failed List, or a       *)
(* Binding missing when its timer fires, gives the dispatch up.)           *)
StableFires ==
  \A b \in AllBindings :
    <>[](/\ b \in Bindings /\ b.dwell > 0 /\ entry # None /\ b \in Winners(present, entry)
         /\ fails = 0 /\ edits = 0)
      => <>[](b \in Bindings /\ count[b] > 0)
=============================================================================

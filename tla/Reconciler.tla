----------------------------- MODULE Reconciler -----------------------------
(***************************************************************************)
(* The reconcile loop of one zone (modules/conditioner/reconciler.go and   *)
(* stack.go): per-axis stacks of Activations that events push and TTLs     *)
(* pop, TTL wake-up timers, and ReconcileZone, which composes a target     *)
(* from the tops of the stacks and writes it to the ZoneKeeper when it     *)
(* differs from the target last written.                                   *)
(*                                                                         *)
(* Every map of the Go Reconciler is keyed by zone and no step reads two   *)
(* zones, so one zone is modelled.  A goroutine is a member of Proc; the   *)
(* evaluator, the RPC handlers and the timer callbacks all run here.       *)
(* A Computer's value for an entry is fixed while the entry lives.  What   *)
(* ReconcileZone only reports (metrics, the Zone's Status) is left out.    *)
(***************************************************************************)
EXTENDS Integers, FiniteSets

CONSTANTS Proc,        \* goroutines that may be inside the reconciler at once
          Axis,        \* the axis kinds
          Source,      \* activation ids, (source_kind, source_name)
          Value,       \* the non-zero values of a field
          None,        \* the zero value of a field; also "no such thing"
          Requests,    \* the pushes that callers make
          MaxClock,    \* bound on the clock
          MaxPush,     \* bound on the number of pushes
          MaxDisturbed \* bound on removals, failed Compute and ApplyValues
                       \* calls, and writes past the reconciler, together

Field  == Value \cup {None}
NoneAt == [a \in Axis |-> None]

Request == [axis : Axis, id : Source, val : Field, prio : Nat, ttl : Nat,
            policy : {"REFRESH", "REPLACE"}, stamped : BOOLEAN]

ASSUME ConstantsAssumption ==
  /\ None \notin Value /\ None \notin Proc /\ None \notin Requests
  /\ Requests \subseteq Request
  /\ {MaxClock, MaxPush, MaxDisturbed} \subseteq Nat

VARIABLES
  clock,        \* r.now()
  stack,        \* axis -> set of entries; slot is the position in the slice
  timer,        \* axis, id -> instant at which the TTL timer is due, or Off
  lastApplied,  \* r.lastApplied[zone]: the target last written
  zone,         \* what the ZoneKeeper holds for the zone
  holder,       \* the goroutine that holds the zone's mutex
  pc,           \* where each goroutine is
  req,          \* the Activation a goroutine is pushing
  stamp,        \* its PushedAt, read before the call
  now,          \* the now argument of its ReconcileZone call
  left,         \* axes it has still to visit
  target,       \* the target it is composing
  pushes, removes, fails, externals,  \* how much of each bound is used
  dirty,        \* history: the last reconcile ended in an error
  popped        \* history: (axis, id) seen expired and not pushed since

core  == <<stack, timer, lastApplied, zone, holder>>
local == <<pc, req, stamp, now, left, target>>
used  == <<pushes, removes, fails, externals>>
hist  == <<dirty, popped>>
vars  == <<clock, core, local, used, hist>>

Unset == -1      \* PushedAt when the message carries none: the zero Time
Off   == -1      \* no timer armed

Entry == [id : Source, val : Field, prio : Nat, ttl : Nat,
          pushedAt : Nat \cup {Unset}, slot : Nat]

TypeOK ==
  /\ clock \in Nat
  /\ stack \in [Axis -> SUBSET Entry]
  /\ timer \in [Axis \X Source -> Nat \cup {Off}]
  /\ lastApplied \in [Axis -> Field]
  /\ zone \in [Axis -> Field]
  /\ holder \in Proc \cup {None}
  /\ pc \in [Proc -> {"idle", "push", "arm", "remove", "call", "lock", "compose"}]
  /\ req \in [Proc -> Requests \cup {None}]
  /\ stamp \in [Proc -> Nat \cup {Unset}]
  /\ now \in [Proc -> Nat]
  /\ left \in [Proc -> SUBSET Axis]
  /\ target \in [Proc -> [Axis -> Field]]
  /\ pushes \in Nat /\ removes \in Nat /\ fails \in Nat /\ externals \in Nat
  /\ dirty \in BOOLEAN
  /\ popped \subseteq Axis \X Source

Init ==
  /\ clock = 0
  /\ stack = [a \in Axis |-> {}]
  /\ timer = [k \in Axis \X Source |-> Off]
  /\ lastApplied = NoneAt
  /\ zone = NoneAt
  /\ holder = None
  /\ pc = [p \in Proc |-> "idle"]
  /\ req = [p \in Proc |-> None]
  /\ stamp = [p \in Proc |-> Unset]
  /\ now = [p \in Proc |-> 0]
  /\ left = [p \in Proc |-> {}]
  /\ target = [p \in Proc |-> NoneAt]
  /\ pushes = 0 /\ removes = 0 /\ fails = 0 /\ externals = 0
  /\ dirty = FALSE
  /\ popped = {}
-----------------------------------------------------------------------------
(* The per-axis stack.                                                     *)

(* Strictly after the deadline; an entry without TTL or PushedAt never.    *)
Expired(e, t) == e.ttl # 0 /\ e.pushedAt # Unset /\ t > e.pushedAt + e.ttl

(* top()'s order: priority, then the later PushedAt, then the slice order. *)
Beats(e, f) ==
  \/ e.prio > f.prio
  \/ e.prio = f.prio /\ e.pushedAt > f.pushedAt
  \/ e.prio = f.prio /\ e.pushedAt = f.pushedAt /\ e.slot <= f.slot

Live(S, t) == {e \in S : ~Expired(e, t)}

Top(S) == {e \in S : \A f \in S : Beats(e, f)}

TopVal(S) == IF Top(S) = {} THEN None ELSE (CHOOSE e \in Top(S) : TRUE).val

(* What an existing entry becomes when r is pushed with its id.            *)
Merged(e, r, at) ==
  IF r.policy = "REPLACE"
  THEN [e EXCEPT !.val = r.val, !.prio = r.prio, !.ttl = r.ttl, !.pushedAt = at]
  ELSE [e EXCEPT !.ttl = r.ttl, !.pushedAt = at]

NewEntry(r, at, n) ==
  [id |-> r.id, val |-> r.val, prio |-> r.prio, ttl |-> r.ttl,
   pushedAt |-> at, slot |-> n]

(* Ids are unique in a stack (UniqueIds), so "the first match" is "the".   *)
Push(S, r, at, n) ==
  IF \E e \in S : e.id = r.id
  THEN {IF e.id = r.id THEN Merged(e, r, at) ELSE e : e \in S}
  ELSE S \cup {NewEntry(r, at, n)}

(* What the tops compose to at time t.                                     *)
Target(t) == [a \in Axis |-> TopVal(Live(stack[a], t))]
-----------------------------------------------------------------------------
(* PushActivation.                                                         *)

(* The caller stamps the Activation before the call.                       *)
CallPush(p) ==
  /\ pc[p] = "idle"
  /\ pushes + Cardinality({q \in Proc : pc[q] = "push"}) < MaxPush
  /\ \E r \in Requests :
       /\ req' = [req EXCEPT ![p] = r]
       /\ stamp' = [stamp EXCEPT ![p] = IF r.stamped THEN clock ELSE Unset]
  /\ pc' = [pc EXCEPT ![p] = "push"]
  /\ UNCHANGED <<clock, core, now, left, target, used, hist>>

(* policy.pushActivation, under the stack's own mutex only.                *)
PushEntry(p) ==
  LET r == req[p] IN
  /\ pc[p] = "push"
  /\ stack' = [stack EXCEPT ![r.axis] = Push(@, r, stamp[p], pushes)]
  /\ popped' = popped \ {<<r.axis, r.id>>}
  /\ pushes' = pushes + 1
  /\ stamp' = [stamp EXCEPT ![p] = Unset]
  /\ pc' = [pc EXCEPT ![p] = "arm"]
  /\ UNCHANGED <<clock, timer, lastApplied, zone, holder,
                 req, now, left, target, removes, fails, externals, dirty>>

ArmOnlyOnce(p) ==
  LET r == req[p] IN
  /\ pc[p] = "arm"
  /\ timer' = IF r.ttl = 0 \/ timer[<<r.axis, r.id>>] # Off THEN timer
              ELSE [timer EXCEPT ![<<r.axis, r.id>>] = clock + r.ttl]
  /\ pc' = [pc EXCEPT ![p] = "call"]
  /\ UNCHANGED <<clock, stack, lastApplied, zone, holder,
                 req, stamp, now, left, target, used, hist>>

(* Stop the old wake-up of this (axis, id) and start a new one.            *)
ArmTimer(p) ==
  LET r == req[p] IN
  /\ pc[p] = "arm"
  /\ timer' = IF r.ttl = 0 THEN timer
              ELSE [timer EXCEPT ![<<r.axis, r.id>>] = clock + r.ttl]
  /\ pc' = [pc EXCEPT ![p] = "call"]
  /\ UNCHANGED <<clock, stack, lastApplied, zone, holder,
                 req, stamp, now, left, target, used, hist>>
MayDisturb == removes + fails + externals < MaxDisturbed
-----------------------------------------------------------------------------
(* RemoveActivation: the id is evicted from one stack after the other.     *)

CallRemove(p) ==
  /\ pc[p] = "idle" /\ MayDisturb
  /\ \E r \in Requests : req' = [req EXCEPT ![p] = r]
  /\ left' = [left EXCEPT ![p] = Axis]
  /\ pc' = [pc EXCEPT ![p] = "remove"]
  /\ removes' = removes + 1
  /\ UNCHANGED <<clock, core, stamp, now, target, pushes, fails, externals, hist>>

RemoveByID(p) ==
  /\ pc[p] = "remove"
  /\ \E a \in left[p] :
       /\ stack' = [stack EXCEPT ![a] = {e \in @ : e.id # req[p].id}]
       /\ left' = [left EXCEPT ![p] = @ \ {a}]
       /\ pc' = [pc EXCEPT ![p] = IF left[p] = {a} THEN "call" ELSE @]
  /\ UNCHANGED <<clock, timer, lastApplied, zone, holder,
                 req, stamp, now, target, used, hist>>
-----------------------------------------------------------------------------
(* ReconcileZone.  now is an argument, evaluated before the zone's mutex   *)
(* is waited for.                                                          *)

Enter(p) ==
  /\ now' = [now EXCEPT ![p] = clock]
  /\ req' = [req EXCEPT ![p] = None]
  /\ pc' = [pc EXCEPT ![p] = "lock"]
  /\ UNCHANGED <<clock, stack, lastApplied, zone, holder,
                 stamp, left, target, used, hist>>

NoTrailingCall(p) ==
  /\ pc[p] = "call"
  /\ req' = [req EXCEPT ![p] = None]
  /\ pc' = [pc EXCEPT ![p] = "idle"]
  /\ UNCHANGED <<clock, core, stamp, now, left, target, used, hist>>

(* The trailing call of PushActivation and RemoveActivation.               *)
CallReconcile(p) == pc[p] = "call" /\ Enter(p) /\ UNCHANGED timer

(* The evaluator's periodic call.                                          *)
PeriodicTick(p) == pc[p] = "idle" /\ Enter(p) /\ UNCHANGED timer

(* A timer runs its callback once its TTL has passed since it was armed.   *)
(* It was armed after PushedAt was read, so it runs after the deadline.    *)
TimerFires(p) ==
  /\ pc[p] = "idle"
  /\ \E k \in Axis \X Source :
       /\ timer[k] # Off /\ clock > timer[k]
       /\ timer' = [timer EXCEPT ![k] = Off]
  /\ Enter(p)

LockOnly(p) ==
  /\ pc[p] = "lock" /\ holder = None
  /\ holder' = p
  /\ popped' = popped \cup
       {k \in Axis \X Source :
          \E e \in stack[k[1]] : e.id = k[2] /\ Expired(e, now[p])}
  /\ left' = [left EXCEPT ![p] = Axis]
  /\ target' = [target EXCEPT ![p] = NoneAt]
  /\ pc' = [pc EXCEPT ![p] = "compose"]
  /\ UNCHANGED <<clock, stack, timer, lastApplied, zone, req, stamp, now, used, dirty>>

(* Take the zone's mutex and drop the expired entries of every stack.      *)
Lock(p) ==
  /\ pc[p] = "lock" /\ holder = None
  /\ holder' = p
  /\ stack' = [a \in Axis |-> Live(stack[a], now[p])]
  /\ popped' = popped \cup
       {k \in Axis \X Source :
          \E e \in stack[k[1]] : e.id = k[2] /\ Expired(e, now[p])}
  /\ left' = [left EXCEPT ![p] = Axis]
  /\ target' = [target EXCEPT ![p] = NoneAt]
  /\ pc' = [pc EXCEPT ![p] = "compose"]
  /\ UNCHANGED <<clock, timer, lastApplied, zone, req, stamp, now, used, dirty>>

(* Read one axis's top and run its Computer; map order, so any order.      *)
ComposeAxis(p) ==
  /\ pc[p] = "compose"
  /\ \E a \in left[p] :
       /\ target' = [target EXCEPT ![p][a] = TopVal(Live(stack[a], now[p]))]
       /\ left' = [left EXCEPT ![p] = @ \ {a}]
  /\ UNCHANGED <<clock, core, pc, req, stamp, now, used, hist>>

Return(p) ==
  /\ holder' = None
  /\ pc' = [pc EXCEPT ![p] = "idle"]
  /\ now' = [now EXCEPT ![p] = 0]
  /\ left' = [left EXCEPT ![p] = {}]
  /\ target' = [target EXCEPT ![p] = NoneAt]
  /\ UNCHANGED <<clock, stack, timer, req, stamp,
                 pushes, removes, externals, popped>>

(* One Computer's error abandons the whole composition.                    *)
ComputeFails(p) ==
  /\ pc[p] = "compose" /\ MayDisturb
  /\ \E a \in left[p] : Live(stack[a], now[p]) # {}
  /\ fails' = fails + 1 /\ dirty' = TRUE
  /\ Return(p)
  /\ UNCHANGED <<lastApplied, zone>>

Composed(p) == pc[p] = "compose" /\ left[p] = {}

(* Same target as last written, or nothing claimed: no RPC.                *)
Suppress(p) ==
  /\ Composed(p)
  /\ target[p] = lastApplied \/ target[p] = NoneAt
  /\ dirty' = FALSE
  /\ Return(p)
  /\ UNCHANGED <<lastApplied, zone, fails>>

(* ZoneKeeper.ApplyValues writes only the fields that are set.             *)
Written(t) == [a \in Axis |-> IF t[a] = None THEN zone[a] ELSE t[a]]

ApplyUnrecorded(p) ==
  /\ Composed(p)
  /\ target[p] # lastApplied /\ target[p] # NoneAt
  /\ zone' = Written(target[p])
  /\ dirty' = FALSE
  /\ Return(p)
  /\ UNCHANGED <<lastApplied, fails>>

ApplyValues(p) ==
  /\ Composed(p)
  /\ target[p] # lastApplied /\ target[p] # NoneAt
  /\ zone' = Written(target[p])
  /\ lastApplied' = target[p]
  /\ dirty' = FALSE
  /\ Return(p)
  /\ UNCHANGED fails

(* The RPC returns an error, before or after the ZoneKeeper took the       *)
(* values (a Flush error leaves them in place); lastApplied is left alone. *)
ApplyFails(p) ==
  /\ Composed(p) /\ MayDisturb
  /\ target[p] # lastApplied /\ target[p] # NoneAt
  /\ zone' \in {zone, Written(target[p])}
  /\ fails' = fails + 1 /\ dirty' = TRUE
  /\ Return(p)
  /\ UNCHANGED lastApplied
-----------------------------------------------------------------------------
(* A cron event, an Epoch event or AdjustBrightness reaches the ZoneKeeper *)
(* without the reconciler.                                                 *)
ExternalSet ==
  /\ MayDisturb
  /\ \E a \in Axis, v \in Value : zone[a] # v /\ zone' = [zone EXCEPT ![a] = v]
  /\ externals' = externals + 1
  /\ UNCHANGED <<clock, stack, timer, lastApplied, holder, local,
                 pushes, removes, fails, hist>>

Advance ==
  /\ clock < MaxClock
  /\ clock' = clock + 1
  /\ UNCHANGED <<core, local, used, hist>>

(* What a goroutine does next once its call is under way.                  *)
Continue(p) ==
  \/ PushEntry(p) \/ ArmTimer(p) \/ RemoveByID(p) \/ CallReconcile(p)
  \/ Lock(p) \/ ComposeAxis(p) \/ Suppress(p) \/ ApplyValues(p)

Next ==
  \/ \E p \in Proc :
       \/ CallPush(p) \/ CallRemove(p) \/ PeriodicTick(p) \/ TimerFires(p)
       \/ Continue(p) \/ ComputeFails(p) \/ ApplyFails(p)
  \/ ExternalSet
  \/ Advance

Spec == Init /\ [][Next]_vars

(* A goroutine inside a call runs on, the mutex is not refused forever,    *)
(* due timers fire, time passes and the evaluator keeps ticking.  Pushes,  *)
(* removals, errors and external writes need never happen.                 *)
FairSpec ==
  /\ Spec
  /\ \A p \in Proc : WF_vars(Continue(p)) /\ SF_vars(Lock(p))
  /\ SF_vars(\E p \in Proc : TimerFires(p)) /\ SF_vars(\E p \in Proc : PeriodicTick(p))
  /\ WF_vars(Advance)
-----------------------------------------------------------------------------
(* Properties.                                                             *)

(* An id occurs at most once in a stack, so that push, removeByID and the  *)
(* TTL timer of an id all speak of the same entry.                         *)
UniqueIds ==
  \A a \in Axis : \A e, f \in stack[a] : e.id = f.id => e = f

(* PushActivation and RemoveActivation end with a reconcile that sees      *)
(* their change, whatever other reconciles (with older now) it races with: *)
(* when no goroutine is inside the reconciler, the last reconcile did not  *)
(* fail and no entry is past its deadline, the target last written is the  *)
(* one the stacks compose to (or nothing is claimed, which writes nothing).*)
(* The zone shows it, unless a call failed after the ZoneKeeper had taken  *)
(* its values or somebody else wrote to the zone: nothing repairs that,    *)
(* since a target equal to the last one written is not sent again.         *)
Settled ==
  (/\ \A p \in Proc : pc[p] = "idle"
   /\ ~dirty
   /\ \A a \in Axis : \A e \in stack[a] : ~Expired(e, clock))
  => /\ Target(clock) \in {NoneAt, lastApplied}
     /\ fails + externals = 0 => \A a \in Axis : Target(clock)[a] \in {None, zone[a]}

(* An override that one reconcile saw expired is not composed again by a   *)
(* reconcile that waited for the mutex with an older now, until the same   *)
(* source pushes again.                                                    *)
NoResurrection ==
  \A p \in Proc : pc[p] \in {"lock", "compose"} =>
    \A a \in Axis : \A e \in Live(stack[a], now[p]) : <<a, e.id>> \notin popped

FixedTtl ==
  \A r, q \in Requests : r.axis = q.axis /\ r.id = q.id => r.ttl = q.ttl

(* If a source always pushes with the same TTL, every entry that can       *)
(* expire has a wake-up still to come after its deadline: its timer is     *)
(* armed for then, or the goroutine that refreshed it is about to arm it,  *)
(* or a reconcile whose now is past the deadline is waiting for the mutex. *)
TimerCovers ==
  FixedTtl =>
    \A a \in Axis : \A e \in stack[a] : e.ttl # 0 /\ e.pushedAt # Unset =>
      \/ timer[<<a, e.id>>] >= e.pushedAt + e.ttl
      \/ \E p \in Proc : pc[p] = "arm" /\ req[p].axis = a /\ req[p].id = e.id
      \/ \E p \in Proc : pc[p] = "lock" /\ now[p] > e.pushedAt + e.ttl

(* The inductive invariant behind these.                                   *)

Pending == \E p \in Proc : pc[p] \in {"arm", "remove", "call", "lock"}

Tops == [a \in Axis |-> TopVal(stack[a])]

(* The zone's mutex is held by exactly the goroutine that is composing,    *)
(* and a goroutine on its way through a push or removal has an Activation. *)
Control ==
  /\ \A p \in Proc : pc[p] = "compose" <=> holder = p
  /\ \A p \in Proc : pc[p] \in {"push", "arm", "remove"} => req[p] \in Requests

(* A change to a stack that no goroutine still has to act on is in the     *)
(* target being composed, or in the target last written.                   *)
Fresh ==
  ~Pending =>
    /\ holder # None => \A a \in Axis :
         /\ \A e \in stack[a] : ~Expired(e, now[holder])
         /\ a \notin left[holder] => target[holder][a] = TopVal(stack[a])
    /\ holder = None /\ ~dirty => Tops \in {NoneAt, lastApplied}

(* The zone shows what was last written to it, barring half-failed calls   *)
(* and writes by others.                                                   *)
Shown == fails + externals = 0 => \A a \in Axis : lastApplied[a] \in {None, zone[a]}

(* What was seen expired is out of the stack.                              *)
PoppedGone == \A a \in Axis : \A e \in stack[a] : <<a, e.id>> \notin popped

(* PushedAt is never in the future, and a fixed TTL is the entry's TTL.    *)
Stamps ==
  /\ \A p \in Proc : stamp[p] <= clock
  /\ \A a \in Axis : \A e \in stack[a] : e.pushedAt <= clock
  /\ FixedTtl => \A a \in Axis : \A e \in stack[a] : \A r \in Requests :
       r.axis = a /\ r.id = e.id => e.ttl = r.ttl

IInv == /\ TypeOK /\ UniqueIds /\ Control /\ Fresh /\ Shown
        /\ PoppedGone /\ Stamps /\ TimerCovers

(* Once pushes and removals cease, the reconciler comes to rest with the   *)
(* composed target written and the expired overrides gone, failed          *)
(* Computers and failed RPCs notwithstanding.                              *)
Converges ==
  <>[](/\ Target(clock) \in {NoneAt, lastApplied}
       /\ \A a \in Axis : \A e \in stack[a] : ~Expired(e, clock))
=============================================================================

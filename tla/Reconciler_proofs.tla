-------------------------- MODULE Reconciler_proofs -------------------------
(***************************************************************************)
(* Proofs about Reconciler for every set of goroutines, axes, sources and  *)
(* requests.  IInv is inductive; each of its conjuncts has a lemma of its  *)
(* own below, with one step per action.                                    *)
(***************************************************************************)
EXTENDS Reconciler, TLAPS

(* The initial state: empty stacks, no goroutine in the reconciler.        *)
LEMMA InitIInv == Init => IInv
<1> SUFFICES ASSUME Init PROVE IInv
  OBVIOUS
<1> USE ConstantsAssumption
<1>1. TypeOK
  BY DEF Init, TypeOK, Off, Unset, Field, NoneAt
<1>2. UniqueIds /\ Control /\ PoppedGone
  BY DEF Init, UniqueIds, Control, PoppedGone
<1>3. Fresh
  <2>1. Tops = NoneAt
    BY DEF Init, Tops, TopVal, Top, NoneAt
  <2>2. QED
    BY <2>1 DEF Init, Fresh
<1>4. Stamps /\ TimerCovers
  BY DEF Init, Stamps, TimerCovers, Unset
<1>5. Shown
  BY DEF Init, Shown, NoneAt
<1>6. QED
  BY <1>1, <1>2, <1>3, <1>4, <1>5 DEF IInv

(* What push makes of an entry or a request is an entry.                   *)
LEMMA EntryTypes ==
  ASSUME NEW r \in Requests, NEW at \in Nat \cup {Unset}, NEW n \in Nat
  PROVE  /\ NewEntry(r, at, n) \in Entry
         /\ \A e \in Entry : Merged(e, r, at) \in Entry /\ Merged(e, r, at).id = e.id
         /\ \A S \in SUBSET Entry : Push(S, r, at, n) \in SUBSET Entry
<1>1. r \in Request
  BY ConstantsAssumption
<1>2. NewEntry(r, at, n) \in Entry
  BY <1>1 DEF NewEntry, Entry, Request
<1>3. ASSUME NEW e \in Entry
      PROVE  Merged(e, r, at) \in Entry /\ Merged(e, r, at).id = e.id
  BY <1>1, <1>3 DEF Merged, Entry, Request
<1>4. ASSUME NEW S \in SUBSET Entry PROVE Push(S, r, at, n) \in SUBSET Entry
  BY <1>2, <1>3 DEF Push
<1>5. QED
  BY <1>2, <1>3, <1>4

(* The value a stack composes to is a value of the axis's field.           *)
LEMMA TopValType ==
  ASSUME NEW S \in SUBSET Entry PROVE TopVal(S) \in Field
BY DEF TopVal, Top, Entry, Field

(* Every variable keeps its type; this needs Control for the Activation of *)
(* a goroutine inside a push.                                              *)
LEMMA TypeStep == TypeOK /\ Control /\ [Next]_vars => TypeOK'
<1> SUFFICES ASSUME TypeOK, Control, [Next]_vars PROVE TypeOK'
  OBVIOUS
<1> USE ConstantsAssumption DEF TypeOK, core, local, used, hist
<1>1. ASSUME NEW p \in Proc, CallPush(p) PROVE TypeOK'
  BY <1>1 DEF CallPush, Unset
<1>2. ASSUME NEW p \in Proc, PushEntry(p) PROVE TypeOK'
  <2>1. req[p] \in Requests /\ req[p] \in Request
    BY <1>2 DEF PushEntry, Control
  <2>2. Push(stack[req[p].axis], req[p], stamp[p], pushes) \in SUBSET Entry
    BY <2>1, EntryTypes DEF Request
  <2>3. stack' \in [Axis -> SUBSET Entry]
    BY <1>2, <2>1, <2>2 DEF PushEntry
  <2>4. QED
    BY <1>2, <2>3 DEF PushEntry, Unset
<1>3. ASSUME NEW p \in Proc, ArmTimer(p) PROVE TypeOK'
  <2>1. req[p] \in Request
    BY <1>3 DEF ArmTimer, Control
  <2>2. clock + req[p].ttl \in Nat
    BY <2>1 DEF Request
  <2>3. QED
    BY <1>3, <2>2 DEF ArmTimer
<1>4. ASSUME NEW p \in Proc, CallRemove(p) PROVE TypeOK'
  BY <1>4 DEF CallRemove
<1>5. ASSUME NEW p \in Proc, RemoveByID(p) PROVE TypeOK'
  <2>1. PICK a \in left[p] :
          /\ stack' = [stack EXCEPT ![a] = {e \in @ : e.id # req[p].id}]
          /\ left' = [left EXCEPT ![p] = @ \ {a}]
          /\ pc' = [pc EXCEPT ![p] = IF left[p] = {a} THEN "call" ELSE @]
    BY <1>5 DEF RemoveByID
  <2>2. stack' \in [Axis -> SUBSET Entry]
    BY <2>1
  <2>3. left' \in [Proc -> SUBSET Axis]
    BY <2>1
  <2>4. QED
    BY <1>5, <2>1, <2>2, <2>3 DEF RemoveByID
<1>6. ASSUME NEW p \in Proc, Enter(p), timer' \in [Axis \X Source -> Nat \cup {Off}]
      PROVE TypeOK'
  BY <1>6 DEF Enter
<1>7. ASSUME NEW p \in Proc, TimerFires(p) PROVE TypeOK'
  BY <1>6, <1>7 DEF TimerFires, Off
<1>8. ASSUME NEW p \in Proc, Lock(p) PROVE TypeOK'
  <2>1. stack' \in [Axis -> SUBSET Entry]
    BY <1>8 DEF Lock, Live
  <2>2. popped' \subseteq Axis \X Source
    BY <1>8 DEF Lock
  <2>3. target' \in [Proc -> [Axis -> Field]]
    BY <1>8 DEF Lock, NoneAt, Field
  <2>4. QED
    BY <1>8, <2>1, <2>2, <2>3 DEF Lock
<1>9. ASSUME NEW p \in Proc, ComposeAxis(p) PROVE TypeOK'
  <2>1. PICK a \in left[p] :
          /\ target' = [target EXCEPT ![p][a] = TopVal(Live(stack[a], now[p]))]
          /\ left' = [left EXCEPT ![p] = @ \ {a}]
    BY <1>9 DEF ComposeAxis
  <2>2. Live(stack[a], now[p]) \in SUBSET Entry
    BY DEF Live
  <2>3. TopVal(Live(stack[a], now[p])) \in Field
    BY <2>2, TopValType
  <2>4. QED
    BY <1>9, <2>1, <2>3 DEF ComposeAxis
<1>10. ASSUME NEW p \in Proc, Return(p),
              lastApplied' \in [Axis -> Field], zone' \in [Axis -> Field],
              fails' \in Nat, dirty' \in BOOLEAN
       PROVE  TypeOK'
  <2>1. NoneAt \in [Axis -> Field]
    BY DEF NoneAt, Field
  <2>2. QED
    BY <1>10, <2>1 DEF Return
<1>11. ASSUME NEW p \in Proc PROVE Written(target[p]) \in [Axis -> Field]
  BY DEF Written
<1>12. ASSUME ExternalSet PROVE TypeOK'
  BY <1>12 DEF ExternalSet, Field
<1>13. ASSUME Advance PROVE TypeOK'
  BY <1>13 DEF Advance
<1>14. CASE UNCHANGED vars
  BY <1>14 DEF vars
<1>15. ASSUME NEW p \in Proc, CallReconcile(p) PROVE TypeOK'
  BY <1>6, <1>15 DEF CallReconcile
<1>16. ASSUME NEW p \in Proc, PeriodicTick(p) PROVE TypeOK'
  BY <1>6, <1>16 DEF PeriodicTick
<1>17. ASSUME NEW p \in Proc, ComputeFails(p) PROVE TypeOK'
  <2>1. fails' \in Nat
    BY <1>17 DEF ComputeFails
  <2>2. QED
    BY <1>10, <1>17, <2>1, Zenon DEF ComputeFails
<1>18. ASSUME NEW p \in Proc, Suppress(p) PROVE TypeOK'
  BY <1>10, <1>18 DEF Suppress
<1>19. ASSUME NEW p \in Proc, ApplyValues(p) PROVE TypeOK'
  BY <1>10, <1>11, <1>19 DEF ApplyValues
<1>20. ASSUME NEW p \in Proc, ApplyFails(p) PROVE TypeOK'
  <2>1. fails' \in Nat
    BY <1>20 DEF ApplyFails
  <2>2. QED
    BY <1>10, <1>11, <1>20, <2>1, Zenon DEF ApplyFails
<1>21. QED
  BY <1>1, <1>2, <1>3, <1>4, <1>5, <1>7, <1>8, <1>9, <1>12, <1>13, <1>14,
     <1>15, <1>16, <1>17, <1>18, <1>19, <1>20 DEF Next, Continue

(* Only a push, a removal and the start of a reconcile touch the stacks    *)
(* and the record of what was seen expired.                                *)
LEMMA StackChange ==
  ASSUME [Next]_vars
  PROVE  \/ UNCHANGED <<stack, popped>>
         \/ \E p \in Proc : PushEntry(p) \/ RemoveByID(p) \/ Lock(p)
BY ZenonT(60) DEF Next, Continue, vars, core, local, used, hist, CallPush, CallRemove,
       ArmTimer, CallReconcile, PeriodicTick, TimerFires, Enter, ComposeAxis,
       ComputeFails, Suppress, ApplyValues, ApplyFails, Return, ExternalSet, Advance

(* After a push, an entry either carries the pushed id, time and TTL, or   *)
(* it was there before under another id; and ids stay unique.              *)
LEMMA PushEffect ==
  ASSUME NEW S \in SUBSET Entry, NEW r \in Requests,
         NEW at \in Nat \cup {Unset}, NEW n \in Nat
  PROVE  /\ \A f \in Push(S, r, at, n) :
              \/ f.id = r.id /\ f.pushedAt = at /\ f.ttl = r.ttl
              \/ f \in S /\ f.id # r.id
         /\ (\A e, f \in S : e.id = f.id => e = f)
            => \A e, f \in Push(S, r, at, n) : e.id = f.id => e = f
<1>1. r \in Request
  BY ConstantsAssumption
<1>2. \A e \in S : /\ Merged(e, r, at).id = e.id
                   /\ Merged(e, r, at).pushedAt = at
                   /\ Merged(e, r, at).ttl = r.ttl
  BY <1>1 DEF Merged, Entry, Request
<1>3. /\ NewEntry(r, at, n).id = r.id
      /\ NewEntry(r, at, n).pushedAt = at
      /\ NewEntry(r, at, n).ttl = r.ttl
  BY DEF NewEntry
<1>4. CASE \E e \in S : e.id = r.id
  <2>1. Push(S, r, at, n) = {IF e.id = r.id THEN Merged(e, r, at) ELSE e : e \in S}
    BY <1>4 DEF Push
  <2>2. QED
    BY <1>2, <2>1
<1>5. CASE ~ \E e \in S : e.id = r.id
  <2>1. Push(S, r, at, n) = S \cup {NewEntry(r, at, n)}
    BY <1>5 DEF Push
  <2>2. QED
    BY <1>3, <1>5, <2>1
<1>6. QED
  BY <1>4, <1>5

(* The stacks after each of the three actions that change them.            *)
LEMMA StackAfter ==
  ASSUME TypeOK, Control, NEW p \in Proc
  PROVE  /\ PushEntry(p) =>
              /\ req[p] \in Requests /\ req[p] \in Request /\ req[p].axis \in Axis
              /\ \A a \in Axis : stack'[a] =
                   IF a = req[p].axis THEN Push(stack[a], req[p], stamp[p], pushes)
                   ELSE stack[a]
         /\ RemoveByID(p) => \A a \in Axis : stack'[a] \subseteq stack[a]
         /\ Lock(p) => \A a \in Axis :
              stack'[a] = {e \in stack[a] : ~Expired(e, now[p])}
<1> USE DEF TypeOK
<1>1. ASSUME PushEntry(p) PROVE req[p] \in Requests /\ req[p] \in Request /\ req[p].axis \in Axis
  BY <1>1, ConstantsAssumption DEF PushEntry, Control, Request
<1>2. ASSUME PushEntry(p), NEW a \in Axis
      PROVE  stack'[a] = IF a = req[p].axis
                         THEN Push(stack[a], req[p], stamp[p], pushes) ELSE stack[a]
  BY <1>1, <1>2 DEF PushEntry
<1>3. ASSUME RemoveByID(p), NEW a \in Axis PROVE stack'[a] \subseteq stack[a]
  BY <1>3 DEF RemoveByID
<1>4. ASSUME Lock(p), NEW a \in Axis
      PROVE  stack'[a] = {e \in stack[a] : ~Expired(e, now[p])}
  BY <1>4 DEF Lock, Live
<1>5. QED
  BY <1>1, <1>2, <1>3, <1>4

(* An entry after PushEntry: the one pushed, or an old one of another key. *)
LEMMA EntryAfterPush ==
  ASSUME TypeOK, Control, NEW p \in Proc, PushEntry(p),
         NEW a \in Axis, NEW e \in stack'[a]
  PROVE  \/ /\ a = req[p].axis /\ e.id = req[p].id
            /\ e.pushedAt = stamp[p] /\ e.ttl = req[p].ttl
         \/ e \in stack[a] /\ ~(a = req[p].axis /\ e.id = req[p].id)
<1>1. stack[a] \in SUBSET Entry /\ stamp[p] \in Nat \cup {Unset} /\ pushes \in Nat
  BY DEF TypeOK
<1>2. req[p] \in Requests
  BY StackAfter
<1>3. CASE a = req[p].axis
  <2>1. stack'[a] = Push(stack[a], req[p], stamp[p], pushes)
    BY <1>3, StackAfter
  <2>2. QED
    BY <1>1, <1>2, <1>3, <2>1, PushEffect
<1>4. CASE a # req[p].axis
  BY <1>4, StackAfter
<1>5. QED
  BY <1>3, <1>4

(* A source has at most one entry on an axis.                              *)
LEMMA UniqueStep ==
  TypeOK /\ Control /\ UniqueIds /\ [Next]_vars => UniqueIds'
<1> SUFFICES ASSUME TypeOK, Control, UniqueIds, [Next]_vars PROVE UniqueIds'
  OBVIOUS
<1>1. CASE UNCHANGED <<stack, popped>>
  BY <1>1 DEF UniqueIds
<1>2. ASSUME NEW p \in Proc, PushEntry(p) PROVE UniqueIds'
  <2> SUFFICES ASSUME NEW a \in Axis, NEW e \in stack'[a], NEW f \in stack'[a], e.id = f.id
               PROVE  e = f
    BY DEF UniqueIds
  <2>1. stack[a] \in SUBSET Entry /\ stamp[p] \in Nat \cup {Unset} /\ pushes \in Nat
    BY DEF TypeOK
  <2>2. req[p] \in Requests
    BY <1>2, StackAfter
  <2>3. stack'[a] = stack[a] \/ stack'[a] = Push(stack[a], req[p], stamp[p], pushes)
    BY <1>2, StackAfter
  <2>4. \A g, h \in stack[a] : g.id = h.id => g = h
    BY DEF UniqueIds
  <2>5. \A g, h \in Push(stack[a], req[p], stamp[p], pushes) : g.id = h.id => g = h
    BY <2>1, <2>2, <2>4, PushEffect
  <2>6. QED
    BY <2>3, <2>4, <2>5
<1>3. ASSUME NEW p \in Proc, RemoveByID(p) \/ Lock(p) PROVE UniqueIds'
  <2>1. \A a \in Axis : stack'[a] \subseteq stack[a]
    BY <1>3, StackAfter
  <2>2. QED
    BY <2>1 DEF UniqueIds
<1>4. QED
  BY <1>1, <1>2, <1>3, StackChange

(* What a reconcile saw expired stays out of the stack until pushed again. *)
LEMMA PoppedStep ==
  TypeOK /\ Control /\ UniqueIds /\ PoppedGone /\ [Next]_vars => PoppedGone'
<1> SUFFICES ASSUME TypeOK, Control, UniqueIds, PoppedGone, [Next]_vars
             PROVE  PoppedGone'
  OBVIOUS
<1>1. CASE UNCHANGED <<stack, popped>>
  BY <1>1 DEF PoppedGone
<1>2. ASSUME NEW p \in Proc, PushEntry(p) PROVE PoppedGone'
  <2> SUFFICES ASSUME NEW a \in Axis, NEW e \in stack'[a] PROVE <<a, e.id>> \notin popped'
    BY DEF PoppedGone
  <2>1. popped' = popped \ {<<req[p].axis, req[p].id>>}
    BY <1>2 DEF PushEntry
  <2>2. e \in stack[a] \/ (a = req[p].axis /\ e.id = req[p].id)
    BY <1>2, EntryAfterPush
  <2>3. QED
    BY <2>1, <2>2 DEF PoppedGone
<1>3. ASSUME NEW p \in Proc, RemoveByID(p) PROVE PoppedGone'
  BY <1>3, StackAfter DEF PoppedGone, RemoveByID, hist
<1>4. ASSUME NEW p \in Proc, Lock(p) PROVE PoppedGone'
  <2> SUFFICES ASSUME NEW a \in Axis, NEW e \in stack'[a] PROVE <<a, e.id>> \notin popped'
    BY DEF PoppedGone
  <2>1. e \in stack[a] /\ ~Expired(e, now[p])
    <3>1. stack'[a] = {g \in stack[a] : ~Expired(g, now[p])}
      BY <1>4, StackAfter
    <3>2. QED
      BY <3>1, Zenon
  <2>2. ~ \E f \in stack[a] : f.id = e.id /\ Expired(f, now[p])
    BY <2>1 DEF UniqueIds
  <2>3. QED
    BY <1>4, <2>1, <2>2 DEF Lock, PoppedGone
<1>5. QED
  BY <1>1, <1>2, <1>3, <1>4, StackChange

(* Exactly the composing goroutine holds the zone's mutex, and a goroutine *)
(* inside a push or removal has its Activation.                            *)
LEMMA ControlStep == TypeOK /\ Control /\ [Next]_vars => Control'
<1> SUFFICES ASSUME TypeOK, Control, [Next]_vars PROVE Control'
  OBVIOUS
<1> USE ConstantsAssumption DEF TypeOK, Control, core, local, used, hist
<1>1. ASSUME NEW p \in Proc, CallPush(p) PROVE Control'
  BY <1>1 DEF CallPush
<1>2. ASSUME NEW p \in Proc, PushEntry(p) PROVE Control'
  BY <1>2 DEF PushEntry
<1>3. ASSUME NEW p \in Proc, ArmTimer(p) PROVE Control'
  BY <1>3 DEF ArmTimer
<1>4. ASSUME NEW p \in Proc, CallRemove(p) PROVE Control'
  BY <1>4 DEF CallRemove
<1>5. ASSUME NEW p \in Proc, RemoveByID(p) PROVE Control'
  BY <1>5 DEF RemoveByID
<1>6. ASSUME NEW p \in Proc, pc[p] \in {"call", "idle"}, Enter(p) PROVE Control'
  BY <1>6 DEF Enter
<1>7. ASSUME NEW p \in Proc, Lock(p) PROVE Control'
  BY <1>7 DEF Lock
<1>8. ASSUME NEW p \in Proc, ComposeAxis(p) PROVE Control'
  BY <1>8 DEF ComposeAxis
<1>9. ASSUME NEW p \in Proc, pc[p] = "compose", Return(p) PROVE Control'
  BY <1>9 DEF Return
<1>10. CASE ExternalSet \/ Advance \/ UNCHANGED vars
  BY <1>10 DEF ExternalSet, Advance, vars
<1>11. ASSUME NEW p \in Proc,
              CallReconcile(p) \/ PeriodicTick(p) \/ TimerFires(p)
       PROVE  Control'
  BY <1>6, <1>11 DEF CallReconcile, PeriodicTick, TimerFires
<1>12. ASSUME NEW p \in Proc,
              ComputeFails(p) \/ Suppress(p) \/ ApplyValues(p) \/ ApplyFails(p)
       PROVE  Control'
  BY <1>9, <1>12 DEF ComputeFails, Suppress, ApplyValues, ApplyFails, Composed
<1>13. QED
  BY <1>1, <1>2, <1>3, <1>4, <1>5, <1>7, <1>8, <1>10, <1>11, <1>12
     DEF Next, Continue

(* PushedAt lies in the past, and TTLs that are fixed per source are so in *)
(* the stacks.                                                             *)
LEMMA StampsStep == TypeOK /\ Control /\ Stamps /\ [Next]_vars => Stamps'
<1> SUFFICES ASSUME TypeOK, Control, Stamps, [Next]_vars PROVE Stamps'
  OBVIOUS
<1> USE DEF core, local, used, hist
<1>1. clock' \in Nat /\ clock' >= clock
  <2>1. UNCHANGED clock \/ Advance
    BY ZenonT(60) DEF Next, Continue, vars, CallPush, PushEntry, ArmTimer, CallRemove,
     RemoveByID, CallReconcile, PeriodicTick, TimerFires, Enter, Lock, ComposeAxis,
     ComputeFails, Suppress, ApplyValues, ApplyFails, Return, ExternalSet
  <2>2. QED
    BY <2>1 DEF Advance, TypeOK
<1>2. \A p \in Proc : stamp'[p] <= clock'
  <2>1. UNCHANGED stamp \/ \E q \in Proc : CallPush(q) \/ PushEntry(q)
    BY DEF Next, Continue, vars, ArmTimer, CallRemove,
     RemoveByID, CallReconcile, PeriodicTick, TimerFires, Enter, Lock, ComposeAxis,
     ComputeFails, Suppress, ApplyValues, ApplyFails, Return, ExternalSet, Advance
  <2>2. CASE UNCHANGED stamp
    <3>1. \A p \in Proc : stamp[p] \in Int /\ stamp[p] <= clock
      <4>1. stamp \in [Proc -> Nat \cup {Unset}]
        BY Zenon DEF TypeOK
      <4>2. \A p \in Proc : stamp[p] <= clock
        BY Zenon DEF Stamps
      <4> QED BY <4>1, <4>2 DEF Unset
    <3>2. clock \in Int /\ clock' \in Int /\ clock' >= clock
      BY <1>1 DEF TypeOK
    <3>3. QED
      BY <2>2, <3>1, <3>2
  <2>3. ASSUME NEW q \in Proc, CallPush(q) PROVE \A p \in Proc : stamp'[p] <= clock'
    <3>1. clock' = clock /\ \A p \in Proc : stamp'[p] \in {stamp[p], clock, Unset}
      BY <2>3 DEF CallPush, TypeOK
    <3>2. clock \in Nat /\ \A p \in Proc : stamp[p] <= clock
      BY DEF Stamps, TypeOK
    <3>3. clock <= clock /\ Unset <= clock
      BY <3>2 DEF Unset
    <3>4. QED
      BY <3>1, <3>2, <3>3
  <2>4. ASSUME NEW q \in Proc, PushEntry(q) PROVE \A p \in Proc : stamp'[p] <= clock'
    <3>1. clock' = clock /\ \A p \in Proc : stamp'[p] \in {stamp[p], Unset}
      BY <2>4 DEF PushEntry, TypeOK
    <3>2. clock \in Nat /\ \A p \in Proc : stamp[p] <= clock
      BY DEF Stamps, TypeOK
    <3>3. clock <= clock /\ Unset <= clock
      BY <3>2 DEF Unset
    <3>4. QED
      BY <3>1, <3>2, <3>3
  <2>5. QED
    BY <2>1, <2>2, <2>3, <2>4
<1>3. ASSUME NEW a \in Axis, NEW e \in stack'[a]
      PROVE  /\ e.pushedAt <= clock'
             /\ FixedTtl => \A r \in Requests : r.axis = a /\ r.id = e.id => e.ttl = r.ttl
  <2>1. CASE e \in stack[a]
    <3>1. e.pushedAt <= clock /\ e.pushedAt \in Int /\ clock \in Int
      BY <2>1 DEF Stamps, TypeOK, Entry, Unset
    <3>2. QED
      BY <1>1, <2>1, <3>1 DEF Stamps
  <2>2. CASE e \notin stack[a]
    <3>1. PICK p \in Proc : PushEntry(p)
      BY <2>2, StackChange, StackAfter
    <3>2. a = req[p].axis /\ e.id = req[p].id /\ e.pushedAt = stamp[p] /\ e.ttl = req[p].ttl
      BY <2>2, <3>1, EntryAfterPush
    <3>3. req[p] \in Requests
      BY <3>1, StackAfter
    <3>4. stamp[p] <= clock /\ stamp[p] \in Int /\ clock \in Int
      BY DEF Stamps, TypeOK, Unset
    <3>5. QED
      BY <1>1, <3>2, <3>3, <3>4 DEF FixedTtl
  <2>3. QED
    BY <2>1, <2>2
<1>4. QED
  BY <1>2, <1>3 DEF Stamps, FixedTtl

(* A change that no goroutine still has to act on has been composed.       *)
LEMMA FreshStep == TypeOK /\ Control /\ Fresh /\ [Next]_vars => Fresh'
<1> SUFFICES ASSUME TypeOK, Control, Fresh, [Next]_vars PROVE Fresh'
  OBVIOUS
<1> USE DEF core, local, used, hist
(* Steps after which somebody is on the way to the mutex.                  *)
<1>1. ASSUME NEW p \in Proc,
             pc'[p] \in {"arm", "remove", "call", "lock"}
      PROVE  Fresh'
  BY <1>1 DEF Fresh, Pending
(* Steps that leave what Fresh speaks of alone.                            *)
<1>2. ASSUME UNCHANGED <<stack, lastApplied, holder, now, left, target, dirty>>, Pending' = Pending
      PROVE  Fresh'
  BY <1>2 DEF Fresh, Tops
<1>3. ASSUME NEW p \in Proc, CallPush(p) PROVE Fresh'
  BY <1>2, <1>3 DEF CallPush, Pending, TypeOK
<1>4. ASSUME NEW p \in Proc, PushEntry(p) PROVE Fresh'
  BY <1>1, <1>4 DEF PushEntry, TypeOK
<1>5. ASSUME NEW p \in Proc, ArmTimer(p) PROVE Fresh'
  BY <1>1, <1>5 DEF ArmTimer, TypeOK
<1>6. ASSUME NEW p \in Proc, CallRemove(p) PROVE Fresh'
  BY <1>1, <1>6 DEF CallRemove, TypeOK
<1>7. ASSUME NEW p \in Proc, RemoveByID(p) PROVE Fresh'
  BY <1>1, <1>7 DEF RemoveByID, TypeOK
<1>8. ASSUME NEW p \in Proc, CallReconcile(p) \/ PeriodicTick(p) \/ TimerFires(p)
      PROVE  Fresh'
  BY <1>1, <1>8 DEF CallReconcile, PeriodicTick, TimerFires, Enter, TypeOK
<1>9. ASSUME NEW p \in Proc, Lock(p) PROVE Fresh'
  <2>0. p # None
    BY ConstantsAssumption
  <2>1. holder' = p /\ now' = now /\ left'[p] = Axis
    BY <1>9 DEF Lock, TypeOK
  <2>2. \A a \in Axis : \A e \in stack'[a] : ~Expired(e, now'[p])
    <3>1. \A a \in Axis : stack'[a] = {e \in stack[a] : ~Expired(e, now[p])}
      BY <1>9, StackAfter
    <3>2. QED
      BY <2>1, <3>1
  <2>3. QED
    BY <2>0, <2>1, <2>2 DEF Fresh
<1>10. ASSUME NEW p \in Proc, ComposeAxis(p) PROVE Fresh'
  <2>1. holder = p /\ p # None
    BY <1>10, ConstantsAssumption DEF ComposeAxis, Control
  <2>2. UNCHANGED <<stack, holder, now, pc>>
    BY <1>10 DEF ComposeAxis
  <2>3. PICK a \in left[p] :
          /\ target' = [target EXCEPT ![p][a] = TopVal(Live(stack[a], now[p]))]
          /\ left' = [left EXCEPT ![p] = @ \ {a}]
    BY <1>10 DEF ComposeAxis
  <2> SUFFICES ASSUME ~Pending
               PROVE  \A b \in Axis :
                        /\ \A e \in stack[b] : ~Expired(e, now[p])
                        /\ b \notin left'[p] => target'[p][b] = TopVal(stack[b])
    BY <2>1, <2>2 DEF Fresh, Pending
  <2>4. \A b \in Axis :
          /\ \A e \in stack[b] : ~Expired(e, now[p])
          /\ b \notin left[p] => target[p][b] = TopVal(stack[b])
    BY <2>1 DEF Fresh
  <2>5. a \in Axis
    BY DEF TypeOK
  <2>6. Live(stack[a], now[p]) = stack[a]
    <3>1. \A e \in stack[a] : ~Expired(e, now[p])
      BY <2>4, <2>5
    <3>2. QED
      BY <3>1, Zenon DEF Live
  <2>7. left'[p] = left[p] \ {a}
    BY <2>3 DEF TypeOK
  <2>8. \A b \in Axis : target'[p][b] = IF b = a THEN TopVal(stack[a]) ELSE target[p][b]
    BY <2>3, <2>5, <2>6 DEF TypeOK
  <2>9. QED
    BY <2>4, <2>7, <2>8
<1>11. ASSUME NEW p \in Proc, pc[p] = "compose", Return(p),
              ~dirty' => left[p] = {} /\ target[p] \in {NoneAt, lastApplied'}
       PROVE  Fresh'
  <2>1. holder = p /\ holder' = None /\ p # None /\ stack' = stack
    BY <1>11, ConstantsAssumption DEF Return, Control
  <2>2. Pending' = Pending
    BY <1>11 DEF Return, Pending, TypeOK
  <2> SUFFICES ASSUME ~Pending, ~dirty' PROVE Tops' \in {NoneAt, lastApplied'}
    BY <2>1, <2>2 DEF Fresh
  <2>3. \A a \in Axis : target[p][a] = TopVal(stack[a])
    BY <1>11, <2>1 DEF Fresh
  <2>4. target[p] = Tops
    BY <2>3 DEF Tops, TypeOK
  <2>5. Tops' = Tops
    BY <2>1 DEF Tops, TopVal, Top, Beats
  <2>6. QED
    BY <1>11, <2>4, <2>5
<1>12. ASSUME NEW p \in Proc, ComputeFails(p) \/ ApplyFails(p) PROVE Fresh'
  BY <1>11, <1>12 DEF ComputeFails, ApplyFails, Composed
<1>13. ASSUME NEW p \in Proc, Suppress(p) PROVE Fresh'
  BY <1>11, <1>13 DEF Suppress, Composed
<1>14. ASSUME NEW p \in Proc, ApplyValues(p) PROVE Fresh'
  BY <1>11, <1>14 DEF ApplyValues, Composed
<1>15. CASE ExternalSet \/ Advance \/ UNCHANGED vars
  BY <1>2, <1>15 DEF ExternalSet, Advance, vars, Pending
<1>16. QED
  BY <1>3, <1>4, <1>5, <1>6, <1>7, <1>8, <1>9, <1>10, <1>12, <1>13, <1>14, <1>15
     DEF Next, Continue

(* Only ApplyValues writes the zone and records it; a failure or a write by *)
(* others is counted.                                                      *)
LEMMA ShownStep == TypeOK /\ Shown /\ [Next]_vars => Shown'
<1> SUFFICES ASSUME TypeOK, Shown, [Next]_vars PROVE Shown'
  OBVIOUS
<1>1. fails \in Nat /\ externals \in Nat
  BY DEF TypeOK
<1>2. ASSUME UNCHANGED <<lastApplied, zone, fails, externals>> PROVE Shown'
  BY <1>2 DEF Shown
<1>3. ASSUME fails' + externals' # 0 PROVE Shown'
  BY <1>3 DEF Shown
<1>4. ASSUME NEW p \in Proc, ComputeFails(p) \/ ApplyFails(p) PROVE Shown'
  <2>1. fails' = fails + 1 /\ externals' = externals
    BY <1>4 DEF ComputeFails, ApplyFails, Return
  <2>2. fails + 1 + externals # 0
    BY <1>1
  <2>3. QED
    BY <1>3, <2>1, <2>2
<1>5. ASSUME ExternalSet PROVE Shown'
  <2>1. externals' = externals + 1 /\ fails' = fails
    BY <1>5 DEF ExternalSet
  <2>2. fails + (externals + 1) # 0
    BY <1>1
  <2>3. QED
    BY <1>3, <2>1, <2>2
<1>6. ASSUME NEW p \in Proc, ApplyValues(p) PROVE Shown'
  <2>1. lastApplied' = target[p] /\ zone' = Written(target[p])
    BY <1>6 DEF ApplyValues
  <2>2. \A a \in Axis : zone'[a] = IF target[p][a] = None THEN zone[a] ELSE target[p][a]
    BY <2>1 DEF Written
  <2>3. QED
    BY <2>1, <2>2 DEF Shown
<1>7. ASSUME NEW p \in Proc,
             \/ CallPush(p) \/ CallRemove(p) \/ PeriodicTick(p) \/ TimerFires(p)
             \/ Continue(p) /\ ~ApplyValues(p)
      PROVE  UNCHANGED <<lastApplied, zone, fails, externals>>
  BY <1>7, ZenonT(60) DEF Continue, core, used, CallPush, CallRemove, PeriodicTick, TimerFires,
       PushEntry, ArmTimer, RemoveByID, CallReconcile, Lock, ComposeAxis, Suppress, Return, Enter
<1>8. ASSUME Advance \/ UNCHANGED vars
      PROVE  UNCHANGED <<lastApplied, zone, fails, externals>>
  BY <1>8 DEF Advance, vars, core, used
<1>9. QED
  BY <1>2, <1>4, <1>5, <1>6, <1>7, <1>8 DEF Next

(* Due times and the clock are integers; Off is -1.                        *)
LEMMA TimesAreIntegers ==
  TypeOK => clock \in Int /\ \A k \in Axis \X Source : timer[k] \in Int
BY DEF TypeOK, Off

LEMMA AtLeastThenAbove ==
  \A i, j, k \in Int : i >= j /\ k > i => k > j
OBVIOUS

(* If a source's TTL is fixed, every entry that can expire has a wake-up   *)
(* after its deadline still to come.                                       *)
LEMMA CoversStep ==
  TypeOK /\ Control /\ Stamps /\ TimerCovers /\ [Next]_vars => TimerCovers'
<1> SUFFICES ASSUME TypeOK, Control, Stamps, TimerCovers, [Next]_vars, FixedTtl,
                    NEW a \in Axis, NEW e \in stack'[a], e.ttl # 0, e.pushedAt # Unset
             PROVE  \/ timer'[<<a, e.id>>] >= e.pushedAt + e.ttl
                    \/ \E p \in Proc : pc'[p] = "arm" /\ req'[p].axis = a /\ req'[p].id = e.id
                    \/ \E p \in Proc : pc'[p] = "lock" /\ now'[p] > e.pushedAt + e.ttl
  BY DEF TimerCovers, FixedTtl
<1>0. clock \in Int /\ \A k \in Axis \X Source : timer[k] \in Int
  BY TimesAreIntegers
<1> DEFINE Armed(q) == pc[q] = "arm" /\ req[q].axis = a /\ req[q].id = e.id
           Late(q)  == pc[q] = "lock" /\ now[q] > e.pushedAt + e.ttl
           Goal     == \/ timer'[<<a, e.id>>] >= e.pushedAt + e.ttl
                       \/ \E q \in Proc : Armed(q)'
                       \/ \E q \in Proc : Late(q)'
<1> USE DEF core, local, used, hist
<1>1. CASE e \notin stack[a]
  <2>1. PICK p \in Proc : PushEntry(p)
    BY <1>1, StackChange, StackAfter
  <2>2. a = req[p].axis /\ e.id = req[p].id
    BY <1>1, <2>1, EntryAfterPush
  <2>3. Armed(p)'
    BY <2>1, <2>2 DEF PushEntry, TypeOK
  <2>4. QED
    BY <2>3
<1>2. CASE e \in stack[a]
  <2>1. e \in Entry /\ e.id \in Source /\ e.pushedAt + e.ttl \in Nat
    <3>1. e \in Entry
      BY <1>2 DEF TypeOK
    <3>2. QED
      BY <3>1, SMTT(30) DEF Entry, Unset
  <2>2. \/ timer[<<a, e.id>>] >= e.pushedAt + e.ttl
        \/ \E q \in Proc : Armed(q)
        \/ \E q \in Proc : Late(q)
    BY <1>2 DEF TimerCovers
  (* Steps that leave the timers, and every goroutine that was to arm one  *)
  (* or to take the mutex, where they were.                                *)
  <2>3. ASSUME NEW p \in Proc, timer' = timer, pc[p] \notin {"arm", "lock"},
               \A q \in Proc : q # p => /\ pc'[q] = pc[q] /\ req'[q] = req[q]
                                        /\ now'[q] = now[q]
        PROVE  Goal
    BY <2>2, <2>3
  <2>4. ASSUME NEW p \in Proc, CallPush(p) PROVE Goal
    BY <2>3, <2>4 DEF CallPush, TypeOK
  <2>5. ASSUME NEW p \in Proc, PushEntry(p) PROVE Goal
    BY <2>3, <2>5 DEF PushEntry, TypeOK
  <2>6. ASSUME NEW p \in Proc, ArmTimer(p) PROVE Goal
    <3>1. CASE Armed(p)
      <4>1. req[p] \in Requests /\ req[p].ttl = e.ttl /\ e.pushedAt <= clock
        BY <1>2, <2>6, <3>1 DEF ArmTimer, Control, Stamps
      <4>2. timer'[<<a, e.id>>] = clock + e.ttl
        BY <2>1, <2>6, <3>1, <4>1 DEF ArmTimer, TypeOK
      <4>3. QED
        <5>1. e.ttl \in Nat /\ e.pushedAt \in Int /\ clock \in Int
          BY <1>0, <2>1 DEF Entry, Unset
        <5>2. QED
          BY <4>1, <4>2, <5>1
    <3>2. CASE ~Armed(p)
      <4>1. timer'[<<a, e.id>>] = timer[<<a, e.id>>]
        BY <2>1, <2>6, <3>2 DEF ArmTimer, TypeOK
      <4>2. \A q \in Proc : q # p => pc'[q] = pc[q]
        BY <2>6 DEF ArmTimer, TypeOK
      <4>3. req' = req /\ now' = now /\ pc[p] = "arm"
        BY <2>6 DEF ArmTimer
      <4>4. QED
        BY <2>2, <3>2, <4>1, <4>2, <4>3
    <3>3. QED
      BY <3>1, <3>2
  <2>7. ASSUME NEW p \in Proc, CallRemove(p) PROVE Goal
    BY <2>3, <2>7 DEF CallRemove, TypeOK
  <2>8. ASSUME NEW p \in Proc, RemoveByID(p) PROVE Goal
    BY <2>3, <2>8 DEF RemoveByID, TypeOK
  <2>9. ASSUME NEW p \in Proc, CallReconcile(p) \/ PeriodicTick(p) PROVE Goal
    BY <2>3, <2>9 DEF CallReconcile, PeriodicTick, Enter, TypeOK
  <2>10. ASSUME NEW p \in Proc, TimerFires(p) PROVE Goal
    <3>1. PICK k \in Axis \X Source :
            clock > timer[k] /\ timer' = [timer EXCEPT ![k] = Off]
      BY <2>10 DEF TimerFires
    <3>2. /\ pc[p] = "idle" /\ pc'[p] = "lock" /\ now'[p] = clock
          /\ \A q \in Proc : q # p => /\ pc'[q] = pc[q] /\ req'[q] = req[q]
                                      /\ now'[q] = now[q]
      BY <2>10 DEF TimerFires, Enter, TypeOK
    <3>3. CASE k = <<a, e.id>> /\ timer[<<a, e.id>>] >= e.pushedAt + e.ttl
      <4>1. clock > e.pushedAt + e.ttl
        <5>1. timer[k] >= e.pushedAt + e.ttl /\ clock > timer[k]
          BY <3>1, <3>3
        <5>2. QED
          <6>1. timer[k] \in Int /\ clock \in Int /\ e.pushedAt + e.ttl \in Int
            <7>1. timer[k] \in Int /\ clock \in Int
              BY <1>0, Zenon
            <7>2. e.pushedAt + e.ttl \in Int
              BY <2>1
            <7>3. QED
              BY <7>1, <7>2
          <6>2. QED
            BY <5>1, <6>1, AtLeastThenAbove, Zenon
      <4>2. QED
        BY <3>2, <4>1
    <3>4. CASE k # <<a, e.id>> /\ timer[<<a, e.id>>] >= e.pushedAt + e.ttl
      <4>1. timer'[<<a, e.id>>] = timer[<<a, e.id>>]
        BY <2>1, <3>1, <3>4 DEF TypeOK
      <4>2. QED
        BY <3>4, <4>1
    <3>5. CASE \E q \in Proc : Armed(q) \/ Late(q)
      BY <3>2, <3>5
    <3>6. QED
      BY <2>2, <3>3, <3>4, <3>5
  <2>11. ASSUME NEW p \in Proc, Lock(p) PROVE Goal
    <3>1. ~Expired(e, now[p])
      <4>1. stack'[a] = {g \in stack[a] : ~Expired(g, now[p])}
        BY <2>11, StackAfter
      <4>2. e \in stack'[a]
        OBVIOUS
      <4>3. QED
        BY <4>1, <4>2, Zenon
    <3>2. ~Late(p)
      BY <3>1 DEF Expired
    <3>3. /\ timer' = timer /\ req' = req /\ now' = now /\ pc[p] = "lock"
          /\ \A q \in Proc : q # p => pc'[q] = pc[q]
      BY <2>11 DEF Lock, TypeOK
    <3>4. QED
      BY <2>2, <3>2, <3>3
  <2>12. ASSUME NEW p \in Proc, ComposeAxis(p) PROVE Goal
    BY <2>3, <2>12 DEF ComposeAxis, TypeOK
  <2>13. ASSUME NEW p \in Proc, pc[p] = "compose", Return(p) PROVE Goal
    BY <2>3, <2>13 DEF Return, TypeOK
  <2>14. ASSUME NEW p \in Proc,
                ComputeFails(p) \/ Suppress(p) \/ ApplyValues(p) \/ ApplyFails(p)
         PROVE  Goal
    BY <2>13, <2>14 DEF ComputeFails, Suppress, ApplyValues, ApplyFails, Composed
  <2>15. CASE ExternalSet \/ Advance \/ UNCHANGED vars
    BY <2>2, <2>15 DEF ExternalSet, Advance, vars
  <2>16. QED
    BY <2>4, <2>5, <2>6, <2>7, <2>8, <2>9, <2>10, <2>11, <2>12, <2>14, <2>15
       DEF Next, Continue
<1>3. QED
  BY <1>1, <1>2

(* IInv is inductive, so it holds in every reachable state.                *)
THEOREM Invariance == Spec => []IInv
<1>1. IInv /\ [Next]_vars => IInv'
  BY TypeStep, UniqueStep, ControlStep, FreshStep, ShownStep, PoppedStep, StampsStep,
     CoversStep DEF IInv
<1>2. QED
  BY InitIInv, <1>1, PTL DEF Spec

(* Quiescent consistency of the reconciler, for any number of goroutines,  *)
(* axes, sources and pushes: when no goroutine is inside it and its last   *)
(* reconcile did not fail, the target last written is the composed one,    *)
(* and the zone shows it as long as no call half failed and nobody else    *)
(* wrote to it.                                                            *)
THEOREM SettledHolds == Spec => []Settled
<1>1. IInv => Settled
  <2> SUFFICES ASSUME IInv, \A p \in Proc : pc[p] = "idle", ~dirty,
                      \A a \in Axis : \A e \in stack[a] : ~Expired(e, clock)
               PROVE  /\ Target(clock) \in {NoneAt, lastApplied}
                      /\ fails + externals = 0 =>
                           \A a \in Axis : Target(clock)[a] \in {None, zone[a]}
    BY DEF Settled
  <2>1. \A a \in Axis : Live(stack[a], clock) = stack[a]
    BY Zenon DEF Live
  <2>2. Target(clock) = Tops
    BY <2>1 DEF Target, Tops
  <2>3. ~Pending
    BY DEF Pending
  <2>4. holder = None
    BY DEF IInv, TypeOK, Control
  <2>5. Target(clock) \in {NoneAt, lastApplied}
    BY <2>2, <2>3, <2>4 DEF IInv, Fresh
  <2>6. QED
    BY <2>5 DEF IInv, Shown, NoneAt
<1>2. QED
  BY Invariance, <1>1, PTL

(* removeExpired is what keeps an expired override from being composed     *)
(* again by a reconcile that waited for the mutex with an older now.       *)
THEOREM NoResurrectionHolds == Spec => []NoResurrection
<1>1. IInv => NoResurrection
  BY DEF IInv, PoppedGone, NoResurrection, Live
<1>2. QED
  BY Invariance, <1>1, PTL

(* Re-arming the timer at every push suffices for the override to be       *)
(* popped on time, whichever order concurrent pushes of a source take.     *)
THEOREM TimerCoversHolds == Spec => []TimerCovers
<1>1. IInv => TimerCovers
  BY DEF IInv
<1>2. QED
  BY Invariance, <1>1, PTL

(* Every variable always has its type.                                     *)
THEOREM TypeCorrect == Spec => []TypeOK
<1>1. IInv => TypeOK
  BY DEF IInv
<1>2. QED
  BY Invariance, <1>1, PTL
=============================================================================

--------------------------- MODULE Schedule_proofs ---------------------------
(***************************************************************************)
(* Proofs about Schedule for every number of goroutines, every cron        *)
(* expression, every window and every number of failures and restarts.     *)
(***************************************************************************)
EXTENDS Schedule, SequenceTheorems, TLAPS

Elements(s) == {s[k] : k \in DOMAIN s}

Injective(s) == \A k, l \in DOMAIN s : s[k] = s[l] => k = l

(* What joins and leaves the senders blocked on the channel.               *)
LEMMA AppendElements ==
  ASSUME NEW S, NEW s \in Seq(S), NEW e \in S
  PROVE  /\ Append(s, e) \in Seq(S)
         /\ Elements(Append(s, e)) = Elements(s) \cup {e}
         /\ Injective(s) /\ e \notin Elements(s) => Injective(Append(s, e))
<1> DEFINE r == Append(s, e)
<1>1. /\ r \in Seq(S) /\ DOMAIN r = 1..(Len(s) + 1) /\ DOMAIN s = 1..Len(s)
      /\ \A k \in 1..Len(s) : r[k] = s[k]
      /\ r[Len(s) + 1] = e
      /\ Len(s) \in Nat
  OBVIOUS
<1> HIDE DEF r
<1>2. \A k \in DOMAIN r : k \in DOMAIN s \/ k = Len(s) + 1
  BY <1>1
<1>3. Elements(r) = Elements(s) \cup {e}
  <2>1. Elements(r) \subseteq Elements(s) \cup {e}
    BY <1>1, <1>2 DEF Elements
  <2>2. Elements(s) \cup {e} \subseteq Elements(r)
    BY <1>1 DEF Elements
  <2>3. QED
    BY <2>1, <2>2
<1>4. Injective(s) /\ e \notin Elements(s) => Injective(r)
  BY <1>1, <1>2 DEF Injective, Elements
<1>5. QED
  BY <1>1, <1>3, <1>4 DEF r

LEMMA TailElements ==
  ASSUME NEW S, NEW s \in Seq(S), s # <<>>, Injective(s)
  PROVE  /\ Head(s) \in S /\ Head(s) \in Elements(s)
         /\ Tail(s) \in Seq(S)
         /\ Elements(Tail(s)) = Elements(s) \ {Head(s)}
         /\ Injective(Tail(s))
<1> DEFINE r == Tail(s)
<1>1. /\ r \in Seq(S) /\ DOMAIN r = 1..(Len(s) - 1) /\ DOMAIN s = 1..Len(s)
      /\ Len(s) \in Nat /\ Len(s) >= 1
      /\ \A k \in 1..(Len(s) - 1) : r[k] = s[k + 1]
      /\ Head(s) = s[1] /\ Head(s) \in S
  OBVIOUS
<1> HIDE DEF r
<1>2. Elements(r) = Elements(s) \ {Head(s)}
  <2>1. ASSUME NEW x \in Elements(r) PROVE x \in Elements(s) /\ x # Head(s)
    <3>1. PICK k \in 1..(Len(s) - 1) : x = s[k + 1]
      BY <1>1 DEF Elements
    <3>2. k + 1 \in DOMAIN s /\ k + 1 # 1 /\ 1 \in DOMAIN s
      BY <1>1
    <3>3. QED
      BY <1>1, <3>1, <3>2 DEF Elements, Injective
  <2>2. ASSUME NEW x \in Elements(s), x # Head(s) PROVE x \in Elements(r)
    <3>1. PICK k \in DOMAIN s : x = s[k]
      BY DEF Elements
    <3>2. k # 1
      BY <1>1, <2>2, <3>1
    <3>3. k - 1 \in DOMAIN r /\ r[k - 1] = s[(k - 1) + 1] /\ (k - 1) + 1 = k
      BY <1>1, <3>2
    <3>4. QED
      BY <3>1, <3>3 DEF Elements
  <2>3. QED
    BY <2>1, <2>2
<1>3. Injective(r)
  <2> SUFFICES ASSUME NEW k \in DOMAIN r, NEW l \in DOMAIN r, r[k] = r[l] PROVE k = l
    BY DEF Injective
  <2>1. k \in Int /\ l \in Int /\ k + 1 \in DOMAIN s /\ l + 1 \in DOMAIN s /\ s[k + 1] = s[l + 1]
    BY <1>1
  <2>2. k + 1 = l + 1
    BY <2>1 DEF Injective
  <2>3. QED
    BY <2>1, <2>2
<1>4. Head(s) \in Elements(s)
  BY <1>1 DEF Elements
<1>5. QED
  BY <1>1, <1>2, <1>3, <1>4 DEF r

-----------------------------------------------------------------------------
(* Today is a number of days.                                              *)
LEMMA TodayIsInteger == clock \in Nat => Today \in Int
BY ConstantsAssumption DEF Today

LEMMA WindowJobs ==
  ASSUME NEW d \in Int PROVE Activation(d) \in Job /\ Deactivation(d) \in Job
<1>1. When(d) \in Int
  BY ConstantsAssumption DEF When
<1>2. WindowStart(d) \in Int /\ WindowStop(d) \in Int
  BY <1>1, ConstantsAssumption DEF WindowStart, WindowStop
<1>3. QED
  BY <1>2 DEF Activation, Deactivation, Job, Name, Request

LEMMA QueueIsInjective == IInv => Injective(queue) /\ Queued = Elements(queue)
BY DEF IInv, Placed, Injective, Queued, Elements

LEMMA InitIInv == Init => IInv
<1> SUFFICES ASSUME Init PROVE IInv
  OBVIOUS
<1>1. Queued = {} /\ Alive = {}
  BY DEF Init, Queued, Alive
<1>2. TypeOK
  <2>1. queue \in Seq(Id) /\ epoch \in Seq(Job)
    BY DEF Init
  <2>2. QED
    BY <2>1, Zenon DEF Init, TypeOK, Request
<1>3. Placed /\ Current
  BY <1>1, ConstantsAssumption DEF Init, Placed, Current
<1>4. QED
  BY <1>2, <1>3 DEF IInv

LEMMA AliveIsId == waiting \subseteq Id /\ queue \in Seq(Id) /\ running \in Id \cup {None}
                   => Alive \subseteq Id /\ Queued \subseteq Id
BY DEF Alive, Queued

(* A free goroutine, when add() needs one.                                 *)
LEMMA FreeIsFree == Id \ Alive # {} => Free \in Id /\ Free \notin Alive
BY DEF Free

(* add() keeps the map of events and the goroutines in agreement.          *)
LEMMA AddKeeps ==
  ASSUME IInv, NEW j \in Job, Add(j), UNCHANGED runner
  PROVE  /\ events' \in [Name -> Id \cup {None}]
         /\ job' \in [Id -> Job \cup {None}]
         /\ cancelled' \subseteq Id /\ waiting' \subseteq Id
         /\ Placed' /\ Current'
<1> USE DEF IInv
<1>1. CASE UNCHANGED sched
  <2>1. Queued' = Queued /\ Alive' = Alive
    BY <1>1 DEF Queued, Alive, sched, runner
  <2>2. QED
    BY <1>1, <2>1 DEF sched, runner, TypeOK, Placed, Current
<1>2. CASE ~UNCHANGED sched
  <2> DEFINE n == j.name
             f == Free
  <2>1. /\ f \in Id /\ f \notin Alive
        /\ events' = [events EXCEPT ![n] = f]
        /\ job' = [job EXCEPT ![f] = j]
        /\ waiting' = waiting \cup {f}
        /\ cancelled' = cancelled \cup Old(n)
    BY <1>2, FreeIsFree DEF Add
  <2>2. n \in Name
    BY DEF Job
  <2> HIDE DEF f
  <2>3. /\ events \in [Name -> Id \cup {None}] /\ job \in [Id -> Job \cup {None}]
        /\ cancelled \subseteq Id /\ waiting \subseteq Id /\ queue \in Seq(Id)
    BY DEF TypeOK
  <2>4. Queued' = Queued /\ running' = running /\ queue' = queue
    BY DEF runner, Queued
  <2>5. Alive' = Alive \cup {f}
    BY <2>1, <2>4 DEF Alive
  <2>6. Alive \subseteq Id
    BY AliveIsId DEF TypeOK
  <2>7. Old(n) \subseteq Alive
    BY <2>2, <2>3 DEF Old, Current
  <2>8. /\ events' \in [Name -> Id \cup {None}]
        /\ job' \in [Id -> Job \cup {None}]
        /\ cancelled' \subseteq Id /\ waiting' \subseteq Id
    BY <2>1, <2>2, <2>3, <2>6, <2>7
  <2>9. Placed'
    <3>1. /\ waiting' \cap Queued' = {} /\ running' \notin waiting' \cup Queued'
      <4>1. f # None
        BY <2>1, ConstantsAssumption
      <4>2. f \notin Queued /\ f # running
        BY <2>1, <4>1 DEF Alive
      <4>3. QED
        BY <2>1, <2>4, <4>2 DEF Placed
    <3>2. \A k, l \in DOMAIN queue' : queue'[k] = queue'[l] => k = l
      BY <2>4 DEF Placed
    <3>3. cancelled' \subseteq Alive'
      BY <2>1, <2>5, <2>7 DEF Placed
    <3>4. \A i \in Alive' : job'[i] \in Job
      BY <2>1, <2>3, <2>5, <2>6 DEF Placed
    <3>5. QED
      BY <3>1, <3>2, <3>3, <3>4 DEF Placed
  <2>10. Current'
    <3>1. ASSUME NEW m \in Name, events'[m] # None
          PROVE  events'[m] \in Alive' /\ job'[events'[m]].name = m
      <4>1. CASE m = n
        BY <2>1, <2>2, <2>3, <2>5, <4>1
      <4>2. CASE m # n
        <5>1. events'[m] = events[m] /\ events[m] \in Alive /\ job[events[m]].name = m
          BY <2>1, <2>2, <2>3, <3>1, <4>2 DEF Current
        <5>2. job'[events[m]] = job[events[m]]
          BY <2>1, <2>3, <2>6, <5>1
        <5>3. QED
          BY <2>5, <5>1, <5>2
      <4>3. QED
        BY <4>1, <4>2
    <3>2. ASSUME NEW i \in Alive' PROVE i \notin cancelled' <=> events'[job'[i].name] = i
      <4>1. CASE i = f
        <5>1. f \notin cancelled'
          BY <2>1, <2>7 DEF Placed
        <5>2. job'[f] = j /\ events'[n] = f
          BY <2>1, <2>2, <2>3
        <5>3. QED
          BY <4>1, <5>1, <5>2
      <4>2. CASE i # f
        <5>1. i \in Alive /\ i \in Id /\ job'[i] = job[i] /\ job[i].name \in Name
          BY <2>1, <2>3, <2>5, <2>6, <4>2 DEF Placed, Job
        <5>2. CASE job[i].name = n
          <6>1. events'[job'[i].name] # i
            BY <2>1, <2>2, <2>3, <4>2, <5>1, <5>2
          <6>2. i \in cancelled'
            BY <2>1, <5>1, <5>2, ConstantsAssumption DEF Current, Old
          <6>3. QED
            BY <6>1, <6>2
        <5>3. CASE job[i].name # n
          <6>1. events'[job'[i].name] = events[job[i].name]
            BY <2>1, <2>2, <2>3, <5>1, <5>3
          <6>2. i \notin Old(n)
            BY <2>2, <5>3 DEF Old, Current
          <6>3. QED
            BY <2>1, <5>1, <6>1, <6>2 DEF Current
        <5>4. QED
          BY <5>2, <5>3
      <4>3. QED
        BY <4>1, <4>2
    <3>3. QED
      BY <3>1, <3>2 DEF Current
  <2>11. QED
    BY <2>8, <2>9, <2>10
<1>3. QED
  BY <1>1, <1>2

(* Moving a goroutine from one place to the next leaves it alive and the   *)
(* map of events as it is.                                                 *)
LEMMA MoveKeeps ==
  ASSUME IInv, Alive' = Alive, UNCHANGED <<events, job, cancelled>>
  PROVE  /\ Current'
         /\ cancelled' \subseteq Alive' /\ \A i \in Alive' : job'[i] \in Job
BY DEF IInv, Placed, Current

(* A goroutine that ends, be it current or cancelled, while its name is    *)
(* freed and any other event of that name is cancelled.                    *)
LEMMA EndKeeps ==
  ASSUME IInv, NEW r \in Alive, Alive' = Alive \ {r}, Ends(r),
         NEW gone \in SUBSET Name,
         gone \subseteq {job[r].name},
         r \notin cancelled => gone = {job[r].name},
         events' = [n \in Name |-> IF n \in gone THEN None ELSE events[n]],
         cancelled' = (cancelled \cup UNION {Old(n) : n \in gone}) \ {r}
  PROVE  /\ Current'
         /\ cancelled' \subseteq Alive' /\ \A i \in Alive' : job'[i] \in Job
<1>1. Alive \subseteq Id /\ r \in Id
  BY AliveIsId DEF IInv, TypeOK
<1>2. /\ events \in [Name -> Id \cup {None}] /\ job \in [Id -> Job \cup {None}]
  BY DEF IInv, TypeOK
<1>3. \A i \in Alive' : i \in Alive /\ i # r /\ job'[i] = job[i] /\ job[i] \in Job
  BY <1>1, <1>2 DEF Ends, IInv, Placed
<1>4. \A n \in Name : Old(n) \subseteq Alive
  BY <1>2 DEF Old, IInv, Current
<1>5. cancelled' \subseteq Alive'
  BY <1>4 DEF IInv, Placed
<1>6. ASSUME NEW m \in Name, events'[m] # None
      PROVE  events'[m] \in Alive' /\ job'[events'[m]].name = m
  <2>1. m \notin gone /\ events'[m] = events[m]
    BY <1>6
  <2>2. events[m] \in Alive /\ job[events[m]].name = m
    BY <1>6, <2>1 DEF IInv, Current
  <2>3. events[m] # r
    <3>1. SUFFICES ASSUME events[m] = r PROVE FALSE
      OBVIOUS
    <3>2. r \notin cancelled
      BY <2>2, <3>1 DEF IInv, Current
    <3>3. QED
      BY <2>1, <2>2, <3>1, <3>2
  <2>4. QED
    BY <1>3, <2>1, <2>2, <2>3
<1>7. ASSUME NEW i \in Alive' PROVE i \notin cancelled' <=> events'[job'[i].name] = i
  <2>1. job'[i] = job[i] /\ job[i].name \in Name /\ i \in Alive /\ i # r /\ i \in Id
    BY <1>1, <1>3 DEF Job
  <2>2. CASE job[i].name \in gone
    <3>1. events'[job'[i].name] = None /\ i # None
      BY <2>1, <2>2, ConstantsAssumption
    <3>2. i \in cancelled \/ events[job[i].name] = i
      BY <2>1 DEF IInv, Current
    <3>3. i \in cancelled \/ i \in Old(job[i].name)
      BY <3>1, <3>2 DEF Old
    <3>4. i \in cancelled'
      BY <2>1, <2>2, <3>3
    <3>5. QED
      BY <3>1, <3>4
  <2>3. CASE job[i].name \notin gone
    <3>1. events'[job'[i].name] = events[job[i].name]
      BY <2>1, <2>3
    <3>2. \A n \in gone : i \notin Old(n)
      BY <2>3 DEF Old, IInv, Current
    <3>3. i \in cancelled' <=> i \in cancelled
      BY <2>1, <3>2
    <3>4. QED
      BY <2>1, <3>1, <3>3 DEF IInv, Current
  <2>4. QED
    BY <2>2, <2>3
<1>8. QED
  BY <1>3, <1>5, <1>6, <1>7 DEF Current

(* remove() cancels the event of the name, if there is one.                *)
LEMMA RemoveKeeps ==
  ASSUME IInv, NEW n \in Name, Remove(n), UNCHANGED runner
  PROVE  /\ events' \in [Name -> Id \cup {None}] /\ cancelled' \subseteq Id
         /\ Placed' /\ Current'
<1>1. Alive' = Alive /\ Queued' = Queued /\ queue' = queue /\ running' = running
      /\ waiting' = waiting /\ job' = job
  BY DEF Remove, runner, Alive, Queued
<1>2. /\ events \in [Name -> Id \cup {None}] /\ cancelled \subseteq Id /\ Alive \subseteq Id
  BY AliveIsId DEF IInv, TypeOK
<1>3. events' = [events EXCEPT ![n] = None] /\ cancelled' = cancelled \cup Old(n)
  BY DEF Remove
<1>4. Old(n) \subseteq Alive
  BY <1>2 DEF Old, IInv, Current
<1>5. Placed'
  BY <1>1, <1>3, <1>4 DEF IInv, Placed
<1>6. ASSUME NEW m \in Name, events'[m] # None
      PROVE  events'[m] \in Alive' /\ job'[events'[m]].name = m
  BY <1>1, <1>2, <1>3, <1>6 DEF IInv, Current
<1>7. ASSUME NEW i \in Alive' PROVE i \notin cancelled' <=> events'[job'[i].name] = i
  <2>1. i \in Alive /\ job'[i] = job[i] /\ job[i].name \in Name /\ i \in Id /\ i # None
    BY <1>1, <1>2, ConstantsAssumption DEF IInv, Placed, Job
  <2>2. i \notin cancelled <=> events[job[i].name] = i
    BY <2>1 DEF IInv, Current
  <2>3. CASE job[i].name = n
    BY <1>2, <1>3, <2>1, <2>2, <2>3 DEF Old
  <2>4. CASE job[i].name # n
    <3>1. i \notin Old(n)
      BY <2>4 DEF Old, IInv, Current
    <3>2. QED
      BY <1>2, <1>3, <2>1, <2>2, <2>4, <3>1
  <2>5. QED
    BY <2>3, <2>4
<1>8. QED
  BY <1>2, <1>3, <1>4, <1>5, <1>6, <1>7 DEF Current

-----------------------------------------------------------------------------
(* The steps, one lemma for each that moves, starts or ends a goroutine.   *)

LEMMA FireStep == ASSUME IInv, NEW g \in Id, Fire(g) PROVE IInv'
<1>1. /\ g \in waiting /\ waiting' = waiting \ {g} /\ queue' = Append(queue, g)
      /\ UNCHANGED <<events, job, cancelled, running>>
  BY DEF Fire
<1>2. Injective(queue) /\ Queued = Elements(queue) /\ queue \in Seq(Id)
  BY QueueIsInjective DEF IInv, TypeOK
<1>3. g \notin Queued /\ g # running
  BY <1>1 DEF IInv, Placed
<1>4. queue' \in Seq(Id) /\ Queued' = Queued \cup {g} /\ Injective(queue')
  <2>1. Queued' = Elements(queue')
    BY DEF Queued, Elements
  <2>2. QED
    BY <1>1, <1>2, <1>3, <2>1, AppendElements
<1>5. Alive' = Alive
  BY <1>1, <1>4 DEF Alive
<1>6. TypeOK'
  BY <1>4 DEF Fire, IInv, TypeOK, hist
<1>7. Placed'
  <2>1. waiting' \cap Queued' = {} /\ running' \notin waiting' \cup Queued'
    BY <1>1, <1>3, <1>4 DEF IInv, Placed
  <2>2. QED
    BY <1>1, <1>4, <1>5, <2>1, MoveKeeps DEF Placed, Injective
<1>8. QED
  BY <1>1, <1>5, <1>6, <1>7, MoveKeeps DEF IInv

LEMMA ReceiveStep == ASSUME IInv, Receive PROVE IInv'
<1>1. /\ running = None /\ queue # <<>> /\ running' = Head(queue) /\ queue' = Tail(queue)
      /\ UNCHANGED <<events, job, cancelled, waiting>>
  BY DEF Receive, sched
<1>2. Injective(queue) /\ Queued = Elements(queue) /\ queue \in Seq(Id)
  BY QueueIsInjective DEF IInv, TypeOK
<1>3. /\ queue' \in Seq(Id) /\ Queued' = Queued \ {Head(queue)} /\ Injective(queue')
      /\ Head(queue) \in Queued /\ Head(queue) \in Id
  <2>1. Queued' = Elements(queue')
    BY DEF Queued, Elements
  <2>2. QED
    BY <1>1, <1>2, <2>1, TailElements
<1>4. Alive' = Alive
  BY <1>1, <1>3, ConstantsAssumption DEF Alive
<1>5. TypeOK'
  BY <1>3, Zenon DEF Receive, IInv, TypeOK, sched, hist
<1>6. Placed'
  <2>1. waiting' \cap Queued' = {} /\ running' \notin waiting' \cup Queued'
    BY <1>1, <1>3 DEF IInv, Placed
  <2>2. QED
    BY <1>1, <1>3, <1>4, <2>1, MoveKeeps DEF Placed, Injective
<1>7. QED
  BY <1>1, <1>4, <1>5, <1>6, MoveKeeps DEF IInv

LEMMA QuitStep == ASSUME IInv, NEW g \in Id, Quit(g) PROVE IInv'
<1>1. /\ g \in waiting /\ g \in cancelled /\ waiting' = waiting \ {g}
      /\ cancelled' = cancelled \ {g} /\ Ends(g)
      /\ UNCHANGED <<events, queue, running>>
  BY DEF Quit, runner
<1>2. Queued' = Queued /\ Alive' = Alive \ {g} /\ g \in Alive
  BY <1>1 DEF Queued, Alive, IInv, Placed
<1>3. events' = [n \in Name |-> IF n \in {} THEN None ELSE events[n]]
  BY <1>1 DEF IInv, TypeOK
<1>4. cancelled' = (cancelled \cup UNION {Old(n) : n \in {}}) \ {g}
  BY <1>1
<1>5. /\ Current'
      /\ cancelled' \subseteq Alive' /\ \A i \in Alive' : job'[i] \in Job
  <2> DEFINE gone == {}
  <2>1. gone \in SUBSET Name /\ gone \subseteq {job[g].name}
        /\ (g \notin cancelled => gone = {job[g].name})
    BY <1>1
  <2>2. events' = [n \in Name |-> IF n \in gone THEN None ELSE events[n]]
    BY <1>3
  <2>3. cancelled' = (cancelled \cup UNION {Old(n) : n \in gone}) \ {g}
    BY <1>4
  <2> HIDE DEF gone
  <2>4. QED
    BY <1>1, <1>2, <2>1, <2>2, <2>3, EndKeeps, Zenon
<1>6. TypeOK'
  BY <1>1 DEF Quit, Ends, IInv, TypeOK, runner, hist
<1>7. Placed'
  BY <1>1, <1>2, <1>5 DEF IInv, Placed
<1>8. QED
  BY <1>5, <1>6, <1>7 DEF IInv

LEMMA FinishStep == ASSUME IInv, Finish PROVE IInv'
<1> DEFINE n == job[running].name
<1>1. /\ running \in Id /\ running \in Alive /\ running # None
      /\ job[running] \in Job /\ n \in Name
  BY DEF Finish, Alive, IInv, TypeOK, Placed, Job
<1>2. /\ events' = [events EXCEPT ![n] = None]
      /\ cancelled' = (cancelled \cup Old(n)) \ {running} /\ Ends(running)
      /\ running' = None /\ UNCHANGED <<waiting, queue>>
  BY DEF Finish
<1>3. Queued' = Queued /\ Alive' = Alive \ {running} /\ Alive \subseteq Id
  <2>1. Queued' = Queued
    BY <1>2 DEF Queued
  <2>2. running \notin waiting \cup Queued
    BY DEF IInv, Placed
  <2>3. QED
    BY <1>1, <1>2, <2>1, <2>2, AliveIsId DEF Alive, IInv, TypeOK
<1>4. /\ Current'
      /\ cancelled' \subseteq Alive' /\ \A i \in Alive' : job'[i] \in Job
  <2> DEFINE gone == {n}
  <2>1. gone \in SUBSET Name /\ gone \subseteq {job[running].name}
        /\ (running \notin cancelled => gone = {job[running].name})
    BY <1>1
  <2>2. events' = [m \in Name |-> IF m \in gone THEN None ELSE events[m]]
    BY <1>1, <1>2, Zenon DEF IInv, TypeOK
  <2>3. cancelled' = (cancelled \cup UNION {Old(m) : m \in gone}) \ {running}
    <3>1. UNION {Old(m) : m \in gone} = Old(n)
      OBVIOUS
    <3>2. QED
      BY <1>2, <3>1
  <2> HIDE DEF gone, n
  <2>4. QED
    BY <1>1, <1>2, <1>3, <2>1, <2>2, <2>3, EndKeeps, Zenon
<1>5. TypeOK'
  <2>1. events' \in [Name -> Id \cup {None}] /\ job' \in [Id -> Job \cup {None}]
    BY <1>1, <1>2 DEF Ends, IInv, TypeOK
  <2>2. cancelled' \subseteq Id
    BY <1>3, <1>4
  <2>3. QED
    BY <1>2, <2>1, <2>2 DEF Finish, IInv, TypeOK, hist
<1>6. Placed'
  <2>1. None \notin waiting \cup Queued
    BY <1>3, ConstantsAssumption DEF Alive
  <2>2. QED
    BY <1>2, <1>3, <1>4, <2>1, Zenon DEF IInv, Placed
<1>7. QED
  BY <1>4, <1>5, <1>6 DEF IInv

(* A step that leaves goroutines and events alone.                         *)
LEMMA SameSchedule ==
  ASSUME IInv, TypeOK', UNCHANGED <<events, job, cancelled, waiting, queue, running>>
  PROVE  IInv'
<1>1. Queued' = Queued /\ Alive' = Alive
  BY DEF Queued, Alive
<1>2. QED
  BY <1>1 DEF IInv, Placed, Current

LEMMA ExecuteStep == ASSUME IInv, Execute \/ ExecuteFails PROVE IInv'
<1>1. running \in Alive
  BY DEF Execute, ExecuteFails, Alive
<1>2. job[running] \in Job
  BY <1>1 DEF IInv, Placed
<1>3. job[running].req \in Request
  BY <1>2 DEF Job
<1>4. zone' \in Request /\ ran' \subseteq Job
  BY <1>2, <1>3 DEF Execute, ExecuteFails, IInv, TypeOK
<1>5. fails' \in Nat /\ executed' \in BOOLEAN
  <2>1. fails' = fails \/ fails' = fails + 1
    BY DEF Execute, ExecuteFails
  <2>2. fails' \in Nat
    BY <2>1 DEF IInv, TypeOK
  <2>3. executed' \in BOOLEAN
    BY Zenon DEF Execute, ExecuteFails
  <2>4. QED
    BY <2>2, <2>3
<1>6. TypeOK'
  BY <1>4, <1>5, Zenon DEF Execute, ExecuteFails, IInv, TypeOK, sched
<1>7. QED
  BY <1>6, SameSchedule DEF Execute, ExecuteFails, sched

LEMMA AddsStep == ASSUME IInv, SetScheduleAdds \/ EpochAdds PROVE IInv'
<1>1. CASE SetScheduleAdds
  <2> DEFINE j == [name |-> "c-schedule-z-activate", t |-> timer, req |-> "ON"]
  <2>1. timer \in Int
    BY <1>1, ConstantsAssumption DEF SetScheduleAdds, IInv, TypeOK
  <2>2. j \in Job /\ Add(j) /\ UNCHANGED runner
    BY <1>1, <2>1 DEF SetScheduleAdds, Job, Name, Request
  <2> HIDE DEF j
  <2>3. TypeOK'
    BY <1>1, <2>2, AddKeeps DEF SetScheduleAdds, runner, hist, IInv, TypeOK
  <2>4. QED
    BY <2>2, <2>3, AddKeeps DEF IInv
<1>2. CASE EpochAdds
  <2>1. epoch \in Seq(Job) /\ epoch # <<>>
    BY <1>2 DEF EpochAdds, IInv, TypeOK
  <2>2. Head(epoch) \in Job /\ Tail(epoch) \in Seq(Job)
    BY <2>1
  <2>3. Head(epoch).t \in Int
    BY <2>2 DEF Job
  <2>4. Add(Head(epoch)) /\ UNCHANGED runner /\ ahead' \subseteq Int
    BY <1>2, <2>3, Zenon DEF EpochAdds, IInv, TypeOK
  <2>5. TypeOK'
    BY <1>2, <2>2, <2>4, AddKeeps DEF EpochAdds, runner, IInv, TypeOK
  <2>6. QED
    BY <2>2, <2>4, <2>5, AddKeeps DEF IInv
<1>3. QED
  BY <1>1, <1>2

LEMMA RemovesStep == ASSUME IInv, SetScheduleRemoves PROVE IInv'
<1>1. Remove("c") /\ UNCHANGED runner /\ "c" \in Name
  BY DEF SetScheduleRemoves, Name
<1>2. TypeOK'
  BY <1>1, RemoveKeeps, Zenon DEF SetScheduleRemoves, Remove, runner, hist, IInv, TypeOK
<1>3. QED
  BY <1>1, <1>2, RemoveKeeps DEF IInv

LEMMA EpochStep == ASSUME IInv, Epoch PROVE IInv'
<1>1. Today \in Int
  BY TodayIsInteger DEF IInv, TypeOK
<1>2. <<Activation(Today), Deactivation(Today)>> \in Seq(Job)
  BY <1>1, WindowJobs
<1>3. epoch' \in Seq(Job) /\ zone' \in Request
  BY <1>2, Zenon DEF Epoch, EpochAhead, EpochNow, IInv, TypeOK, Request
<1>4. TypeOK'
  BY <1>3 DEF Epoch, sched, runner, hist, IInv, TypeOK
<1>5. QED
  BY <1>4, SameSchedule DEF Epoch, sched, runner

LEMMA OtherStep ==
  ASSUME IInv, SetSchedule \/ Edit \/ EpochFails \/ Tick \/ UNCHANGED vars
  PROVE  IInv'
<1>1. timer' \in Cron \cup {None}
  BY DEF SetSchedule, Edit, EpochFails, Tick, vars, IsNext, Later, IInv, TypeOK
<1>2. clock' \in Nat /\ fails' \in Nat
  BY DEF SetSchedule, Edit, EpochFails, Tick, vars, IInv, TypeOK
<1>3. TypeOK'
  <2>1. enabled' \in BOOLEAN
    BY Zenon DEF SetSchedule, Edit, EpochFails, Tick, vars, IInv, TypeOK
  <2>2. QED
    BY <1>1, <1>2, <2>1, Zenon DEF SetSchedule, Edit, EpochFails, Tick, vars, sched, runner, hist, IInv, TypeOK
<1>4. QED
  BY <1>3, SameSchedule DEF SetSchedule, Edit, EpochFails, Tick, vars, sched, runner

LEMMA RestartStep == ASSUME IInv, Restart PROVE IInv'
<1>1. Queued' = {} /\ Alive' = {}
  BY DEF Restart, Queued, Alive
<1>2. queue' \in Seq(Id) /\ epoch' \in Seq(Job) /\ fails' \in Nat
  BY ConstantsAssumption DEF Restart, IInv, TypeOK
<1>3. TypeOK'
  BY <1>2, Zenon DEF Restart, hist, IInv, TypeOK
<1>4. Placed' /\ Current'
  BY <1>1, ConstantsAssumption DEF Restart, Placed, Current
<1>5. QED
  BY <1>3, <1>4 DEF IInv

LEMMA NextIInv == IInv /\ [Next]_vars => IInv'
<1> SUFFICES ASSUME IInv, [Next]_vars PROVE IInv'
  OBVIOUS
<1>1. CASE \E i \in Id : Fire(i) \/ Quit(i)
  BY <1>1, FireStep, QuitStep
<1>2. CASE Receive \/ Execute \/ ExecuteFails \/ Finish \/ Restart
  BY <1>2, ReceiveStep, ExecuteStep, FinishStep, RestartStep
<1>3. CASE SetSchedule \/ SetScheduleAdds \/ SetScheduleRemoves \/ Edit
  BY <1>3, OtherStep, AddsStep, RemovesStep
<1>4. CASE Epoch \/ EpochFails \/ EpochAdds \/ Tick \/ UNCHANGED vars
  BY <1>4, EpochStep, AddsStep, OtherStep
<1>5. QED
  BY <1>1, <1>2, <1>3, <1>4 DEF Next

-----------------------------------------------------------------------------
(* The map of events, the contexts and the goroutines always agree.        *)
THEOREM Invariance == Spec => []IInv
<1>1. QED
  BY InitIInv, NextIInv, PTL DEF Spec

(* The variables of the schedule always have their types.                  *)
THEOREM TypeCorrect == Spec => []TypeOK
<1>1. IInv => TypeOK
  BY DEF IInv
<1>2. QED
  BY Invariance, <1>1, PTL

(* No superseded or removed event reaches the zone: run() executes an item *)
(* with effect only while the item is still the event of its name.         *)
THEOREM OnlyCurrentHolds == Spec => OnlyCurrent
<1> DEFINE P == \A j \in ran' \ ran : events[j.name] = running /\ job[running] = j
<1>1. ASSUME IInv, [Next]_vars PROVE P \/ UNCHANGED vars
  <2>1. CASE UNCHANGED ran
    BY <2>1
  <2>2. CASE Execute \/ ExecuteFails
    <3>1. running \in Alive
      BY <2>2 DEF Execute, ExecuteFails, Alive
    <3>2. CASE running \in cancelled
      BY <2>2, <3>2 DEF Execute, ExecuteFails
    <3>3. CASE running \notin cancelled
      <4>1. events[job[running].name] = running
        BY <1>1, <3>1, <3>3 DEF IInv, Current
      <4>2. ran' \ ran \subseteq {job[running]}
        BY <2>2 DEF Execute, ExecuteFails
      <4>3. QED
        BY <4>1, <4>2
    <3>4. QED
      BY <3>2, <3>3
  <2>3. CASE ~(Execute \/ ExecuteFails)
    <3>1. UNCHANGED ran
      BY <1>1, <2>3, Zenon DEF Next, Fire, Quit, Receive, Finish, Restart, SetSchedule, SetScheduleAdds,
        SetScheduleRemoves, Edit, Epoch, EpochFails, EpochAdds, Tick, hist, vars
    <3>2. QED
      BY <2>1, <3>1
  <2>4. QED
    BY <2>2, <2>3
<1>2. IInv /\ [Next]_vars => [\A j \in ran' \ ran : events[j.name] = running /\ job[running] = j]_vars
  BY <1>1
<1>3. QED
  BY Invariance, <1>2, PTL DEF Spec, OnlyCurrent

-----------------------------------------------------------------------------
(* Both ends of a window.  The windows close on the day of their sunset;   *)
(* one that does not may be displaced by the next day's, since the names   *)
(* of the events do not tell the day.                                      *)

SameDay == Sunset + Stop < Day

EndNames == {"sunset-c-z-activate", "sunset-c-z-deactivate"}
EndsOf(d) == {Activation(d), Deactivation(d)}

\* The ends of windows that are scheduled are today's, are not overdue, and
\* nothing has replaced or removed them.
Todays == \A i \in Alive : job[i].name \in EndNames =>
             job[i] \in EndsOf(Today) /\ job[i].t >= clock /\ i \notin cancelled

\* What has left its timer is due.
Due == \A i \in Alive : i \notin waiting => job[i].t <= clock

\* A request has reached the zone, or a goroutine has still to execute it.
Handled(j) == j \in ran \/ \E i \in Alive : job[i] = j /\ (i = running => executed = FALSE)

Promises ==
  \A t \in ahead : \E d \in 0..Today :
     t = WindowStop(d) /\ Handled(Activation(d)) /\ Handled(Deactivation(d))

\* An Epoch RPC that is adding schedules today's window, before it opens.
Adding ==
  epoch # <<>> =>
     /\ clock < WindowStart(Today)
     /\ \/ epoch = <<Activation(Today), Deactivation(Today)>>
        \/ epoch = <<Deactivation(Today)>> /\ Handled(Activation(Today))

WInv == fails = 0 => Todays /\ Due /\ Promises /\ Adding

(* Days follow each other.                                                 *)
LEMMA DaysApart ==
  ASSUME NEW d \in Int, NEW e \in Int, d < e
  PROVE  d * Day + Day <= e * Day /\ d * Day \in Int /\ e * Day \in Int
<1>1. Day \in Int /\ Day > 0
  BY ConstantsAssumption
<1>2. d * Day \in Int /\ e * Day \in Int /\ (e - d) * Day \in Int
  BY <1>1
<1>3. e * Day = d * Day + (e - d) * Day
  BY <1>1
<1>4. (e - d) * Day >= Day
  <2>1. e - d >= 1 /\ e - d \in Int
    OBVIOUS
  <2> QED BY <1>1, <2>1
<1> QED BY <1>1, <1>2, <1>3, <1>4

LEMMA DayBounds ==
  ASSUME NEW c \in Nat
  PROVE  /\ c \div Day \in Nat /\ (c \div Day) * Day \in Int
         /\ (c \div Day) * Day <= c /\ c < (c \div Day) * Day + Day
<1>1. Day \in Nat /\ Day > 0
  BY ConstantsAssumption
<1>2. c \div Day \in Int /\ c \div Day >= 0
  BY <1>1
<1>3. c = Day * (c \div Day) + (c % Day) /\ c % Day \in 0..(Day - 1)
  BY <1>1
<1>4. (c \div Day) * Day = Day * (c \div Day) /\ (c \div Day) * Day \in Int
  BY <1>1, <1>2
<1> QED BY <1>1, <1>2, <1>3, <1>4

LEMMA TodayBounds ==
  ASSUME clock \in Nat
  PROVE  /\ Today \in Nat /\ Today * Day \in Int
         /\ Today * Day <= clock /\ clock < Today * Day + Day
  BY DayBounds DEF Today

LEMMA Windows ==
  ASSUME NEW d \in Int
  PROVE  /\ d * Day \in Int /\ WindowStart(d) \in Int /\ WindowStop(d) \in Int
         /\ WindowStart(d) <= WindowStop(d)
         /\ SameDay => WindowStop(d) < d * Day + Day
         /\ Activation(d).name \in EndNames /\ Deactivation(d).name \in EndNames
         /\ Activation(d).t = WindowStart(d) /\ Deactivation(d).t = WindowStop(d)
<1>1. d * Day \in Int
  BY ConstantsAssumption
<1>2. WindowStart(d) = d * Day + Sunset + Start /\ WindowStop(d) = d * Day + Sunset + Stop
  BY <1>1, ConstantsAssumption DEF WindowStart, WindowStop, When
<1>3. /\ Activation(d).name \in EndNames /\ Deactivation(d).name \in EndNames
      /\ Activation(d).t = WindowStart(d) /\ Deactivation(d).t = WindowStop(d)
  BY DEF Activation, Deactivation, EndNames
<1> QED BY <1>1, <1>2, <1>3, ConstantsAssumption DEF SameDay

(* A window closes at a time of its own.                                   *)
LEMMA StopsApart ==
  ASSUME NEW d \in Int, NEW e \in Int, WindowStop(d) = WindowStop(e)
  PROVE  d = e
<1>1. d * Day \in Int /\ e * Day \in Int
  BY ConstantsAssumption
<1>2. d * Day = e * Day
  BY <1>1, ConstantsAssumption DEF WindowStop, When
<1>3. ~(d < e) /\ ~(e < d)
  BY <1>1, <1>2, DaysApart, ConstantsAssumption
<1> QED BY <1>3

(* A request is not lost by a step that keeps its goroutine, or executes   *)
(* it.                                                                     *)
LEMMA StillHandled ==
  ASSUME ran \subseteq ran', NEW j, j.name \in EndNames, Handled(j),
         \A i \in Alive : job[i].name \in EndNames /\ (i = running => executed = FALSE) =>
           \/ job[i] \in ran'
           \/ i \in Alive' /\ job'[i] = job[i] /\ (i = running' => executed' = FALSE)
  PROVE  Handled(j)'
<1>1. CASE j \in ran
  BY <1>1 DEF Handled
<1>2. CASE j \notin ran
  <2>1. PICK i \in Alive : job[i] = j /\ (i = running => executed = FALSE)
    BY <1>2 DEF Handled
  <2>2. j \in ran' \/ (i \in Alive' /\ job'[i] = j /\ (i = running' => executed' = FALSE))
    BY <2>1
  <2> QED BY <2>2 DEF Handled
<1> QED BY <1>1, <1>2

LEMMA Carries ==
  ASSUME clock \in Nat, Promises, Adding, UNCHANGED <<clock, ahead, epoch>>, ran \subseteq ran',
         \A i \in Alive : job[i].name \in EndNames /\ (i = running => executed = FALSE) =>
           \/ job[i] \in ran'
           \/ i \in Alive' /\ job'[i] = job[i] /\ (i = running' => executed' = FALSE)
  PROVE  Promises' /\ Adding'
<1>1. ASSUME NEW d \in Int
      PROVE  /\ Handled(Activation(d)) => Handled(Activation(d))'
             /\ Handled(Deactivation(d)) => Handled(Deactivation(d))'
  <2>1. Activation(d).name \in EndNames /\ Deactivation(d).name \in EndNames
    BY <1>1, Windows
  <2>2. Handled(Activation(d)) => Handled(Activation(d))'
    <3> DEFINE j == Activation(d)
    <3>1. j' = j
      BY DEF Activation, WindowStart, When
    <3> QED BY <2>1, <3>1, StillHandled DEF Handled
  <2>3. Handled(Deactivation(d)) => Handled(Deactivation(d))'
    <3> DEFINE j == Deactivation(d)
    <3>1. j' = j
      BY DEF Deactivation, WindowStop, When
    <3> QED BY <2>1, <3>1, StillHandled DEF Handled
  <2> QED BY <2>2, <2>3
<1>2. Today' = Today /\ Today \in Nat /\ \A d \in 0..Today : d \in Int
  BY TodayBounds DEF Today
<1>3. Promises'
  BY <1>1, <1>2 DEF Promises, WindowStop, When
<1>4. Adding'
  <2>1. /\ Activation(Today)' = Activation(Today) /\ Deactivation(Today)' = Deactivation(Today)
        /\ WindowStart(Today)' = WindowStart(Today)
    BY <1>2 DEF Activation, Deactivation, WindowStart, WindowStop, When
  <2>2. PICK d \in Int : d = Today
    BY <1>2
  <2>3. Handled(Activation(d)) => Handled(Activation(d))'
    BY <1>1
  <2>4. Handled(Activation(d))' <=> Handled(Activation(Today))'
    BY <1>2, <2>2 DEF Handled, Activation, WindowStart, When
  <2> QED BY <2>1, <2>2, <2>3, <2>4 DEF Adding
<1> QED BY <1>3, <1>4

LEMMA InitWInv == Init => WInv
<1> SUFFICES ASSUME Init PROVE WInv
  OBVIOUS
<1>1. Alive = {} /\ ahead = {} /\ epoch = <<>>
  BY DEF Init, Queued, Alive
<1> QED BY <1>1 DEF WInv, Todays, Due, Promises, Adding

(* A goroutine fires, ends, or its item is received.                       *)
LEMMA MovesW ==
  ASSUME IInv, WInv, (\E g \in Id : Fire(g) \/ Quit(g)) \/ Receive
  PROVE  WInv'
<1> SUFFICES ASSUME fails' = 0 PROVE Todays' /\ Due' /\ Promises' /\ Adding'
  BY DEF WInv
<1>1. UNCHANGED <<clock, fails, ahead, ran, epoch>> /\ clock \in Nat
  BY DEF Fire, Quit, Receive, hist, IInv, TypeOK
<1>2. Todays /\ Due /\ Promises /\ Adding /\ Today' = Today
  BY <1>1 DEF WInv, Today
<1>3. /\ \A i \in Alive' : /\ i \in Alive /\ job'[i] = job[i] /\ (i \notin cancelled => i \notin cancelled')
                           /\ i \notin waiting' => i \notin waiting \/ job[i].t <= clock
      /\ \A i \in Alive : i \notin cancelled => i \in Alive'
      /\ \A i \in Alive : (i = running => executed = FALSE) => (i = running' => executed' = FALSE)
  <2>1. CASE \E g \in Id : Fire(g)
    <3>1. PICK g \in Id : /\ g \in waiting /\ job[g].t <= clock /\ waiting' = waiting \ {g}
                          /\ queue' = Append(queue, g) /\ UNCHANGED <<job, cancelled, running, executed>>
      BY <2>1, Zenon DEF Fire
    <3>2. queue \in Seq(Id) /\ Queued = Elements(queue)
      BY DEF IInv, TypeOK, Queued, Elements
    <3>3. Queued' = Queued \cup {g}
      <4>1. Elements(Append(queue, g)) = Elements(queue) \cup {g}
        BY <3>2, AppendElements
      <4>2. Queued' = Elements(Append(queue, g))
        BY <3>1 DEF Queued, Elements
      <4> QED BY <3>2, <4>1, <4>2
    <3>4. Alive' = Alive
      BY <3>1, <3>3 DEF Alive
    <3> QED BY <3>1, <3>4, Zenon
  <2>2. CASE \E g \in Id : Quit(g)
    <3>1. PICK g \in Id : /\ g \in waiting /\ g \in cancelled /\ waiting' = waiting \ {g}
                          /\ cancelled' = cancelled \ {g} /\ job' = [job EXCEPT ![g] = None]
                          /\ UNCHANGED <<queue, running, executed>>
      BY <2>2, Zenon DEF Quit, Ends, runner
    <3>2. Queued' = Queued /\ Alive' = Alive \ {g}
      <4>1. Queued' = Queued
        BY <3>1 DEF Queued
      <4>2. g \notin Queued /\ g # running
        BY <3>1 DEF IInv, Placed
      <4> QED BY <3>1, <4>1, <4>2 DEF Alive
    <3>3. Alive \subseteq Id /\ job \in [Id -> Job \cup {None}]
      BY AliveIsId DEF IInv, TypeOK
    <3> QED BY <3>1, <3>2, <3>3
  <2>3. CASE Receive
    <3>1. /\ running = None /\ queue # <<>> /\ running' = Head(queue) /\ queue' = Tail(queue)
          /\ executed' = FALSE /\ UNCHANGED <<job, cancelled, waiting>>
      BY <2>3 DEF Receive, sched
    <3>2. queue \in Seq(Id) /\ Queued = Elements(queue) /\ Injective(queue)
      BY QueueIsInjective DEF IInv, TypeOK
    <3>3. Queued' = Queued \ {Head(queue)} /\ Head(queue) \in Queued /\ Head(queue) \in Id
      <4>1. /\ Head(queue) \in Id /\ Head(queue) \in Elements(queue)
            /\ Elements(Tail(queue)) = Elements(queue) \ {Head(queue)}
        BY <3>1, <3>2, TailElements
      <4>2. Queued' = Elements(Tail(queue))
        BY <3>1 DEF Queued, Elements
      <4> QED BY <3>2, <4>1, <4>2
    <3>4. Alive' = Alive
      BY <3>1, <3>3, ConstantsAssumption DEF Alive
    <3> QED BY <3>1, <3>4
  <2> QED BY <2>1, <2>2, <2>3, Zenon
<1>4. Todays'
  BY <1>1, <1>2, <1>3, Zenon DEF Todays, EndsOf, Activation, Deactivation, WindowStart, WindowStop, When
<1>5. Due'
  BY <1>1, <1>2, <1>3 DEF Due
<1>6. \A i \in Alive : job[i].name \in EndNames /\ (i = running => executed = FALSE) =>
         i \in Alive' /\ job'[i] = job[i] /\ (i = running' => executed' = FALSE)
  BY <1>2, <1>3 DEF Todays
<1> QED BY <1>1, <1>2, <1>4, <1>5, <1>6, Carries, Zenon

(* run() executes an item: one that is an end of a window has not been     *)
(* cancelled, so it reaches the zone.                                      *)
LEMMA ExecuteW == ASSUME IInv, WInv, Execute PROVE WInv'
<1> SUFFICES ASSUME fails' = 0 PROVE Todays' /\ Due' /\ Promises' /\ Adding'
  BY DEF WInv
<1>1. /\ UNCHANGED <<clock, fails, ahead, epoch, job, cancelled, waiting, queue, running>>
      /\ running # None /\ clock \in Nat /\ ran \subseteq ran'
      /\ running \in cancelled \/ job[running] \in ran'
  BY DEF Execute, sched, IInv, TypeOK
<1>2. Todays /\ Due /\ Promises /\ Adding /\ Today' = Today
  BY <1>1 DEF WInv, Today
<1>3. Alive' = Alive /\ running \in Alive
  BY <1>1 DEF Alive, Queued
<1>4. Todays' /\ Due'
  BY <1>1, <1>2, <1>3, Zenon DEF Todays, Due, EndsOf, Activation, Deactivation, WindowStart, WindowStop, When
<1>5. \A i \in Alive : job[i].name \in EndNames =>
         job[i] \in ran' \/ (i \in Alive' /\ job'[i] = job[i] /\ (i = running' => executed' = FALSE))
  BY <1>1, <1>2, <1>3 DEF Todays
<1> QED BY <1>1, <1>2, <1>4, <1>5, Carries, Zenon

(* run() removes the name of what it executed: no other goroutine for the  *)
(* end of a window has that name.                                          *)
LEMMA FinishW == ASSUME IInv, WInv, Finish PROVE WInv'
<1> SUFFICES ASSUME fails' = 0 PROVE Todays' /\ Due' /\ Promises' /\ Adding'
  BY DEF WInv
<1> DEFINE n == job[running].name
<1>1. /\ UNCHANGED <<clock, fails, ahead, epoch, ran, waiting, queue>> /\ clock \in Nat
      /\ running # None /\ running' = None
      /\ cancelled' = (cancelled \cup Old(n)) \ {running} /\ job' = [job EXCEPT ![running] = None]
  BY DEF Finish, Ends, hist, IInv, TypeOK
<1>2. executed = TRUE
  BY Zenon DEF Finish, IInv, TypeOK
<1>3. Todays /\ Due /\ Promises /\ Adding /\ Today' = Today
  BY <1>1 DEF WInv, Today
<1>4. /\ running \in Alive /\ Alive' = Alive \ {running} /\ Alive \subseteq Id
      /\ job[running] \in Job /\ n \in Name
  <2>1. Alive \subseteq Id /\ running \in Alive
    BY <1>1, AliveIsId DEF IInv, TypeOK, Alive
  <2>2. Queued' = Queued /\ running \notin waiting \cup Queued /\ None \notin Alive
    BY <1>1, <2>1, ConstantsAssumption DEF Queued, IInv, Placed
  <2> QED BY <1>1, <2>1, <2>2 DEF Alive, IInv, Placed, Job
<1>5. \A i \in Alive' : i \in Alive /\ i # running /\ job'[i] = job[i]
  BY <1>1, <1>4 DEF IInv, TypeOK
<1>6. ASSUME NEW i \in Alive', job[i].name \in EndNames PROVE i \notin cancelled'
  <2>1. i \notin cancelled
    BY <1>3, <1>5, <1>6 DEF Todays
  <2>2. ASSUME i \in Old(n) PROVE FALSE
    <3>1. i = events[n] /\ i # None
      BY <2>2 DEF Old
    <3>2. job[i].name = n
      BY <1>4, <3>1 DEF IInv, Current
    <3>3. running \notin cancelled
      BY <1>3, <1>4, <1>6, <3>2 DEF Todays
    <3>4. events[n] = running
      BY <1>4, <3>3 DEF IInv, Current
    <3> QED BY <1>5, <3>1, <3>4
  <2> QED BY <1>1, <2>1, <2>2
<1> HIDE DEF n
<1>7. Todays'
  BY <1>1, <1>3, <1>5, <1>6 DEF Todays, EndsOf, Activation, Deactivation, WindowStart, WindowStop, When
<1>8. Due'
  BY <1>1, <1>3, <1>5 DEF Due
<1>9. \A i \in Alive : (i = running => executed = FALSE) =>
         i \in Alive' /\ job'[i] = job[i] /\ (i = running' => executed' = FALSE)
  BY <1>1, <1>2, <1>4, <1>5, ConstantsAssumption
<1> QED BY <1>1, <1>3, <1>7, <1>8, <1>9, Carries, Zenon

(* What the schedule gains under another name leaves the windows alone.    *)
LEMMA OthersW ==
  ASSUME IInv, WInv, UNCHANGED <<clock, fails, ahead, ran, epoch, queue, running, executed>>,
         \/ UNCHANGED sched
         \/ \E m \in Name \ EndNames : Remove(m)
         \/ \E j \in Job : j.name \notin EndNames /\ Add(j)
  PROVE  WInv'
<1> SUFFICES ASSUME fails' = 0 PROVE Todays' /\ Due' /\ Promises' /\ Adding'
  BY Zenon DEF WInv
<1>1. clock \in Nat /\ Todays /\ Due /\ Promises /\ Adding /\ Today' = Today
  BY DEF WInv, Today, IInv, TypeOK
<1>2. Queued' = Queued /\ Alive \subseteq Id /\ job \in [Id -> Job \cup {None}]
  BY AliveIsId, Zenon DEF Queued, IInv, TypeOK
<1>3. /\ \A i \in Alive : i \in Alive' /\ job'[i] = job[i] /\ (i \in waiting' <=> i \in waiting)
      /\ \A i \in Alive' : i \in Alive \/ (job'[i].name \notin EndNames /\ i \in waiting')
      /\ \A i \in Alive : job[i].name \in EndNames /\ i \notin cancelled => i \notin cancelled'
  <2>1. CASE UNCHANGED sched
    BY <1>2, <2>1, Zenon DEF sched, Alive
  <2>2. CASE \E m \in Name \ EndNames : Remove(m)
    <3>1. PICK m \in Name \ EndNames : Remove(m)
      BY <2>2, Zenon
    <3>2. Alive' = Alive /\ cancelled' = cancelled \cup Old(m) /\ UNCHANGED <<job, waiting>>
      BY <1>2, <3>1, Zenon DEF Remove, Alive
    <3>3. \A i \in Old(m) : job[i].name = m
      BY Zenon DEF Old, IInv, Current
    <3> QED BY <3>2, <3>3, Zenon
  <2>3. CASE ~UNCHANGED sched /\ \E j \in Job : j.name \notin EndNames /\ Add(j)
    <3>1. PICK j \in Job : j.name \notin EndNames /\ Add(j)
      BY <2>3, Zenon
    <3> DEFINE f == Free
    <3>2. /\ f \in Id /\ f \notin Alive /\ job' = [job EXCEPT ![f] = j]
          /\ waiting' = waiting \cup {f} /\ cancelled' = cancelled \cup Old(j.name)
      BY <2>3, <3>1, FreeIsFree, Zenon DEF Add
    <3> HIDE DEF f
    <3>3. Alive' = Alive \cup {f} /\ f # None
      BY <1>2, <3>2, ConstantsAssumption, Zenon DEF Alive
    <3>4. \A i \in Old(j.name) : job[i].name = j.name
      BY Zenon DEF Old, IInv, Current, Job
    <3>5. job'[f] = j /\ \A i \in Alive : job'[i] = job[i] /\ i # f
      BY <1>2, <3>2, Zenon
    <3> QED BY <3>1, <3>2, <3>3, <3>4, <3>5, Zenon
  <2> QED BY <2>1, <2>2, <2>3, Zenon
<1>4. Todays'
  BY <1>1, <1>3, Zenon DEF Todays, EndsOf, Activation, Deactivation, WindowStart, WindowStop, When
<1>5. Due'
  BY <1>1, <1>3, Zenon DEF Due
<1> QED BY <1>1, <1>3, <1>4, <1>5, Carries, Zenon

(* The Epoch RPC adds an end of today's window: it is scheduled already,   *)
(* or nothing is under its name.                                           *)
LEMMA EndAdded ==
  ASSUME IInv, Todays, Due, clock < WindowStart(Today), UNCHANGED <<clock, queue, running, executed, ran>>,
         NEW j \in EndsOf(Today), Add(j)
  PROVE  /\ Todays' /\ Due' /\ Handled(j)'
         /\ \A i \in Alive : i \in Alive' /\ job'[i] = job[i]
<1>1. /\ clock \in Nat /\ Today' = Today /\ Today \in Int /\ Alive \subseteq Id
      /\ job \in [Id -> Job \cup {None}] /\ events \in [Name -> Id \cup {None}]
  BY AliveIsId, TodayBounds DEF IInv, TypeOK, Today
<1>2. j \in Job /\ j.name \in EndNames /\ j.name \in Name /\ j.t > clock /\ j.t >= clock
  <2>1. j = Activation(Today) \/ j = Deactivation(Today)
    BY DEF EndsOf
  <2>2. j \in Job
    BY <1>1, <2>1, WindowJobs
  <2>3. j.name \in EndNames
    BY <1>1, <2>1, Windows, Zenon
  <2>4. /\ WindowStart(Today) \in Int /\ WindowStop(Today) \in Int
        /\ WindowStart(Today) <= WindowStop(Today)
        /\ j.t = WindowStart(Today) \/ j.t = WindowStop(Today)
    BY <1>1, <2>1, Windows, Zenon
  <2>5. j.t > clock /\ j.t >= clock
    BY <1>1, <2>4
  <2>6. j.name \in Name
    BY <2>2 DEF Job
  <2> QED BY <2>2, <2>3, <2>5, <2>6
<1>3. \A k \in EndsOf(Today) : k.name = j.name => k = j
  <2>1. Activation(Today).name # Deactivation(Today).name
    BY DEF Activation, Deactivation
  <2> QED BY <2>1 DEF EndsOf
<1>4. ASSUME events[j.name] # None PROVE Same(j)
  <2>1. events[j.name] \in Alive /\ job[events[j.name]].name = j.name
    BY <1>2, <1>4, Zenon DEF IInv, Current
  <2> QED BY <1>2, <1>3, <1>4, <2>1, Zenon DEF Same, Todays
<1>5. Queued' = Queued
  BY Zenon DEF Queued
<1>6. CASE Same(j)
  <2>1. UNCHANGED sched
    BY <1>6 DEF Add
  <2>2. Alive' = Alive /\ UNCHANGED <<job, waiting, cancelled>>
    BY <1>5, <2>1 DEF sched, Alive
  <2>3. Todays' /\ Due'
    BY <1>1, <2>2 DEF Todays, Due, EndsOf, Activation, Deactivation, WindowStart, WindowStop, When
  <2> DEFINE i == events[j.name]
  <2>4. i \in Alive /\ job[i] = j
    BY <1>2, <1>6, Zenon DEF Same, IInv, Current
  <2>5. i \in waiting
    BY <1>1, <1>2, <2>4 DEF Due, Job
  <2>6. i # running
    BY <2>5 DEF IInv, Placed
  <2>7. Handled(j)'
    <3> HIDE DEF i
    <3> QED BY <2>2, <2>4, <2>6 DEF Handled
  <2> QED BY <2>2, <2>3, <2>7
<1>7. CASE ~Same(j)
  <2> DEFINE f == Free
  <2>1. /\ f \in Id /\ f \notin Alive /\ job' = [job EXCEPT ![f] = j]
        /\ waiting' = waiting \cup {f} /\ cancelled' = cancelled \cup Old(j.name)
    BY <1>7, FreeIsFree DEF Add
  <2> HIDE DEF f
  <2>2. Alive' = Alive \cup {f} /\ f # None /\ f # running
    BY <1>5, <2>1, ConstantsAssumption DEF Alive
  <2>3. cancelled' = cancelled /\ f \notin cancelled
    BY <1>4, <1>7, <2>1, Zenon DEF Old, IInv, Placed
  <2>4. job'[f] = j /\ \A i \in Alive : job'[i] = job[i] /\ i # f
    BY <1>1, <2>1
  <2>5. Todays'
    <3>1. EndsOf(Today)' = EndsOf(Today) /\ clock' = clock
      BY <1>1 DEF EndsOf, Activation, Deactivation, WindowStart, WindowStop, When
    <3>2. ASSUME NEW i \in Alive', job'[i].name \in EndNames
          PROVE  job'[i] \in EndsOf(Today) /\ job'[i].t >= clock /\ i \notin cancelled'
      <4>1. CASE i = f
        BY <1>2, <2>3, <2>4, <4>1
      <4>2. CASE i \in Alive
        BY <2>3, <2>4, <3>2, <4>2 DEF Todays
      <4> QED BY <2>2, <4>1, <4>2, Zenon
    <3> QED BY <3>1, <3>2, Zenon DEF Todays
  <2>6. Due'
    BY <2>1, <2>2, <2>4 DEF Due
  <2>7. Handled(j)'
    BY <2>2, <2>4 DEF Handled
  <2> QED BY <2>2, <2>4, <2>5, <2>6, <2>7
<1> QED BY <1>6, <1>7, Zenon

LEMMA EpochAddsW == ASSUME IInv, WInv, EpochAdds PROVE WInv'
<1> SUFFICES ASSUME fails' = 0 PROVE Todays' /\ Due' /\ Promises' /\ Adding'
  BY DEF WInv
<1> DEFINE a == Activation(Today)
           b == Deactivation(Today)
<1>1. /\ epoch # <<>> /\ Add(Head(epoch)) /\ epoch' = Tail(epoch)
      /\ ahead' = IF Len(epoch) = 1 THEN ahead \cup {Head(epoch).t} ELSE ahead
      /\ UNCHANGED <<clock, queue, running, executed, fails, ran>> /\ clock \in Nat
  BY DEF EpochAdds, runner, IInv, TypeOK
<1>2. Todays /\ Due /\ Promises /\ Adding /\ Today' = Today /\ Today \in Nat
  BY <1>1, TodayBounds DEF WInv, Today
<1>3. clock < WindowStart(Today) /\ (epoch = <<a, b>> \/ (epoch = <<b>> /\ Handled(a)))
  BY <1>1, <1>2 DEF Adding
<1>4. Head(epoch) \in {a, b}
  BY <1>3
<1>5. /\ Todays' /\ Due'
      /\ \A i \in Alive : i \in Alive' /\ job'[i] = job[i]
  BY <1>1, <1>2, <1>3, <1>4, EndAdded, Zenon DEF EndsOf
<1>6. Head(epoch) = a => Handled(a)'
  BY <1>1, <1>2, <1>3, EndAdded, Zenon DEF EndsOf, Handled, Activation, WindowStart, When
<1>7. Head(epoch) = b => Handled(b)'
  BY <1>1, <1>2, <1>3, EndAdded, Zenon DEF EndsOf, Handled, Deactivation, WindowStop, When
<1>8. ASSUME NEW d \in Int
      PROVE  /\ Handled(Activation(d)) => Handled(Activation(d))'
             /\ Handled(Deactivation(d)) => Handled(Deactivation(d))'
  BY <1>1, <1>5, Zenon DEF Handled, Activation, Deactivation, WindowStart, WindowStop, When
<1>9. ASSUME NEW t \in ahead
      PROVE  \E d \in 0..Today' : t = WindowStop(d) /\ Handled(Activation(d))' /\ Handled(Deactivation(d))'
  <2>1. PICK d \in 0..Today : t = WindowStop(d) /\ Handled(Activation(d)) /\ Handled(Deactivation(d))
    BY <1>2 DEF Promises
  <2> QED BY <1>2, <1>8, <2>1
<1>10. CASE epoch = <<a, b>>
  <2>1. Head(epoch) = a /\ Tail(epoch) = <<b>> /\ Len(epoch) = 2
    BY <1>10
  <2>2. Promises'
    BY <1>1, <1>9, <2>1 DEF Promises, WindowStop, When
  <2>3. Adding'
    BY <1>1, <1>2, <1>3, <1>6, <2>1, Zenon DEF Adding, Deactivation, WindowStart, WindowStop, When
  <2> QED BY <1>5, <2>2, <2>3
<1>11. CASE epoch = <<b>> /\ Handled(a)
  <2>1. Head(epoch) = b /\ Tail(epoch) = <<>> /\ Len(epoch) = 1
    BY <1>11
  <2>2. Handled(a)' /\ Handled(b)'
    BY <1>2, <1>7, <1>8, <1>11, <2>1
  <2>3. ahead' = ahead \cup {WindowStop(Today)}
    <3>1. b.t = WindowStop(Today)
      BY DEF Deactivation
    <3> QED BY <1>1, <2>1, <3>1
  <2>4. Today \in 0..Today'
    BY <1>2
  <2>5. \E d \in 0..Today' : WindowStop(Today) = WindowStop(d) /\ Handled(Activation(d))' /\ Handled(Deactivation(d))'
    BY <1>2, <2>2, <2>4
  <2>6. Promises'
    BY <1>9, <2>3, <2>5 DEF Promises, WindowStop, When
  <2>7. Adding'
    BY <1>1, <2>1 DEF Adding
  <2> QED BY <1>5, <2>6, <2>7
<1> QED BY <1>3, <1>10, <1>11

LEMMA EpochW == ASSUME IInv, WInv, Epoch PROVE WInv'
<1> SUFFICES ASSUME fails' = 0 PROVE Todays' /\ Due' /\ Promises' /\ Adding'
  BY DEF WInv
<1>1. /\ epoch = <<>> /\ clock \in Nat
      /\ UNCHANGED <<clock, fails, ahead, ran, job, cancelled, waiting, queue, running, executed>>
  BY DEF Epoch, sched, runner, hist, IInv, TypeOK
<1>2. Todays /\ Due /\ Promises /\ Today' = Today /\ Alive' = Alive
  BY <1>1 DEF WInv, Today, Alive, Queued
<1>3. Todays' /\ Due' /\ Promises'
  <2>1. Todays' /\ Due'
    BY <1>1, <1>2, Zenon DEF Todays, Due, EndsOf, Activation, Deactivation, WindowStart, WindowStop, When
  <2>2. ASSUME NEW j PROVE Handled(j) => Handled(j)'
    BY <1>1, <1>2 DEF Handled
  <2>3. Promises'
    BY <1>1, <1>2, <2>2 DEF Promises, Activation, Deactivation, WindowStart, WindowStop, When
  <2> QED BY <2>1, <2>3
<1>4. Adding'
  BY <1>1, <1>2 DEF Epoch, EpochAhead, EpochNow, Adding, Activation, Deactivation, WindowStart, WindowStop, When
<1> QED BY <1>3, <1>4

(* Time moves on once nothing is due: the day does not change while an end *)
(* of a window is scheduled.                                               *)
LEMMA TickW == ASSUME SameDay, IInv, WInv, Tick PROVE WInv'
<1> SUFFICES ASSUME fails' = 0 PROVE Todays' /\ Due' /\ Promises' /\ Adding'
  BY DEF WInv
<1>1. /\ epoch = <<>> /\ clock \in Nat /\ clock' = clock + 1 /\ queue = <<>> /\ running = None
      /\ \A i \in waiting : job[i].t > clock
      /\ UNCHANGED <<fails, ahead, ran, job, cancelled, waiting, queue, running, executed, epoch>>
  BY DEF Tick, Idle, sched, runner, hist, IInv, TypeOK
<1>2. Todays /\ Due /\ Promises /\ Alive' = Alive /\ Alive = waiting
  BY <1>1 DEF WInv, Alive, Queued
<1>3. /\ Today \in Nat /\ Today * Day \in Int /\ Today * Day <= clock /\ clock < Today * Day + Day
      /\ Today' \in Nat /\ Today' * Day \in Int /\ Today' * Day <= clock + 1
      /\ clock + 1 < Today' * Day + Day
  <2>1. clock' \in Nat
    BY <1>1
  <2>2. Today' \in Nat /\ Today' * Day \in Int /\ Today' * Day <= clock' /\ clock' < Today' * Day + Day
    BY <2>1, DayBounds DEF Today
  <2> QED BY <1>1, <2>2, TodayBounds
<1>4. Day \in Int
  BY ConstantsAssumption
<1> DEFINE x == Today * Day
           y == Today' * Day
<1>x. /\ x \in Int /\ y \in Int /\ x <= clock /\ clock < x + Day
      /\ y <= clock + 1 /\ clock + 1 < y + Day
      /\ Today' < Today => y + Day <= x
      /\ Today < Today' => x + Day <= y
  BY <1>3, DaysApart
<1> HIDE DEF x, y
<1>5. Today <= Today'
  <2>1. ~(Today' < Today)
    BY <1>1, <1>4, <1>x
  <2> QED BY <1>3, <2>1
<1>6. ASSUME NEW i \in Alive, job[i].name \in EndNames
      PROVE  Today' = Today /\ job[i] \in EndsOf(Today) /\ job[i].t >= clock' /\ i \notin cancelled
  <2>1. job[i] \in EndsOf(Today) /\ i \notin cancelled /\ job[i].t > clock /\ job[i].t \in Int
    BY <1>1, <1>2, <1>6, Zenon DEF Todays, IInv, Placed, Job
  <2>2. /\ WindowStart(Today) \in Int /\ WindowStop(Today) \in Int
        /\ WindowStart(Today) <= WindowStop(Today) /\ WindowStop(Today) < x + Day
        /\ Activation(Today).t = WindowStart(Today) /\ Deactivation(Today).t = WindowStop(Today)
    BY <1>3, Windows DEF x
  <2>3. job[i].t <= WindowStop(Today)
    <3>1. job[i] = Activation(Today) \/ job[i] = Deactivation(Today)
      BY <2>1 DEF EndsOf
    <3>2. job[i].t = WindowStart(Today) \/ job[i].t = WindowStop(Today)
      BY <2>2, <3>1
    <3> QED BY <2>2, <3>2
  <2>4. ~(Today < Today') /\ job[i].t >= clock'
    <3>1. job[i].t >= clock + 1 /\ clock + 1 < x + Day
      BY <1>1, <1>4, <1>x, <2>1, <2>2, <2>3
    <3>2. ~(Today < Today')
      BY <1>1, <1>4, <1>x, <3>1
    <3> QED BY <1>1, <3>1, <3>2
  <2> QED BY <1>3, <1>5, <2>1, <2>4
<1>7. Todays'
  BY <1>1, <1>2, <1>6, Zenon DEF Todays, EndsOf, Activation, Deactivation, WindowStart, WindowStop, When
<1>8. Due'
  BY <1>1, <1>2 DEF Due
<1>9. Promises'
  <2>1. 0..Today \subseteq 0..Today'
    BY <1>3, <1>5
  <2>2. ASSUME NEW j PROVE Handled(j) => Handled(j)'
    BY <1>1, <1>2 DEF Handled
  <2> QED BY <1>1, <1>2, <2>1, <2>2, Zenon DEF Promises, Activation, Deactivation, WindowStart, WindowStop, When
<1>10. Adding'
  BY <1>1 DEF Adding
<1> QED BY <1>7, <1>8, <1>9, <1>10

LEMMA NextWInv == ASSUME SameDay, IInv, WInv, [Next]_vars PROVE WInv'
<1>1. CASE (\E i \in Id : Fire(i) \/ Quit(i)) \/ Receive
  BY <1>1, MovesW
<1>2. CASE Execute \/ Finish \/ Epoch \/ EpochAdds \/ Tick
  BY <1>2, ExecuteW, FinishW, EpochW, EpochAddsW, TickW
<1>3. CASE ExecuteFails \/ Restart \/ EpochFails
  <2>1. fails' = fails + 1 /\ fails \in Nat
    BY <1>3 DEF ExecuteFails, Restart, EpochFails, IInv, TypeOK
  <2> QED BY <2>1 DEF WInv
<1>4. CASE SetSchedule \/ Edit \/ UNCHANGED vars
  <2>1. UNCHANGED sched /\ UNCHANGED <<clock, fails, ahead, ran, epoch, queue, running, executed>>
    BY <1>4 DEF SetSchedule, Edit, vars, runner, hist
  <2> QED BY <2>1, OthersW
<1>5. CASE SetScheduleRemoves
  <2>1. /\ Remove("c") /\ "c" \in Name \ EndNames
        /\ UNCHANGED <<clock, fails, ahead, ran, epoch, queue, running, executed>>
    BY <1>5 DEF SetScheduleRemoves, runner, hist, Name, EndNames
  <2> QED BY <2>1, OthersW
<1>6. CASE SetScheduleAdds
  <2> DEFINE j == [name |-> "c-schedule-z-activate", t |-> timer, req |-> "ON"]
  <2>1. timer \in Int
    BY <1>6, ConstantsAssumption DEF SetScheduleAdds, IInv, TypeOK
  <2>2. /\ Add(j) /\ j \in Job /\ j.name \notin EndNames
        /\ UNCHANGED <<clock, fails, ahead, ran, epoch, queue, running, executed>>
    BY <1>6, <2>1 DEF SetScheduleAdds, runner, hist, Job, Name, Request, EndNames
  <2> HIDE DEF j
  <2> QED BY <2>2, OthersW
<1> QED BY <1>1, <1>2, <1>3, <1>4, <1>5, <1>6 DEF Next

(* A window that closes on the day of its sunset, and that an Epoch RPC    *)
(* scheduled ahead, is opened and closed, as long as no call fails:        *)
(* repeated RPCs and cron neither replace nor remove its ends (add, run,   *)
(* Epoch).                                                                 *)
THEOREM BothEndsHolds == SameDay => (Spec => []BothEnds)
<1> SUFFICES ASSUME SameDay PROVE Spec => []BothEnds
  OBVIOUS
<1>1. Init => IInv /\ WInv
  BY InitIInv, InitWInv
<1>2. IInv /\ WInv /\ [Next]_vars => IInv' /\ WInv'
  BY NextIInv, NextWInv
<1>3. IInv /\ WInv => BothEnds
  <2> SUFFICES ASSUME IInv, WInv, Idle, fails = 0, NEW t \in ahead, NEW e \in 0..Today, t = WindowStop(e)
               PROVE  /\ clock > WindowStart(e) => Activation(e) \in ran
                      /\ clock > WindowStop(e) => Deactivation(e) \in ran
    BY DEF BothEnds
  <2>1. clock \in Nat /\ Today \in Nat /\ Promises
    BY TodayBounds DEF IInv, TypeOK, WInv
  <2>2. PICK d \in 0..Today : t = WindowStop(d) /\ Handled(Activation(d)) /\ Handled(Deactivation(d))
    BY <2>1 DEF Promises
  <2>3. d \in Int /\ e \in Int
    BY <2>1
  <2>4. d = e
    BY <2>2, <2>3, StopsApart, Zenon
  <2>5. \A i \in Alive : job[i].t > clock
    BY DEF Idle, Alive, Queued
  <2>6. /\ Activation(e).t = WindowStart(e) /\ Deactivation(e).t = WindowStop(e)
        /\ WindowStart(e) \in Int /\ WindowStop(e) \in Int
    BY <2>3, Windows, Zenon
  <2> QED BY <2>1, <2>2, <2>4, <2>5, <2>6 DEF Handled
<1> QED BY <1>1, <1>2, <1>3, PTL DEF Spec
=============================================================================

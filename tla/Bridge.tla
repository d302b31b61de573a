-------------------------------- MODULE Bridge --------------------------------
(***************************************************************************)
(* How a Condition reaches a zone through the Active Computer Stack: the   *)
(* periodic evaluator and the ActivateCondition and Alert RPCs, the bridge *)
(* that turns a Remediation into pushes (modules/conditioner/bridge.go),   *)
(* the Computers that fill the stacks' entries (computer/fade.go and       *)
(* static.go) and the reconciler that composes them.  Zones that are not   *)
(* reconciled get the fade's values from the evaluator directly.           *)
(*                                                                         *)
(* One zone, and one Remediation for each Condition.  The interleavings    *)
(* inside the reconciler are the subject of Reconciler and those of        *)
(* applyDesired the subject of Conditioner: a reconcile is one step here,  *)
(* and Remediations without a Computer are on reconciled zones only.       *)
(* Brightness is in 1/508ths, colour temperature in Kelvin, time in units  *)
(* of the evaluator's choosing.                                            *)
(***************************************************************************)
EXTENDS Canonical, FiniteSets, SequencesExt

CONSTANTS
    Scenarios,           \* what the zone and its Conditions are, and what may happen
    EvaluationInterval,
    bridgeImperativeTTL,
    FadeBuffer,          \* the 30 s SuggestedTTL adds
    Late,                \* how late a tick or a timer may run
    MaxFlight,           \* bound on the Status patches under way at once
    Day, MaxNow,
    None

(* A scenario: is the zone reconciled, and its stacks shown in Status; the  *)
(* Conditions in the order the apiserver lists them, how the zone starts,   *)
(* and how often each outside event may happen.  A Condition has a name; what drives it besides the    *)
(* evaluator ("button", "sensor", "alert" or "none"); whether it has        *)
(* TimeIntervals; its fade's arguments or None; its active_state and the    *)
(* Scene of its active_scene, or None.                                      *)
ASSUME ConstantsAssumption ==
    /\ {EvaluationInterval, bridgeImperativeTTL, FadeBuffer, Day, MaxNow, MaxFlight} \subseteq Nat \ {0}
    /\ Late \in Nat
    /\ \A s \in Scenarios : \A c \in ToSet(s.list) : s.managed \/ c.fade # None

VARIABLES
    sc,      \* the scenario
    now, due,  \* the time, and the evaluator's next tick
    open,    \* the names of the Conditions whose TimeIntervals contain the time
    zone,    \* what the ZoneKeeper has applied
    snap,    \* the FadeSnapshot of the zone's fade, or None
    stack,   \* stack[axis]: Activations, the most recently pushed last
    last,    \* lastApplied, or None
    refl,    \* the reflection of the stacks in the Zone's Status
    job,     \* what the evaluator and the RPC goroutine are doing
    used,    \* how often each outside event has happened
    held     \* the brightness the present envelope of the fade wrote last, or None

vars == <<sc, now, due, open, zone, snap, stack, last, refl, job, used, held>>

-----------------------------------------------------------------------------
(* ApplyValues: a zero field claims nothing.                               *)

Zero == [state |-> "none", b |-> 0, k |-> 0, color |-> "none"]

Axes == <<"STATE", "BRIGHTNESS", "COLOR_TEMPERATURE", "COLOR">>
Axis == ToSet(Axes)

Field == [STATE |-> "state", BRIGHTNESS |-> "b", COLOR_TEMPERATURE |-> "k", COLOR |-> "color"]

Claims(v, x) == v[Field[x]] # Zero[Field[x]]

claimedAxes(v) == SelectSeq(Axes, LAMBDA x : Claims(v, x))

\* The field of v that belongs to axis x, put into t.
Put(t, v, x) == [t EXCEPT ![Field[x]] = v[Field[x]]]

Apply(z, v) == [f \in DOMAIN z |-> IF v[f] = Zero[f] THEN z[f] ELSE v[f]]

-----------------------------------------------------------------------------
(* The fade Computer.                                                      *)

parseFadeArgs(a) ==
    LET anchor == IF a.anchor = "" THEN "window" ELSE a.anchor
    IN  IF a.duration <= 0 \/ (anchor = "window" /\ a.start_at = None) THEN None
        ELSE [anchor |-> anchor, duration |-> a.duration, start |-> a.start_at,
              bTo |-> BrightnessCanonical(a.brightness_to),
              bFrom |-> BrightnessCanonical(a.brightness_from),
              kTo |-> ColorTempCanonical(a.color_temperature_to),
              kFrom |-> ColorTempCanonical(a.color_temperature_from),
              terminal |-> a.terminal_state]

\* What Status shows of the zone: the names nearest to what was applied.
CurrentBrightness == BrightnessCanonical(BrightnessNearestEnum(zone.b))
CurrentColorTemperatureKelvin == ColorTempCanonical(ColorTempNearestEnum(zone.k))

resolveFromValues(p, at) ==
    [at |-> at,
     b |-> IF p.bTo = 0 THEN 0 ELSE IF p.bFrom # 0 THEN p.bFrom ELSE CurrentBrightness,
     k |-> IF p.kTo = 0 THEN 0 ELSE IF p.kFrom # 0 THEN p.kFrom
           ELSE CurrentColorTemperatureKelvin]

\* Whether the envelope is over, and how much of it has passed.
Done(p, e, t) == t - e.at >= p.duration

\* A fade that runs on along its line.
ElapsedUnclamped(p, e, t) == t - e.at

Elapsed(p, e, t) == IF Done(p, e, t) THEN p.duration ELSE t - e.at

\* n / d, rounded half away from zero, for d > 0.
Round(n, d) == IF n >= 0 THEN (2 * n + d) \div (2 * d) ELSE - ((d - 2 * n) \div (2 * d))

\* A fade that is silent once its duration has passed.
interpolateSilent(p, e, t) ==
    LET el == Elapsed(p, e, t)
    IN  IF t - e.at > p.duration THEN Zero
        ELSE [Zero EXCEPT !.b = e.b + (el * (p.bTo - e.b)) \div p.duration,
                          !.state = IF Done(p, e, t) THEN p.terminal ELSE "none"]

interpolate(p, e, t) ==
    LET el == Elapsed(p, e, t)
        from(x, y) == IF x # 0 THEN x ELSE y
        b == from(p.bFrom, e.b)
        k == from(p.kFrom, e.k)
    IN  IF el < 0 THEN Zero
        ELSE [Zero EXCEPT
                !.b = IF p.bTo = 0 THEN 0 ELSE b + (el * (p.bTo - b)) \div p.duration,
                !.k = IF p.kTo = 0 THEN 0 ELSE Round(k * p.duration + el * (p.kTo - k), p.duration),
                !.state = IF Done(p, e, t) THEN p.terminal ELSE "none"]

\* The entry Compute works on when the store holds s, or None.
Entry(p, s, t) ==
    IF p.anchor = "window"
    THEN LET start == Day * (t \div Day) + p.start
         IN  IF t < start \/ t > start + p.duration THEN None
             ELSE IF s # None THEN s ELSE resolveFromValues(p, start)
    ELSE IF p.anchor = "event" THEN s ELSE None

\* Compute: the values, what it stores, and whether it then deletes the entry.
Compute(p, s, t) ==
    LET e == Entry(p, s, t)
    IN  [vals |-> IF e = None THEN Zero ELSE interpolate(p, e, t),
         snap |-> e,
         del |-> e # None /\ Done(p, e, t)]

SuggestedTTL(p) == p.duration + FadeBuffer

-----------------------------------------------------------------------------
(* The stacks and the reconciler.  An entry with vals is a static          *)
(* Computer's; one without is the fade's.                                  *)

Condition(n) == CHOOSE c \in ToSet(sc.list) : c.name = n

Expired(e) == e.ttl # 0 /\ now > e.at + e.ttl

Live(s) == SelectSeq(s, LAMBDA e : ~Expired(e))

\* The oldest of the highest priority.
TopOldest(s) == CHOOSE i \in DOMAIN s :
            \A j \in DOMAIN s : s[j].prio < s[i].prio \/ (s[j].prio = s[i].prio /\ i <= j)

\* Priority, then recency: the place of the top of s.
Top(s) == CHOOSE i \in DOMAIN s :
            \A j \in DOMAIN s : s[j].prio < s[i].prio \/ (s[j].prio = s[i].prio /\ j <= i)

SameId(e, f) == e.src = f.src /\ e.name = f.name

\* PUSH_POLICY_REFRESH: an entry of the same source keeps what it computes.
Push(s, e) ==
    LET same == {i \in DOMAIN s : SameId(s[i], e)}
    IN  IF same = {} THEN Append(s, e)
        ELSE LET i == CHOOSE i \in same : TRUE
             IN  Append(RemoveAt(s, i), [s[i] EXCEPT !.at = e.at, !.ttl = e.ttl])

\* What the reconciler gets from an entry while the store holds s.
Computed(e, s) ==
    IF e.vals # None THEN [vals |-> e.vals, snap |-> s]
    ELSE LET r == Compute(parseFadeArgs(Condition(e.name).fade), s, now)
         IN  [vals |-> r.vals, snap |-> IF r.del THEN None ELSE r.snap]

\* applyTopToValues, the axes in the order of Go's map.
applyTopToValues(stk, order) ==
    FoldLeft(LAMBDA acc, x :
                LET s == stk[x]
                    r == Computed(s[Top(s)], acc.snap)
                IN  [vals |-> Put(acc.vals, r.vals, x), snap |-> r.snap],
             [vals |-> Zero, snap |-> snap], order)

FadeOn(stk, x) == stk[x] # <<>> /\ stk[x][Top(stk[x])].vals = None

\* The orders that make a difference: those of the axes a fade is on top of.
Orders(stk) ==
    LET still == SelectSeq(Axes, LAMBDA x : stk[x] # <<>> /\ ~FadeOn(stk, x))
    IN  {still \o o : o \in SetToSeqs({x \in Axis : FadeOn(stk, x)})}

Count(event) == used[event] < sc[event] /\ used' = [used EXCEPT ![event] = @ + 1]

(* Status reflection.  policy: the zone has been pushed to since the start; *)
(* pending, timer: the patch that waits for the debounce, and its timer;    *)
(* flight: patches on their way to the apiserver, each on a goroutine of    *)
(* its own; status: what Status.ReconcilerStack shows.  A body has the      *)
(* depth of each stack and the source on its top.                           *)

buildStatusPatchBody(stk) ==
    [x \in Axis |->
       [depth |-> Len(stk[x]),
        top |-> IF stk[x] = <<>> THEN None
                ELSE LET e == stk[x][Top(stk[x])] IN <<e.src, e.name>>]]

\* The body that waits is replaced; its timer goes on.
enqueueStatusPatch(r, body) ==
    [r EXCEPT !.pending = body, !.timer = IF r.pending = None THEN TRUE ELSE @]

\* A pass of a zone that was never pushed to returns at once.
reflectStatus(stk, err) ==
    LET known == refl.policy \/ \E x \in Axis : stk[x] # <<>>
        r == [refl EXCEPT !.policy = known]
    IN  IF sc.reflect /\ known /\ ~err
        THEN enqueueStatusPatch(r, buildStatusPatchBody([x \in Axis |-> Live(stk[x])]))
        ELSE r

\* The timer's goroutine leaves the pending entry in the map.
flushKeepsPending ==
    /\ refl.timer /\ Len(refl.flight) < MaxFlight
    /\ refl' = [refl EXCEPT !.timer = FALSE, !.flight = Append(@, refl.pending)]
    /\ UNCHANGED <<sc, now, due, open, zone, snap, stack, last, job, used, held>>

flushStatusPatch ==
    /\ refl.timer /\ Len(refl.flight) < MaxFlight
    /\ refl' = [refl EXCEPT !.timer = FALSE, !.pending = None,
                            !.flight = Append(@, refl.pending)]
    /\ UNCHANGED <<sc, now, due, open, zone, snap, stack, last, job, used, held>>

\* Patches arrive in any order; an error is only logged.
applyStatusPatch ==
    /\ \E i \in DOMAIN refl.flight :
         \/ /\ refl' = [refl EXCEPT !.status = refl.flight[i], !.flight = RemoveAt(@, i)]
            /\ UNCHANGED used
         \/ /\ now <= sc.until /\ Count("fails")
            /\ refl' = [refl EXCEPT !.flight = RemoveAt(@, i)]
    /\ UNCHANGED <<sc, now, due, open, zone, snap, stack, last, job, held>>

NoPatch == [policy |-> FALSE, pending |-> None, timer |-> FALSE, flight |-> <<>>,
            status |-> [x \in Axis |-> [depth |-> 0, top |-> None]]]

\* ReconcileZone with the stacks stk; err: ApplyValues fails.
ReconcileZone(stk, err) ==
    LET live == [x \in Axis |-> Live(stk[x])]
    IN  \E order \in Orders(live) :
          LET r == applyTopToValues(live, order)
              quiet == r.vals = last \/ r.vals = Zero
          IN  /\ stack' = live
              /\ snap' = r.snap
              /\ err => ~quiet /\ (sc.reflect => now <= sc.until)
              /\ refl' = reflectStatus(stk, err)
              /\ IF quiet \/ err THEN UNCHANGED <<zone, last, held>>
                 ELSE /\ zone' = Apply(zone, r.vals)
                      /\ last' = r.vals
                      /\ held' = IF snap # None /\ r.vals.b # 0 /\ FadeOn(live, "BRIGHTNESS")
                                 THEN r.vals.b ELSE held
              /\ IF err THEN Count("fails") ELSE UNCHANGED used

-----------------------------------------------------------------------------
(* The bridge.                                                             *)

bridgePushPriority == 50
bridgeScenePriority == 60
\* No higher than a Scene of an open window.
ImperativeAsScene == bridgeScenePriority - 1

bridgeImperativePriority == 100
bridgeAlertPriority == 200

bridgeTTL == 3 * EvaluationInterval

within(c) == ~c.gated \/ c.name \in open

resolveToggleState == IF zone.state = "ON" THEN "OFF" ELSE "ON"

\* The values of active_state and active_scene; a toggle is no state.
Static(c, state) ==
    [state |-> IF state = "toggle" THEN "none" ELSE state,
     b |-> IF c.scene = None THEN 0 ELSE BrightnessCanonical(c.scene.b),
     k |-> IF c.scene = None THEN 0 ELSE ColorTempCanonical(c.scene.k),
     color |-> IF c.scene = None THEN "none" ELSE c.scene.color]

Activation(c, x, v, src, prio, ttl) ==
    [axis |-> x,
     e |-> [src |-> src, name |-> c.name, prio |-> prio, at |-> now, ttl |-> ttl,
            vals |-> IF c.fade = None THEN Put(Zero, v, x) ELSE None]]

Pushes(c, v, src, prio, ttl) ==
    LET axes == claimedAxes(v)
    IN  [i \in DOMAIN axes |-> Activation(c, axes[i], v, src, prio, ttl)]

bridgeReconciledRemediation(c, v) ==
    Pushes(c, v, "TIME_WINDOW",
           IF c.fade = None THEN bridgeScenePriority ELSE bridgePushPriority, bridgeTTL)

Source(c) == IF c.driver = "alert" THEN "ALERT" ELSE "BINDING"

\* A push without TTL.
ttlForever(c) == 0

ttlFor(c) == IF c.fade = None THEN bridgeImperativeTTL ELSE SuggestedTTL(parseFadeArgs(c.fade))

bridgeImperativeActivate(c, v) ==
    Pushes(c, v, Source(c),
           IF Source(c) = "ALERT" THEN bridgeAlertPriority ELSE bridgeImperativePriority,
           ttlFor(c))

-----------------------------------------------------------------------------
(* The goroutines: the evaluator, and one that serves RPCs.                *)

Idle == [pc |-> "idle"]

Proc == {"eval", "rpc"}

Job(pc, todo) == [pc |-> pc, todo |-> todo, seen |-> used.turns, c |-> None, vals |-> Zero,
                  at |-> None, del |-> FALSE, pushes |-> <<>>]

Becomes(p, j) == job' = [job EXCEPT ![p] = j]

\* The evaluator goes on with the next Condition, an RPC returns.
Onward(p, j) == IF p = "eval" THEN [Job("next", j.todo) EXCEPT !.seen = j.seen] ELSE Idle

ToPush(p, j, pushes) ==
    IF pushes = <<>> THEN Onward(p, j) ELSE [j EXCEPT !.pc = "push", !.pushes = pushes]

Bridged(p, c, v) ==
    IF p = "eval" THEN bridgeReconciledRemediation(c, v) ELSE bridgeImperativeActivate(c, v)

\* The first half of Compute: fetch or seed the snapshot, and interpolate.
Fetch(p, j, c) ==
    LET r == Compute(parseFadeArgs(c.fade), snap, now)
    IN  /\ snap' = r.snap
        /\ held' = IF snap = None THEN None ELSE held
        /\ Becomes(p, [j EXCEPT !.pc = "clear", !.c = c, !.vals = r.vals, !.del = r.del,
                                !.at = IF r.snap = None THEN None ELSE r.snap.at])
        /\ UNCHANGED used

\* active_state and active_scene; the Scene may not be found.
Resolve(p, j, c, state) ==
    /\ \/ UNCHANGED used /\ Becomes(p, ToPush(p, j, Bridged(p, c, Static(c, state))))
       \/ /\ c.scene # None
          /\ Count("fails")
          /\ Becomes(p, ToPush(p, j, Bridged(p, c, Static([c EXCEPT !.scene = None], state))))
    /\ UNCHANGED <<snap, held>>

-----------------------------------------------------------------------------
(* The evaluator.                                                          *)

Tick ==
    /\ job["eval"].pc = "idle" /\ now >= due
    /\ due' = due + EvaluationInterval
    /\ Becomes("eval", Job("next", sc.list))
    /\ UNCHANGED <<sc, now, open, zone, snap, stack, last, refl, used, held>>

\* What the evaluator leaves to bindings, to alerts and to open windows.
Skipped(c) ==
    \/ sc.managed /\ c.driver = "sensor"
    \/ c.fade = None /\ (~c.gated \/ c.driver = "alert")
    \/ ~within(c)
    \/ c.fade # None /\ parseFadeArgs(c.fade) = None

Evaluate ==
    LET j == job["eval"]
        c == Head(j.todo)
        k == [j EXCEPT !.todo = Tail(@)]
    IN  /\ j.pc = "next" /\ j.todo # <<>>
        /\ \/ Skipped(c) /\ Becomes("eval", k) /\ UNCHANGED <<snap, held, used>>
           \/ ~Skipped(c) /\ c.fade # None /\ Fetch("eval", k, c)
           \/ ~Skipped(c) /\ c.fade = None /\ Resolve("eval", k, c, c.state)
        /\ UNCHANGED <<sc, now, due, open, zone, stack, last, refl>>

\* The second half of Compute: at the end of the envelope its snapshot goes.
Clear(p) ==
    LET j == job[p]
    IN  /\ j.pc = "clear"
        /\ snap' = IF j.del THEN None ELSE snap
        /\ Becomes(p, IF sc.managed THEN ToPush(p, j, Bridged(p, j.c, j.vals))
                      ELSE [j EXCEPT !.pc = "apply"])
        /\ UNCHANGED <<sc, now, due, open, zone, stack, last, refl, used, held>>

\* evaluateCompute's ApplyValues, on a zone that is not reconciled.
ApplyValues ==
    LET j == job["eval"]
    IN  /\ j.pc = "apply"
        /\ Becomes("eval", Onward("eval", j))
        /\ \/ /\ zone' = Apply(zone, j.vals)
              /\ held' = IF j.vals.b # 0 /\ snap # None /\ snap.at = j.at THEN j.vals.b ELSE held
              /\ UNCHANGED used
           \/ Count("fails") /\ UNCHANGED <<zone, held>>
        /\ UNCHANGED <<sc, now, due, open, snap, stack, last, refl>>

\* The reconcile at the end of evaluate.
Evaluated ==
    LET j == job["eval"]
    IN  /\ j.pc = "next" /\ j.todo = <<>>
        /\ Becomes("eval", Idle)
        /\ IF sc.managed THEN \E err \in BOOLEAN : ReconcileZone(stack, err)
           ELSE UNCHANGED <<zone, snap, stack, last, refl, used, held>>
        /\ UNCHANGED <<sc, now, due, open>>

\* PushActivation: the entry, then a reconcile.  An RPC stops at an error.
PushActivation(p) ==
    LET j == job[p]
        a == Head(j.pushes)
        k == [j EXCEPT !.pushes = Tail(@)]
    IN  /\ j.pc = "push"
        /\ \E err \in BOOLEAN :
             /\ ReconcileZone([stack EXCEPT ![a.axis] = Push(@, a.e)], err)
             /\ Becomes(p, IF err /\ p = "rpc" THEN Idle ELSE ToPush(p, k, k.pushes))
        /\ UNCHANGED <<sc, now, due, open>>

-----------------------------------------------------------------------------
(* The RPCs.                                                               *)

\* ActivateCondition seeds an event-anchored fade first; Alert does not.
Activate(c) ==
    /\ job["rpc"].pc = "idle" /\ c.driver # "none" /\ now <= sc.until
    /\ Count("acts")
    /\ Becomes("rpc", [Job("activate", <<>>) EXCEPT !.c = c])
    /\ IF c.driver # "alert" /\ c.fade # None /\ c.fade.anchor = "event"
            /\ parseFadeArgs(c.fade) # None
       THEN snap' = resolveFromValues(parseFadeArgs(c.fade), now) /\ held' = None
       ELSE UNCHANGED <<snap, held>>
    /\ UNCHANGED <<sc, now, due, open, zone, stack, last, refl>>

activateRemediation ==
    LET j == job["rpc"]
        c == j.c
        state == IF c.state = "toggle" THEN resolveToggleState ELSE c.state
        gated == ~within(c) \/ ~sc.managed \/ (c.fade # None /\ parseFadeArgs(c.fade) = None)
    IN  /\ j.pc = "activate"
        /\ \/ gated /\ Becomes("rpc", Idle) /\ UNCHANGED <<snap, held, used>>
           \/ ~gated /\ c.fade # None /\ Fetch("rpc", j, c)
           \/ ~gated /\ c.fade = None /\ Resolve("rpc", j, c, state)
        /\ UNCHANGED <<sc, now, due, open, zone, stack, last, refl>>

\* The alert is resolved: RemoveActivation.
Resolved(c) ==
    /\ job["rpc"].pc = "idle" /\ c.driver = "alert" /\ sc.managed
    /\ \E x \in Axis : \E e \in ToSet(stack[x]) : e.src = "ALERT" /\ e.name = c.name
    /\ \E err \in BOOLEAN :
         ReconcileZone([x \in Axis |-> SelectSeq(stack[x], LAMBDA e :
                                          ~(e.src = "ALERT" /\ e.name = c.name))], err)
    /\ UNCHANGED <<sc, now, due, open, job>>

-----------------------------------------------------------------------------
(* Timers, the clock and the world.                                        *)

TimerFires ==
    /\ \E x \in Axis : \E e \in ToSet(stack[x]) : Expired(e)
    /\ \E err \in BOOLEAN : ReconcileZone(stack, err)
    /\ UNCHANGED <<sc, now, due, open, job>>

\* A tick, an RPC or a patch is over before the next half minute.
Pass ==
    /\ now < MaxNow /\ now < due + Late
    /\ \A p \in Proc : job[p].pc = "idle"
    /\ ~refl.timer /\ refl.flight = <<>>
    /\ \A x \in Axis : \A e \in ToSet(stack[x]) : e.ttl # 0 => now <= e.at + e.ttl + Late
    /\ now' = now + 1
    /\ UNCHANGED <<sc, due, open, zone, snap, stack, last, refl, job, used, held>>

Turn(c) ==
    /\ c.gated /\ Count("turns")
    /\ open' = IF c.name \in open THEN open \ {c.name} ELSE open \cup {c.name}
    /\ UNCHANGED <<sc, now, due, zone, snap, stack, last, refl, job, held>>

\* Another client of the ZoneKeeper.
Touch ==
    /\ Count("touches")
    /\ zone' = [zone EXCEPT !.state = resolveToggleState, !.b = BrightnessCanonical(2)]
    /\ UNCHANGED <<sc, now, due, open, snap, stack, last, refl, job, held>>

Restart ==
    /\ Count("restarts")
    /\ due' = now /\ snap' = None /\ last' = None /\ held' = None
    /\ stack' = [x \in Axis |-> <<>>]
    /\ job' = [p \in Proc |-> Idle]
    /\ \E shown \in {refl.status} \cup ToSet(refl.flight) : refl' = [NoPatch EXCEPT !.status = shown]
    /\ UNCHANGED <<sc, now, open, zone>>

Rest ==
    /\ now = MaxNow /\ due > now
    /\ \A p \in Proc : job[p].pc = "idle"
    /\ UNCHANGED vars

Init ==
    /\ sc \in Scenarios
    /\ now = 0 /\ due = 0
    /\ open = {c.name : c \in {d \in ToSet(sc.list) : d.gated}}
    /\ zone = sc.zone
    /\ snap = None /\ last = None /\ held = None
    /\ stack = [x \in Axis |-> <<>>]
    /\ job = [p \in Proc |-> Idle]
    /\ refl = NoPatch
    /\ used = [acts |-> 0, fails |-> 0, turns |-> 0, touches |-> 0, restarts |-> 0]

Step(p) == Clear(p) \/ PushActivation(p)

Next ==
    \/ Tick \/ Evaluate \/ ApplyValues \/ Evaluated \/ activateRemediation
    \/ \E p \in Proc : Step(p)
    \/ \E c \in ToSet(sc.list) : Activate(c) \/ Resolved(c) \/ Turn(c)
    \/ TimerFires \/ flushStatusPatch \/ applyStatusPatch
    \/ Pass \/ Touch \/ Restart \/ Rest

Spec == Init /\ [][Next]_vars

Ticking == now >= due \/ job["eval"].pc # "idle"

(* Time passes; the evaluator's ticker, the timers and every goroutine that *)
(* has started go on.  Weak fairness of the goroutines with its ENABLED     *)
(* written out: their steps are those that change job.                      *)
FairSpec ==
    /\ Spec
    /\ WF_vars(Pass)
    /\ []<>(~\E x \in Axis : \E e \in ToSet(stack[x]) : Expired(e))
    /\ []<>(~refl.timer) /\ []<>(refl.flight = <<>>)
    /\ <>[]Ticking => []<><<job'["eval"] # job["eval"]>>_vars
    /\ <>[](job["rpc"].pc # "idle") => []<><<job'["rpc"] # job["rpc"]>>_vars

-----------------------------------------------------------------------------
(* Properties.                                                             *)

Fades == {c \in ToSet(sc.list) : c.fade # None /\ parseFadeArgs(c.fade) # None}

(* While one envelope of a fade lasts, every brightness that it writes is   *)
(* at least as close to its target as the one before, whichever of the     *)
(* evaluator, the pushes, the timers and the reconciler's passes computes  *)
(* it, and however late.                                                   *)
FadesTowards ==
    [][\A c \in Fades : held # None /\ held' # None =>
         LET to == parseFadeArgs(c.fade).bTo
         IN  /\ Dist(held', to) <= Dist(held, to)
             /\ (held' - to) * (held - to) >= 0]_vars

\* Nothing disturbs the one activation of this scenario.
Undisturbed == sc.acts = 1 /\ sc.fails = 0 /\ sc.turns = 0 /\ sc.touches = 0 /\ sc.restarts = 0

(* On a zone that is not reconciled, an event-anchored fade that nothing    *)
(* disturbs ends in its target brightness and its terminal state, even     *)
(* though no tick of the evaluator falls on the end of its duration.       *)
FadeEnds ==
    (~sc.managed /\ Undisturbed /\ snap # None)
        ~> \E c \in Fades : zone.state = c.fade.terminal_state
                            /\ zone.b = BrightnessCanonical(c.fade.brightness_to)

\* computeZoneTarget of the shadow resolver: the last claim in list order.
computeZoneTarget ==
    FoldLeft(LAMBDA t, c : IF /\ c.driver # "alert" /\ c.fade = None /\ c.gated
                              /\ within(c) /\ Static(c, c.state).state # "none"
                           THEN c.state ELSE t,
             "none", sc.list)

Sensors == {c \in ToSet(sc.list) : c.driver = "sensor" /\ c.gated}

Overridden == \E e \in ToSet(stack["STATE"]) : e.src # "TIME_WINDOW"

(* The stacks and the shadow resolver agree: when a tick that saw no window *)
(* turn ends, and no binding or alert holds the zone, the zone is in the   *)
(* state the read-only composition of shadow.go finds, although one picks  *)
(* by priority and recency with TTLs and the other by list order alone.    *)
ShadowAgrees ==
    [][(/\ sc.managed /\ Sensors = {}
        /\ job["eval"].pc = "next" /\ job'["eval"].pc = "idle"
        /\ job["eval"].seen = used.turns
        /\ used'.fails = 0 /\ used.touches = 0 /\ used'.restarts = used.restarts
        /\ ~Overridden' /\ computeZoneTarget # "none")
       => zone'.state = computeZoneTarget]_vars

(* An override does not outlive its cause: once presses and alerts stop, a  *)
(* zone they moved goes back to what its open window asks for, when the    *)
(* TTL of the push runs out.                                               *)
Reasserts ==
    (/\ sc.managed /\ sc.fails = 0 /\ sc.touches = 0 /\ sc.turns = 0 /\ Sensors = {}
     /\ computeZoneTarget # "none" /\ zone.state # computeZoneTarget)
        ~> zone.state = computeZoneTarget

Reflected == refl.status = buildStatusPatchBody([x \in Axis |-> Live(stack[x])])

(* Status.ReconcilerStack catches up with the stacks: patches that wait for *)
(* the debounce, overtake each other, fail or are skipped after a failed   *)
(* ApplyValues are made good by the reconcile of a later tick, on a zone   *)
(* that was pushed to since the process started (reflectStatus).           *)
StatusFollows ==
    (sc.reflect /\ refl.policy /\ ~Reflected) ~> (Reflected \/ ~refl.policy)

(* What a button press or an alert asks for is what the zone is in when the *)
(* RPC returns, unless an alert outranks it.                               *)
PressWins ==
    [][LET j == job["rpc"]
       IN  (/\ j.pc = "push" /\ job'["rpc"].pc = "idle" /\ used' = used
            /\ Head(j.pushes).axis = "STATE" /\ Head(j.pushes).e.vals # None
            /\ used.touches = 0
            /\ Head(j.pushes).e.src = "ALERT"
                 \/ \A e \in ToSet(stack["STATE"]) : e.src # "ALERT")
           => zone'.state = Head(j.pushes).e.vals.state]_vars
=============================================================================

----------------------------- MODULE Conditioner -----------------------------
(***************************************************************************)
(* The imperative path of the Conditioner (modules/conditioner/             *)
(* conditioner.go, evaluator.go) for one zone that is not reconciled: the  *)
(* Alert and ActivateCondition RPCs, the periodic evaluator and the check  *)
(* that closes alert windows, all of which change the zone through         *)
(* applyDesired and its per-Condition cache.                               *)
(*                                                                         *)
(* alertActive and condState are keyed by (condition, zone); with one zone *)
(* the key is the Condition.  Scheduled requests bypass the cache: they    *)
(* are among the outside movers here.                                      *)
(***************************************************************************)
EXTENDS Integers, Sequences, SequencesExt

CONSTANTS
    Rpc,        \* the goroutines that serve RPCs
    Alerts,     \* the alerts that Conditions match
    Lists,      \* the lists of Conditions the apiserver may hold
    Windows,    \* the TimeIntervals that Remediations name
    Grace, Refresh,  \* OOBGracePeriod and ApplyDesiredRefreshAge, in ticks
    MaxFail,    \* bound on failing RPCs and status reads
    MaxTurn,    \* bound on windows opening and closing
    Movers,     \* what other clients of the ZoneKeeper leave the zone as
    None

ASSUME ConstantsAssumption ==
    /\ Grace \in Nat /\ Refresh \in Nat /\ Grace < Refresh
    /\ MaxFail \in Nat /\ MaxTurn \in Nat

(* A Condition has a name, the set of what drives it (alerts, "binding")   *)
(* and its Remediations, each with its windows, what it asks for when      *)
(* active and inactive, what its Computer asks for, and whether it steps   *)
(* the brightness.  A request sets the zone's state, its scene or both;    *)
(* Nothing is nil.                                                         *)
Nothing == [state |-> "UNSPECIFIED", scene |-> "none"]

(* The goroutines of running(): the timer loop and the evaluator.           *)
Proc == Rpc \cup {"timer", "evaluator"}

VARIABLES
    list,     \* the Conditions
    open,     \* the windows that contain the present time
    zone,     \* the ZoneKeeper's state and scene
    status,   \* Status.State as the informer cache has it
    cache,    \* condState: request and its age, or None
    tracked,  \* alertActive: the Remediation tracked for a Condition, or None
    job,      \* job[p]: what goroutine p is doing
    fails, turns,
    calm      \* no other client moves the zone any more

vars == <<list, open, zone, status, cache, tracked, job, fails, turns, calm>>

Names == UNION {{c.name : c \in ToSet(l)} : l \in Lists}

States == {"UNSPECIFIED", "ON", "OFF", "OFFTIMER", "COLOR", "RANDOMCOLOR"}

-----------------------------------------------------------------------------
(* Remediations.                                                           *)

within(r) == r.windows = {} \/ r.windows \cap open # {}

Doing == {"ON", "OFFTIMER", "COLOR", "RANDOMCOLOR"}

\* zoneState: "toggle" is no state.
zoneState(s) == IF s \in States THEN s ELSE "UNSPECIFIED"

activateRequest(r) == [r.active EXCEPT !.state = zoneState(@)]

deactivateRequest(r) == r.inactive

inferNothing(r) == Nothing

inferDefaultInactive(r) ==
    IF zoneState(r.active.state) \in Doing THEN [Nothing EXCEPT !.state = "OFF"] ELSE Nothing

\* forceDeactivate
forceRequest(r) ==
    IF deactivateRequest(r) # Nothing THEN deactivateRequest(r) ELSE inferDefaultInactive(r)

resolveToggleState == IF status \in Doing THEN "OFF" ELSE "ON"

\* What the ZoneKeeper's RPCs do to the zone.
Apply(req) == [state |-> IF req.state = "UNSPECIFIED" THEN zone.state ELSE req.state,
               scene |-> IF req.scene = "none" THEN zone.scene ELSE req.scene]

-----------------------------------------------------------------------------
(* A goroutine works through todo, a sequence of <<condition, remediation>>. *)

Idle == [pc |-> "idle"]

Work(kind, items) ==
    IF items = <<>> THEN Idle
    ELSE [pc |-> "next", kind |-> kind, todo |-> items, req |-> Nothing, age |-> 0,
          prev |-> None, then |-> "none"]

Becomes(p, j) == job' = [job EXCEPT ![p] = j]

Items(l, P(_, _)) ==
    FlattenSeq([i \in DOMAIN l |->
        LET c == l[i]
            rs == SelectSeq(c.rems, LAMBDA r : P(c, r))
        IN  [k \in DOMAIN rs |-> <<c, rs[k]>>]])

Cond(p) == job[p].todo[1][1]
Rem(p) == job[p].todo[1][2]

Skip(j) == Work(j.kind, Tail(j.todo))

\* After a Remediation's request: tracking or forgetting it, or the next one.
Finish(j, err) ==
    IF j.then = "track" /\ ~err THEN [j EXCEPT !.pc = "track"]
    ELSE IF j.then = "forget" THEN [j EXCEPT !.pc = "forget"]
    ELSE Skip(j)

\* Enters applyDesired, which returns at once for a nil request.
Desire(j, req, then) ==
    LET k == [j EXCEPT !.req = req, !.then = then]
    IN  IF req = Nothing THEN Finish(k, FALSE) ELSE [k EXCEPT !.pc = "lookup"]

Init ==
    /\ list \in Lists
    /\ open \in SUBSET Windows
    /\ zone = [state |-> "OFF", scene |-> "none"]
    /\ status = "UNSPECIFIED"
    /\ cache = [n \in Names |-> None]
    /\ tracked = [n \in Names |-> None]
    /\ job = [p \in Proc |-> Idle]
    /\ fails = 0 /\ turns = 0 /\ calm = FALSE

-----------------------------------------------------------------------------
(* The entry points.                                                       *)

matchCondition(c, a) == a \in c.driven

Alert(p, s, a) ==
    /\ job[p].pc = "idle"
    /\ Becomes(p, Work(s, Items(list, LAMBDA c, r : matchCondition(c, a))))
    /\ UNCHANGED <<list, open, zone, status, cache, tracked, fails, turns, calm>>

ActivateCondition(p) ==
    /\ job[p].pc = "idle" /\ ~calm
    /\ \E i \in DOMAIN list :
          /\ "binding" \in list[i].driven
          /\ Becomes(p, Work("press", Items(<<list[i]>>, LAMBDA c, r : TRUE)))
    /\ UNCHANGED <<list, open, zone, status, cache, tracked, fails, turns, calm>>

\* The windows of alert-driven Conditions gate the Alert RPC only.
Evaluated(c, r) ==
    r.compute # Nothing \/ (r.windows # {} /\ c.driven \cap Alerts = {})

Evaluate ==
    /\ job["evaluator"].pc = "idle"
    /\ Becomes("evaluator", Work("tick", Items(list, Evaluated)))
    /\ UNCHANGED <<list, open, zone, status, cache, tracked, fails, turns, calm>>

\* The check decides with one reading of the clock, before it acts.
WindowCheck ==
    /\ job["timer"].pc = "idle"
    /\ LET shut == {c \in ToSet(list) : tracked[c.name] # None /\ ~within(tracked[c.name])}
       IN  \E s \in SetToSeqs(shut) :
             Becomes("timer", Work("check", [i \in DOMAIN s |-> <<s[i], tracked[s[i].name]>>]))
    /\ UNCHANGED <<list, open, zone, status, cache, tracked, fails, turns, calm>>

-----------------------------------------------------------------------------
(* The next Remediation, by the entry point that walks the list.           *)

Untrack(p) == tracked' = [tracked EXCEPT ![Cond(p).name] = None]

Fire(p) ==
    /\ job[p].kind = "firing"
    /\ IF within(Rem(p))
       THEN /\ Becomes(p, [job[p] EXCEPT !.pc = "gate",
                             !.then = IF Rem(p).windows # {} THEN "track" ELSE "none"])
            /\ UNCHANGED tracked
       ELSE /\ Becomes(p, Desire(job[p], forceRequest(Rem(p)), "none"))
            /\ Untrack(p)

Resolve(p) ==
    /\ job[p].kind = "resolved"
    /\ Becomes(p, Desire(job[p], deactivateRequest(Rem(p)), "none"))
    /\ Untrack(p)

Press(p) ==
    /\ job[p].kind = "press"
    /\ Becomes(p, [job[p] EXCEPT !.pc = "gate"])
    /\ UNCHANGED tracked

\* evaluateCompute calls ApplyValues without the cache.
Tick(p) ==
    /\ job[p].kind = "tick"
    /\ Becomes(p,
         IF Rem(p).compute = Nothing THEN [job[p] EXCEPT !.pc = "gate"]
         ELSE IF within(Rem(p)) THEN [job[p] EXCEPT !.pc = "direct", !.req = Rem(p).compute]
         ELSE Skip(job[p]))
    /\ UNCHANGED tracked

Shut(p) ==
    /\ job[p].kind = "check"
    /\ Becomes(p, Desire(job[p], forceRequest(Rem(p)), "forget"))
    /\ UNCHANGED tracked

Take(p) ==
    /\ job[p].pc = "next"
    /\ Fire(p) \/ Resolve(p) \/ Press(p) \/ Tick(p) \/ Shut(p)
    /\ UNCHANGED <<list, open, zone, status, cache, fails, turns, calm>>

(* activateRemediation looks at the window again; a brightness step goes    *)
(* straight to the ZoneKeeper, a toggle is resolved from Status.            *)
Activate(p, toggle) ==
    /\ LET r == Rem(p)
           toggled == IF r.active.state = "toggle"
                      THEN [r EXCEPT !.active.state = toggle] ELSE r
       IN  Becomes(p,
             IF ~within(r) THEN Finish(job[p], FALSE)
             ELSE IF r.delta THEN [job[p] EXCEPT !.pc = "direct",
                                                 !.req = [Nothing EXCEPT !.state = "ON"]]
             ELSE Desire(job[p], activateRequest(toggled), job[p].then))
    /\ UNCHANGED <<list, open, zone, status, cache, tracked, turns, calm>>

Gate(p) ==
    /\ job[p].pc = "gate"
    /\ Activate(p, resolveToggleState)
    /\ UNCHANGED fails

(* Reading Status fails: a toggle turns the zone on. *)
ToggleFails(p) ==
    /\ job[p].pc = "gate" /\ Rem(p).active.state = "toggle" /\ fails < MaxFail
    /\ fails' = fails + 1
    /\ Activate(p, "ON")

-----------------------------------------------------------------------------
(* applyDesired.                                                           *)

ExecRequest(j) ==
    [j EXCEPT !.pc = IF j.req.scene # "none" THEN "scene" ELSE "state"]

FreshForever(e, req) == e # None /\ e.req = req

Fresh(e, req) == e # None /\ e.age < Refresh /\ e.req = req

\* now is read here; prev is a copy.
Lookup(p) ==
    /\ job[p].pc = "lookup"
    /\ LET e == cache[Cond(p).name]
           j == [job[p] EXCEPT !.age = 0, !.prev = e]
       IN  Becomes(p, IF Fresh(e, j.req) THEN [j EXCEPT !.pc = "oob"] ELSE ExecRequest(j))
    /\ UNCHANGED <<list, open, zone, status, cache, tracked, fails, turns, calm>>

zoneStatusDiffers(s) == status # "UNSPECIFIED" /\ status # s

(* A redundant request is suppressed unless Status shows that somebody else *)
(* moved the zone; entries younger than the grace period are trusted.       *)
Oob(p) ==
    /\ job[p].pc = "oob"
    /\ LET e == job[p].prev
           n == Cond(p).name
       IN  IF e.req.state # "UNSPECIFIED" /\ e.age >= Grace /\ zoneStatusDiffers(e.req.state)
           THEN /\ cache' = [cache EXCEPT ![n] = None]
                /\ Becomes(p, ExecRequest(job[p]))
           ELSE /\ Becomes(p, Finish(job[p], FALSE))
                /\ UNCHANGED cache
    /\ UNCHANGED <<list, open, zone, status, tracked, fails, turns, calm>>

(* Reading Status fails: no drift is assumed. *)
OobFails(p) ==
    /\ job[p].pc = "oob" /\ fails < MaxFail
    /\ fails' = fails + 1
    /\ Becomes(p, Finish(job[p], FALSE))
    /\ UNCHANGED <<list, open, zone, status, cache, tracked, turns, calm>>

(* execRequest: SetScene first, then SetState. *)
SetScene(p) ==
    /\ job[p].pc = "scene"
    /\ zone' = Apply([job[p].req EXCEPT !.state = "UNSPECIFIED"])
    /\ Becomes(p, [job[p] EXCEPT !.pc = IF job[p].req.state = "UNSPECIFIED"
                                        THEN "record" ELSE "state"])
    /\ UNCHANGED <<list, open, status, cache, tracked, fails, turns, calm>>

SetState(p) ==
    /\ job[p].pc = "state"
    /\ zone' = Apply([job[p].req EXCEPT !.scene = "none"])
    /\ Becomes(p, [job[p] EXCEPT !.pc = "record"])
    /\ UNCHANGED <<list, open, status, cache, tracked, fails, turns, calm>>

(* AdjustBrightness or ApplyValues. *)
Direct(p) ==
    /\ job[p].pc = "direct"
    /\ zone' = Apply(job[p].req)
    /\ Becomes(p, Finish(job[p], FALSE))
    /\ UNCHANGED <<list, open, status, cache, tracked, fails, turns, calm>>

(* A call fails, before or after the ZoneKeeper acted on it: nothing is     *)
(* recorded and the rest of the request is not sent.                       *)
CallFails(p) ==
    /\ job[p].pc \in {"scene", "state", "direct"} /\ fails < MaxFail
    /\ fails' = fails + 1
    /\ zone' \in {zone, Apply(CASE job[p].pc = "scene" -> [job[p].req EXCEPT !.state = "UNSPECIFIED"]
                                [] job[p].pc = "state" -> [job[p].req EXCEPT !.scene = "none"]
                                [] OTHER -> job[p].req)}
    /\ Becomes(p, Finish(job[p], TRUE))
    /\ UNCHANGED <<list, open, status, cache, tracked, turns, calm>>

Record(p) ==
    /\ job[p].pc = "record"
    /\ cache' = [cache EXCEPT ![Cond(p).name] = [req |-> job[p].req, age |-> job[p].age]]
    /\ Becomes(p, Finish(job[p], FALSE))
    /\ UNCHANGED <<list, open, zone, status, tracked, fails, turns, calm>>

-----------------------------------------------------------------------------
(* alertActive, under its own mutex.  The check forgets a Remediation       *)
(* whether or not it could be deactivated.                                 *)
Track(p) ==
    /\ job[p].pc = "track"
    /\ tracked' = [tracked EXCEPT ![Cond(p).name] = Rem(p)]
    /\ Becomes(p, Skip(job[p]))
    /\ UNCHANGED <<list, open, zone, status, cache, fails, turns, calm>>

Forget(p) ==
    /\ job[p].pc = "forget"
    /\ Untrack(p)
    /\ Becomes(p, Skip(job[p]))
    /\ UNCHANGED <<list, open, zone, status, cache, fails, turns, calm>>

-----------------------------------------------------------------------------
(* The surroundings.                                                       *)

(* The informer catches up with the Status the ZoneKeeper wrote. *)
Sync ==
    /\ status' = zone.state
    /\ UNCHANGED <<list, open, zone, cache, tracked, job, fails, turns, calm>>

Older(n) == IF n < Refresh THEN n + 1 ELSE n

Pass ==
    /\ cache' = [n \in Names |-> IF cache[n] = None THEN None
                                 ELSE [cache[n] EXCEPT !.age = Older(@)]]
    /\ job' = [p \in Proc |-> IF job[p].pc \in {"idle", "next", "gate"} THEN job[p]
                              ELSE [job[p] EXCEPT !.age = Older(@)]]
    /\ UNCHANGED <<list, open, zone, status, tracked, fails, turns, calm>>

Turn(w) ==
    /\ turns < MaxTurn
    /\ turns' = turns + 1
    /\ open' = IF w \in open THEN open \ {w} ELSE open \cup {w}
    /\ UNCHANGED <<list, zone, status, cache, tracked, job, fails, calm>>

Move ==
    /\ ~calm
    /\ zone' \in Movers
    /\ UNCHANGED <<list, open, status, cache, tracked, job, fails, turns, calm>>

CalmDown ==
    /\ ~calm
    /\ calm' = TRUE
    /\ UNCHANGED <<list, open, zone, status, cache, tracked, job, fails, turns>>

Continue(p) ==
    \/ Take(p) \/ Gate(p) \/ Lookup(p) \/ Oob(p) \/ SetScene(p) \/ SetState(p)
    \/ Direct(p) \/ Record(p) \/ Track(p) \/ Forget(p)

Next ==
    \/ \E p \in Rpc : \/ \E a \in Alerts : Alert(p, "firing", a) \/ Alert(p, "resolved", a)
                       \/ ActivateCondition(p)
    \/ Evaluate \/ WindowCheck
    \/ \E p \in Proc : Continue(p) \/ ToggleFails(p) \/ OobFails(p) \/ CallFails(p)
    \/ Sync \/ Pass \/ Move \/ CalmDown
    \/ \E w \in Windows : Turn(w)

Spec == Init /\ [][Next]_vars

(* Goroutines run on, the tickers fire, the informer catches up and time    *)
(* passes.  Alerts arrive as they please.                                   *)
FairSpec ==
    /\ Spec
    /\ \A p \in Proc : WF_vars(Continue(p))
    /\ WF_vars(Evaluate) /\ WF_vars(WindowCheck) /\ WF_vars(Sync) /\ WF_vars(Pass)

-----------------------------------------------------------------------------
(* Properties.                                                             *)

Rems == UNION {ToSet(c.rems) : c \in ToSet(list)}

Closed == calm /\ \A r \in Rems : ~within(r)

Refired == \E p \in Rpc : /\ job[p].pc = "next" /\ job[p].kind = "firing"
                          /\ Rem(p).active.state \in Doing

(* Once the windows stay closed and nobody else moves the zone, an alert   *)
(* that keeps firing brings the zone to rest in a safe state, whatever     *)
(* was in progress when they closed, whichever calls failed, whatever the  *)
(* cache believes and whether or not the Remediation says what inactive    *)
(* means (Alert's firing-outside-window branch, forceDeactivate).          *)
SafeAfterClose ==
    <>[]Closed /\ []<>Refired => <>[](zone.state \notin Doing)

Agrees(req) ==
    /\ req.state # "UNSPECIFIED" => zone.state = req.state
    /\ req.scene # "none" => zone.scene = req.scene

(* The only Condition, driven by its window.                               *)
Alone(r) ==
    /\ Len(list) = 1 /\ list[1].rems = <<r>> /\ list[1].driven \cap Alerts = {}
    /\ r.windows # {} /\ r.compute = Nothing /\ ~r.delta /\ r.active.state # "toggle"

(* While its window stays open and nobody else moves the zone any more,    *)
(* a time-windowed Condition gets the zone to the state and the scene it   *)
(* asks for, and it stays there: the cache neither hides a zone that       *)
(* somebody else moved nor a request that half failed (evaluate,           *)
(* applyDesired).                                                          *)
Asserted ==
    \A r \in UNION {UNION {ToSet(c.rems) : c \in ToSet(l)} : l \in Lists} :
       <>[](Alone(r) /\ within(r) /\ calm) => <>[]Agrees(r.active)
=============================================================================

------------------------------ MODULE Computers ------------------------------
(***************************************************************************)
(* The Computers of modules/conditioner/computer that turn a time or a     *)
(* Prometheus answer into values for a zone: ramp, circadian,              *)
(* sun_color_temperature, rotate_colors, query and prom_scalar, and the    *)
(* sun-relative windows of modules/conditioner/sun.go.  The fade and the   *)
(* static Computer are in Bridge.                                          *)
(*                                                                         *)
(* Time is counted in quarter hours of UTC.  The first four Computers are  *)
(* functions of the time and are asked at every tick.  The last two ask    *)
(* Prometheus: the evaluator and the bridge may have such a Compute        *)
(* running at the same time, each keeps the last good answer by its        *)
(* arguments, and any fetch may fail.  An argument that does not parse is  *)
(* None.                                                                   *)
(***************************************************************************)
EXTENDS Canonical, FiniteSets

CONSTANTS
    Scenarios,  \* a place's sun, the Remediations evaluated, the callers, how long
    Day,        \* quarter hours in a day
    None

ASSUME DayAssumption == Day \in Nat \ {0}

VARIABLES
    sc,     \* the scenario
    now,    \* the time
    calls,  \* calls[w]: the Compute the caller w is waiting in, or None
    cache,  \* what query and prom_scalar keep: hashed arguments and values
    out,    \* out[j]: what the last Compute of j returned, None for an error
    last,   \* the job, the outcome and the time of the last fetch that ended, or None
    good    \* good[j]: what j's last successful fetch gave since the start, or None

vars == <<sc, now, calls, cache, out, last, good>>

Zero == [state |-> 0, b |-> 0, v |-> 0, c |-> 0, k |-> 0, color |-> 0]

\* n / d rounded half away from zero, and truncated towards zero, for d > 0.
Round(n, d) == IF n >= 0 THEN (2 * n + d) \div (2 * d) ELSE - ((d - 2 * n) \div (2 * d))
Trunc(n, d) == IF n >= 0 THEN n \div d ELSE - ((- n) \div d)

-----------------------------------------------------------------------------
(* ramp: a step of a table between two names, over a daily window in the    *)
(* arguments' own timezone (tz quarter hours ahead of UTC).                 *)

interpolateIndex(from, to, n, d) ==
    IF from = 0 \/ to = 0 THEN to ELSE Round(from * d + n * (to - from), d)

\* The day is the one of UTC.
StartTodayUTC(a, t) == Day * (t \div Day) + a.start_at - a.tz

StartToday(a, t) == Day * ((t + a.tz) \div Day) + a.start_at - a.tz

Ramp(a, t) ==
    LET start == StartToday(a, t)
        at    == interpolateIndex(a.from, a.to, t - start, a.duration)
    IN  IF a.duration <= 0 \/ a.start_at = None THEN None
        ELSE IF t < start \/ t > start + a.duration THEN Zero
        ELSE IF a.field = None \/ a.from = None \/ a.to = None THEN None
        ELSE IF a.field = "brightness" THEN [Zero EXCEPT !.b = at]
        ELSE [Zero EXCEPT !.c = at]

-----------------------------------------------------------------------------
(* The sun.  SunriseSunset gives the rise and the set that belong to a UTC   *)
(* date; the set, and at far western places the rise, may be on the next.   *)

SunriseSunset(d) == [rise |-> d * Day + sc.rise, set |-> d * Day + sc.set]

Date(t) == t \div Day

bucketFor(t, sun) ==
    IF sun.rise - 2 <= t /\ t < sun.rise THEN 1
    ELSE IF sun.rise <= t /\ t < sun.rise + 8 THEN 2
    ELSE IF sun.rise + 8 <= t /\ t < sun.set - 8 THEN 3
    ELSE IF sun.set - 8 <= t /\ t < sun.set + 2 THEN 4
    ELSE 0

SunColorTemperature(t) ==
    LET today     == bucketFor(t, SunriseSunset(Date(t)))
        yesterday == bucketFor(t, SunriseSunset(Date(t) - 1))
    IN  [Zero EXCEPT !.c = IF today # 0 THEN today
                           ELSE IF yesterday # 0 THEN yesterday ELSE 5]

clampKelvin(k) == IF k < 1500 THEN 1500 ELSE IF k > 10000 THEN 10000 ELSE k

Anchors(sun, a) ==
    << <<sun.rise - 2, a.night>>, <<sun.rise, 2700>>, <<sun.rise + 8, 5000>>,
       <<(sun.rise + sun.set) \div 2, a.noon>>,
       <<sun.set - 8, 4500>>, <<sun.set, 3000>>,
       <<sun.set + 2, a.evening>>, <<sun.set + 4, a.night>> >>

(* The stable sort by time puts i before j when its time is earlier, or the *)
(* same and i comes first; the segment that holds t runs from the last      *)
(* anchor not after t to the first one after it.                            *)
kelvinFor(t, sun, a) ==
    LET as == Anchors(sun, a)
        Before(i, j) == as[i][1] < as[j][1] \/ (as[i][1] = as[j][1] /\ i < j)
        past == {i \in DOMAIN as : as[i][1] <= t}
        next == DOMAIN as \ past
        p == as[CHOOSE i \in past : \A j \in past \ {i} : Before(j, i)]
        n == as[CHOOSE i \in next : \A j \in next \ {i} : Before(i, j)]
    IN  IF past = {} \/ (next = {} /\ p[1] < t) THEN None
        ELSE IF next = {} THEN clampKelvin(p[2] + a.bias)
        ELSE clampKelvin(a.bias + Round(p[2] * (n[1] - p[1]) + (n[2] - p[2]) * (t - p[1]),
                                        n[1] - p[1]))

\* The Kelvin value is what counts; the name goes with it.
resultFor(k) == [Zero EXCEPT !.k = k, !.c = ColorTempNearestEnum(k)]

Circadian(a, t) ==
    LET today     == kelvinFor(t, SunriseSunset(Date(t)), a)
        yesterday == kelvinFor(t, SunriseSunset(Date(t) - 1), a)
    IN  IF a = None THEN None
        ELSE resultFor(IF today # None THEN today
                       ELSE IF yesterday # None THEN yesterday
                       ELSE clampKelvin(a.night + a.bias))

-----------------------------------------------------------------------------
(* Sun-relative windows of a Remediation's TimeIntervals.                   *)

\* The sunset belongs to the day that has just ended.
sunEventSetBefore(event, t) ==
    IF event = "sunrise" THEN SunriseSunset(Date(t)).rise ELSE SunriseSunset(Date(t) - 1).set

sunEvent(event, t) ==
    LET sun == SunriseSunset(Date(t))
    IN  CASE event = "sunrise"  -> sun.rise
          [] event = "sunset"   -> sun.set
          [] event = "noon"     -> (sun.rise + sun.set) \div 2
          [] event = "midnight" -> (sun.set + SunriseSunset(Date(t) + 1).rise) \div 2

inSunWindow(w, t) ==
    LET at == sunEvent(w.event, t)
    IN  at - w.before <= t /\ t <= at + w.after

-----------------------------------------------------------------------------
(* rotate_colors: one colour for each interval since the epoch.             *)

Bucket(a, t) == t \div a.interval

\* The generator seeded with the bucket: some function of it.
IntN(n, bucket) == (bucket * bucket + bucket \div 2) % n

RotateColors(a, t) ==
    IF a = None \/ a.pool = 0 \/ a.interval < 1 THEN None
    ELSE [Zero EXCEPT !.color = 1 + IF a.mode = "sequential" THEN Bucket(a, t) % a.pool
                                    ELSE IntN(a.pool, Bucket(a, t))]

-----------------------------------------------------------------------------
(* query and prom_scalar.                                                   *)

\* A linear map of the answer, clamped to the declared output bounds.
interpolate(a, in) ==
    LET sign == IF a.inMax > a.inMin THEN 1 ELSE -1
        x    == a.outMin + Trunc(sign * (in - a.inMin) * (a.outMax - a.outMin),
                                 sign * (a.inMax - a.inMin))
        lo   == IF a.outMin < a.outMax THEN a.outMin ELSE a.outMax
        hi   == a.outMin + a.outMax - lo
    IN  IF ~a.clamp THEN x ELSE IF x < lo THEN lo ELSE IF x > hi THEN hi ELSE x

assignAxis(a, x) == IF a.axis = "brightness" THEN [Zero EXCEPT !.v = x] ELSE [Zero EXCEPT !.k = x]

\* The arguments that are checked before Prometheus is asked.
Valid(j) == IF j.kind = "query" THEN j.a.query # None
            ELSE j.a.query # None /\ j.a.axis # None /\ j.a.inMin # j.a.inMax

\* What an answer means; on_true and on_false are parsed when they are needed.
Meaning(j, value) ==
    IF j.kind = "query" THEN IF value > 0 THEN j.a.on_true ELSE j.a.on_false
    ELSE assignAxis(j.a, interpolate(j.a, value))

hasOnErrorArgs(j) == j.a.on_error # Zero

\* A key that leaves the arguments other than the expression out.
hashQuery(j) == j.a.query

\* All the arguments, and the Condition and the zone the evaluator adds to them.
hashArgs(j) == j

Cached(j) == {e \in cache : e.kind = j.kind /\ e.key = hashArgs(j)}

\* Compute after the fetch: the fail-safe, else the cache, else an error.
Result(j, value) ==
    IF value # None THEN Meaning(j, value)
    ELSE IF hasOnErrorArgs(j) THEN j.a.on_error
    ELSE IF Cached(j) # {} THEN (CHOOSE e \in Cached(j) : TRUE).vals ELSE None

Store(j, vals) == (cache \ Cached(j)) \cup {[kind |-> j.kind, key |-> hashArgs(j), vals |-> vals]}

-----------------------------------------------------------------------------
Asks(j) == j.kind \in {"query", "prom_scalar"}

\* Compute of a Computer that needs nothing but the time.
Compute(j, t) ==
    CASE j.kind = "ramp"                  -> Ramp(j.a, t)
      [] j.kind = "circadian"             -> Circadian(j.a, t)
      [] j.kind = "sun_color_temperature" -> SunColorTemperature(t)
      [] j.kind = "rotate_colors"         -> RotateColors(j.a, t)
      [] OTHER                            -> None

Init ==
    /\ sc \in Scenarios
    /\ now = sc.from
    /\ calls = [w \in sc.callers |-> None]
    /\ cache = {}
    /\ out = [j \in sc.jobs |-> Compute(j, now)]
    /\ last = None
    /\ good = [j \in sc.jobs |-> None]

(* The next tick of the evaluator.  The Computes of the one before are over *)
(* and, where the scenario says so, none of them was left out.              *)
Tick ==
    /\ now < sc.until
    /\ \A w \in sc.callers : calls[w] = None
    /\ sc.every => last # None /\ last.at = now
    /\ now' = now + 1
    /\ out' = [j \in sc.jobs |-> IF Asks(j) THEN out[j] ELSE Compute(j, now')]
    /\ UNCHANGED <<sc, calls, cache, last, good>>

\* Compute of a job that asks Prometheus: its arguments are in order, the request goes out.
Call(w, j) ==
    /\ Asks(j) /\ calls[w] = None /\ Valid(j)
    /\ calls' = [calls EXCEPT ![w] = [job |-> j, at |-> now]]
    /\ UNCHANGED <<sc, now, cache, out, last, good>>

Misconfigured(j) ==
    /\ Asks(j) /\ ~Valid(j)
    /\ out' = [out EXCEPT ![j] = None]
    /\ last' = [job |-> j, failed |-> FALSE, at |-> now]
    /\ UNCHANGED <<sc, now, calls, cache, good>>

(* Fetch returns: None stands for every failure (no connection, a status    *)
(* other than 200, a body that does not parse, a query that failed), 0      *)
(* also for an empty vector.  Values are of the time the request names.     *)
Fetch(c) == IF sc.answers = {} THEN {c.at * sc.step} ELSE sc.answers

Answer(w) ==
    /\ calls[w] # None
    /\ \E value \in Fetch(calls[w]) :
         LET j    == calls[w].job
             vals == Result(j, value)
             ok   == value # None /\ vals # None
         IN  /\ out' = [out EXCEPT ![j] = vals]
             /\ cache' = IF ok THEN Store(j, vals) ELSE cache
             /\ good' = IF ok THEN [good EXCEPT ![j] = vals] ELSE good
             /\ last' = [job |-> j, failed |-> value = None, at |-> calls[w].at]
    /\ calls' = [calls EXCEPT ![w] = None]
    /\ UNCHANGED <<sc, now>>

\* A new process: NewQuery and NewPromScalar start with empty caches.
Restart ==
    /\ sc.restarts
    /\ calls' = [w \in sc.callers |-> None]
    /\ cache' = {}
    /\ out' = [j \in sc.jobs |-> Compute(j, now)]
    /\ last' = None
    /\ good' = [j \in sc.jobs |-> None]
    /\ UNCHANGED <<sc, now>>

\* The end of the time looked at.
Rest == now = sc.until /\ UNCHANGED vars

Next ==
    \/ Tick
    \/ \E w \in sc.callers, j \in sc.jobs : Call(w, j)
    \/ \E j \in sc.jobs : Misconfigured(j)
    \/ \E w \in sc.callers : Answer(w)
    \/ Restart
    \/ Rest

Spec == Init /\ [][Next]_vars

-----------------------------------------------------------------------------
(* While the metric behind a prom_scalar rises, the brightness, its name    *)
(* and the byte sent to the device, or the Kelvin value, its name and the   *)
(* mireds, only ever move from out_min towards out_max, and a value that    *)
(* is set is never reported as UNSPECIFIED.                                 *)
NeverStepsBack(j) ==
    (j.kind = "prom_scalar" /\ sc.answers = {} /\ out[j] # None /\ out'[j] # None) =>
      LET up == (j.a.outMin <= j.a.outMax) <=> (j.a.inMin < j.a.inMax)
          r  == IF up THEN out[j] ELSE out'[j]
          s  == IF up THEN out'[j] ELSE out[j]
      IN  IF j.a.axis = "brightness"
          THEN /\ r.v <= s.v
               /\ BrightnessNearestEnum(r.v) <= BrightnessNearestEnum(s.v)
               /\ BrightVal(r.v, 0) <= BrightVal(s.v, 0)
               /\ s.v > 0 => BrightnessNearestEnum(s.v) \in Brightness
          ELSE /\ r.k <= s.k
               /\ r.k > 0 => /\ ColorTempNearestEnum(s.k) <= ColorTempNearestEnum(r.k)
                             /\ KelvinToMireds(s.k) <= KelvinToMireds(r.k)

\* The day is at least six hours long.
LongDay == sc.set - sc.rise >= 24

(* The circadian curve has no cliffs: from one quarter hour to the next it  *)
(* moves by at most 300 K, through dusk, through the night floor and        *)
(* through midnight UTC, wherever in the local day that falls, and it stays *)
(* within its clamp.                                                        *)
NoCliff(j) ==
    (j.kind = "circadian" /\ LongDay /\ out[j] # None /\ out'[j] # None) =>
      Dist(out[j].k, out'[j].k) <= 300 /\ out'[j].k \in 1500..10000

(* sun_color_temperature goes through FIRSTLIGHT, MORNING, DAY,             *)
(* LATEAFTERNOON and EVENING in this order, day after day, and skips none,  *)
(* although the date of UTC may change in any of them.                      *)
SunInOrder(j) ==
    (j.kind = "sun_color_temperature" /\ LongDay) =>
      out'[j].c \in {out[j].c, 1 + (out[j].c % 5)}

(* The two readers of the sun agree: as long as no midnight UTC comes       *)
(* between, the sun-relative windows from 30 minutes before sunrise to two  *)
(* hours after it, and from two hours before sunset to 30 minutes after it, *)
(* are open exactly in the buckets of the same extent (the windows include  *)
(* their last instant).                                                     *)
SunAgrees ==
    \A j \in sc.jobs :
        (j.kind = "sun_color_temperature" /\ LongDay) =>
            /\ 2 <= sc.rise /\ sc.rise + 8 < Day =>
                 (out[j].c \in {1, 2} <=>
                    inSunWindow([event |-> "sunrise", before |-> 2, after |-> 7], now))
            /\ 8 <= sc.set /\ sc.set + 2 < Day =>
                 (out[j].c = 4 <=>
                    inSunWindow([event |-> "sunset", before |-> 8, after |-> 1], now))

Level(r) == IF r.b # 0 THEN r.b ELSE r.c

(* A ramp moves from its first name towards its last and never back, and    *)
(* when it falls silent it has arrived, unless its window runs over         *)
(* midnight of its own timezone; the date of UTC has no part in it.         *)
RampArrives(j) ==
    (j.kind = "ramp" /\ out[j] \notin {None, Zero} /\ j.a.from # 0) =>
      IF out'[j] = Zero
      THEN j.a.start_at + j.a.duration < Day => Level(out[j]) = j.a.to
      ELSE /\ Dist(Level(out'[j]), j.a.to) <= Dist(Level(out[j]), j.a.to)
           /\ Dist(Level(out'[j]), j.a.from) >= Dist(Level(out[j]), j.a.from)

(* rotate_colors shows every colour of its pool in turn, for one interval   *)
(* each, across midnight as well; in random mode the colour never changes   *)
(* within an interval.                                                      *)
TakesTurns(j) ==
    (j.kind = "rotate_colors" /\ out[j] # None /\ now' # now) =>
      IF now' % j.a.interval # 0 THEN out'[j] = out[j]
      ELSE j.a.mode = "sequential" =>
             out'[j].color = 1 + (out[j].color % j.a.pool)

(* When Prometheus cannot be asked, a Remediation gets its declared         *)
(* fail-safe whatever was cached before; without one it gets the result of  *)
(* its own last successful fetch, never that of another Remediation with    *)
(* the same query, however many Computes run at once; and an error only if  *)
(* there has been none since the start.                                     *)
LastKnownGood ==
    (last # None /\ last.failed) =>
        out[last.job] = IF last.job.a.on_error # Zero THEN last.job.a.on_error
                        ELSE good[last.job]

(* From one quarter hour to the next the result of every kind of curve     *)
(* moves only the way its computer promises: prom_scalar with its metric,  *)
(* circadian without cliffs, the buckets of the sun in their order, a ramp *)
(* towards its end and rotate_colors through its pool, whatever midnight   *)
(* of UTC or of another timezone falls in between.                         *)
Curves ==
    [][\A j \in sc.jobs : /\ NeverStepsBack(j) /\ NoCliff(j) /\ SunInOrder(j)
                          /\ RampArrives(j) /\ TakesTurns(j)]_vars
=============================================================================

----------------------------- MODULE MCComputers -----------------------------
(***************************************************************************)
(* Small instances of Computers: two days for the Computers that follow    *)
(* the time, at places whose sun rises and sets at different hours of UTC, *)
(* a sweep of a metric through the range of each axis, and an outage of    *)
(* Prometheus with two callers.                                            *)
(***************************************************************************)
EXTENDS Computers

Scene(rise, set, from, until, jobs) ==
    [rise |-> rise, set |-> set, from |-> from, until |-> until, jobs |-> jobs,
     callers |-> {}, answers |-> {}, step |-> 0, restarts |-> FALSE, every |-> FALSE]

Job(name, kind, a) == [name |-> name, kind |-> kind, a |-> a]

curve == [noon |-> 5500, evening |-> 2700, night |-> 2200, bias |-> 0]

\* A rise between 00:30 and 18:00 UTC, and days of 3, 6, 9.5, 12 and 17 hours.
Sunny ==
    {Scene(rise, rise + len, 96, 288,
           {Job("circadian", "circadian", curve),
            Job("warm", "circadian", [curve EXCEPT !.bias = -900]),
            Job("broken", "circadian", None),
            Job("sun", "sun_color_temperature", None)}) :
       rise \in {2, 20, 24, 28, 52, 72}, len \in {12, 24, 38, 48, 68}}

RampArgs(field, from, to, start, duration, tz) ==
    [field |-> field, from |-> from, to |-> to, start_at |-> start, duration |-> duration, tz |-> tz]

Ramping ==
    {Scene(24, 72, 96, 288,
           {Job("up", "ramp", RampArgs("brightness", 2, 6, start, d, tz)),
            Job("down", "ramp", RampArgs("color_temperature", 5, 1, start, d, tz)),
            Job("unset", "ramp", RampArgs("brightness", 0, 3, start, d, tz)),
            Job("unknown", "ramp", RampArgs("brightness", 2, None, start, d, tz))}) :
       start \in {28, 64, 80}, d \in {0, 1, 7, 20}, tz \in {-28, 0, 22}}

Rotating ==
    {Scene(24, 72, 96, 288,
           {Job("turns", "rotate_colors", [pool |-> n, interval |-> i, mode |-> "sequential"]),
            Job("random", "rotate_colors", [pool |-> n, interval |-> i, mode |-> "random"]),
            Job("empty", "rotate_colors", [pool |-> 0, interval |-> i, mode |-> "random"])}) :
       n \in {1, 3, 4}, i \in {1, 5, 7}}

ScalarArgs(axis, inMin, inMax, outMin, outMax, clamp) ==
    [query |-> "m", axis |-> axis, inMin |-> inMin, inMax |-> inMax, outMin |-> outMin,
     outMax |-> outMax, clamp |-> clamp, on_error |-> Zero]

Sweeping ==
    {[Scene(24, 72, 0, s.n, {Job("sweep", "prom_scalar", s.a)})
        EXCEPT !.callers = {"evaluator"}, !.step = s.step, !.every = TRUE] :
       s \in {[n |-> 540, step |-> 1, a |-> ScalarArgs("brightness", 10, 518, 0, 508, TRUE)],
              [n |-> 540, step |-> 1, a |-> ScalarArgs("brightness", 20, 528, 508, 0, FALSE)],
              [n |-> 250, step |-> 2, a |-> ScalarArgs("kelvin", 10, 490, 1500, 10000, TRUE)],
              [n |-> 250, step |-> 2, a |-> ScalarArgs("kelvin", 490, 10, 1000, 12000, FALSE)],
              [n |-> 3, step |-> 2, a |-> ScalarArgs("kelvin", 7, 7, 1500, 10000, TRUE)]}}

QueryArgs(yes, no, err) == [query |-> "m", on_true |-> yes, on_false |-> no, on_error |-> err]

On == [Zero EXCEPT !.state = 1]
Off == [Zero EXCEPT !.state = 2]
Dim == [Zero EXCEPT !.b = 2]

Asking ==
    {[Scene(24, 72, 0, 1,
            {Job("pump", "query", QueryArgs(On, Off, Off)), Job("lamp", "query", QueryArgs(On, Dim, Zero)),
             other})
        EXCEPT !.callers = {"evaluator", "bridge"}, !.answers = {None, 0, 3}, !.restarts = TRUE] :
       other \in {Job("desk", "query", QueryArgs(Off, On, Zero)),
                  Job("typo", "query", QueryArgs(On, None, Zero)),
                  Job("level", "prom_scalar", ScalarArgs("brightness", 0, 4, 0, 508, TRUE))}}

MCScenarios == Sunny \cup Ramping \cup Rotating \cup Sweeping \cup Asking
=============================================================================

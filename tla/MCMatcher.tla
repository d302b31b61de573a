----------------------------- MODULE MCMatcher ------------------------------
(* Matcher on a leak sensor: two sibling Bindings on "wet" with different  *)
(* MinDurations, a less specific wildcard, and a Binding on "dry" that     *)
(* needs a label the device carries only in some of its reports.           *)
EXTENDS Matcher

B(n, vs, d, s) == [name |-> n, values |-> vs, dwell |-> d, sel |-> s]

Sensor == {<<"device", "leak1">>, <<"zone", "cellar">>}
Tagged == Sensor \cup {<<"label", "pump">>}

MCBindings ==
  {B(1, {"wet"}, 1, {<<"device", "leak1">>}),
   B(2, {"wet"}, 2, {<<"device", "leak1">>}),
   B(3, {}, 0, {<<"zone", "cellar">>}),
   B(4, {"dry"}, 1, {<<"zone", "cellar">>, <<"label", "pump">>})}

Siblings == {b \in MCBindings : b.name \in {1, 2}}

\* Everything there is, with an edit; and two siblings with slow goroutines
\* and a failing List.
MCScenarios ==
  {[bindings |-> MCBindings, devices |-> {Sensor, Tagged}, prompt |-> TRUE,
    maxClock |-> 3, maxEvents |-> 3, lastEvent |-> 1, maxFail |-> 0, maxEdit |-> 1],
   [bindings |-> Siblings, devices |-> {Sensor}, prompt |-> FALSE,
    maxClock |-> 3, maxEvents |-> 3, lastEvent |-> 1, maxFail |-> 1, maxEdit |-> 0]}
=============================================================================

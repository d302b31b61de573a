----------------------------- MODULE MCDevices ------------------------------
(* Instances of Devices.                                                   *)
EXTENDS Devices

CONSTANTS d1, d2, n1, n2

J(d, n) == [dev |-> d, nwk |-> n]
Scenario(a1, a2, js, kn, sp, ann, f, c, k) ==
  [addr |-> [d \in Device |-> IF d = d1 THEN a1 ELSE a2], joins |-> js, known |-> kn, speaks |-> sp,
   annotated |-> ann, faults |-> f, commands |-> c, crashes |-> k]

MCScenarios ==
  { \* two devices join at the same time, with a restart and a command
    Scenario(None, None, <<J(d1, n1), J(d2, n2)>>, TRUE, {}, {}, 0, 1, 1),
    \* a join is repeated, and something fails
    Scenario(n1, None, <<J(d1, n1), J(d1, n1)>>, TRUE, {}, {}, 1, 0, 0),
    \* a device moves, and another takes over its address
    Scenario(n1, None, <<J(d1, n2), J(d2, n1)>>, TRUE, {}, {}, 0, 1, 0),
    Scenario(n1, None, <<J(d2, n1)>>, TRUE, {}, {d1}, 0, 0, 0),
    \* a re-interview, with a fault or with a restart
    Scenario(n1, n2, <<>>, TRUE, {d1}, {d1}, 1, 0, 0),
    Scenario(n1, n2, <<>>, TRUE, {d1}, {d1}, 0, 0, 1),
    \* the map has been lost
    Scenario(n1, n2, <<>>, FALSE, {d1}, {}, 0, 1, 0)}
=============================================================================

------------------------------- MODULE MCZone -------------------------------
(***************************************************************************)
(* Instances of Zone for TLC.                                              *)
(***************************************************************************)
EXTENDS Zone

CONSTANTS p1, p2, bulb, plug

Red == 16711680

Announcements == {SelfAnnounce(d) : d \in Devices}

OneCaller(reqs) ==
    [calls |-> [p \in Proc |-> IF p = p1 THEN Announcements \cup reqs ELSE {}], faults |-> 1]

\* Every kind of request on one goroutine, with a mishap; cache entries that
\* disturb each other: OFF, and a colour with its brightness, which switch the
\* light on again.
Colours == OneCaller({SetState("OFF"), ApplyValues("COLOR", 0, 0, 0, 0, Red)})
Scenes == OneCaller({SetState("UNSPECIFIED"), SetScene(1, 0, 0), ApplyValues("ON", 300, 0, 4200, 0, 0)})
Steps == OneCaller({SetState("OFF"), AdjustBrightness(1)})

\* Two goroutines, with the fewest cache entries that disturb each other.
Race ==
    [calls |-> [p \in Proc |-> Announcements \cup
                  IF p = p1 THEN {SetState("OFF"), SetState("RANDOMCOLOR")} ELSE {SetState("OFF")}],
     faults |-> 0]

MCScenarios == {Colours, Scenes, Steps, Race}
=============================================================================

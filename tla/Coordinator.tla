----------------------------- MODULE Coordinator -----------------------------
(***************************************************************************)
(* How the Zigbee coordinator (modules/zigbeecoordinator/                  *)
(* zigbeecoordinator.go) comes to its network: it starts the dongle, asks  *)
(* it for its network, and forms, restores or adopts one according to the  *)
(* state file (pkg/zigbee-dongle/state.go), over the operations of module  *)
(* Ember; then it permits joining for a while, and listens until it is     *)
(* stopped.  The process may crash at any time, and is started again.      *)
(* StateFile is set, as it is by default.                                  *)
(***************************************************************************)
EXTENDS Ember

CONSTANTS
  Bad,           \* the content of a state file that cannot be loaded
  Main, Clock,   \* the goroutines of running/stopping and of the permit-join timer
  Scenarios      \* records [on, work, net, tokens, file, forced, skip, starts]

ASSUME CallersAssumption == {Main, Clock} \subseteq Caller /\ Main # Clock

ZeroKey == 0

\* A network; the key is None when the NCP formed it without having accepted one.
Network == [id : Nat, key : Nat \cup {None}]

Forms == {"FormNetwork", "FormNetworkSkippingLeave"}

\* The network a dongle comes with has a key, the state file can be anything,
\* and nobody but Main forms networks.
ASSUME ScenariosAssumption ==
  /\ None \notin Network /\ Bad \notin Network
  /\ \A s \in Scenarios :
       /\ s.tokens = None \/ (s.tokens \in Network /\ s.tokens.key # ZeroKey)
       /\ s.file \in {None, Bad} \/ s.file \in Network
       /\ s.work = [p \in Caller |-> s.work[p]]
       /\ \A p \in Caller : s.work[p] = None \/ s.work[p].op \in DOMAIN Steps \ Forms

VARIABLES
  phase,         \* where running and stopping are
  wanted,        \* params: the network to form or to save
  file,          \* the state file: None, Bad if it cannot be read, or a network
  fresh,         \* the next random value
  timer,         \* permitJoinTimer: "none", "armed", or "fired" when its function runs
  forced, skip,  \* ForceForm and EmberSkipForcedLeave
  starts,        \* starts left of the process
  identity       \* the network of the state file since it was last whole

coordinatorVars == <<phase, wanted, file, fresh, timer, forced, skip, starts, identity>>
vars == <<emberVars, coordinatorVars>>

Init ==
  \E s \in Scenarios :
    /\ EmberInit(s.work, s.net, s.tokens)
    /\ phase = IF s.on THEN "start" ELSE "off"
    /\ wanted = None /\ fresh = 1 /\ timer = "none"
    /\ file = s.file /\ identity = (IF s.file \in {None, Bad} THEN None ELSE s.file.id)
    /\ forced = s.forced /\ skip = s.skip /\ starts = s.starts

-----------------------------------------------------------------------------

\* Main is in phase a, has returned from its operation, and goes to phase b.
Goto(a, b) == phase = a /\ ~Busy(Main) /\ phase' = b
Config == <<forced, skip>>

\* The process is gone: a new one has a controller as NewController makes it.
Die ==
  /\ work' = [p \in Caller |-> None] /\ stage' = [p \in Caller |-> "issue"]
  /\ pos' = [p \in Caller |-> [i |-> 1, t |-> 1]]
  /\ result' = [p \in Caller |-> None] /\ seen' = [p \in Caller |-> None]
  /\ statusCh' = <<>> /\ waiter' = [c \in Clusters |-> None] /\ zdo' = [p \in Caller |-> None]
  /\ wanted' = None /\ timer' = "none"

\* dongle.Start: the reset may fail, which leaves the NCP as it is.
StartDongle ==
  /\ phase = "start"
  /\ \/ /\ phase' = "starting" /\ Call(Main, "initEzsp", None)
        /\ NcpReboots \/ UNCHANGED network
     \/ phase' = "failed" /\ UNCHANGED <<ops, network>>
  /\ UNCHANGED <<tables, wanted, file, fresh, timer, Config, starts, identity>>

\* A mutant: start again.
StartedAgain ==
  /\ IF result[Main] = "ok" THEN Goto("starting", "info") /\ Call(Main, "GetNetworkInfo", None)
     ELSE Goto("starting", "start") /\ UNCHANGED ops
  /\ UNCHANGED <<tables, network, wanted, file, fresh, timer, Config, starts, identity>>

Started ==
  /\ IF result[Main] = "ok" THEN Goto("starting", "info") /\ Call(Main, "GetNetworkInfo", None)
     ELSE Goto("starting", "failed") /\ UNCHANGED ops
  /\ UNCHANGED <<tables, network, wanted, file, fresh, timer, Config, starts, identity>>

LoadNetworkState == file
Loaded == file \notin {None, Bad}
IsZeroNetworkKey(n) == n.key = ZeroKey
GenerateRandomNetworkParameters == [id |-> 10 + fresh, key |-> 10 + fresh]

needsNetwork == seen[Main] = None \/ forced
differs == Loaded /\ LoadNetworkState.id # seen[Main]

\* Without information the network is left alone.
NoInfo ==
  /\ result[Main] # "ok"
  /\ Goto("info", "diagnose") /\ Call(Main, "GetNetworkInfo", None)
  /\ UNCHANGED <<wanted, fresh>>

Keep ==
  /\ result[Main] = "ok" /\ ~needsNetwork /\ Loaded /\ ~differs
  /\ Goto("info", "diagnose") /\ Call(Main, "GetNetworkInfo", None)
  /\ UNCHANGED <<wanted, fresh>>

\* No state file, or none that can be read: the NCP's network is the truth,
\* with a key that cannot be known.
Adopt ==
  /\ result[Main] = "ok" /\ ~needsNetwork /\ ~Loaded
  /\ Goto("info", "save") /\ UNCHANGED ops
  /\ wanted' = [id |-> seen[Main], key |-> ZeroKey]
  /\ UNCHANGED fresh

\* Mutants: the key of an adopted network is used; another network takes its place.
FormWithZeroKey ==
  /\ result[Main] = "ok" /\ (needsNetwork \/ differs)
  /\ wanted' = IF ~Loaded THEN GenerateRandomNetworkParameters ELSE file
  /\ fresh' = fresh + 1
  /\ Goto("info", "form") /\ Call(Main, IF skip THEN "FormNetworkSkippingLeave" ELSE "FormNetwork", wanted')
FormAnother ==
  /\ result[Main] = "ok" /\ (needsNetwork \/ differs)
  /\ wanted' = IF ~Loaded \/ IsZeroNetworkKey(file) THEN GenerateRandomNetworkParameters ELSE file
  /\ fresh' = fresh + 1
  /\ Goto("info", "form") /\ Call(Main, IF skip THEN "FormNetworkSkippingLeave" ELSE "FormNetwork", wanted')

\* The saved network, with a new key if the file has none; else a new one.
Form ==
  /\ result[Main] = "ok" /\ (needsNetwork \/ differs)
  /\ wanted' = IF ~Loaded THEN GenerateRandomNetworkParameters
               ELSE IF IsZeroNetworkKey(file) THEN [file EXCEPT !.key = GenerateRandomNetworkParameters.key]
               ELSE file
  /\ fresh' = fresh + 1
  /\ Goto("info", "form") /\ Call(Main, IF skip THEN "FormNetworkSkippingLeave" ELSE "FormNetwork", wanted')

Decide ==
  /\ NoInfo \/ Keep \/ Adopt \/ Form
  /\ UNCHANGED <<tables, network, file, timer, Config, starts, identity>>

\* formNetworkAndSave; a nil dereference in FormNetwork ends the process.
Formed ==
  /\ \/ result[Main] = "ok" /\ Goto("form", "save") /\ UNCHANGED <<ops, tables, timer, wanted>>
     \/ result[Main] = "error" /\ Goto("form", "failed") /\ UNCHANGED <<ops, tables, timer, wanted>>
     \/ result[Main] = "panic" /\ Goto("form", "down") /\ Die
  /\ UNCHANGED <<network, file, fresh, Config, starts, identity>>

\* SaveNetworkState truncates the file and writes it.  A failure is logged.
Truncate ==
  /\ phase = "save"
  /\ \/ phase' = "write" /\ file' = Bad /\ UNCHANGED ops
     \/ phase' = "diagnose" /\ Call(Main, "GetNetworkInfo", None) /\ UNCHANGED file
  /\ UNCHANGED <<tables, network, wanted, fresh, timer, Config, starts, identity>>
Write ==
  /\ phase = "write" /\ phase' = "diagnose" /\ Call(Main, "GetNetworkInfo", None)
  /\ \/ file' = wanted /\ identity' = IF identity = None THEN wanted.id ELSE identity
     \/ identity' = None /\ UNCHANGED file
  /\ wanted' = None
  /\ UNCHANGED <<tables, network, fresh, timer, Config, starts>>

\* The information is only logged; the concentrator may fail.
Concentrate ==
  /\ Goto("diagnose", "concentrate") /\ Call(Main, "SetConcentrator", None)
  /\ UNCHANGED <<tables, network, wanted, file, fresh, timer, Config, starts, identity>>

PermitJoin ==
  /\ Goto("concentrate", "permit") /\ Call(Main, "PermitJoining", None)
  /\ UNCHANGED <<tables, network, wanted, file, fresh, timer, Config, starts, identity>>

Listen ==
  /\ Goto("permit", "listen")
  /\ timer' = IF result[Main] = "ok" THEN "armed" ELSE "none"
  /\ UNCHANGED <<emberVars, wanted, file, fresh, Config, starts, identity>>

\* The timer closes the network, holding permitJoinMux.
TimerFires ==
  /\ timer = "armed" /\ timer' = "fired"
  /\ Call(Clock, "StopJoining", None)
  /\ UNCHANGED <<tables, network, phase, wanted, file, fresh, Config, starts, identity>>
TimerDone ==
  /\ timer = "fired" /\ ~Busy(Clock) /\ timer' = "none"
  /\ UNCHANGED <<emberVars, phase, wanted, file, fresh, Config, starts, identity>>

\* stopping: the context is cancelled, or running failed.
Stopping ==
  /\ phase \in {"listen", "failed"} /\ timer # "fired"
  /\ phase' = "closing" /\ timer' = "none" /\ Call(Main, "StopJoining", None)
  /\ UNCHANGED <<tables, network, wanted, file, fresh, Config, starts, identity>>
Stopped ==
  /\ Goto("closing", "down") /\ Die
  /\ UNCHANGED <<network, file, fresh, Config, starts, identity>>

\* In the middle of a write the file is lost.
Crash ==
  /\ phase \notin {"off", "down"} /\ starts > 0
  /\ phase' = "down" /\ Die
  /\ identity' = IF phase = "write" THEN None ELSE identity
  /\ UNCHANGED <<network, file, fresh, Config, starts>>

Restart ==
  /\ phase = "down" /\ starts > 0
  /\ phase' = "start" /\ starts' = starts - 1
  /\ UNCHANGED <<emberVars, wanted, file, fresh, timer, Config, identity>>

MainStep ==
  \/ StartDongle \/ Started \/ Decide \/ Formed \/ Truncate \/ Write \/ Concentrate \/ PermitJoin \/ Listen
  \/ (phase = "failed" /\ Stopping) \/ Stopped

Alive(A) == phase # "down" /\ A /\ UNCHANGED coordinatorVars

\* Nothing is left to be done.
Finished ==
  /\ \A p \in Caller : ~Busy(p)
  /\ phase = "off" \/ (phase = "down" /\ starts = 0)
  /\ UNCHANGED vars

Next ==
  \/ MainStep \/ (phase = "listen" /\ Stopping) \/ TimerFires \/ TimerDone \/ Crash \/ Restart
  \/ \E p \in Caller : Alive(OperationStep(p))
  \/ Alive(handleCallback)
  \/ NcpComesUp /\ UNCHANGED coordinatorVars
  \/ Finished

Spec == Init /\ [][Next]_vars

\* The process goes on: one of its goroutines takes a step as long as one can.
FairSpec == Spec /\ WF_vars(MainStep \/ TimerDone \/ \E p \in Caller : Alive(OperationStep(p)))

-----------------------------------------------------------------------------
(* Properties.                                                             *)

\* "Never form a network with an all-zero key" (running): whatever was adopted,
\* saved, lost or restored before, the NCP never gets the placeholder key.
NeverZeroKey == key # ZeroKey /\ (cur # None => cur.key # ZeroKey)

\* The state file is the source of truth for the network's identity: as long as
\* no save was cut short, the file keeps the network it first had, whatever
\* network the dongle is on, and however often the process is started.
SourceOfTruth == Loaded => file.id = identity

\* A started coordinator listens, or stops with an error: it never hangs
\* between the two, whatever the NCP does (running, stopping, FormNetwork).
Settles == phase = "start" ~> phase \in {"listen", "down"}

=============================================================================

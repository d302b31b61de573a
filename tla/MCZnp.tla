------------------------------- MODULE MCZnp --------------------------------
(* What the goroutines do at a time: start the dongle and form a network,  *)
(* send commands, interview a device; and then stop and close the port.    *)
EXTENDS Znp

Does(f) == [p \in Proc |-> IF p \in DOMAIN f THEN f[p] ELSE <<>>]

Starting == Does([main |-> HealthCheck \o Start(FALSE, 1)])
Restarting == Does([main |-> Start(TRUE, 1) \o GetNetworkInfo(0)])
Forming  == Does([main |-> FormNetwork(1), reset |-> Reset])
Commands == Does([main |-> <<Permanent>>, sender |-> Send, stop |-> PermitJoining])
Joining  == Does([interview |-> <<NodeDescriptor(2)>>])
Endpoint == Does([interview |-> <<ActiveEndpoints(1), SimpleDescriptor>>])

MCScenarios == {Starting, Restarting, Forming, Commands, Joining, Endpoint}
MCHeader == {"version", "ping", "info", "startup", "stateChange", "register", "nwkInfo", "nvWrite",
             "resetInd", "reset", "permitJoin", "dataRequest", "nodeDescReq", "nodeDesc",
             "activeEPReq", "activeEP", "simpleDescReq", "simpleDesc"} \cup Perm
=============================================================================

---------------------------- MODULE MCReconciler ----------------------------
(* Reconciler on one zone: a never-expiring background and a TTL override,  *)
(* as the bridge and a button press push them, and an external caller that  *)
(* replaces its own entry without a PushedAt.                               *)
EXTENDS Reconciler

Req(a, s, v, pr, t) ==
  [axis |-> a, id |-> s, val |-> v, prio |-> pr, ttl |-> t,
   policy |-> "REFRESH", stamped |-> TRUE]

Override == Req("state", "button", "off", 2, 1)

MCRequests ==
  {Req("state", "window", "on", 1, 0), Override,
   [Override EXCEPT !.policy = "REPLACE", !.stamped = FALSE]}
=============================================================================

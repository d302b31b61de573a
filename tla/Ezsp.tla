-------------------------------- MODULE Ezsp --------------------------------
(***************************************************************************)
(* What sendEZSPCommand promises: an answer means that the network         *)
(* co-processor ran the command during the call; an error leaves open      *)
(* whether it did.  Module Ash implements this over a serial line that     *)
(* loses frames, and module Ember is written on top of it.                 *)
(***************************************************************************)
CONSTANTS Caller, None

VARIABLES
  st,     \* "idle", "called", or "ran" once the command was run
  res     \* what the last call returned

Init ==
  /\ st \in [Caller -> {"idle", "called"}]
  /\ res = [p \in Caller |-> None]

Call(p) ==
  /\ st[p] = "idle" /\ st' = [st EXCEPT ![p] = "called"]
  /\ res' = [res EXCEPT ![p] = None]
Run(p) ==
  /\ st[p] = "called" /\ st' = [st EXCEPT ![p] = "ran"]
  /\ UNCHANGED res
Answer(p) ==
  /\ st[p] = "ran" /\ st' = [st EXCEPT ![p] = "idle"]
  /\ res' = [res EXCEPT ![p] = "answer"]
Fail(p) ==
  /\ st[p] # "idle" /\ st' = [st EXCEPT ![p] = "idle"]
  /\ res' = [res EXCEPT ![p] = "error"]

Next == \E p \in Caller : Call(p) \/ Run(p) \/ Answer(p) \/ Fail(p)
Spec == Init /\ [][Next]_<<st, res>>

=============================================================================

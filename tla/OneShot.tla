------------------------------ MODULE OneShot -------------------------------
(***************************************************************************)
(* What a caller of WriteCommand relies on: a call that was made is        *)
(* answered or fails, once, and the caller takes that outcome, once.  An   *)
(* answer is never replaced by a timeout, nor a timeout by a late answer.  *)
(* Only a call whose frame could not be written may be given up.           *)
(***************************************************************************)
CONSTANT Call

VARIABLES unsent, pending, answered, failed

vars == <<unsent, pending, answered, failed>>

Init == unsent = {} /\ pending = {} /\ answered = {} /\ failed = {}

Make(c) ==
  /\ c \notin pending \cup answered \cup failed
  /\ unsent' = unsent \cup {c}
  /\ pending' = pending \cup {c}
  /\ UNCHANGED <<answered, failed>>

Answer(c) ==
  /\ c \in pending
  /\ pending' = pending \ {c}
  /\ answered' = answered \cup {c}
  /\ UNCHANGED <<unsent, failed>>

Fail(c) ==
  /\ c \in pending
  /\ pending' = pending \ {c}
  /\ failed' = failed \cup {c}
  /\ UNCHANGED <<unsent, answered>>

Take(c) ==
  /\ c \in answered \cup failed
  /\ answered' = answered \ {c}
  /\ failed' = failed \ {c}
  /\ UNCHANGED <<unsent, pending>>

Sent(c) ==
  /\ c \in unsent
  /\ unsent' = unsent \ {c}
  /\ UNCHANGED <<pending, answered, failed>>

GiveUp(c) ==
  /\ c \in unsent
  /\ unsent' = unsent \ {c}
  /\ pending' = pending \ {c}
  /\ answered' = answered \ {c}
  /\ failed' = failed \ {c}

Next == \E c \in Call : Make(c) \/ Sent(c) \/ Answer(c) \/ Fail(c) \/ Take(c) \/ GiveUp(c)

Spec == Init /\ [][Next]_vars
=============================================================================

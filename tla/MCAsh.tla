------------------------------- MODULE MCAsh --------------------------------
(***************************************************************************)
(* Small instances of Ash.  A session has its own bound on what goes       *)
(* wrong, so that the sessions add up instead of multiplying.              *)
(***************************************************************************)
EXTENDS Ash

CONSTANTS c1, c2

MCBoot == {<<>>, <<Ctl("text")>>, <<Ctl("RSTACK")>>}

Session(n1, n2, start, f, r, b, c) ==
  [todo |-> [p \in Caller |-> IF p = c1 THEN n1 ELSE n2], start |-> start,
   faults |-> f, repeats |-> r, callbacks |-> b, closes |-> c]

\* Start and a command, with a fault and two unasked repetitions.
Starting == {Session(2, 0, {c1}, 1, 2, 0, FALSE)}

\* Two commands of one caller with two faults, or with a fault and a callback;
\* commands of two callers, with a callback, and with Close.
MCSessions ==
  Starting
  \cup {Session(2, 0, {}, 2, 0, 0, FALSE), Session(2, 0, {}, 1, 0, 1, FALSE)}
  \cup {Session(2, 1, {}, 0, 0, 0, FALSE), Session(1, 1, {}, 0, 0, 1, FALSE), Session(1, 1, {}, 0, 0, 0, TRUE)}

=============================================================================

--------------------------- MODULE MCCoordinator ----------------------------
(***************************************************************************)
(* Small instances of Coordinator: a process that is started, and once     *)
(* more; and operations of two goroutines at the same time.                *)
(***************************************************************************)
EXTENDS Coordinator

CONSTANTS c1, c2, d1, d2

N(i, k) == [id |-> i, key |-> k]
Op(op, arg) == [op |-> op, arg |-> arg]
Works(w1, w2) == [p \in Caller |-> IF p = c1 THEN w1 ELSE w2]

Running(net0, t, f, forced0, skip0, n) ==
  [on : {TRUE}, work : {Works(None, None)}, net : net0, tokens : t, file : f, forced : forced0, skip : skip0, starts : {n}]
Operating(w) ==
  [on : {FALSE}, work : {w}, net : {"up"}, tokens : {N(1, 1)}, file : {None}, forced : {FALSE}, skip : {FALSE},
   starts : {0}]

MCScenarios ==
  \* a dongle without a network, with the one of the file, and with another one
  Running({"none"}, {None, N(1, 1), N(2, 2)}, {None, N(1, 1)}, {FALSE}, BOOLEAN, 0)
  \* a network that is up, without a file or with -force-form, and a second start
  \cup Running({"up"}, {N(1, 1)}, {None, N(1, 1)}, {TRUE}, {FALSE}, 0)
  \cup Running({"up"}, {N(2, 2)}, {None}, {FALSE}, {TRUE}, 1)
  \* two interviews, and an interview while joining is closed
  \cup Operating(Works(Op("InterviewDevice", d1), Op("InterviewDevice", d2)))
  \cup Operating(Works(Op("InterviewDevice", d1), Op("StopJoining", None)))
  \cup Operating(Works(Op("Send", d1), Op("StopJoining", None)))

=============================================================================

----------------------------- MODULE MCSchedule -----------------------------
(* Schedule over two days of five ticks with sunset at the third tick.      *)
EXTENDS Schedule

OneBefore == -1
=============================================================================

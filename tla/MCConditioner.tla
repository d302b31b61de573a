---------------------------- MODULE MCConditioner ----------------------------
(* Instances of Conditioner: a heater behind an alert window, a light in a  *)
(* scene during a window, and a button.                                     *)
EXTENDS Conditioner

CONSTANTS w

Req(s, sc) == [state |-> s, scene |-> sc]

Plain == [windows |-> {}, active |-> Nothing, inactive |-> Nothing,
          compute |-> Nothing, delta |-> FALSE]

Rule(n, by, rs) == [name |-> n, driven |-> by, rems |-> rs]

\* An alert that keeps a room warm without saying what inactive is.
Heater == << Rule("low", {"cold"}, <<[Plain EXCEPT !.windows = {w}, !.active = Req("ON", "none")]>>) >>

Lamp == << Rule("lamp", {}, <<[Plain EXCEPT !.windows = {w}, !.active = Req("ON", "relax")]>>) >>

Button ==
    << Rule("switch", {"binding"},
            <<[Plain EXCEPT !.active = Req("toggle", "none")], [Plain EXCEPT !.delta = TRUE]>>),
       Rule("sun", {}, <<[Plain EXCEPT !.windows = {w}, !.compute = Req("ON", "none")]>>) >>

AllLists == {Heater, Lamp, Button}

OneMover == {Req("OFF", "none"), Req("ON", "bright")}
=============================================================================

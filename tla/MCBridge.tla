------------------------------- MODULE MCBridge -------------------------------
(***************************************************************************)
(* Scenarios for Bridge.  Times are in half minutes: the evaluator runs    *)
(* every 2, the TTL of its pushes is 6, that of a press 10.                *)
(***************************************************************************)
EXTENDS Bridge

Args(anchor, start, duration, from, to, terminal) ==
    [anchor |-> anchor, start_at |-> start, duration |-> duration,
     brightness_to |-> to, brightness_from |-> from,
     color_temperature_to |-> 4, color_temperature_from |-> 0, terminal_state |-> terminal]

Cond(name, driver, gated, fade, state, scene) ==
    [name |-> name, driver |-> driver, gated |-> gated, fade |-> fade, state |-> state,
     scene |-> scene]

Release(driver, args) == Cond("release", driver, FALSE, args, "none", None)
Press(driver, state, scene) == Cond("press", driver, FALSE, None, state, scene)
Window(name, driver, state, scene) == Cond(name, driver, TRUE, None, state, scene)

Soft == [b |-> 2, k |-> 4, color |-> "none"]
Party == [b |-> 0, k |-> 0, color |-> "red"]

Lit == [state |-> "ON", b |-> 508, k |-> 5000, color |-> "none"]
Dark == [state |-> "OFF", b |-> 0, k |-> 0, color |-> "none"]

Calm == [managed |-> TRUE, reflect |-> FALSE, list |-> <<>>, zone |-> Lit, until |-> 3, acts |-> 0, fails |-> 0,
         turns |-> 0, touches |-> 0, restarts |-> 0]

Event(d, to) == Args("event", None, d, 0, to, "OFF")
Daily(d) == Args("", 1, d, 6, 1, "OFF")

Fading ==
    { [Calm EXCEPT !.managed = FALSE, !.acts = 1, !.list = <<Release("button", Event(3, 1))>>],
      [Calm EXCEPT !.managed = FALSE, !.acts = 2, !.fails = 1, !.touches = 1, !.until = 6,
                   !.list = <<Release("button", Event(4, 1))>>],
      [Calm EXCEPT !.managed = FALSE, !.restarts = 1, !.touches = 1,
                   !.list = <<Release("none", Daily(4))>>],
      [Calm EXCEPT !.acts = 2, !.fails = 1, !.until = 4, !.zone = Dark,
                   !.list = <<Window("dusk", "none", "ON", Soft), Release("button", Event(7, 6))>>],
      [Calm EXCEPT !.acts = 1, !.restarts = 1, !.touches = 1,
                   !.list = <<Release("sensor", Event(8, 1))>>],
      [Calm EXCEPT !.acts = 1, !.list = <<Release("button", Daily(0))>>] }

Layered ==
    { [Calm EXCEPT !.acts = 2, !.until = 6, !.restarts = 1,
                   !.list = <<Window("dusk", "none", "ON", Soft), Press("button", "OFF", None)>>],
      [Calm EXCEPT !.turns = 3,
                   !.list = <<Window("dusk", "none", "ON", Soft), Window("night", "none", "OFF", None)>>],
      [Calm EXCEPT !.acts = 3, !.until = 8, !.zone = Dark,
                   !.list = <<Window("night", "none", "toggle", None), Press("button", "ON", Party),
                              Window("leak", "alert", "OFF", None)>>] }

Toggling ==
    { [Calm EXCEPT !.acts = 2, !.list = <<Press("button", "toggle", None)>>] }

Reflecting ==
    { [Calm EXCEPT !.reflect = TRUE, !.acts = 1, !.fails = 1, !.restarts = 1, !.until = 4,
                   !.list = <<Window("dusk", "none", "ON", None), Press("button", "OFF", None)>>],
      [Calm EXCEPT !.reflect = TRUE, !.turns = 1, !.fails = 1, !.until = 8,
                   !.list = <<Window("dusk", "none", "ON", None)>>] }

MCScenarios == Fading \cup Layered \cup Reflecting
=============================================================================

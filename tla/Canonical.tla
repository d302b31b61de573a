------------------------------ MODULE Canonical ------------------------------
(***************************************************************************)
(* The two tables of pkg/iot/canonical.go: the named brightness and        *)
(* colour-temperature levels an operator uses, and the continuous values   *)
(* behind them.                                                            *)
(*                                                                         *)
(* Named levels are numbered along their tables, 0 being UNSPECIFIED:      *)
(* brightness 1 VERYLOW .. 6 FULL, colour temperature 1 FIRSTLIGHT ..      *)
(* 5 EVENING.  A continuous brightness is an integer number of 1/508ths    *)
(* (half a device step, so that rounding to the device's 0..254 shows); a  *)
(* colour temperature is in Kelvin.                                        *)
(***************************************************************************)
EXTENDS Integers, Sequences

Brightness == 1..6
ColorTemperature == 1..5
VERYLOW == 1
FULL == 6
FIRSTLIGHT == 1

\* What zone.go sends for a named level when no continuous value is set.
defaultBrightnessMap == <<70, 90, 95, 110, 125, 254>>
defaultColorTemperatureMap == <<100, 200, 300, 300, 500>>

brightnessCanonical == <<140, 180, 190, 220, 250, 508>>
colorTempCanonical == <<10000, 5000, 3333, 2500, 2000>>

BrightnessCanonical(b) == IF b \in Brightness THEN brightnessCanonical[b] ELSE 0
ColorTempCanonical(c) == IF c \in ColorTemperature THEN colorTempCanonical[c] ELSE 0

Dist(x, y) == IF x < y THEN y - x ELSE x - y

\* The entry of a table closest to v, the earlier one of two equally close.
Nearest(table, v) ==
    CHOOSE e \in DOMAIN table :
        \A f \in DOMAIN table :
            \/ Dist(v, table[e]) < Dist(v, table[f])
            \/ Dist(v, table[e]) = Dist(v, table[f]) /\ e <= f

BrightnessNearestEnum(v) == IF v <= 0 THEN 0 ELSE Nearest(brightnessCanonical, v)
ColorTempNearestEnum(k) == IF k <= 0 THEN 0 ELSE Nearest(colorTempCanonical, k)

\* 1_000_000 / k, rounded half up.
KelvinToMireds(k) == IF k <= 0 THEN 0 ELSE (2000000 + k) \div (2 * k)

IncrementBrightness(b) == IF b = 0 \/ b = FULL THEN FULL ELSE b + 1
DecrementBrightness(b) == IF b = 0 THEN FULL ELSE IF b = VERYLOW THEN b ELSE b - 1

\* The byte handleBrightness sends, from the continuous value v and the name b.
BrightVal(v, b) ==
    IF v > 0 THEN IF v > 508 THEN 254 ELSE (v + 1) \div 2
    ELSE IF b \in Brightness THEN defaultBrightnessMap[b] ELSE 0

\* The mireds handleColorTemperature sends.
TempVal(k, c) ==
    IF k > 0 THEN KelvinToMireds(k)
    ELSE IF c \in ColorTemperature THEN defaultColorTemperatureMap[c] ELSE 0
=============================================================================

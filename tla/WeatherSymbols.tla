---------------------------- MODULE WeatherSymbols ----------------------------
(***************************************************************************)
(* The parameters querydata/Q.cpp derives by tables from what it           *)
(* interpolates at one point: SmartSymbol, WeatherNumber and the wind      *)
(* compasses.                                                              *)
(*                                                                         *)
(* An interpolated value only matters by the limits it reaches.  It is the *)
(* number of limits that are not above it (cloud_limit1..8, rain_limit1..7 *)
(* and thunder_limit1..2 are increasing), or a code (form and type of      *)
(* precipitation), or Missing (kFloatMissing), or Absent when the data do  *)
(* not have the parameter.  Fog intensity is in halves, since code and     *)
(* number treat a fraction differently; directions are in 64ths of a       *)
(* circle, which the sectors of all three compasses consist of.            *)
(***************************************************************************)
EXTENDS Integers

Absent == -2

Missing == -1

(* What can be had at a point.  Any code may be in the data, also one that *)
(* is of no form or type of precipitation.  Left out are negative codes,   *)
(* and NaN, which the conversion to an integer leaves undefined            *)
(* (docs/smartsymbol.md:192-203).                                          *)
Code == {Absent, Missing} \cup Nat

Interpolated ==
  [cloud : Absent .. 8, thunder : Absent .. 2, rain : Absent .. 7, fog : Code,
   potForm : Code, form : Code, potType : Code, type : Code]

(* param(p) || param(q): the first of two parameters that the data have.   *)
Either(p, q) == IF p = Absent THEN q ELSE p

(* Below cloud_limit6, below cloud_limit8, above.                          *)
CloudGroup(n) == IF n < 6 THEN 0 ELSE IF n < 8 THEN 1 ELSE 2

(* Below rain_limit3, below the limit of heavy rain, above.                *)
RainGroup(r, heavy) == IF r < 3 THEN 0 ELSE IF r < heavy THEN 1 ELSE 2

NoSymbol == 0

-------------------------------------------------------------------------------
(* calc_smart_symbol: thunder first, then dry weather, then the form of    *)
(* the precipitation, and for rain its type.  What is no form (9 and more) *)
(* is treated as sleet and snow are.                                       *)
DrySymbol(d) ==
  IF d.fog > 0 THEN 9
  ELSE IF d.cloud < 2 THEN 1 ELSE IF d.cloud < 3 THEN 2
  ELSE IF d.cloud < 6 THEN 4 ELSE IF d.cloud < 8 THEN 6 ELSE 7

(* Drizzle, freezing drizzle, freezing rain, snow pellets, ice particles.  *)
FixedSymbol == [form \in {0, 4, 5, 7, 8} |->
                  CASE form = 0 -> 11 [] form = 4 -> 14 [] form = 5 -> 17 [] OTHER -> 57]

ShowerByRain(d) == 21 + 3 * CloudGroup(d.cloud) + RainGroup(d.rain, 6)

Shower(d) == 21 + 3 * CloudGroup(d.cloud)

RainSymbol(d) ==
  IF Either(d.potType, d.type) = 2
  THEN Shower(d)
  ELSE 31 + 3 * CloudGroup(d.cloud) + RainGroup(d.rain, 6)

WetSymbol(d) ==
  LET form == Either(d.potForm, d.form)
  IN  IF form < 0 THEN NoSymbol
      ELSE IF form \in DOMAIN FixedSymbol THEN FixedSymbol[form]
      ELSE IF form = 6 THEN 61 + 3 * CloudGroup(d.cloud)
      ELSE IF form = 1 THEN RainSymbol(d)
      ELSE 10 * form + 21 + 3 * CloudGroup(d.cloud) + RainGroup(d.rain, 4)

SmartSymbol(d) ==
  IF d.cloud < 0 THEN NoSymbol
  ELSE IF d.thunder >= 1 THEN 71 + 3 * CloudGroup(d.cloud)
  ELSE IF d.rain < 0 THEN NoSymbol
  ELSE IF d.rain = 0 THEN DrySymbol(d)
  ELSE WetSymbol(d)

(* SmartSymbolNumber: 100 more when it is dark.                            *)
SmartSymbolNumber(d, dark) ==
  IF SmartSymbol(d) # NoSymbol /\ dark THEN 100 + SmartSymbol(d) ELSE SmartSymbol(d)

-------------------------------------------------------------------------------
(* calc_weather_number: one digit for each parameter, 9 when there is none.*)
Digit(v) == IF v < 0 THEN 9 ELSE v

DigitPotentialOnly(p, q) == Digit(p)

DigitOfEither(p, q) == Digit(Either(p, q))

WeatherNumber(d) ==
  10000000 + 1000000 * Digit(d.thunder) + 100000 * DigitOfEither(d.potForm, d.form)
  + 10000 * DigitOfEither(d.potType, d.type) + 1000 * Digit(d.rain)
  + 100 * (IF d.fog < 0 THEN 9 ELSE d.fog \div 2) + 10 * Digit(d.cloud)

-------------------------------------------------------------------------------
(* WindCompass8, 16 and 32: the sector a direction is in.                  *)
CompassNoHalf(direction, sectors) ==
  LET width == 64 \div sectors
  IN  (direction \div width) % sectors

CompassNoWrap(direction, sectors) ==
  LET width == 64 \div sectors
  IN  (direction + width \div 2) \div width

Compass(direction, sectors) ==
  LET width == 64 \div sectors
  IN  ((direction + width \div 2) \div width) % sectors
===============================================================================

-------------------------- MODULE MCPoiBreachIndex --------------------------
(* An instance of PoiBreachIndex for TLC: prices 0 to 12. *)
EXTENDS PoiBreachIndex

\* Zones of height 0, 2 and 6: the tick floor, the height and the ATR decide in turn.
MCZones == [direction : {"bullish", "bearish"}, top : {6}, bottom : {6, 4, 0}]

MCBars == [close : -6 .. 12, range : {0, 3}, atr : {-1, 0, 1, 4}]
=============================================================================

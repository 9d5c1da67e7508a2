--------------------------- MODULE MCPoiFrontier ---------------------------
(***************************************************************************)
(* Tapes for the frontier: an opening, then every continuation by extra    *)
(* candles of the family's shapes, gaps in time, delays and zones.         *)
(***************************************************************************)
EXTENDS PoiFrontier

AllTypes ==
  {"BUY_ORDER_BLOCK", "SELL_ORDER_BLOCK", "BULLISH_ENGULFING", "BEARISH_ENGULFING",
   "BUY_FAIR_VALUE_GAP", "SELL_FAIR_VALUE_GAP", "MORNING_STAR", "EVENING_STAR", "HAMMER",
   "SHOOTING_STAR", "BULLISH_PRESSURE_WICK", "BEARISH_PRESSURE_WICK", "SELL_TO_BUY_CANDLE",
   "BUY_TO_SELL_CANDLE", "BASE_RALLY", "BASE_DROP", "SUPPORT_ZONE", "RESISTANCE_ZONE",
   "EQUAL_HIGHS_LIQUIDITY", "EQUAL_LOWS_LIQUIDITY"}
    \cup {LevelTypes[g][age][side] : g \in Granularities, age \in {"CURRENT", "PREVIOUS"}, side \in {1, 2}}

MCConfig ==
  [atrPeriod |-> 2, ringSize |-> 5, baselineWindow |-> 3, lookback |-> 2, confirmationWindow |-> 2,
   reversalSlice |-> 5, baseMin |-> 2, baseMax |-> 3,
   sizeStandard |-> 200, sizeStrong |-> 300, smallStandard |-> 50, smallStrong |-> 34,
   baseHeightAtr |-> 100, baseHeightDeparture |-> 60, baseDrift |-> 25, baseOverlap |-> 50,
   dojiStandard |-> 10, dojiStrong |-> 5,
   hammerStandard |-> [share |-> 60, body |-> 30, opposite |-> 10],
   hammerStrong   |-> [share |-> 70, body |-> 20, opposite |-> 5],
   wickStandard |-> [share |-> 40, body |-> 25, dominance |-> 200, position |-> 60],
   wickStrong   |-> [share |-> 50, body |-> 30, dominance |-> 300, position |-> 70],
   wickContext |-> 125,
   reversalStandard |-> [size |-> 200, body |-> 60, position |-> 70],
   reversalStrong   |-> [size |-> 300, body |-> 70, position |-> 80],
   enabled |-> AllTypes \ {"EVENING_STAR", "CURRENT_DAY_LOW"}]

\* A month does not begin with a week.
Length(g) == CASE g = "DAY" -> 2 [] g = "WEEK" -> 4 [] g = "MONTH" -> 5
MCWindowStart(g, time) == time - (time % Length(g))
MCWindowEnd(g, time) == MCWindowStart(g, time) + Length(g)

S(open, high, low, close) ==
  [open |-> 100 * open, high |-> 100 * high, low |-> 100 * low, close |-> 100 * close]

Doji == S(20, 21, 19, 20)
Up   == S(20, 21, 19, 21)
Down == S(21, 21, 19, 20)
Rally == S(19, 25, 19, 25)
Drop == S(21, 21, 15, 15)
Hammer == S(20, 20, 15, 20)
ShootingStar == S(20, 25, 20, 20)
PressureUp == S(18, 20, 16, 20)
PressureDown == S(20, 24, 18, 18)
GapUp == S(30, 31, 29, 31)
GapDown == S(10, 11, 9, 9)
Flat == S(20, 20, 20, 20)

Shapes == {Doji, Up, Down, Rally, Drop, Hammer, ShootingStar, PressureUp, PressureDown, GapUp, GapDown, Flat}

At(shape, id, time, delay) ==
  [id |-> id, time |-> time, available |-> time + delay,
   open |-> shape.open, high |-> shape.high, low |-> shape.low, close |-> shape.close]

ZoneAt(id, type, top, available) ==
  [id |-> id, type |-> type, top |-> 100 * top, bottom |-> 100 * (top - 1), confirmed |-> 1,
   available |-> available]
ZoneSets ==
  {{}, {ZoneAt(1, "SUPPORT_ZONE", 19, 1)},
   {ZoneAt(1, "SUPPORT_ZONE", 20, 1), ZoneAt(2, "EQUAL_HIGHS_LIQUIDITY", 22, 1)}}

\* The shapes of an opening, and what its continuation may be made of.
Family(opening, extra, shapes, gaps, delays, zoneSets) ==
  [opening |-> opening, extra |-> extra, shapes |-> shapes, gaps |-> gaps, delays |-> delays,
   zoneSets |-> zoneSets]

Families ==
  {Family(o, 3, Shapes, {1}, {1}, {{}}) :
     o \in {<<>>, <<Doji, Up>>, <<Rally, Down, Up>>, <<Drop, Flat, Up, Doji>>,
            <<Flat, Flat, Down, Drop>>, <<Up, Down, Rally, Doji, Up>>, <<Drop, Down, Up, Up, Drop>>}}
  \cup {Family(<<Up>>, 3, {Up, Drop}, {1, 4}, {1}, ZoneSets),
        Family(<<Down, Up>>, 4, {Up, Rally, Drop}, {1}, {1, 2}, {{}})}

\* The candles of the opening follow each other without delay.
Plays(cs, f) ==
  \A i \in 1..Smallest(Len(cs), Len(f.opening)) : cs[i] = At(f.opening[i], i, i, 1)

Continuations(cs, f) ==
  LET n    == Len(cs) + 1
      last == IF cs = <<>> THEN [time |-> 0] ELSE Last(cs)
  IN  IF ~Plays(cs, f) \/ n > Len(f.opening) + f.extra THEN {}
      ELSE IF n <= Len(f.opening)
        THEN {[candle |-> At(f.opening[n], n, n, 1), zones |-> {}]}
        ELSE [candle : {At(s, n, last.time + g, d) : s \in f.shapes, g \in f.gaps, d \in f.delays},
            zones : f.zoneSets]

MCFeed(cs, zs) == UNION {Continuations(cs, f) : f \in Families}
=============================================================================

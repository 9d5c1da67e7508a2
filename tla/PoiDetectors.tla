---------------------------- MODULE PoiDetectors ----------------------------
(***************************************************************************)
(* The batch detectors of points of interest, poi/*.py: what each of them  *)
(* finds in a whole sequence of candles.                                   *)
(*                                                                         *)
(* A candle is [id, time, available, open, high, low, close].  Ratios are  *)
(* compared multiplied out.  A candidate of every detector is one kind of  *)
(* record; sources are the ids it was made from.                           *)
(***************************************************************************)
EXTENDS CandleMeasures

CONSTANTS
  WindowStart(_, _),  \* the start of the window of a granularity that a time is in
  WindowEnd(_, _)

ASSUME DetectorConfig ==
  /\ Config.baseMin \in Nat \ {0} /\ Config.baseMax \in Nat /\ Config.baseMin <= Config.baseMax
  /\ {Config.lookback, Config.confirmationWindow, Config.baselineWindow} \subseteq Nat \ {0}
  /\ {Config.sizeStandard, Config.sizeStrong, Config.smallStandard, Config.smallStrong,
      Config.baseHeightAtr, Config.baseHeightDeparture, Config.baseDrift, Config.baseOverlap}
       \subseteq Nat \ {0}

Bullish(c) == c.close > c.open
Bearish(c) == c.close < c.open
UpperWick(c) == c.high - Largest(c.open, c.close)
LowerWick(c) == Smallest(c.open, c.close) - c.low
Body(c) == AbsDiff(c.close, c.open)
BullishPosition(c) == c.close - c.low
BearishPosition(c) == c.high - c.close

\* The ratio a / b against a setting, b > 0.
AtLeast(a, b, setting) == 100 * a >= setting * b
AtMost(a, b, setting)  == 100 * a <= setting * b

Tier(strong) == IF strong THEN "STRONG" ELSE "STANDARD"

\* A candidate of the families that never change, made of the candles sources
\* and known once the candle confirmedBy is.
Zone(type, direction, top, bottom, tier, sources, confirmedBy) ==
  [kind |-> "A", type |-> type, direction |-> direction, top |-> top, bottom |-> bottom,
   tier |-> tier, sources |-> [i \in DOMAIN sources |-> sources[i].id], period |-> <<>>,
   event |-> sources[1].time, available |-> confirmedBy.available]

\* One of two types by direction.
Directed(bullish, ifBullish, ifBearish) ==
  IF bullish THEN <<ifBullish, "BULLISH">> ELSE <<ifBearish, "BEARISH">>

-----------------------------------------------------------------------------
(* Pairs and triples of candles, and single ones.                          *)

Engulfs(first, second) ==
  /\ TotalRange(first) > 0
  /\ AtLeast(TotalRange(second), TotalRange(first), Config.sizeStandard)
  /\ \/ Bearish(first) /\ Bullish(second)
     \/ Bullish(first) /\ Bearish(second)

PairZone(kind, first, second) ==
  Zone(kind[1], kind[2], first.high, first.low,
       Tier(AtLeast(TotalRange(second), TotalRange(first), Config.sizeStrong)),
       <<first, second>>, second)

DetectEngulfing(cs) ==
  {PairZone(Directed(Bullish(cs[i + 1]), "BULLISH_ENGULFING", "BEARISH_ENGULFING"), cs[i], cs[i + 1]) :
     i \in {j \in 1..(Len(cs) - 1) : Engulfs(cs[j], cs[j + 1])}}

\* An engulfing candle that also closes beyond the other.
Displaces(origin, displacement) ==
  /\ Engulfs(origin, displacement)
  /\ IF Bullish(displacement) THEN displacement.close > origin.high ELSE displacement.close < origin.low

DetectOrderBlocks(cs) ==
  {PairZone(Directed(Bullish(cs[i + 1]), "BUY_ORDER_BLOCK", "SELL_ORDER_BLOCK"), cs[i], cs[i + 1]) :
     i \in {j \in 1..(Len(cs) - 1) : Displaces(cs[j], cs[j + 1])}}

Leaves(first, third) == third.low > first.high \/ third.high < first.low

GapZone(first, middle, third) ==
  LET up   == third.low > first.high
      kind == Directed(up, "BUY_FAIR_VALUE_GAP", "SELL_FAIR_VALUE_GAP")
  IN  Zone(kind[1], kind[2], IF up THEN third.low ELSE first.low, IF up THEN first.high ELSE third.high,
           "NONE", <<first, middle, third>>, third)

DetectFairValueGaps(cs) ==
  {GapZone(cs[i], cs[i + 1], cs[i + 2]) : i \in {j \in 1..(Len(cs) - 2) : Leaves(cs[j], cs[j + 2])}}

\* A doji between two opposite candles, the third beyond the middle of the first.
IsStar(first, middle, third) ==
  /\ TotalRange(middle) > 0
  /\ AtMost(Body(middle), TotalRange(middle), Config.dojiStandard)
  /\ \/ Bearish(first) /\ Bullish(third) /\ 2 * third.close > first.high + first.low
     \/ Bullish(first) /\ Bearish(third) /\ 2 * third.close < first.high + first.low

StarZone(first, middle, third) ==
  LET kind == Directed(Bullish(third), "MORNING_STAR", "EVENING_STAR")
  IN  Zone(kind[1], kind[2], middle.high, middle.low,
           Tier(AtMost(Body(middle), TotalRange(middle), Config.dojiStrong)),
           <<first, middle, third>>, third)

DetectThreeCandleStars(cs) ==
  {StarZone(cs[i], cs[i + 1], cs[i + 2]) :
     i \in {j \in 1..(Len(cs) - 2) : IsStar(cs[j], cs[j + 1], cs[j + 2])}}

\* The settings of a tier: the least wick share, the greatest body, and the
\* greatest share of the wick opposite.
HasWick(c, wick, opposite, setting) ==
  /\ AtLeast(wick, TotalRange(c), setting.share)
  /\ AtMost(Body(c), TotalRange(c), setting.body)
  /\ AtMost(opposite, TotalRange(c), setting.opposite)

\* The part of a candle between its body and the end of a wick.
WickZone(c, kind, strong) ==
  LET bullish == kind[2] = "BULLISH"
  IN  Zone(kind[1], kind[2],
           IF bullish THEN Smallest(c.open, c.close) ELSE c.high,
           IF bullish THEN c.low ELSE Largest(c.open, c.close),
           Tier(strong), <<c>>, c)

IsHammer(c, setting)       == HasWick(c, LowerWick(c), UpperWick(c), setting)
IsShootingStar(c, setting) == HasWick(c, UpperWick(c), LowerWick(c), setting)

IsSingleReversal(c) ==
  TotalRange(c) > 0 /\ (IsHammer(c, Config.hammerStandard) \/ IsShootingStar(c, Config.hammerStandard))

\* A candle that is both is a hammer.
SingleReversal(c) ==
  IF IsHammer(c, Config.hammerStandard)
    THEN WickZone(c, Directed(TRUE, "HAMMER", ""), IsHammer(c, Config.hammerStrong))
    ELSE WickZone(c, Directed(FALSE, "", "SHOOTING_STAR"), IsShootingStar(c, Config.hammerStrong))

DetectSingleCandleReversals(cs) == {SingleReversal(c) : c \in {d \in Range(cs) : IsSingleReversal(d)}}

-----------------------------------------------------------------------------
(* Detectors that look further back.                                       *)

\* A wick that dominates a candle with a body.
Pressure(c, wick, opposite, position, setting) ==
  /\ AtLeast(wick, TotalRange(c), setting.share)
  /\ AtLeast(Body(c), TotalRange(c), setting.body)
  /\ 100 * wick >= setting.dominance * opposite
  /\ AtLeast(position, TotalRange(c), setting.position)

PressesUp(c, setting)   == Pressure(c, LowerWick(c), UpperWick(c), BullishPosition(c), setting)
PressesDown(c, setting) == Pressure(c, UpperWick(c), LowerWick(c), BearishPosition(c), setting)

IsPressure(c) ==
  TotalRange(c) > 0 /\ (PressesUp(c, Config.wickStandard) \/ PressesDown(c, Config.wickStandard))

\* The strong tier also wants a candle wide against the median of the ones
\* before it.  Without any before it the candle is its own median, a median of
\* zero makes the ratio one.
IsWide(c, before) ==
  LET baseline == IF before = <<>> THEN TotalRange(c)
                  ELSE Median([k \in DOMAIN before |-> TotalRange(before[k])])
  IN  IF baseline > 0 THEN AtLeast(TotalRange(c), baseline, Config.wickContext)
                      ELSE 100 >= Config.wickContext

PressureZone(c, before) ==
  IF PressesUp(c, Config.wickStandard)
    THEN WickZone(c, Directed(TRUE, "BULLISH_PRESSURE_WICK", ""),
                  PressesUp(c, Config.wickStrong) /\ IsWide(c, before))
    ELSE WickZone(c, Directed(FALSE, "", "BEARISH_PRESSURE_WICK"),
                  PressesDown(c, Config.wickStrong) /\ IsWide(c, before))

DetectPressureWicks(cs) ==
  {PressureZone(cs[i], SubSeq(cs, Largest(1, i - Config.baselineWindow), i - 1)) :
     i \in {j \in DOMAIN cs : IsPressure(cs[j])}}

\* The ratio of a candle to the widest of those before it, its body and its close.
Reverses(cs, i, setting) ==
  LET c        == cs[i]
      baseline == Max({TotalRange(cs[k]) : k \in (i - Config.lookback)..(i - 1)})
  IN  /\ baseline > 0
      /\ AtLeast(TotalRange(c), baseline, setting.size)
      /\ AtLeast(Body(c), TotalRange(c), setting.body)
      /\ \/ Bearish(c) /\ AtLeast(BearishPosition(c), TotalRange(c), setting.position)
         \/ Bullish(c) /\ AtLeast(BullishPosition(c), TotalRange(c), setting.position)

\* The candles that may confirm candle i, closing beyond its middle.
Confirmations(cs, i) ==
  {p \in (i + 1)..Smallest(i + Config.confirmationWindow, Len(cs)) :
     IF Bearish(cs[i]) THEN 2 * cs[p].close > cs[i].high + cs[i].low
                       ELSE 2 * cs[p].close < cs[i].high + cs[i].low}

\* A candle to be reversed is of the opposite direction.
ReversalZone(cs, i) ==
  LET kind == Directed(Bearish(cs[i]), "SELL_TO_BUY_CANDLE", "BUY_TO_SELL_CANDLE")
  IN  Zone(kind[1], kind[2], cs[i].high, cs[i].low, Tier(Reverses(cs, i, Config.reversalStrong)),
           <<cs[i]>>, cs[Min(Confirmations(cs, i))])

DetectReversalCandles(cs) ==
  {ReversalZone(cs, i) : i \in {j \in (Config.lookback + 1)..Len(cs) :
     Reverses(cs, j, Config.reversalStandard) /\ Confirmations(cs, j) # {}}}

\* Small candles side by side that a wide one departs from.  Their height is
\* measured by the ATR before the departure, or its range when there is none.
IsBase(base, departure, atr) ==
  LET range     == TotalRange(departure)
      widest    == Max({TotalRange(base[i]) : i \in DOMAIN base})
      top       == Max({base[i].high : i \in DOMAIN base})
      bottom    == Min({base[i].low : i \in DOMAIN base})
      reference == IF atr \in {None, 0} THEN range ELSE atr
      Centred(c) == 100 * AbsDiff(c.high + c.low, top + bottom) <= 2 * Config.baseDrift * (top - bottom)
      SideBySide(left, right) ==
        LET overlap  == Largest(0, Smallest(left.high, right.high) - Largest(left.low, right.low))
            narrower == Smallest(TotalRange(left), TotalRange(right))
        IN  narrower = 0 \/ AtLeast(overlap, narrower, Config.baseOverlap)
  IN  /\ range > 0 /\ widest > 0
      /\ AtMost(widest, range, Config.smallStandard)
      /\ AtLeast(range, widest, Config.sizeStandard)
      /\ 100 * (top - bottom) <= Config.baseHeightAtr * reference
      /\ 100 * (top - bottom) <= Config.baseHeightDeparture * range
      /\ \A i \in DOMAIN base : Centred(base[i])
      /\ \A i \in 1..(Len(base) - 1) : SideBySide(base[i], base[i + 1])
      /\ \/ Bullish(departure) /\ departure.close > top
         \/ Bearish(departure) /\ departure.close < bottom

BaseZone(base, departure) ==
  LET kind   == Directed(Bullish(departure), "BASE_RALLY", "BASE_DROP")
      widest == Max({TotalRange(base[i]) : i \in DOMAIN base})
  IN  Zone(kind[1], kind[2], Max({base[i].high : i \in DOMAIN base}), Min({base[i].low : i \in DOMAIN base}),
           Tier(/\ AtLeast(TotalRange(departure), widest, Config.sizeStrong)
                /\ AtMost(widest, TotalRange(departure), Config.smallStrong)),
           Append(base, departure), departure)

DetectBases(cs) ==
  LET atrs == AtrSeries(cs)
      Base(start, length) == SubSeq(cs, start, (start + length) - 1)
      Spans == {s \in (1..Len(cs)) \X (Config.baseMin..Config.baseMax) :
                  /\ s[1] + s[2] <= Len(cs)
                  /\ IsBase(Base(s[1], s[2]), cs[s[1] + s[2]], atrs[(s[1] + s[2]) - 1])}
  IN  {BaseZone(Base(s[1], s[2]), cs[s[1] + s[2]]) : s \in Spans}

-----------------------------------------------------------------------------
(* Period levels and reference zones.                                      *)

Granularities == {"DAY", "WEEK", "MONTH"}

\* The types of the highs and lows.
LevelTypes ==
  [DAY   |-> [CURRENT |-> <<"CURRENT_DAY_HIGH", "CURRENT_DAY_LOW">>,
              PREVIOUS |-> <<"PREVIOUS_DAY_HIGH", "PREVIOUS_DAY_LOW">>],
   WEEK  |-> [CURRENT |-> <<"CURRENT_WEEK_HIGH", "CURRENT_WEEK_LOW">>,
              PREVIOUS |-> <<"PREVIOUS_WEEK_HIGH", "PREVIOUS_WEEK_LOW">>],
   MONTH |-> [CURRENT |-> <<"CURRENT_MONTH_HIGH", "CURRENT_MONTH_LOW">>,
              PREVIOUS |-> <<"PREVIOUS_MONTH_HIGH", "PREVIOUS_MONTH_LOW">>]]

\* A level at the extreme of a period, at the candle that set it.
PeriodLevel(granularity, age, isHigh, extreme, available) ==
  LET price == IF isHigh THEN extreme.high ELSE extreme.low
  IN  [kind |-> "P", type |-> LevelTypes[granularity][age][IF isHigh THEN 1 ELSE 2],
       direction |-> IF isHigh THEN "BEARISH" ELSE "BULLISH", top |-> price, bottom |-> price,
       tier |-> "NONE", sources |-> <<extreme.id>>,
       period |-> <<WindowStart(granularity, extreme.time), WindowEnd(granularity, extreme.time)>>,
       event |-> extreme.time, available |-> available]

PeriodLevels(granularity, age, highest, lowest, available) ==
  {PeriodLevel(granularity, age, TRUE, highest, available),
   PeriodLevel(granularity, age, FALSE, lowest, available)}

\* The earliest of the highest, and of the lowest, candles.
Highest(cs) == cs[Min({i \in DOMAIN cs : \A j \in DOMAIN cs : cs[j].high <= cs[i].high})]
Lowest(cs)  == cs[Min({i \in DOMAIN cs : \A j \in DOMAIN cs : cs[j].low >= cs[i].low})]

\* Where the window that candle n is in opens, and its candles up to that one.
Opening(cs, g, n) ==
  Min({i \in 1..n : \A j \in i..n : WindowStart(g, cs[j].time) = WindowStart(g, cs[n].time)})
Window(cs, g, n) == SubSeq(cs, Opening(cs, g, n), n)

\* The current window is known with its last candle, the one before it with
\* the first candle of the current one.
DetectPeriodLevels(cs) ==
  LET Of(g) ==
        LET first    == Opening(cs, g, Len(cs))
            current  == Window(cs, g, Len(cs))
            previous == Window(cs, g, first - 1)
        IN  PeriodLevels(g, "CURRENT", Highest(current), Lowest(current), Last(cs).available)
              \cup IF first = 1 THEN {}
                   ELSE PeriodLevels(g, "PREVIOUS", Highest(previous), Lowest(previous), cs[first].available)
  IN  IF cs = <<>> THEN {} ELSE UNION {Of(g) : g \in Granularities}

\* Measured zones are [id, type, top, bottom, confirmed, available].
DetectReferenceZones(zones) ==
  {[kind |-> "R", type |-> z.type,
    direction |-> IF z.type \in {"SUPPORT_ZONE", "EQUAL_LOWS_LIQUIDITY"} THEN "BULLISH" ELSE "BEARISH",
    top |-> z.top, bottom |-> z.bottom, tier |-> "NONE", sources |-> <<z.id>>, period |-> <<>>,
    event |-> z.confirmed, available |-> z.available] : z \in zones}

-----------------------------------------------------------------------------
\* The patterns of candles: once found they stay as they are.
DetectPatterns(cs) ==
  DetectOrderBlocks(cs) \cup DetectFairValueGaps(cs) \cup DetectReversalCandles(cs)
    \cup DetectBases(cs) \cup DetectPressureWicks(cs) \cup DetectEngulfing(cs)
    \cup DetectSingleCandleReversals(cs) \cup DetectThreeCandleStars(cs)

\* What the whole sequence and the zones measured in it give.
DetectCandidates(cs, zones) ==
  {c \in DetectPatterns(cs) \cup DetectReferenceZones(zones) \cup DetectPeriodLevels(cs) :
     c.type \in Config.enabled}
=============================================================================

-------------------------- MODULE CandleMeasures --------------------------
(***************************************************************************)
(* Measures of candles that several detectors share: the Wilder ATR of     *)
(* measurements/atr.py, in one pass and incrementally, and the range and   *)
(* the median of measurements/candle_metrics.py.                           *)
(*                                                                         *)
(* Prices are hundredths of a tick and the configuration's multipliers     *)
(* hundredths, so a tolerance Mult * atr is in hundredths of a price unit  *)
(* and is compared with 100 * price.  Divisions (the ATR, a median)        *)
(* round down to a hundredth of a tick, where the code keeps 28 digits.    *)
(***************************************************************************)
EXTENDS Integers, Sequences, SequencesExt, FiniteSetsExt

CONSTANT Config     \* a record, one field per setting of the analyzers

ASSUME AtrConfig == Config.atrPeriod \in Nat \ {0}

\* A candle as its contract admits it: positive prices, the high and the low
\* around the open and the close.
IsCandle(c) ==
  /\ {c.open, c.high, c.low, c.close} \subseteq Nat \ {0}
  /\ c.low <= c.open /\ c.open <= c.high
  /\ c.low <= c.close /\ c.close <= c.high

None == -1

AbsDiff(a, b) == IF a >= b THEN a - b ELSE b - a
Largest(a, b)  == IF a >= b THEN a ELSE b
Smallest(a, b) == IF a <= b THEN a ELSE b

TotalRange(c) == c.high - c.low

TrueRange(c, previousClose) ==
  IF previousClose = None
    THEN c.high - c.low
    ELSE Max({c.high - c.low, AbsDiff(c.high, previousClose), AbsDiff(c.low, previousClose)})

TrueRanges(candles) ==
  [i \in DOMAIN candles |-> TrueRange(candles[i], IF i = 1 THEN None ELSE candles[i - 1].close)]

Total(ranges) ==
  LET sum[i \in 0..Len(ranges)] == IF i = 0 THEN 0 ELSE sum[i - 1] + ranges[i]
  IN  sum[Len(ranges)]

AtrSeries(candles) ==
  LET ranges == TrueRanges(candles)
      atr[i \in DOMAIN candles] ==
        IF i > Config.atrPeriod
          THEN (atr[i - 1] * (Config.atrPeriod - 1) + ranges[i]) \div Config.atrPeriod
          ELSE IF i = Config.atrPeriod
                 THEN Total(SubSeq(ranges, 1, i)) \div Config.atrPeriod
                 ELSE None
  IN  atr

InitialAtrState == [previousClose |-> None, sum |-> 0, count |-> 0, atr |-> None]

\* The state after the candle; its atr is the candle's value.
AdvanceAtr(state, c) ==
  LET range  == TrueRange(c, state.previousClose)
      period == Config.atrPeriod
      sum    == state.sum + range
      count  == state.count + 1
  IN  IF state.atr # None
        THEN [state EXCEPT !.previousClose = c.close,
                           !.atr = (@ * (period - 1) + range) \div period]
        ELSE [previousClose |-> c.close, sum |-> sum, count |-> count,
              atr |-> IF count < period THEN None ELSE sum \div period]

Median(values) ==
  LET ordered == SortSeq(values, <)
      mid     == Len(values) \div 2
  IN  IF Len(values) % 2 = 1
        THEN ordered[mid + 1]
        ELSE (ordered[mid] + ordered[mid + 1]) \div 2
=============================================================================

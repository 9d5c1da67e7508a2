------------------------------- MODULE Swings -------------------------------
(***************************************************************************)
(* The batch detector of confirmed swings: domain/swings.py.               *)
(*                                                                         *)
(* A candle is [open, high, low, close]; its index in the sequence is its  *)
(* identity and its event time, and index + 1 the time it is available.    *)
(***************************************************************************)
EXTENDS CandleMeasures

ASSUME SwingConfig ==
  /\ {Config.pivotTie, Config.meaningfulReversal} \subseteq Nat
  /\ Config.idOrder \in {1, -1}

WindowRadius == 2

High == "SWING_HIGH"
Low  == "SWING_LOW"
Opposite(type) == IF type = High THEN Low ELSE High

-----------------------------------------------------------------------------
(* Pivots: single candles, plateaus of two, and the one survivor of a run  *)
(* of the same direction.                                                  *)

\* The pivot centred on candle i, as a sequence of none or one.  The centre
\* has its window on both sides.
PivotAt(candles, atrs, i) ==
  LET tie    == Config.pivotTie * atrs[i]
      window == {j \in (i - WindowRadius)..(i + WindowRadius) : j # i}
      high   == \A j \in window : 100 * candles[j].high <= 100 * candles[i].high + tie
      low    == \A j \in window : 100 * candles[j].low >= 100 * candles[i].low - tie
      Pivot(type, price) ==
        [start |-> i, end |-> i, type |-> type, price |-> price, atr |-> atrs[i], tie |-> tie]
  IN  IF atrs[i] = None \/ high = low
        THEN <<>>
        ELSE <<IF high THEN Pivot(High, candles[i].high) ELSE Pivot(Low, candles[i].low)>>

\* The candles with a whole window around them.
SinglePivots(candles, atrs) ==
  LET last == Largest(0, Len(candles) - WindowRadius)
      found[i \in 0..last] ==
        IF i <= WindowRadius THEN <<>> ELSE found[i - 1] \o PivotAt(candles, atrs, i)
  IN  found[last]

MoreExtreme(type, a, b) == IF type = High THEN a > b ELSE a < b

Plateau(first, p) ==
  [p EXCEPT !.start = first.start,
            !.price = IF MoreExtreme(p.type, first.price, @) THEN first.price ELSE @,
            !.atr = Median(<<first.atr, @>>)]

\* A single pivot takes the next candle's into a plateau; a plateau is full.
\* Pivots come in the order of their candles: the two of a plateau are next to
\* each other among the pivots of both types too, and the order is kept.
MergePlateau(merged, p) ==
  IF /\ merged # <<>>
     /\ Last(merged).type = p.type
     /\ Last(merged).start = Last(merged).end
     /\ p.start = Last(merged).end + 1
     /\ 100 * AbsDiff(p.price, Last(merged).price) <= Last(merged).tie
    THEN Append(Front(merged), Plateau(Last(merged), p))
    ELSE Append(merged, p)

MergeAdjacentPlateaus(pivots) ==
  LET merged[k \in 0..Len(pivots)] ==
        IF k = 0 THEN <<>> ELSE MergePlateau(merged[k - 1], pivots[k])
  IN  merged[Len(pivots)]

\* The most extreme of a run survives, the first of equals.
Supersede(collapsed, p) ==
  IF collapsed = <<>> \/ Last(collapsed).type # p.type
    THEN Append(collapsed, p)
    ELSE IF MoreExtreme(p.type, p.price, Last(collapsed).price)
           THEN Append(Front(collapsed), p)
           ELSE collapsed

SupersedeSameDirectionRuns(pivots) ==
  LET collapsed[k \in 0..Len(pivots)] ==
        IF k = 0 THEN <<>> ELSE Supersede(collapsed[k - 1], pivots[k])
  IN  collapsed[Len(pivots)]

Pivots(single) == SupersedeSameDirectionRuns(MergeAdjacentPlateaus(single))

-----------------------------------------------------------------------------
(* The confirmation: the first candle after the local one whose reversal   *)
(* is large enough.                                                        *)

LocalIndex(p) == p.end + WindowRadius

Extreme(type, candles, from, to) ==
  IF type = High
    THEN Min({candles[j].low : j \in from..to})
    ELSE Max({candles[j].high : j \in from..to})

Excursion(p, extreme) == IF p.type = High THEN p.price - extreme ELSE extreme - p.price

Reversed(p, extreme) ==
  100 * Excursion(p, extreme) >= Config.meaningfulReversal * p.atr

Swing(p, confirmed, excursion) ==
  [type |-> p.type, price |-> p.price, start |-> p.start, end |-> p.end,
   local |-> LocalIndex(p), confirmed |-> confirmed, atr |-> p.atr, excursion |-> excursion]

\* A swing's record is derived from its pivot's first candle and the candle
\* that confirms it.
SwingId(s) == <<s.type, s.start, s.confirmed>>

\* Identifiers are drawn at random: where swings confirmed by the same candle
\* are put in the order of their identifiers, that is one of the two orders a
\* pair can have.
ConfirmedBefore(s, t) ==
  \/ s.confirmed < t.confirmed
  \/ s.confirmed = t.confirmed /\ Config.idOrder * s.start < Config.idOrder * t.start

\* The reversal of a pivot, if the candles hold it: where and how far.
Confirmation(p, candles) ==
  LET n     == Len(candles)
      local == LocalIndex(p)
      hits  == {j \in (local + 1)..n : Reversed(p, Extreme(p.type, candles, local, j))}
  IN  IF hits = {}
        THEN [at |-> None, excursion |-> 0]
        ELSE [at |-> Min(hits),
              excursion |-> Excursion(p, Extreme(p.type, candles, local, Min(hits)))]

\* A confirmed pivot is a swing unless the swing before it has its type.
AddSwingOf(swings, p, confirmation) ==
  IF \/ confirmation.at = None
     \/ swings # <<>> /\ Last(swings).type = p.type
    THEN swings
    ELSE Append(swings, Swing(p, confirmation.at, confirmation.excursion))

AlternatingSwings(pivots, confirmations) ==
  LET swings[k \in 0..Len(pivots)] ==
        IF k = 0 THEN <<>> ELSE AddSwingOf(swings[k - 1], pivots[k], confirmations[k])
  IN  swings[Len(pivots)]

DetectConfirmedSwings(candles) ==
  LET pivots == Pivots(SinglePivots(candles, AtrSeries(candles)))
  IN  IF Len(candles) < 2 * WindowRadius + 1
        THEN <<>>
        ELSE AlternatingSwings(pivots, [k \in DOMAIN pivots |-> Confirmation(pivots[k], candles)])
=============================================================================

-------------------------- MODULE SupportResistance --------------------------
(***************************************************************************)
(* The batch detector of support and resistance zones,                     *)
(* domain/support_resistance.py over measurements/legs.py: an origin swing *)
(* opens a zone when price reacts away from it, and each later swing of    *)
(* the same type inside the zone, with an opposite swing between, is a     *)
(* touch when price reacts again.  A zone needs one touch.                 *)
(*                                                                         *)
(* A zone's top and bottom are in hundredths of a price unit, as every     *)
(* tolerance is.                                                           *)
(***************************************************************************)
EXTENDS Swings

ASSUME ZoneConfig ==
  /\ {Config.zoneDepth, Config.touchTolerance, Config.pierceTolerance,
      Config.reactionAtrRatio, Config.reactionClearance, Config.reactionShare} \subseteq Nat
  /\ {Config.reactionWindow, Config.reactionEfficiency} \subseteq Nat \ {0}

Zone(origin) ==
  LET depth == Config.zoneDepth * origin.atr
      price == 100 * origin.price
  IN  IF origin.type = Low
        THEN [support |-> TRUE, bottom |-> price, top |-> price + depth]
        ELSE [support |-> FALSE, top |-> price, bottom |-> price - depth]

\* The price lies in the zone, widened by the tolerances of its origin.
InBand(origin, price) ==
  LET zone   == Zone(origin)
      touch  == Config.touchTolerance * origin.atr
      pierce == Config.pierceTolerance * origin.atr
  IN  IF zone.support
        THEN 100 * price \in (zone.bottom - pierce)..(zone.top + touch)
        ELSE 100 * price \in (zone.bottom - touch)..(zone.top + pierce)

-----------------------------------------------------------------------------
(* The reaction away from a zone.                                          *)

Leaves(zone, c) == IF zone.support THEN 100 * c.close > zone.top ELSE 100 * c.close < zone.bottom

\* Efficiency and share of the leg from..to in the zone's direction.
LegMeets(candles, atrs, zone, from, to) ==
  LET leg   == SubSeq(candles, from, to)
      known == SelectSeq(SubSeq(atrs, from, to), LAMBDA a : a # None)
      path  == FoldLeft(LAMBDA sum, c : sum + (c.high - c.low), 0, leg)
      net   == AbsDiff(Last(leg).close, leg[1].open)
      along == Cardinality({i \in DOMAIN leg : IF zone.support THEN leg[i].close >= leg[i].open
                                                               ELSE leg[i].close <= leg[i].open})
  IN  /\ path # 0
      /\ known # <<>> /\ Median(known) # 0
      /\ 100 * net >= Config.reactionEfficiency * path
      /\ 100 * along >= Config.reactionShare * Len(leg)

WindowEnd(candles, start) == Smallest(start + Config.reactionWindow - 1, Len(candles))

\* The candle of the largest excursion within the window that begins at
\* start, if the reaction up to it is a standard one.
ConfirmingCandle(candles, atrs, zone, start, anchor) ==
  LET window == start..WindowEnd(candles, start)
      reach(i) == IF zone.support THEN candles[i].high ELSE candles[i].low
      best  == IF zone.support THEN Max({reach(i) : i \in window}) ELSE Min({reach(i) : i \in window})
      at    == Min({i \in window : reach(i) = best})
      mfe   == IF zone.support THEN best - anchor ELSE anchor - best
      clear == IF zone.support THEN 100 * best - zone.top ELSE zone.bottom - 100 * best
  IN  IF /\ atrs[start] \notin {None, 0}
         /\ 100 * mfe >= Config.reactionAtrRatio * atrs[start]
         /\ 100 * Largest(0, clear) >= Config.reactionClearance * (zone.top - zone.bottom)
         /\ LegMeets(candles, atrs, zone, start, at)
        THEN at
        ELSE None

Anchor(candles, zone, from, start) ==
  IF zone.support THEN Min({candles[i].low : i \in from..start})
                  ELSE Max({candles[i].high : i \in from..start})

EvaluateReaction(candles, atrs, zone, from) ==
  LET leaving == {i \in from..Len(candles) : Leaves(zone, candles[i])}
  IN  IF zone.top = zone.bottom \/ leaving = {}
        THEN None
        ELSE ConfirmingCandle(candles, atrs, zone, Min(leaving),
                              Anchor(candles, zone, from, Min(leaving)))

-----------------------------------------------------------------------------
(* The walk of each origin over the swings of its type.                    *)

\* Only the confirmation time orders the swings: swings confirmed by the
\* same candle keep the order of their pivots.
SwingsOfType(swings, type) ==
  SortSeq(SelectSeq(swings, LAMBDA s : s.type = type), LAMBDA s, t : s.confirmed < t.confirmed)

OppositeBetween(swings, type, from, to) ==
  \E s \in Range(swings) : s.type = Opposite(type) /\ from < s.confirmed /\ s.confirmed < to

ZoneCandidate(origin, touches, confirming) ==
  [type |-> origin.type, origin |-> SwingId(origin), zone |-> Zone(origin),
   touches |-> touches, confirmed |-> confirming]

ZoneOf(origin, swings, candles, atrs) ==
  LET zone == Zone(origin)
      Visit(acc, touch) ==
        LET reaction == EvaluateReaction(candles, atrs, zone, touch.end + 1)
        IN  IF /\ touch.confirmed > acc.last
               /\ InBand(origin, touch.price)
               /\ OppositeBetween(swings, origin.type, acc.last, touch.confirmed)
               /\ reaction # None
              THEN [touches |-> Append(acc.touches, SwingId(touch)),
                    first |-> IF acc.first = None THEN reaction ELSE acc.first,
                    last |-> touch.confirmed]
              ELSE acc
      walked == FoldLeft(Visit, [touches |-> <<>>, first |-> None, last |-> origin.confirmed],
                         SwingsOfType(swings, origin.type))
  IN  IF EvaluateReaction(candles, atrs, zone, origin.end + 1) = None \/ walked.first = None
        THEN <<>>
        ELSE <<ZoneCandidate(origin, walked.touches, walked.first)>>

ZonesByConfirmation(zones) == SortSeq(zones, LAMBDA y, z : y.confirmed < z.confirmed)

DetectZones(candles, atrs, swings) ==
  LET Of(type) == LET origins == SwingsOfType(swings, type)
                  IN  FlattenSeq([i \in DOMAIN origins |-> ZoneOf(origins[i], swings, candles, atrs)])
  IN  ZonesByConfirmation(Of(Low) \o Of(High))
=============================================================================

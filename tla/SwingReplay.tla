----------------------------- MODULE SwingReplay -----------------------------
(***************************************************************************)
(* The incremental swing detector of domain/analyzer.py: one step of each  *)
(* piece of state the replay keeps for the swings.                         *)
(***************************************************************************)
EXTENDS Swings

\* The measurement state keeps a copy of the recurrence.
AtrStep(state, c) == AdvanceAtr(state, c)

\* The single-candle pivots after the newest candle: only the candle two
\* before it has just got its whole window.
AppendRawPivot(raw, candles, atrs) ==
  IF Len(candles) > 2 * WindowRadius
    THEN raw \o PivotAt(candles, atrs, Len(candles) - WindowRadius)
    ELSE raw

-----------------------------------------------------------------------------
(* The search of each live pivot for its confirmation: caught up once when *)
(* the pivot appears, then folded with the newest candle alone.            *)

PivotKey(p) == <<p.start, p.end, p.type>>

LivePivots(pivots, n) == {p \in Range(pivots) : LocalIndex(p) <= n}

CaughtUpTracker(p, candles) ==
  LET n    == Len(candles)
      At(j) == Extreme(p.type, candles, LocalIndex(p), j)
      hits == {j \in (LocalIndex(p) + 1)..n : Reversed(p, At(j))}
  IN  IF hits = {}
        THEN [extreme |-> At(n), confirmedAt |-> None, excursion |-> 0]
        ELSE [extreme |-> At(Min(hits)), confirmedAt |-> Min(hits),
              excursion |-> Excursion(p, At(Min(hits)))]

\* Mutant: the newest candle is compared alone, the extreme so far forgotten.
FoldedTrackerForgets(tracker, p, candles) ==
  LET newest  == Last(candles)
      extreme == IF p.type = High THEN newest.low ELSE newest.high
  IN  IF Reversed(p, extreme)
        THEN [extreme |-> extreme, confirmedAt |-> Len(candles), excursion |-> Excursion(p, extreme)]
        ELSE [tracker EXCEPT !.extreme = extreme]

FoldedTracker(tracker, p, candles) ==
  LET newest  == Last(candles)
      extreme == IF p.type = High THEN Smallest(tracker.extreme, newest.low)
                                  ELSE Largest(tracker.extreme, newest.high)
  IN  IF Reversed(p, extreme)
        THEN [extreme |-> extreme, confirmedAt |-> Len(candles), excursion |-> Excursion(p, extreme)]
        ELSE [tracker EXCEPT !.extreme = extreme]

\* A pivot that left the list loses its tracker.
UpdateTrackers(trackers, pivots, candles) ==
  LET live == LivePivots(pivots, Len(candles))
      Next(p) == IF PivotKey(p) \notin DOMAIN trackers
                   THEN CaughtUpTracker(p, candles)
                   ELSE IF trackers[PivotKey(p)].confirmedAt # None
                          THEN trackers[PivotKey(p)]
                          ELSE FoldedTracker(trackers[PivotKey(p)], p, candles)
  IN  [key \in {PivotKey(p) : p \in live} |-> Next(CHOOSE p \in live : PivotKey(p) = key)]

\* What its tracker found of a pivot that has one.
Found(p, trackers) ==
  IF PivotKey(p) \in DOMAIN trackers
    THEN [at |-> trackers[PivotKey(p)].confirmedAt, excursion |-> trackers[PivotKey(p)].excursion]
    ELSE [at |-> None, excursion |-> 0]

DeriveConfirmedSwings(pivots, trackers) ==
  AlternatingSwings(pivots, [k \in DOMAIN pivots |-> Found(pivots[k], trackers)])
=============================================================================

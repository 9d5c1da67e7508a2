--------------------------- MODULE PoiEveryCursor ---------------------------
(***************************************************************************)
(* What the POI engine promises, whatever it does to save work: at every   *)
(* candle every present POI's cursor is advanced, and a POI that is new or *)
(* was replaced is fed the whole stream from its beginning.  This is the   *)
(* brute-force "advance every cursor" engine the scheduler replaced and    *)
(* the oracle its tests compare it with.  It is stated for any cursor: the *)
(* scheduler instantiates it with the one of PoiCursor.                    *)
(***************************************************************************)
EXTENDS PoiDelta, Integers, Sequences

CONSTANTS
  Candles, MaxCandles,
  ViewOf(_, _),         \* a candle as a POI sees it
  AdvanceCursor(_, _),  \* a cursor fed one candle, with its result
  FeedAll(_, _)         \* the cursor of a POI fed a whole stream, with its result

VARIABLES
  candles,   \* the stream so far
  specs,     \* the present POIs and their fields
  cursors,   \* a cursor for each present POI, at the head of the stream
  walks      \* the lifecycle result published for each present POI

vars == <<candles, specs, cursors, walks>>

Init ==
  /\ candles = << >>
  /\ specs = << >>
  /\ cursors = << >>
  /\ walks = << >>

Advance(c, d) ==
  LET stream  == Append(candles, c)
      kept    == Kept(DOMAIN specs, d)
      outcome == [p \in DOMAIN Revised(specs, d) |->
                    IF p \in kept THEN AdvanceCursor(cursors[p], ViewOf(c, specs[p]))
                    ELSE FeedAll(stream, d.given[p])]
  IN  /\ Len(candles) < MaxCandles
      /\ candles' = stream
      /\ specs' = Revised(specs, d)
      /\ cursors' = [p \in DOMAIN outcome |-> outcome[p].cursor]
      /\ walks' = [p \in DOMAIN outcome |-> outcome[p].result]

Next == \E c \in Candles, d \in Delta(DOMAIN specs) : Advance(c, d)

Spec == Init /\ [][Next]_vars
=============================================================================

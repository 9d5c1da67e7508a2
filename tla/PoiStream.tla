------------------------------ MODULE PoiStream ------------------------------
(***************************************************************************)
(* The candle stream as the POIs on it see it.  The zone of a POI and its  *)
(* availability are the only fields its lifecycle reads.                   *)
(***************************************************************************)
EXTENDS PoiCursor, PoiDelta

CONSTANTS
  Candles,      \* candles: [available |-> _, at |-> [zone -> Reading]]
  MaxCandles    \* bound on the length of the stream

\* What a candle says of a zone.
Reading == [touch : BOOLEAN, pos : {"breach", "none", "reclaim", "displace"},
            fast : SUBSET (1 .. DisplacementWindow)]

ASSUME StreamAssumption ==
  /\ \A s \in PoiSpecs : s.available \in Nat
  /\ \A c \in Candles : /\ c.available \in Nat
                        /\ \A s \in PoiSpecs : c.at[s.zone] \in Reading
  /\ MaxCandles \in Nat

\* The candle as POI s sees it.
ViewOf(c, s) ==
  [after |-> c.available > s.available, touch |-> c.at[s.zone].touch,
   pos |-> c.at[s.zone].pos, fast |-> c.at[s.zone].fast]

\* A stream as POI s sees it.
StreamOf(h, s) == [k \in 1 .. Len(h) |-> ViewOf(h[k], s)]

\* The cursor of a POI fed every candle of h, with the last result.
NotFed == [cursor |-> CreateCursor, result |-> Result(<< >>, "NO_BREACH", CreateCursor, None)]

FeedAll(h, s) ==
  LET fed[k \in 0 .. Len(h)] ==
        IF k = 0 THEN NotFed ELSE AdvanceCursor(fed[k - 1].cursor, ViewOf(h[k], s))
  IN  fed[Len(h)]
=============================================================================

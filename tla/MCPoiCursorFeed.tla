-------------------------- MODULE MCPoiCursorFeed --------------------------
(* Instances of PoiCursorFeed for TLC. *)
EXTENDS PoiCursorFeed

At(after, touch, pos, fast) == [after |-> after, touch |-> touch, pos |-> pos, fast |-> fast]

\* Every position of a close, legs fast over one, over three or over no candles,
\* a touching candle, and one that comes before the POI.
WalkViews ==
  {At(TRUE, FALSE, pos, {}) : pos \in {"breach", "none", "reclaim"}}
    \cup {At(TRUE, FALSE, "displace", fast) : fast \in {{}, {1}, {3}}}
    \cup {At(after, TRUE, "reclaim", {}) : after \in BOOLEAN}
=============================================================================

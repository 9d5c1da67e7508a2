--------------------------- MODULE MCPoiScheduler ---------------------------
(* Instances of PoiScheduler for TLC. *)
EXTENDS PoiScheduler, TLC

Read(touch, pos, fast) == [touch |-> touch, pos |-> pos, fast |-> fast]

Quiet     == Read(FALSE, "none", {})
Tap       == Read(TRUE, "none", {})
Breach    == Read(FALSE, "breach", {})
Reclaim   == Read(TRUE, "reclaim", {})
Displace  == Read(FALSE, "displace", {1})

\* One POI, redrawn between two zones, known before, with or after a candle; what
\* a candle is to the one zone it is not to the other.
MCSpecs == {[zone |-> z, available |-> 0] : z \in {"a", "b"}} \cup {[zone |-> "a", available |-> 1]}
Pairs == {<<Quiet, Tap>>, <<Tap, Quiet>>, <<Breach, Quiet>>, <<Reclaim, Breach>>, <<Displace, Quiet>>}
MCCandles == {[available |-> t, at |-> "a" :> pair[1] @@ "b" :> pair[2]] : t \in {1, 2}, pair \in Pairs}
=============================================================================

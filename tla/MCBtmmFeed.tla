----------------------------- MODULE MCBtmmFeed -----------------------------
(* Instances of BtmmFeed for TLC. *)
EXTENDS BtmmFeed

\* A tier that tells anchors apart, and each candle of a window.
MCEvaluateReaction(anchor, window) ==
  IF window[1].extreme = anchor THEN "weak"
  ELSE IF window[Len(window)].extreme = anchor THEN "slow" ELSE "fast"

At(touch, open, close, extreme) ==
  [touch |-> touch, open |-> open, close |-> close, extreme |-> extreme]

\* Every way to meet the zone and to close, with an anchor that moves.
MCViews ==
  {At("entry", "edge", "inside", 0), At("entry", "clear", "clear", 0),
   At("entry", "inside", "edge", 1), At("none", "clear", "clear", 1),
   At("overshoot", "clear", "inside", 0)}

Review(direction, session, volume, liquidity) ==
  [direction |-> direction, framework |-> "ALIGNED", session |-> session,
   volume |-> volume, liquidity |-> liquidity]

\* Evidence that confirms and evidence that leaves a gate open.
MCSnapshots ==
  {Review("ALIGNED", "ACTIVE", "SUPPORTS", "PRESENT"),
   Review("UNKNOWN", "ACTIVE", "SUPPORTS", "PRESENT")}

BothEvents == {"FALSE_INVALIDATION_CONFIRMED", "GENUINE_INVALIDATION_CONFIRMED"}
=============================================================================

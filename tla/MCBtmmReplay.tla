---------------------------- MODULE MCBtmmReplay ----------------------------
(* Instances of BtmmReplay for TLC. *)
EXTENDS BtmmReplay

MCEvaluateReaction(anchor, window) ==
  IF window[1].extreme = anchor THEN "weak"
  ELSE IF window[Len(window)].extreme = anchor THEN "slow" ELSE "fast"

At(touch, close, extreme) ==
  [touch |-> touch, open |-> "clear", close |-> close, extreme |-> extreme]

Away  == At("none", "clear", 1)
Enter == At("entry", "inside", 0)
Touch == At("entry", "clear", 0)

\* One zone, and the setup known before every candle.
OneZone == {"a" :> v : v \in {Away, Enter, Touch}}
SoonSpecs == {[zone |-> "a", available |-> 1]}

\* Two zones between which a setup is redrawn.
TwoZones == {"a" :> v @@ "b" :> w : v \in {Away, Enter}, w \in {Away, Touch}}
TwoSpecs == {[zone |-> "a", available |-> t] : t \in {1, 2}} \cup {[zone |-> "b", available |-> 1]}

Snapshot(direction, session, volume, liquidity) ==
  [direction |-> direction, framework |-> "ALIGNED", session |-> session,
   volume |-> volume, liquidity |-> liquidity]

AlignedReview == {Snapshot("ALIGNED", "ACTIVE", "SUPPORTS", "PRESENT")}
BlockedReview == {Snapshot("UNKNOWN", "ACTIVE", "SUPPORTS", "PRESENT")}

BothEvents == {"FALSE_INVALIDATION_CONFIRMED", "GENUINE_INVALIDATION_CONFIRMED"}

Rare == {"late evidence", "redrawn zones", "other timeframes"}
=============================================================================

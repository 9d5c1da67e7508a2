--------------------------- MODULE PoiBreachIndex ---------------------------
(***************************************************************************)
(* The index of poi/persistent_breach_index.py over the POIs whose breach  *)
(* walk is open.  A candle breaches a POI when its close lies farther out  *)
(* than max(2 ticks, min(q, H)), where q follows the candle's ATR and H    *)
(* the POI's height.  Since x > min(q, H) iff x > q or x > H, two queries  *)
(* on keys that do not depend on the candle find every POI that may be     *)
(* breached, and each one found is checked.                                *)
(*                                                                         *)
(* Prices and ranges are integers; the multipliers are the rationals       *)
(* AtrMul / Scale and HeightMul / Scale, so distances are compared after   *)
(* multiplication by Scale.  A tree is the set of its nodes <<key, id>>.   *)
(***************************************************************************)
EXTENDS Integers

CONSTANTS
  Ids,         \* record identifiers
  Zones,       \* [direction |-> "bullish" | "bearish", top |-> _, bottom |-> _]
  Bars,        \* candles: [close |-> _, range |-> high - low, atr |-> _], atr 0 for none
  AtrMul, HeightMul, Scale,  \* zone_overshoot_tolerance_* multipliers, times Scale
  MinTick      \* minimum_price_tick

ASSUME IndexAssumption ==
  /\ Zones \subseteq [direction : {"bullish", "bearish"}, top : Int, bottom : Int]
  /\ \A z \in Zones : z.bottom <= z.top
  /\ Bars \subseteq [close : Int, range : Nat, atr : Int]
  /\ AtrMul \in Nat /\ HeightMul \in Nat /\ Scale \in Nat \ {0} /\ MinTick \in Nat

VARIABLES
  zoneOf,        \* the registered POIs and their zones
  bullByBottom, bullByKeyBottom, bearByTop, bearByKeyTop   \* the four trees

indexVars == <<zoneOf, bullByBottom, bullByKeyBottom, bearByTop, bearByKeyTop>>

-----------------------------------------------------------------------------
HeightTerm(z) == HeightMul * (z.top - z.bottom)

BreachKey(z) ==
  IF z.direction = "bullish" THEN Scale * z.bottom - HeightTerm(z)
  ELSE Scale * z.top + HeightTerm(z)

AtrTerm(b) == AtrMul * (IF b.atr > 0 THEN b.atr ELSE b.range)

Larger(x, y)  == IF x >= y THEN x ELSE y
Smaller(x, y) == IF x <= y THEN x ELSE y

\* The overshoot tolerance of the batch walk, times Scale.
Overshoot(z, b) ==
  LET boundB == IF z.top > z.bottom THEN HeightTerm(z) ELSE AtrTerm(b)
  IN  Larger(2 * MinTick * Scale, Smaller(AtrTerm(b), boundB))

IsBreach(z, b) ==
  IF z.direction = "bullish" THEN Scale * z.bottom - Scale * b.close > Overshoot(z, b)
  ELSE Scale * b.close - Scale * z.top > Overshoot(z, b)

Greater(tree, bound) == {n[2] : n \in {m \in tree : m[1] > bound}}
Less(tree, bound)    == {n[2] : n \in {m \in tree : m[1] < bound}}

\* Mutant: only the keys that follow the ATR are queried.
CandidatesByAtr(b) ==
  Greater(bullByBottom, Scale * b.close + AtrTerm(b))
    \cup Less(bearByTop, Scale * b.close - AtrTerm(b))

Candidates(b) ==
  Greater(bullByBottom, Scale * b.close + AtrTerm(b))
    \cup Greater(bullByKeyBottom, Scale * b.close)
    \cup Less(bearByTop, Scale * b.close - AtrTerm(b))
    \cup Less(bearByKeyTop, Scale * b.close)

BreachWakeSet(b) == {id \in Candidates(b) : IsBreach(zoneOf[id], b)}

-----------------------------------------------------------------------------
IndexInit ==
  /\ zoneOf = << >>
  /\ bullByBottom = {} /\ bullByKeyBottom = {}
  /\ bearByTop = {} /\ bearByKeyTop = {}

\* The scheduler registers an id only when it is not registered.
Register(id, z) ==
  LET enter(tree, key, direction) ==
        IF z.direction = direction THEN tree \cup {<<key, id>>} ELSE tree
  IN  /\ id \notin DOMAIN zoneOf
      /\ zoneOf' = [i \in DOMAIN zoneOf \cup {id} |-> IF i = id THEN z ELSE zoneOf[i]]
      /\ bullByBottom' = enter(bullByBottom, Scale * z.bottom, "bullish")
      /\ bullByKeyBottom' = enter(bullByKeyBottom, BreachKey(z), "bullish")
      /\ bearByTop' = enter(bearByTop, Scale * z.top, "bearish")
      /\ bearByKeyTop' = enter(bearByKeyTop, BreachKey(z), "bearish")

\* Mutant: the key subtracts the height term on both sides.
UnregisterWrongKey(id) ==
  LET z == zoneOf[id]
      leave(tree, key, direction) ==
        IF z.direction = direction THEN tree \ {<<key, id>>} ELSE tree
  IN  /\ zoneOf' = [i \in DOMAIN zoneOf \ {id} |-> zoneOf[i]]
      /\ bullByBottom' = leave(bullByBottom, Scale * z.bottom, "bullish")
      /\ bullByKeyBottom' = leave(bullByKeyBottom, Scale * z.bottom - HeightTerm(z), "bullish")
      /\ bearByTop' = leave(bearByTop, Scale * z.top, "bearish")
      /\ bearByKeyTop' = leave(bearByKeyTop, Scale * z.top - HeightTerm(z), "bearish")

\* unregister recomputes the keys from the zone the caller registered.
Unregister(id) ==
  LET z == zoneOf[id]
      leave(tree, key, direction) ==
        IF z.direction = direction THEN tree \ {<<key, id>>} ELSE tree
  IN  /\ zoneOf' = [i \in DOMAIN zoneOf \ {id} |-> zoneOf[i]]
      /\ bullByBottom' = leave(bullByBottom, Scale * z.bottom, "bullish")
      /\ bullByKeyBottom' = leave(bullByKeyBottom, BreachKey(z), "bullish")
      /\ bearByTop' = leave(bearByTop, Scale * z.top, "bearish")
      /\ bearByKeyTop' = leave(bearByKeyTop, BreachKey(z), "bearish")

IndexNext == \/ \E id \in Ids, z \in Zones : Register(id, z)
        \/ \E id \in DOMAIN zoneOf : Unregister(id)

IndexSpec == IndexInit /\ [][IndexNext]_indexVars
-----------------------------------------------------------------------------
Of(direction) == {id \in DOMAIN zoneOf : zoneOf[id].direction = direction}

\* Each registered POI has its two nodes in the trees of its direction, under the
\* keys unregister will recompute, and no tree has any other node.
IndexTypeOK ==
  /\ DOMAIN zoneOf \subseteq Ids
  /\ \A id \in DOMAIN zoneOf : zoneOf[id] \in Zones
  /\ bullByBottom = {<<Scale * zoneOf[id].bottom, id>> : id \in Of("bullish")}
  /\ bullByKeyBottom = {<<BreachKey(zoneOf[id]), id>> : id \in Of("bullish")}
  /\ bearByTop = {<<Scale * zoneOf[id].top, id>> : id \in Of("bearish")}
  /\ bearByKeyTop = {<<BreachKey(zoneOf[id]), id>> : id \in Of("bearish")}

\* "Zero false negatives", and no false positive: whatever the candle and its
\* ATR, the wake set is exactly the registered POIs the batch walk's test says
\* the close breaches, whatever was registered and unregistered before.
WakeIsExact ==
  \A b \in Bars : BreachWakeSet(b) = {id \in DOMAIN zoneOf : IsBreach(zoneOf[id], b)}
=============================================================================

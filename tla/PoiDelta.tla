------------------------------ MODULE PoiDelta ------------------------------
(***************************************************************************)
(* The changes of the present POIs that come with a candle.  A POI is      *)
(* known here by its identifier and the fields its lifecycle depends on.   *)
(***************************************************************************)
CONSTANTS
  Poi,       \* record identifiers
  PoiSpecs   \* the lifecycle fields of a POI: [zone |-> _, available |-> _]

\* The deltas possible while present are the ids there are: ids removed, and the
\* fields of the ids that are new or replaced.
Delta(present) ==
  {d \in [removed : SUBSET present, given : UNION {[ids -> PoiSpecs] : ids \in SUBSET Poi}] :
     d.removed \cap DOMAIN d.given = {}}

\* The POIs a delta leaves as they are.
Kept(present, d) == (present \ d.removed) \ DOMAIN d.given

\* The present POIs once the delta is applied.
Revised(specs, d) ==
  LET kept == Kept(DOMAIN specs, d)
  IN  [p \in kept \cup DOMAIN d.given |-> IF p \in kept THEN specs[p] ELSE d.given[p]]
=============================================================================

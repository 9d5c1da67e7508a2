---------------------------- MODULE MarketReplay ----------------------------
(***************************************************************************)
(* One timeframe of the replay, candle by candle: the measurement state of *)
(* domain/analyzer.py (_advance_measurement_replay_state) feeding the      *)
(* structure state of structure/analyzer.py, beside the batch analyses     *)
(* they stand for.                                                         *)
(***************************************************************************)
EXTENDS SwingReplay, EqualLevels, ZoneFrontier, StructureReplay

CONSTANT Feed(_)    \* the candles that may follow a sequence of candles

ASSUME DisplacementConfig ==
  /\ {Config.displacementFast, Config.displacementVeryFast} \subseteq Nat
  /\ Config.contextWindow \in Nat \ {0}

\* Displacement observations, domain/displacement.py: the range of each candle
\* against the median range of the candles before it; a median of zero makes the
\* ratio zero.
Classify(range, median) ==
  CASE range > 0 /\ median > 0 /\ 100 * range >= Config.displacementVeryFast * median -> "VERY_FAST"
    [] range > 0 /\ median > 0 /\ 100 * range < Config.displacementVeryFast * median
         /\ 100 * range >= Config.displacementFast * median -> "FAST"
    [] OTHER -> "NORMAL"

DetectDisplacements(candles) ==
  LET window == Config.contextWindow
      At(i) == LET before == [k \in 1..window |-> TotalRange(candles[i + k - 1])]
                   c      == candles[i + window]
               IN  [candle |-> c,
                    direction |-> IF c.close >= c.open THEN "BULLISH" ELSE "BEARISH",
                    classification |-> Classify(TotalRange(c), Median(before))]
  IN  [i \in 1..Largest(0, Len(candles) - window) |-> At(i)]

\* The replay detects in the newest candle and its window alone.
AppendDisplacement(found, candles) ==
  LET first == Len(candles) - Config.contextWindow
  IN  IF first > 0
        THEN found \o DetectDisplacements(SubSeq(candles, first, Len(candles)))
        ELSE found

VARIABLES
  candles,      \* candles_so_far
  atrState, atrs, rawPivots, trackers,
  swings,       \* confirmed_swings_so_far, and the candidates they are made of
  caches,       \* equal_level_cache_high and _low, by type
  clusters, frontier, zones,
  displacements,
  structure,
  onlyGrew      \* history: swings were only ever added, confirmed by the newest candle

vars == <<candles, atrState, atrs, rawPivots, trackers, swings, caches, clusters, frontier,
          zones, displacements, structure, onlyGrew>>

Init ==
  /\ candles = <<>>
  /\ atrState = InitialAtrState
  /\ atrs = <<>>
  /\ rawPivots = <<>>
  /\ trackers = EmptyMap
  /\ swings = <<>>
  /\ caches = [type \in Types |-> EmptyCache]
  /\ clusters = <<>>
  /\ frontier = InitialFrontier
  /\ zones = <<>>
  /\ displacements = <<>>
  /\ structure = InitialStructure
  /\ onlyGrew = TRUE

\* Ids kept, and the new ones confirmed just now.
OnlyAdds(old, new, n) ==
  LET Ids(seq) == {SwingId(s) : s \in Range(seq)}
  IN  /\ Ids(old) \subseteq Ids(new)
      /\ \A s \in Range(new) : SwingId(s) \in Ids(old) \/ s.confirmed = n

\* Equal levels are swept again only when the swings changed; zones are
\* derived after every candle, a reaction may resolve without a new swing.
Advance(c) ==
  LET pivots == Pivots(rawPivots')
  IN  /\ candles' = Append(candles, c)
      /\ atrState' = AtrStep(atrState, c)
      /\ atrs' = Append(atrs, atrState'.atr)
      /\ rawPivots' = AppendRawPivot(rawPivots, candles', atrs')
      /\ trackers' = UpdateTrackers(trackers, pivots, candles')
      /\ swings' = DeriveConfirmedSwings(pivots, trackers')
      /\ IF swings' = swings
           THEN UNCHANGED <<caches, clusters>>
           ELSE /\ caches' = [type \in Types |-> SweepIncremental(caches[type], OfType(swings', type))]
                /\ clusters' = CombinedClusters(caches')
      /\ frontier' = AdvanceFrontier(frontier, candles', atrs', swings')
      /\ zones' = ZonesOf(frontier')
      /\ displacements' = AppendDisplacement(displacements, candles')
      /\ structure' = AdvanceStructure(structure, candles', swings')
      /\ onlyGrew' = (onlyGrew /\ OnlyAdds(swings, swings', Len(candles')))

Next == \E c \in Feed(candles) : IsCandle(c) /\ Advance(c)

Spec == Init /\ [][Next]_vars

-----------------------------------------------------------------------------
\* The shape of the state that the next step indexes into without a test.
TypeOK ==
  /\ Len(atrs) = Len(candles)
  /\ {rawPivots[i].end + WindowRadius : i \in DOMAIN rawPivots} \subseteq DOMAIN candles
  /\ \A i \in DOMAIN swings : {swings[i].end, swings[i].confirmed} \subseteq DOMAIN candles
  /\ \A type \in Types : DOMAIN frontier.registry[type] \subseteq 0..(frontier.registryLen[type] - 1)
  /\ Len(structure.events) = Len(structure.checkpoints)

\* The replay's confirmed swings are those the batch detector finds in the
\* candles so far, whatever pivots were superseded, merged or skipped on the
\* way, and so are the displacements it never looks back at
\* (domain/analyzer.py _update_confirmation_trackers and
\* _derive_confirmed_swing_candidates against domain/swings.py).
MeasurementsAreBatch ==
  /\ swings = DetectConfirmedSwings(candles)
  /\ displacements = DetectDisplacements(candles)

\* The resumed structure walk ends where the walk over all events ends, also
\* after a swing was withdrawn or inserted in the past
\* (structure/analyzer.py _advance_structure_replay_state).
StructureIsBatch == candles # <<>> => WalkResult(structure) = RunStructureWalk(candles, swings)

\* At every checkpoint the walk could resume from, a broken swing is neither
\* protected nor weak, and no swing was broken twice: a transition's record
\* is identified by its type and the swing it breaks
\* (structure/analyzer.py _process_structure_event).
CheckpointsConsistent ==
  \A k \in DOMAIN structure.checkpoints : WalkConsistent(structure.checkpoints[k])

\* As long as swings are only added, the resumed sweep finds the clusters the
\* batch sweep finds, and the frontier the zones the batch detector finds,
\* though it routes each touch to the origins whose band it enters and stops a
\* walk where it meets the previous one (domain/analyzer.py
\* _sweep_equal_levels_incremental and _advance_sr_frontier).
LevelsAreBatchWhileSwingsGrow ==
  onlyGrew =>
    /\ clusters = DetectEqualLevelClusters(swings)
    /\ zones = DetectZones(candles, AtrSeries(candles), swings)

\* The swings known before keep their places, and the newest candle confirms
\* those after them.
OnlyAppends(old, new, n) ==
  IsPrefix(old, new) /\ \A k \in (Len(old) + 1)..Len(new) : new[k].confirmed = n

\* A structure transition reported before is still reported when the new swings
\* come after the known ones (structure/analyzer.py
\* _advance_structure_replay_state).  A swing inserted between known ones is
\* another predecessor for the next of its type, and a break drawn from that
\* relationship may go.
TransitionsOnlyAppended ==
  [][OnlyAppends(swings, swings', Len(candles'))
       => IsPrefix(WalkResult(structure).transitions, WalkResult(structure').transitions)]_vars

\* _EqualLevelTypeCache: resuming from the latest run start at or before the
\* unchanged prefix reproduces the batch sweep exactly.
ClustersAreBatch == clusters = DetectEqualLevelClusters(swings)
=============================================================================

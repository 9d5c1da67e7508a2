---------------------------- MODULE PoiFrontier ----------------------------
(***************************************************************************)
(* The incremental detection of points of interest: the frontier of        *)
(* poi/detector_frontier.py, which looks at a ring of the last candles     *)
(* only, and what _advance_poi_replay_state of poi/analyzer.py makes of    *)
(* its deltas: the observations, and the changes handed to the lifecycle   *)
(* scheduler and to BTMM.                                                  *)
(***************************************************************************)
EXTENDS PoiDetectors

CONSTANT Feed(_, _)    \* the candles, with the zones measured then, that may come next

\* The ring holds the newest candle with every candle a detector looks back at,
\* the slice of the reversals every origin the newest candle may confirm.
ASSUME FrontierConfig ==
  /\ {Config.ringSize, Config.reversalSlice} \subseteq Nat
  /\ Config.ringSize >= Config.baselineWindow + 1
  /\ Config.ringSize >= Config.baseMax + 1
  /\ Config.ringSize >= Config.reversalSlice
  /\ Config.reversalSlice >= 1 + Config.lookback + Config.confirmationWindow
  /\ Config.ringSize >= 3

VARIABLES
  candles,       \* candles_so_far
  zones,         \* the zones and clusters of the current measurement
  atrState, atrs, ring,
  appendOnly,    \* append_only_candidates, in order of discovery
  periods,       \* period_states
  reference,     \* reference_candidates
  levels,        \* period_candidates
  delta,         \* last_delta
  observations   \* observations_ordered: the records, each with its sort key

frontier == <<atrState, atrs, ring, appendOnly, periods, reference, levels, delta>>
vars == <<candles, zones, frontier, observations>>

\* Two candidates of one identity are one record.
Identity(c) ==
  CASE c.kind = "P" -> <<"P", c.type, c.period>>
    [] c.kind = "R" -> <<"R", c.type, c.sources>>
    [] c.kind = "A" -> <<"A", c.type, c.sources>>

Identities(cs) == {Identity(c) : c \in cs}

Enabled(cs) == {c \in cs : c.type \in Config.enabled}

NoDelta == [new |-> {}, changed |-> {}, removed |-> {}]

NoWindow == [open |-> FALSE]
InitialPeriod == [current |-> NoWindow, previous |-> NoWindow]

Init ==
  /\ candles = <<>> /\ zones = {}
  /\ atrState = InitialAtrState /\ atrs = <<>> /\ ring = <<>>
  /\ appendOnly = <<>>
  /\ periods = [g \in Granularities |-> InitialPeriod]
  /\ reference = {} /\ levels = {}
  /\ delta = NoDelta
  /\ observations = {}

-----------------------------------------------------------------------------
LastOf(seq, n) == SubSeq(seq, Largest(1, (Len(seq) - n) + 1), Len(seq))

\* What the newest candle of the ring completes: batch detectors on the shortest
\* slice, of which only the newest candle's are kept where a slice has others.
NewLocalCandidates(r) ==
  LET newest == Last(r)
  IN  DetectOrderBlocks(LastOf(r, 2)) \cup DetectEngulfing(LastOf(r, 2))
        \cup DetectFairValueGaps(LastOf(r, 3)) \cup DetectThreeCandleStars(LastOf(r, 3))
        \cup DetectSingleCandleReversals(LastOf(r, 1))
        \cup {c \in DetectPressureWicks(r) : c.sources = <<newest.id>>}
        \cup {c \in DetectReversalCandles(LastOf(r, Config.reversalSlice)) :
                c.available = newest.available}

\* The bases the newest candle departs from.
NewBases(r, atr) ==
  LET Base(length) == SubSeq(r, Len(r) - length, Len(r) - 1)
  IN  {BaseZone(Base(n), Last(r)) :
         n \in {k \in Config.baseMin..Config.baseMax : k + 1 <= Len(r) /\ IsBase(Base(k), Last(r), atr)}}

\* A window as it grows; the earliest of equal extremes stays.
OpenWindow(g, c) ==
  [open |-> TRUE, start |-> WindowStart(g, c.time), first |-> c.available, high |-> c, low |-> c]
GrowWindowLatestWins(w, c) ==
  [w EXCEPT !.high = IF c.high >= @.high THEN c ELSE @,
            !.low  = IF c.low <= @.low THEN c ELSE @]
GrowWindow(w, c) ==
  [w EXCEPT !.high = IF c.high > @.high THEN c ELSE @,
            !.low  = IF c.low < @.low THEN c ELSE @]

AdvancePeriod(state, c, g) ==
  IF ~state.current.open THEN [state EXCEPT !.current = OpenWindow(g, c)]
  ELSE IF state.current.start = WindowStart(g, c.time) THEN [state EXCEPT !.current = GrowWindow(@, c)]
  ELSE [current |-> OpenWindow(g, c), previous |-> state.current]

PeriodCandidates(states, latest) ==
  LET Of(g) ==
        LET current  == states[g].current
            previous == states[g].previous
        IN  (IF current.open
               THEN PeriodLevels(g, "CURRENT", current.high, current.low, latest.available) ELSE {})
              \cup IF previous.open
                     THEN PeriodLevels(g, "PREVIOUS", previous.high, previous.low, current.first) ELSE {}
  IN  UNION {Of(g) : g \in Granularities}

DiffBoundedByIdentity(old, new) ==
  [new     |-> {c \in new : Identity(c) \notin Identities(old)},
   changed |-> {},
   removed |-> Identities(old) \ Identities(new)]

\* New, changed and removed between two sets in which candidates come and go.
DiffBounded(old, new) ==
  [new     |-> {c \in new : Identity(c) \notin Identities(old)},
   changed |-> {c \in new \ old : Identity(c) \in Identities(old)},
   removed |-> Identities(old) \ Identities(new)]

\* The type is the second component of an identity.
EnabledIdentities(ids) == {i \in ids : i[2] \in Config.enabled}

-----------------------------------------------------------------------------
\* advance_detector_frontier; the reference candidates are kept as they are
\* while the zones they were made from are.
AdvanceFrontier(c, zs) ==
  LET before == IF atrs = <<>> THEN None ELSE Last(atrs)
      step   == NewLocalCandidates(ring') \cup NewBases(ring', before)
      ofZones  == DiffBounded(reference, reference')
      ofLevels == DiffBounded(levels, levels')
  IN  /\ atrState' = AdvanceAtr(atrState, c)
      /\ atrs' = Append(atrs, atrState'.atr)
      /\ ring' = LastOf(Append(ring, c), Config.ringSize)
      /\ appendOnly' = appendOnly \o SetToSeq(step)
      /\ periods' = [g \in Granularities |-> AdvancePeriod(periods[g], c, g)]
      /\ levels' = PeriodCandidates(periods', c)
      /\ reference' = IF zs = zones THEN reference ELSE DetectReferenceZones(zs)
      /\ delta' = [new     |-> Enabled(step \cup ofZones.new \cup ofLevels.new),
                   changed |-> Enabled(ofZones.changed \cup ofLevels.changed),
                   removed |-> EnabledIdentities(ofZones.removed \cup ofLevels.removed)]

\* The ordered map after a candle: records found now are inserted; of the
\* bounded families a record that changed leaves the place its old sort key
\* gave it, and one that is gone leaves the map.
AdvanceObservations ==
  LET appended == Range(SubSeq(appendOnly', Len(appendOnly) + 1, Len(appendOnly')))
      before   == Enabled(reference \cup levels)
      now      == Enabled(reference' \cup levels')
      stale    == {c \in before : c \notin now}
  IN  observations' = (observations \ stale) \cup (now \ before) \cup Enabled(appended)

Advance(c, zs) ==
  /\ candles' = Append(candles, c)
  /\ zones' = zs
  /\ AdvanceFrontier(c, zs)
  /\ AdvanceObservations

\* A candle of the chart that comes after these: candles come in the order in
\* which they are available.
Follows(cs, c) ==
  /\ IsCandle(c) /\ {c.time, c.available} \subseteq Nat
  /\ \A i \in DOMAIN cs : cs[i].id # c.id
  /\ cs # <<>> => Last(cs).time < c.time /\ Last(cs).available <= c.available

\* Zones and clusters of the measurements, each with a record identifier of its own.
Measured(zs) ==
  /\ \A z \in zs : z.type \in {"SUPPORT_ZONE", "RESISTANCE_ZONE",
                               "EQUAL_HIGHS_LIQUIDITY", "EQUAL_LOWS_LIQUIDITY"}
  /\ \A y, z \in zs : y.id = z.id => y = z

Next ==
  \E input \in Feed(candles, zones) :
    Follows(candles, input.candle) /\ Measured(input.zones) /\ Advance(input.candle, input.zones)

Spec == Init /\ [][Next]_vars

-----------------------------------------------------------------------------
(* What the lifecycle scheduler and BTMM are given.                        *)

NotApplicable(c) == c.kind = "P" \/ c.type \in {"EQUAL_HIGHS_LIQUIDITY", "EQUAL_LOWS_LIQUIDITY"}

Eligible(cs) == {c \in cs : ~NotApplicable(c)}

\* Of the removed identities only those of reference zones are looked at.
Relay(d) ==
  [new |-> Eligible(d.new), changed |-> Eligible(d.changed),
   removed |-> {i \in d.removed : i[1] = "R" /\ i[2] \in {"SUPPORT_ZONE", "RESISTANCE_ZONE"}}]

-----------------------------------------------------------------------------
Universe == Enabled(Range(appendOnly) \cup reference \cup levels)

\* The frontier, with a ring of the last candles, knows the candidates that the
\* detectors find in the whole sequence, and the records are these, one for
\* each identity (poi/detector_frontier.py advance_detector_frontier against
\* poi/analyzer.py _detect_bundle_candidates).
FrontierIsBatch ==
  /\ Universe = DetectCandidates(candles, zones)
  /\ observations = Universe
  /\ \A c, d \in observations : Identity(c) = Identity(d) => c = d

\* Two candles of a group are available at the same time.
Simultaneous(cs) == Len(cs) > 1 /\ cs[Len(cs) - 1].available = cs[Len(cs)].available

\* What the scheduler is handed is exactly how the POIs with a lifecycle
\* differ: the new were absent, the changed and the removed present, and
\* nothing else moved.  A candle that is available together with the one before
\* it hands a reversal over a second time (poi/analyzer.py
\* _advance_poi_replay_state).
RelayedIsDifference ==
  [][LET old == Eligible(observations)
         d   == Relay(delta')
         Kept(c) == Identity(c) \notin d.removed \cup Identities(d.changed)
     IN  /\ Eligible(observations') = {c \in old : Kept(c)} \cup d.new \cup d.changed
         /\ d.removed \cup Identities(d.changed) \subseteq Identities(old)
         /\ \A c \in d.new :
              \/ Identity(c) \notin Identities(old)
              \/ c \in old /\ Simultaneous(candles') /\ c.available = Last(candles').available]_vars
=============================================================================

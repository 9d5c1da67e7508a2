# A TLA+ development for btmm-ai-scanner

The repository is a deterministic trading scanner. It reads finalized candles of several
timeframes, measures them (ATR, legs, swings, levels), derives a market structure, points of
interest (POIs) and BTMM setups, follows the life of each POI and each setup over the later
candles, and compares what it detected with labels. It exists twice: once as batch functions
over all candles (`scan_market`, `analyze_pois`, `run_poi_lifecycle`, `analyze_btmm`,
`run_btmm_lifecycle`, `run_structure_walk`), and once as an incremental engine that is fed one
candle at a time and keeps persistent state. The batch functions are called the oracle; the
incremental engine must publish, at every candle, exactly what the oracle computes from the
whole prefix. Nearly all that is hard in this code is in that "exactly": which windows are still
open, which cursors need not be advanced, what a cache may keep, what may still be withdrawn.

Paths below are relative to `src/src/btmm_ai_scanner/`.

## 1. Inventory

| Component | State it keeps | Operations | What makes it correct |
|---|---|---|---|
| POI batch lifecycle, `poi/lifecycle.py` | none (a walk over candles) | `run_poi_lifecycle` | it is the definition of the lifecycle |
| POI cursor, `poi/lifecycle_cursor.py`, `cursor_fast_forward.py`, `scheduler_walk.py` | `PoiLifecycleCursor`: start, tap run, committed transitions, suffix buffer | `advance_poi_cursor`, `fast_forward_poi_cursor`, `cursor_walk_result` | equals the batch walk at every prefix; what is committed is final; the buffer is bounded |
| POI scheduler, `poi/lifecycle_scheduler.py` | cursors, touch index, breach index, due registry, last walks | `advance_scheduler`, `materialize_cursor` | waking few cursors loses nothing; the indexes follow the cursors |
| Wake indexes, `poi/persistent_breach_index.py`, `persistent_interval_index.py` (and the mutable `breach_index.py`, `interval_index.py`) | two augmented treaps per direction, one interval treap | `register`, `unregister`, `wake`, `query` | the query answers are the exact predicates |
| Persistent maps, `persistent_map.py`, `poi/persistent_ordered_map.py` | a treap by key | insert, remove, lookup, iterate | old versions stay readable, order is by key |
| POI detectors, `poi/order_blocks.py` and nine more | none | one detector each | they define what the frontier must find |
| Detector frontier and POI replay state, `poi/detector_frontier.py`, `poi/analyzer.py` | ring of the last candles, period accumulators, identity caches, the POI set | `advance_detector_frontier`, `_advance_poi_replay_state` | NEW/CHANGED/REMOVED given to the scheduler is the difference of two batch sets |
| Structure, `structure/transitions.py`, `relationships.py`, `analyzer.py` | direction, protected and weak swing, checkpoints per event | `run_structure_walk`, `_advance_structure_replay_state` | a resumed walk equals the walk from the start; a broken swing is neither protected nor weak |
| Measurements, `domain/`, `measurements/` | raw pivots, confirmation trackers, swings, sweep checkpoints of the equal levels, registry and walks of the zones, ATR | the batch analyzer and `_advance_measurement_replay_state` | incremental equals batch, also when a swing is withdrawn or inserted in the past |
| BTMM lifecycle, `btmm/lifecycle.py`, `interaction.py`, `reaction.py`, `liquidity.py` | none (a walk) | `run_btmm_lifecycle` | it is the definition; the first failing gate cancels |
| BTMM engine, `btmm/lifecycle_cursor.py`, `cursor_fast_forward.py`, `lifecycle_scheduler.py`, `setup_delta.py`, `analyzer.py` | cursor per setup, stage registrations, relayed POI events, caches | `advance_btmm_scheduler`, `_advance_btmm_replay_state` | equals the batch walk although evidence and POI events come late |
| Scanner replay, `scanner/replay.py`, `timeframe_input.py` | `IncrementalReplayKernel`: per-timeframe states, event ledger | `advance_group`, `finalize`, `run_scanner_replay` | a group is applied in whole or not at all; nothing later than the group is seen |
| Scanner evaluation, `scanner/analyzer.py`, `evaluation.py`, `matching.py` and others | none | `scan_market`, matching | each label matched at most once |
| Historical execution and worker, `historical_backtest/execution.py`, `cli.py`, `direct_batch_worker.py` | gates, deadline, a child process and its files | run, spawn, monitor, classify, publish | a failed or late child is never reported as success; the run ends; the child does not outlive its verification |
| Historical reports, `historical_backtest/reporting.py` | report directory | `write_backtest_report` | where the marker is, the report is complete |
| Historical data, `historical_backtest/loader.py`, ... | none | load, validate | field rules |
| Market data, `market_data/` | repositories, replay position | store, normalize, next group, reset | storing is idempotent, conflicts are refused |
| Ingestion, contracts, configuration | none | validation, parsing | field rules |

Interaction. `run_scanner_replay` sorts the candles into availability groups and hands each group
to the kernel, which for each timeframe advances measurement, structure, POI and BTMM in this
order. The POI stage turns detectors' output into a delta and calls `advance_scheduler`;
the BTMM stage receives that scheduler's results as events and calls `advance_btmm_scheduler`.
All of this is one process and one thread and every state is an immutable value that replaces
its predecessor, so there are no data races. What takes their place is *staleness*: a cursor
left behind on purpose, an index entry of an earlier zone, a transition relayed before it was
withdrawn, a cache of something said never to change. The only concurrency is the verification
child process of the historical backtest, with its timeout and memory limits.

Hard behaviours, with the line of each, are in `PROJECT.json` under `hazards`.

## 2. Modules and the code they stand for

```
 PoiLifecycle        the batch walk (operators)                    poi/lifecycle.py
   PoiCursor         the cursor (operators)                        poi/lifecycle_cursor.py, cursor_fast_forward.py, scheduler_walk.py
     PoiCursorFeed   one POI fed candle after candle (machine)     a caller of advance_poi_cursor
     PoiStream       the stream as several POIs see it             with PoiDelta: the present POIs and their changes
       PoiScheduler  the event-driven engine (machine)             poi/lifecycle_scheduler.py
 PoiEveryCursor      abstract: every cursor, every candle          the engine the scheduler replaced
 BtmmLifecycle       the batch walk of a setup (operators)         btmm/lifecycle.py, interaction.py, reaction.py, liquidity.py
   BtmmCursor        the cursor of a setup (operators)             btmm/lifecycle_cursor.py, cursor_fast_forward.py
     BtmmFeed        one setup, its POI and its evidence (machine) a caller of advance_btmm_cursor
     BtmmReplay      the engine of a timeframe (machine)           btmm/lifecycle_scheduler.py, analyzer.py; with PoiDelta
 PoiBreachIndex      the four trees of the breach index (machine)  poi/persistent_breach_index.py

 CandleMeasures      ATR, ranges, medians (operators)              measurements/atr.py, candle_metrics.py
   Swings            batch swings (operators)                      domain/swings.py
     SwingReplay     the incremental swings (operators)            domain/analyzer.py
     EqualLevels     clusters, batch and resumed (operators)       domain/equal_levels.py, analyzer.py
     SupportResistance  batch zones (operators)                    domain/support_resistance.py, measurements/legs.py
       ZoneFrontier  the incremental zones (operators)             domain/analyzer.py
   StructureWalk     the walk (operators)                          structure/transitions.py, relationships.py, analyzer.py
     StructureReplay the resumed walk (operators)                  structure/analyzer.py
   MarketReplay      one timeframe, measured and structured (machine)  domain/analyzer.py, displacement.py, structure/analyzer.py
   PoiDetectors      the ten batch detectors (operators)           poi/*.py
     PoiFrontier     the incremental detection (machine)           poi/detector_frontier.py, analyzer.py

 ScannerBatch        abstract: what a replay promises (machine)
   ReplayKernel      the kernel, a stage of a candle at a time (machine)  scanner/replay.py
     ScannerReplay   replay by retention policy, or a caller of its own (machine)  scanner/replay.py, analyzer.py

 DirectBatchWorker   parent and worker process (machine)           historical_backtest/direct_batch_worker.py
 HistoricalReport    the writer, a file at a time (machine)        historical_backtest/reporting.py
   HistoricalBacktest  the run around both (machine)               historical_backtest/cli.py, execution.py

 *Proofs             theorems; MC*: instances for TLC
```

**PoiLifecycle.** A candle is what one POI can tell about it (a *view*): whether it comes after
the POI, touches the zone, where it closes (breach, none, reclaim, displace) and for which leg
lengths the leg ending there is fast. These are all the tests the loop makes. `LoopStep` is one
iteration of the outer loop, `BatchWalk` the loop, `RunPoiLifecycle` the function with its tap
count and age. `complete` says that the iteration's window fits in the stream, which the batch
code has no need of and the cursor lives from.

**PoiCursor.** `AdvanceCursor` is `advance_poi_cursor`: count the candle, extend and trim the
buffer, walk the suffix again (`WalkInner`), commit up to the first incomplete window.
`FastForward` and `CursorWalkResult` are the two operations on a cursor that slept.

**PoiCursorFeed.** The state is a history, the cursor and the last result. One action, `Feed`.

**PoiScheduler.** The state is that of `PoiEventScheduler` (the two indexes as sets of
`<<id, zone>>`, exact by PoiBreachIndex for the breach tree) and the stream. One action,
`Advance`: teardown, wake, advance, insert, re-register, due bucket, in the order of the code, for
every delta of removed, new and replaced POIs. `Published` is what the analyzer reads afterwards.

**PoiEveryCursor.** The promise: the same stream and the same deltas, every cursor of every
present POI advanced at every candle. PoiScheduler implements it with `cursors <- Materialized`,
`walks <- Published`.

**PoiBreachIndex.** Register and unregister on the four trees (per direction a tree keyed by the
boundary shifted by the fixed tolerances and a tree keyed by the boundary) and `Wake`, the two
queries whose union must be the breach test, with the tolerance
`max(2*tick, ATR part, height part)` in integers.

**BtmmLifecycle.** The batch walk in two halves, as the code has it: `Scan` finds the forming
candle, the first interaction and its class, the start of the reaction and the close of its
window; `Cascade` turns what was found, the invalidations of the source POI and the reviewed
evidence into steps, and a genuine invalidation cuts the steps from its time on. A step holds the
fields that transitions and gates depend on; the other fields are copies of verdicts. Candle `k`
becomes available at time `2(k+1)`, so evidence can come with a candle or between two. The
reaction tiers are arithmetic on a window: `EvaluateReaction` is an operator constant.

**BtmmCursor.** `AdvanceCursor` is `advance_btmm_cursor`, its four scans in order on one candle.
`MaterializeCursor` is `materialize_btmm_cursor`, which is the cascade of the batch function over
the cached finds, so the two share `Cascade`. `Dormant` and `FastForward` are the module
`cursor_fast_forward`.

**BtmmFeed.** One setup whose stream, invalidations and evidence come in any order. One action, `Feed`.

**BtmmReplay.** The state of `BtmmSetupEventScheduler` and of the part of `_BtmmReplayState` around
it: cursors, registrations, the forming and the interaction index, the due registry, the watch, the
relayed events with the two "ever relayed" sets, the ledger of published transitions. A setup is
identified with its source POI. `Group` is a group with a candle of the timeframe: the delta of the
POIs, what the relay hands on, wake discovery, advance, rebuild, reconcile, merge. A failed
assertion leaves the engine as it was (`failed`). `OtherGroup` is a group of other timeframes
only, for which the kernel skips this one. What POIs do is the environment: `walkEvents` is
what the walk of each POI says now, `visible` the evidence whose time has come. Some turns
of that environment are switched by the constant `Allow`, so that a run can say under which of
them a property holds: evidence later than the reaction window, a second invalidation of a POI,
a redrawn zone, groups of other timeframes. The environment gives no POI again that was
invalidated or reviewed before it was removed, and one POI at most is invalidated, and one
reviewed, per group.

**MarketReplay.** The state is that of the measurement and the structure replay of one timeframe, with
the batch operators beside them as the reference. One action, `Advance`: ATR, raw pivot, trackers,
swings, clusters if the swings changed, zones, displacement, structure, in the order of the code.
A pivot is found two candles after its middle, confirmed when price reverses, superseded by a more extreme
one, and merged with its neighbours of the same type: a swing may be withdrawn and one may appear
behind others that are confirmed already. `onlyGrew` is a history variable that says that neither has
happened. Prices are hundredths of a tick; the ATR and medians round down where the code keeps 28 digits.
The price index that routes a touch to zones is its exact answer; the code filters a superset with the
same band test. The order of the random record identifiers, which breaks ties, is the constant
`idOrder`. `IsCandle` is what the candle's contract validates: positive prices, the high and the low around
open and close. `OnlyAppends` says that the known swings keep their places and the newest candle
confirms those after them.

**StructureWalk, StructureReplay.** The walk is a recursive function over one event stream, sorted by availability:
candles, swings, relationships. `InOrder` sorts a set of events that do not tie by how many come before each. Highs and lows are one case, by the side of the swing. The replay keeps a
checkpoint after each event, compares the streams and resumes before the earliest event that
changed.

**PoiDetectors, PoiFrontier.** Each detector is a function of the whole sequence of candles, or of the
measured zones. The frontier sees a ring of the last candles and one accumulator per period; its candidates
are appended (patterns), replaced (reference zones) or moved from CURRENT to PREVIOUS (period
levels). `Relay` is what the replay state hands on to the lifecycle scheduler. The lengths
that the code fixes (ring 21, baseline 20, lookback and confirmation 3, slice 7, ATR 14) are fields of
`Config`, smaller in the run. Calendars are the constants `WindowStart` and `WindowEnd`. Two guards say what the
frontier is given: a candle `Follows` (an identifier of its own, later than the candle before it and not
available earlier, as `_validate_bundle_candles`, `_advance_poi_replay_state` and the replay's availability groups see to),
and zones are `Measured` (of the types the reference detector knows, no two of one record identifier).

**ScannerBatch, ReplayKernel, ScannerReplay.** An engine's state is the sequence of the inputs it was
advanced with, which determines it, as every engine is a function of them; whether an engine gets the
right answer from its inputs is the question of the other modules. `ScannerBatch` makes a whole
group visible in one step. `ReplayKernel` makes it one stage of one candle at a time, on locals of the call,
and any stage may raise (a candle that is not after the one before it always does): refining
`ScannerBatch` is the transaction. `ScannerReplay` runs the kernel under `FINAL_ONLY`, whole scans under
`ALL` and `CHANGED_ONLY`, and with the policy `KERNEL` leaves it to a caller who gives groups again, reads and
finalizes at any time, and goes on after a group that has raised.

**DirectBatchWorker.** Parent and worker are two processes. A step of the parent is one call (poll,
read the working set, join, terminate, kill, classify, clean up); between two of them the worker may open
its log, read its request, scan, rename its response, exit, fail, hang for ever or ignore a termination. The
response is the oracle's snapshot or damaged, which its checksum tells apart. `Raise` is an exception
inside the try statement of the code, `Interrupt` a KeyboardInterrupt there. The removal of the temporary
directory ignores errors: `Clean` removes any part of it, which is why `NoWorkerLeft` is about the worker and
not about files.

**HistoricalReport.** Each file is a temporary sibling, a rename, a directory sync and a
read-back, each of which may fail in the way the code catches or does not catch; `durable` is what is certain to
outlive a power failure. A directory sync that fails, or that the platform does not have, is passed over by the code:
the renames before it are durable only with the next one that succeeds. The history variable `unsynced` says that the
last one failed. Invariants hold at every step, so a crash needs no action of its own: what it
leaves is the state before it.

**HistoricalBacktest.** The command line around both: gates, the incremental replay under its gate,
one verification per symbol, the comparison of snapshots, the report, the exit code.

## 3. What is checked

All runs have every definition of the modules as it stands; an MC module only supplies constants.

| Run | Instance | Shows |
|---|---|---|
| `poi_cursor` | windows 2 and 3, candles at every position, before and after the POI, touching or not, 6 candles | `ResultIsBatch`: cursor = batch at every prefix; `CommittedIsFinal`; `BoundedReplay`; `RepaintOnlyInOpenWindow`; `DormantMaySleep`, the two laws the scheduler relies on |
| `poi_scheduler` | one POI on two zones, five kinds of candle, 4 candles, every delta | refinement of PoiEveryCursor; `PublishedIsBatch`: what is read of each POI is its batch walk; safe fast-forward; `RegistriesMatchCursors`: exact indexes and due registry |
| `poi_breach_index` | three POIs of three heights in both directions | `WakeIsExact` |
| `btmm_feed` | windows of 2, both invalidations, evidence that confirms or leaves a gate open at any time, 4 candles | the cursor publishes what the batch walk does; `FastForwardIsAdvance`; `RewrittenOnlyByLateEvidence` |
| `btmm_replay` | one setup, known early or late, redrawn between two zones, removed and given again, one invalidation, evidence at any time, groups of other timeframes, 4 candles | `ReadIsBatchAtCandle`: after each candle what is read is the batch lifecycle; `NothingUnpublished`; `WokenUnlessFrozen`; safe fast-forward; no assertion fails |
| `market_replay` | nineteen tapes (nine with their mirror images, and one that withdraws a break), each continued by every three candles of five shapes | `MeasurementsAreBatch`, `StructureIsBatch` at every prefix; `LevelsAreBatchWhileSwingsGrow`; `CheckpointsConsistent`; `TransitionsOnlyAppended` |
| `poi_frontier` | nine families of candles with gaps in time, delays and moving zones, each with every continuation of three or four candles | `FrontierIsBatch`: a ring of five finds what the detectors find in all candles; `RelayedIsDifference` |
| `scanner_replay` | two timeframes in step, late, out of order, empty or absent, up to three candles each, all policies | `ImplementsScannerBatch`; `ReplayIsBatch`: a replay ends with the scan of everything or says that it does not |
| `historical_backtest` | two symbols, both modes, three report files, timeout 2, interrupts, removals and directory syncs that fail | nothing unverified is published, `MarkerIsLast`, `SuccessIsTrustworthy`, `NoWorkerLeft`, `ExitCodeIsTrue`, and `RunEnds` |
| `btmm_replay_second_event`, `btmm_replay_assertion`, `market_replay_equal_levels` | small | **violations** (section 6) |

Bounds of the POI and BTMM runs. A window of length 2 can be open, complete and overlapped by a later one; six candles
hold a breach, its reclaim, a displacement window and a second breach after it, so every order of
two windows is reached. The windows 2 and 3 are the tightest pair for which cursor and batch agree;
2 and 4 differ (section 6). Longer histories repeat this: the cursor forgets all before its
committed floor, and `BoundedReplay` bounds the suffix. For the scheduler four candles are enough to wake, sleep over and wake again a cursor
while its POI is removed, replaced or given again; its window lengths are shortened to 2 and 1 to
let a whole walk fit. In the breach index the prices are small integers chosen so that the tick
floor, the height and the ATR each are once the greatest term. A BTMM setup needs
three candles to form and meet its zone and to react over a window of two, and a fourth
to be reviewed late, invalidated or redrawn afterwards; when it is known one candle late the
fourth closes its window. One POI is enough for the schedulers: a wake source names a POI, and no
step of one reads what is kept of another (the theorems of section 4 are for any set of POIs). The bound on the stream is the
constant `MaxCandles` (`MaxHistory` in PoiCursorFeed, `MaxLength` in BtmmFeed), in the guards of `Feed`, `Advance` and `Next`.

Bounds of the market runs. Candles of arbitrary shape would meet an event once in millions of
sequences; each tape is therefore played up to the edge of an event (a swing superseded after its
confirmation, a swing inserted behind confirmed ones, equal lows, a break of structure, a change of character, a
break withdrawn with its swing, a break withdrawn because a swing is inserted before the one it broke, zones with one and two touches, two swings confirmed by one candle)
and continued in every way from there, `Extra` candles far; `Feed` bounds the stream. The ATR
period is 2, so that it is stable when the tape begins. In `poi_frontier` the ring has to be one longer than the
longest base, which `FrontierConfig` assumes as the code's constants (21 against
`basing_candles_max`) make it for the default configuration; a day is two time units, a week two days and a month
five units, so that a month begins within a week and gaps skip whole windows.

Bounds of the replay and historical runs. Two timeframes of two or three candles give a group of one candle, of
several timeframes, and of two candles of one timeframe, one more after a timeframe has ended, and candles
available out of order. `HistoricalBacktest` has a second symbol to come after one that passed,
retention caps on either side of the number of groups, and three ordinary files so that a first, a middle and a last one can fail;
the theorems of section 4 are for any of these numbers.

`CHECK_DEADLOCK FALSE` is given where the bound on the stream, or the end of a run, ends the behaviour.

Every property of a passing run has a mutant in `PROJECT.json`: a definition changed as a
plausible bug would change it, for which TLC finds the property violated.

Fairness. The engines do nothing by themselves: each step is a call its caller makes, nothing
schedules it and nothing retries, so that fairness would be an assumption about the user. The
historical run is a program that is to come to its end, and there `RunEnds` is checked under weak
fairness of three things: `Main`, since the parent is one thread that is never blocked but in a join;
`Tick`, since the monotonic clock goes on while a worker lives; and `WorkerKilled`, since the operating system
delivers a SIGKILL. Nothing is assumed of the worker, which may hang in any of its steps, nor
that it obeys a termination. A user's interrupt is excepted: it leaves the try statement with the worker
alive, and the interpreter joins it at exit without a timeout.

## 4. What is proved

Eight modules hold proofs (`NaturalProofs` and `CandleMeasuresProofs` only what the others rest on: the least element
of a set of numbers and induction over one; sums of true ranges and the ATR's recurrence), for all window lengths, zones, candles, POIs, deltas and streams of any
length that satisfy the named assumptions (`WindowAssumption`: both lengths positive, as `PoiConfiguration` requires;
`StreamAssumption`: readings and availabilities have their types; `IndexAssumption` of PoiBreachIndex; `FeedAssumption` and those of
BtmmReplay), for all numbers of symbols, groups and report files and all timeouts and caps (`TimeoutAssumption`,
`ReportAssumption`: no ordinary file has the marker's name, `BacktestAssumption`), and
for all timeframes, candles and evidence (`ScannerConstants`: timeframes are distinct names, evidence is of
timeframes that have setups; `InputsInOrder`: inputs are in the order of the loader).

* **PoiProofs**, of PoiBreachIndex: `IndexTypeCorrect` and `WakeExact`. The union of the two queries is the
  breach test. Idea: with tolerance `t = max(a, b)`, `close < bottom - t` is
  `close < bottom - a` and `close < bottom - b`; one tree is keyed by `bottom - a`, the other
  query needs only the candle.
* Of PoiCursor, the type of every operator of the cursor; `WellFormed`, what a reachable
  cursor satisfies; `QuietAdvance`: a dormant cursor advanced over a candle it cannot see is the
  cursor fast-forwarded; `FastForwardTwice`: fast-forwarding in two steps is fast-forwarding once; and what
  relates the walk of a suffix to the walk of the whole (below).
* Of PoiCursorFeed, `FeedTypeCorrect`, `FeedIsBatch`, `FeedBounded`, `FeedMaySleep`, `FeedCommits` and
  `FeedRepaints`, every property of the run `poi_cursor`, if `DisplacementWindow <= ReclaimWindow + 1`. The
  hypothesis is needed: with a longer one the code does differ from the batch walk (section 6).
* Of PoiScheduler, `TypeCorrect`, `FastForwardSafe`, `RegistriesExact`; `Implements`, that every
  behaviour of PoiScheduler is one of PoiEveryCursor; and `PublishedBatch`, under the same hypothesis: what the
  scheduler publishes of each POI is `run_poi_lifecycle` of the whole stream.

* **BtmmProofs**, of BtmmFeed: `CursorIsBatch`, `DormantMaySkip`, `PublishedStays` (only late evidence
  rewrites what is published) and `TypeCorrect`, for every tier function `EvaluateReaction` (the last under
  the hypothesis that it yields tiers). Of BtmmReplay:
  `ReplayFastForwards` and `ReplayTyped`, the invariants of the engine until its assertion fails;
  `ReplayAsserts`: it never fails if every review decides its gate, or if no evidence is late and no
  zone redrawn; `EngineIsBatch` and `WakesLoseNothing`: if a POI emits one of the relayed events at most, what is read at
  a candle is the batch walk of all that is known, and whoever sleeps had nothing to wake for;
  `LedgerMissesNothing`, under the same hypothesis: no transition of a batch walk is missing in the ledger. Each of these
  hypotheses excludes one of the findings of section 6 and nothing else: late evidence that blocks, and a
  second invalidation.

* **HistoricalBacktestProofs**: `TypeCorrect`, `SuccessTrustworthy`, `NoWorkerSurvives`, `MarkerLast`,
  `PublishedVerified` and `ExitCodeTrue` of HistoricalBacktest.

* **ScannerReplayProofs**: `KernelImplements`, that `KernelSpec`, the kernel with any groups of candles of one
  moment and any stage raising, implements ScannerBatch; `ReplayImplements`, that it does so under `run_scanner_replay`
  and under a caller who gives groups again; `ReplayFindsTheBatch` (`RunSpec => []ReplayIsBatch`), that under every
  retention policy a completed replay has found the scan of all the inputs, but for late evidence. The inputs are
  any that `InputsInOrder` allows: each timeframe's candles by event time, no two of one time, which is
  how `loader.py` and `csv_parser.py` give them.

* **MarketReplayProofs**: `MarketInvariant`, `ReplayMeasurementsAreBatch`, `ReplayStructureIsBatch`,
  `ReplayCheckpointsConsistent` and `ReplayTransitionsOnlyAppended` of MarketReplay, for any chart of candles that
  `IsCandle` admits and any period, context window, tolerance and threshold that the named assumptions (`AtrConfig`,
  `SwingConfig`, `StructureConfig`, `DisplacementConfig`) allow.

* **PoiFrontierProofs**: `ReplayCandidatesAreBatch` (`Spec => []FrontierIsBatch`), that the frontier's candidates are
  those of the batch detectors over the whole chart; and `ReplayRelaysDifference`, that what the lifecycle scheduler is given is the
  difference of two batch sets, but for a reversal found again by a candle of the same moment (section 6). Both are for any chart, zones, calendar and settings that the named assumptions (`AtrConfig`,
  `DetectorConfig`, `FrontierConfig`) allow; of the ring only that it is longer than each detector's reach.

The argument for the setup's cursor. The batch scans are not recursive: each finds the least index
of a set of candles. The inductive invariant `Scans` says of each field of the cursor which least
index it is (`IsFirst`), that the anchor is the least extreme of the candles it spans and that the window is
the stream from the start of the reaction on. `FormingStage`, `InteractionStage`, `StartStage` and
`WindowStage` show that each of the four stages keeps its part when one candle is appended,
given the parts before it; `AdvanceScans` composes them; `FoundIsScan` goes from least indexes
back to the scans. What is published then agrees because cursor and batch feed the same cascade.

The argument for the POI's cursor. The batch walk is a loop of unbounded length, and the cursor runs it again on a
suffix only. A loop is here the set of its reachable states (`LoopNext` from `StartState`): the batch walk is the one
reachable state that has ended, found by descent on the candles left. An iteration is *complete* if
its window fits in the stream; a state is `Settled` if only complete iterations lead to it, and then it is reached in every
longer stream too, as a complete iteration reads nothing behind its window. The invariant `Tracks(c, h)`
says that the cursor's committed transitions are those of a settled state: where the suffix starts, with the
next iteration open (`AtFloor`), or one that is terminal (`Frozen`). The walk of the suffix is the walk of the
whole from there, shifted by the floor, so that the answer is the batch answer; the new floor is settled again
because the committing walk stops at the first open window. Here the hypothesis enters: a genuine invalidation makes the
cursor terminal without asking for the windows before it, and only if a displacement window never outlives the reclaim
window of the breach that follows it are those closed. `FeedCommits` follows as settled states stay reachable, `FeedBounded`
as an open iteration begins at most the two windows before the head. For `FeedRepaints`
the walks of a stream and of the stream with one candle more are run side by side (`Shadows`): they are in
the same state until the first has ended, and all it has that the second has not is the verdict of a window that was
open (`Covered`).

The argument for the scheduler. None of the invariants is inductive alone: whether a cursor may
sleep depends on the indexes knowing it, and the indexes are torn down from a cursor that may be
asleep. The inductive invariant is

    Inv == PoisOK /\ CursorsOK /\ LatestOK /\ FastForwardIsSafe
             /\ IndexesMatchCursors /\ DueIsComingBar     \* RegistriesMatchCursors

`CursorsOK` says the cursors are well-formed and never ahead of the stream, `LatestOK` that
`maxAvailable` is the latest availability seen (it decides whether a new POI may be created at
the head). Then a cursor not woken is one that is dormant and, by `IndexesMatchCursors`, would
have been found had it been touched or breached; `QuietAdvance` makes its fast-forward the
advance PoiEveryCursor takes, and `FastForwardTwice` composes the sleeps. A woken cursor takes
the same `AdvanceCursor`, a rebuilt one the same `FeedAll`, and a POI created at the head is
`FeedAll` over candles none of which starts it. `PublishedBatch` joins the two: at each candle
`Implements` gives the cursor that was fed everything, and `FeedAllTracks` that such a cursor is in `Tracks`.

The argument for the setups. `ReplayInv` says of every stored cursor that it fits the stream (`CursorFits`). As long as its POI
is not known to be invalidated it is `InStep`: at the head or dormant, and brought to the head it scans as
the batch does. Of an invalidated setup the cursor stops for good, and what it found is the batch's finds
up to the invalidation (`Precedes`); what it missed lies behind the candle at which the cascade is cut
(`SameCascade`, from `StepsGrow`: steps are added in time order, and those cut away come last). The registrations
are the stages of the cursors (`StageFits`) and the indexes, the watch and the due registry exactly those of
the registrations (`RegistriesFit`); the relayed events are those the walks gave (`RelayFits`, `EvidenceFits`). So a setup
not woken is one whose stage says that the candle cannot move it, and `DormantMaySkip` applies (`SkipInStep`).
A turn of the environment and a group keep it (`GroupInv`, `OtherGroupInv`). The assertion needs more:
`ReviewsFit` says where the visible evidence comes from and when, and `CascadeEnds` in which states a cascade with that
evidence can end. As the engine stops where its assertion fails, the invariant is `failed \/ Inv` (`InvUntilFailure`).

The argument for what a setup publishes. A walk publishes each type of transition once at most (`Keyed`), so that
`{**old, **new}` drops none of the new ones (`MergeHolds`); and a setup that was not merged is one whose walk the candle
left alone. So what is read of a setup is in its ledger (`LedgerFits`), unless evidence found it frozen. For
`PublishedStays` the cascades of a stream and of the stream with one candle more are run side by side:
a find of the first is one of the second (`Finds`), so the steps of the longer one go on from those of the shorter one
(`StepsGrow`), all of which are before the new candle (`StepsTimed`); the invalidations on file, which colour a step's fields, change none of what is
shown of it (`StepsAlike`); a genuine one at the new candle cuts the walk where everything published is earlier
(`CutGrows`), a false one publishes nothing. Evidence is not read before the window closes; what comes later is
the exception of the property.

The argument for the historical run. The invariant has a part for each module and one for the run. `WorkerInv`
says how far the parent is allowed to be for each state of the worker: before the spawn there is none, a
signal goes only to a worker already judged, and a verdict is given only of one that is gone; so a
success is of a worker that exited by itself. `NoWorkerLeft` alone is not
inductive: that the worker is gone when the call returns depends on it being gone on each way into
the cleanup. `ReportInv` says that under their final names are exactly the files
written so far, and the one between its rename and its hash, and that, unless the last directory sync failed, all but that one are durable; `MarkerIsLast`
follows, as the marker's rename comes when every file is written and listed and, unless the last sync failed, durable. `RunInv` ties both to the
run: the worker is idle outside of a verification and the report is idle before publication, the symbols that
passed are those before the one in work, and each of them was equal in a streaming run. Each part is kept by
its own module's steps (`WorkerKeeps`, `ParentKeeps`, `ReportKeeps`), the run's steps add the rest.

The argument for the kernel. The refinement maps each variable to itself, so that a call in progress must stutter
and `Publish` must do in one step what ScannerBatch does. Hence the invariant is about the call: `CallInv`
says that the call's candles extend the visible ones by candles of the group's moment only (`Extends`), and that the
engines of each timeframe are those of its candles so far, plus the stages that the candle in hand has passed
(`Reached`, `Partial`). `EnginesGrow` is the core: the engines of one candle more are the engines before with
one input appended to each, which is what the four stages do one by one; a stage given a stale state of the
stage before it would break it. `WorkOfGroup` shows that the flattened group is of tracked timeframes
and one moment. `EvidenceIsSeen` shows that the evidence the setups were given with the group is the evidence visible at
their timeframe's last candle, which is what the finalization of a batch would use.

The argument for the replay as a whole. `RunInv` adds to the kernel's invariant how far the run is: the groups left are
the rest of the inputs' groups (`IsRest`), and of every timeframe what was scanned (`ScannedSoFar`), or what the kernel
has and still has to take (`TakenSoFar`), are exactly the candles of the groups given (`Upto`). `Groups` shows that the
groups hold each candle once, at its own time, so that in the end nothing is missing (`UptoGrows`); two sequences in
order that hold the same candles are the same (`SortedSame`), and so the last prefix is the inputs (`AllGiven`). The
group's order is a choice (`ByKey`), which exists for any finite set with a key (`ByKeyExists`). Of the evidence, the
kernel's setups know what was visible at the last candle of their timeframe and the scan what is visible at the last
of all: `MissedIsLate` says that the difference is late evidence and nothing else.

The argument for the market replay. `MarketInv` says of each field the replay keeps which part of the batch passes
over the whole chart it is: the ATR state what the recurrence has summed (`AtrStateOK`), the raw pivots the batch scan
(`RawOK`: one a candle at most, in order, with their window behind them), the tracker of a pivot the search of all candles
after it (`TrackersOK`), the swings and displacements the batch lists, the structure state the batch's event stream with the
walk at each event as its checkpoint (`StructureOK`). A candle is a pivot by five candles and one ATR, so that appending a
candle adds one at most (`PivotAtSame`); a pivot keeps its key while merging and superseding go on around it, and an extreme
so far folds with the newest candle (`TrackersStep`). Two events never tie (`NoTies`, from the order of the
swings), so that the stream is unique, a candle without a new swing is its last event (`SortedAppend`), and the walk resumed
at the common prefix is the walk (`WalkAgrees`, `WalkResumes`).

Of the walk, `WalkOK` is kept by each event: with a direction there is one protected level, behind it, and a weak one at
most ahead of it; a level held is a visible swing not broken yet; each broken swing has one transition. The two breaks need
all of it: a change of character must find the level it protects next among the unbroken swings. `CheckpointsConsistent`
follows at every checkpoint, and `Follows`, that an event only appends transitions. For `TransitionsOnlyAppended` all
events of appended swings lie at the newest candle's time, so the old stream is a prefix of the new one
(`SortedEventsOK`, `WalkOfMore`).

The argument for the frontier. `FrontierInv` says of each field what it has kept of the chart: the ATR state, the ring is
its last candles (`LastOf`), what was appended is `DetectPatterns` of all of it, each period's accumulator is the window the calendar
gives (`PeriodOf`), the levels and reference zones are the batch's, the observations are the universe of the three. A
candidate of a pattern is known by the run of candles it is made from, and a detector is a *family* of such candidates (`FamilyOK`).
The candidates that one candle more adds are those whose run ends with it, and what such a run looks at lies within the end
of the chart that the ring holds (`EndOf`, `RingStep`). So there is one lemma per kind of detector: those of a fixed number of candles
(`DetectStep`), the wick and pressure blocks that look back a baseline (`PressureStep`), bases of variable length
(`BaseStep`), and reversals, which are found at their confirmation (`ReversalStep`); `PatternsStep` joins them. What
was found stays found because no family looks past its run's last candle. A new candle grows the open window of a period or opens one, and
the windows before it are not touched (`WindowGrows`, `WindowOpens`, `PeriodStep`, `LevelsOfPeriods`). The relay keys candidates by identity;
two different candidates of one universe never share one (`CandidatesFound`, `OneOfIdentity`), which is where the
guards `Follows` and `Measured` are needed, and so new, changed and removed are the set difference (`RelayDifference`).

Only model-checked:

* Of MarketReplay `LevelsAreBatchWhileSwingsGrow` and `TypeOK`. Clusters and zones are sorted and folded with operators (`SortSeq`, `SelectSeq`, `FoldSet`) that the prover has no
  definition of or that take an operator as a parameter. The other conjuncts of `TypeOK` follow
  from `MarketInv`; the positions of the zones' registry do not.
* `RunEnds`: liveness under fairness is out of the prover's reach, as is ENABLED. No module declares a
  RECURSIVE operator.

What a recursive function computes cannot be proved with the library's induction theorems (they take an operator
as a parameter, which the backends cannot instantiate). Where it mattered, as for the walk of a POI, the passes over
pivots and the structure walk, the induction is done over sets: `SetInduction` of NaturalProofs, or membership in every set that is closed under the
step of the loop.

## 5. Not modelled yet, and the plan

The order is by importance: what decides a published result comes first.

1. *(done)* PoiLifecycle, PoiCursor, PoiCursorFeed.
2. *(done)* PoiDelta, PoiStream, PoiEveryCursor, PoiScheduler and the refinement proof.
3. *(done)* PoiBreachIndex and its proofs.
4. *(done)* BtmmLifecycle, BtmmCursor, BtmmFeed, BtmmReplay. Left: the merge of several timeframes
   and the observation cache; what PoiScheduler publishes as the environment of BtmmReplay
   (its walks repaint, the relay hands each POI on once).
5. *(done)* Swings to MarketReplay: measurements and structure, and the proofs of both. Left: trendlines (the replay
   calls the batch detector), record identities, the finalization to public records.
6. *(done)* PoiDetectors and PoiFrontier, and the proofs of the frontier. Left: identities and fingerprints of POI records; PoiFrontier as the
   environment of PoiScheduler, whose deltas are free in its model.
7. *(done)* ScannerBatch, ReplayKernel, ScannerReplay. Left: groups without a candle and candles of several
   symbols, which `finalize` refuses only after it has recorded its transitions.
8. *(done)* DirectBatchWorker, HistoricalReport, HistoricalBacktest and their proofs.
9. Treap modules for the persistent maps and the interval index (RECURSIVE, TLC only).
10. MarketData (idempotent stores, replay position), POI overlap and merges, and label matching.

Not planned: the classification thresholds and parsers are arithmetic on a few candles, without state,
for which unit tests are the better tool; contracts and configuration are field validation; the dataset loader
validates record by record; the command line's own parsing and the metrics the run collects are I/O.

## 6. Findings

A finding is a sentence of the repository that a run refutes.

* **Equal levels after a swing was inserted.** `domain/analyzer.py:1747` promises that the sweep
  resumed from the last run start before the change is the batch sweep. When the run that starts right at the change
  was started by a swing the run before it did not take, and another swing takes its place, the run
  before may go on; the sweep resumes behind it. Run `market_replay_equal_levels`: `MeasurementsAreBatch` holds there, the
  clusters differ. Before a swing is inserted or withdrawn they agree (`LevelsAreBatchWhileSwingsGrow`).
* **A genuine invalidation after a false one is not relayed.** `btmm/analyzer.py:742` takes both
  types for terminal; a false invalidation is not. Run `btmm_replay_second_event`.
* **The assertion of `_reconcile`.** A resolved setup can be `BTMM_FORMING` again, which
  `btmm/lifecycle_scheduler.py:374` asserts away. Run `btmm_replay_assertion`.

The last two concern what happens around evidence and invalidations that come late; the engine is
right but for them (`btmm_replay`).

Seen while modelling, and the reason why some properties are not stronger (no run shows them):

POIs and BTMM

* With `displacement_window_bars >= reclaim_window_bars + 2`, which `PoiConfiguration` accepts, a genuine
  invalidation found by the suffix walk makes the cursor terminal (`poi/lifecycle_cursor.py:561`) while the
  displacement window of an earlier reclaim is open; the cursor keeps `RECLAIM_WITHOUT_DISPLACEMENT`
  where the batch walk turns to `FALSE_INVALIDATION_CONFIRMED`, against the promise of `:27`. With `DisplacementWindow = 4`
  in `poi_cursor.cfg` and a leg fast over four candles in `WalkViews` TLC finds `ResultIsBatch` violated, and with it
  the part of `DormantMaySleep` that compares with the batch walk. The defaults, 3 and 3, are within the bound; the window lengths
  of `poi_cursor`, 2 and 3, are its edge.
* Cancelled with an invalidation on file, a setup is watched no more (`btmm/lifecycle_scheduler.py:376`), and the
  transitions its batch lifecycle makes of evidence that comes later are never published, although `btmm/analyzer.py:809` promises
  to reproduce `analyze_btmm`. `WokenUnlessFrozen` and `NothingUnpublished` except it: with `Allow = {"late evidence"}`, both
  invalidations and `NothingUnpublished` without its conjunct on frozen setups, TLC finds such a setup (a false invalidation on
  file, cancelled, then reviewed) within four candles.
* The decision register (`docs/architecture/PHASE_1B_AUTHOR_DECISION_REGISTER.md:5297`) calls `BTMM_CANCELLED` terminal and (5293) requires
  `RESUMED_FORMING` between `BLOCKED` and `CONFIRMED`. `run_btmm_lifecycle` cancels at the close of the
  window when no evidence is visible; the walk of a longer prefix, with late evidence, blocks and
  confirms at once. `RewrittenOnlyByLateEvidence` excepts it.
* `btmm/analyzer.py:735` says transitions never change; late evidence replaces the cancellation,
  and the ledger keeps it beside what replaced it. `NothingUnpublished` is therefore an inclusion.
* Evidence that comes with a group of other timeframes is not known to the engine until the next
  candle of the setup's timeframe; `scan_market` over the same prefix uses it.
  `ReadIsBatchAtCandle` is therefore about candles.
* `cursor_walk_result` right after an advance that completes a window gives the head as
  `last_seen_candle`, the advance gave the last candle its loop examined. The analyzer reads the walk
  of the advance itself for such a cursor, so nothing published is affected.
* Two candles available at the same time: the second hands a reversal of the first to the scheduler again as new
  (`poi/detector_frontier.py:91` describes the new as those that first appear). `RelayedIsDifference` excepts it; that no new pattern is among `DetectPatterns` of the candles before
  the newest is violated in the instance of `poi_frontier`.
* That the ring is longer than the longest base is not validated by `PoiConfiguration`.

Market

* `docs/PROJECT_STATE.md:66` says that a pivot, once confirmed, never repaints. A confirmed swing is withdrawn when a more extreme pivot of its type
  follows before the opposite reversal (`domain/swings.py:183`), in the batch as in the replay, and zones
  drawn from it go with it. That is why `LevelsAreBatchWhileSwingsGrow` and `TransitionsOnlyAppended`
  have their premise: without it the resumed sweep, the zones' walks and the list of transitions do change.
* A transition once reported may go although no swing is withdrawn. Two swings confirmed by one candle can be inserted before
  a known one; the relationship of that one then has a later predecessor and becomes known later, the
  direction is no longer determined when its level broke, and the break of structure disappears, in the batch as in the replay
  (the tape `Undone` of `market_replay`: a break at candle 20 that is gone at candle 21). The premise of `TransitionsOnlyAppended`
  is therefore `OnlyAppends`, that new swings come after the known ones, and not `onlyGrew`, which is enough
  for clusters and zones.

Replay

* Evidence that becomes visible after the last candle of its timeframe is known to `scan_market` and not to the kernel
  (`scanner/replay.py:490` promises a byte-identical result). `ReplayIsBatch` says exactly this.
* `run_scanner_replay` means to return one snapshot for inputs that have timeframes but no candle
  (`scanner/replay.py:900`), but `scan_market` raises there, as `_max_candle_availability` is the maximum of nothing
  (`scanner/analyzer.py:299`); `ScanEmpty` ends in "raised". The kernel's `finalize` would return an empty
  analysis (`scanner/replay.py:672`).
* `FINAL_ONLY` does not ask for the required timeframes or the enabled symbols, as `scan_market` does.
* After a group that follows a finalization, the ledger still holds the transitions of that finalization.
* `CHANGED_ONLY` keeps every snapshot, as a snapshot carries its group's time (`docs/PROJECT_STATE.md:1048`
  reports the same).
* Candles whose availability is not in the order of their events make the replay raise; `scan_market` over the same
  inputs accepts them.

Historical run

* `reporting.py:158` removes what was written only after a `HistoricalReportWriteError`; a read-back that fails, or a
  payload that cannot be built, leaves the directory without its marker, where the decision register (6715)
  speaks of every failed report. `ExitCodeIsTrue` is what holds: no marker, and after a write error nothing that could be removed.
* The worker's answer is ignored once the deadline has passed, also when it is valid; the decision register (7803)
  describes `TIMEOUT` as the end of the time with no valid response file.
* The temporary directory of a verification, or part of it, may stay: `direct_batch_worker.py:442` ignores the errors of its
  removal, where the docstring (`:397`) has it deleted unconditionally. No property of the project is about it.
* The parent of the report directory is never synced, so that a power failure may lose the directory as a whole.

## 7. Running

    tlc -workers 2 -config poi_cursor.cfg MCPoiCursorFeed
    tlapm PoiProofs.tla

The module and the configuration of each run are listed in `PROJECT.json`. The longest runs, `poi_cursor`,
`btmm_replay` and `market_replay`, take about a minute each.

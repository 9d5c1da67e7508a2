---------------------------- MODULE ZoneFrontier ----------------------------
(***************************************************************************)
(* The incremental support/resistance frontier of domain/analyzer.py       *)
(* (_advance_sr_frontier and what it calls).  A swing has one position in  *)
(* the registry of its type, given when it is first seen; an origin's walk *)
(* keeps a checkpoint of the last touch's time at the positions it passed  *)
(* and is resumed from its earliest dirty position.                        *)
(*                                                                         *)
(* The price index that routes a touch to the origins whose band it enters *)
(* is its exact answer here: the code filters a superset with the same     *)
(* band test.                                                              *)
(***************************************************************************)
EXTENDS SupportResistance, TLC

Types == {High, Low}

-----------------------------------------------------------------------------
(* The reaction of one origin or touch, followed candle by candle.         *)

NewTracker(zone, from) ==
  [zone |-> zone, from |-> from, checked |-> from - 1, start |-> None, anchor |-> None,
   permanent |-> FALSE, confirming |-> None]

AdvanceTracker(tracker, candles, atrs) ==
  LET n    == Len(candles)
      zone == tracker.zone
      leaving == {i \in Largest(tracker.checked + 1, tracker.from)..n : Leaves(zone, candles[i])}
      started == IF tracker.start # None
                   THEN tracker
                   ELSE IF leaving = {}
                          THEN [tracker EXCEPT !.checked = n]
                          ELSE [tracker EXCEPT !.checked = n, !.start = Min(leaving),
                                  !.anchor = Anchor(candles, zone, tracker.from, Min(leaving))]
  IN  IF tracker.permanent
        THEN tracker
        ELSE IF zone.top = zone.bottom
               THEN [tracker EXCEPT !.checked = n, !.start = None, !.anchor = None,
                                    !.permanent = TRUE, !.confirming = None]
               ELSE IF started.start = None
                      THEN started
                      ELSE [started EXCEPT
                              !.permanent = WindowEnd(candles, started.start)
                                              = started.start + Config.reactionWindow - 1,
                              !.confirming = ConfirmingCandle(candles, atrs, zone,
                                                              started.start, started.anchor)]

-----------------------------------------------------------------------------
(* The frontier.                                                           *)

EmptyMap == [x \in {} |-> None]

InitialFrontier ==
  [swings |-> <<>>, originTrackers |-> EmptyMap, touchTrackers |-> EmptyMap,
   registry |-> [type \in Types |-> EmptyMap],       \* position -> swing, holes where removed
   registryLen |-> [type \in Types |-> 0],
   states |-> EmptyMap]                              \* swing id -> the origin's walk

NewState(origin, pos) ==
  [origin |-> origin, pos |-> pos, confirmed |-> FALSE,
   ck |-> (pos + 1) :> origin.confirmed, qualifying |-> EmptyMap, candidate |-> <<>>]

Put(f, key, value) == (key :> value) @@ f
Without(f, keys) == [x \in DOMAIN f \ keys |-> f[x]]

\* The earliest and the latest dirty position of each origin.
Mark(dirty, id, pos) ==
  IF id \in DOMAIN dirty
    THEN [dirty EXCEPT ![id] = [from |-> Smallest(@.from, pos), latest |-> Largest(@.latest, pos)]]
    ELSE Put(dirty, id, [from |-> pos, latest |-> pos])

MarkAll(dirty, ids, pos) == FoldSet(LAMBDA id, d : Mark(d, id, pos), dirty, ids)

\* The origins older than the position whose band holds the price.
StabOlderOrigins(states, type, price, pos) ==
  {id \in DOMAIN states : /\ states[id].origin.type = type
                          /\ states[id].pos < pos
                          /\ InBand(states[id].origin, price)}

\* Mutant: only the origins' reactions make an origin dirty.
AdvanceTrackersOfOrigins(f, candles, atrs) ==
  LET Advance(trackers) == [key \in DOMAIN trackers |-> AdvanceTracker(trackers[key], candles, atrs)]
      origins == Advance(f.originTrackers)
      changed == {id \in DOMAIN origins \cap DOMAIN f.states :
                    origins[id].confirming # f.originTrackers[id].confirming}
  IN  [frontier |-> [f EXCEPT !.originTrackers = origins, !.touchTrackers = Advance(@)],
       dirty |-> FoldSet(LAMBDA id, d : Mark(d, id, f.states[id].pos + 1), EmptyMap, changed)]

\* One more candle for every tracker that is not permanent; a confirmation
\* that changed makes its origin dirty, from the origin's first touch or
\* from the touch it belongs to.
AdvanceTrackers(f, candles, atrs) ==
  LET Advance(trackers) == [key \in DOMAIN trackers |-> AdvanceTracker(trackers[key], candles, atrs)]
      origins == Advance(f.originTrackers)
      touches == Advance(f.touchTrackers)
      changedOrigins == {id \in DOMAIN origins \cap DOMAIN f.states :
                           origins[id].confirming # f.originTrackers[id].confirming}
      changedTouches == {key \in DOMAIN touches :
                           /\ touches[key].confirming # f.touchTrackers[key].confirming
                           /\ {key[1], key[2]} \subseteq DOMAIN f.states}
      marked == FoldSet(LAMBDA id, d : Mark(d, id, f.states[id].pos + 1), EmptyMap, changedOrigins)
  IN  [frontier |-> [f EXCEPT !.originTrackers = origins, !.touchTrackers = touches],
       dirty |-> FoldSet(LAMBDA key, d : Mark(d, key[1], f.states[key[2]].pos), marked, changedTouches)]

\* A swing that is gone leaves a hole and makes the older origins it could
\* have touched dirty.
RemoveSwing(acc, id) ==
  LET f == acc.frontier
      s == f.states[id]
      type == s.origin.type
  IN  [frontier |-> [f EXCEPT !.registry[type] = Without(@, {s.pos}), !.states = Without(@, {id})],
       dirty |-> MarkAll(acc.dirty, StabOlderOrigins(f.states, type, s.origin.price, s.pos), s.pos)]

\* Mutant: the registry does not grow.
AddSwingInPlace(acc, swing) ==
  LET f == acc.frontier
      type == swing.type
      pos == f.registryLen[type]
  IN  [frontier |-> [f EXCEPT !.registry[type] = Put(@, pos, swing),
                              !.states = Put(@, SwingId(swing), NewState(swing, pos))],
       dirty |-> Mark(MarkAll(acc.dirty, StabOlderOrigins(f.states, type, swing.price, pos), pos),
                      SwingId(swing), pos + 1)]

AddSwing(acc, swing) ==
  LET f == acc.frontier
      type == swing.type
      pos == f.registryLen[type]
  IN  [frontier |-> [f EXCEPT !.registry[type] = Put(@, pos, swing),
                              !.registryLen[type] = pos + 1,
                              !.states = Put(@, SwingId(swing), NewState(swing, pos))],
       dirty |-> Mark(MarkAll(acc.dirty, StabOlderOrigins(f.states, type, swing.price, pos), pos),
                      SwingId(swing), pos + 1)]

\* Added swings take the next positions in the order of their confirmation.
UpdateSwings(acc, swings) ==
  LET Ids(seq) == {SwingId(s) : s \in Range(seq)}
      removed == Ids(acc.frontier.swings) \ Ids(swings)
      added   == SortSeq(SelectSeq(swings, LAMBDA s : SwingId(s) \notin Ids(acc.frontier.swings)),
                         ConfirmedBefore)
      cleaned == FoldSet(LAMBDA id, a : RemoveSwing(a, id), acc, removed)
      filled  == FoldLeft(AddSwing, cleaned, added)
  IN  [filled EXCEPT !.frontier.swings = swings]

-----------------------------------------------------------------------------
(* The walk of one origin, resumed.                                        *)

\* One position of the walk: acc is [state, trackers, last, done].
VisitPosition(acc, j, f, latest, candles, atrs) ==
  LET state == acc.state
      registry == f.registry[state.origin.type]
      present == j \in DOMAIN registry
      touch == registry[j]
      key == <<SwingId(state.origin), SwingId(touch)>>
      candidate == /\ present
                   /\ InBand(state.origin, touch.price)
                   /\ touch.confirmed > acc.last
                   /\ touch.end < Len(candles)
                   /\ OppositeBetween(f.swings, state.origin.type, acc.last, touch.confirmed)
      trackers == IF candidate /\ key \notin DOMAIN acc.trackers
                    THEN Put(acc.trackers, key,
                             AdvanceTracker(NewTracker(Zone(state.origin), touch.end + 1), candles, atrs))
                    ELSE acc.trackers
      qualified == candidate /\ trackers[key].confirming # None
      next == IF qualified THEN touch.confirmed ELSE acc.last
  IN  [state |-> [state EXCEPT !.ck = Put(@, j + 1, next),
                               !.qualifying = IF qualified THEN Put(@, j, touch) ELSE Without(@, {j})],
       trackers |-> trackers,
       last |-> next,
       done |-> /\ j + 1 > latest
                /\ j + 1 \in DOMAIN state.ck /\ state.ck[j + 1] = next]

BuildCandidate(state, trackers) ==
  LET positions == SetToSortSeq(DOMAIN state.qualifying, <)
      Touch(k) == SwingId(state.qualifying[positions[k]])
  IN  IF positions = <<>>
        THEN <<>>
        ELSE <<ZoneCandidate(state.origin, [k \in DOMAIN positions |-> Touch(k)],
                             trackers[<<SwingId(state.origin), Touch(1)>>].confirming)>>

\* The walk stops once it is past every dirty position and the time it
\* hands on is the one it handed on before.
ResumeOrigin(state, f, mark, candles, atrs) ==
  LET floor == Max({p \in DOMAIN state.ck : p <= mark.from})
      Visit(acc, j) == IF acc.done THEN acc ELSE VisitPosition(acc, j, f, mark.latest, candles, atrs)
      length == f.registryLen[state.origin.type]
      walked == FoldLeft(Visit,
                         [state |-> state, trackers |-> f.touchTrackers,
                          last |-> state.ck[floor], done |-> FALSE],
                         [i \in 1..(length - mark.from) |-> mark.from + i - 1])
  IN  [state |-> [walked.state EXCEPT !.candidate = BuildCandidate(walked.state, walked.trackers)],
       trackers |-> walked.trackers]

\* One origin: its own reaction, then its walk if something made it dirty.
AdvanceOrigin(acc, id, candles, atrs) ==
  LET f == acc.frontier
      state == f.states[id]
      fresh == id \notin DOMAIN f.originTrackers /\ state.origin.end < Len(candles)
      trackers == IF fresh
                    THEN Put(f.originTrackers, id,
                             AdvanceTracker(NewTracker(Zone(state.origin), state.origin.end + 1),
                                            candles, atrs))
                    ELSE f.originTrackers
      confirmed == id \in DOMAIN trackers /\ trackers[id].confirming # None
      flipped == IF confirmed = state.confirmed
                   THEN state
                   ELSE [state EXCEPT !.confirmed = confirmed,
                                      !.ck = Put(@, state.pos + 1, state.origin.confirmed),
                                      !.qualifying = IF confirmed THEN @ ELSE EmptyMap,
                                      !.candidate = <<>>]
      dirty == IF confirmed = state.confirmed THEN acc.dirty ELSE Mark(acc.dirty, id, state.pos + 1)
      resumed == ResumeOrigin(flipped, f, dirty[id], candles, atrs)
      With(s, touchTrackers) ==
        [frontier |-> [f EXCEPT !.originTrackers = trackers, !.touchTrackers = touchTrackers,
                                !.states[id] = s],
         dirty |-> dirty]
  IN  IF id \notin DOMAIN dirty
        THEN With(flipped, f.touchTrackers)
        ELSE IF confirmed
               THEN With(resumed.state, resumed.trackers)
               ELSE With([flipped EXCEPT !.qualifying = EmptyMap, !.candidate = <<>>], f.touchTrackers)

\* The origins of a type in the order they were registered.
Origins(f, type) ==
  SetToSortSeq({id \in DOMAIN f.states : f.states[id].origin.type = type},
               LAMBDA id, other : f.states[id].pos < f.states[other].pos)

AdvanceFrontier(frontier, candles, atrs, swings) ==
  LET tracked == AdvanceTrackers(frontier, candles, atrs)
      updated == IF swings = frontier.swings THEN tracked ELSE UpdateSwings(tracked, swings)
      order   == Origins(updated.frontier, Low) \o Origins(updated.frontier, High)
  IN  FoldLeft(LAMBDA acc, id : AdvanceOrigin(acc, id, candles, atrs), updated, order).frontier

ZonesOf(f) ==
  LET order == Origins(f, Low) \o Origins(f, High)
  IN  ZonesByConfirmation(FlattenSeq([i \in DOMAIN order |-> f.states[order[i]].candidate]))
=============================================================================

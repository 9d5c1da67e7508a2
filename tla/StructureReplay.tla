--------------------------- MODULE StructureReplay ---------------------------
(***************************************************************************)
(* The incremental structure state of structure/analyzer.py: the sorted    *)
(* event stream of the last candle with a checkpoint of the walk after     *)
(* each event, resumed before the earliest event that changed.  An event   *)
(* holds exactly what its identity is made of, so events are compared.     *)
(***************************************************************************)
EXTENDS StructureWalk, Swings

ASSUME StructureConfig == Config.relationshipTolerance \in Nat

Seen(s) == [id |-> SwingId(s), type |-> s.type, price |-> s.price,
            index |-> s.start, at |-> s.confirmed]

\* Each swing against the one before it of its type.
Label(current, predecessor) ==
  LET tolerance == Config.relationshipTolerance * current.atr
  IN  CASE 100 * current.price > 100 * predecessor.price + tolerance -> "HIGHER"
        [] 100 * current.price < 100 * predecessor.price - tolerance -> "LOWER"
        [] OTHER -> "EQUAL"

Precedes(swings, i, j) ==
  /\ i < j
  /\ swings[i].type = swings[j].type
  /\ \A k \in (i + 1)..(j - 1) : swings[k].type # swings[j].type

Relationship(current, predecessor) ==
  RelationshipEvent(Label(current, predecessor), Seen(current), Seen(predecessor))

DetectSwingRelationships(swings) ==
  LET pairs == {ij \in (DOMAIN swings) \X (DOMAIN swings) : Precedes(swings, ij[1], ij[2])}
  IN  {Relationship(swings[ij[2]], swings[ij[1]]) : ij \in pairs}

\* By availability, then kind, then the candle or the pivot.
Tie(e) == IF e.kind = 0 THEN e.index ELSE e.swing.index
EventBefore(e, f) ==
  \/ e.at < f.at
  \/ e.at = f.at /\ e.kind < f.kind
  \/ e.at = f.at /\ e.kind = f.kind /\ Tie(e) < Tie(f)

Events(candles, swings) ==
  {CandleEvent(i, candles[i].close) : i \in DOMAIN candles}
    \cup {SwingEvent(Seen(swings[i])) : i \in DOMAIN swings}
    \cup DetectSwingRelationships(swings)

\* No two events tie: each has as many before it as its place says.
InOrder(events) ==
  LET before == [e \in events |-> Cardinality({f \in events : EventBefore(f, e)})]
  IN  [k \in 1..Cardinality(events) |-> CHOOSE e \in {f \in events : before[f] = k - 1} : TRUE]

SortedEvents(candles, swings) == InOrder(Events(candles, swings))

RunStructureWalk(candles, swings) ==
  LET events == SortedEvents(candles, swings)
  IN  WalkFrom(InitialWalk, events)[Len(events)]

-----------------------------------------------------------------------------
(* The replay.                                                             *)

InitialStructure == [swings |-> <<>>, relationships |-> {}, events |-> <<>>, checkpoints |-> <<>>]

WalkAt(checkpoints, k) == IF k = 0 THEN InitialWalk ELSE checkpoints[k]

\* The checkpoints of the kept prefix and of the events after it.
ResumeWalk(checkpoints, kept, suffix) ==
  LET walk == WalkFrom(WalkAt(checkpoints, kept), suffix)
  IN  SubSeq(checkpoints, 1, kept) \o [k \in 1..Len(suffix) |-> walk[k]]

\* Swings unchanged: the newest candle is the last event of all.
AppendCandle(state, candles) ==
  LET e == CandleEvent(Len(candles), Last(candles).close)
  IN  [state EXCEPT !.events = Append(@, e),
                    !.checkpoints = ResumeWalk(@, Len(@), <<e>>)]

\* Mutant: the events are assumed to have changed at the end only.
RebuildFromEnd(candles, swings, state) ==
  LET relationships == DetectSwingRelationships(swings)
      events == SortedEvents(candles, swings)
      kept == Smallest(Len(state.events), Len(events))
  IN  [swings |-> swings, relationships |-> relationships, events |-> events,
       checkpoints |-> ResumeWalk(state.checkpoints, kept, SubSeq(events, kept + 1, Len(events)))]

RebuildFrom(candles, swings, state) ==
  LET relationships == DetectSwingRelationships(swings)
      events == SortedEvents(candles, swings)
      kept == Len(LongestCommonPrefix({state.events, events}))
  IN  [swings |-> swings, relationships |-> relationships, events |-> events,
       checkpoints |-> ResumeWalk(state.checkpoints, kept, SubSeq(events, kept + 1, Len(events)))]

AdvanceStructure(state, candles, swings) ==
  IF swings = state.swings
    THEN AppendCandle(state, candles)
    ELSE RebuildFrom(candles, swings, state)

WalkResult(state) == WalkAt(state.checkpoints, Len(state.checkpoints))
=============================================================================

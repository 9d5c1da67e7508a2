--------------------------- MODULE PoiCursorFeed ---------------------------
(***************************************************************************)
(* The cursor fed a stream, one candle a step, beside the stream itself:   *)
(* every prefix is a state, so the claim lifecycle_cursor.py makes of      *)
(* every prefix is an invariant.                                           *)
(***************************************************************************)
EXTENDS PoiCursor, SequencesExt

CONSTANTS
  Views,        \* the candles tried, a subset of View
  MaxHistory    \* bound on the length of the stream

ASSUME FeedAssumption == Views \subseteq View /\ MaxHistory \in Nat

VARIABLES history, cursor, result

feedVars == <<history, cursor, result>>

FeedInit ==
  /\ history = << >>
  /\ cursor = CreateCursor
  /\ result = Result(<< >>, "NO_BREACH", CreateCursor, None)

Feed(v) ==
  LET advanced == AdvanceCursor(cursor, v) IN
  /\ Len(history) < MaxHistory
  /\ history' = Append(history, v)
  /\ cursor' = advanced.cursor
  /\ result' = advanced.result

FeedNext == \E v \in Views : Feed(v)

FeedSpec == FeedInit /\ [][FeedNext]_feedVars

-----------------------------------------------------------------------------
FeedTypeOK ==
  /\ history \in Seq(Views)
  /\ cursor.total = Len(history)
  /\ cursor.start \in 0 .. Len(history) \cup {None}
  /\ cursor.status \in Status
  /\ \A t \in ToSet(cursor.committed) : t.type \in Event /\ t.at < Len(history)

\* "The result of advance_poi_cursor at every prefix is byte-identical to
\* run_poi_lifecycle(full prefix)": the incremental and the batch engine agree.
ResultIsBatch == result = RunPoiLifecycle(history)

\* The suffix the cursor replays is the part of the stream behind the floor,
\* never longer than one reclaim and one displacement window together, so the
\* cost of a candle does not grow with the stream.
BoundedReplay ==
  (cursor.start # None /\ ~ cursor.terminal) =>
    /\ cursor.buffer = SubSeq(history, cursor.resume + 1, Len(history))
    /\ Len(cursor.buffer) <= ReclaimWindow + DisplacementWindow

\* What is committed is never withdrawn: the batch walk of every longer prefix
\* starts with it.
CommittedIsFinal ==
  [][/\ IsPrefix(cursor.committed, cursor'.committed)
     /\ IsPrefix(cursor.committed, RunPoiLifecycle(history').transitions)]_feedVars

\* What the scheduler relies on to leave a cursor alone: a dormant cursor
\* advanced over a candle that neither touches nor breaches is the cursor
\* fast-forwarded over it, and what is read from it then is the batch result
\* although nothing was advanced (poi/cursor_fast_forward.py,
\* poi/scheduler_walk.py cursor_walk_result).
DormantMaySleep ==
  Dormant(cursor) =>
    \A v \in Views :
      (IF cursor.start = None THEN ~ v.after
       ELSE ~ v.touch /\ (cursor.terminal \/ ~ Breaches(v)))
      => LET ahead == FastForward(cursor, cursor.total + 1)
         IN  /\ AdvanceCursor(cursor, v).cursor = ahead
             /\ CursorWalkResult(ahead) = RunPoiLifecycle(Append(history, v))

\* The published walk repaints only inside a window that is still open: a new
\* candle withdraws a RECLAIM_WITHOUT_DISPLACEMENT no later than
\* DisplacementWindow candles after its reclaim, a RECLAIM_FAILED only when it
\* was the verdict of the previous candle, and no other transition ever.  The
\* BTMM engine relays FALSE and GENUINE invalidations once and relies on it.
RepaintOnlyInOpenWindow ==
  [][\A t \in ToSet(result.transitions) \ ToSet(result'.transitions) :
       \/ /\ t.type = "RECLAIM_WITHOUT_DISPLACEMENT"
          /\ Len(history) - t.at <= DisplacementWindow
       \/ /\ t.type = "RECLAIM_FAILED"
          /\ t.at = Len(history) - 1]_feedVars
=============================================================================

------------------------------ MODULE BtmmFeed ------------------------------
(***************************************************************************)
(* The cursor of one setup fed a stream, one candle a step, while its      *)
(* source POI is invalidated and reviewed.  Every prefix is a state, so    *)
(* what lifecycle_cursor.py claims of every prefix is an invariant, and    *)
(* what the state machine of the setup promises over time is checked on    *)
(* the walks that are published one after the other.                       *)
(***************************************************************************)
EXTENDS BtmmCursor

CONSTANTS
  Views,           \* the candles tried, a subset of BtmmView
  Availabilities,  \* the times at which the setup's candidate became available
  Invalidations,   \* the invalidations of the source POI tried
  Snapshots,       \* the reviewed evidence tried, without its time
  MaxLength        \* bound on the length of the stream

ASSUME FeedAssumption ==
  /\ Views \subseteq BtmmView
  /\ Availabilities \subseteq Int
  /\ MaxLength \in Nat

VARIABLES
  available,  \* candidate_availability_time_utc
  history,    \* the candles so far
  events,     \* the invalidations of the source POI so far
  evidence,   \* the reviewed evidence visible
  cursor,
  result      \* the walk published

feedVars == <<available, history, events, evidence, cursor, result>>

FeedInit ==
  /\ available \in Availabilities
  /\ history = << >> /\ events = << >> /\ evidence = NoEvidence
  /\ cursor = CreateCursor
  /\ result = MaterializeCursor(CreateCursor, available, << >>, NoEvidence)

\* The walk of the source POI ends with a genuine invalidation.
MayEnd(type) == type \in Invalidations /\ GenuineAt(events) = None

\* One snapshot of reviewed evidence per POI; it becomes visible with the
\* first group of candles at or after its time.
MaySee(r, now) == evidence = NoEvidence /\ r.time \in {now - 1, now} /\ now >= available

Feed(v, happened, seen) ==
  /\ Len(history) < MaxLength
  /\ history' = Append(history, v)
  /\ \/ happened = "NONE" /\ events' = events
     \/ /\ MayEnd(happened)
        /\ events' = Append(events, [type |-> happened, at |-> Len(history)])
  /\ \/ seen = NoEvidence /\ evidence' = evidence
     \/ MaySee(seen, TimeOf(Len(history))) /\ evidence' = seen
  /\ cursor' = AdvanceCursor(cursor, v, available)
  /\ result' = MaterializeCursor(cursor', available, events', evidence')
  /\ UNCHANGED available

\* The evidence that may come with the next candle.
Arrivals ==
  {[direction |-> r.direction, framework |-> r.framework, session |-> r.session,
    volume |-> r.volume, liquidity |-> r.liquidity, time |-> TimeOf(Len(history)) - early] :
     r \in Snapshots, early \in {0, 1}}

FeedNext ==
  \E v \in Views, happened \in Invalidations \cup {"NONE"}, seen \in Arrivals \cup {NoEvidence} :
    Feed(v, happened, seen)

FeedSpec == FeedInit /\ [][FeedNext]_feedVars

-----------------------------------------------------------------------------
\* The scans go in order and stay within the stream.
FeedTypeOK ==
  /\ cursor \in Cursor
  /\ cursor.total = Len(history)
  /\ cursor.forming \in 0 .. Len(history) - 1 \cup {None}
  /\ cursor.interaction # None => cursor.forming # None /\ cursor.forming <= cursor.interaction
  /\ cursor.start # None => cursor.interaction # None /\ cursor.interaction < cursor.start
  /\ cursor.close # None => cursor.start # None /\ cursor.close = cursor.start + WindowBars - 1

\* "The materialized result at every prefix is byte-identical to
\* run_btmm_lifecycle(full prefix, exact inputs)", whatever the evidence and
\* the invalidations on file.
ResultIsBatch == result = RunBtmmLifecycle(history, available, events, evidence)

\* The candles a dormant cursor may skip, as its wake sources see them.
Skippable(v) ==
  IF cursor.forming = None THEN TimeOf(cursor.total) <= available
  ELSE cursor.interaction = None => v.touch = "none"

\* cursor_fast_forward.py's "proven no-op": a dormant cursor advanced over a
\* candle it may skip is the cursor fast-forwarded over it.
FastForwardIsAdvance ==
  Dormant(cursor) =>
    \A v \in {w \in Views : Skippable(w)} :
      AdvanceCursor(cursor, v, available) = FastForward(cursor, v, cursor.total + 1)

\* What is published is withdrawn or changed in one case only: evidence that
\* becomes visible after the reaction window closed.  Invalidations of the
\* source POI only ever add to it.
RewrittenOnlyByLateEvidence ==
  [][\/ IsPrefix(result.transitions, result'.transitions)
     \/ evidence' # evidence /\ cursor.close # None]_feedVars
=============================================================================

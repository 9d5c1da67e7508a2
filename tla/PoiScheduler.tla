---------------------------- MODULE PoiScheduler ----------------------------
(***************************************************************************)
(* The event-driven engine of poi/lifecycle_scheduler.py.  A candle        *)
(* advances only the cursors it wakes: those whose zone it touches or      *)
(* breaches, found in two indexes, and those due whatever the price.  The  *)
(* other cursors are left behind, their position stale, and are brought to *)
(* the head by FastForward when they are woken or read.                    *)
(***************************************************************************)
EXTENDS PoiStream

VARIABLES
  candles,      \* the stream so far
  specs,        \* the present POIs and their fields
  cursors,      \* the stored cursors, possibly behind the head
  touchIndex,   \* <<id, zone>> of every cursor whose taps are counted
  breachIndex,  \* <<id, zone>> of every cursor whose breach walk is open
  due,          \* <<bar, id>>: the due registry
  maxAvailable, \* latest availability of a candle seen, None before the first
  lastWalks     \* results of the cursors advanced by the last candle

vars == <<candles, specs, cursors, touchIndex, breachIndex, due, maxAvailable, lastWalks>>

total == Len(candles)

\* What is read of a POI: its walk if the last candle advanced it, otherwise
\* the walk of its materialized cursor.
Materialized == [p \in DOMAIN cursors |-> FastForward(cursors[p], total)]

Published ==
  [p \in DOMAIN cursors |->
     IF p \in DOMAIN lastWalks THEN lastWalks[p] ELSE CursorWalkResult(Materialized[p])]

Oracle == INSTANCE PoiEveryCursor WITH cursors <- Materialized, walks <- Published

-----------------------------------------------------------------------------
InTouch(c)  == c.start # None
InBreach(c) == c.start # None /\ ~ c.terminal
DueNext(c)  == c.start = None \/ c.inTap \/ c.buffer # << >>

Init ==
  /\ candles = << >> /\ specs = << >> /\ cursors = << >>
  /\ touchIndex = {} /\ breachIndex = {} /\ due = {}
  /\ maxAvailable = None
  /\ lastWalks = << >>

\* Mutant: the breach index is not queried.
WakeForgetsBreach(c, kept) ==
  {p \in kept : (\E e \in touchIndex : e[1] = p /\ c.at[e[2]].touch) \/ <<total, p>> \in due}

\* 2. Wake discovery among the cursors kept.
Wake(c, kept) ==
  {p \in kept : \/ \E e \in touchIndex : e[1] = p /\ c.at[e[2]].touch
                \/ \E e \in breachIndex : e[1] = p /\ c.at[e[2]].pos = "breach"
                \/ <<total, p>> \in due}

\* 3. A woken cursor is brought to the head and advanced once.
WakeUp(p, c) == AdvanceCursor(FastForward(cursors[p], total), ViewOf(c, specs[p]))

\* Mutant: every new POI is taken for one that has not started.
OnTimeAlways(p, s, latest) == p \notin DOMAIN specs

\* 4. A new POI no candle seen so far can start is created at the head; any
\* other new or replaced one is fed the whole stream.
OnTime(p, s, latest) == p \notin DOMAIN specs /\ s.available >= latest

\* Mutant: removed and replaced POIs leave their entries behind.
ReindexKeepsTorn(index, was, now, torn, after) ==
  (index \cup {<<p, after[p].zone>> : p \in now \ (was \ torn)})
    \ {<<p, after[p].zone>> : p \in ((was \ torn) \cap DOMAIN after) \ now}

\* _unregister and _reregister over one index that held the POIs in was: the
\* entries of those torn down go, then an advanced or rebuilt cursor enters the
\* index or leaves it as it is in now or not.
Reindex(index, was, now, torn, after) ==
  LET gone  == {<<p, specs[p].zone>> : p \in was \cap torn}
      enter == {<<p, after[p].zone>> : p \in now \ (was \ torn)}
      leave == {<<p, after[p].zone>> : p \in ((was \ torn) \cap DOMAIN after) \ now}
  IN  ((index \ gone) \cup enter) \ leave

\* Mutant: the consumed bucket is not dropped.
NextDueKeepsBucket(after) ==
  due \cup {<<total + 1, p>> : p \in {q \in DOMAIN after : DueNext(after[q].cursor)}}

\* Mutant: a POI in the middle of a tap run is not due.
NextDueForgetsTaps(after) ==
  {e \in due : e[1] # total}
    \cup {<<total + 1, p>> : p \in {q \in DOMAIN after :
             after[q].cursor.start = None \/ after[q].cursor.buffer # << >>}}

\* 5. This bar's bucket is dropped, the next one names what must be seen.
NextDue(after) ==
  {e \in due : e[1] # total}
    \cup {<<total + 1, p>> : p \in {q \in DOMAIN after : DueNext(after[q].cursor)}}

Latest(c) ==
  IF maxAvailable = None \/ c.available > maxAvailable THEN c.available ELSE maxAvailable

Remaining(d) == Kept(DOMAIN specs, d)

Torn(d) == DOMAIN specs \ Remaining(d)

OnTimeIds(c, d) == {p \in DOMAIN d.given : OnTime(p, d.given[p], Latest(c))}

\* The cursors advanced, woken or rebuilt, with their results.
Walked(c, d) ==
  LET wake == Wake(c, Remaining(d))
  IN  [p \in wake \cup (DOMAIN d.given \ OnTimeIds(c, d)) |->
         IF p \in wake THEN WakeUp(p, c) ELSE FeedAll(Append(candles, c), d.given[p])]

\* The cursors written, and the zones they are registered under.
Written(c, d, walked) ==
  LET onTime == OnTimeIds(c, d)
      next   == Revised(specs, d)
  IN  [p \in DOMAIN walked \cup onTime |->
         [zone |-> next[p].zone,
          cursor |-> IF p \in onTime THEN FastForward(CreateCursor, total + 1)
                     ELSE walked[p].cursor]]

After(c, d) == Written(c, d, Walked(c, d))

\* The new registries, given the cursors walked and those written.
Commit(c, d, walked, after) ==
  LET next == Revised(specs, d)
  IN  /\ cursors' = [p \in DOMAIN next |->
                       IF p \in DOMAIN after THEN after[p].cursor ELSE cursors[p]]
      /\ touchIndex' = Reindex(touchIndex, {p \in DOMAIN cursors : InTouch(cursors[p])},
                         {p \in DOMAIN after : InTouch(after[p].cursor)}, Torn(d), after)
      /\ breachIndex' = Reindex(breachIndex, {p \in DOMAIN cursors : InBreach(cursors[p])},
                          {p \in DOMAIN after : InBreach(after[p].cursor)}, Torn(d), after)
      /\ due' = NextDue(after)
      /\ lastWalks' = [p \in DOMAIN walked |-> walked[p].result]

Advance(c, d) ==
  /\ total < MaxCandles
  /\ candles' = Append(candles, c)
  /\ specs' = Revised(specs, d)
  /\ maxAvailable' = Latest(c)
  /\ Commit(c, d, Walked(c, d), After(c, d))

Next == \E c \in Candles, d \in Delta(DOMAIN specs) : Advance(c, d)

Spec == Init /\ [][Next]_vars

-----------------------------------------------------------------------------
\* The registries hold well-formed entries of present POIs, the cursors are
\* those of the present POIs and none is ahead of the stream.
TypeOK ==
  /\ DOMAIN cursors = DOMAIN specs
  /\ DOMAIN lastWalks \subseteq DOMAIN specs
  /\ \A e \in touchIndex \cup breachIndex :
       e[1] \in DOMAIN specs /\ e[2] = specs[e[1]].zone
  /\ \A p \in DOMAIN cursors : cursors[p] \in Cursor /\ cursors[p].total <= total

\* "Every other cursor is carried forward unchanged" yet nothing is lost: each
\* step is a step of the engine that advances every cursor, for the cursors
\* brought to the head and for the results read.
ImplementsEveryCursor == Oracle!Spec

\* "Reproduces analyze_pois((single_bundle,), ...) EXACTLY at every candle"
\* (poi/analyzer.py): what is read of a POI, however long its cursor has slept
\* and whenever it was last rebuilt, is the batch walk of the stream so far.
PublishedIsBatch ==
  \A p \in DOMAIN specs : Published[p] = RunPoiLifecycle(StreamOf(candles, specs[p]))

\* The asserted preconditions of fast_forward_poi_cursor hold wherever it may be
\* called: a cursor left behind is one every later candle leaves alone.
FastForwardIsSafe ==
  \A p \in DOMAIN cursors : cursors[p].total = total \/ Dormant(cursors[p])

\* Registration is a function of the stored cursor: a cursor behind the head
\* reports exactly what the indexes hold, under the zone the POI has now.
IndexesMatchCursors ==
  /\ touchIndex = {<<p, specs[p].zone>> : p \in {q \in DOMAIN cursors : InTouch(cursors[q])}}
  /\ breachIndex = {<<p, specs[p].zone>> : p \in {q \in DOMAIN cursors : InBreach(cursors[q])}}

\* The due registry never grows: it names the coming bar only, and exactly the
\* present POIs that must see it; their cursors are at the head.
DueIsComingBar ==
  /\ due = {<<total, p>> : p \in {q \in DOMAIN cursors : DueNext(cursors[q])}}
  /\ \A p \in DOMAIN cursors : DueNext(cursors[p]) => cursors[p].total = total

\* Nothing of a removed POI or of an earlier zone stays registered anywhere, and
\* nobody who must be woken is missing, in the indexes and in the due registry.
RegistriesMatchCursors == IndexesMatchCursors /\ DueIsComingBar
=============================================================================

----------------------------- MODULE BtmmReplay -----------------------------
(***************************************************************************)
(* The BTMM engine of one timeframe: btmm/analyzer.py's replay state and   *)
(* the event-driven scheduler of btmm/lifecycle_scheduler.py it drives.  A *)
(* setup belongs to one source POI and is known by the POI's identifier.   *)
(* A candle advances only the setups whose price scan it may move; the     *)
(* invalidations and the reviewed evidence of a POI are relayed once and   *)
(* wake the setups that watch it.  Transitions are published into a ledger *)
(* only for the setups a candle touched.                                   *)
(*                                                                         *)
(* The POI engine and the reviewers are the environment: walkEvents is     *)
(* what the walk of each POI says now, visible the evidence whose time has *)
(* come.  A setup's batch lifecycle reads those; the engine reads what it  *)
(* relayed.                                                                *)
(***************************************************************************)
EXTENDS BtmmCursor, PoiDelta

CONSTANTS
  Candles,      \* candles: [zone -> BtmmView]
  EventTypes,   \* the invalidations tried
  Reviews,      \* the reviewed evidence tried, without its time
  Allow,        \* which of the environment's rarer turns are taken
  MaxCandles    \* bound on the length of the stream

Turns == {"late evidence", "second events", "redrawn zones", "other timeframes"}

ASSUME ReplayAssumption ==
  /\ \A s \in PoiSpecs : s.available \in Int /\ \A c \in Candles : c[s.zone] \in BtmmView
  /\ Allow \subseteq Turns
  /\ MaxCandles \in Nat

VARIABLES
  candles,           \* the stream so far
  specs,             \* the present source POIs
  walkEvents,        \* the invalidations in the walk of each
  visible,           \* the reviewed evidence visible for each
  cursors,           \* the stored cursors, possibly behind the head
  regs,              \* the registration of each setup
  formingIndex,      \* <<key, id>>: waits for a candle after key
  interactionIndex,  \* <<zone, id>>: waits for a candle that touches zone
  due,               \* <<bar, id>>: must see the candle bar
  watch,             \* setups woken by the events of their source POI
  poiTransitions,    \* the invalidations relayed, for each present POI
  reviewedEvidence,  \* the evidence relayed, for each present POI
  relayedTransitions, relayedEvidence,  \* POIs of which one was ever relayed
  ledger,            \* the published transitions of each setup
  woken,             \* setups the last candle reconciled
  failed             \* an assertion of the scheduler has failed

environment == <<candles, specs, walkEvents, visible>>
scheduler == <<cursors, regs, formingIndex, interactionIndex, due, watch,
               poiTransitions, reviewedEvidence>>
engine == <<scheduler, relayedTransitions, relayedEvidence, ledger, woken>>
vars == <<environment, engine, failed>>

total == Len(candles)

ViewsOf(h, zone) == [k \in 1 .. Len(h) |-> h[k][zone]]

-----------------------------------------------------------------------------
(***************************************************************************)
(* Registration.                                                           *)
(***************************************************************************)
\* _price_stage
PriceStage(c) ==
  IF c.forming = None THEN "WAIT_FORMING"
  ELSE IF c.interaction = None THEN "WAIT_INTERACTION"
  ELSE IF c.class # "ELIGIBLE" THEN "RESOLVED"
  ELSE IF c.start = None THEN "WAIT_REACTION_START"
  ELSE IF c.close = None THEN "REACTION_DUE" ELSE "RESOLVED"

\* Mutant: a false invalidation closes the price scans as well.
StageOfAnyEvent(c, events, primary) ==
  IF events = << >> /\ PriceStage(c) # "RESOLVED" THEN PriceStage(c)
  ELSE IF primary = "BTMM_BLOCKED" THEN "EVIDENCE_WAIT"
  ELSE IF primary \notin {"BTMM_CONFIRMED", "BTMM_CANCELLED"} THEN "ASSERTION" ELSE "FROZEN"

\* The stage _reconcile decides on, "ASSERTION" where its assertion fails.
StageOf(c, events, primary) ==
  IF GenuineAt(events) = None /\ PriceStage(c) # "RESOLVED" THEN PriceStage(c)
  ELSE IF primary = "BTMM_BLOCKED" THEN "EVIDENCE_WAIT"
  ELSE IF primary \notin {"BTMM_CONFIRMED", "BTMM_CANCELLED"} THEN "ASSERTION"
  ELSE IF events # << >> THEN "FROZEN"
  ELSE IF primary = "BTMM_CONFIRMED" THEN "CONFIRMED_SOURCE_WATCH" ELSE "SOURCE_POI_WATCH"

Watches(stage) == stage # "FROZEN"
IsDue(stage) == stage \in {"WAIT_REACTION_START", "REACTION_DUE"}

\* What the registrations rs put into each index.
Forming(rs)     == {<<rs[p].key, p>> : p \in {q \in DOMAIN rs : rs[q].stage = "WAIT_FORMING"}}
Interacting(rs) == {<<rs[p].zone, p>> : p \in {q \in DOMAIN rs : rs[q].stage = "WAIT_INTERACTION"}}
Watching(rs)    == {p \in DOMAIN rs : Watches(rs[p].stage)}

\* The part of the registrations rs of the setups in ids.
Of(rs, ids) == [p \in ids \cap DOMAIN rs |-> rs[p]]

\* Mutant: an entry is not withdrawn when its setup is registered again.
ReindexKeepsOld(index, old, new) == index \cup new

Reindex(index, old, new) == (index \ old) \cup new

-----------------------------------------------------------------------------
(***************************************************************************)
(* One candle c with the delta d of the POIs.                              *)
(***************************************************************************)
Init ==
  /\ candles = << >> /\ specs = << >> /\ walkEvents = << >> /\ visible = << >>
  /\ cursors = << >> /\ regs = << >>
  /\ formingIndex = {} /\ interactionIndex = {} /\ due = {} /\ watch = {}
  /\ poiTransitions = << >> /\ reviewedEvidence = << >>
  /\ relayedTransitions = {} /\ relayedEvidence = {}
  /\ ledger = << >> /\ woken = {} /\ failed = FALSE

\* f on the present POIs, with a default for the ones it does not know.
Over(f, ids, default) == [p \in ids |-> IF p \in DOMAIN f THEN f[p] ELSE default]

\* The relay of a walk: its first invalidation, once per POI ever.
RelayNow(happened) == DOMAIN happened \ relayedTransitions

TransitionsAfter(d, happened, walked) ==
  [p \in DOMAIN walked |->
     LET known == IF p \in DOMAIN poiTransitions /\ p \notin d.removed
                  THEN poiTransitions[p] ELSE << >>
     IN  IF p \in RelayNow(happened) THEN Append(known, walked[p][1]) ELSE known]

\* Evidence is relayed once per POI ever.
ReviewNow(seen) == {p \in DOMAIN seen : seen[p] # NoEvidence} \ relayedEvidence

EvidenceAfter(d, seen) ==
  [p \in DOMAIN seen |->
     IF p \in ReviewNow(seen) THEN seen[p]
     ELSE IF p \in DOMAIN reviewedEvidence THEN reviewedEvidence[p] ELSE NoEvidence]

\* Mutant: the due registry is not consulted.
PriceWakeForgetsDue(c, kept) ==
  {p \in kept : \/ \E e \in formingIndex : e[2] = p /\ e[1] <= TimeOf(total)
                \/ \E e \in interactionIndex : e[2] = p /\ c[e[1]].touch # "none"}

\* The setups kept whose price scan the candle may move.
PriceWake(c, kept) ==
  {p \in kept : \/ \E e \in formingIndex : e[2] = p /\ e[1] <= TimeOf(total)
                \/ \E e \in interactionIndex : e[2] = p /\ c[e[1]].touch # "none"
                \/ <<total, p>> \in due}

\* Mutant: invalidations wake nothing.
EventWakeIgnoresTransitions(kept, happened, seen) == kept \cap watch \cap ReviewNow(seen)

\* Mutant: evidence wakes nothing.
EventWakeIgnoresEvidence(kept, happened, seen) == kept \cap watch \cap RelayNow(happened)

\* Those that watch a POI something new is relayed of.
EventWake(kept, happened, seen) ==
  kept \cap watch \cap (RelayNow(happened) \cup ReviewNow(seen))

\* A setup the price woke is brought to the head and advanced once.
WakeUp(p, c) ==
  AdvanceCursor(FastForward(cursors[p], candles[total][specs[p].zone], total),
                c[specs[p].zone], specs[p].available)

\* Mutant: a new setup is always created at the head.
BuildAtHead(p, s, c) == FastForward(CreateCursor, c[s.zone], total + 1)

\* A new setup no candle seen can form is created at the head; any other new
\* one and every redrawn one is fed the whole stream.
Build(p, s, c) ==
  IF p \notin DOMAIN specs /\ s.available >= TimeOf(total)
  THEN FastForward(CreateCursor, c[s.zone], total + 1)
  ELSE FeedAll(ViewsOf(Append(candles, c), s.zone), s.available)

\* The cursors of the setups touched.
Touched(c, d, price, event) ==
  [p \in price \cup event \cup DOMAIN d.given |->
     IF p \in price THEN WakeUp(p, c)
     ELSE IF p \in event THEN cursors[p] ELSE Build(p, d.given[p], c)]

\* _reconcile: the walk and the registration of each of them.
Walks(after, next, transitions, evidence) ==
  [p \in DOMAIN after |->
     MaterializeCursor(after[p], next[p].available, transitions[p], evidence[p])]

Regs(after, next, transitions, walks) ==
  [p \in DOMAIN after |->
     [stage |-> StageOf(after[p], transitions[p], walks[p].fields.primary),
      key |-> next[p].available, zone |-> next[p].zone]]

Key(t) == <<t.type, t.trigger>>

\* {**old, **new}: known keys keep their place and get the new content.
Merge(old, new) ==
  LET fresh == {t \in ToSet(new) : \A k \in 1 .. Len(old) : Key(old[k]) # Key(t)}
      Current(t) == IF \E u \in ToSet(new) : Key(u) = Key(t)
                    THEN CHOOSE u \in ToSet(new) : Key(u) = Key(t) ELSE t
  IN  [k \in 1 .. Len(old) |-> Current(old[k])] \o Only(new, fresh)

\* The new state of the scheduler, given the setups touched and their walks.
Commit(d, after, next, transitions, evidence, walks, newRegs) ==
  LET stale == Of(regs, d.removed \cup DOMAIN newRegs)
  IN  /\ cursors' = [p \in DOMAIN next |-> IF p \in DOMAIN after THEN after[p] ELSE cursors[p]]
      /\ regs' = [p \in DOMAIN next |-> IF p \in DOMAIN newRegs THEN newRegs[p] ELSE regs[p]]
      /\ formingIndex' = Reindex(formingIndex, Forming(stale), Forming(newRegs))
      /\ interactionIndex' = Reindex(interactionIndex, Interacting(stale), Interacting(newRegs))
      /\ watch' = Reindex(watch, Watching(stale), Watching(newRegs))
      /\ due' = {e \in due : e[1] # total}
                  \cup {<<total + 1, p>> : p \in {q \in DOMAIN newRegs : IsDue(newRegs[q].stage)}}
      /\ poiTransitions' = transitions
      /\ reviewedEvidence' = evidence
      /\ ledger' = [p \in DOMAIN next |->
                      LET old == IF p \in DOMAIN ledger THEN ledger[p] ELSE << >>
                      IN  IF p \in DOMAIN walks THEN Merge(old, walks[p].transitions) ELSE old]
      /\ woken' = DOMAIN after

\* A failed assertion leaves the engine as it was.
Reconcile(d, after, next, transitions, evidence, walks, newRegs) ==
  IF \E p \in DOMAIN newRegs : newRegs[p].stage = "ASSERTION"
  THEN failed' = TRUE /\ UNCHANGED <<scheduler, ledger, woken>>
  ELSE failed' = FALSE /\ Commit(d, after, next, transitions, evidence, walks, newRegs)

ReconcileWalks(d, after, next, transitions, evidence, walks) ==
  Reconcile(d, after, next, transitions, evidence, walks, Regs(after, next, transitions, walks))

ReconcileTouched(d, after, next, transitions, evidence) ==
  ReconcileWalks(d, after, next, transitions, evidence,
                 Walks(after, next, transitions, evidence))

AdvanceScheduler(c, d, kept, happened, walked, seen) ==
  ReconcileTouched(d,
    Touched(c, d, PriceWake(c, kept), EventWake(kept, happened, seen)),
    Revised(specs, d), TransitionsAfter(d, happened, walked), EvidenceAfter(d, seen))

-----------------------------------------------------------------------------
(***************************************************************************)
(* The environment, and a group of candles as the kernel of the scanner    *)
(* replay hands it over: with a candle of this timeframe (Group), or with  *)
(* candles of other timeframes only (OtherGroup).                          *)
(***************************************************************************)
\* A POI is known by the candle that reveals it.  One that was invalidated or
\* reviewed is not given again once removed, and one that is reviewed is not
\* removed (analyze_btmm rejects evidence without its POI).
Possible(d) ==
  /\ \A p \in d.removed : visible[p] = NoEvidence
  /\ \A p \in DOMAIN d.given :
       /\ d.given[p].available <= TimeOf(total)
       /\ IF p \in DOMAIN specs
          THEN /\ "redrawn zones" \in Allow /\ walkEvents[p] = << >>
               /\ d.given[p].available = specs[p].available
          ELSE p \notin relayedTransitions \cup relayedEvidence

\* What the walk of p may say next.
MayHappen(type, events) ==
  /\ type \in EventTypes
  /\ GenuineAt(events) = None
  /\ events = << >> \/ "second events" \in Allow

\* No POI is invalidated, or the one in the domain is.
Invalidated(p, type) == [q \in {p} |-> type]

Happenings(ids) == {<< >>} \cup {Invalidated(p, type) : p \in ids, type \in EventTypes}

Review(r, time) ==
  [direction |-> r.direction, framework |-> r.framework, session |-> r.session,
   volume |-> r.volume, liquidity |-> r.liquidity, time |-> time]

\* One snapshot per POI, visible from the first group at or after its time.  It
\* is late where the reaction window had closed before.
MayBeReviewed(p, s, seen, now) ==
  /\ seen[p] = NoEvidence
  /\ s.available <= now
  /\ "late evidence" \in Allow
       \/ Scan(ViewsOf(candles, s.zone), s.available).close = None

\* The evidence visible at now: what was, and at most one review more.
Sightings(seen, next, now) ==
  {seen} \cup {[seen EXCEPT ![p] = Review(r, now - early)] :
                 p \in {q \in DOMAIN next : MayBeReviewed(q, next[q], seen, now)},
                 r \in Reviews, early \in {0, 1}}

Walk(walks, happened) ==
  [p \in DOMAIN walks |->
     IF p \in DOMAIN happened
     THEN Append(walks[p], [type |-> happened[p], at |-> total]) ELSE walks[p]]

Group(c, d, happened, walked, seen) ==
  /\ candles' = Append(candles, c)
  /\ specs' = Revised(specs, d)
  /\ walkEvents' = walked
  /\ visible' = seen
  /\ AdvanceScheduler(c, d, Kept(DOMAIN specs, d), happened, walked, seen)
  /\ relayedTransitions' =
       IF failed' THEN relayedTransitions ELSE relayedTransitions \cup DOMAIN happened
  /\ relayedEvidence' =
       IF failed' THEN relayedEvidence ELSE relayedEvidence \cup ReviewNow(seen)

OtherGroup(seen) ==
  /\ "other timeframes" \in Allow
  /\ seen # visible
  /\ visible' = seen
  /\ UNCHANGED <<candles, specs, walkEvents, engine, failed>>

\* A candle with the walks and the evidence of the POIs there are then.
AnyGroup(c, d, walks, seen) ==
  \E happened \in Happenings(DOMAIN walks) :
    \E later \in Sightings(seen, Revised(specs, d), TimeOf(total)) :
      /\ \A p \in DOMAIN happened : MayHappen(happened[p], walks[p])
      /\ Group(c, d, happened, Walk(walks, happened), later)

Next ==
  /\ ~ failed
  /\ \/ /\ total < MaxCandles
        /\ \E c \in Candles, d \in Delta(DOMAIN specs) :
             /\ Possible(d)
             /\ AnyGroup(c, d, Over(walkEvents, DOMAIN Revised(specs, d), << >>),
                         Over(visible, DOMAIN Revised(specs, d), NoEvidence))
     \/ \E seen \in Sightings(visible, specs, TimeOf(total) - 1) : OtherGroup(seen)

Spec == Init /\ [][Next]_vars

-----------------------------------------------------------------------------
\* The setup of a POI as analyze_btmm computes it, and as the engine reads it.
BatchOf(h, spec, events, evidence) ==
  RunBtmmLifecycle(ViewsOf(h, spec.zone), spec.available, events, evidence)

Batch(p) == BatchOf(candles, specs[p], walkEvents[p], visible[p])

Read(p) ==
  MaterializeCursor(cursors[p], specs[p].available, poiTransitions[p], reviewedEvidence[p])

\* The registries are what the registrations say, hold present setups only, and
\* the due registry names the coming candle only.
TypeOK ==
  /\ DOMAIN cursors = DOMAIN specs /\ DOMAIN regs = DOMAIN specs
  /\ \A p \in DOMAIN cursors : cursors[p] \in Cursor /\ cursors[p].total <= total
  /\ formingIndex = Forming(regs)
  /\ interactionIndex = Interacting(regs)
  /\ watch = Watching(regs)
  /\ \A e \in due : e[1] = total
  /\ \A p \in DOMAIN regs :
       /\ regs[p].zone = specs[p].zone /\ regs[p].key = specs[p].available
       /\ IsDue(regs[p].stage) => <<total, p>> \in due

\* "Reproduces analyze_btmm((bundle,), poi_analysis, reviewed_evidence, ...)
\* exactly": what is read of a setup is its batch lifecycle.
ReadIsBatch == \A p \in DOMAIN specs : Read(p) = Batch(p)

\* The same after every candle of the timeframe, whatever became visible since
\* the last one.
ReadIsBatchAtCandle ==
  [][candles' # candles /\ ~ failed' =>
       \A p \in DOMAIN specs' :
         MaterializeCursor(cursors'[p], specs'[p].available, poiTransitions'[p],
                           reviewedEvidence'[p])
           = BatchOf(candles', specs'[p], walkEvents'[p], visible'[p])]_vars

\* Nothing the batch lifecycle publishes is missing from the ledger, which may
\* hold more: what late evidence or a redrawn zone replaced stays.  Evidence not
\* yet given to this timeframe is excepted, and evidence that a setup misses
\* that was frozen by an invalidation.
NothingUnpublished ==
  \A p \in DOMAIN specs :
    visible[p] = reviewedEvidence[p] /\ (regs[p].stage = "FROZEN" => visible[p] = NoEvidence)
      => ToSet(Batch(p).transitions) \subseteq ToSet(ledger[p])

\* Event-driven waking loses nothing: a setup whose batch lifecycle a candle
\* changes is among those the candle reconciled, but for evidence that becomes
\* visible when the setup is frozen (btmm/lifecycle_scheduler.py _reconcile).
WokenUnlessFrozen ==
  [][candles' # candles /\ ~ failed' =>
       \A p \in DOMAIN specs \cap DOMAIN specs' :
         BatchOf(candles', specs'[p], walkEvents'[p], visible'[p]) # Batch(p)
           => \/ p \in woken'
              \/ regs[p].stage = "FROZEN" /\ visible'[p] # visible[p]]_vars

\* The assertion of _reconcile, that a setup resolved and not blocked is
\* confirmed or cancelled, never fails.
NoAssertionFails == ~ failed

\* The asserted preconditions of fast_forward_btmm_cursor hold wherever it may
\* be called: a cursor behind the head is dormant, or its setup is rejected and
\* registered nowhere that a candle could wake it.
FastForwardIsSafe ==
  \A p \in DOMAIN cursors :
    \/ cursors[p].total = total
    \/ Dormant(cursors[p])
    \/ /\ GenuineAt(poiTransitions[p]) # None
       /\ \A e \in formingIndex \cup interactionIndex : e[2] # p
       /\ <<total, p>> \notin due
=============================================================================

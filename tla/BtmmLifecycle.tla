--------------------------- MODULE BtmmLifecycle ---------------------------
(***************************************************************************)
(* The lifecycle of one BTMM setup, as btmm/lifecycle.py computes it: a    *)
(* batch cascade over every candle seen so far, the invalidations of the   *)
(* setup's source POI and the reviewed evidence on file.  The incremental  *)
(* engine of BtmmCursor and BtmmReplay is compared with it.                *)
(*                                                                         *)
(* Candle k (from 0) of a timeframe becomes available at TimeOf(k), so     *)
(* that evidence can become available with it or between two candles.  To  *)
(* one setup a candle is a BtmmView:                                       *)
(*   touch  how its range meets the zone: "none", "entry", or "overshoot"  *)
(*          beyond the far boundary by more than the tolerance;            *)
(*   open, close  "clear" beyond the entry boundary on the canonical side, *)
(*          on the "edge" of it, or "inside" of it;                        *)
(*   extreme  its low for a bullish setup, its mirrored high otherwise.    *)
(* The interaction classes from EDGE_TOUCH to CONTROLLED_OVERSHOOT drive   *)
(* the same transitions and are one class here, ELIGIBLE.                  *)
(***************************************************************************)
EXTENDS Integers, FiniteSets, SequencesExt

CONSTANTS
  WindowBars,            \* BtmmConfiguration.reaction_window_bars
  FormationTimeframe,    \* whether the timeframe is a formation timeframe
  EvaluateReaction(_, _) \* the tier of a reaction anchor and a window of views

ASSUME BtmmAssumption == WindowBars \in Nat \ {0} /\ FormationTimeframe \in BOOLEAN

None == -1

Side == {"clear", "edge", "inside"}

BtmmView ==
  [touch : {"none", "entry", "overshoot"}, open : Side, close : Side, extreme : Int]

\* EvaluateReaction yields the classification and the speed that matter:
\* WEAK_REACTION, or a reaction whose speed is SLOW_OR_UNCLEAR or better.
Tier == {"weak", "slow", "fast"}

TimeOf(k) == 2 * (k + 1)

\* An invalidation of the source POI, by the index of its triggering candle.
PoiEvent == [type : {"FALSE_INVALIDATION_CONFIRMED", "GENUINE_INVALIDATION_CONFIRMED"},
             at : Nat]

Alignment == {"PENDING", "ALIGNED", "MISALIGNED", "UNKNOWN"}

\* The reviewed evidence on file for the source POI, or NoEvidence.
Evidence ==
  [direction : Alignment, framework : Alignment,
   session : {"PENDING", "ACTIVE", "INACTIVE", "UNKNOWN"},
   volume : {"PENDING", "SUPPORTS", "FAILS", "MISSING_DATA", "UNRESOLVED"},
   liquidity : {"PENDING", "PRESENT"}, time : Int]

NoEvidence == [time |-> None]

-----------------------------------------------------------------------------
(***************************************************************************)
(* The steps of a walk: each holds the fields of the setup after it and,   *)
(* unless its type is "NONE", is published as a transition.                *)
(***************************************************************************)
NoTrigger   == <<"none">>
Candle(k)   == <<"candle", k>>
Reviewed(t) == <<"reviewed", t>>

InitialStep(available) ==
  [type |-> "NONE", trigger |-> NoTrigger,
   fields |-> [primary |-> "BTMM_CANDIDATE", stage |-> "NONE", automatic |-> FALSE,
               reviewed |-> None, cancel |-> "NONE", blocked |-> "NONE", time |-> available]]

LastFields(steps) == steps[Len(steps)].fields

\* emit: the fields of the last step, changed, at a time.
Changed(fields, change, time) ==
  [f \in DOMAIN fields |-> IF f = "time" THEN time
                           ELSE IF f \in DOMAIN change THEN change[f] ELSE fields[f]]

Emit(steps, type, trigger, time, change) ==
  Append(steps, [type |-> type, trigger |-> trigger,
                 fields |-> Changed(LastFields(steps), change, time)])

Cancelled(reason) == [primary |-> "BTMM_CANCELLED", cancel |-> reason]

\* The elements of the sequence s that are in S, in order.
Only(s, S) ==
  LET only[k \in 0 .. Len(s)] ==
        IF k = 0 THEN << >>
        ELSE IF s[k] \in S THEN Append(only[k - 1], s[k]) ELSE only[k - 1]
  IN  only[Len(s)]

\* The transition a step is published as.
Transition(step) ==
  [type |-> step.type, trigger |-> step.trigger, time |-> step.fields.time,
   blocked |-> IF step.type = "BLOCKED" THEN step.fields.blocked ELSE "NONE"]

Published(steps) == Only(steps, {step \in ToSet(steps) : step.type # "NONE"})

\* The published transitions and the final fields.
WalkResult(steps) ==
  LET shown == Published(steps)
  IN  [transitions |-> [k \in 1 .. Len(shown) |-> Transition(shown[k])],
       fields |-> LastFields(steps)]

-----------------------------------------------------------------------------
\* _resolve_final_gates: the first gate that fails cancels, then every gate
\* passed confirms, otherwise the setup is blocked.
ResolveFinalGates(e) ==
  LET aligned == e.direction = "ALIGNED" /\ e.framework = "ALIGNED" /\ e.session = "ACTIVE"
  IN  IF e.liquidity # "PRESENT"
      THEN [kind |-> "CANCEL", reason |-> "NO_LIQUIDITY_EVIDENCE"]
      ELSE IF "MISALIGNED" \in {e.direction, e.framework}
      THEN [kind |-> "CANCEL", reason |-> "CONTEXT_REJECTED"]
      ELSE IF e.session = "INACTIVE"
      THEN [kind |-> "CANCEL", reason |-> "SESSION_INACTIVE"]
      ELSE IF e.volume = "FAILS"
      THEN [kind |-> "CANCEL", reason |-> "VOLUME_PILLAR_FAILED"]
      ELSE IF FormationTimeframe /\ aligned /\ e.volume = "SUPPORTS"
      THEN [kind |-> "CONFIRM", reason |-> "NONE"]
      ELSE [kind |-> "BLOCKED",
            reason |-> IF ~ FormationTimeframe THEN "FORMATION_TIMEFRAME_NOT_CONFIRMED"
                       ELSE IF ~ aligned THEN "CONTEXT_UNKNOWN"
                       ELSE "VOLUME_REVIEW_PENDING"]

\* The step the evidence leads to.  Evidence later than the reaction does not
\* block a setup again but makes it resume forming.
Resolve(steps, outcome, reviewed, time, trigger, late) ==
  IF outcome.kind = "CANCEL"
  THEN Emit(steps, outcome.reason, trigger, time,
            [primary |-> "BTMM_CANCELLED", cancel |-> outcome.reason, reviewed |-> reviewed,
             blocked |-> "NONE"])
  ELSE IF outcome.kind = "CONFIRM"
  THEN Emit(steps, "CONFIRMED", trigger, time,
            [primary |-> "BTMM_CONFIRMED", reviewed |-> reviewed, blocked |-> "NONE"])
  ELSE IF late
  THEN Emit(steps, "RESUMED_FORMING", trigger, time,
            [primary |-> "BTMM_FORMING", reviewed |-> reviewed, blocked |-> "NONE"])
  ELSE Emit(steps, "BLOCKED", trigger, time,
            [primary |-> "BTMM_BLOCKED", reviewed |-> reviewed, blocked |-> outcome.reason])

\* The final gates, at the time t of the close of the reaction window.
FinalGates(steps, t, evidence) ==
  IF evidence = NoEvidence
  THEN Emit(steps, "NO_LIQUIDITY_EVIDENCE", NoTrigger, t, Cancelled("NO_LIQUIDITY_EVIDENCE"))
  ELSE IF evidence.time > t
  THEN Resolve(Emit(steps, "BLOCKED", NoTrigger, t,
                    [primary |-> "BTMM_BLOCKED", blocked |-> "LIQUIDITY_REVIEW_PENDING"]),
               ResolveFinalGates(evidence), evidence.time,
               evidence.time, Reviewed(evidence.time), TRUE)
  ELSE Resolve(steps, ResolveFinalGates(evidence), evidence.time, t, NoTrigger, FALSE)

\* A false invalidation of the source POI is automatic liquidity evidence: a
\* step of its own that publishes nothing.
WithAutomaticEvidence(steps, events) ==
  IF \E k \in 1 .. Len(events) : events[k].type = "FALSE_INVALIDATION_CONFIRMED"
  THEN Append(steps, [type |-> "NONE", trigger |-> NoTrigger,
                      fields |-> [LastFields(steps) EXCEPT !.automatic = TRUE]])
  ELSE steps

\* The gates; REACTION_GATE_CONFIRMED changes the status of its gate only.
AfterReaction(steps, tier, close, events, evidence) ==
  LET Gate(type, change, from) == Emit(from, type, Candle(close), TimeOf(close), change)
      passed == Gate("REACTION_GATE_CONFIRMED", [time |-> TimeOf(close)], steps)
  IN  IF tier = "weak" THEN Gate("WEAK_REACTION", Cancelled("WEAK_REACTION"), steps)
      ELSE IF tier = "slow"
      THEN Gate("REACTION_SPEED_FAILED", Cancelled("REACTION_SPEED_FAILED"), passed)
      ELSE FinalGates(
             WithAutomaticEvidence(
               Gate("REACTION_SPEED_GATE_CONFIRMED", [stage |-> "FINAL_GATE_EVALUATION"], passed),
               events),
             TimeOf(close), evidence)

AfterInteraction(steps, found, events, evidence) ==
  IF found.class # "ELIGIBLE"
  THEN Emit(steps, "INTERACTION_INELIGIBLE", Candle(found.interaction),
            TimeOf(found.interaction), Cancelled("INTERACTION_INELIGIBLE"))
  ELSE LET eligible == Emit(steps, "ACCURACY_GATE_CONFIRMED", Candle(found.interaction),
                            TimeOf(found.interaction), [stage |-> "REACTION_MONITORING"])
       IN  IF found.close = None THEN eligible
           ELSE AfterReaction(eligible, found.tier, found.close, events, evidence)

\* The steps, given what the price scans found: the forming candle, the
\* interaction and its class, the close of the reaction window and its tier.
Steps(found, available, events, evidence) ==
  IF found.forming = None THEN <<InitialStep(available)>>
  ELSE LET forming == Emit(<<InitialStep(available)>>, "ENTERED_FORMING", Candle(found.forming),
                           TimeOf(found.forming),
                           [primary |-> "BTMM_FORMING", stage |-> "POI_INTERACTION"])
       IN  IF found.interaction = None THEN forming
           ELSE AfterInteraction(forming, found, events, evidence)

\* The earliest genuine invalidation, None if there is none.
GenuineAt(events) ==
  LET at == {events[k].at : k \in {i \in 1 .. Len(events) :
               events[i].type = "GENUINE_INVALIDATION_CONFIRMED"}}
  IN  IF at = {} THEN None ELSE CHOOSE i \in at : \A j \in at : i <= j

\* Mutant: a rejected setup keeps nothing of its walk.
KeptBeforeNothing(steps, time) == SubSeq(steps, 1, 1)

\* The steps before the time of an invalidation, up to the first that is not.
KeptBefore(steps, time) ==
  SubSeq(steps, 1, CHOOSE n \in 1 .. Len(steps) :
                     /\ \A k \in 2 .. n : steps[k].fields.time < time
                     /\ n < Len(steps) => steps[n + 1].fields.time >= time)

\* A genuine invalidation of the source POI rewrites the walk from its time on.
RejectIfInvalidated(steps, at) ==
  IF at = None THEN steps
  ELSE IF LastFields(KeptBefore(steps, TimeOf(at))).primary = "BTMM_CANCELLED"
  THEN KeptBefore(steps, TimeOf(at))
  ELSE Emit(KeptBefore(steps, TimeOf(at)), "POI_REJECTED", Candle(at), TimeOf(at),
            [primary |-> "BTMM_CANCELLED", cancel |-> "POI_REJECTED", blocked |-> "NONE"])

Cascade(found, available, events, evidence) ==
  WalkResult(RejectIfInvalidated(Steps(found, available, events, evidence), GenuineAt(events)))

-----------------------------------------------------------------------------
(***************************************************************************)
(* The price scans of the batch walk over h, each from the last one's find.*)
(***************************************************************************)
FirstOf(S) == IF S = {} THEN None ELSE CHOOSE x \in S : \A y \in S : x <= y

FormingIndex(h, available) == FirstOf({k \in 0 .. Len(h) - 1 : TimeOf(k) > available})

\* find_first_interaction
InteractionIndex(h, forming) ==
  IF forming = None THEN None
  ELSE FirstOf({k \in forming .. Len(h) - 1 : h[k + 1].touch # "none"})

\* The class of an interaction, given the price before it.
ClassOf(touch, prior) ==
  IF prior = "inside" THEN "NONCANONICAL_SIDE_INTERACTION"
  ELSE IF touch = "overshoot" THEN "EXCESSIVE_OVERSHOOT" ELSE "ELIGIBLE"

InteractionClass(h, interaction) ==
  IF interaction = None THEN "NONE"
  ELSE ClassOf(h[interaction + 1].touch,
               IF interaction = 0 THEN h[1].open ELSE h[interaction].close)

\* find_reaction_start, where the interaction is eligible.
ReactionStart(h, interaction, class) ==
  IF class # "ELIGIBLE" THEN None
  ELSE FirstOf({k \in interaction + 1 .. Len(h) - 1 : h[k + 1].close = "clear"})

\* compute_reaction_anchor over the candles from the interaction to the start.
ReactionAnchor(h, interaction, start) ==
  LET extremes == {h[k + 1].extreme : k \in interaction .. start}
  IN  CHOOSE x \in extremes : \A y \in extremes : x <= y

WindowClose(h, start) ==
  IF start = None \/ Len(h) - start < WindowBars THEN None ELSE start + WindowBars - 1

Found(forming, interaction, class, close, tier) ==
  [forming |-> forming, interaction |-> interaction, class |-> class,
   close |-> close, tier |-> tier]

ScanWindow(h, forming, interaction, class, start) ==
  Found(forming, interaction, class, WindowClose(h, start),
        IF WindowClose(h, start) = None THEN "NONE"
        ELSE EvaluateReaction(ReactionAnchor(h, interaction, start),
                              SubSeq(h, start + 1, start + WindowBars)))

ScanReaction(h, forming, interaction, class) ==
  ScanWindow(h, forming, interaction, class, ReactionStart(h, interaction, class))

ScanInteraction(h, forming, interaction) ==
  ScanReaction(h, forming, interaction, InteractionClass(h, interaction))

ScanForming(h, forming) == ScanInteraction(h, forming, InteractionIndex(h, forming))

Scan(h, available) == ScanForming(h, FormingIndex(h, available))

\* run_btmm_lifecycle
RunBtmmLifecycle(h, available, events, evidence) ==
  Cascade(Scan(h, available), available, events, evidence)
=============================================================================

----------------------------- MODULE BtmmCursor -----------------------------
(***************************************************************************)
(* The resumable cursor of btmm/lifecycle_cursor.py.  It is fed one candle *)
(* at a time and tests it for the price scan that is open only, keeping    *)
(* what the earlier scans found; everything after the price scans is       *)
(* recomputed from what was found and the current evidence.                *)
(***************************************************************************)
EXTENDS BtmmLifecycle

Cursor ==
  [total : Nat,                      \* candles fed so far
   prior : Side \cup {"none"},       \* the close of the last one (prev_candle)
   forming : Nat \cup {None},        \* entered_forming_index
   interaction : Nat \cup {None},    \* interaction_index
   class : {"NONE", "ELIGIBLE", "EXCESSIVE_OVERSHOOT", "NONCANONICAL_SIDE_INTERACTION"},
   anchor : Int,                     \* running_anchor; final once start is known
   start : Nat \cup {None},          \* reaction_start_index
   window : Seq(BtmmView),           \* window_candles
   close : Nat \cup {None},          \* index of window_close_candle
   tier : Tier \cup {"NONE"}]        \* tier_result

CreateCursor ==
  [total |-> 0, prior |-> "none", forming |-> None, interaction |-> None, class |-> "NONE",
   anchor |-> 0, start |-> None, window |-> << >>, close |-> None, tier |-> "NONE"]

\* Stage 1: the first candle strictly after the candidate's availability.
EnterForming(c, available) ==
  IF c.forming = None /\ TimeOf(c.total) > available
  THEN [c EXCEPT !.forming = c.total] ELSE c

\* Mutant: the zone may be touched before the setup is forming.
InteractEarly(c, v) ==
  IF c.interaction = None /\ v.touch # "none"
  THEN [c EXCEPT !.interaction = c.total, !.anchor = v.extreme,
                 !.class = ClassOf(v.touch, IF c.total = 0 THEN v.open ELSE c.prior)]
  ELSE c

\* The interaction of a class, which seeds the anchor of an eligible one.
Interacted(c, v, class) ==
  [c EXCEPT !.interaction = c.total, !.class = class,
            !.anchor = IF class = "ELIGIBLE" THEN v.extreme ELSE @]

\* Stage 2: the first candle from there on that touches the zone.
Interact(c, v) ==
  IF c.forming # None /\ c.interaction = None /\ v.touch # "none"
  THEN Interacted(c, v, ClassOf(v.touch, IF c.total = 0 THEN v.open ELSE c.prior))
  ELSE c

AtMost(a, b) == IF a <= b THEN a ELSE b

\* Mutant: the candle that starts the reaction is left out of the anchor.
StartReactionAnchorsBefore(c, v) ==
  IF c.class = "ELIGIBLE" /\ c.start = None /\ c.total > c.interaction
  THEN IF v.close = "clear" THEN [c EXCEPT !.start = c.total]
       ELSE [c EXCEPT !.anchor = AtMost(@, v.extreme)]
  ELSE c

\* Stage 3: from the candle after it on, the first to close clear of the zone.
StartReaction(c, v) ==
  IF c.class = "ELIGIBLE" /\ c.start = None /\ c.total > c.interaction
  THEN [c EXCEPT !.anchor = AtMost(@, v.extreme),
                 !.start = IF v.close = "clear" THEN c.total ELSE None]
  ELSE c

\* Stage 4: the window from that candle on, evaluated once when it is full.
FillWindow(c, v) ==
  IF c.start # None /\ c.close = None
  THEN IF Len(c.window) + 1 = WindowBars
       THEN [c EXCEPT !.window = Append(@, v), !.close = c.total,
                      !.tier = EvaluateReaction(c.anchor, Append(c.window, v))]
       ELSE [c EXCEPT !.window = Append(@, v)]
  ELSE c

MoveOn(c, v) == [c EXCEPT !.total = @ + 1, !.prior = v.close]

\* advance_btmm_cursor
AdvanceCursor(c, v, available) ==
  MoveOn(FillWindow(StartReaction(Interact(EnterForming(c, available), v), v), v), v)

-----------------------------------------------------------------------------
\* materialize_btmm_cursor: the cascade over what the cursor found.
MaterializeCursor(c, available, events, evidence) ==
  Cascade(Found(c.forming, c.interaction, c.class, c.close, c.tier),
          available, events, evidence)

\* Mutant: a cursor that waits for its reaction to start may be skipped.
DormantBeforeReaction(c) == c.start = None \/ c.close # None

\* btmm_cursor_is_fast_forwardable
Dormant(c) == c.interaction = None \/ c.class # "ELIGIBLE" \/ c.close # None

\* fast_forward_btmm_cursor, where its assertion holds: v is the last of the
\* candles skipped.
FastForward(c, v, target) ==
  IF target = c.total THEN c ELSE [c EXCEPT !.total = target, !.prior = v.close]

\* The cursor of a setup fed every candle of h.
FeedAll(h, available) ==
  LET fed[k \in 0 .. Len(h)] ==
        IF k = 0 THEN CreateCursor ELSE AdvanceCursor(fed[k - 1], h[k], available)
  IN  fed[Len(h)]
=============================================================================

---------------------------- MODULE StructureWalk ----------------------------
(***************************************************************************)
(* The market structure walk: the fold of structure/transitions.py over    *)
(* candles, swings becoming visible and relationships between swings, in   *)
(* the order of their availability.  The code spells every case out for    *)
(* highs and for lows; here both are one case, by the side of the swing.   *)
(*                                                                         *)
(* The walk reads of a swing its identifier, type, price, pivot index and  *)
(* availability: a seen swing is the record of those five.                 *)
(***************************************************************************)
EXTENDS Integers, Sequences, SequencesExt, FiniteSetsExt

NoSwing == [type |-> "NONE"]     \* the absent swing, the code's None

Sides == {"SWING_HIGH", "SWING_LOW"}
Other(side) == IF side = "SWING_HIGH" THEN "SWING_LOW" ELSE "SWING_HIGH"

Undetermined == "UNDETERMINED"
\* The direction in which the structure breaks swings of a side as it goes
\* on, and the side that direction continues through.
Toward(side) == IF side = "SWING_HIGH" THEN "BULLISH" ELSE "BEARISH"
Ahead(direction) == IF direction = "BULLISH" THEN "SWING_HIGH" ELSE "SWING_LOW"
Behind(direction) == Other(Ahead(direction))

CandleEvent(index, close) == [kind |-> 0, at |-> index, index |-> index, close |-> close]

\* Mutant: a swing takes part from its pivot on, before it is confirmed.
SwingEventAtPivot(swing) == [kind |-> 1, at |-> swing.index, swing |-> swing]

SwingEvent(swing) == [kind |-> 1, at |-> swing.at, swing |-> swing]

RelationshipEvent(label, current, predecessor) ==
  [kind |-> 2, at |-> Max({current.at, predecessor.at}), label |-> label,
   swing |-> current, predecessor |-> predecessor.id]

InitialWalk ==
  [direction |-> Undetermined,
   protected |-> [side \in Sides |-> NoSwing],
   weak |-> [side \in Sides |-> NoSwing],
   broken |-> {},
   boundary |-> [side \in Sides |-> 0],          \* the code's -1, before the first candle
   label |-> [side \in Sides |-> "NONE"],
   latest |-> [side \in Sides |-> NoSwing],
   visible |-> [side \in Sides |-> {}],
   transitions |-> <<>>,
   lastChange |-> 0]                             \* the code's None

-----------------------------------------------------------------------------
(* A candle that closes beyond a level breaks it: the protected swing      *)
(* behind (a change of character) before the weak swing ahead (a break of  *)
(* structure).                                                             *)

ClosesBeyond(side, close, swing) ==
  IF side = "SWING_HIGH" THEN close > swing.price ELSE close < swing.price

Unbroken(w, side, broken) == {s \in w.visible[side] : s.id \notin broken}

MostRecent(swings) ==
  CHOOSE s \in swings : \A t \in swings : s.index >= t.index

Transition(type, w, after, swing, protected, e) ==
  [type |-> type, before |-> w.direction, after |-> after, broken |-> swing.id,
   level |-> swing.price, close |-> e.close, protected |-> protected.id,
   candle |-> e.index, at |-> Max({e.at, swing.at})]

BreaksProtected(w, e) ==
  /\ w.direction # Undetermined
  /\ w.protected[Behind(w.direction)] # NoSwing
  /\ ClosesBeyond(Behind(w.direction), e.close, w.protected[Behind(w.direction)])

BreaksWeak(w, e) ==
  /\ w.direction # Undetermined
  /\ w.weak[Ahead(w.direction)] # NoSwing
  /\ ClosesBeyond(Ahead(w.direction), e.close, w.weak[Ahead(w.direction)])

\* Mutant: the weak swings survive a change of character.
ChangeCharacterKeepsWeak(w, e) ==
  LET behind == Behind(w.direction)
      broken == w.protected[behind]
      spare  == Unbroken(w, Other(behind), w.broken)
      t      == Transition("CHOCH", w, Toward(behind), broken, MostRecent(spare), e)
  IN  IF spare = {}
        THEN w
        ELSE [w EXCEPT !.direction = Toward(behind),
                       !.protected = [side \in Sides |->
                                        IF side = behind THEN NoSwing ELSE MostRecent(spare)],
                       !.broken = @ \cup {broken.id},
                       !.boundary[behind] = e.index,
                       !.transitions = Append(@, t),
                       !.lastChange = t.at]

\* Nothing at all changes when the other side has no unbroken swing to protect.
ChangeCharacter(w, e) ==
  LET behind == Behind(w.direction)
      broken == w.protected[behind]
      spare  == Unbroken(w, Other(behind), w.broken)
      t      == Transition("CHOCH", w, Toward(behind), broken, MostRecent(spare), e)
  IN  IF spare = {}
        THEN w
        ELSE [w EXCEPT !.direction = Toward(behind),
                       !.protected = [side \in Sides |->
                                        IF side = behind THEN NoSwing ELSE MostRecent(spare)],
                       !.weak = [side \in Sides |-> NoSwing],
                       !.broken = @ \cup {broken.id},
                       !.boundary[behind] = e.index,
                       !.transitions = Append(@, t),
                       !.lastChange = t.at]

\* The protected swing stays when there is no unbroken one to replace it.
BreakStructure(w, e) ==
  LET ahead  == Ahead(w.direction)
      behind == Behind(w.direction)
      broken == w.weak[ahead]
      spare  == Unbroken(w, behind, w.broken \cup {broken.id})
      protected == IF spare = {} THEN w.protected[behind] ELSE MostRecent(spare)
      t      == Transition("BOS", w, w.direction, broken, protected, e)
  IN  [w EXCEPT !.protected[behind] = protected,
                !.weak[ahead] = NoSwing,
                !.broken = @ \cup {broken.id},
                !.boundary[ahead] = e.index,
                !.transitions = Append(@, t),
                !.lastChange = t.at]

StepCandle(w, e) ==
  IF BreaksProtected(w, e)
    THEN ChangeCharacter(w, e)
    ELSE IF BreaksWeak(w, e) THEN BreakStructure(w, e) ELSE w

-----------------------------------------------------------------------------
(* A swing that becomes visible is the next weak one if its side has none  *)
(* and its pivot is past the last break; relationships only give the       *)
(* direction its first value.                                              *)

StepSwing(w, e) ==
  LET s == e.swing
      seen == [w EXCEPT !.visible[s.type] = @ \cup {s}]
  IN  IF /\ w.direction # Undetermined
         /\ s.type = Ahead(w.direction)
         /\ w.weak[s.type] = NoSwing
         /\ s.index > w.boundary[s.type]
         /\ s.id \notin w.broken
        THEN [seen EXCEPT !.weak[s.type] = s, !.lastChange = Max({@, s.at})]
        ELSE seen

\* The direction the latest relationships of both sides agree on.
Agreed(label) ==
  CASE label = [side \in Sides |-> "HIGHER"] -> "BULLISH"
    [] label = [side \in Sides |-> "LOWER"]  -> "BEARISH"
    [] OTHER -> Undetermined

StepRelationship(w, e) ==
  LET noted == [w EXCEPT !.label[e.swing.type] = e.label, !.latest[e.swing.type] = e.swing]
      agreed == Agreed(noted.label)
  IN  IF w.direction # Undetermined \/ agreed = Undetermined
        THEN noted
        ELSE [noted EXCEPT !.direction = agreed,
                           !.protected[Behind(agreed)] = noted.latest[Behind(agreed)],
                           !.weak[Ahead(agreed)] = noted.latest[Ahead(agreed)],
                           !.lastChange = e.at]

ProcessEvent(w, e) ==
  CASE e.kind = 0 -> StepCandle(w, e)
    [] e.kind = 1 -> StepSwing(w, e)
    [] e.kind = 2 -> StepRelationship(w, e)

\* The walk from w on, after each number of the events.
WalkFrom(w, events) ==
  LET walk[k \in 0..Len(events)] ==
        IF k = 0 THEN w ELSE ProcessEvent(walk[k - 1], events[k])
  IN  walk

-----------------------------------------------------------------------------
(* What the walk relies on at every event: a directed structure protects a *)
(* swing behind it and nothing ahead (BreakStructure asserts the first),   *)
(* has a weak swing only ahead, and a broken swing is neither again; each  *)
(* swing is broken at most once, by one transition.                        *)
WalkConsistent(w) ==
  /\ w.direction # Undetermined =>
       /\ w.protected[Behind(w.direction)] # NoSwing
       /\ w.protected[Ahead(w.direction)] = NoSwing
       /\ w.weak[Behind(w.direction)] = NoSwing
  /\ w.direction = Undetermined => w.broken = {}
  /\ \A side \in Sides :
       /\ w.protected[side] # NoSwing => w.protected[side].id \notin w.broken
       /\ w.weak[side] # NoSwing => w.weak[side].id \notin w.broken
  /\ \A k, l \in DOMAIN w.transitions :
       w.transitions[k].broken = w.transitions[l].broken => k = l
  /\ \A k \in DOMAIN w.transitions : w.transitions[k].broken \in w.broken
=============================================================================

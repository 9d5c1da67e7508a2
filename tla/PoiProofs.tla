------------------------------ MODULE PoiProofs ------------------------------
(***************************************************************************)
(* The POI cursor, alone and in the scheduler.                             *)
(*                                                                         *)
(* Lemmas about the cursor: what its walk returns, that feeding and        *)
(* fast-forwarding keep it well formed, and the law the scheduler rests    *)
(* on, that a dormant cursor cannot tell a quiet candle from being         *)
(* fast-forwarded over it.                                                 *)
(*                                                                         *)
(* Then the law of poi/lifecycle_cursor.py itself: a cursor that answers   *)
(* for a stream (Tracks) answers, fed one candle more, for the longer one, *)
(* with the batch engine's walk of it (AdvanceTracks).  What the cursor    *)
(* has committed is a state of the batch walk that no later candle changes *)
(* (Settled), and the walk of what is behind it is the batch walk from     *)
(* there on, shifted.                                                      *)
(*                                                                         *)
(* The cursor fed any stream: at every prefix its answer is the batch      *)
(* engine's, what it has committed is never withdrawn, it replays a short  *)
(* suffix only, and the answer withdraws nothing but the verdict of a      *)
(* window that was still open.  All for a displacement window of at most   *)
(* the reclaim window and one; a longer one breaks the law (see README).   *)
(*                                                                         *)
(* The scheduler's invariants, and that it implements the engine that      *)
(* advances every cursor, for any number of POIs, any zones, any candles   *)
(* and any windows; and the breach index that wakes its cursors.           *)
(***************************************************************************)
EXTENDS PoiScheduler, PoiCursorFeed, PoiBreachIndex, NaturalProofs, SequenceTheorems

-----------------------------------------------------------------------------
\* Least is the least element of a set.
LEMMA LeastIn ==
  ASSUME NEW S \in SUBSET Nat, S # {}
  PROVE  Least(S) \in S /\ \A y \in S : Least(S) <= y
BY LeastNat DEF Least

-----------------------------------------------------------------------------
\* What one iteration of the loop may return, from index i of a suffix of length n.
Steps(i, n) ==
  [trans : Seq(Transitions), status : Status, next : i + 1 .. n,
   terminal : BOOLEAN, complete : BOOLEAN]

LEMMA TransitionType ==
  ASSUME NEW type \in Event, NEW at \in Nat
  PROVE  Transition(type, at) \in Transitions
BY DEF Transition, Transitions

LEMMA QuietStepType ==
  ASSUME NEW n \in Nat, NEW i \in 0 .. n - 1, NEW status \in Status
  PROVE  QuietStep(i, status) \in Steps(i, n)
BY DEF QuietStep, Steps

LEMMA ReclaimedStepType ==
  ASSUME NEW s \in Seq(View), NEW base \in Nat, NEW i \in 0 .. Len(s) - 1,
         NEW j \in i + 1 .. Len(s) - 1
  PROVE  ReclaimedStep(s, base, i, j) \in Steps(i, Len(s))
<1> DEFINE end  == AtMost(j + 1 + DisplacementWindow, Len(s))
           hits == {k \in j + 1 .. end - 1 : Displaces(s[k + 1]) /\ k - j \in s[k + 1].fast}
           head == <<Transition("CLOSE_BREACH_CANDIDATE", base + i),
                     Transition("RECLAIM_CONFIRMED", base + j)>>
           tail == <<Transition("DISPLACEMENT_AFTER_RECLAIM_CONFIRMED", base + Least(hits)),
                     Transition("FALSE_INVALIDATION_CONFIRMED", base + Least(hits))>>
           none == Transition("RECLAIM_WITHOUT_DISPLACEMENT", base + j)
           complete == j + 1 + DisplacementWindow <= Len(s)
<1>1. /\ "CLOSE_BREACH_CANDIDATE" \in Event /\ "RECLAIM_CONFIRMED" \in Event
      /\ "DISPLACEMENT_AFTER_RECLAIM_CONFIRMED" \in Event
      /\ "FALSE_INVALIDATION_CONFIRMED" \in Event /\ "FALSE_INVALIDATION_CONFIRMED" \in Status
      /\ "RECLAIM_WITHOUT_DISPLACEMENT" \in Event /\ "RECLAIM_WITHOUT_DISPLACEMENT" \in Status
  BY DEF Event, Status
<1>2. head \in Seq(Transitions) /\ none \in Transitions
  <2>1. base + i \in Nat /\ base + j \in Nat
    OBVIOUS
  <2>2. /\ Transition("CLOSE_BREACH_CANDIDATE", base + i) \in Transitions
        /\ Transition("RECLAIM_CONFIRMED", base + j) \in Transitions
        /\ none \in Transitions
    BY <1>1, <2>1, TransitionType
  <2> QED BY <2>2
<1>3. ASSUME hits # {} PROVE tail \in Seq(Transitions)
  <2>1. hits \in SUBSET Nat
    OBVIOUS
  <2>2. Least(hits) \in Nat
    BY <1>3, <2>1, LeastIn
  <2>3. base + Least(hits) \in Nat
    BY <2>2
  <2>4. /\ Transition("DISPLACEMENT_AFTER_RECLAIM_CONFIRMED", base + Least(hits)) \in Transitions
        /\ Transition("FALSE_INVALIDATION_CONFIRMED", base + Least(hits)) \in Transitions
    BY <1>1, <2>3, TransitionType
  <2> QED BY <2>4
<1>4. j + 1 \in i + 1 .. Len(s) /\ complete \in BOOLEAN
  OBVIOUS
<1>5. ReclaimedStep(s, base, i, j) =
        IF hits # {}
        THEN [trans |-> head \o tail, status |-> "FALSE_INVALIDATION_CONFIRMED",
              next |-> j + 1, terminal |-> FALSE, complete |-> TRUE]
        ELSE [trans |-> Append(head, none), status |-> "RECLAIM_WITHOUT_DISPLACEMENT",
              next |-> j + 1, terminal |-> FALSE, complete |-> complete]
  BY DEF ReclaimedStep
<1> HIDE DEF hits, head, tail, none, complete
<1>6. CASE hits # {}
  <2>1. head \o tail \in Seq(Transitions)
    BY <1>2, <1>3, <1>6
  <2> QED BY <2>1, <1>1, <1>4, <1>5, <1>6 DEF Steps
<1>7. CASE hits = {}
  <2>1. Append(head, none) \in Seq(Transitions)
    BY <1>2
  <2> QED BY <2>1, <1>1, <1>4, <1>5, <1>7 DEF Steps
<1> QED BY <1>6, <1>7

LEMMA UnreclaimedStepType ==
  ASSUME NEW s \in Seq(View), NEW base \in Nat, NEW i \in 0 .. Len(s) - 1,
         NEW end \in i + 1 .. Len(s)
  PROVE  UnreclaimedStep(s, base, i, end) \in Steps(i, Len(s))
<1> DEFINE window  == i + 1 .. end - 1
           head    == <<Transition("CLOSE_BREACH_CANDIDATE", base + i)>>
           genuine == /\ Cardinality(window) = ReclaimWindow
                      /\ Cardinality({k \in window : Breaches(s[k + 1])}) >= 2
                      /\ Breaches(s[end])
           type    == IF genuine THEN "GENUINE_INVALIDATION_CONFIRMED" ELSE "RECLAIM_FAILED"
           complete == i + 1 + ReclaimWindow <= Len(s)
<1>1. /\ "CLOSE_BREACH_CANDIDATE" \in Event /\ "CLOSE_BREACH_CANDIDATE" \in Status
      /\ type \in Event /\ type \in Status
  BY DEF Event, Status
<1>2. head \in Seq(Transitions) /\ Transition(type, base + end - 1) \in Transitions
  <2>1. base + i \in Nat /\ base + end - 1 \in Nat
    OBVIOUS
  <2>2. Transition("CLOSE_BREACH_CANDIDATE", base + i) \in Transitions
    BY <1>1, <2>1, TransitionType
  <2>3. Transition(type, base + end - 1) \in Transitions
    BY <1>1, <2>1, TransitionType
  <2> QED BY <2>2, <2>3
<1>3. UnreclaimedStep(s, base, i, end) =
        [trans |-> IF window = {} THEN head ELSE Append(head, Transition(type, base + end - 1)),
         status |-> IF window = {} THEN "CLOSE_BREACH_CANDIDATE" ELSE type,
         next |-> end, terminal |-> genuine, complete |-> complete]
  BY DEF UnreclaimedStep
<1>4. genuine \in BOOLEAN /\ complete \in BOOLEAN
  OBVIOUS
<1> HIDE DEF window, head, genuine, type, complete
<1>5. Append(head, Transition(type, base + end - 1)) \in Seq(Transitions)
  BY <1>2
<1> QED BY <1>1, <1>2, <1>3, <1>4, <1>5 DEF Steps

LEMMA LoopStepType ==
  ASSUME NEW s \in Seq(View), NEW base \in Nat, NEW i \in 0 .. Len(s) - 1,
         NEW status \in Status
  PROVE  LoopStep(s, base, i, status) \in Steps(i, Len(s))
<1> DEFINE end      == AtMost(i + 1 + ReclaimWindow, Len(s))
           reclaims == {j \in i + 1 .. end - 1 : Reclaims(s[j + 1])}
<1>1. end \in i + 1 .. Len(s)
  BY WindowAssumption DEF AtMost
<1>2. ASSUME reclaims # {}
      PROVE  Least(reclaims) \in i + 1 .. Len(s) - 1
  <2>1. reclaims \in SUBSET Nat /\ reclaims \subseteq i + 1 .. Len(s) - 1
    BY <1>1
  <2> QED BY <1>2, <2>1, LeastIn
<1>3. LoopStep(s, base, i, status) =
        IF ~ Breaches(s[i + 1]) THEN QuietStep(i, status)
        ELSE IF reclaims # {} THEN ReclaimedStep(s, base, i, Least(reclaims))
        ELSE UnreclaimedStep(s, base, i, end)
  BY DEF LoopStep
<1> HIDE DEF end, reclaims
<1> QED
  BY <1>1, <1>2, <1>3, QuietStepType, ReclaimedStepType, UnreclaimedStepType
-----------------------------------------------------------------------------
\* The states of the inner walk over a suffix of length n.
Walks(n) ==
  {w \in [loop : [i : 0 .. n, status : Status, trans : Seq(Transitions),
                  terminal : BOOLEAN, last : Nat \cup {None}],
          provisional : BOOLEAN, boundary : 0 .. n, status : Status, count : Nat] :
     w.count <= Len(w.loop.trans)}

LEMMA WalkStartType ==
  ASSUME NEW n \in Nat, NEW status \in Status
  PROVE  WalkStart(status) \in Walks(n)
BY DEF WalkStart, InnerState, LoopState, Walks

LEMMA WalkStepType ==
  ASSUME NEW s \in Seq(View), NEW base \in Nat, NEW p \in Walks(Len(s))
  PROVE  WalkStep(s, base, p) \in Walks(Len(s))
<1> DEFINE n == Len(s)
           step == LoopStep(s, base, p.loop.i, p.loop.status)
           trans == p.loop.trans \o step.trans
           loop == LoopState(step.next, step.status, trans, step.terminal, p.loop.i)
<1>1. CASE p.loop.i >= n \/ p.loop.terminal
  BY <1>1 DEF WalkStep
<1>2. CASE ~ (p.loop.i >= n \/ p.loop.terminal)
  <2>1. p.loop.i \in 0 .. n - 1 /\ p.loop.status \in Status /\ p.loop.trans \in Seq(Transitions)
    BY <1>2 DEF Walks
  <2>2. step \in Steps(p.loop.i, n)
    BY <2>1, LoopStepType
  <2>3. /\ step.trans \in Seq(Transitions) /\ step.status \in Status
        /\ step.next \in 0 .. n /\ step.terminal \in BOOLEAN
    BY <2>1, <2>2 DEF Steps
  <2>4. trans \in Seq(Transitions) /\ Len(trans) = Len(p.loop.trans) + Len(step.trans)
    BY <2>1, <2>3
  <2>5. /\ loop \in [i : 0 .. n, status : Status, trans : Seq(Transitions),
                     terminal : BOOLEAN, last : Nat \cup {None}]
        /\ loop.trans = trans
    <3> HIDE DEF step, trans
    <3> QED BY <2>1, <2>3, <2>4 DEF LoopState
  <2>6. /\ p.boundary \in 0 .. n /\ p.status \in Status
        /\ p.count \in Nat /\ p.count <= Len(p.loop.trans)
    BY DEF Walks
  <2>0. p.count <= Len(trans) /\ Len(trans) \in Nat
    <3>1. Len(step.trans) \in Nat /\ Len(p.loop.trans) \in Nat
      BY <2>1, <2>3
    <3> DEFINE before == Len(p.loop.trans)
               added == Len(step.trans)
               after == Len(trans)
    <3>2. before \in Nat /\ added \in Nat /\ after = before + added
          /\ p.count \in Nat /\ p.count <= before
      BY <2>4, <2>6, <3>1
    <3> HIDE DEF before, added, after
    <3>3. p.count <= after /\ after \in Nat
      BY <3>2, SMTT(60)
    <3> QED BY <3>3 DEF after
  <2>7. WalkStep(s, base, p) =
          IF p.provisional \/ ~ step.complete
          THEN InnerState(loop, TRUE, p.boundary, p.status, p.count)
          ELSE InnerState(loop, FALSE, step.next, step.status, Len(trans))
    BY <1>2, <2>5 DEF WalkStep, InnerStep, Absorb, Looped
  <2> HIDE DEF step, trans, loop
  <2>8. InnerState(loop, TRUE, p.boundary, p.status, p.count) \in Walks(n)
    BY <2>0, <2>5, <2>6 DEF InnerState, Walks
  <2>9. InnerState(loop, FALSE, step.next, step.status, Len(trans)) \in Walks(n)
    BY <2>0, <2>3, <2>5 DEF InnerState, Walks
  <2> QED BY <2>7, <2>8, <2>9
<1> QED BY <1>1, <1>2

\* The recursive function of WalkInner exists, over every initial segment.
IsWalk(f, s, base, status, n) ==
  f = [k \in 0 .. n |-> IF k = 0 THEN WalkStart(status) ELSE WalkStep(s, base, f[k - 1])]

LEMMA WalkExists ==
  ASSUME NEW s, NEW base, NEW status, NEW n \in Nat
  PROVE  \E f : IsWalk(f, s, base, status, n)
<1> DEFINE S == {m \in Nat : \E f : IsWalk(f, s, base, status, m)}
<1>1. 0 \in S
  <2> DEFINE f == [k \in 0 .. 0 |-> WalkStart(status)]
  <2>1. IsWalk(f, s, base, status, 0)
    BY DEF IsWalk
  <2> QED BY <2>1
<1>2. ASSUME NEW m \in S PROVE m + 1 \in S
  <2>1. PICK f : IsWalk(f, s, base, status, m)
    OBVIOUS
  <2> DEFINE g == [k \in 0 .. m + 1 |->
                     IF k = m + 1 THEN WalkStep(s, base, f[m]) ELSE f[k]]
  <2>2. \A k \in 0 .. m + 1 :
          g[k] = IF k = 0 THEN WalkStart(status) ELSE WalkStep(s, base, g[k - 1])
    <3> SUFFICES ASSUME NEW k \in 0 .. m + 1
                 PROVE  g[k] = IF k = 0 THEN WalkStart(status) ELSE WalkStep(s, base, g[k - 1])
      OBVIOUS
    <3>1. CASE k = m + 1
      BY <3>1
    <3>2. CASE k \in 0 .. m
      <4>1. f[k] = IF k = 0 THEN WalkStart(status) ELSE WalkStep(s, base, f[k - 1])
        BY <2>1, <3>2 DEF IsWalk
      <4>2. g[k] = f[k] /\ (k # 0 => g[k - 1] = f[k - 1])
        BY <3>2
      <4> QED BY <4>1, <4>2
    <3> QED BY <3>1, <3>2
  <2>3. IsWalk(g, s, base, status, m + 1)
    <3>1. g = [k \in 0 .. m + 1 |-> g[k]]
      OBVIOUS
    <3> QED BY <2>2, <3>1 DEF IsWalk
  <2> QED BY <2>3
<1> HIDE DEF S
<1>3. S = Nat
  <2>1. S \in SUBSET Nat
    BY DEF S
  <2> QED BY <1>1, <1>2, <2>1, SetInduction
<1> QED BY <1>3 DEF S

LEMMA WalkInnerRun ==
  ASSUME NEW s \in Seq(View), NEW base, NEW status
  PROVE  \E f : IsWalk(f, s, base, status, Len(s)) /\ WalkInner(s, base, status) = f[Len(s)]
<1> DEFINE run == CHOOSE f : IsWalk(f, s, base, status, Len(s))
<1>1. IsWalk(run, s, base, status, Len(s))
  BY WalkExists
<1>2. WalkInner(s, base, status) = run[Len(s)]
  BY DEF WalkInner, IsWalk
<1> QED BY <1>1, <1>2

LEMMA WalkInnerType ==
  ASSUME NEW s \in Seq(View), NEW base \in Nat, NEW status \in Status
  PROVE  WalkInner(s, base, status) \in Walks(Len(s))
<1>1. PICK f : IsWalk(f, s, base, status, Len(s)) /\ WalkInner(s, base, status) = f[Len(s)]
  BY WalkInnerRun
<1> DEFINE S == {m \in Nat : m <= Len(s) => f[m] \in Walks(Len(s))}
<1>2. 0 \in S
  <2>1. f[0] = WalkStart(status)
    BY <1>1 DEF IsWalk
  <2> QED BY <2>1, WalkStartType
<1>3. ASSUME NEW m \in S PROVE m + 1 \in S
  <2> SUFFICES ASSUME m + 1 <= Len(s) PROVE f[m + 1] \in Walks(Len(s))
    OBVIOUS
  <2>1. f[m + 1] = WalkStep(s, base, f[m])
    BY <1>1 DEF IsWalk
  <2>2. f[m] \in Walks(Len(s))
    OBVIOUS
  <2> QED BY <2>1, <2>2, WalkStepType
<1> HIDE DEF S
<1>4. S = Nat
  <2>1. S \in SUBSET Nat
    BY DEF S
  <2> QED BY <1>2, <1>3, <2>1, SetInduction
<1> QED BY <1>1, <1>4 DEF S
-----------------------------------------------------------------------------
\* The walk of a single candle that does not breach finds nothing.
LEMMA QuietWalk ==
  ASSUME NEW v \in View, ~ Breaches(v), NEW base \in Nat, NEW status \in Status
  PROVE  WalkInner(<<v>>, base, status) =
           InnerState(LoopState(1, status, << >>, FALSE, 0), FALSE, 1, status, 0)
<1> DEFINE s == <<v>>
<1>1. s \in Seq(View) /\ Len(s) = 1 /\ s[1] = v
  OBVIOUS
<1>2. PICK f : IsWalk(f, s, base, status, Len(s)) /\ WalkInner(s, base, status) = f[Len(s)]
  BY <1>1, WalkInnerRun
<1> HIDE DEF s
<1>3. f[0] = WalkStart(status) /\ f[1] = WalkStep(s, base, f[0])
  BY <1>1, <1>2 DEF IsWalk
<1>4. LoopStep(s, base, 0, status) = QuietStep(0, status)
  BY <1>1 DEF LoopStep
<1>5. WalkStep(s, base, WalkStart(status)) = InnerStep(s, base, WalkStart(status))
  BY <1>1 DEF WalkStep, WalkStart, InnerState, LoopState
<1>6. InnerStep(s, base, WalkStart(status)) =
        InnerState(LoopState(1, status, << >>, FALSE, 0), FALSE, 1, status, 0)
  <2> DEFINE q == QuietStep(0, status)
             w == WalkStart(status)
  <2>1. /\ w.loop.i = 0 /\ w.loop.status = status /\ w.loop.trans = << >>
        /\ w.provisional = FALSE
    BY DEF WalkStart, InnerState, LoopState
  <2>2. /\ q.trans = << >> /\ q.status = status /\ q.next = 1
        /\ q.terminal = FALSE /\ q.complete = TRUE
    BY DEF QuietStep
  <2>3. << >> \o << >> = << >> /\ Len(<< >>) = 0
    OBVIOUS
  <2>4. LoopState(1, status, << >>, FALSE, 0).trans = << >>
    BY DEF LoopState
  <2> HIDE DEF q, w
  <2>5. InnerStep(s, base, w) = Absorb(w, q)
    BY <1>4, <2>1 DEF InnerStep, q
  <2>6. Looped(w, q) = LoopState(1, status, << >>, FALSE, 0)
    BY <2>1, <2>2, <2>3 DEF Looped
  <2>7. w.loop.trans \o q.trans = << >>
    BY <2>1, <2>2, <2>3
  <2>8. Absorb(w, q) = InnerState(Looped(w, q), FALSE, 1, status, Len(<< >>))
    BY <2>1, <2>2, <2>7, Zenon DEF Absorb
  <2> QED BY <2>3, <2>5, <2>6, <2>8 DEF w
<1>7. f[1] = WalkInner(s, base, status)
  BY <1>1, <1>2
<1> QED BY <1>3, <1>5, <1>6, <1>7 DEF s

-----------------------------------------------------------------------------
\* A cursor the code can hold: it has not started and has seen nothing, or its
\* buffer is the stream from its committed floor to its position.
WellFormed(c) ==
  /\ c \in Cursor
  /\ c.start = None => ~ c.terminal /\ ~ c.inTap /\ c.buffer = << >>
  /\ ~ c.terminal => c.resume + Len(c.buffer) = c.total
  /\ ~ c.terminal /\ c.start # None => c.start <= c.resume

LEMMA CreateWellFormed == WellFormed(CreateCursor) /\ CreateCursor.total = 0 /\ CreateCursor.start = None
BY DEF WellFormed, CreateCursor, Cursor, Status, None

\* A candle that leaves the cursor asleep: it neither starts it nor touches the
\* zone nor, while the walk is open, breaches it.
Quiet(c, v) ==
  IF c.start = None THEN ~ v.after
  ELSE ~ v.touch /\ (c.terminal \/ ~ Breaches(v))

LEMMA CountCandleType ==
  ASSUME NEW c, WellFormed(c), NEW v \in View
  PROVE  LET d == CountCandle(c, v) IN
         /\ d \in Cursor /\ d.total = c.total + 1
         /\ d.start = IF c.start = None /\ v.after THEN c.total ELSE c.start
         /\ d.resume = c.resume /\ d.buffer = c.buffer /\ d.terminal = c.terminal
         /\ d.status = c.status /\ d.committed = c.committed
         /\ d.terminalLast = c.terminalLast
         /\ (d.start = None => ~ d.inTap)
<1> DEFINE start == IF c.start = None /\ v.after THEN c.total ELSE c.start
           taps  == IF v.touch /\ ~ c.inTap THEN c.taps + 1 ELSE c.taps
<1>1. c \in Cursor /\ (c.start = None => ~ c.inTap)
  BY DEF WellFormed
<1>2. /\ c.total + 1 \in Nat /\ start \in Nat \cup {None} /\ taps \in Nat /\ v.touch \in BOOLEAN
  BY <1>1 DEF Cursor, View
<1>3. CountCandle(c, v) =
        IF start = None THEN [c EXCEPT !.total = c.total + 1]
        ELSE [c EXCEPT !.total = c.total + 1, !.start = start, !.taps = taps,
                       !.inTap = v.touch, !.tapNext = c.total + 1]
  BY DEF CountCandle
<1>4. start = None => c.start = None /\ start = c.start
  BY <1>1 DEF Cursor, None
<1> HIDE DEF start, taps
<1>5. CASE start = None
  BY <1>1, <1>2, <1>3, <1>4, <1>5 DEF Cursor, start
<1>6. CASE start # None
  <2>1. LET d == CountCandle(c, v) IN
        /\ d \in Cursor /\ d.total = c.total + 1 /\ d.start = start
        /\ d.resume = c.resume /\ d.buffer = c.buffer /\ d.terminal = c.terminal
        /\ d.status = c.status /\ d.committed = c.committed
        /\ d.terminalLast = c.terminalLast
    BY <1>1, <1>2, <1>3, <1>6, ZenonT(60) DEF Cursor
  <2> QED BY <2>1, <1>6 DEF start
<1> QED BY <1>5, <1>6

LEMMA WalkCandleType ==
  ASSUME NEW d \in Cursor, NEW v \in View, d.start # None, d.total > 0,
         d.resume + Len(d.buffer) = d.total - 1,
         d.start <= d.resume
  PROVE  LET w == WalkCandle(d, v).cursor IN
         /\ WellFormed(w) /\ w.total = d.total /\ w.start = d.start
<1> DEFINE buffer == Append(d.buffer, v)
           walk   == WalkInner(buffer, d.resume, d.status)
<1>1. /\ d.start \in Nat /\ d.total \in Nat /\ d.resume \in Nat /\ d.status \in Status
      /\ d.buffer \in Seq(View) /\ Len(d.buffer) \in Nat /\ d.committed \in Seq(Transitions)
  BY DEF Cursor
<1>2. buffer \in Seq(View) /\ Len(buffer) = Len(d.buffer) + 1
  BY <1>1
<1>3. ExtendBuffer(d, v, d.resume, d.total) = buffer
  <2> DEFINE offset == d.resume - (d.total - Len(buffer))
  <2>1. offset = 0
    BY <1>1, <1>2
  <2>2. ExtendBuffer(d, v, d.resume, d.total) =
          IF offset > 0 THEN SubSeq(buffer, offset + 1, Len(buffer)) ELSE buffer
    BY DEF ExtendBuffer
  <2> HIDE DEF offset, buffer
  <2> QED BY <2>1, <2>2
<1>4. walk \in Walks(Len(buffer))
  BY <1>1, <1>2, WalkInnerType
<1>5. /\ walk.boundary \in 0 .. Len(buffer) /\ walk.status \in Status
      /\ walk.count \in Nat /\ walk.count <= Len(walk.loop.trans)
      /\ walk.loop.trans \in Seq(Transitions) /\ walk.loop.status \in Status
      /\ walk.loop.last \in Nat \cup {None}
  <2> HIDE DEF walk
  <2> QED BY <1>4 DEF Walks
<1> DEFINE all   == d.committed \o walk.loop.trans
           kept  == d.committed \o SubSeq(walk.loop.trans, 1, walk.count)
           rest  == SubSeq(buffer, walk.boundary + 1, Len(buffer))
           last  == LastSeen(d.resume, walk.loop.last)
           floor == d.resume + walk.boundary
<1>6. /\ all \in Seq(Transitions) /\ kept \in Seq(Transitions)
      /\ rest \in Seq(View) /\ Len(rest) = Len(buffer) - walk.boundary
      /\ last \in Nat \cup {None} /\ floor \in Nat /\ floor >= d.resume
  <2> HIDE DEF walk, buffer
  <2>1. SubSeq(walk.loop.trans, 1, walk.count) \in Seq(Transitions)
    BY <1>5
  <2>2. all \in Seq(Transitions) /\ kept \in Seq(Transitions)
    BY <1>1, <1>5, <2>1
  <2>3. Len(buffer) \in Nat
    BY <1>2
  <2>4. rest \in Seq(View) /\ Len(rest) = Len(buffer) - walk.boundary
    BY <1>2, <1>5, <2>3, SMTT(60)
  <2>5. last \in Nat \cup {None}
    BY <1>1, <1>5, SMTT(60) DEF LastSeen, None
  <2>6. floor \in Nat /\ floor >= d.resume
    BY <1>1, <1>5
  <2> QED BY <2>2, <2>4, <2>5, <2>6
<1>7. WalkCandle(d, v).cursor =
        IF walk.loop.terminal
        THEN [d EXCEPT !.resume = floor, !.status = walk.loop.status, !.committed = all,
                       !.terminal = TRUE, !.terminalLast = last, !.buffer = << >>]
        ELSE [d EXCEPT !.resume = floor, !.status = walk.status, !.committed = kept,
                       !.buffer = rest]
  <2>1. ~ (d.resume < d.start)
    BY <1>1
  <2> QED BY <1>3, <2>1 DEF WalkCandle, Settle
<1> HIDE DEF walk, buffer, all, kept, rest, last, floor
<1> DEFINE w == WalkCandle(d, v).cursor
<1>8. CASE walk.loop.terminal
  <2> DEFINE none == << >>
  <2>0. none \in Seq(View)
    OBVIOUS
  <2>1. /\ w \in Cursor /\ w.total = d.total /\ w.start = d.start /\ w.terminal = TRUE
    <3>1. w = [d EXCEPT !.resume = floor, !.status = walk.loop.status, !.committed = all,
                        !.terminal = TRUE, !.terminalLast = last, !.buffer = none]
      BY <1>7, <1>8
    <3> HIDE DEF w, none
    <3> QED BY <1>5, <1>6, <2>0, <3>1 DEF Cursor
  <2> HIDE DEF w
  <2> QED BY <2>1 DEF WellFormed, w
<1>9. CASE ~ walk.loop.terminal
  <2>1. /\ w \in Cursor /\ w.total = d.total /\ w.start = d.start /\ w.resume = floor
        /\ w.buffer = rest
    BY <1>5, <1>6, <1>7, <1>9, ZenonT(60) DEF Cursor
  <2>2. floor + Len(rest) = d.total
    <3> DEFINE held == Len(d.buffer)
               length == Len(buffer)
               left == Len(rest)
    <3>1. /\ held \in Nat /\ length = held + 1 /\ left = length - walk.boundary
          /\ d.resume + held = d.total - 1
      BY <1>1, <1>2, <1>6
    <3>2. walk.boundary \in Int /\ d.resume \in Nat /\ d.total \in Nat
      BY <1>1, <1>5
    <3> HIDE DEF held, length, left
    <3>3. floor + left = d.total
      BY <3>1, <3>2 DEF floor
    <3> QED BY <3>3 DEF left
  <2>3. d.start <= floor
    BY <1>1, <1>6
  <2> HIDE DEF w
  <2> QED BY <2>1, <2>2, <2>3 DEF WellFormed, w
<1> QED BY <1>8, <1>9

LEMMA AdvanceWellFormed ==
  ASSUME NEW c, WellFormed(c), NEW v \in View
  PROVE  /\ WellFormed(AdvanceCursor(c, v).cursor)
         /\ AdvanceCursor(c, v).cursor.total = c.total + 1
<1> DEFINE d == CountCandle(c, v)
<1>1. /\ d \in Cursor /\ d.total = c.total + 1
      /\ d.start = IF c.start = None /\ v.after THEN c.total ELSE c.start
      /\ d.resume = c.resume /\ d.buffer = c.buffer /\ d.terminal = c.terminal
      /\ (d.start = None => ~ d.inTap)
  BY CountCandleType
<1>2. /\ c.total \in Nat /\ c.resume \in Nat /\ Len(c.buffer) \in Nat /\ c.total # None
      /\ c.start \in Nat \cup {None} /\ c.terminal \in BOOLEAN
      /\ c.start = None => ~ c.terminal /\ c.buffer = << >>
      /\ ~ c.terminal => c.resume + Len(c.buffer) = c.total
      /\ ~ c.terminal /\ c.start # None => c.start <= c.resume
  BY DEF WellFormed, Cursor, None
<1>3. AdvanceCursor(c, v).cursor =
        IF c.terminal THEN d
        ELSE IF d.start = None THEN [d EXCEPT !.resume = d.total]
        ELSE WalkCandle(d, v).cursor
  BY DEF AdvanceCursor
<1> HIDE DEF d
<1>4. CASE c.terminal
  BY <1>1, <1>2, <1>3, <1>4 DEF WellFormed
<1>5. CASE ~ c.terminal /\ d.start = None
  <2> DEFINE e == [d EXCEPT !.resume = d.total]
  <2>1. /\ e \in Cursor /\ e.total = c.total + 1 /\ e.start = None /\ e.resume = c.total + 1
        /\ e.buffer = << >> /\ e.terminal = d.terminal /\ e.inTap = d.inTap
    BY <1>1, <1>2, <1>5 DEF Cursor
  <2>2. Len(<< >>) = 0
    OBVIOUS
  <2>3. AdvanceCursor(c, v).cursor = e
    BY <1>3, <1>5
  <2> HIDE DEF e
  <2> QED BY <1>1, <1>2, <1>5, <2>1, <2>2, <2>3 DEF WellFormed
<1>6. CASE ~ c.terminal /\ d.start # None
  <2>1. Len(<< >>) = 0
    OBVIOUS
  <2>2. d.total > 0 /\ d.resume + Len(d.buffer) = d.total - 1
    BY <1>1, <1>2, <1>6
  <2>3. d.start <= d.resume
    BY <1>1, <1>2, <1>6, <2>1
  <2>4. AdvanceCursor(c, v).cursor = WalkCandle(d, v).cursor
    BY <1>3, <1>6
  <2> QED BY <1>1, <1>6, <2>2, <2>3, <2>4, WalkCandleType
<1> QED BY <1>2, <1>4, <1>5, <1>6

-----------------------------------------------------------------------------
\* Fast-forwarding, where the code asserts it may be done.

LEMMA FastForwardWellFormed ==
  ASSUME NEW c, WellFormed(c), NEW target \in Nat, target >= c.total,
         target = c.total \/ Dormant(c)
  PROVE  LET f == FastForward(c, target) IN
         /\ WellFormed(f) /\ f.total = target
         /\ f.start = c.start /\ f.terminal = c.terminal
         /\ f.inTap = c.inTap /\ f.buffer = c.buffer
         /\ Dormant(c) => Dormant(f)
<1> DEFINE f == FastForward(c, target)
<1>1. CASE target = c.total
  BY <1>1 DEF FastForward
<1>2. CASE target # c.total /\ c.terminal
  <2>1. f = [c EXCEPT !.total = target, !.tapNext = target]
    BY <1>2 DEF FastForward
  <2> HIDE DEF f
  <2>2. /\ f \in Cursor /\ f.total = target /\ f.start = c.start /\ f.terminal = c.terminal
        /\ f.inTap = c.inTap /\ f.buffer = c.buffer /\ c.start # None
    BY <1>2, <2>1 DEF WellFormed, Cursor
  <2> QED BY <1>2, <2>2 DEF WellFormed, Dormant, f
<1>3. CASE target # c.total /\ ~ c.terminal
  <2>1. /\ c \in Cursor /\ c.buffer = << >> /\ (c.start # None => c.resume = c.total)
        /\ (c.start # None => c.start <= c.resume)
    BY <1>3 DEF WellFormed, Dormant
  <2>2. f = IF c.start = None THEN [c EXCEPT !.total = target, !.resume = target]
            ELSE [c EXCEPT !.total = target, !.tapNext = target, !.resume = target]
    BY <1>3 DEF FastForward
  <2> HIDE DEF f
  <2>3. /\ f \in Cursor /\ f.total = target /\ f.start = c.start /\ f.terminal = c.terminal
        /\ f.inTap = c.inTap /\ f.buffer = c.buffer /\ f.resume = target
    BY <1>3, <2>1, <2>2 DEF Cursor
  <2>4. Len(<< >>) = 0 /\ target + 0 = target
    OBVIOUS
  <2>5. f.start # None => f.start <= f.resume
    BY <2>1, <2>3 DEF Cursor
  <2>6. WellFormed(f)
    BY <1>3, <2>1, <2>3, <2>4, <2>5 DEF WellFormed
  <2>7. Dormant(c) => Dormant(f)
    BY <1>3, <2>3 DEF Dormant
  <2> QED BY <2>3, <2>6, <2>7 DEF f
<1> QED BY <1>1, <1>2, <1>3

\* A later position is reached in one leap or in two.
LEMMA FastForwardTwice ==
  ASSUME NEW c, WellFormed(c), Dormant(c),
         NEW t \in Nat, NEW u \in Nat, c.total <= t, t < u
  PROVE  FastForward(FastForward(c, t), u) = FastForward(c, u)
<1> DEFINE f == FastForward(c, t)
<1>1. /\ c \in Cursor /\ c.total \in Nat /\ u # c.total
  BY DEF WellFormed, Cursor
<1>2. CASE t = c.total
  BY <1>2 DEF FastForward
<1>3. CASE t # c.total /\ c.terminal
  <2>1. f = [c EXCEPT !.total = t, !.tapNext = t]
    BY <1>3 DEF FastForward
  <2>2. FastForward(f, u) = [f EXCEPT !.total = u, !.tapNext = u]
    BY <1>1, <1>3, <2>1 DEF FastForward, Cursor
  <2>3. FastForward(c, u) = [c EXCEPT !.total = u, !.tapNext = u]
    BY <1>1, <1>3 DEF FastForward
  <2> QED BY <1>1, <2>1, <2>2, <2>3, ZenonT(60) DEF Cursor
<1>4. CASE t # c.total /\ ~ c.terminal /\ c.start = None
  <2>1. f = [c EXCEPT !.total = t, !.resume = t]
    BY <1>4 DEF FastForward
  <2>2. FastForward(f, u) = [f EXCEPT !.total = u, !.resume = u]
    BY <1>1, <1>4, <2>1 DEF FastForward, Cursor
  <2>3. FastForward(c, u) = [c EXCEPT !.total = u, !.resume = u]
    BY <1>1, <1>4 DEF FastForward
  <2> QED BY <1>1, <2>1, <2>2, <2>3, ZenonT(60) DEF Cursor
<1>5. CASE t # c.total /\ ~ c.terminal /\ c.start # None
  <2>1. f = [c EXCEPT !.total = t, !.tapNext = t, !.resume = t]
    BY <1>5 DEF FastForward
  <2>2. FastForward(f, u) = [f EXCEPT !.total = u, !.tapNext = u, !.resume = u]
    BY <1>1, <1>5, <2>1 DEF FastForward, Cursor
  <2>3. FastForward(c, u) = [c EXCEPT !.total = u, !.tapNext = u, !.resume = u]
    BY <1>1, <1>5 DEF FastForward
  <2> QED BY <1>1, <2>1, <2>2, <2>3, ZenonT(60) DEF Cursor
<1> QED BY <1>2, <1>3, <1>4, <1>5

\* Over a quiet candle a dormant cursor at its head ends as if it had been
\* fast-forwarded, and its result is what is read from it there.
LEMMA QuietAdvance ==
  ASSUME NEW c, WellFormed(c), Dormant(c), NEW v \in View, Quiet(c, v)
  PROVE  LET f == FastForward(c, c.total + 1) IN
         AdvanceCursor(c, v) = [cursor |-> f, result |-> CursorWalkResult(f)]
<1> DEFINE f == FastForward(c, c.total + 1)
           d == CountCandle(c, v)
<1>1. /\ c \in Cursor /\ c.total \in Nat /\ c.total + 1 # c.total /\ c.total # None
      /\ c.terminal \in BOOLEAN /\ c.committed \in Seq(Transitions)
      /\ c.status \in Status
      /\ c.start = None => ~ c.terminal /\ ~ c.inTap
  BY DEF WellFormed, Cursor, None
<1>2. CASE c.start = None
  <2>1. d = [c EXCEPT !.total = c.total + 1]
    BY <1>2 DEF CountCandle, Quiet
  <2>2. f = [c EXCEPT !.total = c.total + 1, !.resume = c.total + 1]
    BY <1>1, <1>2 DEF FastForward
  <2>3. AdvanceCursor(c, v) =
          [cursor |-> [d EXCEPT !.resume = d.total], result |-> Result(<< >>, "NO_BREACH", d, None)]
    BY <1>1, <1>2, <2>1 DEF AdvanceCursor, Cursor
  <2>4. [d EXCEPT !.resume = d.total] = f
    BY <1>1, <2>1, <2>2 DEF Cursor
  <2>5. CursorWalkResult(f) = Result(<< >>, "NO_BREACH", f, None)
    BY <1>1, <1>2, <2>2 DEF CursorWalkResult, Cursor
  <2>6. f.taps = d.taps /\ f.start = d.start /\ f.total = d.total
    BY <1>1, <2>1, <2>2, ZenonT(60) DEF Cursor
  <2>7. Result(<< >>, "NO_BREACH", f, None) = Result(<< >>, "NO_BREACH", d, None)
    BY <2>6 DEF Result
  <2> QED BY <2>3, <2>4, <2>5, <2>7
<1>3. ASSUME c.start # None
      PROVE  /\ d = [c EXCEPT !.total = c.total + 1, !.tapNext = c.total + 1]
             /\ ~ c.inTap /\ ~ v.touch
  <2>1. ~ v.touch /\ ~ c.inTap /\ c.inTap = FALSE /\ v.touch = FALSE
    BY <1>1, <1>3 DEF Dormant, Quiet, Cursor, View
  <2>2. d = [c EXCEPT !.total = c.total + 1, !.start = c.start, !.taps = c.taps,
                      !.inTap = FALSE, !.tapNext = c.total + 1]
    BY <1>1, <1>3, <2>1 DEF CountCandle
  <2> HIDE DEF d
  <2> QED BY <1>1, <2>1, <2>2 DEF Cursor
<1>4. CASE c.terminal
  <2>1. c.start # None
    BY <1>1, <1>4
  <2>2. d = f
    BY <1>1, <1>3, <1>4, <2>1 DEF FastForward
  <2>3. AdvanceCursor(c, v) =
          [cursor |-> d, result |-> Result(c.committed, "GENUINE_INVALIDATION_CONFIRMED",
                                           d, c.terminalLast)]
    BY <1>4 DEF AdvanceCursor
  <2>4. /\ d.terminal = c.terminal /\ d.committed = c.committed
        /\ d.terminalLast = c.terminalLast
    BY <1>1, <1>3, <2>1 DEF Cursor
  <2>5. CursorWalkResult(d) = Result(d.committed, "GENUINE_INVALIDATION_CONFIRMED",
                                     d, d.terminalLast)
    BY <1>4, <2>4 DEF CursorWalkResult
  <2> HIDE DEF d, f
  <2> QED BY <2>2, <2>3, <2>4, <2>5 DEF f
<1>5. CASE ~ c.terminal /\ c.start # None
  <2>1. /\ c.buffer = << >> /\ c.resume = c.total /\ c.start <= c.resume /\ ~ Breaches(v)
        /\ c.start \in Nat /\ c.resume \in Nat
    BY <1>1, <1>5 DEF WellFormed, Dormant, Quiet, Cursor
  <2>2. /\ d.total = c.total + 1 /\ d.resume = c.total /\ d.start = c.start
        /\ d.buffer = << >> /\ d.status = c.status /\ d.committed = c.committed
        /\ d.taps = c.taps
    BY <1>1, <1>3, <1>5, <2>1 DEF Cursor
  <2>3. AdvanceCursor(c, v) = WalkCandle(d, v)
    BY <1>5, <2>2 DEF AdvanceCursor
  <2> HIDE DEF d, f
  <2>4. ExtendBuffer(d, v, c.total, d.total) = <<v>>
    <3>1. Append(<< >>, v) = <<v>> /\ Len(<<v>>) = 1
      OBVIOUS
    <3>2. Append(d.buffer, v) = <<v>>
      BY <2>2, <3>1
    <3>3. ~ (c.total - (d.total - Len(<<v>>)) > 0)
      BY <1>1, <2>2, <3>1
    <3> QED BY <3>2, <3>3, Zenon DEF ExtendBuffer
  <2>5. WalkInner(<<v>>, c.total, c.status) =
          InnerState(LoopState(1, c.status, << >>, FALSE, 0), FALSE, 1, c.status, 0)
    BY <1>1, <2>1, QuietWalk
  <2> DEFINE walk == WalkInner(<<v>>, c.total, c.status)
  <2>6. /\ walk.loop.terminal = FALSE /\ walk.loop.trans = << >> /\ walk.loop.last = 0
        /\ walk.loop.status = c.status /\ walk.boundary = 1 /\ walk.status = c.status
        /\ walk.count = 0
    BY <2>5 DEF InnerState, LoopState
  <2>7. ~ (d.resume < d.start)
    BY <1>1, <2>1, <2>2
  <2> HIDE DEF walk
  <2>8. WalkCandle(d, v) =
          [cursor |-> [d EXCEPT !.resume = c.total + 1, !.status = c.status,
                         !.committed = @ \o SubSeq(<< >>, 1, 0),
                         !.buffer = SubSeq(<<v>>, 2, 1)],
           result |-> Result(c.committed \o << >>, c.status, d, LastSeen(c.total, 0))]
    <3>1. 1 + 1 = 2 /\ Len(<<v>>) = 1
      OBVIOUS
    <3> QED BY <2>2, <2>4, <2>6, <2>7, <3>1, ZenonT(60) DEF WalkCandle, Settle, walk
  <2>9. /\ c.committed \o SubSeq(<< >>, 1, 0) = c.committed /\ c.committed \o << >> = c.committed
        /\ SubSeq(<<v>>, 2, 1) = << >>
    BY <1>1
  <2>10. LastSeen(c.total, 0) = c.total
    BY <1>1 DEF LastSeen, None
  <2>11. [d EXCEPT !.resume = c.total + 1, !.status = c.status,
                   !.committed = @ \o SubSeq(<< >>, 1, 0), !.buffer = SubSeq(<<v>>, 2, 1)] =
           [d EXCEPT !.resume = c.total + 1, !.status = c.status,
                     !.committed = c.committed, !.buffer = << >>]
    BY <2>2, <2>9
  <2>12. f = [c EXCEPT !.total = c.total + 1, !.tapNext = c.total + 1, !.resume = c.total + 1]
    BY <1>1, <1>5 DEF FastForward, f
  <2>13. [d EXCEPT !.resume = c.total + 1, !.status = c.status,
                   !.committed = c.committed, !.buffer = << >>] = f
    BY <1>1, <1>3, <1>5, <2>1, <2>12 DEF Cursor
  <2>14. CursorWalkResult(f) = Result(c.committed, c.status, f, c.total)
    <3>1. /\ f.terminal = c.terminal /\ f.start = c.start /\ f.buffer = << >>
          /\ f.committed = c.committed /\ f.status = c.status /\ f.total = c.total + 1
      BY <1>1, <2>1, <2>12 DEF Cursor
    <3>2. f.total - 1 = c.total
      BY <1>1, <3>1
    <3>3. CursorWalkResult(f) = Result(f.committed, f.status, f, f.total - 1)
      BY <1>5, <3>1, Zenon DEF CursorWalkResult
    <3> QED BY <3>1, <3>2, <3>3, Zenon
  <2>15. Result(c.committed, c.status, d, c.total) = Result(c.committed, c.status, f, c.total)
    <3>1. f.taps = d.taps /\ f.start = d.start /\ f.total = d.total
      BY <1>1, <2>2, <2>12 DEF Cursor
    <3> QED BY <3>1 DEF Result
  <2> QED BY <2>3, <2>8, <2>9, <2>10, <2>11, <2>13, <2>14, <2>15 DEF f
<1> QED BY <1>2, <1>4, <1>5

-----------------------------------------------------------------------------
(***************************************************************************)
(* One iteration of the loop, told by the first candles it finds.          *)
(***************************************************************************)
ReclaimEnd(s, i)      == AtMost(i + 1 + ReclaimWindow, Len(s))
DisplacementEnd(s, j) == AtMost(j + 1 + DisplacementWindow, Len(s))

Hit(s, j, k) == Displaces(s[k + 1]) /\ k - j \in s[k + 1].fast

FirstReclaim(s, i, j) ==
  /\ j \in i + 1 .. ReclaimEnd(s, i) - 1 /\ Reclaims(s[j + 1])
  /\ \A k \in i + 1 .. j - 1 : ~ Reclaims(s[k + 1])

NoReclaim(s, i) == \A k \in i + 1 .. ReclaimEnd(s, i) - 1 : ~ Reclaims(s[k + 1])

FirstHit(s, j, k) ==
  /\ k \in j + 1 .. DisplacementEnd(s, j) - 1 /\ Hit(s, j, k)
  /\ \A m \in j + 1 .. k - 1 : ~ Hit(s, j, m)

NoHit(s, j) == \A k \in j + 1 .. DisplacementEnd(s, j) - 1 : ~ Hit(s, j, k)

\* The least element is the one that is below all.
LEMMA LeastIs ==
  ASSUME NEW S \in SUBSET Nat, NEW x \in S, \A y \in S : x <= y
  PROVE  Least(S) = x
<1>1. Least(S) \in S /\ \A y \in S : Least(S) <= y
  BY LeastIn
<1>2. Least(S) \in Nat /\ x \in Nat /\ Least(S) <= x /\ x <= Least(S)
  BY <1>1
<1> HIDE DEF Least
<1> QED BY <1>2

\* A breach is reclaimed at the first reclaim in its window, or not at all.
LEMMA BreachCases ==
  ASSUME NEW s \in Seq(View), NEW i \in 0 .. Len(s) - 1
  PROVE  NoReclaim(s, i) \/ \E j \in i + 1 .. Len(s) - 1 : FirstReclaim(s, i, j)
<1> DEFINE S == {j \in i + 1 .. ReclaimEnd(s, i) - 1 : Reclaims(s[j + 1])}
<1>1. Len(s) \in Nat /\ ReclaimEnd(s, i) \in Nat /\ ReclaimEnd(s, i) <= Len(s)
  BY WindowAssumption DEF ReclaimEnd, AtMost
<1>2. S \in SUBSET Nat
  BY <1>1
<1>3. CASE S = {}
  BY <1>3 DEF NoReclaim
<1>4. CASE S # {}
  <2>1. PICK j \in S : \A y \in S : j <= y
    BY <1>2, <1>4, LeastNat
  <2>2. \A k \in i + 1 .. j - 1 : k \in i + 1 .. ReclaimEnd(s, i) - 1 /\ k \notin S
    BY <1>1, <2>1
  <2>3. \A k \in i + 1 .. j - 1 : ~ Reclaims(s[k + 1])
    BY <2>2
  <2>4. FirstReclaim(s, i, j)
    BY <2>3 DEF FirstReclaim
  <2>5. j \in i + 1 .. Len(s) - 1
    BY <1>1
  <2> QED BY <2>4, <2>5
<1> QED BY <1>3, <1>4

\* A reclaim is displaced at the first fast leg in its window, or not at all.
LEMMA HitCases ==
  ASSUME NEW s \in Seq(View), NEW j \in 0 .. Len(s) - 1
  PROVE  NoHit(s, j) \/ \E k \in j + 1 .. Len(s) - 1 : FirstHit(s, j, k)
<1> DEFINE S == {k \in j + 1 .. DisplacementEnd(s, j) - 1 : Hit(s, j, k)}
<1>1. Len(s) \in Nat /\ DisplacementEnd(s, j) \in Nat /\ DisplacementEnd(s, j) <= Len(s)
  BY WindowAssumption DEF DisplacementEnd, AtMost
<1>2. S \in SUBSET Nat
  BY <1>1
<1>3. CASE S = {}
  BY <1>3 DEF NoHit
<1>4. CASE S # {}
  <2>1. PICK k \in S : \A y \in S : k <= y
    BY <1>2, <1>4, LeastNat
  <2>2. \A m \in j + 1 .. k - 1 : m \in j + 1 .. DisplacementEnd(s, j) - 1 /\ m \notin S
    BY <1>1, <2>1
  <2>4. FirstHit(s, j, k)
    BY <2>2 DEF FirstHit
  <2>3. k \in j + 1 .. Len(s) - 1
    BY <1>1
  <2> QED BY <2>3, <2>4
<1> QED BY <1>3, <1>4

Displaced(base, i, j, k) ==
  [trans |-> <<Transition("CLOSE_BREACH_CANDIDATE", base + i),
               Transition("RECLAIM_CONFIRMED", base + j)>> \o
             <<Transition("DISPLACEMENT_AFTER_RECLAIM_CONFIRMED", base + k),
               Transition("FALSE_INVALIDATION_CONFIRMED", base + k)>>,
   status |-> "FALSE_INVALIDATION_CONFIRMED", next |-> j + 1,
   terminal |-> FALSE, complete |-> TRUE]

Undisplaced(base, i, j, complete) ==
  [trans |-> Append(<<Transition("CLOSE_BREACH_CANDIDATE", base + i),
                      Transition("RECLAIM_CONFIRMED", base + j)>>,
                    Transition("RECLAIM_WITHOUT_DISPLACEMENT", base + j)),
   status |-> "RECLAIM_WITHOUT_DISPLACEMENT", next |-> j + 1,
   terminal |-> FALSE, complete |-> complete]

\* A breach that is displaced after its reclaim.
LEMMA StepDisplaced ==
  ASSUME NEW s \in Seq(View), NEW base, NEW i \in 0 .. Len(s) - 1, NEW status,
         Breaches(s[i + 1]), NEW j \in i + 1 .. Len(s) - 1, FirstReclaim(s, i, j),
         NEW k, FirstHit(s, j, k)
  PROVE  LoopStep(s, base, i, status) = Displaced(base, i, j, k)
<1> DEFINE reclaims == {m \in i + 1 .. ReclaimEnd(s, i) - 1 : Reclaims(s[m + 1])}
           hits == {m \in j + 1 .. DisplacementEnd(s, j) - 1 : Hit(s, j, m)}
<1>1. Len(s) \in Nat /\ ReclaimEnd(s, i) \in Nat /\ DisplacementEnd(s, j) \in Nat
  BY WindowAssumption DEF ReclaimEnd, DisplacementEnd, AtMost
<1>2. reclaims \in SUBSET Nat /\ j \in reclaims /\ \A y \in reclaims : j <= y
  BY <1>1 DEF FirstReclaim
<1>3. hits \in SUBSET Nat /\ k \in hits /\ \A y \in hits : k <= y
  BY <1>1 DEF FirstHit
<1> HIDE DEF reclaims, hits
<1>4. Least(reclaims) = j /\ Least(hits) = k
  BY <1>2, <1>3, LeastIs
<1>5. LoopStep(s, base, i, status) = ReclaimedStep(s, base, i, j)
  BY <1>2, <1>4, Zenon DEF LoopStep, reclaims, ReclaimEnd
<1>6. ReclaimedStep(s, base, i, j) = Displaced(base, i, j, k)
  BY <1>3, <1>4, Zenon DEF ReclaimedStep, Displaced, hits, DisplacementEnd, Hit
<1> QED BY <1>5, <1>6

\* A breach that is reclaimed without displacement.
LEMMA StepUndisplaced ==
  ASSUME NEW s \in Seq(View), NEW base, NEW i \in 0 .. Len(s) - 1, NEW status,
         Breaches(s[i + 1]), NEW j \in i + 1 .. Len(s) - 1, FirstReclaim(s, i, j), NoHit(s, j)
  PROVE  LoopStep(s, base, i, status)
           = Undisplaced(base, i, j, j + 1 + DisplacementWindow <= Len(s))
<1> DEFINE reclaims == {m \in i + 1 .. ReclaimEnd(s, i) - 1 : Reclaims(s[m + 1])}
           hits == {m \in j + 1 .. DisplacementEnd(s, j) - 1 : Hit(s, j, m)}
<1>1. Len(s) \in Nat /\ ReclaimEnd(s, i) \in Nat
  BY WindowAssumption DEF ReclaimEnd, AtMost
<1>2. reclaims \in SUBSET Nat /\ j \in reclaims /\ \A y \in reclaims : j <= y
  BY <1>1 DEF FirstReclaim
<1>3. hits = {}
  BY DEF NoHit
<1> HIDE DEF reclaims, hits
<1>4. Least(reclaims) = j
  BY <1>2, LeastIs
<1>5. LoopStep(s, base, i, status) = ReclaimedStep(s, base, i, j)
  BY <1>2, <1>4, Zenon DEF LoopStep, reclaims, ReclaimEnd
<1>6. ReclaimedStep(s, base, i, j)
        = Undisplaced(base, i, j, j + 1 + DisplacementWindow <= Len(s))
  BY <1>3, Zenon DEF ReclaimedStep, Undisplaced, hits, DisplacementEnd, Hit
<1> QED BY <1>5, <1>6

\* A breach that is not reclaimed in its window.
LEMMA StepUnreclaimed ==
  ASSUME NEW s \in Seq(View), NEW base, NEW i \in 0 .. Len(s) - 1, NEW status,
         Breaches(s[i + 1]), NoReclaim(s, i)
  PROVE  LoopStep(s, base, i, status) = UnreclaimedStep(s, base, i, ReclaimEnd(s, i))
<1> DEFINE reclaims == {m \in i + 1 .. ReclaimEnd(s, i) - 1 : Reclaims(s[m + 1])}
<1>1. reclaims = {}
  BY DEF NoReclaim
<1> HIDE DEF reclaims
<1> QED BY <1>1, Zenon DEF LoopStep, reclaims, ReclaimEnd

-----------------------------------------------------------------------------
(***************************************************************************)
(* A suffix of the stream is walked as the stream is from there on.        *)
(***************************************************************************)
Suffix(h, b) == SubSeq(h, b + 1, Len(h))

LEMMA SuffixType ==
  ASSUME NEW h \in Seq(View), NEW b \in 0 .. Len(h)
  PROVE  /\ Suffix(h, b) \in Seq(View) /\ Len(Suffix(h, b)) = Len(h) - b
         /\ \A k \in 0 .. Len(h) - b - 1 : Suffix(h, b)[k + 1] = h[b + k + 1]
<1>1. Len(h) \in Nat /\ \A i \in b + 1 .. Len(h) : h[i] \in View
  OBVIOUS
<1>2. /\ Suffix(h, b) \in Seq(View)
      /\ Len(Suffix(h, b)) = IF b + 1 <= Len(h) THEN Len(h) - (b + 1) + 1 ELSE 0
      /\ \A i \in 1 .. Len(h) - (b + 1) + 1 : Suffix(h, b)[i] = h[(b + 1) + i - 1]
  BY <1>1, SubSeqProperties DEF Suffix
<1>3. Len(Suffix(h, b)) = Len(h) - b
  BY <1>1, <1>2
<1>4. ASSUME NEW k \in 0 .. Len(h) - b - 1 PROVE Suffix(h, b)[k + 1] = h[b + k + 1]
  <2>1. k + 1 \in 1 .. Len(h) - (b + 1) + 1 /\ (b + 1) + (k + 1) - 1 = b + k + 1
    BY <1>1
  <2> QED BY <1>2, <2>1
<1> QED BY <1>2, <1>3, <1>4

LEMMA SuffixFacts ==
  ASSUME NEW h \in Seq(View), NEW b \in 0 .. Len(h), NEW s, s = Suffix(h, b)
  PROVE  /\ s \in Seq(View) /\ Len(h) \in Nat /\ Len(s) = Len(h) - b
         /\ \A k \in 0 .. Len(h) - b - 1 : s[k + 1] = h[b + k + 1]
<1>1. Len(h) \in Nat
  OBVIOUS
<1>2. /\ Suffix(h, b) \in Seq(View) /\ Len(Suffix(h, b)) = Len(h) - b
      /\ \A k \in 0 .. Len(h) - b - 1 : Suffix(h, b)[k + 1] = h[b + k + 1]
  BY SuffixType
<1> QED BY <1>1, <1>2, Zenon

\* Counting candles does not depend on where they are counted from.
LEMMA ShiftCount ==
  ASSUME NEW b \in Nat, NEW S \in SUBSET Nat, IsFiniteSet(S)
  PROVE  Cardinality({b + x : x \in S}) = Cardinality(S)
<1> DEFINE T == {b + x : x \in S}
           f == [x \in S |-> b + x]
<1>1. f \in [S -> T]
  OBVIOUS
<1>2. ASSUME NEW x \in S, NEW y \in S, f[x] = f[y] PROVE x = y
  BY <1>2
<1>3. \A t \in T : \E x \in S : f[x] = t
  OBVIOUS
<1>4. f \in Bijection(S, T)
  <2>1. IsInjective(f)
    BY <1>2 DEF IsInjective
  <2> HIDE DEF f, T
  <2> QED BY <1>1, <1>2, <1>3, <2>1 DEF Bijection, Injection, Surjection
<1>5. ExistsBijection(S, T)
  BY <1>4 DEF ExistsBijection
<1> QED BY <1>5, FS_Bijection

LEMMA ShiftReclaim ==
  ASSUME NEW h \in Seq(View), NEW b \in 0 .. Len(h), NEW s, s = Suffix(h, b),
         NEW i \in 0 .. Len(s) - 1
  PROVE  /\ ReclaimEnd(h, b + i) = b + ReclaimEnd(s, i)
         /\ NoReclaim(s, i) => NoReclaim(h, b + i)
         /\ \A j \in i + 1 .. Len(s) - 1 : FirstReclaim(s, i, j) => FirstReclaim(h, b + i, b + j)
<1>1. /\ Len(h) \in Nat /\ Len(s) = Len(h) - b
      /\ \A k \in 0 .. Len(h) - b - 1 : s[k + 1] = h[b + k + 1]
  BY SuffixFacts
<1>2. ReclaimEnd(h, b + i) = b + ReclaimEnd(s, i)
  BY <1>1, WindowAssumption DEF ReclaimEnd, AtMost
<1>3. ReclaimEnd(s, i) \in Nat /\ ReclaimEnd(s, i) <= Len(s)
  BY <1>1, WindowAssumption DEF ReclaimEnd, AtMost
<1>4. ASSUME NEW k \in b + i + 1 .. ReclaimEnd(h, b + i) - 1
      PROVE  k - b \in i + 1 .. ReclaimEnd(s, i) - 1 /\ s[(k - b) + 1] = h[k + 1]
  <2>1. k - b \in i + 1 .. ReclaimEnd(s, i) - 1
    BY <1>2, <1>3
  <2>2. k - b \in 0 .. Len(h) - b - 1 /\ b + (k - b) + 1 = k + 1
    BY <1>1, <1>3, <2>1
  <2> QED BY <1>1, <2>1, <2>2
<1>5. NoReclaim(s, i) => NoReclaim(h, b + i)
  <2> SUFFICES ASSUME NoReclaim(s, i), NEW k \in b + i + 1 .. ReclaimEnd(h, b + i) - 1
               PROVE  ~ Reclaims(h[k + 1])
    BY DEF NoReclaim
  <2> QED BY <1>4 DEF NoReclaim
<1>6. ASSUME NEW j \in i + 1 .. Len(s) - 1, FirstReclaim(s, i, j)
      PROVE  FirstReclaim(h, b + i, b + j)
  <2>1. b + j \in b + i + 1 .. ReclaimEnd(h, b + i) - 1
    BY <1>1, <1>2, <1>3, <1>6 DEF FirstReclaim
  <2>2. (b + j) - b = j
    BY <1>1
  <2>3. Reclaims(h[(b + j) + 1])
    BY <1>4, <1>6, <2>1, <2>2 DEF FirstReclaim
  <2>4. ASSUME NEW k \in b + i + 1 .. b + j - 1 PROVE ~ Reclaims(h[k + 1])
    <3>1. k \in b + i + 1 .. ReclaimEnd(h, b + i) - 1 /\ k - b \in i + 1 .. j - 1
      BY <1>1, <1>2, <1>3, <2>1
    <3>2. ~ Reclaims(s[(k - b) + 1])
      BY <1>6, <3>1 DEF FirstReclaim
    <3> QED BY <1>4, <3>1, <3>2
  <2> QED BY <2>1, <2>3, <2>4 DEF FirstReclaim
<1> QED BY <1>2, <1>5, <1>6

LEMMA ShiftHit ==
  ASSUME NEW h \in Seq(View), NEW b \in 0 .. Len(h), NEW s, s = Suffix(h, b),
         NEW j \in 0 .. Len(s) - 1
  PROVE  /\ NoHit(s, j) => NoHit(h, b + j)
         /\ \A k \in j + 1 .. Len(s) - 1 : FirstHit(s, j, k) => FirstHit(h, b + j, b + k)
<1>1. /\ Len(h) \in Nat /\ Len(s) = Len(h) - b
      /\ \A k \in 0 .. Len(h) - b - 1 : s[k + 1] = h[b + k + 1]
  BY SuffixFacts
<1>2. DisplacementEnd(h, b + j) = b + DisplacementEnd(s, j)
  BY <1>1, WindowAssumption DEF DisplacementEnd, AtMost
<1>3. DisplacementEnd(s, j) \in Nat /\ DisplacementEnd(s, j) <= Len(s)
  BY <1>1, WindowAssumption DEF DisplacementEnd, AtMost
<1>4. ASSUME NEW k \in b + j + 1 .. DisplacementEnd(h, b + j) - 1
      PROVE  /\ k - b \in j + 1 .. DisplacementEnd(s, j) - 1
             /\ Hit(h, b + j, k) <=> Hit(s, j, k - b)
  <2>1. k - b \in j + 1 .. DisplacementEnd(s, j) - 1
    BY <1>2, <1>3
  <2>2. k - b \in 0 .. Len(h) - b - 1 /\ b + (k - b) + 1 = k + 1 /\ (k - b) - j = k - (b + j)
    BY <1>1, <1>3, <2>1
  <2>3. s[(k - b) + 1] = h[k + 1]
    BY <1>1, <2>2
  <2> QED BY <2>1, <2>2, <2>3 DEF Hit
<1>5. NoHit(s, j) => NoHit(h, b + j)
  <2> SUFFICES ASSUME NoHit(s, j), NEW k \in b + j + 1 .. DisplacementEnd(h, b + j) - 1
               PROVE  ~ Hit(h, b + j, k)
    BY DEF NoHit
  <2> QED BY <1>4 DEF NoHit
<1>6. ASSUME NEW k \in j + 1 .. Len(s) - 1, FirstHit(s, j, k)
      PROVE  FirstHit(h, b + j, b + k)
  <2>1. b + k \in b + j + 1 .. DisplacementEnd(h, b + j) - 1
    BY <1>1, <1>2, <1>3, <1>6 DEF FirstHit
  <2>2. (b + k) - b = k
    BY <1>1
  <2>3. Hit(h, b + j, b + k)
    BY <1>4, <1>6, <2>1, <2>2 DEF FirstHit
  <2>4. ASSUME NEW m \in b + j + 1 .. b + k - 1 PROVE ~ Hit(h, b + j, m)
    <3>1. m \in b + j + 1 .. DisplacementEnd(h, b + j) - 1 /\ m - b \in j + 1 .. k - 1
      BY <1>1, <1>2, <1>3, <2>1
    <3>2. ~ Hit(s, j, m - b)
      BY <1>6, <3>1 DEF FirstHit
    <3> QED BY <1>4, <3>1, <3>2
  <2> QED BY <2>1, <2>3, <2>4 DEF FirstHit
<1> QED BY <1>5, <1>6

\* The verdict on a window that is not reclaimed.
Genuine(s, i, end) ==
  /\ Cardinality(i + 1 .. end - 1) = ReclaimWindow
  /\ Cardinality({k \in i + 1 .. end - 1 : Breaches(s[k + 1])}) >= 2
  /\ Breaches(s[end])

LEMMA ShiftGenuine ==
  ASSUME NEW h \in Seq(View), NEW b \in 0 .. Len(h), NEW s, s = Suffix(h, b),
         NEW i \in 0 .. Len(s) - 1, NEW end \in i + 1 .. Len(s)
  PROVE  /\ Genuine(h, b + i, b + end) <=> Genuine(s, i, end)
         /\ (b + i + 1 .. (b + end) - 1 = {}) <=> (i + 1 .. end - 1 = {})
<1>1. /\ Len(h) \in Nat /\ Len(s) = Len(h) - b
      /\ \A k \in 0 .. Len(h) - b - 1 : s[k + 1] = h[b + k + 1]
  BY SuffixFacts
<1> DEFINE W == i + 1 .. end - 1
           S == {k \in W : Breaches(s[k + 1])}
           V == b + i + 1 .. (b + end) - 1
           T == {k \in V : Breaches(h[k + 1])}
<1>2. V = {b + x : x \in W}
  <2>1. \A k \in V : k - b \in W /\ b + (k - b) = k
    BY <1>1
  <2>2. \A x \in W : b + x \in V
    BY <1>1
  <2> HIDE DEF V, W
  <2> QED BY <2>1, <2>2
<1>3. T = {b + x : x \in S}
  <2>1. \A k \in V : k - b \in W /\ b + (k - b) = k /\ s[(k - b) + 1] = h[k + 1]
    BY <1>1
  <2>2. \A x \in W : b + x \in V /\ x \in 0 .. Len(h) - b - 1 /\ (b + x) + 1 = b + x + 1
    BY <1>1
  <2>3. \A x \in W : b + x \in V /\ s[x + 1] = h[(b + x) + 1]
    BY <1>1, <2>2
  <2> HIDE DEF V, W
  <2> QED BY <2>1, <2>3
<1>4. W \in SUBSET Nat /\ S \in SUBSET Nat /\ IsFiniteSet(W) /\ IsFiniteSet(S) /\ b \in Nat
  <2>1. W \in SUBSET Nat /\ S \in SUBSET W /\ b \in Nat
    BY <1>1
  <2>2. i + 1 \in Int /\ end - 1 \in Int
    BY <1>1
  <2>3. IsFiniteSet(W)
    BY <2>2, FS_Interval
  <2>4. IsFiniteSet(S)
    BY <2>1, <2>3, FS_Subset
  <2> HIDE DEF W, S
  <2> QED BY <2>1, <2>3, <2>4
<1>5. Breaches(h[b + end]) <=> Breaches(s[end])
  <2>1. end - 1 \in 0 .. Len(h) - b - 1 /\ (end - 1) + 1 = end /\ b + (end - 1) + 1 = b + end
    BY <1>1
  <2>2. s[end] = h[b + end]
    BY <1>1, <2>1
  <2> QED BY <2>2
<1>6. Cardinality(V) = Cardinality(W) /\ Cardinality(T) = Cardinality(S)
  <2> HIDE DEF V, W, S, T
  <2> QED BY <1>2, <1>3, <1>4, ShiftCount
<1>7. V = {} <=> W = {}
  BY <1>2
<1>8. /\ Genuine(s, i, end) <=> (Cardinality(W) = ReclaimWindow /\ Cardinality(S) >= 2 /\ Breaches(s[end]))
      /\ Genuine(h, b + i, b + end)
           <=> (Cardinality(V) = ReclaimWindow /\ Cardinality(T) >= 2 /\ Breaches(h[b + end]))
  BY Zenon DEF Genuine
<1> QED BY <1>5, <1>6, <1>7, <1>8, Zenon

Verdict(genuine) == IF genuine THEN "GENUINE_INVALIDATION_CONFIRMED" ELSE "RECLAIM_FAILED"

Unreclaimed(base, i, end, empty, genuine, complete) ==
  [trans |-> IF empty THEN <<Transition("CLOSE_BREACH_CANDIDATE", base + i)>>
             ELSE Append(<<Transition("CLOSE_BREACH_CANDIDATE", base + i)>>,
                         Transition(Verdict(genuine), base + (end - 1))),
   status |-> IF empty THEN "CLOSE_BREACH_CANDIDATE" ELSE Verdict(genuine),
   next |-> end, terminal |-> genuine, complete |-> complete]

LEMMA UnreclaimedIs ==
  ASSUME NEW s, NEW base, NEW i, NEW end
  PROVE  UnreclaimedStep(s, base, i, end)
           = Unreclaimed(base, i, end, i + 1 .. end - 1 = {}, Genuine(s, i, end),
                         i + 1 + ReclaimWindow <= Len(s))
BY Zenon DEF UnreclaimedStep, Unreclaimed, Genuine, Verdict

\* The fields of each kind of step.
DisplacedTrans(i, j, k) ==
  <<Transition("CLOSE_BREACH_CANDIDATE", i), Transition("RECLAIM_CONFIRMED", j)>> \o
  <<Transition("DISPLACEMENT_AFTER_RECLAIM_CONFIRMED", k),
    Transition("FALSE_INVALIDATION_CONFIRMED", k)>>

UndisplacedTrans(i, j) ==
  Append(<<Transition("CLOSE_BREACH_CANDIDATE", i), Transition("RECLAIM_CONFIRMED", j)>>,
         Transition("RECLAIM_WITHOUT_DISPLACEMENT", j))

UnreclaimedTrans(i, last, empty, genuine) ==
  IF empty THEN <<Transition("CLOSE_BREACH_CANDIDATE", i)>>
  ELSE Append(<<Transition("CLOSE_BREACH_CANDIDATE", i)>>, Transition(Verdict(genuine), last))

LEMMA QuietFields ==
  ASSUME NEW i, NEW status
  PROVE  /\ QuietStep(i, status).trans = << >> /\ QuietStep(i, status).status = status
         /\ QuietStep(i, status).next = i + 1
         /\ ~ QuietStep(i, status).terminal /\ QuietStep(i, status).complete
BY DEF QuietStep

LEMMA DisplacedFields ==
  ASSUME NEW base, NEW i, NEW j, NEW k
  PROVE  /\ Displaced(base, i, j, k).trans = DisplacedTrans(base + i, base + j, base + k)
         /\ Displaced(base, i, j, k).status = "FALSE_INVALIDATION_CONFIRMED"
         /\ Displaced(base, i, j, k).next = j + 1
         /\ ~ Displaced(base, i, j, k).terminal /\ Displaced(base, i, j, k).complete
BY Zenon DEF Displaced, DisplacedTrans

LEMMA UndisplacedFields ==
  ASSUME NEW base, NEW i, NEW j, NEW complete
  PROVE  /\ Undisplaced(base, i, j, complete).trans = UndisplacedTrans(base + i, base + j)
         /\ Undisplaced(base, i, j, complete).status = "RECLAIM_WITHOUT_DISPLACEMENT"
         /\ Undisplaced(base, i, j, complete).next = j + 1
         /\ ~ Undisplaced(base, i, j, complete).terminal
         /\ Undisplaced(base, i, j, complete).complete <=> complete
BY Zenon DEF Undisplaced, UndisplacedTrans

UnreclaimedStatus(empty, genuine) ==
  IF empty THEN "CLOSE_BREACH_CANDIDATE" ELSE Verdict(genuine)

LEMMA UnreclaimedFields ==
  ASSUME NEW base, NEW i, NEW end, NEW empty, NEW genuine, NEW complete
  PROVE  /\ Unreclaimed(base, i, end, empty, genuine, complete).trans
              = UnreclaimedTrans(base + i, base + (end - 1), empty, genuine)
         /\ Unreclaimed(base, i, end, empty, genuine, complete).status
              = UnreclaimedStatus(empty, genuine)
         /\ Unreclaimed(base, i, end, empty, genuine, complete).next = end
         /\ Unreclaimed(base, i, end, empty, genuine, complete).terminal = genuine
         /\ Unreclaimed(base, i, end, empty, genuine, complete).complete = complete
BY Zenon DEF Unreclaimed, UnreclaimedTrans, UnreclaimedStatus

\* The walk of a suffix makes the step that the walk of the stream makes there.
LEMMA ShiftStep ==
  ASSUME NEW h \in Seq(View), NEW b \in 0 .. Len(h), NEW s, s = Suffix(h, b),
         NEW i \in 0 .. Len(s) - 1, NEW status \in Status,
         NEW step, step = LoopStep(s, b, i, status),
         NEW whole, whole = LoopStep(h, 0, b + i, status)
  PROVE  /\ whole.trans = step.trans /\ whole.status = step.status
         /\ whole.next = b + step.next
         /\ (whole.terminal <=> step.terminal) /\ (whole.complete <=> step.complete)
<1>1. /\ s \in Seq(View) /\ Len(h) \in Nat /\ Len(s) = Len(h) - b
      /\ \A k \in 0 .. Len(h) - b - 1 : s[k + 1] = h[b + k + 1]
  BY SuffixFacts
<1>2. /\ b \in Nat /\ i \in Nat /\ b + i \in 0 .. Len(h) - 1 /\ i \in 0 .. Len(h) - b - 1
      /\ (b + i) + 1 = b + i + 1 /\ 0 + (b + i) = b + i
  BY <1>1
<1>3. Breaches(h[(b + i) + 1]) <=> Breaches(s[i + 1])
  <2>1. s[i + 1] = h[b + i + 1]
    BY <1>1, <1>2
  <2> QED BY <1>2, <2>1
<1>4. CASE ~ Breaches(s[i + 1])
  <2>1. step = QuietStep(i, status)
    BY <1>4 DEF LoopStep
  <2>2. whole = QuietStep(b + i, status)
    BY <1>3, <1>4 DEF LoopStep
  <2>3. (b + i) + 1 = b + (i + 1)
    BY <1>2
  <2>4. /\ whole.trans = step.trans /\ whole.status = step.status
        /\ whole.next = (b + i) + 1 /\ step.next = i + 1
        /\ (whole.terminal <=> step.terminal) /\ (whole.complete <=> step.complete)
    <3>1. /\ whole.trans = << >> /\ whole.status = status /\ whole.next = (b + i) + 1
          /\ ~ whole.terminal /\ whole.complete
      BY <2>2, QuietFields
    <3>2. /\ step.trans = << >> /\ step.status = status /\ step.next = i + 1
          /\ ~ step.terminal /\ step.complete
      BY <2>1, QuietFields
    <3> QED BY <3>1, <3>2, Zenon
  <2> QED BY <2>3, <2>4
<1>5. CASE Breaches(s[i + 1]) /\ NoReclaim(s, i)
  <2> DEFINE end == ReclaimEnd(s, i)
  <2>1. end \in i + 1 .. Len(s)
    BY <1>1, <1>2, WindowAssumption DEF ReclaimEnd, AtMost
  <2>2. NoReclaim(h, b + i) /\ ReclaimEnd(h, b + i) = b + end
    BY <1>5, ShiftReclaim
  <2>3. step = UnreclaimedStep(s, b, i, end)
    BY <1>1, <1>5, StepUnreclaimed
  <2>4. whole = UnreclaimedStep(h, 0, b + i, b + end)
    BY <1>2, <1>3, <1>5, <2>2, StepUnreclaimed
  <2>5. /\ Genuine(h, b + i, b + end) = Genuine(s, i, end)
        /\ (b + i + 1 .. (b + end) - 1 = {}) = (i + 1 .. end - 1 = {})
    <3>1. /\ Genuine(h, b + i, b + end) <=> Genuine(s, i, end)
          /\ (b + i + 1 .. (b + end) - 1 = {}) <=> (i + 1 .. end - 1 = {})
      BY <2>1, ShiftGenuine
    <3>2. Genuine(h, b + i, b + end) \in BOOLEAN /\ Genuine(s, i, end) \in BOOLEAN
      BY Zenon DEF Genuine
    <3> QED BY <3>1, <3>2, Zenon
  <2>6. (b + i + 1 + ReclaimWindow <= Len(h)) = (i + 1 + ReclaimWindow <= Len(s))
    BY <1>1, <1>2, WindowAssumption
  <2>7. 0 + ((b + end) - 1) = b + (end - 1)
    BY <1>1, <1>2, <2>1
  <2> HIDE DEF end
  <2> DEFINE empty == i + 1 .. end - 1 = {}
             genuine == Genuine(s, i, end)
             complete == i + 1 + ReclaimWindow <= Len(s)
  <2>8. step = Unreclaimed(b, i, end, empty, genuine, complete)
    BY <2>3, UnreclaimedIs, Zenon
  <2>9. whole = Unreclaimed(0, b + i, b + end, empty, genuine, complete)
    BY <2>4, <2>5, <2>6, UnreclaimedIs, Zenon
  <2> HIDE DEF empty, genuine, complete
  <2>10. /\ whole.next = b + end /\ step.next = end
         /\ whole.terminal = genuine /\ step.terminal = genuine
         /\ whole.complete = complete /\ step.complete = complete
    BY <2>8, <2>9, UnreclaimedFields
  <2>11. whole.status = step.status
    BY <2>8, <2>9, UnreclaimedFields
  <2>12. whole.trans = step.trans
    <3>1. /\ whole.trans = UnreclaimedTrans(0 + (b + i), 0 + ((b + end) - 1), empty, genuine)
          /\ step.trans = UnreclaimedTrans(b + i, b + (end - 1), empty, genuine)
      BY <2>8, <2>9, UnreclaimedFields
    <3> QED BY <1>2, <2>7, <3>1
  <2> QED BY <2>10, <2>11, <2>12
<1>6. CASE Breaches(s[i + 1]) /\ \E j \in i + 1 .. Len(s) - 1 : FirstReclaim(s, i, j)
  <2>1. PICK j \in i + 1 .. Len(s) - 1 : FirstReclaim(s, i, j)
    BY <1>6
  <2>2. FirstReclaim(h, b + i, b + j)
    BY <2>1, ShiftReclaim
  <2>3. j \in 0 .. Len(s) - 1 /\ b + j \in (b + i) + 1 .. Len(h) - 1 /\ (b + j) + 1 = b + (j + 1)
        /\ 0 + (b + j) = b + j
    BY <1>1, <1>2
  <2>4. CASE NoHit(s, j)
    <3>1. NoHit(h, b + j)
      BY <2>3, <2>4, ShiftHit
    <3>2. ((b + j) + 1 + DisplacementWindow <= Len(h)) = (j + 1 + DisplacementWindow <= Len(s))
      BY <1>1, <1>2, WindowAssumption
    <3> DEFINE complete == j + 1 + DisplacementWindow <= Len(s)
    <3>3. step = Undisplaced(b, i, j, complete)
      BY <1>1, <1>6, <2>1, <2>4, StepUndisplaced
    <3>4. whole = Undisplaced(0, b + i, b + j, complete)
      <4>1. whole = Undisplaced(0, b + i, b + j, (b + j) + 1 + DisplacementWindow <= Len(h))
        BY <1>2, <1>3, <1>6, <2>2, <2>3, <3>1, StepUndisplaced
      <4> QED BY <4>1, <3>2, Zenon
    <3> HIDE DEF complete
    <3>5. /\ whole.next = (b + j) + 1 /\ step.next = j + 1
          /\ (whole.terminal <=> step.terminal) /\ (whole.complete <=> step.complete)
          /\ whole.status = step.status
      <4>1. /\ whole.status = "RECLAIM_WITHOUT_DISPLACEMENT" /\ whole.next = (b + j) + 1
            /\ ~ whole.terminal /\ (whole.complete <=> complete)
        BY <3>4, UndisplacedFields
      <4>2. /\ step.status = "RECLAIM_WITHOUT_DISPLACEMENT" /\ step.next = j + 1
            /\ ~ step.terminal /\ (step.complete <=> complete)
        BY <3>3, UndisplacedFields
      <4> QED BY <4>1, <4>2, Zenon
    <3>6. whole.trans = step.trans
      <4>1. /\ whole.trans = UndisplacedTrans(0 + (b + i), 0 + (b + j))
            /\ step.trans = UndisplacedTrans(b + i, b + j)
        BY <3>3, <3>4, UndisplacedFields
      <4> QED BY <1>2, <2>3, <4>1
    <3> QED BY <2>3, <3>5, <3>6
  <2>5. CASE \E k \in j + 1 .. Len(s) - 1 : FirstHit(s, j, k)
    <3>1. PICK k \in j + 1 .. Len(s) - 1 : FirstHit(s, j, k)
      BY <2>5
    <3>2. FirstHit(h, b + j, b + k)
      BY <2>3, <3>1, ShiftHit
    <3>3. step = Displaced(b, i, j, k)
      BY <1>1, <1>6, <2>1, <3>1, StepDisplaced, SMTT(60)
    <3>4. whole = Displaced(0, b + i, b + j, b + k)
      BY <1>2, <1>3, <1>6, <2>2, <2>3, <3>2, StepDisplaced
    <3>5. 0 + (b + k) = b + k
      BY <1>1, <1>2
    <3>6. /\ whole.next = (b + j) + 1 /\ step.next = j + 1
          /\ (whole.terminal <=> step.terminal) /\ (whole.complete <=> step.complete)
          /\ whole.status = step.status
      <4>1. /\ whole.status = "FALSE_INVALIDATION_CONFIRMED" /\ whole.next = (b + j) + 1
            /\ ~ whole.terminal /\ whole.complete
        BY <3>4, DisplacedFields
      <4>2. /\ step.status = "FALSE_INVALIDATION_CONFIRMED" /\ step.next = j + 1
            /\ ~ step.terminal /\ step.complete
        BY <3>3, DisplacedFields
      <4> QED BY <4>1, <4>2, Zenon
    <3>7. whole.trans = step.trans
      <4>1. /\ whole.trans = DisplacedTrans(0 + (b + i), 0 + (b + j), 0 + (b + k))
            /\ step.trans = DisplacedTrans(b + i, b + j, b + k)
        BY <3>3, <3>4, DisplacedFields
      <4> QED BY <1>2, <2>3, <3>5, <4>1
    <3> QED BY <2>3, <3>6, <3>7
  <2> QED BY <1>1, <2>3, <2>4, <2>5, HitCases
<1> QED BY <1>1, <1>4, <1>5, <1>6, BreachCases

-----------------------------------------------------------------------------
(***************************************************************************)
(* A step whose windows are complete is the step of every longer stream.   *)
(***************************************************************************)
Longer(g, h) ==
  /\ g \in Seq(View) /\ Len(g) = Len(h) + 1
  /\ \A k \in 0 .. Len(h) - 1 : g[k + 1] = h[k + 1]

LEMMA CompleteStays ==
  ASSUME NEW h \in Seq(View), NEW g, Longer(g, h),
         NEW i \in 0 .. Len(h) - 1, NEW status \in Status,
         LoopStep(h, 0, i, status).complete
  PROVE  LoopStep(g, 0, i, status) = LoopStep(h, 0, i, status)
<1>1. /\ g \in Seq(View) /\ Len(h) \in Nat /\ Len(g) = Len(h) + 1
      /\ \A k \in 0 .. Len(h) - 1 : g[k + 1] = h[k + 1]
  BY DEF Longer
<1>2. i \in 0 .. Len(g) - 1 /\ (Breaches(g[i + 1]) <=> Breaches(h[i + 1]))
  BY <1>1
<1>3. CASE ~ Breaches(h[i + 1])
  <2>1. LoopStep(h, 0, i, status) = QuietStep(i, status)
    BY <1>3 DEF LoopStep
  <2>2. LoopStep(g, 0, i, status) = QuietStep(i, status)
    BY <1>2, <1>3 DEF LoopStep
  <2> QED BY <2>1, <2>2
<1>4. CASE Breaches(h[i + 1]) /\ NoReclaim(h, i)
  <2> DEFINE end == ReclaimEnd(h, i)
  <2>1. LoopStep(h, 0, i, status) = UnreclaimedStep(h, 0, i, end)
    BY <1>4, StepUnreclaimed
  <2>2. i + 1 + ReclaimWindow <= Len(h)
    <3>1. LoopStep(h, 0, i, status)
            = Unreclaimed(0, i, end, i + 1 .. end - 1 = {}, Genuine(h, i, end),
                          i + 1 + ReclaimWindow <= Len(h))
      BY <2>1, UnreclaimedIs, Zenon
    <3>2. LoopStep(h, 0, i, status).complete = (i + 1 + ReclaimWindow <= Len(h))
      BY <3>1, UnreclaimedFields
    <3> QED BY <3>2, Zenon
  <2>3. /\ end = i + 1 + ReclaimWindow /\ ReclaimEnd(g, i) = end
        /\ end \in i + 1 .. Len(h) /\ i + 1 + ReclaimWindow <= Len(g)
    BY <1>1, <2>2, WindowAssumption DEF ReclaimEnd, AtMost
  <2> HIDE DEF end
  <2>4. \A k \in i + 1 .. end - 1 : g[k + 1] = h[k + 1]
    BY <1>1, <2>3
  <2>5. NoReclaim(g, i)
    <3>1. \A k \in i + 1 .. end - 1 : ~ Reclaims(h[k + 1])
      BY <1>4 DEF NoReclaim, end
    <3> QED BY <2>3, <2>4, <3>1 DEF NoReclaim
  <2>6. LoopStep(g, 0, i, status) = UnreclaimedStep(g, 0, i, end)
    BY <1>1, <1>2, <1>4, <2>3, <2>5, StepUnreclaimed
  <2>7. Genuine(g, i, end) <=> Genuine(h, i, end)
    <3>1. {k \in i + 1 .. end - 1 : Breaches(g[k + 1])} = {k \in i + 1 .. end - 1 : Breaches(h[k + 1])}
      BY <2>4
    <3>2. g[end] = h[end]
      <4>1. end - 1 \in 0 .. Len(h) - 1 /\ (end - 1) + 1 = end
        BY <1>1, <2>3
      <4> QED BY <1>1, <4>1
    <3> QED BY <3>1, <3>2, Zenon DEF Genuine
  <2>8. Genuine(g, i, end) = Genuine(h, i, end)
    BY <2>7, Zenon DEF Genuine
  <2>9. /\ LoopStep(h, 0, i, status)
             = Unreclaimed(0, i, end, i + 1 .. end - 1 = {}, Genuine(h, i, end),
                           i + 1 + ReclaimWindow <= Len(h))
        /\ LoopStep(g, 0, i, status)
             = Unreclaimed(0, i, end, i + 1 .. end - 1 = {}, Genuine(g, i, end),
                           i + 1 + ReclaimWindow <= Len(g))
    BY <2>1, <2>6, UnreclaimedIs, Zenon
  <2>10. (i + 1 + ReclaimWindow <= Len(h)) = (i + 1 + ReclaimWindow <= Len(g))
    BY <1>1, <2>2, WindowAssumption
  <2> QED BY <2>8, <2>9, <2>10, Zenon
<1>5. CASE Breaches(h[i + 1]) /\ \E j \in i + 1 .. Len(h) - 1 : FirstReclaim(h, i, j)
  <2>1. PICK j \in i + 1 .. Len(h) - 1 : FirstReclaim(h, i, j)
    BY <1>5
  <2>2. j \in i + 1 .. Len(g) - 1 /\ j \in 0 .. Len(h) - 1 /\ j \in 0 .. Len(g) - 1
    BY <1>1
  <2>3. FirstReclaim(g, i, j)
    <3>1. j \in i + 1 .. ReclaimEnd(g, i) - 1
      BY <1>1, <2>1, WindowAssumption DEF FirstReclaim, ReclaimEnd, AtMost
    <3>2. \A k \in i + 1 .. j : g[k + 1] = h[k + 1]
      BY <1>1, <2>2
    <3>3. Reclaims(g[j + 1])
      BY <1>1, <2>1, <2>2 DEF FirstReclaim
    <3>4. \A k \in i + 1 .. j - 1 : ~ Reclaims(g[k + 1])
      BY <2>1, <2>2, <3>2, SMTT(60) DEF FirstReclaim
    <3> QED BY <3>1, <3>3, <3>4 DEF FirstReclaim
  <2>4. \A k \in j + 1 .. Len(h) - 1 : Hit(g, j, k) <=> Hit(h, j, k)
    BY <1>1, <2>2 DEF Hit
  <2>5. CASE NoHit(h, j)
    <3>1. LoopStep(h, 0, i, status) = Undisplaced(0, i, j, j + 1 + DisplacementWindow <= Len(h))
      BY <1>5, <2>1, <2>5, StepUndisplaced
    <3>2. j + 1 + DisplacementWindow <= Len(h)
      <4> DEFINE complete == j + 1 + DisplacementWindow <= Len(h)
      <4>1. LoopStep(h, 0, i, status) = Undisplaced(0, i, j, complete)
        BY <3>1
      <4> HIDE DEF complete
      <4>2. complete
        BY <4>1, UndisplacedFields
      <4> QED BY <4>2 DEF complete
    <3>3. /\ DisplacementEnd(g, j) = j + 1 + DisplacementWindow
          /\ DisplacementEnd(h, j) = j + 1 + DisplacementWindow
          /\ j + 1 + DisplacementWindow <= Len(g)
      BY <1>1, <2>2, <3>2, WindowAssumption DEF DisplacementEnd, AtMost
    <3>4. NoHit(g, j)
      <4> SUFFICES ASSUME NEW k \in j + 1 .. DisplacementEnd(g, j) - 1 PROVE ~ Hit(g, j, k)
        BY DEF NoHit
      <4>1. k \in j + 1 .. DisplacementEnd(h, j) - 1 /\ k \in j + 1 .. Len(h) - 1
        BY <1>1, <2>2, <3>2, <3>3, WindowAssumption
      <4> QED BY <2>4, <2>5, <4>1 DEF NoHit
    <3>5. LoopStep(g, 0, i, status) = Undisplaced(0, i, j, j + 1 + DisplacementWindow <= Len(g))
      BY <1>1, <1>2, <1>5, <2>2, <2>3, <3>4, StepUndisplaced
    <3>6. (j + 1 + DisplacementWindow <= Len(h)) = (j + 1 + DisplacementWindow <= Len(g))
      BY <1>1, <2>2, <3>2, WindowAssumption
    <3> QED BY <3>1, <3>5, <3>6, Zenon
  <2>6. CASE \E k \in j + 1 .. Len(h) - 1 : FirstHit(h, j, k)
    <3>1. PICK k \in j + 1 .. Len(h) - 1 : FirstHit(h, j, k)
      BY <2>6
    <3>2. FirstHit(g, j, k)
      <4>1. k \in j + 1 .. DisplacementEnd(g, j) - 1
        BY <1>1, <2>2, <3>1, WindowAssumption DEF FirstHit, DisplacementEnd, AtMost
      <4>2. Hit(g, j, k) /\ \A m \in j + 1 .. k - 1 : ~ Hit(g, j, m)
        <5>1. \A m \in j + 1 .. k - 1 : m \in j + 1 .. Len(h) - 1
          BY <1>1, <2>2
        <5> QED BY <2>4, <3>1, <5>1 DEF FirstHit
      <4> QED BY <4>1, <4>2 DEF FirstHit
    <3>3. LoopStep(h, 0, i, status) = Displaced(0, i, j, k)
      BY <1>5, <2>1, <3>1, StepDisplaced
    <3>4. LoopStep(g, 0, i, status) = Displaced(0, i, j, k)
      <4>1. /\ g \in Seq(View) /\ i \in 0 .. Len(g) - 1 /\ Breaches(g[i + 1])
            /\ j \in i + 1 .. Len(g) - 1
        BY <1>1, <1>2, <1>5, <2>2
      <4> QED BY <2>3, <3>2, <4>1, StepDisplaced
    <3> QED BY <3>3, <3>4
  <2> QED BY <2>2, <2>5, <2>6, HitCases
<1> QED BY <1>3, <1>4, <1>5, BreachCases

-----------------------------------------------------------------------------
\* What the windows of a step say of its verdict: a terminal one fills its
\* window, an incomplete one is not terminal and leaves little behind it.
LEMMA UnreclaimedEnds ==
  ASSUME NEW h \in Seq(View), NEW i \in 0 .. Len(h) - 1, NEW status \in Status,
         Breaches(h[i + 1]), NoReclaim(h, i),
         NEW step, step = LoopStep(h, 0, i, status)
  PROVE  /\ step.terminal => /\ step.status = "GENUINE_INVALIDATION_CONFIRMED"
                             /\ i + 1 + ReclaimWindow <= Len(h)
         /\ step.complete <=> i + 1 + ReclaimWindow <= Len(h)
         /\ step.next = ReclaimEnd(h, i)
<1> DEFINE end == ReclaimEnd(h, i)
           empty == i + 1 .. end - 1 = {}
           genuine == Genuine(h, i, end)
           complete == i + 1 + ReclaimWindow <= Len(h)
<1>1. /\ Len(h) \in Nat /\ i \in Nat /\ end \in Nat /\ end <= i + 1 + ReclaimWindow
      /\ end <= Len(h) /\ ReclaimWindow \in Nat /\ ReclaimWindow > 0
  BY WindowAssumption DEF ReclaimEnd, AtMost
<1>2. ASSUME genuine PROVE ~ empty /\ complete
  <2>1. Cardinality(i + 1 .. end - 1) = ReclaimWindow
    BY <1>2 DEF Genuine
  <2>2. Cardinality(i + 1 .. end - 1) = IF i + 1 > end - 1 THEN 0 ELSE (end - 1) - (i + 1) + 1
    <3>1. i + 1 \in Int /\ end - 1 \in Int
      BY <1>1
    <3> HIDE DEF end
    <3> QED BY <3>1, FS_Interval
  <2>3. end = i + 1 + ReclaimWindow
    <3> HIDE DEF end
    <3> QED BY <1>1, <2>1, <2>2
  <2> QED BY <1>1, <2>3
<1> HIDE DEF end, empty, genuine, complete
<1>3. step = Unreclaimed(0, i, end, empty, genuine, complete)
  <2>1. step = UnreclaimedStep(h, 0, i, end)
    BY StepUnreclaimed DEF end
  <2> QED BY <2>1, UnreclaimedIs, Zenon DEF empty, genuine, complete
<1>4. /\ step.status = UnreclaimedStatus(empty, genuine) /\ step.next = end
      /\ step.terminal = genuine /\ step.complete = complete
  BY <1>3, UnreclaimedFields
<1>5. ASSUME genuine PROVE UnreclaimedStatus(empty, genuine) = "GENUINE_INVALIDATION_CONFIRMED"
  BY <1>2, <1>5 DEF UnreclaimedStatus, Verdict
<1>6. step.terminal => (step.status = "GENUINE_INVALIDATION_CONFIRMED" /\ complete)
  BY <1>2, <1>4, <1>5, Zenon
<1>7. step.complete <=> complete
  BY <1>4, Zenon
<1> QED BY <1>4, <1>6, <1>7, Zenon DEF end, complete

LEMMA StepEnds ==
  ASSUME NEW h \in Seq(View), NEW i \in 0 .. Len(h) - 1, NEW status \in Status,
         NEW step, step = LoopStep(h, 0, i, status)
  PROVE  /\ step.terminal => /\ step.status = "GENUINE_INVALIDATION_CONFIRMED"
                             /\ step.complete
                             /\ i + 1 + ReclaimWindow <= Len(h)
         /\ ~ step.complete => /\ step.next + DisplacementWindow > Len(h)
                               /\ Len(h) - i <= ReclaimWindow + DisplacementWindow
<1>1. Len(h) \in Nat /\ i \in Nat /\ ReclaimWindow \in Nat \ {0} /\ DisplacementWindow \in Nat \ {0}
  BY WindowAssumption
<1>2. CASE ~ Breaches(h[i + 1])
  <2>1. step = QuietStep(i, status)
    BY <1>2 DEF LoopStep
  <2>2. ~ step.terminal /\ step.complete
    BY <2>1, QuietFields
  <2> QED BY <2>2
<1>3. CASE Breaches(h[i + 1]) /\ NoReclaim(h, i)
  <2>1. /\ step.terminal => /\ step.status = "GENUINE_INVALIDATION_CONFIRMED"
                            /\ i + 1 + ReclaimWindow <= Len(h)
        /\ step.complete <=> i + 1 + ReclaimWindow <= Len(h)
        /\ step.next = ReclaimEnd(h, i)
    BY <1>3, UnreclaimedEnds
  <2>2. ~ step.complete => step.next = Len(h) /\ Len(h) - i <= ReclaimWindow + DisplacementWindow
    BY <1>1, <2>1 DEF ReclaimEnd, AtMost
  <2> QED BY <1>1, <2>1, <2>2
<1>4. CASE Breaches(h[i + 1]) /\ \E j \in i + 1 .. Len(h) - 1 : FirstReclaim(h, i, j)
  <2>1. PICK j \in i + 1 .. Len(h) - 1 : FirstReclaim(h, i, j)
    BY <1>4
  <2>2. j \in 0 .. Len(h) - 1 /\ j <= i + ReclaimWindow
    BY <1>1, <2>1 DEF FirstReclaim, ReclaimEnd, AtMost
  <2>3. CASE NoHit(h, j)
    <3> DEFINE complete == j + 1 + DisplacementWindow <= Len(h)
    <3>1. step = Undisplaced(0, i, j, complete)
      BY <1>4, <2>1, <2>3, StepUndisplaced
    <3> HIDE DEF complete
    <3>2. ~ step.terminal /\ (step.complete <=> complete) /\ step.next = j + 1
      BY <3>1, UndisplacedFields
    <3>3. ~ complete => Len(h) - i <= ReclaimWindow + DisplacementWindow
      BY <1>1, <2>2 DEF complete
    <3>4. ~ complete => (j + 1) + DisplacementWindow > Len(h)
      BY <1>1, <2>2 DEF complete
    <3> QED BY <3>2, <3>3, <3>4
  <2>4. CASE \E k \in j + 1 .. Len(h) - 1 : FirstHit(h, j, k)
    <3>1. PICK k \in j + 1 .. Len(h) - 1 : FirstHit(h, j, k)
      BY <2>4
    <3>2. step = Displaced(0, i, j, k)
      BY <1>4, <2>1, <3>1, StepDisplaced
    <3>3. ~ step.terminal /\ step.complete
      BY <3>2, DisplacedFields
    <3> QED BY <3>3
  <2> QED BY <2>2, <2>3, <2>4, HitCases
<1> QED BY <1>2, <1>3, <1>4, BreachCases

-----------------------------------------------------------------------------
(***************************************************************************)
(* The states of the batch walk: those it reaches, and among them those it *)
(* reaches by complete steps alone, which every longer stream's walk       *)
(* reaches too.                                                            *)
(***************************************************************************)
LoopStates(h) ==
  [i : 0 .. Len(h), status : Status, trans : Seq(Transitions),
   terminal : BOOLEAN, last : Nat \cup {None}]

StartState(start) == LoopState(start, "NO_BREACH", << >>, FALSE, None)

Ended(h, p) == p.i >= Len(h) \/ p.terminal

Advanced(p, step) ==
  LoopState(step.next, step.status, p.trans \o step.trans, step.terminal, p.i)

LoopNext(h, p) == IF Ended(h, p) THEN p ELSE Advanced(p, LoopStep(h, 0, p.i, p.status))

Complete(h, p) == ~ Ended(h, p) /\ LoopStep(h, 0, p.i, p.status).complete

Reached(h, start, q) ==
  \A S : (StartState(start) \in S /\ \A p \in S : LoopNext(h, p) \in S) => q \in S

Settled(h, start, q) ==
  \A S : (StartState(start) \in S /\ \A p \in S : Complete(h, p) => LoopNext(h, p) \in S) => q \in S

LEMMA LoopNextType ==
  ASSUME NEW h \in Seq(View), NEW p \in LoopStates(h)
  PROVE  LoopNext(h, p) \in LoopStates(h)
<1>1. CASE Ended(h, p)
  BY <1>1 DEF LoopNext
<1>2. CASE ~ Ended(h, p)
  <2> DEFINE step == LoopStep(h, 0, p.i, p.status)
  <2>1. p.i \in 0 .. Len(h) - 1 /\ p.status \in Status /\ p.trans \in Seq(Transitions)
    BY <1>2 DEF LoopStates, Ended
  <2>2. step \in Steps(p.i, Len(h))
    BY <2>1, LoopStepType
  <2>3. LoopNext(h, p) = Advanced(p, step)
    BY <1>2 DEF LoopNext
  <2> HIDE DEF step
  <2>4. /\ step.next \in 0 .. Len(h) /\ step.status \in Status
        /\ step.trans \in Seq(Transitions) /\ step.terminal \in BOOLEAN
    BY <2>1, <2>2 DEF Steps
  <2>5. p.trans \o step.trans \in Seq(Transitions) /\ p.i \in Nat
    BY <2>1, <2>4
  <2> QED BY <2>3, <2>4, <2>5 DEF Advanced, LoopState, LoopStates
<1> QED BY <1>1, <1>2

LEMMA StartStateType ==
  ASSUME NEW h \in Seq(View), NEW start \in 0 .. Len(h)
  PROVE  StartState(start) \in LoopStates(h)
BY DEF StartState, LoopState, LoopStates, Status

LEMMA SettledStart ==
  ASSUME NEW h, NEW start
  PROVE  Settled(h, start, StartState(start)) /\ Reached(h, start, StartState(start))
BY DEF Settled, Reached

LEMMA SettledNext ==
  ASSUME NEW h, NEW start, NEW q, Settled(h, start, q), Complete(h, q)
  PROVE  Settled(h, start, LoopNext(h, q))
BY DEF Settled

LEMMA ReachedNext ==
  ASSUME NEW h, NEW start, NEW q, Reached(h, start, q)
  PROVE  Reached(h, start, LoopNext(h, q))
BY DEF Reached

LEMMA SettledReached ==
  ASSUME NEW h, NEW start, NEW q, Settled(h, start, q)
  PROVE  Reached(h, start, q)
BY DEF Settled, Reached

\* A terminal state is one that confirmed a genuine invalidation.
LEMMA ReachedType ==
  ASSUME NEW h \in Seq(View), NEW start \in 0 .. Len(h), NEW q, Reached(h, start, q)
  PROVE  /\ q \in LoopStates(h) /\ q.i >= start
         /\ q.terminal => q.status = "GENUINE_INVALIDATION_CONFIRMED"
<1> DEFINE S == {p \in LoopStates(h) : p.i >= start /\
                   (p.terminal => p.status = "GENUINE_INVALIDATION_CONFIRMED")}
<1>1. StartState(start) \in S
  <2>1. StartState(start) \in LoopStates(h)
    BY StartStateType
  <2>2. StartState(start).i = start /\ ~ StartState(start).terminal
    BY DEF StartState, LoopState
  <2> QED BY <2>1, <2>2
<1>2. ASSUME NEW p \in S PROVE LoopNext(h, p) \in S
  <2>1. LoopNext(h, p) \in LoopStates(h)
    BY LoopNextType
  <2>2. CASE Ended(h, p)
    BY <2>2 DEF LoopNext
  <2>3. CASE ~ Ended(h, p)
    <3> DEFINE step == LoopStep(h, 0, p.i, p.status)
               next == LoopNext(h, p)
    <3>1. p.i \in 0 .. Len(h) - 1 /\ p.status \in Status
      BY <2>3 DEF LoopStates, Ended
    <3>2. step \in Steps(p.i, Len(h))
      BY <3>1, LoopStepType
    <3>3. step.next > p.i
      BY <3>1, <3>2 DEF Steps
    <3>4. step.terminal => step.status = "GENUINE_INVALIDATION_CONFIRMED"
      BY <3>1, StepEnds
    <3>5. next = Advanced(p, step)
      BY <2>3 DEF LoopNext
    <3> HIDE DEF step, next
    <3>6. next.i = step.next /\ next.status = step.status /\ next.terminal = step.terminal
      BY <3>5 DEF Advanced, LoopState
    <3>7. next.i >= start
      <4>1. p.i >= start /\ p.i \in Nat /\ start \in Nat /\ step.next \in Nat
        BY <3>1, <3>2 DEF Steps
      <4> QED BY <3>3, <3>6, <4>1
    <3>8. next.terminal => next.status = "GENUINE_INVALIDATION_CONFIRMED"
      BY <3>4, <3>6
    <3> QED BY <2>1, <3>7, <3>8 DEF next
  <2> QED BY <2>2, <2>3
<1> HIDE DEF S
<1>3. q \in S
  BY <1>1, <1>2 DEF Reached
<1> QED BY <1>3 DEF S

\* Settled states are settled for good.
LEMMA SettledStays ==
  ASSUME NEW h \in Seq(View), NEW g, Longer(g, h), NEW start \in 0 .. Len(h),
         NEW q, Settled(h, start, q)
  PROVE  Settled(g, start, q)
<1> SUFFICES ASSUME NEW S, StartState(start) \in S,
                    \A p \in S : Complete(g, p) => LoopNext(g, p) \in S
             PROVE  q \in S
  BY DEF Settled
<1> DEFINE T == {p \in S : p \in LoopStates(h)}
<1>1. StartState(start) \in T
  BY StartStateType
<1>2. ASSUME NEW p \in T, Complete(h, p) PROVE LoopNext(h, p) \in T
  <2>1. p.i \in 0 .. Len(h) - 1 /\ p.status \in Status /\ ~ p.terminal
    BY <1>2 DEF LoopStates, Complete, Ended
  <2>2. LoopStep(g, 0, p.i, p.status) = LoopStep(h, 0, p.i, p.status)
    BY <1>2, <2>1, CompleteStays DEF Complete
  <2>3. ~ Ended(g, p) /\ ~ Ended(h, p)
    BY <2>1 DEF Ended, Longer
  <2>4. Complete(g, p) /\ LoopNext(g, p) = LoopNext(h, p)
    BY <1>2, <2>2, <2>3 DEF Complete, LoopNext
  <2>5. LoopNext(h, p) \in LoopStates(h)
    BY LoopNextType
  <2> QED BY <2>4, <2>5
<1> HIDE DEF T
<1>3. q \in T
  BY <1>1, <1>2 DEF Settled
<1> QED BY <1>3 DEF T

-----------------------------------------------------------------------------
(***************************************************************************)
(* The batch walk ends in the one reached state that has ended.            *)
(***************************************************************************)
IsRun(f, h, start, n) ==
  f = [k \in 0 .. n |-> IF k = 0 THEN StartState(start) ELSE LoopNext(h, f[k - 1])]

LEMMA RunExists ==
  ASSUME NEW h, NEW start, NEW n \in Nat
  PROVE  \E f : IsRun(f, h, start, n)
<1> DEFINE S == {m \in Nat : \E f : IsRun(f, h, start, m)}
<1>1. 0 \in S
  <2> DEFINE f == [k \in 0 .. 0 |-> StartState(start)]
  <2>1. IsRun(f, h, start, 0)
    BY DEF IsRun
  <2> QED BY <2>1
<1>2. ASSUME NEW m \in S PROVE m + 1 \in S
  <2>1. PICK f : IsRun(f, h, start, m)
    OBVIOUS
  <2> DEFINE g == [k \in 0 .. m + 1 |-> IF k = m + 1 THEN LoopNext(h, f[m]) ELSE f[k]]
  <2>2. \A k \in 0 .. m + 1 :
          g[k] = IF k = 0 THEN StartState(start) ELSE LoopNext(h, g[k - 1])
    <3> SUFFICES ASSUME NEW k \in 0 .. m + 1
                 PROVE  g[k] = IF k = 0 THEN StartState(start) ELSE LoopNext(h, g[k - 1])
      OBVIOUS
    <3>1. CASE k = m + 1
      BY <3>1
    <3>2. CASE k \in 0 .. m
      <4>1. f[k] = IF k = 0 THEN StartState(start) ELSE LoopNext(h, f[k - 1])
        BY <2>1, <3>2 DEF IsRun
      <4>2. g[k] = f[k] /\ (k # 0 => g[k - 1] = f[k - 1])
        BY <3>2
      <4> QED BY <4>1, <4>2
    <3> QED BY <3>1, <3>2
  <2>3. IsRun(g, h, start, m + 1)
    <3>1. g = [k \in 0 .. m + 1 |-> g[k]]
      OBVIOUS
    <3> QED BY <2>2, <3>1 DEF IsRun
  <2> QED BY <2>3
<1> HIDE DEF S
<1>3. S = Nat
  <2>1. S \in SUBSET Nat
    BY DEF S
  <2> QED BY <1>1, <1>2, <2>1, SetInduction
<1> QED BY <1>3 DEF S

LEMMA BatchRun ==
  ASSUME NEW h \in Seq(View), NEW start
  PROVE  \E f : IsRun(f, h, start, Len(h)) /\ BatchWalk(h, start) = f[Len(h)]
<1> DEFINE run == CHOOSE f : IsRun(f, h, start, Len(h))
<1>1. IsRun(run, h, start, Len(h))
  BY RunExists
<1>2. BatchWalk(h, start) = run[Len(h)]
  BY Zenon DEF BatchWalk, IsRun, StartState, LoopNext, Ended, Advanced, None
<1> QED BY <1>1, <1>2

\* Every state of the run is reached; after k iterations it has ended or is at
\* or behind the k-th candle from the start.
LEMMA RunReaches ==
  ASSUME NEW h \in Seq(View), NEW start \in 0 .. Len(h),
         NEW f, IsRun(f, h, start, Len(h)), NEW k \in 0 .. Len(h)
  PROVE  /\ Reached(h, start, f[k])
         /\ Ended(h, f[k]) \/ f[k].i >= start + k
<1> DEFINE S == {m \in Nat : m <= Len(h) => /\ Reached(h, start, f[m])
                                            /\ Ended(h, f[m]) \/ f[m].i >= start + m}
<1>1. 0 \in S
  <2>1. f[0] = StartState(start)
    BY DEF IsRun
  <2>2. StartState(start).i = start
    BY DEF StartState, LoopState
  <2> QED BY <2>1, <2>2, SettledStart
<1>2. ASSUME NEW m \in S PROVE m + 1 \in S
  <2> SUFFICES ASSUME m + 1 <= Len(h)
               PROVE  /\ Reached(h, start, f[m + 1])
                      /\ Ended(h, f[m + 1]) \/ f[m + 1].i >= start + (m + 1)
    OBVIOUS
  <2>1. f[m + 1] = LoopNext(h, f[m])
    BY DEF IsRun
  <2>2. /\ Reached(h, start, f[m])
        /\ Ended(h, f[m]) \/ f[m].i >= start + m
    OBVIOUS
  <2>3. Reached(h, start, f[m + 1])
    BY <2>1, <2>2, ReachedNext
  <2>4. CASE Ended(h, f[m])
    BY <2>1, <2>3, <2>4 DEF LoopNext
  <2>5. CASE ~ Ended(h, f[m])
    <3> DEFINE p == f[m]
               step == LoopStep(h, 0, p.i, p.status)
    <3>1. p \in LoopStates(h)
      BY <2>2, ReachedType
    <3>2. p.i \in 0 .. Len(h) - 1 /\ p.status \in Status
      BY <2>5, <3>1 DEF LoopStates, Ended
    <3>3. step \in Steps(p.i, Len(h))
      BY <3>2, LoopStepType
    <3>4. f[m + 1] = Advanced(p, step)
      BY <2>1, <2>5 DEF LoopNext
    <3> HIDE DEF step
    <3>5. f[m + 1].i = step.next
      BY <3>4 DEF Advanced, LoopState
    <3>6. step.next \in Nat /\ step.next >= p.i + 1
      BY <3>2, <3>3 DEF Steps
    <3>7. p.i >= start + m
      BY <2>2, <2>5
    <3> QED BY <2>3, <3>2, <3>5, <3>6, <3>7
  <2> QED BY <2>4, <2>5
<1> HIDE DEF S
<1>3. S = Nat
  <2>1. S \in SUBSET Nat
    BY DEF S
  <2> QED BY <1>1, <1>2, <2>1, SetInduction
<1>4. k \in S /\ k <= Len(h)
  BY <1>3
<1> QED BY <1>4 DEF S

\* The batch walk has ended, and every ended state that is reached is it.
LEMMA BatchWalkEnded ==
  ASSUME NEW h \in Seq(View), NEW start \in 0 .. Len(h)
  PROVE  Reached(h, start, BatchWalk(h, start)) /\ Ended(h, BatchWalk(h, start))
<1>1. PICK f : IsRun(f, h, start, Len(h)) /\ BatchWalk(h, start) = f[Len(h)]
  BY BatchRun
<1>2. /\ Reached(h, start, f[Len(h)])
      /\ Ended(h, f[Len(h)]) \/ f[Len(h)].i >= start + Len(h)
  <2>1. Len(h) \in 0 .. Len(h)
    OBVIOUS
  <2> QED BY <1>1, <2>1, RunReaches
<1>3. f[Len(h)].i \in Nat
  BY <1>2, ReachedType DEF LoopStates
<1>4. Ended(h, f[Len(h)])
  BY <1>2, <1>3 DEF Ended
<1> QED BY <1>1, <1>2, <1>4

\* A reached state is one of the run's.
LEMMA ReachedInRun ==
  ASSUME NEW h \in Seq(View), NEW start \in 0 .. Len(h),
         NEW f, IsRun(f, h, start, Len(h)), BatchWalk(h, start) = f[Len(h)],
         NEW q, Reached(h, start, q)
  PROVE  \E k \in 0 .. Len(h) : q = f[k]
<1> DEFINE n == Len(h)
           S == {f[k] : k \in 0 .. n}
<1>2. n \in Nat /\ f[0] = StartState(start)
      /\ \A k \in 0 .. n - 1 : f[k + 1] = LoopNext(h, f[k])
  BY DEF IsRun
<1>3. StartState(start) \in S
  BY <1>2
<1>4. ASSUME NEW p \in S PROVE LoopNext(h, p) \in S
  <2>1. PICK k \in 0 .. n : p = f[k]
    OBVIOUS
  <2>2. CASE k < n
    <3>1. k + 1 \in 0 .. n /\ k \in 0 .. n - 1
      BY <1>2, <2>2
    <3>2. f[k + 1] = LoopNext(h, p)
      BY <1>2, <2>1, <3>1
    <3> QED BY <3>1, <3>2
  <2>3. CASE k = n
    <3>1. Ended(h, p)
      BY <2>1, <2>3, BatchWalkEnded
    <3> QED BY <3>1 DEF LoopNext
  <2> QED BY <1>2, <2>2, <2>3
<1> HIDE DEF S
<1>5. q \in S
  BY <1>3, <1>4 DEF Reached
<1> QED BY <1>5 DEF S

LEMMA EndedIsBatch ==
  ASSUME NEW h \in Seq(View), NEW start \in 0 .. Len(h),
         NEW q, Reached(h, start, q), Ended(h, q)
  PROVE  BatchWalk(h, start) = q
<1> DEFINE n == Len(h)
<1>1. PICK f : IsRun(f, h, start, n) /\ BatchWalk(h, start) = f[n]
  BY BatchRun
<1>2. n \in Nat /\ \A k \in 0 .. n - 1 : f[k + 1] = LoopNext(h, f[k])
  BY <1>1 DEF IsRun
<1>6. PICK k \in 0 .. n : q = f[k]
  BY <1>1, ReachedInRun
<1> DEFINE T == {m \in Nat : k + m <= n => f[k + m] = q}
<1>7. 0 \in T
  BY <1>6
<1>8. ASSUME NEW m \in T PROVE m + 1 \in T
  <2> SUFFICES ASSUME k + (m + 1) <= n PROVE f[k + (m + 1)] = q
    OBVIOUS
  <2>1. k + m \in 0 .. n - 1 /\ k + (m + 1) = (k + m) + 1 /\ k + m <= n
    BY <1>2
  <2>2. f[k + m] = q
    BY <2>1
  <2>3. f[k + (m + 1)] = LoopNext(h, q)
    BY <1>2, <2>1, <2>2
  <2> QED BY <2>3 DEF LoopNext
<1> HIDE DEF T
<1>9. T = Nat
  <2>1. T \in SUBSET Nat
    BY DEF T
  <2> QED BY <1>7, <1>8, <2>1, SetInduction
<1>10. n - k \in T /\ k + (n - k) = n
  BY <1>2, <1>9
<1>11. f[n] = q
  BY <1>2, <1>10 DEF T
<1> QED BY <1>1, <1>11

-----------------------------------------------------------------------------
(***************************************************************************)
(* The cursor's walk over the suffix from b, told in the batch walk's      *)
(* terms.  C is what is committed before b, last the index of the          *)
(* iteration before it.                                                    *)
(***************************************************************************)
Lifted(b, C, last, p) ==
  LoopState(b + p.i, p.status, C \o p.trans, p.terminal,
            IF p.last = None THEN last ELSE b + p.last)

\* The floor of a walk that is provisional: the settled state whose step is
\* incomplete.
Floor(g, start, b, C, w, q) ==
  /\ Settled(g, start, q) /\ q.i = b + w.boundary /\ q.status = w.status
  /\ q.trans = C \o SubSeq(w.loop.trans, 1, w.count)
  /\ ~ Ended(g, q) /\ ~ Complete(g, q)

SoundWalk(g, start, b, C, last, w) ==
  /\ Reached(g, start, Lifted(b, C, last, w.loop))
  /\ w.provisional =>
       /\ \E q : Floor(g, start, b, C, w, q)
       /\ b + w.loop.i + DisplacementWindow > Len(g)
       /\ ~ w.loop.terminal
  /\ ~ w.provisional =>
       /\ Settled(g, start, Lifted(b, C, last, w.loop))
       /\ w.boundary = w.loop.i /\ w.status = w.loop.status /\ w.count = Len(w.loop.trans)

LEMMA Regroup ==
  ASSUME NEW S, NEW u \in Seq(S), NEW v \in Seq(S), NEW w \in Seq(S)
  PROVE  u \o (v \o w) = (u \o v) \o w
BY ConcatAssociative, SMTT(60)

\* Lifting commutes with a step of the loop.
Commutes(g, b, C, last, w, step, p) ==
  /\ ~ Ended(g, p) /\ p.i = b + w.loop.i /\ p.status = w.loop.status
  /\ p.trans = C \o w.loop.trans /\ ~ p.terminal
  /\ Lifted(b, C, last, Looped(w, step)) = LoopNext(g, p)
  /\ LoopStep(g, 0, p.i, p.status).complete <=> step.complete
  /\ LoopStep(g, 0, p.i, p.status).terminal <=> step.terminal
  /\ LoopStep(g, 0, p.i, p.status).next = b + step.next

LEMMA LiftStep ==
  ASSUME NEW g \in Seq(View), NEW b \in 0 .. Len(g), NEW s, s = Suffix(g, b),
         NEW C \in Seq(Transitions), NEW last,
         NEW w \in Walks(Len(s)), w.loop.i < Len(s), ~ w.loop.terminal,
         NEW step, step = LoopStep(s, b, w.loop.i, w.loop.status),
         NEW p, p = Lifted(b, C, last, w.loop)
  PROVE  Commutes(g, b, C, last, w, step, p)
<1> DEFINE i == w.loop.i
           whole == LoopStep(g, 0, b + i, w.loop.status)
<1>1. s \in Seq(View) /\ Len(g) \in Nat /\ Len(s) = Len(g) - b
  BY SuffixFacts
<1>2. /\ i \in 0 .. Len(s) - 1 /\ w.loop.status \in Status
      /\ w.loop.trans \in Seq(Transitions) /\ b \in Nat
  BY <1>1 DEF Walks
<1>3. /\ p.i = b + i /\ p.status = w.loop.status /\ p.trans = C \o w.loop.trans
      /\ (p.terminal <=> w.loop.terminal)
  BY DEF Lifted, LoopState
<1>4. ~ Ended(g, p) /\ ~ p.terminal
  BY <1>1, <1>2, <1>3 DEF Ended
<1>5. step \in Steps(i, Len(s)) /\ whole \in Steps(b + i, Len(g))
  <2>1. b + i \in 0 .. Len(g) - 1
    BY <1>1, <1>2
  <2>2. b \in Nat /\ 0 \in Nat
    BY <1>2
  <2>3. step \in Steps(i, Len(s))
    BY <1>1, <1>2, <2>2, LoopStepType
  <2>4. whole \in Steps(b + i, Len(g))
    BY <1>2, <2>1, <2>2, LoopStepType
  <2> QED BY <2>3, <2>4
<1> HIDE DEF whole
<1>6. /\ whole.trans = step.trans /\ whole.status = step.status
      /\ whole.next = b + step.next
      /\ (whole.terminal <=> step.terminal) /\ (whole.complete <=> step.complete)
  <2> DEFINE status == w.loop.status
  <2>1. i \in 0 .. Len(s) - 1 /\ status \in Status
    BY <1>2
  <2>2. step = LoopStep(s, b, i, status) /\ whole = LoopStep(g, 0, b + i, status)
    BY DEF whole
  <2> HIDE DEF i, status
  <2> QED
    BY ONLY g \in Seq(View), b \in 0 .. Len(g), s = Suffix(g, b), <2>1, <2>2, ShiftStep
<1>7. LoopStep(g, 0, p.i, p.status) = whole
  BY <1>3, SMTT(60) DEF whole
<1>8. Lifted(b, C, last, Looped(w, step)) = LoopNext(g, p)
  <2> DEFINE looped == Looped(w, step)
  <2>1. /\ looped.i = step.next /\ looped.status = step.status
        /\ looped.trans = w.loop.trans \o step.trans /\ looped.terminal = step.terminal
        /\ looped.last = i
    BY DEF Looped, LoopState
  <2>2. i # None
    BY <1>2 DEF None
  <2>3. LoopNext(g, p) = LoopState(whole.next, whole.status, p.trans \o whole.trans, whole.terminal, p.i)
    BY <1>4, <1>7 DEF LoopNext, Advanced
  <2>4. whole.terminal = step.terminal
    BY <1>5, <1>6 DEF Steps
  <2>5. C \o (w.loop.trans \o step.trans) = (C \o w.loop.trans) \o step.trans
    <3> DEFINE t == w.loop.trans
               u == step.trans
    <3>1. u \in Seq(Transitions)
      BY <1>5 DEF Steps
    <3>2. t \in Seq(Transitions)
      BY <1>2
    <3> HIDE DEF t, u
    <3>3. C \o (t \o u) = (C \o t) \o u
      BY <3>1, <3>2, Regroup
    <3> QED BY <3>3 DEF t, u
  <2> HIDE DEF looped
  <2>6. Lifted(b, C, last, looped)
          = LoopState(b + step.next, step.status, C \o (w.loop.trans \o step.trans), step.terminal, b + i)
    BY <2>1, <2>2 DEF Lifted
  <2> QED BY <1>3, <1>6, <2>3, <2>4, <2>5, <2>6 DEF looped
<1> QED BY <1>3, <1>4, <1>6, <1>7, <1>8 DEF Commutes

LEMMA PrefixKept ==
  ASSUME NEW S, NEW u \in Seq(S), NEW v \in Seq(S), NEW n \in Nat, n <= Len(u)
  PROVE  SubSeq(u \o v, 1, n) = SubSeq(u, 1, n)
<1>1. CASE n = 0
  <2>1. SubSeq(u \o v, 1, 0) = << >> /\ SubSeq(u, 1, 0) = << >>
    BY SubSeqEmpty
  <2> QED BY <1>1, <2>1
<1>2. CASE n > 0
  <2>1. 1 \in 1 .. Len(u) /\ n \in 1 .. Len(u)
    BY <1>2
  <2> QED BY <2>1, SubSeqOfConcat1
<1> QED BY <1>1, <1>2

\* One iteration of the inner walk keeps it sound.  Where the displacement
\* window is longer, a terminal breach may follow an incomplete window.
LEMMA SoundStep ==
  ASSUME DisplacementWindow <= ReclaimWindow + 1,
         NEW g \in Seq(View), NEW start \in 0 .. Len(g),
         NEW b \in 0 .. Len(g), NEW s, s = Suffix(g, b),
         NEW C \in Seq(Transitions), NEW last,
         NEW w \in Walks(Len(s)), SoundWalk(g, start, b, C, last, w)
  PROVE  SoundWalk(g, start, b, C, last, WalkStep(s, b, w))
<1>1. CASE w.loop.i >= Len(s) \/ w.loop.terminal
  BY <1>1 DEF WalkStep
<1>2. CASE ~ (w.loop.i >= Len(s) \/ w.loop.terminal)
  <2> DEFINE step == LoopStep(s, b, w.loop.i, w.loop.status)
             p == Lifted(b, C, last, w.loop)
             x == WalkStep(s, b, w)
  <2>1. /\ s \in Seq(View) /\ Len(g) \in Nat /\ Len(s) = Len(g) - b /\ b \in Nat
        /\ ReclaimWindow \in Nat /\ DisplacementWindow \in Nat
    <3>1. s \in Seq(View) /\ Len(g) \in Nat /\ Len(s) = Len(g) - b
      BY SuffixFacts
    <3>2. b \in Nat /\ ReclaimWindow \in Nat /\ DisplacementWindow \in Nat
      BY WindowAssumption
    <3> QED BY <3>1, <3>2
  <2>2. /\ w.loop.i \in 0 .. Len(s) - 1 /\ w.loop.status \in Status
        /\ w.loop.trans \in Seq(Transitions) /\ w.count \in Nat /\ w.count <= Len(w.loop.trans)
        /\ w.loop.i < Len(s) /\ ~ w.loop.terminal /\ w.provisional \in BOOLEAN
    BY <1>2, <2>1 DEF Walks
  <2>3. step \in Steps(w.loop.i, Len(s))
    BY <2>1, <2>2, LoopStepType
  <2>4. x = Absorb(w, step)
    BY <1>2 DEF WalkStep, InnerStep
  <2> HIDE DEF step, p, x
  <2>5. /\ step.trans \in Seq(Transitions) /\ step.next \in w.loop.i + 1 .. Len(s)
        /\ step.terminal \in BOOLEAN /\ step.complete \in BOOLEAN
    BY <2>3 DEF Steps
  <2>6. /\ ~ Ended(g, p) /\ p.i = b + w.loop.i /\ p.status = w.loop.status
        /\ p.trans = C \o w.loop.trans /\ ~ p.terminal
        /\ Lifted(b, C, last, Looped(w, step)) = LoopNext(g, p)
        /\ LoopStep(g, 0, p.i, p.status).complete <=> step.complete
        /\ LoopStep(g, 0, p.i, p.status).terminal <=> step.terminal
        /\ LoopStep(g, 0, p.i, p.status).next = b + step.next
    <3>1. step = LoopStep(s, b, w.loop.i, w.loop.status) /\ p = Lifted(b, C, last, w.loop)
      BY DEF step, p
    <3>2. w.loop.i < Len(s) /\ ~ w.loop.terminal
      BY <2>2
    <3>3. Commutes(g, b, C, last, w, step, p)
      BY <3>1, <3>2, LiftStep, Zenon
    <3> QED BY <3>3 DEF Commutes
  <2>7. x.loop = Looped(w, step) /\ x.loop.i = step.next /\ x.loop.terminal = step.terminal
        /\ x.loop.trans = w.loop.trans \o step.trans
    BY <2>4 DEF Absorb, InnerState, Looped, LoopState
  <2>8. Reached(g, start, Lifted(b, C, last, x.loop))
    BY <2>6, <2>7, ReachedNext DEF SoundWalk, p
  <2>9. /\ step.terminal => step.complete /\ p.i + 1 + ReclaimWindow <= Len(g)
        /\ ~ step.complete => (b + step.next) + DisplacementWindow > Len(g)
    <3> DEFINE k == w.loop.i
               n == Len(g)
               m == Len(s)
    <3>1. k \in 0 .. m - 1 /\ m = n - b /\ n \in Nat /\ b \in Nat /\ p.i = b + k
      BY <2>1, <2>2, <2>6
    <3> HIDE DEF k, m, n
    <3>2. p.i \in 0 .. n - 1
      BY <3>1
    <3>3. p.i \in 0 .. Len(g) - 1 /\ p.status \in Status
      BY <2>2, <2>6, <3>2 DEF n
    <3> QED BY <2>6, <3>3, StepEnds
  <2>10. SubSeq(w.loop.trans \o step.trans, 1, w.count) = SubSeq(w.loop.trans, 1, w.count)
    BY <2>2, <2>5, PrefixKept
  <2>11. CASE w.provisional
    <3>1. x = InnerState(Looped(w, step), TRUE, w.boundary, w.status, w.count)
      BY <2>4, <2>11 DEF Absorb
    <3>2. /\ x.provisional /\ x.boundary = w.boundary /\ x.status = w.status /\ x.count = w.count
      BY <3>1 DEF InnerState
    <3>3. PICK q : Floor(g, start, b, C, w, q)
      BY <2>11 DEF SoundWalk
    <3>4. Floor(g, start, b, C, x, q)
      BY <2>7, <2>10, <3>2, <3>3, Zenon DEF Floor
    <3>5. b + w.loop.i + DisplacementWindow > Len(g)
      BY <2>11 DEF SoundWalk
    <3>6. ~ step.terminal
      <4>1. p.i = b + w.loop.i /\ w.loop.i \in Nat
        BY <2>2, <2>6
      <4> HIDE DEF Walks
      <4>2. ~ (p.i + 1 + ReclaimWindow <= Len(g))
        BY <2>1, <3>5, <4>1, SMTT(60)
      <4> QED BY <2>9, <4>2
    <3>7. b + x.loop.i + DisplacementWindow > Len(g)
      <4>1. step.next \in Nat /\ step.next > w.loop.i /\ w.loop.i \in Nat
        BY <2>2, <2>5
      <4> QED BY <2>1, <2>7, <3>5, <4>1, SMTT(60)
    <3> QED BY <2>7, <2>8, <3>2, <3>4, <3>6, <3>7, Zenon DEF SoundWalk, x
  <2>12. CASE ~ w.provisional /\ step.complete
    <3>1. x = InnerState(Looped(w, step), FALSE, step.next, step.status, Len(w.loop.trans \o step.trans))
      BY <2>4, <2>12 DEF Absorb
    <3>2. /\ ~ x.provisional /\ x.boundary = step.next /\ x.status = step.status
          /\ x.count = Len(w.loop.trans \o step.trans) /\ x.loop.status = step.status
      BY <3>1 DEF InnerState, Looped, LoopState
    <3>3. Settled(g, start, p) /\ Complete(g, p)
      BY <2>6, <2>12 DEF SoundWalk, Complete, p
    <3>4. Settled(g, start, Lifted(b, C, last, x.loop))
      BY <2>6, <2>7, <3>3, SettledNext
    <3> QED BY <2>7, <2>8, <3>2, <3>4, Zenon DEF SoundWalk, x
  <2>13. CASE ~ w.provisional /\ ~ step.complete
    <3>1. x = InnerState(Looped(w, step), TRUE, w.boundary, w.status, w.count)
      BY <2>4, <2>13 DEF Absorb
    <3>2. /\ x.provisional /\ x.boundary = w.boundary /\ x.status = w.status /\ x.count = w.count
      BY <3>1 DEF InnerState
    <3>3. /\ Settled(g, start, p) /\ w.boundary = w.loop.i /\ w.status = w.loop.status
          /\ w.count = Len(w.loop.trans)
      BY <2>13 DEF SoundWalk, p
    <3>4. SubSeq(w.loop.trans, 1, w.count) = w.loop.trans
      BY <2>2, <3>3, SubSeqFull
    <3>5. ~ Complete(g, p)
      BY <2>6, <2>13 DEF Complete
    <3>6. Floor(g, start, b, C, x, p)
      BY <2>6, <2>7, <2>10, <3>2, <3>3, <3>4, <3>5, Zenon DEF Floor
    <3>7. b + x.loop.i + DisplacementWindow > Len(g)
      BY <2>1, <2>5, <2>7, <2>9, <2>13
    <3> QED BY <2>7, <2>8, <2>9, <2>13, <3>2, <3>6, <3>7, Zenon DEF SoundWalk, x
  <2> QED BY <2>11, <2>12, <2>13 DEF x
<1> QED BY <1>1, <1>2

\* The inner walk over the suffix behind a settled state ends where the batch
\* walk does, and what it commits is settled.
LEMMA SoundInner ==
  ASSUME DisplacementWindow <= ReclaimWindow + 1,
         NEW g \in Seq(View), NEW start \in 0 .. Len(g),
         NEW q, Settled(g, start, q), ~ q.terminal, NEW s, s = Suffix(g, q.i),
         NEW w, w = WalkInner(s, q.i, q.status)
  PROVE  /\ w \in Walks(Len(s)) /\ q \in LoopStates(g)
         /\ SoundWalk(g, start, q.i, q.trans, q.last, w)
         /\ Ended(g, Lifted(q.i, q.trans, q.last, w.loop))
         /\ Len(s) > 0 => w.loop.last # None
<1> DEFINE b == q.i
           n == Len(s)
           Lift(p) == Lifted(b, q.trans, q.last, p)
<1>1. Reached(g, start, q) /\ q \in LoopStates(g)
  BY SettledReached, ReachedType
<1>2. /\ b \in 0 .. Len(g) /\ q.status \in Status /\ q.trans \in Seq(Transitions)
      /\ q.last \in Nat \cup {None} /\ q.terminal \in BOOLEAN
  BY <1>1 DEF LoopStates
<1>3. s \in Seq(View) /\ Len(g) \in Nat /\ n = Len(g) - b /\ b \in Nat /\ n \in Nat
  <2>1. s \in Seq(View) /\ Len(g) \in Nat /\ Len(s) = Len(g) - b
    BY <1>2, SuffixFacts
  <2> QED BY <1>2, <2>1
<1>4. PICK f : IsWalk(f, s, b, q.status, n) /\ WalkInner(s, b, q.status) = f[n]
  BY <1>3, WalkInnerRun
<1> DEFINE S == {m \in Nat : m <= n =>
                   /\ f[m] \in Walks(n)
                   /\ SoundWalk(g, start, b, q.trans, q.last, f[m])
                   /\ f[m].loop.i >= m \/ f[m].loop.i >= n \/ f[m].loop.terminal
                   /\ m > 0 => f[m].loop.last # None}
<1>5. 0 \in S
  <2> DEFINE u == WalkStart(q.status)
  <2>1. f[0] = u
    BY <1>3, <1>4 DEF IsWalk
  <2>2. u \in Walks(n)
    BY <1>2, <1>3, WalkStartType
  <2>3. /\ u.loop.i = 0 /\ u.loop.status = q.status /\ u.loop.trans = << >>
        /\ u.loop.terminal = FALSE /\ u.loop.last = None
    BY DEF WalkStart, InnerState, LoopState
  <2>4. ~ u.provisional /\ u.boundary = 0 /\ u.status = q.status /\ u.count = 0
    BY DEF WalkStart, InnerState
  <2> HIDE DEF u
  <2>5. Lift(u.loop) = q
    <3>1. q.trans \o << >> = q.trans
      BY <1>2, ConcatEmptySeq
    <3>2. b + 0 = b
      BY <1>2
    <3>3. Lift(u.loop) = LoopState(q.i, q.status, q.trans, q.terminal, q.last)
      <4>1. q.terminal = FALSE
        BY <1>2
      <4> QED BY <2>3, <3>1, <3>2, <4>1 DEF Lifted
    <3>4. q = LoopState(q.i, q.status, q.trans, q.terminal, q.last)
      BY <1>1 DEF LoopStates, LoopState
    <3> QED BY <3>3, <3>4
  <2>6. Len(u.loop.trans) = 0
    BY <2>3
  <2>7. SoundWalk(g, start, b, q.trans, q.last, u)
    BY <1>1, <2>3, <2>4, <2>5, <2>6, Zenon DEF SoundWalk
  <2> QED BY <1>3, <2>1, <2>2, <2>3, <2>7
<1>6. ASSUME NEW m \in S PROVE m + 1 \in S
  <2> SUFFICES ASSUME m + 1 <= n
               PROVE  /\ f[m + 1] \in Walks(n)
                      /\ SoundWalk(g, start, b, q.trans, q.last, f[m + 1])
                      /\ \/ f[m + 1].loop.i >= m + 1
                         \/ f[m + 1].loop.i >= n
                         \/ f[m + 1].loop.terminal
                      /\ f[m + 1].loop.last # None
    OBVIOUS
  <2>1. f[m + 1] = WalkStep(s, b, f[m])
    BY <1>3, <1>4, SMTT(60) DEF IsWalk
  <2>2. /\ f[m] \in Walks(n) /\ SoundWalk(g, start, b, q.trans, q.last, f[m])
        /\ f[m].loop.i >= m \/ f[m].loop.i >= n \/ f[m].loop.terminal
        /\ m > 0 => f[m].loop.last # None
    BY <1>3
  <2>3. f[m + 1] \in Walks(n)
    BY <1>3, <2>1, <2>2, WalkStepType
  <2>4. SoundWalk(g, start, b, q.trans, q.last, f[m + 1])
    BY <1>2, <2>1, <2>2, SoundStep
  <2>5. CASE f[m].loop.i >= n \/ f[m].loop.terminal
    <3>1. f[m + 1] = f[m]
      BY <2>1, <2>5 DEF WalkStep
    <3>2. m > 0
      <4>1. ASSUME m = 0 PROVE FALSE
        <5>1. f[0] = WalkStart(q.status)
          BY <1>3, <1>4 DEF IsWalk
        <5>2. f[0].loop.i = 0 /\ ~ f[0].loop.terminal
          BY <5>1 DEF WalkStart, InnerState, LoopState
        <5> QED BY <1>3, <2>5, <4>1, <5>2
      <4> QED BY <4>1
    <3> QED BY <2>2, <2>3, <2>4, <2>5, <3>1, <3>2
  <2>6. CASE ~ (f[m].loop.i >= n \/ f[m].loop.terminal)
    <3> DEFINE v == f[m]
               step == LoopStep(s, b, v.loop.i, v.loop.status)
    <3>1. v.loop.i \in 0 .. n - 1 /\ v.loop.status \in Status
      BY <1>3, <2>2, <2>6 DEF Walks
    <3>2. step \in Steps(v.loop.i, n)
      BY <1>3, <3>1, LoopStepType
    <3>3. f[m + 1] = Absorb(v, step)
      BY <2>1, <2>6 DEF WalkStep, InnerStep
    <3> HIDE DEF step
    <3>4. f[m + 1].loop.i = step.next /\ f[m + 1].loop.last = v.loop.i
      BY <3>3 DEF Absorb, InnerState, Looped, LoopState
    <3>5. step.next \in Nat /\ step.next >= v.loop.i + 1
      BY <1>3, <3>1, <3>2, SMTT(60) DEF Steps
    <3>6. v.loop.i # None /\ v.loop.i >= m
      BY <2>2, <2>6, <3>1 DEF None
    <3>7. step.next >= m + 1
      <4>1. v.loop.i \in Nat
        BY <3>1
      <4> HIDE DEF v
      <4> QED BY <3>5, <3>6, <4>1
    <3> QED BY <2>3, <2>4, <3>4, <3>6, <3>7
  <2> QED BY <2>5, <2>6
<1> HIDE DEF S
<1>7. S = Nat
  <2>1. S \in SUBSET Nat
    BY DEF S
  <2> QED BY <1>5, <1>6, <2>1, SetInduction
<1>8. w = f[n] /\ n \in S /\ n <= n
  BY <1>3, <1>4, <1>7
<1>9. /\ w \in Walks(n) /\ SoundWalk(g, start, b, q.trans, q.last, w)
      /\ w.loop.i >= n \/ w.loop.terminal
      /\ n > 0 => w.loop.last # None
  BY <1>8 DEF S
<1>10. Ended(g, Lift(w.loop))
  <2>1. Lift(w.loop).i = b + w.loop.i /\ Lift(w.loop).terminal = w.loop.terminal
    BY DEF Lifted, LoopState
  <2>2. w.loop.i \in Nat
    BY <1>3, <1>9 DEF Walks
  <2> HIDE DEF Lift
  <2>3. CASE w.loop.terminal
    BY <2>1, <2>3 DEF Ended
  <2>4. CASE w.loop.i >= n
    BY <1>3, <2>1, <2>2, <2>4 DEF Ended
  <2> QED BY <1>9, <2>3, <2>4
<1> QED BY <1>1, <1>9, <1>10

-----------------------------------------------------------------------------
\* The stream starts at x: its first candle available after the POI.
Begins(h, x) ==
  x \in 0 .. Len(h) - 1 /\ h[x + 1].after /\ \A k \in 0 .. x - 1 : ~ h[k + 1].after

NotBegun(h) == \A k \in 0 .. Len(h) - 1 : ~ h[k + 1].after

LEMMA StartIs ==
  ASSUME NEW h \in Seq(View)
  PROVE  /\ NotBegun(h) => StartIndex(h) = Len(h)
         /\ \A x : Begins(h, x) => StartIndex(h) = x
<1> DEFINE later == {i \in 0 .. Len(h) - 1 : h[i + 1].after}
<1>1. Len(h) \in Nat /\ later \in SUBSET Nat
  OBVIOUS
<1>2. StartIndex(h) = IF later = {} THEN Len(h) ELSE Least(later)
  BY DEF StartIndex
<1>3. NotBegun(h) => later = {}
  BY DEF NotBegun
<1>4. ASSUME NEW x, Begins(h, x) PROVE later # {} /\ Least(later) = x
  <2>1. x \in later
    BY <1>4 DEF Begins
  <2>2. \A y \in later : x <= y
    BY <1>1, <1>4 DEF Begins
  <2> HIDE DEF later
  <2> QED BY <1>1, <2>1, <2>2, LeastIs
<1> QED BY <1>2, <1>3, <1>4

LEMMA BeginsStays ==
  ASSUME NEW h \in Seq(View), NEW g, Longer(g, h), NEW x, Begins(h, x)
  PROVE  Begins(g, x)
<1>1. /\ Len(h) \in Nat /\ Len(g) = Len(h) + 1
      /\ \A k \in 0 .. Len(h) - 1 : g[k + 1] = h[k + 1]
  BY DEF Longer
<1>2. x \in 0 .. Len(h) - 1 /\ h[x + 1].after /\ \A k \in 0 .. x - 1 : ~ h[k + 1].after
  BY DEF Begins
<1>3. x \in 0 .. Len(g) - 1
  BY <1>1, <1>2
<1>4. g[x + 1].after
  BY <1>1, <1>2
<1>5. ASSUME NEW k \in 0 .. x - 1 PROVE ~ g[k + 1].after
  <2>1. k \in 0 .. Len(h) - 1
    BY <1>1, <1>2
  <2> QED BY <1>1, <1>2, <2>1
<1> QED BY <1>3, <1>4, <1>5 DEF Begins

LEMMA BeginsHere ==
  ASSUME NEW h \in Seq(View), NEW g, Longer(g, h), NotBegun(h)
  PROVE  /\ g[Len(h) + 1].after => Begins(g, Len(h))
         /\ ~ g[Len(h) + 1].after => NotBegun(g)
BY DEF Begins, NotBegun, Longer

\* A candle adds a tap where it touches the zone and the one before it did not.
LEMMA TapCountNext ==
  ASSUME NEW h \in Seq(View), NEW g, Longer(g, h), NEW start \in 0 .. Len(h)
  PROVE  /\ TapCount(h, start) \in Nat
         /\ TapCount(g, start)
              = IF g[Len(h) + 1].touch /\ (Len(h) = start \/ ~ h[Len(h)].touch)
                THEN TapCount(h, start) + 1 ELSE TapCount(h, start)
<1> DEFINE n == Len(h)
           Tap(s, i) == s[i + 1].touch /\ (i = start \/ ~ s[i].touch)
           A == {i \in start .. Len(h) - 1 : Tap(h, i)}
           B == {i \in start .. Len(g) - 1 : Tap(g, i)}
<1>1. n \in Nat /\ start \in Nat /\ Len(g) = n + 1
  BY DEF Longer
<1>2. ASSUME NEW i \in start .. n - 1 PROVE Tap(g, i) <=> Tap(h, i)
  <2>1. g[i + 1] = h[i + 1]
    BY <1>1 DEF Longer
  <2>2. CASE i = start
    BY <2>1, <2>2
  <2>3. CASE i # start
    <3>1. i - 1 \in 0 .. n - 1 /\ (i - 1) + 1 = i
      BY <1>1, <2>3
    <3>2. g[i] = h[i]
      BY <3>1 DEF Longer
    <3> QED BY <2>1, <3>2
  <2> QED BY <2>2, <2>3
<1>3. Tap(g, n) <=> (g[n + 1].touch /\ (n = start \/ ~ h[n].touch))
  <2>1. CASE n = start
    BY <2>1
  <2>2. CASE n # start
    <3>1. n - 1 \in 0 .. n - 1 /\ (n - 1) + 1 = n
      BY <1>1, <2>2
    <3>2. g[n] = h[n]
      BY <3>1 DEF Longer
    <3> QED BY <3>2
  <2> QED BY <2>1, <2>2
<1>4. start .. Len(g) - 1 = (start .. n - 1) \cup {n}
  BY <1>1
<1>5. n \notin A /\ A \subseteq start .. n - 1
  BY <1>1
<1>6. B = IF Tap(g, n) THEN A \cup {n} ELSE A
  <2> HIDE DEF Tap
  <2> QED BY <1>1, <1>2, <1>4
<1>7. IsFiniteSet(A) /\ Cardinality(A) \in Nat
  <2>1. IsFiniteSet(start .. n - 1)
    <3>1. start \in Int /\ n - 1 \in Int
      BY <1>1
    <3> QED BY <3>1, FS_Interval
  <2>2. IsFiniteSet(A)
    BY <1>5, <2>1, FS_Subset
  <2> QED BY <2>2, FS_CardinalityType
<1>8. TapCount(h, start) = Cardinality(A) /\ TapCount(g, start) = Cardinality(B)
  BY DEF TapCount
<1> HIDE DEF A, B
<1>9. Cardinality(A \cup {n}) = Cardinality(A) + 1
  BY <1>5, <1>7, FS_AddElement
<1> QED BY <1>3, <1>6, <1>7, <1>8, <1>9

LEMMA TapCountStart ==
  ASSUME NEW h \in Seq(View)
  PROVE  TapCount(h, Len(h)) = 0
<1>1. Len(h) .. Len(h) - 1 = {}
  OBVIOUS
<1>2. {i \in Len(h) .. Len(h) - 1 : h[i + 1].touch /\ (i = Len(h) \/ ~ h[i].touch)} = {}
  BY <1>1
<1> QED BY <1>2, FS_EmptySet DEF TapCount

LEMMA AppendLonger ==
  ASSUME NEW h \in Seq(View), NEW v \in View
  PROVE  /\ Longer(Append(h, v), h) /\ Append(h, v)[Len(h) + 1] = v
         /\ \A b \in 0 .. Len(h) : Suffix(Append(h, v), b) = Append(Suffix(h, b), v)
<1> DEFINE g == Append(h, v)
<1>1. Len(h) \in Nat /\ g \in Seq(View) /\ Len(g) = Len(h) + 1 /\ g[Len(h) + 1] = v
      /\ \A k \in 1 .. Len(h) : g[k] = h[k]
  BY AppendProperties
<1>2. ASSUME NEW k \in 0 .. Len(h) - 1 PROVE g[k + 1] = h[k + 1]
  BY <1>1
<1>3. ASSUME NEW b \in 0 .. Len(h) PROVE Suffix(g, b) = Append(Suffix(h, b), v)
  <2> DEFINE s == Suffix(g, b)
             t == Suffix(h, b)
             u == Append(t, v)
  <2> HIDE DEF g
  <2>1. s \in Seq(View) /\ Len(s) = Len(g) - b /\ \A k \in 0 .. Len(g) - b - 1 : s[k + 1] = g[b + k + 1]
    <3>1. b \in 0 .. Len(g)
      BY <1>1
    <3> QED BY <1>1, <3>1, SuffixType
  <2>2. t \in Seq(View) /\ Len(t) = Len(h) - b /\ \A k \in 0 .. Len(h) - b - 1 : t[k + 1] = h[b + k + 1]
    BY SuffixType
  <2> HIDE DEF s, t
  <2>3. u \in Seq(View) /\ Len(u) = Len(t) + 1 /\ u[Len(t) + 1] = v
        /\ \A k \in 1 .. Len(t) : u[k] = t[k]
    BY <2>2, AppendProperties
  <2> HIDE DEF u
  <2>4. Len(u) = Len(s) /\ Len(s) \in Nat
    BY <1>1, <2>1, <2>2, <2>3
  <2>5. ASSUME NEW i \in 1 .. Len(s) PROVE s[i] = u[i]
    <3>1. i - 1 \in 0 .. Len(g) - b - 1 /\ (i - 1) + 1 = i
      BY <1>1, <2>1, <2>4
    <3>2. s[i] = g[b + (i - 1) + 1]
      BY <2>1, <3>1
    <3>3. CASE i = Len(t) + 1
      <4>1. b + (i - 1) + 1 = Len(h) + 1
        BY <1>1, <2>2, <3>3, SMTT(60)
      <4> QED BY <1>1, <2>3, <3>2, <3>3, <4>1
    <3>4. CASE i \in 1 .. Len(t)
      <4>1. i - 1 \in 0 .. Len(h) - b - 1 /\ b + (i - 1) + 1 \in 1 .. Len(h)
        BY <1>1, <2>2, <3>4
      <4>2. t[(i - 1) + 1] = h[b + (i - 1) + 1]
        BY <2>2, <4>1
      <4> QED BY <1>1, <2>3, <3>1, <3>2, <3>4, <4>1, <4>2
    <3> QED BY <1>1, <2>1, <2>2, <3>3, <3>4
  <2> QED BY <2>1, <2>3, <2>4, <2>5, SeqEqual DEF s, t, u
<1> QED BY <1>1, <1>2, <1>3 DEF Longer

-----------------------------------------------------------------------------
(***************************************************************************)
(* The inductive invariant of a cursor fed the stream h: its committed     *)
(* part is a settled state of the batch walk of h, and its buffer the rest *)
(* of h.                                                                   *)
(***************************************************************************)
AtFloor(h, c, q) ==
  /\ Settled(h, c.start, q) /\ ~ q.terminal
  /\ q.i = c.resume /\ q.status = c.status /\ q.trans = c.committed
  /\ c.buffer = Suffix(h, c.resume)
  /\ ~ Complete(h, q)

Frozen(h, c, q) ==
  Settled(h, c.start, q) /\ q.terminal /\ q.trans = c.committed /\ q.last = c.terminalLast

Tracks(c, h) ==
  /\ WellFormed(c) /\ c.total = Len(h)
  /\ c.start = None => /\ NotBegun(h) /\ c.taps = 0
                       /\ c.status = "NO_BREACH" /\ c.committed = << >>
  /\ c.start # None =>
       /\ Begins(h, c.start) /\ c.taps = TapCount(h, c.start)
       /\ c.inTap <=> h[Len(h)].touch
       /\ IF c.terminal THEN \E q : Frozen(h, c, q) ELSE \E q : AtFloor(h, c, q)

\* What the batch engine answers, once the state its walk ends in is known.
BatchAnswer(q, taps, age) ==
  [transitions |-> q.trans, status |-> q.status, taps |-> taps, age |-> age, lastSeen |-> q.last]

LEMMA BatchResult ==
  ASSUME NEW h \in Seq(View), NEW start, Begins(h, start),
         NEW q, Reached(h, start, q), Ended(h, q)
  PROVE  RunPoiLifecycle(h) = BatchAnswer(q, TapCount(h, start), Len(h) - start)
<1>1. StartIndex(h) = start
  BY StartIs
<1>2. start \in 0 .. Len(h)
  BY DEF Begins
<1>3. BatchWalk(h, start) = q
  BY <1>2, EndedIsBatch
<1> QED BY <1>1, <1>3 DEF RunPoiLifecycle, BatchAnswer

LEMMA BatchResultNone ==
  ASSUME NEW h \in Seq(View), NotBegun(h)
  PROVE  RunPoiLifecycle(h) = [transitions |-> << >>, status |-> "NO_BREACH", taps |-> 0,
                               age |-> 0, lastSeen |-> None]
<1>1. StartIndex(h) = Len(h) /\ Len(h) \in 0 .. Len(h) /\ Len(h) - Len(h) = 0
  BY StartIs
<1> DEFINE q == StartState(Len(h))
<1>2. q.trans = << >> /\ q.status = "NO_BREACH" /\ q.last = None /\ q.i = Len(h)
  BY DEF StartState, LoopState
<1>3. Ended(h, q)
  BY <1>1, <1>2 DEF Ended
<1>4. BatchWalk(h, Len(h)) = q
  BY <1>1, <1>3, SettledStart, EndedIsBatch
<1>5. TapCount(h, Len(h)) = 0
  BY TapCountStart
<1> HIDE DEF q
<1> QED BY <1>1, <1>2, <1>4, <1>5 DEF RunPoiLifecycle

\* Counting a candle keeps the start and the taps those of the stream.
LEMMA CountTaps ==
  ASSUME NEW c, WellFormed(c), NEW v \in View
  PROVE  LET d == CountCandle(c, v) IN
         /\ d.start = None => d.taps = c.taps
         /\ d.start # None => /\ d.inTap = v.touch
                              /\ d.taps = IF v.touch /\ ~ c.inTap THEN c.taps + 1 ELSE c.taps
<1> DEFINE start == IF c.start = None /\ v.after THEN c.total ELSE c.start
           taps  == IF v.touch /\ ~ c.inTap THEN c.taps + 1 ELSE c.taps
           d == CountCandle(c, v)
<1>1. c \in Cursor /\ start = d.start
  BY CountCandleType DEF WellFormed
<1>2. d = IF start = None THEN [c EXCEPT !.total = c.total + 1]
          ELSE [c EXCEPT !.total = c.total + 1, !.start = start, !.taps = taps,
                         !.inTap = v.touch, !.tapNext = c.total + 1]
  BY DEF CountCandle
<1> HIDE DEF start, d
<1>3. CASE start = None
  BY <1>1, <1>2, <1>3 DEF Cursor, d
<1>4. CASE start # None
  <2> HIDE DEF taps
  <2>1. d.inTap = v.touch /\ d.taps = taps
    BY <1>1, <1>2, <1>4 DEF Cursor
  <2> QED BY <1>1, <1>4, <2>1 DEF d, taps
<1> QED BY <1>3, <1>4

Counted(d, g, v) ==
  /\ d.total = Len(g)
  /\ d.start = None => NotBegun(g) /\ d.taps = 0
  /\ d.start # None => /\ Begins(g, d.start) /\ d.taps = TapCount(g, d.start)
                       /\ d.inTap <=> g[Len(g)].touch

LEMMA CountTracks ==
  ASSUME NEW h \in Seq(View), NEW v \in View, NEW g, g = Append(h, v),
         NEW c, Tracks(c, h), NEW d, d = CountCandle(c, v)
  PROVE  Counted(d, g, v)
<1>1. /\ Longer(g, h) /\ g[Len(h) + 1] = v /\ Len(g) = Len(h) + 1 /\ Len(h) \in Nat
      /\ g \in Seq(View) /\ None \notin Nat
  BY AppendLonger DEF Longer, None
<1>2. /\ WellFormed(c) /\ c.total = Len(h)
      /\ c.start = None => NotBegun(h) /\ c.taps = 0 /\ ~ c.inTap
      /\ c.start # None => /\ Begins(h, c.start) /\ c.taps = TapCount(h, c.start)
                           /\ c.inTap <=> h[Len(h)].touch
  BY DEF Tracks, WellFormed
<1>3. /\ d.total = c.total + 1
      /\ d.start = IF c.start = None /\ v.after THEN c.total ELSE c.start
  BY <1>2, CountCandleType
<1>4. /\ d.start = None => d.taps = c.taps
      /\ d.start # None => /\ d.inTap = v.touch
                           /\ d.taps = IF v.touch /\ ~ c.inTap THEN c.taps + 1 ELSE c.taps
  BY <1>2, CountTaps
<1>5. CASE c.start = None /\ ~ v.after
  <2>1. NotBegun(g)
    BY <1>1, <1>2, <1>5, BeginsHere
  <2> QED BY <1>1, <1>2, <1>3, <1>4, <1>5, <2>1 DEF Counted
<1>6. CASE c.start = None /\ v.after
  <2>1. Begins(g, Len(h)) /\ d.start = Len(h) /\ d.start # None
    BY <1>1, <1>2, <1>3, <1>6, BeginsHere
  <2>2. TapCount(h, Len(h)) = 0 /\ Len(h) \in 0 .. Len(h)
    BY TapCountStart
  <2>3. TapCount(g, Len(h)) = IF v.touch THEN 1 ELSE 0
    <3>1. TapCount(g, Len(h))
            = IF g[Len(h) + 1].touch /\ (Len(h) = Len(h) \/ ~ h[Len(h)].touch)
              THEN TapCount(h, Len(h)) + 1 ELSE TapCount(h, Len(h))
      BY <1>1, <2>2, TapCountNext, Zenon
    <3> QED BY <1>1, <2>2, <3>1
  <2>4. d.taps = TapCount(g, d.start)
    BY <1>2, <1>4, <1>6, <2>1, <2>3
  <2>5. d.inTap = v.touch /\ g[Len(g)] = v
    BY <1>1, <1>4, <2>1
  <2> QED BY <1>1, <1>2, <1>3, <2>1, <2>4, <2>5 DEF Counted
<1>7. CASE c.start # None
  <2>1. d.start = c.start /\ Begins(g, d.start)
    BY <1>1, <1>2, <1>3, <1>7, BeginsStays
  <2>2. c.start \in 0 .. Len(h) /\ Len(h) # c.start
    BY <1>2, <1>7 DEF Begins
  <2>3. TapCount(g, c.start) = IF v.touch /\ ~ h[Len(h)].touch
                               THEN TapCount(h, c.start) + 1 ELSE TapCount(h, c.start)
    <3> DEFINE x == c.start
    <3>1. Longer(g, h) /\ x \in 0 .. Len(h)
      BY <1>1, <2>2
    <3> HIDE DEF x
    <3>2. TapCount(g, x) = IF g[Len(h) + 1].touch /\ (Len(h) = x \/ ~ h[Len(h)].touch)
                           THEN TapCount(h, x) + 1 ELSE TapCount(h, x)
      BY <3>1, TapCountNext
    <3> QED BY <1>1, <2>2, <3>2 DEF x
  <2>4. d.taps = TapCount(g, d.start)
    BY <1>2, <1>4, <1>7, <2>1, <2>3
  <2>5. d.inTap = v.touch /\ g[Len(g)] = v
    BY <1>1, <1>4, <1>7, <2>1
  <2> QED BY <1>1, <1>2, <1>3, <1>7, <2>1, <2>4, <2>5 DEF Counted
<1> QED BY <1>5, <1>6, <1>7

\* A suffix of a suffix.
LEMMA SuffixSuffix ==
  ASSUME NEW h \in Seq(View), NEW a \in 0 .. Len(h), NEW b \in 0 .. Len(h) - a
  PROVE  Suffix(Suffix(h, a), b) = Suffix(h, a + b)
<1> DEFINE s == Suffix(h, a)
           t == Suffix(s, b)
           u == Suffix(h, a + b)
<1>0. Len(h) \in Nat
  OBVIOUS
<1>1. /\ s \in Seq(View) /\ Len(s) = Len(h) - a
      /\ \A k \in 0 .. Len(h) - a - 1 : s[k + 1] = h[a + k + 1]
  BY SuffixType
<1> HIDE DEF s
<1>2. t \in Seq(View) /\ Len(t) = Len(s) - b /\ \A k \in 0 .. Len(s) - b - 1 : t[k + 1] = s[b + k + 1]
  <2>1. b \in 0 .. Len(s)
    BY <1>0, <1>1
  <2> QED BY <1>0, <1>1, <2>1, SuffixType
<1>3. /\ u \in Seq(View) /\ Len(u) = Len(h) - (a + b)
      /\ \A k \in 0 .. Len(h) - (a + b) - 1 : u[k + 1] = h[(a + b) + k + 1]
  <2>1. a + b \in 0 .. Len(h)
    BY <1>0, <1>1
  <2> QED BY <2>1, SuffixType
<1> HIDE DEF t, u
<1>4. Len(t) = Len(u) /\ Len(t) = Len(h) - (a + b) /\ Len(t) \in Nat
  BY <1>0, <1>1, <1>2, <1>3
<1>5. ASSUME NEW i \in 1 .. Len(t) PROVE t[i] = u[i]
  <2>1. /\ i - 1 \in 0 .. Len(s) - b - 1 /\ (i - 1) + 1 = i /\ i - 1 \in 0 .. Len(h) - (a + b) - 1
        /\ b + (i - 1) \in 0 .. Len(h) - a - 1
        /\ a + (b + (i - 1)) + 1 = (a + b) + (i - 1) + 1
    BY <1>0, <1>1, <1>4
  <2>2. t[i] = s[b + (i - 1) + 1]
    BY <1>2, <2>1
  <2>3. s[b + (i - 1) + 1] = h[a + (b + (i - 1)) + 1]
    BY <1>0, <1>1, <2>1
  <2>4. u[i] = h[(a + b) + (i - 1) + 1]
    BY <1>3, <2>1
  <2> QED BY <2>1, <2>2, <2>3, <2>4
<1> QED BY <1>2, <1>3, <1>4, <1>5, SeqEqual DEF s, t, u

LEMMA SuffixEnds ==
  ASSUME NEW h \in Seq(View)
  PROVE  Suffix(h, Len(h)) = << >>
<1>1. Len(h) + 1 \in Int /\ Len(h) \in Int /\ Len(h) < Len(h) + 1
  OBVIOUS
<1> QED BY <1>1, SubSeqEmpty DEF Suffix

\* The floor the walk of a new candle starts from.
Opens(d, h, g, q) ==
  /\ Settled(g, d.start, q) /\ ~ q.terminal
  /\ q.i = d.resume /\ q.status = d.status /\ q.trans = d.committed
  /\ d.buffer = Suffix(h, d.resume) /\ d.resume \in 0 .. Len(h) /\ d.start <= d.resume

LEMMA OpenFloor ==
  ASSUME NEW h \in Seq(View), NEW v \in View, NEW g, g = Append(h, v),
         NEW c, Tracks(c, h), ~ c.terminal, NEW d, d = CountCandle(c, v), d.start # None
  PROVE  \E q : Opens(d, h, g, q)
<1>1. Longer(g, h) /\ Len(h) \in Nat /\ None \notin Nat
  BY AppendLonger DEF None
<1>2. /\ WellFormed(c) /\ c \in Cursor /\ c.total = Len(h)
      /\ c.start = None => c.buffer = << >> /\ c.status = "NO_BREACH" /\ c.committed = << >>
      /\ c.resume + Len(c.buffer) = c.total
      /\ c.start # None => Begins(h, c.start) /\ c.start <= c.resume /\ \E q : AtFloor(h, c, q)
  BY DEF Tracks, WellFormed
<1>3. /\ d.start = IF c.start = None /\ v.after THEN c.total ELSE c.start
      /\ d.resume = c.resume /\ d.buffer = c.buffer /\ d.status = c.status
      /\ d.committed = c.committed
  BY <1>2, CountCandleType
<1>4. CASE c.start = None
  <2>1. Len(<< >>) = 0
    OBVIOUS
  <2>2. c.resume = Len(h) /\ d.start = Len(h) /\ d.resume = Len(h)
    <3>1. c.resume \in Nat
      BY <1>2 DEF Cursor
    <3> QED BY <1>1, <1>2, <1>3, <1>4, <2>1, <3>1
  <2> DEFINE q == StartState(Len(h))
  <2>3. Settled(g, Len(h), q)
    BY SettledStart
  <2>4. q.i = Len(h) /\ q.status = "NO_BREACH" /\ q.trans = << >> /\ ~ q.terminal
    BY DEF StartState, LoopState
  <2>5. Suffix(h, Len(h)) = << >>
    BY SuffixEnds
  <2> HIDE DEF q
  <2>6. Opens(d, h, g, q)
    BY <1>1, <1>2, <1>3, <1>4, <2>2, <2>3, <2>4, <2>5 DEF Opens
  <2> QED BY <2>6
<1>5. CASE c.start # None
  <2>1. PICK q : AtFloor(h, c, q)
    BY <1>2, <1>5
  <2>2. c.start \in 0 .. Len(h) /\ d.start = c.start
    BY <1>2, <1>3, <1>5 DEF Begins
  <2>3. Settled(g, c.start, q)
    BY <1>1, <2>1, <2>2, SettledStays DEF AtFloor
  <2>4. q.i \in 0 .. Len(h)
    BY <2>1, <2>2, SettledReached, ReachedType DEF AtFloor, LoopStates
  <2>5. Opens(d, h, g, q)
    BY <1>2, <1>3, <1>5, <2>1, <2>2, <2>3, <2>4 DEF Opens, AtFloor
  <2> QED BY <2>5
<1> QED BY <1>4, <1>5

Remains(d, g, e) ==
  /\ e.total = d.total /\ e.start = d.start /\ e.taps = d.taps /\ e.inTap = d.inTap
  /\ IF e.terminal THEN \E q : Frozen(g, e, q) ELSE \E q : AtFloor(g, e, q)

\* The walk of the new candle: its result is the batch engine's, and the floor
\* it leaves is settled again.
LEMMA WalkTracks ==
  ASSUME DisplacementWindow <= ReclaimWindow + 1,
         NEW h \in Seq(View), NEW v \in View, NEW g, g = Append(h, v),
         NEW d \in Cursor, d.start # None, ~ d.terminal, Counted(d, g, v),
         NEW q, Opens(d, h, g, q)
  PROVE  /\ WalkCandle(d, v).result = RunPoiLifecycle(g)
         /\ Remains(d, g, WalkCandle(d, v).cursor)
<1> DEFINE b == d.resume
           s == Suffix(g, q.i)
           w == WalkInner(s, q.i, q.status)
           p == Lifted(q.i, q.trans, q.last, w.loop)
           all == d.committed \o w.loop.trans
           kept == d.committed \o SubSeq(w.loop.trans, 1, w.count)
           rest == SubSeq(s, w.boundary + 1, Len(s))
           last == LastSeen(b, w.loop.last)
           floor == b + w.boundary
           e == WalkCandle(d, v).cursor
<1>1. /\ Longer(g, h) /\ g \in Seq(View) /\ Len(g) = Len(h) + 1 /\ Len(h) \in Nat
      /\ Suffix(g, b) = Append(Suffix(h, b), v)
  BY AppendLonger DEF Opens, Longer
<1>2. /\ Settled(g, d.start, q) /\ ~ q.terminal /\ q.i = b /\ q.status = d.status
      /\ q.trans = d.committed /\ d.buffer = Suffix(h, b) /\ b \in 0 .. Len(h) /\ d.start <= b
  BY DEF Opens
<1>3. d.total = Len(g) /\ Begins(g, d.start) /\ d.taps = TapCount(g, d.start)
  BY DEF Counted
<1>4. /\ d.start \in 0 .. Len(g) /\ d.start \in Nat /\ d.committed \in Seq(Transitions) /\ b \in Nat
      /\ b \in 0 .. Len(g)
  BY <1>1, <1>2, <1>3 DEF Begins, Cursor
<1>5. /\ w \in Walks(Len(s)) /\ q \in LoopStates(g)
      /\ SoundWalk(g, d.start, q.i, q.trans, q.last, w) /\ Ended(g, p)
      /\ Len(s) > 0 => w.loop.last # None
  <2> HIDE DEF s, w
  <2>1. s = Suffix(g, q.i) /\ w = WalkInner(s, q.i, q.status)
    BY DEF s, w
  <2> QED BY <1>1, <1>2, <1>4, <2>1, SoundInner
<1>6. s \in Seq(View) /\ Len(s) = Len(g) - b /\ Len(s) > 0
  <2>1. s \in Seq(View) /\ Len(s) = Len(g) - b
    BY <1>1, <1>2, <1>4, SuffixType
  <2> QED BY <1>1, <1>2, <2>1
<1>7. ExtendBuffer(d, v, b, d.total) = s
  <2>1. Append(d.buffer, v) = s
    BY <1>1, <1>2
  <2>2. ~ (b - (d.total - Len(s)) > 0)
    <3> HIDE DEF s
    <3> QED BY <1>1, <1>3, <1>4, <1>6
  <2> HIDE DEF s
  <2> QED BY <2>1, <2>2, Zenon DEF ExtendBuffer
<1> HIDE DEF s
<1>8. WalkCandle(d, v) = Settle(d, b, s, w)
  <2>1. ~ (d.resume < d.start)
    BY <1>2, <1>4
  <2> QED BY <1>2, <1>7, <2>1 DEF WalkCandle
<1> HIDE DEF w
<1>9. /\ WalkCandle(d, v).result = Result(all, w.loop.status, d, last)
      /\ e = IF w.loop.terminal
             THEN [d EXCEPT !.resume = floor, !.status = w.loop.status, !.committed = all,
                            !.terminal = TRUE, !.terminalLast = last, !.buffer = << >>]
             ELSE [d EXCEPT !.resume = floor, !.status = w.status, !.committed = kept,
                            !.buffer = rest]
  BY <1>8 DEF Settle
<1>10. p = LoopState(b + w.loop.i, w.loop.status, all, w.loop.terminal, last)
  BY <1>2, <1>5, <1>6 DEF Lifted, LastSeen
<1> HIDE DEF p, e
<1>11. /\ p.i = b + w.loop.i /\ p.status = w.loop.status /\ p.trans = all
       /\ p.terminal = w.loop.terminal /\ p.last = last
  BY <1>10 DEF LoopState
<1>12. Reached(g, d.start, p)
  BY <1>5 DEF SoundWalk, p
<1>13. WalkCandle(d, v).result = RunPoiLifecycle(g)
  <2>1. RunPoiLifecycle(g) = BatchAnswer(p, TapCount(g, d.start), Len(g) - d.start)
    BY <1>1, <1>3, <1>5, <1>12, BatchResult
  <2>2. Result(all, w.loop.status, d, last) = BatchAnswer(p, TapCount(g, d.start), Len(g) - d.start)
    BY <1>3, <1>11 DEF Result, BatchAnswer
  <2> QED BY <1>9, <2>1, <2>2
<1>14. /\ w.loop.i \in 0 .. Len(s) /\ w.boundary \in 0 .. Len(s) /\ w.provisional \in BOOLEAN
       /\ w.loop.trans \in Seq(Transitions) /\ w.count \in Nat /\ w.loop.terminal \in BOOLEAN
  BY <1>5 DEF Walks
<1> HIDE DEF all, kept, rest, last, floor
<1>15. CASE w.loop.terminal
  <2>1. ~ w.provisional /\ Settled(g, d.start, p)
    BY <1>5, <1>15 DEF SoundWalk, p
  <2> DEFINE none == << >>
  <2>2. e = [d EXCEPT !.resume = floor, !.status = w.loop.status, !.committed = all,
                      !.terminal = TRUE, !.terminalLast = last, !.buffer = none]
    BY <1>9, <1>15
  <2> HIDE DEF none
  <2>3. /\ e.total = d.total /\ e.start = d.start /\ e.taps = d.taps /\ e.inTap = d.inTap
        /\ e.terminal /\ e.committed = all /\ e.terminalLast = last
    BY <2>2 DEF Cursor
  <2>4. Frozen(g, e, p)
    BY <1>11, <1>15, <2>1, <2>3 DEF Frozen
  <2> QED BY <1>13, <2>3, <2>4 DEF Remains, e
<1>16. CASE ~ w.loop.terminal
  <2>1. /\ e.total = d.total /\ e.start = d.start /\ e.taps = d.taps /\ e.inTap = d.inTap
        /\ ~ e.terminal /\ e.resume = floor /\ e.status = w.status /\ e.committed = kept
        /\ e.buffer = rest
    BY <1>9, <1>16 DEF Cursor
  <2>2. e.buffer = Suffix(g, e.resume)
    <3>1. rest = Suffix(s, w.boundary)
      BY DEF rest, Suffix
    <3>2. w.boundary \in 0 .. Len(g) - b
      BY <1>6, <1>14
    <3>3. Suffix(Suffix(g, b), w.boundary) = Suffix(g, b + w.boundary)
      BY <1>1, <1>4, <3>2, SuffixSuffix
    <3>4. s = Suffix(g, b)
      BY <1>2 DEF s
    <3> QED BY <2>1, <3>1, <3>3, <3>4 DEF floor
  <2>3. CASE w.provisional
    <3>1. PICK r : Floor(g, d.start, q.i, q.trans, w, r)
      BY <1>5, <2>3 DEF SoundWalk
    <3>2. /\ Settled(g, d.start, r) /\ r.i = floor /\ r.status = w.status /\ r.trans = kept
          /\ ~ r.terminal /\ ~ Complete(g, r)
      BY <1>2, <3>1 DEF Floor, Ended, kept, floor
    <3>3. AtFloor(g, e, r)
      BY <2>1, <2>2, <3>2 DEF AtFloor
    <3> QED BY <1>13, <2>1, <3>3 DEF Remains, e
  <2>4. CASE ~ w.provisional
    <3>1. /\ Settled(g, d.start, p) /\ w.boundary = w.loop.i /\ w.status = w.loop.status
          /\ w.count = Len(w.loop.trans)
      BY <1>5, <2>4 DEF SoundWalk, p
    <3>2. kept = all
      <4>1. SubSeq(w.loop.trans, 1, Len(w.loop.trans)) = w.loop.trans
        BY <1>14, SubSeqFull
      <4> QED BY <3>1, <4>1 DEF kept, all
    <3>3. ~ Complete(g, p)
      BY <1>5 DEF Complete
    <3>4. AtFloor(g, e, p)
      BY <1>11, <1>16, <2>1, <2>2, <3>1, <3>2, <3>3 DEF AtFloor, floor
    <3> QED BY <1>13, <2>1, <3>4 DEF Remains, e
  <2> QED BY <2>3, <2>4
<1> QED BY <1>15, <1>16

-----------------------------------------------------------------------------
\* The cursor's law, for every stream: fed the next candle it answers what the
\* batch engine answers for the longer stream, and its invariant holds again.
LEMMA AdvanceTracks ==
  ASSUME DisplacementWindow <= ReclaimWindow + 1,
         NEW h \in Seq(View), NEW v \in View, NEW c, Tracks(c, h)
  PROVE  /\ Tracks(AdvanceCursor(c, v).cursor, Append(h, v))
         /\ AdvanceCursor(c, v).result = RunPoiLifecycle(Append(h, v))
<1> DEFINE g == Append(h, v)
           d == CountCandle(c, v)
           e == AdvanceCursor(c, v).cursor
<1>1. Longer(g, h) /\ g \in Seq(View) /\ Len(g) = Len(h) + 1 /\ Len(h) \in Nat
  BY AppendLonger DEF Longer
<1>2. WellFormed(c) /\ c \in Cursor /\ c.total = Len(h) /\ (c.start = None => ~ c.terminal)
  BY DEF Tracks, WellFormed
<1>3. WellFormed(e) /\ e.total = Len(g)
  BY <1>1, <1>2, AdvanceWellFormed
<1> HIDE DEF g, d, e
<1>4. Counted(d, g, v)
  BY CountTracks DEF g, d
<1>5. /\ d \in Cursor /\ d.start = IF c.start = None /\ v.after THEN c.total ELSE c.start
      /\ d.terminal = c.terminal /\ d.committed = c.committed /\ d.terminalLast = c.terminalLast
      /\ d.status = c.status
  BY <1>2, CountCandleType DEF d
<1>6. /\ AdvanceCursor(c, v).cursor = e
      /\ AdvanceCursor(c, v) =
           IF c.terminal
           THEN [cursor |-> d, result |-> Result(c.committed, "GENUINE_INVALIDATION_CONFIRMED",
                                                 d, c.terminalLast)]
           ELSE IF d.start = None
           THEN [cursor |-> [d EXCEPT !.resume = d.total],
                 result |-> Result(<< >>, "NO_BREACH", d, None)]
           ELSE WalkCandle(d, v)
  BY DEF AdvanceCursor, d, e
<1>7. CASE c.terminal
  <2>1. c.start # None /\ d.start = c.start
    BY <1>2, <1>5, <1>7
  <2>2. PICK q : Frozen(h, c, q)
    BY <1>7, <2>1 DEF Tracks
  <2>3. Begins(h, c.start) /\ c.start \in 0 .. Len(h)
    BY <2>1 DEF Tracks, Begins
  <2>4. /\ Settled(g, c.start, q) /\ q.terminal /\ q.trans = c.committed
        /\ q.last = c.terminalLast
    BY <1>1, <2>2, <2>3, SettledStays DEF Frozen
  <2>5. Reached(g, c.start, q) /\ q.status = "GENUINE_INVALIDATION_CONFIRMED" /\ Ended(g, q)
    <3>1. Reached(h, c.start, q)
      BY <2>2, SettledReached DEF Frozen
    <3>2. q.status = "GENUINE_INVALIDATION_CONFIRMED"
      BY <2>3, <2>4, <3>1, ReachedType
    <3> QED BY <2>4, <3>2, SettledReached DEF Ended
  <2>6. d.total = Len(g) /\ Begins(g, d.start) /\ d.taps = TapCount(g, d.start)
    BY <1>2, <1>4, <2>1 DEF Counted
  <2>7. RunPoiLifecycle(g) = BatchAnswer(q, TapCount(g, d.start), Len(g) - d.start)
    BY <1>1, <2>1, <2>5, <2>6, BatchResult
  <2>8. Result(c.committed, "GENUINE_INVALIDATION_CONFIRMED", d, c.terminalLast)
          = BatchAnswer(q, TapCount(g, d.start), Len(g) - d.start)
    BY <2>1, <2>4, <2>5, <2>6 DEF Result, BatchAnswer
  <2>9. e = d /\ AdvanceCursor(c, v).result = RunPoiLifecycle(g)
    BY <1>6, <1>7, <2>7, <2>8
  <2>10. Frozen(g, d, q)
    BY <1>5, <2>1, <2>4 DEF Frozen
  <2>11. Tracks(d, g)
    BY <1>3, <1>4, <1>5, <1>7, <2>1, <2>9, <2>10 DEF Tracks, Counted
  <2> QED BY <2>9, <2>11 DEF g, e
<1>8. CASE ~ c.terminal /\ d.start = None
  <2>1. /\ e = [d EXCEPT !.resume = d.total]
        /\ AdvanceCursor(c, v).result = Result(<< >>, "NO_BREACH", d, None)
    BY <1>6, <1>8
  <2>2. e.start = None /\ e.taps = d.taps /\ e.status = d.status /\ e.committed = d.committed
    BY <1>5, <1>8, <2>1 DEF Cursor
  <2>3. c.start = None
    BY <1>2, <1>5, <1>8 DEF None, Cursor
  <2>4. c.status = "NO_BREACH" /\ c.committed = << >>
    BY <2>3 DEF Tracks
  <2>5. NotBegun(g) /\ d.taps = 0
    BY <1>4, <1>8 DEF Counted
  <2>6. Tracks(e, g)
    BY <1>3, <1>5, <2>2, <2>4, <2>5 DEF Tracks
  <2>7. RunPoiLifecycle(g) = Result(<< >>, "NO_BREACH", d, None)
    BY <1>1, <1>8, <2>5, BatchResultNone DEF Result
  <2> QED BY <2>1, <2>6, <2>7 DEF g, e
<1>9. CASE ~ c.terminal /\ d.start # None
  <2>1. PICK q : Opens(d, h, g, q)
    BY <1>9, OpenFloor DEF g, d
  <2>2. /\ WalkCandle(d, v).result = RunPoiLifecycle(g)
        /\ Remains(d, g, WalkCandle(d, v).cursor)
    BY <1>4, <1>5, <1>9, <2>1, WalkTracks DEF g
  <2>3. AdvanceCursor(c, v) = WalkCandle(d, v) /\ e = WalkCandle(d, v).cursor
    BY <1>6, <1>9
  <2>4. Remains(d, g, e)
    BY <2>2, <2>3
  <2>5. Tracks(e, g)
    BY <1>3, <1>4, <1>9, <2>4 DEF Tracks, Remains, Counted
  <2> QED BY <2>2, <2>3, <2>5 DEF g, e
<1> QED BY <1>7, <1>8, <1>9

\* A cursor that was fed nothing answers for the empty stream.
LEMMA CreateTracks ==
  /\ Tracks(CreateCursor, << >>)
  /\ Result(<< >>, "NO_BREACH", CreateCursor, None) = RunPoiLifecycle(<< >>)
<1>1. << >> \in Seq(View) /\ Len(<< >>) = 0
  OBVIOUS
<1>2. /\ WellFormed(CreateCursor) /\ CreateCursor.total = 0 /\ CreateCursor.start = None
      /\ CreateCursor.taps = 0 /\ CreateCursor.status = "NO_BREACH"
      /\ CreateCursor.committed = << >>
  BY CreateWellFormed DEF CreateCursor
<1>3. NotBegun(<< >>)
  BY <1>1 DEF NotBegun
<1>4. Tracks(CreateCursor, << >>)
  BY <1>1, <1>2, <1>3 DEF Tracks
<1>5. RunPoiLifecycle(<< >>) = [transitions |-> << >>, status |-> "NO_BREACH", taps |-> 0,
                                age |-> 0, lastSeen |-> None]
  BY <1>1, <1>3, BatchResultNone
<1>6. Result(<< >>, "NO_BREACH", CreateCursor, None) = RunPoiLifecycle(<< >>)
  BY <1>2, <1>5 DEF Result
<1> QED BY <1>4, <1>6

-----------------------------------------------------------------------------
(***************************************************************************)
(* What the cursor commits is a prefix of what it answers from then on.    *)
(***************************************************************************)
LEMMA PrefixOfConcat ==
  ASSUME NEW S, NEW u \in Seq(S), NEW v \in Seq(S)
  PROVE  IsPrefix(u, u \o v)
<1>1. Len(u) \in Nat /\ Len(v) \in Nat /\ Len(u \o v) = Len(u) + Len(v)
  OBVIOUS
<1>2. SubSeq(u \o v, 1, Len(u)) = SubSeq(u, 1, Len(u))
  BY <1>1, PrefixKept
<1>3. Len(u) <= Len(u \o v)
  <2> DEFINE a == Len(u)
             b == Len(v)
             c == Len(u \o v)
  <2>1. a \in Nat /\ b \in Nat /\ c = a + b
    BY <1>1
  <2> HIDE DEF a, b, c
  <2>2. a <= c
    BY <2>1
  <2> QED BY <2>2 DEF a, c
<1> QED BY <1>2, <1>3 DEF IsPrefix

LEMMA PrefixOfItself ==
  ASSUME NEW S, NEW u \in Seq(S)
  PROVE  IsPrefix(u, u)
BY DEF IsPrefix

LEMMA PrefixEmpty ==
  ASSUME NEW S, NEW u \in Seq(S)
  PROVE  IsPrefix(<< >>, u)
<1>1. << >> \in Seq(S) /\ << >> \o u = u
  BY ConcatEmptySeq
<1> QED BY <1>1, PrefixOfConcat

LEMMA AdvanceExtends ==
  ASSUME NEW c, WellFormed(c), NEW v \in View
  PROVE  /\ IsPrefix(c.committed, AdvanceCursor(c, v).cursor.committed)
         /\ c.start # None => IsPrefix(c.committed, AdvanceCursor(c, v).result.transitions)
<1> DEFINE d == CountCandle(c, v)
           a == AdvanceCursor(c, v)
<1>1. c \in Cursor /\ c.committed \in Seq(Transitions) /\ c.total # None
      /\ (~ c.terminal => c.resume + Len(c.buffer) = c.total)
      /\ (~ c.terminal /\ c.start # None => c.start <= c.resume)
      /\ (c.start = None => ~ c.terminal /\ c.buffer = << >>)
  BY DEF WellFormed, Cursor, None
<1>2. /\ d \in Cursor /\ d.committed = c.committed /\ d.terminal = c.terminal
      /\ d.start = IF c.start = None /\ v.after THEN c.total ELSE c.start
      /\ d.resume = c.resume /\ d.buffer = c.buffer /\ d.status = c.status
  BY CountCandleType
<1>3. a = IF c.terminal
          THEN [cursor |-> d, result |-> Result(c.committed, "GENUINE_INVALIDATION_CONFIRMED",
                                                d, c.terminalLast)]
          ELSE IF d.start = None
          THEN [cursor |-> [d EXCEPT !.resume = d.total],
                result |-> Result(<< >>, "NO_BREACH", d, None)]
          ELSE WalkCandle(d, v)
  BY DEF AdvanceCursor
<1> HIDE DEF d, a
<1>4. CASE c.terminal
  <2>1. a.cursor.committed = c.committed /\ a.result.transitions = c.committed
    BY <1>2, <1>3, <1>4 DEF Result
  <2> QED BY <1>1, <2>1, PrefixOfItself DEF a
<1>5. CASE ~ c.terminal /\ d.start = None
  <2>1. a.cursor.committed = c.committed /\ c.start = None
    BY <1>1, <1>2, <1>3, <1>5 DEF Cursor
  <2> QED BY <1>1, <2>1, PrefixOfItself DEF a
<1>6. CASE ~ c.terminal /\ d.start # None
  <2> DEFINE resume == IF d.resume < d.start THEN d.start ELSE d.resume
             s == ExtendBuffer(d, v, resume, d.total)
             w == WalkInner(s, resume, d.status)
  <2>1. a = Settle(d, resume, s, w)
    BY <1>3, <1>6 DEF WalkCandle
  <2>2. s \in Seq(View) /\ resume \in Nat /\ d.status \in Status
    <3> DEFINE buffer == Append(d.buffer, v)
               offset == resume - (d.total - Len(buffer))
    <3>1. /\ d.resume \in Nat /\ d.start \in Nat /\ d.total \in Nat /\ d.buffer \in Seq(View)
          /\ d.status \in Status
      BY <1>2, <1>6 DEF Cursor
    <3>2. buffer \in Seq(View) /\ Len(buffer) \in Nat
      BY <3>1
    <3>3. resume \in Nat
      BY <3>1
    <3>4. s = IF offset > 0 THEN SubSeq(buffer, offset + 1, Len(buffer)) ELSE buffer
      BY DEF ExtendBuffer
    <3> HIDE DEF buffer, resume
    <3>5. offset \in Int
      BY <3>1, <3>2, <3>3
    <3> HIDE DEF offset, s
    <3>6. offset > 0 => SubSeq(buffer, offset + 1, Len(buffer)) \in Seq(View)
      <4>1. offset > 0 => \A i \in offset + 1 .. Len(buffer) : buffer[i] \in View
        BY <3>2, <3>5
      <4> QED BY <3>2, <3>5, <4>1, SubSeqProperties
    <3> QED BY <3>1, <3>2, <3>3, <3>4, <3>6 DEF s
  <2> HIDE DEF resume, s
  <2>3. w \in Walks(Len(s))
    BY <2>2, WalkInnerType
  <2> HIDE DEF w
  <2>4. w.loop.trans \in Seq(Transitions) /\ w.count \in Nat /\ w.count <= Len(w.loop.trans)
    BY <2>3 DEF Walks
  <2> DEFINE all == c.committed \o w.loop.trans
             kept == c.committed \o SubSeq(w.loop.trans, 1, w.count)
  <2>5. /\ a.result.transitions = all
        /\ a.cursor.committed = IF w.loop.terminal THEN all ELSE kept
    BY <1>2, <2>1 DEF Settle, Result, Cursor
  <2>6. SubSeq(w.loop.trans, 1, w.count) \in Seq(Transitions)
    BY <2>4
  <2>7. IsPrefix(c.committed, all) /\ IsPrefix(c.committed, kept)
    BY <1>1, <2>4, <2>6, PrefixOfConcat
  <2> HIDE DEF all, kept
  <2> QED BY <2>5, <2>7 DEF a
<1> QED BY <1>4, <1>5, <1>6

-----------------------------------------------------------------------------
(***************************************************************************)
(* What a longer stream's walk withdraws: it runs in lockstep with the     *)
(* shorter one's, up to the verdicts of the windows that were open.        *)
(***************************************************************************)
LEMMA ToSetConcat ==
  ASSUME NEW S, NEW u \in Seq(S), NEW v \in Seq(S)
  PROVE  ToSet(u \o v) = ToSet(u) \cup ToSet(v)
<1> DEFINE w == u \o v
           m == Len(u)
           n == Len(v)
<1>1. /\ m \in Nat /\ n \in Nat /\ DOMAIN u = 1 .. m /\ DOMAIN v = 1 .. n
      /\ DOMAIN w = 1 .. m + n
      /\ \A i \in 1 .. m + n : w[i] = IF i <= m THEN u[i] ELSE v[i - m]
  <2>1. w \in Seq(S) /\ Len(w) = m + n /\ m \in Nat /\ n \in Nat
        /\ \A i \in 1 .. m + n : w[i] = IF i <= m THEN u[i] ELSE v[i - m]
    BY ConcatProperties
  <2> QED BY <2>1
<1> HIDE DEF w, m, n
<1>2. ASSUME NEW x \in ToSet(w) PROVE x \in ToSet(u) \cup ToSet(v)
  <2>1. PICK i \in 1 .. m + n : x = w[i]
    BY <1>1 DEF ToSet
  <2>2. CASE i <= m
    BY <1>1, <2>1, <2>2 DEF ToSet
  <2>3. CASE ~ (i <= m)
    <3>1. i - m \in 1 .. n /\ x = v[i - m]
      BY <1>1, <2>1, <2>3
    <3> QED BY <1>1, <3>1 DEF ToSet
  <2> QED BY <2>2, <2>3
<1>3. ASSUME NEW x \in ToSet(u) PROVE x \in ToSet(w)
  <2>1. PICK i \in 1 .. m : x = u[i]
    BY <1>1 DEF ToSet
  <2>2. i \in 1 .. m + n /\ w[i] = x
    BY <1>1, <2>1
  <2> QED BY <1>1, <2>2 DEF ToSet
<1>4. ASSUME NEW x \in ToSet(v) PROVE x \in ToSet(w)
  <2>1. PICK i \in 1 .. n : x = v[i]
    BY <1>1 DEF ToSet
  <2>2. m + i \in 1 .. m + n /\ w[m + i] = x
    BY <1>1, <2>1
  <2> QED BY <1>1, <2>2 DEF ToSet
<1> QED BY <1>2, <1>3, <1>4 DEF w

LEMMA ToSetTuples ==
  ASSUME NEW a, NEW b
  PROVE  ToSet(<< >>) = {} /\ ToSet(<<a>>) = {a} /\ ToSet(<<a, b>>) = {a, b}
<1>1. DOMAIN << >> = {} /\ DOMAIN <<a>> = {1} /\ DOMAIN <<a, b>> = {1, 2}
  <2>1. /\ DOMAIN << >> = 1 .. 0 /\ DOMAIN <<a>> = 1 .. 1 /\ DOMAIN <<a, b>> = 1 .. 2
    OBVIOUS
  <2> QED BY <2>1
<1>2. <<a>>[1] = a /\ <<a, b>>[1] = a /\ <<a, b>>[2] = b
  OBVIOUS
<1> QED BY <1>1, <1>2 DEF ToSet

LEMMA ToSetAppend ==
  ASSUME NEW S, NEW u \in Seq(S), NEW x \in S
  PROVE  ToSet(Append(u, x)) = ToSet(u) \cup {x}
<1>1. Append(u, x) = u \o <<x>> /\ <<x>> \in Seq(S)
  BY AppendIsConcat
<1>2. ToSet(u \o <<x>>) = ToSet(u) \cup ToSet(<<x>>)
  BY <1>1, ToSetConcat
<1>3. ToSet(<<x>>) = {x}
  BY ToSetTuples
<1> QED BY <1>1, <1>2, <1>3

\* The transitions of each kind of step.
LEMMA TransSets ==
  ASSUME NEW i \in Int, NEW j \in Int, NEW k \in Int, NEW empty \in BOOLEAN, NEW genuine \in BOOLEAN
  PROVE  /\ ToSet(DisplacedTrans(i, j, k))
              = {Transition("CLOSE_BREACH_CANDIDATE", i), Transition("RECLAIM_CONFIRMED", j),
                 Transition("DISPLACEMENT_AFTER_RECLAIM_CONFIRMED", k),
                 Transition("FALSE_INVALIDATION_CONFIRMED", k)}
         /\ ToSet(UndisplacedTrans(i, j))
              = {Transition("CLOSE_BREACH_CANDIDATE", i), Transition("RECLAIM_CONFIRMED", j),
                 Transition("RECLAIM_WITHOUT_DISPLACEMENT", j)}
         /\ Transition("CLOSE_BREACH_CANDIDATE", i) \in ToSet(UnreclaimedTrans(i, k, empty, genuine))
         /\ ToSet(UnreclaimedTrans(i, k, empty, genuine))
              \subseteq {Transition("CLOSE_BREACH_CANDIDATE", i), Transition(Verdict(genuine), k)}
<1> DEFINE A == Transition("CLOSE_BREACH_CANDIDATE", i)
           B == Transition("RECLAIM_CONFIRMED", j)
           D == Transition("RECLAIM_WITHOUT_DISPLACEMENT", j)
           E == Transition("DISPLACEMENT_AFTER_RECLAIM_CONFIRMED", k)
           F == Transition("FALSE_INVALIDATION_CONFIRMED", k)
           G == Transition(Verdict(genuine), k)
           S == {A, B, D, E, F, G}
<1>1. /\ A \in S /\ B \in S /\ D \in S /\ E \in S /\ F \in S /\ G \in S
  OBVIOUS
<1>2. /\ DisplacedTrans(i, j, k) = <<A, B>> \o <<E, F>>
      /\ UndisplacedTrans(i, j) = Append(<<A, B>>, D)
      /\ UnreclaimedTrans(i, k, empty, genuine) = IF empty THEN <<A>> ELSE Append(<<A>>, G)
  BY DEF DisplacedTrans, UndisplacedTrans, UnreclaimedTrans
<1> HIDE DEF A, B, D, E, F, G, S
<1>3. <<A, B>> \in Seq(S) /\ <<E, F>> \in Seq(S) /\ <<A>> \in Seq(S)
  BY <1>1
<1>4. /\ ToSet(<<A, B>>) = {A, B} /\ ToSet(<<E, F>>) = {E, F} /\ ToSet(<<A>>) = {A}
  BY ToSetTuples
<1>5. ToSet(<<A, B>> \o <<E, F>>) = {A, B, E, F}
  <2>1. ToSet(<<A, B>> \o <<E, F>>) = ToSet(<<A, B>>) \cup ToSet(<<E, F>>)
    BY <1>3, ToSetConcat, ZenonT(60)
  <2> QED BY <1>4, <2>1
<1>6. ToSet(Append(<<A, B>>, D)) = {A, B, D}
  <2> DEFINE u == <<A, B>>
  <2>0. u \in Seq(S)
    BY <1>3
  <2>00. D \in S
    BY <1>1
  <2> HIDE DEF u
  <2>1. ToSet(Append(u, D)) = ToSet(u) \cup {D}
    BY <2>0, <2>00, ToSetAppend
  <2> QED BY <1>4, <2>1 DEF u
<1>7. ToSet(Append(<<A>>, G)) = {A, G}
  <2> DEFINE u == <<A>>
  <2>0. u \in Seq(S)
    BY <1>3
  <2>00. G \in S
    BY <1>1
  <2> HIDE DEF u
  <2>1. ToSet(Append(u, G)) = ToSet(u) \cup {G}
    BY <2>0, <2>00, ToSetAppend
  <2> QED BY <1>4, <2>1 DEF u
<1>8. A \in ToSet(UnreclaimedTrans(i, k, empty, genuine))
      /\ ToSet(UnreclaimedTrans(i, k, empty, genuine)) \subseteq {A, G}
  BY <1>2, <1>4, <1>7
<1>9. ToSet(DisplacedTrans(i, j, k)) = {A, B, E, F} /\ ToSet(UndisplacedTrans(i, j)) = {A, B, D}
  BY <1>2, <1>5, <1>6
<1> QED BY <1>8, <1>9, Zenon DEF A, B, D, E, F, G

DisplacedSet(i, j, k) ==
  {Transition("CLOSE_BREACH_CANDIDATE", i), Transition("RECLAIM_CONFIRMED", j),
   Transition("DISPLACEMENT_AFTER_RECLAIM_CONFIRMED", k),
   Transition("FALSE_INVALIDATION_CONFIRMED", k)}

UndisplacedSet(i, j) ==
  {Transition("CLOSE_BREACH_CANDIDATE", i), Transition("RECLAIM_CONFIRMED", j),
   Transition("RECLAIM_WITHOUT_DISPLACEMENT", j)}

\* What a step records of a breach, whatever the status it starts from.
LEMMA StatusFree ==
  ASSUME NEW h \in Seq(View), NEW i \in 0 .. Len(h) - 1, NEW status, NEW other
  PROVE  /\ LoopStep(h, 0, i, status).trans = LoopStep(h, 0, i, other).trans
         /\ LoopStep(h, 0, i, status).next = LoopStep(h, 0, i, other).next
         /\ LoopStep(h, 0, i, status).terminal = LoopStep(h, 0, i, other).terminal
<1>1. CASE ~ Breaches(h[i + 1])
  <2>1. LoopStep(h, 0, i, status) = QuietStep(i, status)
    BY <1>1 DEF LoopStep
  <2>2. LoopStep(h, 0, i, other) = QuietStep(i, other)
    BY <1>1 DEF LoopStep
  <2>3. QuietStep(i, status).terminal = QuietStep(i, other).terminal
    BY DEF QuietStep
  <2> QED BY <2>1, <2>2, <2>3, QuietFields
<1>2. CASE Breaches(h[i + 1])
  <2>1. LoopStep(h, 0, i, status) = LoopStep(h, 0, i, other)
    BY <1>2 DEF LoopStep
  <2> QED BY <2>1
<1> QED BY <1>1, <1>2

LEMMA UnreclaimedRecords ==
  ASSUME NEW h \in Seq(View), NEW i \in 0 .. Len(h) - 1, NEW status \in Status,
         Breaches(h[i + 1]), NoReclaim(h, i)
  PROVE  LET step == LoopStep(h, 0, i, status) IN
         /\ Transition("CLOSE_BREACH_CANDIDATE", i) \in ToSet(step.trans)
         /\ ToSet(step.trans) \subseteq {Transition("CLOSE_BREACH_CANDIDATE", i),
                                         Transition(Verdict(step.terminal), ReclaimEnd(h, i) - 1)}
         /\ step.terminal \in BOOLEAN
<1> DEFINE end == ReclaimEnd(h, i)
           empty == i + 1 .. end - 1 = {}
           genuine == Genuine(h, i, end)
           complete == i + 1 + ReclaimWindow <= Len(h)
           step == LoopStep(h, 0, i, status)
<1>1. /\ 0 + i = i /\ 0 + (end - 1) = end - 1 /\ i \in Int /\ end - 1 \in Int
      /\ empty \in BOOLEAN /\ genuine \in BOOLEAN
  BY WindowAssumption DEF ReclaimEnd, AtMost, Genuine
<1>2. step = UnreclaimedStep(h, 0, i, end)
  BY StepUnreclaimed
<1> HIDE DEF step
<1>3. step = Unreclaimed(0, i, end, empty, genuine, complete)
  BY <1>2, UnreclaimedIs, Zenon
<1> HIDE DEF end, empty, genuine, complete
<1>4. step.trans = UnreclaimedTrans(0 + i, 0 + (end - 1), empty, genuine) /\ step.terminal = genuine
  BY <1>3, UnreclaimedFields
<1>5. step.trans = UnreclaimedTrans(i, end - 1, empty, genuine)
  BY <1>1, <1>4
<1>6. /\ Transition("CLOSE_BREACH_CANDIDATE", i) \in ToSet(UnreclaimedTrans(i, end - 1, empty, genuine))
      /\ ToSet(UnreclaimedTrans(i, end - 1, empty, genuine))
           \subseteq {Transition("CLOSE_BREACH_CANDIDATE", i), Transition(Verdict(genuine), end - 1)}
  BY <1>1, TransSets
<1> QED BY <1>1, <1>4, <1>5, <1>6 DEF step, end

LEMMA DisplacedRecords ==
  ASSUME NEW h \in Seq(View), NEW i \in 0 .. Len(h) - 1, NEW status \in Status,
         Breaches(h[i + 1]), NEW j \in i + 1 .. Len(h) - 1, FirstReclaim(h, i, j),
         NEW k \in j + 1 .. Len(h) - 1, FirstHit(h, j, k)
  PROVE  LET step == LoopStep(h, 0, i, status) IN
         /\ ToSet(step.trans)
              = DisplacedSet(i, j, k)
         /\ step.next = j + 1 /\ ~ step.terminal /\ step.complete
<1>1. LoopStep(h, 0, i, status) = Displaced(0, i, j, k)
  BY StepDisplaced
<1>2. /\ LoopStep(h, 0, i, status).trans = DisplacedTrans(0 + i, 0 + j, 0 + k)
      /\ LoopStep(h, 0, i, status).next = j + 1
      /\ ~ LoopStep(h, 0, i, status).terminal /\ LoopStep(h, 0, i, status).complete
  BY <1>1, DisplacedFields
<1>3. 0 + i = i /\ 0 + j = j /\ 0 + k = k /\ i \in Int /\ j \in Int /\ k \in Int
  OBVIOUS
<1>4. ToSet(DisplacedTrans(i, j, k))
        = DisplacedSet(i, j, k)
  <2>1. PICK e \in BOOLEAN : e = e
    OBVIOUS
  <2>2. i \in Int /\ j \in Int /\ k \in Int
    BY <1>3
  <2> QED BY <2>2, TransSets DEF DisplacedSet
<1> QED BY <1>2, <1>3, <1>4

LEMMA UndisplacedRecords ==
  ASSUME NEW h \in Seq(View), NEW i \in 0 .. Len(h) - 1, NEW status \in Status,
         Breaches(h[i + 1]), NEW j \in i + 1 .. Len(h) - 1, FirstReclaim(h, i, j), NoHit(h, j)
  PROVE  LET step == LoopStep(h, 0, i, status) IN
         /\ ToSet(step.trans)
              = UndisplacedSet(i, j)
         /\ step.next = j + 1 /\ ~ step.terminal
         /\ step.complete <=> j + 1 + DisplacementWindow <= Len(h)
<1> DEFINE complete == j + 1 + DisplacementWindow <= Len(h)
           step == LoopStep(h, 0, i, status)
<1>1. step = Undisplaced(0, i, j, complete)
  BY StepUndisplaced
<1> HIDE DEF step, complete
<1>2. /\ step.trans = UndisplacedTrans(0 + i, 0 + j)
      /\ step.next = j + 1 /\ ~ step.terminal /\ (step.complete <=> complete)
  BY <1>1, UndisplacedFields
<1>3. 0 + i = i /\ 0 + j = j /\ i \in Int /\ j \in Int
  OBVIOUS
<1>4. ToSet(UndisplacedTrans(i, j))
        = UndisplacedSet(i, j)
  <2>1. TRUE \in BOOLEAN
    OBVIOUS
  <2> QED BY <1>3, <2>1, TransSets DEF UndisplacedSet
<1> QED BY <1>2, <1>3, <1>4 DEF step, complete

LEMMA QuietRecords ==
  ASSUME NEW h \in Seq(View), NEW i \in 0 .. Len(h) - 1, NEW status,
         ~ Breaches(h[i + 1])
  PROVE  LET step == LoopStep(h, 0, i, status) IN
         ToSet(step.trans) = {} /\ step.next = i + 1 /\ ~ step.terminal /\ step.complete
<1>1. LoopStep(h, 0, i, status) = QuietStep(i, status)
  BY DEF LoopStep
<1>2. LoopStep(h, 0, i, status).trans = << >> /\ ToSet(<< >>) = {}
  <2>1. QuietStep(i, status).trans = << >>
    BY QuietFields
  <2>2. ToSet(<< >>) = {}
    BY ToSetTuples
  <2> QED BY <1>1, <2>1, <2>2
<1> QED BY <1>1, <1>2, QuietFields

-----------------------------------------------------------------------------
\* A step records no candle behind the last one.
LEMMA StepAt ==
  ASSUME NEW h \in Seq(View), NEW i \in 0 .. Len(h) - 1, NEW status \in Status,
         NEW t \in ToSet(LoopStep(h, 0, i, status).trans)
  PROVE  t.at < Len(h)
<1>0. /\ Len(h) \in Nat
      /\ \A type, at : Transition(type, at).at = at
  BY DEF Transition
<1>1. CASE ~ Breaches(h[i + 1])
  BY <1>1, QuietRecords
<1>2. CASE Breaches(h[i + 1]) /\ NoReclaim(h, i)
  <2>1. ReclaimEnd(h, i) - 1 < Len(h) /\ i < Len(h)
    BY <1>0, WindowAssumption DEF ReclaimEnd, AtMost
  <2> DEFINE step == LoopStep(h, 0, i, status)
  <2>2. t \in {Transition("CLOSE_BREACH_CANDIDATE", i),
               Transition(Verdict(step.terminal), ReclaimEnd(h, i) - 1)}
    <3>1. ToSet(step.trans) \subseteq {Transition("CLOSE_BREACH_CANDIDATE", i),
                                      Transition(Verdict(step.terminal), ReclaimEnd(h, i) - 1)}
      BY <1>2, UnreclaimedRecords
    <3>2. t \in ToSet(step.trans)
      OBVIOUS
    <3> HIDE DEF step
    <3> QED BY <3>1, <3>2
  <2> HIDE DEF step
  <2>3. t.at = i \/ t.at = ReclaimEnd(h, i) - 1
    BY <1>0, <2>2
  <2> QED BY <2>1, <2>3
<1>3. CASE Breaches(h[i + 1]) /\ \E j \in i + 1 .. Len(h) - 1 : FirstReclaim(h, i, j)
  <2>1. PICK j \in i + 1 .. Len(h) - 1 : FirstReclaim(h, i, j)
    BY <1>3
  <2>2. j \in 0 .. Len(h) - 1 /\ i < Len(h) /\ j < Len(h)
    BY <1>0
  <2>3. CASE NoHit(h, j)
    <3>1. t \in UndisplacedSet(i, j)
      BY <1>3, <2>1, <2>3, UndisplacedRecords
    <3>2. t.at = i \/ t.at = j
      BY <1>0, <3>1 DEF UndisplacedSet
    <3> QED BY <2>2, <3>2
  <2>4. CASE \E k \in j + 1 .. Len(h) - 1 : FirstHit(h, j, k)
    <3>1. PICK k \in j + 1 .. Len(h) - 1 : FirstHit(h, j, k)
      BY <2>4
    <3>2. t \in DisplacedSet(i, j, k)
      <4>1. ToSet(LoopStep(h, 0, i, status).trans)
              = DisplacedSet(i, j, k)
        <5>1. Breaches(h[i + 1]) /\ FirstReclaim(h, i, j) /\ FirstHit(h, j, k)
          BY <1>3, <2>1, <3>1
        <5> QED BY <5>1, DisplacedRecords, Zenon
      <4>2. t \in ToSet(LoopStep(h, 0, i, status).trans)
        OBVIOUS
      <4> QED BY <4>1, <4>2, Zenon
    <3>3. t.at = i \/ t.at = j \/ t.at = k
      BY <1>0, <3>2 DEF DisplacedSet
    <3>4. k < Len(h)
      BY <1>0, <2>2
    <3> QED BY <2>2, <3>3, <3>4
  <2> QED BY <2>2, <2>3, <2>4, HitCases
<1> QED BY <1>1, <1>2, <1>3, BreachCases

LEMMA ReachedAt ==
  ASSUME NEW h \in Seq(View), NEW start \in 0 .. Len(h), NEW q, Reached(h, start, q)
  PROVE  \A t \in ToSet(q.trans) : t \in Transitions /\ t.at < Len(h)
<1> DEFINE S == {p \in LoopStates(h) : \A t \in ToSet(p.trans) : t \in Transitions /\ t.at < Len(h)}
<1>1. StartState(start) \in S
  <2>1. StartState(start).trans = << >> /\ ToSet(<< >>) = {}
    BY ToSetTuples DEF StartState, LoopState
  <2> QED BY <2>1, StartStateType
<1>2. ASSUME NEW p \in S PROVE LoopNext(h, p) \in S
  <2>1. LoopNext(h, p) \in LoopStates(h)
    BY LoopNextType
  <2>2. CASE Ended(h, p)
    BY <2>2 DEF LoopNext
  <2>3. CASE ~ Ended(h, p)
    <3> DEFINE step == LoopStep(h, 0, p.i, p.status)
               next == LoopNext(h, p)
    <3>1. p.i \in 0 .. Len(h) - 1 /\ p.status \in Status /\ p.trans \in Seq(Transitions)
      BY <2>3 DEF LoopStates, Ended
    <3>2. step.trans \in Seq(Transitions)
      BY <3>1, LoopStepType DEF Steps
    <3>3. \A t \in ToSet(step.trans) : t \in Transitions /\ t.at < Len(h)
      <4>1. \A t \in ToSet(step.trans) : t.at < Len(h)
        BY <3>1, StepAt
      <4> HIDE DEF step
      <4>2. \A t \in ToSet(step.trans) : t \in Transitions
        BY <3>2 DEF ToSet
      <4> QED BY <4>1, <4>2
    <3>4. next = Advanced(p, step)
      BY <2>3 DEF LoopNext
    <3> HIDE DEF step, next
    <3>5. next.trans = p.trans \o step.trans
      BY <3>4 DEF Advanced, LoopState
    <3>6. ToSet(next.trans) = ToSet(p.trans) \cup ToSet(step.trans)
      BY <3>1, <3>2, <3>5, ToSetConcat
    <3> QED BY <2>1, <3>3, <3>6 DEF next
  <2> QED BY <2>2, <2>3
<1> HIDE DEF S
<1>3. q \in S
  BY <1>1, <1>2 DEF Reached
<1> QED BY <1>3 DEF S

-----------------------------------------------------------------------------
(***************************************************************************)
(* What a new candle withdraws.  The longer stream's walk takes the same   *)
(* steps as the shorter one's up to a step that ends the shorter walk, and *)
(* records all that is recorded but the verdicts of open windows.          *)
(***************************************************************************)
OpenVerdict(h, t) ==
  \/ t.type = "RECLAIM_WITHOUT_DISPLACEMENT" /\ Len(h) - t.at <= DisplacementWindow
  \/ t.type = "RECLAIM_FAILED" /\ t.at = Len(h) - 1

Covered(h, u, v) == \A t \in ToSet(u) \ ToSet(v) : OpenVerdict(h, t)

LEMMA LongerReclaim ==
  ASSUME NEW h \in Seq(View), NEW g, Longer(g, h), NEW i \in 0 .. Len(h) - 1,
         NEW j \in i + 1 .. Len(h) - 1, FirstReclaim(h, i, j)
  PROVE  FirstReclaim(g, i, j)
<1>1. /\ g \in Seq(View) /\ Len(h) \in Nat /\ Len(g) = Len(h) + 1
      /\ \A k \in 0 .. Len(h) - 1 : g[k + 1] = h[k + 1]
  BY DEF Longer
<1>2. j \in i + 1 .. ReclaimEnd(g, i) - 1
  BY <1>1, WindowAssumption DEF FirstReclaim, ReclaimEnd, AtMost
<1>3. \A k \in i + 1 .. j : g[k + 1] = h[k + 1]
  BY <1>1
<1>4. Reclaims(g[j + 1])
  BY <1>1 DEF FirstReclaim
<1>5. \A k \in i + 1 .. j - 1 : ~ Reclaims(g[k + 1])
  BY <1>3 DEF FirstReclaim
<1> QED BY <1>2, <1>4, <1>5 DEF FirstReclaim

\* Every breach records its candidate.
LEMMA BreachRecords ==
  ASSUME NEW h \in Seq(View), NEW i \in 0 .. Len(h) - 1, NEW status \in Status,
         Breaches(h[i + 1])
  PROVE  Transition("CLOSE_BREACH_CANDIDATE", i) \in ToSet(LoopStep(h, 0, i, status).trans)
<1>1. CASE NoReclaim(h, i)
  BY <1>1, UnreclaimedRecords
<1>2. CASE \E j \in i + 1 .. Len(h) - 1 : FirstReclaim(h, i, j)
  <2>1. PICK j \in i + 1 .. Len(h) - 1 : FirstReclaim(h, i, j)
    BY <1>2
  <2>2. j \in 0 .. Len(h) - 1
    OBVIOUS
  <2>3. CASE NoHit(h, j)
    <3>1. ToSet(LoopStep(h, 0, i, status).trans) = UndisplacedSet(i, j)
      BY <2>1, <2>3, UndisplacedRecords
    <3> QED BY <3>1, Zenon DEF UndisplacedSet
  <2>4. CASE \E k \in j + 1 .. Len(h) - 1 : FirstHit(h, j, k)
    <3>1. PICK k \in j + 1 .. Len(h) - 1 : FirstHit(h, j, k)
      BY <2>4
    <3>2. ToSet(LoopStep(h, 0, i, status).trans) = DisplacedSet(i, j, k)
      BY <2>1, <3>1, DisplacedRecords
    <3> QED BY <3>2, Zenon DEF DisplacedSet
  <2> QED BY <2>2, <2>3, <2>4, HitCases
<1> QED BY <1>1, <1>2, BreachCases

StepCovers(h, step, other) ==
  /\ Covered(h, step.trans, other.trans)
  /\ \/ step.next = other.next /\ step.terminal = other.terminal
     \/ step.next = Len(h)

LEMMA StepCovered ==
  ASSUME NEW h \in Seq(View), NEW g, Longer(g, h), NEW i \in 0 .. Len(h) - 1,
         NEW status \in Status, NEW other \in Status
  PROVE  StepCovers(h, LoopStep(h, 0, i, status), LoopStep(g, 0, i, other))
<1> DEFINE step == LoopStep(h, 0, i, status)
           next == LoopStep(g, 0, i, other)
<1>1. /\ g \in Seq(View) /\ Len(h) \in Nat /\ Len(g) = Len(h) + 1
      /\ \A k \in 0 .. Len(h) - 1 : g[k + 1] = h[k + 1]
  BY DEF Longer
<1>2. i \in 0 .. Len(g) - 1 /\ (Breaches(g[i + 1]) <=> Breaches(h[i + 1]))
  <2>1. Len(g) = Len(h) + 1 /\ Len(h) \in Nat
    BY <1>1
  <2>2. i \in 0 .. Len(g) - 1
    BY <2>1
  <2> QED BY <1>1, <2>2
<1>3. CASE step.complete
  <2>1. LoopStep(g, 0, i, status) = step
    BY <1>3, CompleteStays
  <2>2. step.trans = next.trans /\ step.next = next.next /\ step.terminal = next.terminal
    BY <1>1, <1>2, <2>1, StatusFree
  <2> HIDE DEF step, next
  <2>3. StepCovers(h, step, next)
    BY <2>2 DEF StepCovers, Covered
  <2> QED BY <2>3 DEF step, next
<1>4. CASE ~ Breaches(h[i + 1])
  BY <1>3, <1>4, QuietRecords
<1>5. CASE Breaches(h[i + 1]) /\ NoReclaim(h, i) /\ ~ step.complete
  <2>1. Breaches(h[i + 1]) /\ NoReclaim(h, i)
    BY <1>5
  <2>2. /\ step.complete <=> i + 1 + ReclaimWindow <= Len(h)
        /\ step.next = ReclaimEnd(h, i)
    BY <2>1, UnreclaimedEnds
  <2>3. ReclaimEnd(h, i) = Len(h)
    BY <1>1, <1>5, <2>2, WindowAssumption DEF ReclaimEnd, AtMost
  <2>4. ~ step.terminal
    BY <1>5, StepEnds
  <2>5. ToSet(step.trans) \subseteq {Transition("CLOSE_BREACH_CANDIDATE", i),
                                     Transition("RECLAIM_FAILED", Len(h) - 1)}
    <3>1. ToSet(step.trans) \subseteq {Transition("CLOSE_BREACH_CANDIDATE", i),
                                       Transition(Verdict(step.terminal), ReclaimEnd(h, i) - 1)}
      BY <2>1, UnreclaimedRecords
    <3>2. Verdict(step.terminal) = "RECLAIM_FAILED"
      BY <2>4 DEF Verdict
    <3> HIDE DEF step
    <3> QED BY <2>3, <3>1, <3>2
  <2>6. Transition("CLOSE_BREACH_CANDIDATE", i) \in ToSet(next.trans)
    <3>1. Breaches(g[i + 1]) /\ g \in Seq(View)
      BY <1>1, <1>2, <2>1
    <3> QED BY <1>2, <3>1, BreachRecords
  <2> HIDE DEF step, next
  <2>7. Covered(h, step.trans, next.trans)
    <3> SUFFICES ASSUME NEW t \in ToSet(step.trans), t \notin ToSet(next.trans)
                 PROVE  OpenVerdict(h, t)
      BY DEF Covered
    <3>1. t = Transition("RECLAIM_FAILED", Len(h) - 1)
      BY <2>5, <2>6
    <3> QED BY <3>1 DEF OpenVerdict, Transition
  <2> QED BY <2>2, <2>3, <2>7 DEF StepCovers, step, next
<1>6. CASE Breaches(h[i + 1]) /\ (\E j \in i + 1 .. Len(h) - 1 : FirstReclaim(h, i, j))
           /\ ~ step.complete
  <2>1. PICK j \in i + 1 .. Len(h) - 1 : FirstReclaim(h, i, j)
    BY <1>6
  <2>2. /\ j \in i + 1 .. Len(g) - 1 /\ j \in 0 .. Len(h) - 1 /\ j \in 0 .. Len(g) - 1
        /\ Breaches(h[i + 1]) /\ Breaches(g[i + 1]) /\ g \in Seq(View) /\ i \in 0 .. Len(g) - 1
    BY <1>1, <1>2, <1>6
  <2>3. FirstReclaim(g, i, j)
    BY <2>1, LongerReclaim
  <2>4. NoHit(h, j)
    <3>1. CASE \E k \in j + 1 .. Len(h) - 1 : FirstHit(h, j, k)
      <4>1. PICK k \in j + 1 .. Len(h) - 1 : FirstHit(h, j, k)
        BY <3>1
      <4>2. step.complete
        BY <2>1, <2>2, <4>1, DisplacedRecords
      <4> QED BY <1>6, <4>2
    <3> QED BY <2>2, <3>1, HitCases
  <2>5. /\ ToSet(step.trans) = UndisplacedSet(i, j)
        /\ step.next = j + 1 /\ ~ step.terminal
        /\ step.complete <=> j + 1 + DisplacementWindow <= Len(h)
    BY <2>1, <2>2, <2>4, UndisplacedRecords
  <2>6. Len(h) - j <= DisplacementWindow
    BY <1>1, <1>6, <2>2, <2>5, WindowAssumption
  <2>7. /\ next.next = j + 1 /\ ~ next.terminal
        /\ {Transition("CLOSE_BREACH_CANDIDATE", i), Transition("RECLAIM_CONFIRMED", j)}
             \subseteq ToSet(next.trans)
    <3>1. CASE NoHit(g, j)
      <4>1. ToSet(next.trans) = UndisplacedSet(i, j) /\ next.next = j + 1 /\ ~ next.terminal
        BY <2>2, <2>3, <3>1, UndisplacedRecords
      <4> HIDE DEF next
      <4> QED BY <4>1 DEF UndisplacedSet
    <3>2. CASE \E k \in j + 1 .. Len(g) - 1 : FirstHit(g, j, k)
      <4>1. PICK k \in j + 1 .. Len(g) - 1 : FirstHit(g, j, k)
        BY <3>2
      <4>2. ToSet(next.trans) = DisplacedSet(i, j, k) /\ next.next = j + 1 /\ ~ next.terminal
        BY <2>2, <2>3, <4>1, DisplacedRecords
      <4> HIDE DEF next
      <4> QED BY <4>2 DEF DisplacedSet
    <3> QED BY <2>2, <3>1, <3>2, HitCases
  <2>8. step.terminal \in BOOLEAN /\ next.terminal \in BOOLEAN
    BY <2>2, LoopStepType DEF Steps
  <2> HIDE DEF step, next
  <2>9. Covered(h, step.trans, next.trans)
    <3> SUFFICES ASSUME NEW t \in ToSet(step.trans), t \notin ToSet(next.trans)
                 PROVE  OpenVerdict(h, t)
      BY DEF Covered
    <3>1. t = Transition("RECLAIM_WITHOUT_DISPLACEMENT", j)
      BY <2>5, <2>7 DEF UndisplacedSet
    <3> QED BY <2>6, <3>1 DEF OpenVerdict, Transition
  <2>10. step.terminal = next.terminal
    BY <2>5, <2>7, <2>8
  <2> QED BY <2>5, <2>7, <2>9, <2>10 DEF StepCovers, step, next
<1> QED BY <1>3, <1>4, <1>5, <1>6, BreachCases

-----------------------------------------------------------------------------
\* What a walk has recorded it keeps.
LEMMA ReachedGrows ==
  ASSUME NEW h \in Seq(View), NEW start \in 0 .. Len(h), NEW q, Reached(h, start, q)
  PROVE  ToSet(q.trans) \subseteq ToSet(BatchWalk(h, start).trans)
<1> DEFINE n == Len(h)
<1>1. PICK f : IsRun(f, h, start, n) /\ BatchWalk(h, start) = f[n]
  BY BatchRun
<1>2. n \in Nat /\ \A k \in 0 .. n - 1 : f[k + 1] = LoopNext(h, f[k])
  BY <1>1 DEF IsRun
<1>3. PICK k \in 0 .. n : q = f[k]
  BY <1>1, ReachedInRun
<1> DEFINE T == {m \in Nat : k + m <= n => ToSet(q.trans) \subseteq ToSet(f[k + m].trans)}
<1>4. 0 \in T
  BY <1>3
<1>5. ASSUME NEW m \in T PROVE m + 1 \in T
  <2> SUFFICES ASSUME k + (m + 1) <= n
               PROVE  ToSet(q.trans) \subseteq ToSet(f[k + (m + 1)].trans)
    OBVIOUS
  <2>1. k + m \in 0 .. n - 1 /\ k + (m + 1) = (k + m) + 1 /\ k + m <= n /\ k + m \in 0 .. n
    BY <1>2
  <2> DEFINE p == f[k + m]
  <2>2. ToSet(q.trans) \subseteq ToSet(p.trans)
    BY <2>1
  <2>3. f[k + (m + 1)] = LoopNext(h, p)
    BY <1>2, <2>1
  <2>4. Reached(h, start, p)
    BY <1>1, <2>1, RunReaches
  <2> HIDE DEF p
  <2>5. CASE Ended(h, p)
    BY <2>2, <2>3, <2>5 DEF LoopNext
  <2>6. CASE ~ Ended(h, p)
    <3> DEFINE step == LoopStep(h, 0, p.i, p.status)
    <3>1. p.i \in 0 .. Len(h) - 1 /\ p.status \in Status /\ p.trans \in Seq(Transitions)
      BY <2>4, <2>6, ReachedType DEF LoopStates, Ended
    <3>2. step.trans \in Seq(Transitions)
      BY <3>1, LoopStepType DEF Steps
    <3> HIDE DEF step
    <3>3. LoopNext(h, p) = Advanced(p, step)
      BY <2>6 DEF LoopNext, step
    <3>4. LoopNext(h, p).trans = p.trans \o step.trans
      <4>1. Advanced(p, step).trans = p.trans \o step.trans
        BY DEF Advanced, LoopState
      <4> QED BY <3>3, <4>1
    <3>5. ToSet(LoopNext(h, p).trans) = ToSet(p.trans) \cup ToSet(step.trans)
      BY <3>1, <3>2, <3>4, ToSetConcat
    <3> QED BY <2>2, <2>3, <3>5
  <2> QED BY <2>5, <2>6
<1> HIDE DEF T
<1>6. T = Nat
  <2>1. T \in SUBSET Nat
    BY DEF T
  <2> QED BY <1>4, <1>5, <2>1, SetInduction
<1>7. n - k \in T /\ k + (n - k) = n
  BY <1>2, <1>6
<1>8. ToSet(q.trans) \subseteq ToSet(f[n].trans)
  BY <1>2, <1>7 DEF T
<1> QED BY <1>1, <1>8

\* A state of the longer walk that has recorded what a state of the shorter
\* one has, and goes on where that goes on.
Shadows(h, p, r) ==
  /\ Covered(h, p.trans, r.trans)
  /\ Ended(h, p) \/ (p.i = r.i /\ p.terminal = r.terminal)

LEMMA ShadowNext ==
  ASSUME NEW h \in Seq(View), NEW g, Longer(g, h),
         NEW p \in LoopStates(h), NEW r \in LoopStates(g), Shadows(h, p, r), ~ Ended(h, p)
  PROVE  Shadows(h, LoopNext(h, p), LoopNext(g, r))
<1> DEFINE step == LoopStep(h, 0, p.i, p.status)
           other == LoopStep(g, 0, r.i, r.status)
           x == LoopNext(h, p)
           y == LoopNext(g, r)
<1>1. /\ p.i = r.i /\ ~ p.terminal /\ ~ r.terminal /\ p.i \in 0 .. Len(h) - 1
      /\ p.status \in Status /\ r.status \in Status
      /\ p.trans \in Seq(Transitions) /\ r.trans \in Seq(Transitions)
  BY DEF Shadows, Ended, LoopStates
<1>2. g \in Seq(View) /\ Len(g) = Len(h) + 1 /\ Len(h) \in Nat /\ r.i \in 0 .. Len(g) - 1
  BY <1>1 DEF Longer
<1>3. x = Advanced(p, step) /\ y = Advanced(r, other)
  BY <1>1, <1>2 DEF LoopNext, Ended
<1>4. StepCovers(h, step, other)
  BY <1>1, StepCovered
<1>5. step.trans \in Seq(Transitions) /\ other.trans \in Seq(Transitions)
  BY <1>1, <1>2, LoopStepType DEF Steps
<1> HIDE DEF step, other, x, y
<1>6. /\ x.i = step.next /\ x.terminal = step.terminal /\ x.trans = p.trans \o step.trans
      /\ y.i = other.next /\ y.terminal = other.terminal /\ y.trans = r.trans \o other.trans
  BY <1>3 DEF Advanced, LoopState
<1>7. /\ ToSet(x.trans) = ToSet(p.trans) \cup ToSet(step.trans)
      /\ ToSet(y.trans) = ToSet(r.trans) \cup ToSet(other.trans)
  BY <1>1, <1>5, <1>6, ToSetConcat
<1>8. Covered(h, x.trans, y.trans)
  BY <1>4, <1>7 DEF Covered, StepCovers, Shadows
<1>9. Ended(h, x) \/ (x.i = y.i /\ x.terminal = y.terminal)
  BY <1>2, <1>4, <1>6 DEF StepCovers, Ended
<1> QED BY <1>8, <1>9 DEF Shadows, x, y

\* The batch engine's own repainting: only verdicts of windows that are open.
LEMMA BatchCovered ==
  ASSUME NEW h \in Seq(View), NEW g, Longer(g, h), NEW start \in 0 .. Len(h)
  PROVE  Covered(h, BatchWalk(h, start).trans, BatchWalk(g, start).trans)
<1> DEFINE S == {p \in LoopStates(h) : \E r : Reached(g, start, r) /\ Shadows(h, p, r)}
           q == BatchWalk(h, start)
<1>1. g \in Seq(View) /\ start \in 0 .. Len(g)
  BY DEF Longer
<1>2. StartState(start) \in S
  <2> DEFINE s == StartState(start)
  <2>1. s.trans = << >> /\ ToSet(<< >>) = {}
    BY ToSetTuples DEF StartState, LoopState
  <2>2. Shadows(h, s, s)
    BY <2>1 DEF Shadows, Covered
  <2> QED BY <2>2, StartStateType, SettledStart
<1>3. ASSUME NEW p \in S PROVE LoopNext(h, p) \in S
  <2>1. PICK r : Reached(g, start, r) /\ Shadows(h, p, r)
    OBVIOUS
  <2>2. LoopNext(h, p) \in LoopStates(h)
    BY LoopNextType
  <2>3. CASE Ended(h, p)
    BY <2>3 DEF LoopNext
  <2>4. CASE ~ Ended(h, p)
    <3>1. r \in LoopStates(g)
      BY <1>1, <2>1, ReachedType
    <3>2. Shadows(h, LoopNext(h, p), LoopNext(g, r))
      BY <2>1, <2>4, <3>1, ShadowNext
    <3> QED BY <2>1, <2>2, <3>2, ReachedNext
  <2> QED BY <2>3, <2>4
<1>4. Reached(h, start, q)
  BY BatchWalkEnded
<1> HIDE DEF S, q
<1>5. q \in S
  BY <1>2, <1>3, <1>4 DEF Reached
<1>6. PICK r : Reached(g, start, r) /\ Shadows(h, q, r)
  BY <1>5 DEF S
<1>7. ToSet(r.trans) \subseteq ToSet(BatchWalk(g, start).trans)
  BY <1>1, <1>6, ReachedGrows
<1> QED BY <1>6, <1>7 DEF Covered, Shadows, q

-----------------------------------------------------------------------------
\* The inductive invariant of the feed.
FeedInv ==
  /\ history \in Seq(Views) /\ Tracks(cursor, history)
  /\ result = RunPoiLifecycle(history)

LEMMA FeedStream ==
  ASSUME history \in Seq(Views)
  PROVE  history \in Seq(View)
BY FeedAssumption

LEMMA FeedInvInit ==
  ASSUME FeedInit
  PROVE  FeedInv
<1>1. history = << >> /\ cursor = CreateCursor
      /\ result = Result(<< >>, "NO_BREACH", CreateCursor, None)
  BY DEF FeedInit
<1>2. << >> \in Seq(Views)
  OBVIOUS
<1> QED BY <1>1, <1>2, CreateTracks DEF FeedInv

LEMMA FeedStep ==
  ASSUME DisplacementWindow <= ReclaimWindow + 1, FeedInv, [FeedNext]_feedVars
  PROVE  FeedInv'
<1>1. history \in Seq(Views) /\ history \in Seq(View) /\ Tracks(cursor, history)
  BY FeedStream DEF FeedInv
<1>2. CASE UNCHANGED feedVars
  BY <1>2 DEF feedVars, FeedInv
<1>3. CASE FeedNext
  <2>1. PICK v \in Views : Feed(v)
    BY <1>3 DEF FeedNext
  <2>2. v \in View
    BY FeedAssumption
  <2>3. /\ history' = Append(history, v) /\ cursor' = AdvanceCursor(cursor, v).cursor
        /\ result' = AdvanceCursor(cursor, v).result
    BY <2>1 DEF Feed
  <2>4. /\ Tracks(AdvanceCursor(cursor, v).cursor, Append(history, v))
        /\ AdvanceCursor(cursor, v).result = RunPoiLifecycle(Append(history, v))
    BY <1>1, <2>2, AdvanceTracks
  <2>5. Append(history, v) \in Seq(Views)
    BY <1>1
  <2>6. history' \in Seq(Views)
    BY <2>3, <2>5
  <2>7. Tracks(cursor', history')
    BY <2>3, <2>4, Zenon
  <2>8. result' = RunPoiLifecycle(history')
    BY <2>3, <2>4, Zenon
  <2> QED BY <2>6, <2>7, <2>8 DEF FeedInv
<1> QED BY <1>2, <1>3

\* The suffix a cursor replays is the rest of the stream, and short.
LEMMA TracksBuffer ==
  ASSUME NEW h \in Seq(View), NEW c, Tracks(c, h), c.start # None, ~ c.terminal
  PROVE  /\ c.buffer = Suffix(h, c.resume)
         /\ Len(c.buffer) <= ReclaimWindow + DisplacementWindow
<1>1. PICK q : AtFloor(h, c, q)
  BY DEF Tracks
<1>2. /\ Settled(h, c.start, q) /\ ~ q.terminal /\ q.i = c.resume /\ ~ Complete(h, q)
      /\ c.buffer = Suffix(h, c.resume)
  BY <1>1 DEF AtFloor
<1>3. c.start \in 0 .. Len(h) /\ Len(h) \in Nat
  BY DEF Tracks, Begins
<1>4. q \in LoopStates(h)
  BY <1>2, <1>3, SettledReached, ReachedType
<1>5. c.resume \in 0 .. Len(h) /\ Len(c.buffer) = Len(h) - c.resume
  BY <1>2, <1>4, SuffixType DEF LoopStates
<1>6. ReclaimWindow \in Nat /\ DisplacementWindow \in Nat
  BY WindowAssumption
<1>7. CASE Ended(h, q)
  <2>1. c.resume >= Len(h)
    BY <1>2, <1>7 DEF Ended
  <2>2. Len(c.buffer) = 0
    <3> DEFINE a == c.resume
               n == Len(h)
               m == Len(c.buffer)
    <3>1. a \in 0 .. n /\ n \in Nat /\ m = n - a /\ a >= n
      BY <1>3, <1>5, <2>1
    <3> HIDE DEF a, n, m
    <3>2. m = 0
      BY <3>1
    <3> QED BY <3>2 DEF m
  <2>3. Len(c.buffer) <= ReclaimWindow + DisplacementWindow
    BY <1>6, <2>2
  <2> QED BY <1>2, <2>3
<1>8. CASE ~ Ended(h, q)
  <2>1. q.i \in 0 .. Len(h) - 1 /\ q.status \in Status
    BY <1>3, <1>4, <1>8 DEF Ended, LoopStates
  <2>2. ~ LoopStep(h, 0, q.i, q.status).complete
    BY <1>2, <1>8 DEF Complete
  <2>3. Len(h) - q.i <= ReclaimWindow + DisplacementWindow
    BY <2>1, <2>2, StepEnds
  <2>4. Len(c.buffer) <= ReclaimWindow + DisplacementWindow
    BY <1>2, <1>5, <2>3
  <2> QED BY <1>2, <2>4
<1> QED BY <1>7, <1>8

LEMMA TracksType ==
  ASSUME NEW h \in Seq(View), NEW c, Tracks(c, h)
  PROVE  /\ c.total = Len(h) /\ c.start \in 0 .. Len(h) \cup {None} /\ c.status \in Status
         /\ \A t \in ToSet(c.committed) : t.type \in Event /\ t.at < Len(h)
<1>1. c.total = Len(h) /\ c.status \in Status
  BY DEF Tracks, WellFormed, Cursor
<1>2. CASE c.start = None
  <2>1. c.committed = << >> /\ ToSet(<< >>) = {}
    BY <1>2, ToSetTuples DEF Tracks
  <2> QED BY <1>1, <1>2, <2>1
<1>3. CASE c.start # None
  <2>1. c.start \in 0 .. Len(h)
    BY <1>3 DEF Tracks, Begins
  <2>2. PICK q : Settled(h, c.start, q) /\ q.trans = c.committed
    BY <1>3 DEF Tracks, Frozen, AtFloor
  <2>3. \A t \in ToSet(q.trans) : t \in Transitions /\ t.at < Len(h)
    BY <2>1, <2>2, SettledReached, ReachedAt
  <2> QED BY <1>1, <2>1, <2>2, <2>3 DEF Transitions
<1> QED BY <1>2, <1>3

LEMMA BegunOrNot ==
  ASSUME NEW h \in Seq(View)
  PROVE  NotBegun(h) \/ \E x \in 0 .. Len(h) - 1 : Begins(h, x)
<1> DEFINE later == {i \in 0 .. Len(h) - 1 : h[i + 1].after}
<1>1. Len(h) \in Nat /\ later \in SUBSET Nat
  OBVIOUS
<1>2. CASE later = {}
  BY <1>2 DEF NotBegun
<1>3. CASE later # {}
  <2>1. PICK x \in later : \A y \in later : x <= y
    <3> HIDE DEF later
    <3> QED BY <1>1, <1>3, LeastNat
  <2>2. ASSUME NEW k \in 0 .. x - 1 PROVE ~ h[k + 1].after
    <3>1. k \in 0 .. Len(h) - 1 /\ ~ (x <= k)
      BY <1>1
    <3> QED BY <2>1, <3>1
  <2> QED BY <2>2 DEF Begins
<1> QED BY <1>2, <1>3

LEMMA BatchType ==
  ASSUME NEW h \in Seq(View)
  PROVE  RunPoiLifecycle(h).transitions \in Seq(Transitions)
<1>1. StartIndex(h) \in 0 .. Len(h)
  <2>1. Len(h) \in 0 .. Len(h)
    OBVIOUS
  <2> QED BY <2>1, BegunOrNot, StartIs
<1>2. BatchWalk(h, StartIndex(h)) \in LoopStates(h)
  BY <1>1, BatchWalkEnded, ReachedType
<1>3. RunPoiLifecycle(h).transitions = BatchWalk(h, StartIndex(h)).trans
  BY DEF RunPoiLifecycle
<1> QED BY <1>2, <1>3 DEF LoopStates

\* The batch engine repaints only open windows.
LEMMA BatchRepaints ==
  ASSUME NEW h \in Seq(View), NEW g, Longer(g, h)
  PROVE  Covered(h, RunPoiLifecycle(h).transitions, RunPoiLifecycle(g).transitions)
<1>1. g \in Seq(View)
  BY DEF Longer
<1>2. CASE NotBegun(h)
  <2>1. RunPoiLifecycle(h).transitions = << >>
    BY <1>2, BatchResultNone
  <2>2. ToSet(<< >>) = {}
    BY ToSetTuples
  <2> QED BY <2>1, <2>2 DEF Covered
<1>3. CASE \E x \in 0 .. Len(h) - 1 : Begins(h, x)
  <2>1. PICK x \in 0 .. Len(h) - 1 : Begins(h, x)
    BY <1>3
  <2>2. Begins(g, x)
    BY <2>1, BeginsStays
  <2>3. StartIndex(h) = x /\ StartIndex(g) = x
    BY <1>1, <2>1, <2>2, StartIs
  <2>4. /\ RunPoiLifecycle(h).transitions = BatchWalk(h, x).trans
        /\ RunPoiLifecycle(g).transitions = BatchWalk(g, x).trans
    BY <2>3 DEF RunPoiLifecycle
  <2>5. x \in 0 .. Len(h)
    OBVIOUS
  <2> QED BY <2>4, <2>5, BatchCovered
<1> QED BY <1>2, <1>3, BegunOrNot

\* The invariant holds throughout.
LEMMA FeedAlways ==
  ASSUME DisplacementWindow <= ReclaimWindow + 1
  PROVE  FeedSpec => []FeedInv
<1>1. FeedInit => FeedInv
  BY FeedInvInit
<1>2. FeedInv /\ [FeedNext]_feedVars => FeedInv'
  BY FeedStep
<1> QED BY <1>1, <1>2, PTL DEF FeedSpec

-----------------------------------------------------------------------------
\* The cursor of lifecycle_cursor.py counts the candles it was fed, starts
\* within them and commits transitions of candles it has seen only, for streams
\* of every length.
THEOREM FeedTypeCorrect ==
  ASSUME DisplacementWindow <= ReclaimWindow + 1
  PROVE  FeedSpec => []FeedTypeOK
<1>1. FeedInv => FeedTypeOK
  <2> SUFFICES ASSUME FeedInv PROVE FeedTypeOK
    OBVIOUS
  <2>1. history \in Seq(Views) /\ history \in Seq(View) /\ Tracks(cursor, history)
    BY FeedStream DEF FeedInv
  <2> QED BY <2>1, TracksType DEF FeedTypeOK
<1> QED BY <1>1, FeedAlways, PTL

\* The law of poi/lifecycle_cursor.py: what advance_poi_cursor answers after each
\* candle is what run_poi_lifecycle computes from all of them.
THEOREM FeedIsBatch ==
  ASSUME DisplacementWindow <= ReclaimWindow + 1
  PROVE  FeedSpec => []ResultIsBatch
<1>1. FeedInv => ResultIsBatch
  BY DEF FeedInv, ResultIsBatch
<1> QED BY <1>1, FeedAlways, PTL

\* The buffer that _walk replays is the stream from the committed floor on, and
\* never longer than the two windows: an advance costs the same however long the
\* stream is.
THEOREM FeedBounded ==
  ASSUME DisplacementWindow <= ReclaimWindow + 1
  PROVE  FeedSpec => []BoundedReplay
<1>1. FeedInv => BoundedReplay
  <2> SUFFICES ASSUME FeedInv, cursor.start # None, ~ cursor.terminal
               PROVE  /\ cursor.buffer = SubSeq(history, cursor.resume + 1, Len(history))
                      /\ Len(cursor.buffer) <= ReclaimWindow + DisplacementWindow
    BY DEF BoundedReplay
  <2>1. history \in Seq(View) /\ Tracks(cursor, history)
    BY FeedStream DEF FeedInv
  <2>2. /\ cursor.buffer = Suffix(history, cursor.resume)
        /\ Len(cursor.buffer) <= ReclaimWindow + DisplacementWindow
    BY <2>1, TracksBuffer
  <2> QED BY <2>2 DEF Suffix
<1> QED BY <1>1, FeedAlways, PTL

\* A candle that a dormant cursor cannot see may be skipped: fast-forwarded over
\* it (poi/cursor_fast_forward.py) the cursor is the one that was fed it, and its
\* answer is the batch engine's.
THEOREM FeedMaySleep ==
  ASSUME DisplacementWindow <= ReclaimWindow + 1
  PROVE  FeedSpec => []DormantMaySleep
<1>1. FeedInv => DormantMaySleep
  <2> SUFFICES ASSUME FeedInv, Dormant(cursor), NEW v \in Views, Quiet(cursor, v)
               PROVE  LET ahead == FastForward(cursor, cursor.total + 1)
                      IN  /\ AdvanceCursor(cursor, v).cursor = ahead
                          /\ CursorWalkResult(ahead) = RunPoiLifecycle(Append(history, v))
    BY DEF DormantMaySleep, Quiet
  <2>1. history \in Seq(View) /\ Tracks(cursor, history) /\ v \in View /\ WellFormed(cursor)
    BY FeedStream, FeedAssumption DEF FeedInv, Tracks
  <2>2. AdvanceCursor(cursor, v)
          = [cursor |-> FastForward(cursor, cursor.total + 1),
             result |-> CursorWalkResult(FastForward(cursor, cursor.total + 1))]
    BY <2>1, QuietAdvance
  <2>3. AdvanceCursor(cursor, v).result = RunPoiLifecycle(Append(history, v))
    BY <2>1, AdvanceTracks
  <2> QED BY <2>2, <2>3
<1> QED BY <1>1, FeedAlways, PTL

\* What a cursor has committed stays committed, and is how every answer begins,
\* the batch engine's for every longer stream included.
THEOREM FeedCommits ==
  ASSUME DisplacementWindow <= ReclaimWindow + 1
  PROVE  FeedSpec => CommittedIsFinal
<1>1. FeedInv /\ [FeedNext]_feedVars
        => [/\ IsPrefix(cursor.committed, cursor'.committed)
            /\ IsPrefix(cursor.committed, RunPoiLifecycle(history').transitions)]_feedVars
  <2> SUFFICES ASSUME FeedInv, FeedNext
               PROVE  /\ IsPrefix(cursor.committed, cursor'.committed)
                      /\ IsPrefix(cursor.committed, RunPoiLifecycle(history').transitions)
    OBVIOUS
  <2>1. PICK v \in Views : Feed(v)
    BY DEF FeedNext
  <2>2. /\ history' = Append(history, v) /\ cursor' = AdvanceCursor(cursor, v).cursor
        /\ history \in Seq(View) /\ Tracks(cursor, history) /\ v \in View
        /\ WellFormed(cursor)
    BY <2>1, FeedStream, FeedAssumption DEF Feed, FeedInv, Tracks
  <2>3. AdvanceCursor(cursor, v).result = RunPoiLifecycle(Append(history, v))
    BY <2>2, AdvanceTracks
  <2>4. IsPrefix(cursor.committed, cursor'.committed)
    BY <2>2, AdvanceExtends, Zenon
  <2>5. IsPrefix(cursor.committed, RunPoiLifecycle(history').transitions)
    <3>1. CASE cursor.start # None
      BY <2>2, <2>3, <3>1, AdvanceExtends, Zenon
    <3>2. CASE cursor.start = None
      <4>1. cursor.committed = << >>
        BY <2>2, <3>2 DEF Tracks
      <4>2. RunPoiLifecycle(Append(history, v)).transitions \in Seq(Transitions)
        <5>1. Append(history, v) \in Seq(View)
          BY <2>2
        <5> QED BY <5>1, BatchType
      <4> QED BY <2>2, <4>1, <4>2, PrefixEmpty, Zenon
    <3> QED BY <3>1, <3>2
  <2> QED BY <2>4, <2>5
<1> QED BY <1>1, FeedAlways, PTL DEF FeedSpec, CommittedIsFinal

\* From one candle to the next the answer of the cursor withdraws a transition in
\* two cases only: a reclaim was without displacement so far and its displacement window
\* is open, or a reclaim failed at the last candle and its reclaim window is open.
THEOREM FeedRepaints ==
  ASSUME DisplacementWindow <= ReclaimWindow + 1
  PROVE  FeedSpec => RepaintOnlyInOpenWindow
<1>1. FeedInv /\ FeedInv' /\ [FeedNext]_feedVars
        => [\A t \in ToSet(result.transitions) \ ToSet(result'.transitions) :
              OpenVerdict(history, t)]_feedVars
  <2> SUFFICES ASSUME FeedInv, FeedInv', FeedNext
               PROVE  \A t \in ToSet(result.transitions) \ ToSet(result'.transitions) :
                        OpenVerdict(history, t)
    OBVIOUS
  <2>1. PICK v \in Views : Feed(v)
    BY DEF FeedNext
  <2>2. history' = Append(history, v) /\ history \in Seq(View) /\ v \in View
    BY <2>1, FeedStream, FeedAssumption DEF Feed, FeedInv
  <2>3. Longer(Append(history, v), history)
    BY <2>2, AppendLonger
  <2>4. Covered(history, RunPoiLifecycle(history).transitions,
                RunPoiLifecycle(Append(history, v)).transitions)
    BY <2>2, <2>3, BatchRepaints
  <2>5. result = RunPoiLifecycle(history) /\ result' = RunPoiLifecycle(history')
    BY DEF FeedInv
  <2>6. Covered(history, result.transitions, result'.transitions)
    BY <2>2, <2>4, <2>5, Zenon
  <2> QED BY <2>6 DEF Covered
<1>2. [\A t \in ToSet(result.transitions) \ ToSet(result'.transitions) :
         OpenVerdict(history, t)]_feedVars
      => [\A t \in ToSet(result.transitions) \ ToSet(result'.transitions) :
            \/ /\ t.type = "RECLAIM_WITHOUT_DISPLACEMENT"
               /\ Len(history) - t.at <= DisplacementWindow
            \/ /\ t.type = "RECLAIM_FAILED"
               /\ t.at = Len(history) - 1]_feedVars
  BY DEF OpenVerdict
<1> QED BY <1>1, <1>2, FeedAlways, PTL DEF FeedSpec, RepaintOnlyInOpenWindow

-----------------------------------------------------------------------------
\* Feeding a POI the whole stream.

LEMMA ViewOfType ==
  ASSUME NEW c \in Candles, NEW s \in PoiSpecs
  PROVE  ViewOf(c, s) \in View
<1>1. c.at[s.zone] \in Reading
  BY StreamAssumption
<1> DEFINE r == c.at[s.zone]
<1> HIDE DEF r
<1>2. r \in Reading
  BY <1>1 DEF r
<1>3. ViewOf(c, s) = [after |-> c.available > s.available, touch |-> r.touch,
                      pos |-> r.pos, fast |-> r.fast]
  BY DEF ViewOf, r
<1> QED BY <1>2, <1>3 DEF Reading, View

\* The recursive function of FeedAll exists, over every initial segment.
IsFed(f, h, s, n) ==
  f = [k \in 0 .. n |-> IF k = 0 THEN NotFed
                        ELSE AdvanceCursor(f[k - 1].cursor, ViewOf(h[k], s))]

LEMMA FedExists ==
  ASSUME NEW h, NEW s, NEW n \in Nat
  PROVE  \E f : IsFed(f, h, s, n)
<1> DEFINE S == {m \in Nat : \E f : IsFed(f, h, s, m)}
<1>1. 0 \in S
  <2> DEFINE f == [k \in 0 .. 0 |-> NotFed]
  <2>1. IsFed(f, h, s, 0)
    BY DEF IsFed
  <2> QED BY <2>1
<1>2. ASSUME NEW m \in S PROVE m + 1 \in S
  <2>1. PICK f : IsFed(f, h, s, m)
    OBVIOUS
  <2> DEFINE g == [k \in 0 .. m + 1 |->
                     IF k = m + 1 THEN AdvanceCursor(f[m].cursor, ViewOf(h[m + 1], s))
                     ELSE f[k]]
  <2>2. \A k \in 0 .. m + 1 :
          g[k] = IF k = 0 THEN NotFed ELSE AdvanceCursor(g[k - 1].cursor, ViewOf(h[k], s))
    <3> SUFFICES ASSUME NEW k \in 0 .. m + 1
                 PROVE  g[k] = IF k = 0 THEN NotFed
                               ELSE AdvanceCursor(g[k - 1].cursor, ViewOf(h[k], s))
      OBVIOUS
    <3>1. CASE k = m + 1
      BY <3>1
    <3>2. CASE k \in 0 .. m
      <4>1. f[k] = IF k = 0 THEN NotFed ELSE AdvanceCursor(f[k - 1].cursor, ViewOf(h[k], s))
        BY <2>1, <3>2 DEF IsFed
      <4>2. g[k] = f[k] /\ (k # 0 => g[k - 1] = f[k - 1])
        BY <3>2
      <4> QED BY <4>1, <4>2
    <3> QED BY <3>1, <3>2
  <2>3. IsFed(g, h, s, m + 1)
    <3>1. g = [k \in 0 .. m + 1 |-> g[k]]
      OBVIOUS
    <3> QED BY <2>2, <3>1 DEF IsFed
  <2> QED BY <2>3
<1> HIDE DEF S
<1>3. S = Nat
  <2>1. S \in SUBSET Nat
    BY DEF S
  <2> QED BY <1>1, <1>2, <2>1, SetInduction
<1> QED BY <1>3 DEF S

LEMMA FeedAllRun ==
  ASSUME NEW h \in Seq(Candles), NEW s
  PROVE  \E f : IsFed(f, h, s, Len(h)) /\ FeedAll(h, s) = f[Len(h)]
<1> DEFINE run == CHOOSE f : IsFed(f, h, s, Len(h))
<1>1. IsFed(run, h, s, Len(h))
  BY FedExists
<1>2. FeedAll(h, s) = run[Len(h)]
  BY DEF FeedAll, IsFed
<1> QED BY <1>1, <1>2

LEMMA FeedAllWellFormed ==
  ASSUME NEW h \in Seq(Candles), NEW s \in PoiSpecs
  PROVE  WellFormed(FeedAll(h, s).cursor) /\ FeedAll(h, s).cursor.total = Len(h)
<1>1. PICK f : IsFed(f, h, s, Len(h)) /\ FeedAll(h, s) = f[Len(h)]
  BY FeedAllRun
<1> DEFINE S == {m \in Nat : m <= Len(h) => WellFormed(f[m].cursor) /\ f[m].cursor.total = m}
<1>2. 0 \in S
  <2>1. f[0] = NotFed
    BY <1>1 DEF IsFed
  <2>2. NotFed.cursor = CreateCursor
    BY DEF NotFed
  <2> QED BY <2>1, <2>2, CreateWellFormed
<1>3. ASSUME NEW m \in S PROVE m + 1 \in S
  <2> SUFFICES ASSUME m + 1 <= Len(h)
               PROVE  WellFormed(f[m + 1].cursor) /\ f[m + 1].cursor.total = m + 1
    OBVIOUS
  <2>1. f[m + 1] = AdvanceCursor(f[m].cursor, ViewOf(h[m + 1], s))
    BY <1>1 DEF IsFed
  <2>2. WellFormed(f[m].cursor) /\ f[m].cursor.total = m
    OBVIOUS
  <2>3. ViewOf(h[m + 1], s) \in View
    BY ViewOfType
  <2> QED BY <2>1, <2>2, <2>3, AdvanceWellFormed
<1> HIDE DEF S
<1>4. S = Nat
  <2>1. S \in SUBSET Nat
    BY DEF S
  <2> QED BY <1>2, <1>3, <2>1, SetInduction
<1> QED BY <1>1, <1>4 DEF S

\* A POI no candle of the stream can start is where a fast-forward from its
\* creation leaves it: the constant-time path for a new POI on time.
LEMMA FeedAllBeforeStart ==
  ASSUME NEW h \in Seq(Candles), h # << >>, NEW s \in PoiSpecs,
         \A i \in 1 .. Len(h) : ~ (h[i].available > s.available)
  PROVE  LET c == FastForward(CreateCursor, Len(h)) IN
         FeedAll(h, s) = [cursor |-> c, result |-> CursorWalkResult(c)]
<1>1. PICK f : IsFed(f, h, s, Len(h)) /\ FeedAll(h, s) = f[Len(h)]
  BY FeedAllRun
<1> DEFINE at(m) == FastForward(CreateCursor, m)
           S == {m \in Nat : m <= Len(h) =>
                   /\ f[m].cursor = at(m)
                   /\ m > 0 => f[m] = [cursor |-> at(m), result |-> CursorWalkResult(at(m))]}
<1>2. Dormant(CreateCursor)
  BY CreateWellFormed DEF Dormant
<1>3. 0 \in S
  <2>1. f[0] = NotFed
    BY <1>1 DEF IsFed
  <2>2. NotFed.cursor = CreateCursor /\ at(0) = CreateCursor
    BY CreateWellFormed DEF NotFed, FastForward
  <2> QED BY <2>1, <2>2
<1>4. ASSUME NEW m \in S PROVE m + 1 \in S
  <2> SUFFICES ASSUME m + 1 <= Len(h)
               PROVE  f[m + 1] = [cursor |-> at(m + 1), result |-> CursorWalkResult(at(m + 1))]
    OBVIOUS
  <2> DEFINE v == ViewOf(h[m + 1], s)
  <2>1. f[m + 1] = AdvanceCursor(at(m), v)
    BY <1>1 DEF IsFed
  <2>2. v \in View /\ ~ v.after
    <3>1. m + 1 \in 1 .. Len(h)
      OBVIOUS
    <3>2. v \in View
      BY <3>1, ViewOfType
    <3>3. v.after = (h[m + 1].available > s.available)
      BY DEF ViewOf
    <3> HIDE DEF v
    <3> QED BY <3>1, <3>2, <3>3
  <2>3. /\ WellFormed(at(m)) /\ at(m).total = m /\ at(m).start = None
        /\ Dormant(at(m))
    BY <1>2, CreateWellFormed, FastForwardWellFormed
  <2>4. FastForward(at(m), m + 1) = at(m + 1)
    BY <1>2, CreateWellFormed, FastForwardTwice
  <2> HIDE DEF v, at
  <2>5. Quiet(at(m), v)
    BY <2>2, <2>3 DEF Quiet
  <2> QED BY <2>1, <2>2, <2>3, <2>4, <2>5, QuietAdvance
<1> HIDE DEF S
<1>5. S = Nat
  <2>1. S \in SUBSET Nat
    BY DEF S
  <2> QED BY <1>3, <1>4, <2>1, SetInduction
<1>6. Len(h) \in Nat /\ Len(h) > 0
  OBVIOUS
<1> QED BY <1>1, <1>5, <1>6 DEF S
-----------------------------------------------------------------------------
\* The inductive invariant.

PoisOK ==
  /\ candles \in Seq(Candles)
  /\ \A p \in DOMAIN specs : specs[p] \in PoiSpecs
  /\ DOMAIN cursors = DOMAIN specs
  /\ DOMAIN lastWalks \subseteq DOMAIN specs

CursorsOK ==
  \A p \in DOMAIN cursors : WellFormed(cursors[p]) /\ cursors[p].total <= total

LatestOK ==
  /\ maxAvailable \in Nat \cup {None}
  /\ \A i \in 1 .. Len(candles) : maxAvailable # None /\ candles[i].available <= maxAvailable

Inv ==
  /\ PoisOK /\ CursorsOK /\ LatestOK
  /\ FastForwardIsSafe /\ IndexesMatchCursors /\ DueIsComingBar

\* What Advance assigns.

LEMMA StreamStep ==
  ASSUME NEW c, NEW d, Advance(c, d)
  PROVE  /\ candles' = Append(candles, c)
         /\ specs' = Revised(specs, d)
         /\ maxAvailable' = Latest(c)
BY Zenon DEF Advance, Commit

LEMMA CursorStep ==
  ASSUME NEW c, NEW d, Advance(c, d)
  PROVE  /\ cursors' = [p \in DOMAIN Revised(specs, d) |->
                          IF p \in DOMAIN After(c, d) THEN After(c, d)[p].cursor ELSE cursors[p]]
         /\ lastWalks' = [p \in DOMAIN Walked(c, d) |-> Walked(c, d)[p].result]
BY Zenon DEF Advance, Commit

LEMMA RegistryStep ==
  ASSUME NEW c, NEW d, Advance(c, d)
  PROVE  /\ touchIndex' = Reindex(touchIndex, {p \in DOMAIN cursors : InTouch(cursors[p])},
                 {p \in DOMAIN After(c, d) : InTouch(After(c, d)[p].cursor)}, Torn(d), After(c, d))
         /\ breachIndex' = Reindex(breachIndex, {p \in DOMAIN cursors : InBreach(cursors[p])},
                 {p \in DOMAIN After(c, d) : InBreach(After(c, d)[p].cursor)}, Torn(d), After(c, d))
         /\ due' = NextDue(After(c, d))
BY Zenon DEF Advance, Commit

\* A delta names present POIs to remove, and POIs with fields to add or replace.
LEMMA DeltaFacts ==
  ASSUME NEW d \in Delta(DOMAIN specs), PoisOK
  PROVE  /\ \A p \in DOMAIN d.given : d.given[p] \in PoiSpecs
         /\ Remaining(d) \subseteq DOMAIN specs
         /\ Remaining(d) \cap DOMAIN d.given = {}
         /\ DOMAIN Revised(specs, d) = Remaining(d) \cup DOMAIN d.given
         /\ \A p \in Remaining(d) : Revised(specs, d)[p] = specs[p]
         /\ \A p \in DOMAIN d.given : Revised(specs, d)[p] = d.given[p]
         /\ \A p \in DOMAIN Revised(specs, d) : Revised(specs, d)[p] \in PoiSpecs
<1>1. PICK ids \in SUBSET Poi : d.given \in [ids -> PoiSpecs]
  BY DEF Delta
<1>2. \A p \in DOMAIN d.given : d.given[p] \in PoiSpecs
  BY <1>1
<1>3. Remaining(d) \subseteq DOMAIN specs /\ Remaining(d) \cap DOMAIN d.given = {}
  BY DEF Remaining, Kept
<1>4. /\ DOMAIN Revised(specs, d) = Remaining(d) \cup DOMAIN d.given
      /\ \A p \in Remaining(d) : Revised(specs, d)[p] = specs[p]
      /\ \A p \in DOMAIN d.given : Revised(specs, d)[p] = d.given[p]
  BY <1>3 DEF Revised, Remaining
<1> QED BY <1>2, <1>3, <1>4 DEF PoisOK

\* The POIs a step handles, and how.
LEMMA AfterDomain ==
  ASSUME NEW c \in Candles, NEW d \in Delta(DOMAIN specs), PoisOK
  PROVE  /\ Wake(c, Remaining(d)) \subseteq Remaining(d)
         /\ OnTimeIds(c, d) \subseteq DOMAIN d.given
         /\ DOMAIN Walked(c, d) = Wake(c, Remaining(d)) \cup (DOMAIN d.given \ OnTimeIds(c, d))
         /\ DOMAIN After(c, d) = Wake(c, Remaining(d)) \cup DOMAIN d.given
         /\ \A p \in DOMAIN After(c, d) : After(c, d)[p].zone = Revised(specs, d)[p].zone
<1>1. Wake(c, Remaining(d)) \subseteq Remaining(d)
  BY DEF Wake
<1>2. OnTimeIds(c, d) \subseteq DOMAIN d.given
  BY DEF OnTimeIds
<1>3. DOMAIN Walked(c, d) = Wake(c, Remaining(d)) \cup (DOMAIN d.given \ OnTimeIds(c, d))
  BY DEF Walked
<1>4. DOMAIN After(c, d) = Wake(c, Remaining(d)) \cup DOMAIN d.given
  BY <1>2, <1>3 DEF After, Written
<1>5. \A p \in DOMAIN After(c, d) : After(c, d)[p].zone = Revised(specs, d)[p].zone
  BY DEF After, Written
<1> QED BY <1>1, <1>2, <1>3, <1>4, <1>5

LEMMA TotalIsNat == PoisOK => total \in Nat
BY DEF PoisOK, total

\* A present cursor can be brought to the head, and is well formed there.
LEMMA HeadWellFormed ==
  ASSUME Inv, NEW p \in DOMAIN specs
  PROVE  LET f == FastForward(cursors[p], total) IN
         /\ WellFormed(f) /\ f.total = total
         /\ Dormant(cursors[p]) => Dormant(f)
         /\ f.start = cursors[p].start /\ f.terminal = cursors[p].terminal
<1>1. /\ WellFormed(cursors[p]) /\ cursors[p].total <= total /\ total \in Nat
      /\ cursors[p].total = total \/ Dormant(cursors[p])
      /\ cursors[p].total \in Nat
  BY TotalIsNat DEF Inv, PoisOK, CursorsOK, FastForwardIsSafe, WellFormed, Cursor
<1> QED BY <1>1, FastForwardWellFormed

LEMMA AfterCursors ==
  ASSUME Inv, NEW c \in Candles, NEW d \in Delta(DOMAIN specs), NEW p \in DOMAIN After(c, d)
  PROVE  /\ WellFormed(After(c, d)[p].cursor)
         /\ After(c, d)[p].cursor.total = total + 1
<1>1. PoisOK /\ total \in Nat /\ candles \in Seq(Candles)
  BY TotalIsNat DEF Inv, PoisOK
<1>2. CASE p \in OnTimeIds(c, d)
  <2>1. After(c, d)[p].cursor = FastForward(CreateCursor, total + 1)
    BY <1>2 DEF After, Written
  <2>2. Dormant(CreateCursor) /\ WellFormed(CreateCursor) /\ CreateCursor.total = 0
    BY CreateWellFormed DEF Dormant
  <2> QED BY <1>1, <2>1, <2>2, FastForwardWellFormed
<1>3. CASE p \notin OnTimeIds(c, d) /\ p \in Wake(c, Remaining(d))
  <2>1. After(c, d)[p].cursor = WakeUp(p, c).cursor
    BY <1>3 DEF After, Written, Walked
  <2>2. p \in DOMAIN specs /\ specs[p] \in PoiSpecs
    BY <1>1, <1>3, AfterDomain, DeltaFacts DEF PoisOK
  <2>3. ViewOf(c, specs[p]) \in View
    BY <2>2, ViewOfType
  <2>4. WellFormed(FastForward(cursors[p], total)) /\ FastForward(cursors[p], total).total = total
    BY <2>2, HeadWellFormed
  <2> QED BY <2>1, <2>3, <2>4, AdvanceWellFormed DEF WakeUp
<1>4. CASE p \notin OnTimeIds(c, d) /\ p \notin Wake(c, Remaining(d))
  <2>1. p \in DOMAIN d.given /\ p \in DOMAIN Walked(c, d)
    BY <1>1, <1>4, AfterDomain
  <2>2. After(c, d)[p].cursor = FeedAll(Append(candles, c), d.given[p]).cursor
    BY <1>4, <2>1 DEF After, Written, Walked
  <2>3. d.given[p] \in PoiSpecs
    BY <1>1, <2>1, DeltaFacts
  <2>4. Append(candles, c) \in Seq(Candles) /\ Len(Append(candles, c)) = total + 1
    BY <1>1 DEF total
  <2> QED BY <2>2, <2>3, <2>4, FeedAllWellFormed
<1> QED BY <1>2, <1>3, <1>4

\* A POI that is not woken cannot see the candle: it has started, is in no tap and
\* holds no open window, the candle does not touch its zone nor, while its walk is
\* open, breach it.  The indexes and the due registry miss nobody.
LEMMA SleepingIsQuiet ==
  ASSUME Inv, NEW c \in Candles, NEW d \in Delta(DOMAIN specs),
         NEW p \in Remaining(d), p \notin Wake(c, Remaining(d))
  PROVE  /\ ~ DueNext(cursors[p])
         /\ Dormant(cursors[p])
         /\ Quiet(FastForward(cursors[p], total), ViewOf(c, specs[p]))
<1> DEFINE e == cursors[p]
           z == specs[p].zone
           v == ViewOf(c, specs[p])
           f == FastForward(e, total)
<1>1. PoisOK /\ p \in DOMAIN specs /\ p \in DOMAIN cursors
  BY DeltaFacts DEF Inv, PoisOK
<1>2. <<total, p>> \notin due
  BY DEF Wake
<1>3. ~ DueNext(e)
  BY <1>1, <1>2 DEF Inv, DueIsComingBar
<1>4. e.start # None /\ ~ e.inTap /\ e.buffer = << >>
  BY <1>3 DEF DueNext
<1>5. WellFormed(e)
  BY <1>1 DEF Inv, CursorsOK
<1>6. Dormant(e)
  <2>1. ~ e.terminal => e.resume = e.total
    <3>1. Len(<< >>) = 0
      OBVIOUS
    <3>2. ~ e.terminal => e.resume + 0 = e.total /\ e.resume \in Nat
      BY <1>4, <1>5, <3>1 DEF WellFormed, Cursor
    <3> QED BY <3>2
  <2> QED BY <1>4, <2>1 DEF Dormant
<1>7. ~ c.at[z].touch
  <2>1. <<p, z>> \in touchIndex
    BY <1>1, <1>4 DEF Inv, IndexesMatchCursors, InTouch
  <2>2. <<p, z>>[1] = p /\ <<p, z>>[2] = z
    OBVIOUS
  <2> QED BY <2>1, <2>2 DEF Wake
<1>8. ~ e.terminal => c.at[z].pos # "breach"
  <2>1. ~ e.terminal => <<p, z>> \in breachIndex
    BY <1>1, <1>4 DEF Inv, IndexesMatchCursors, InBreach
  <2>2. <<p, z>>[1] = p /\ <<p, z>>[2] = z
    OBVIOUS
  <2> QED BY <2>1, <2>2 DEF Wake
<1>9. f.start = e.start /\ f.terminal = e.terminal
  BY <1>1, HeadWellFormed
<1>10. v.touch = c.at[z].touch /\ v.pos = c.at[z].pos
  BY DEF ViewOf
<1> HIDE DEF e, v, f, z
<1>11. Quiet(f, v)
  BY <1>4, <1>7, <1>8, <1>9, <1>10 DEF Quiet, Breaches
<1> QED BY <1>3, <1>6, <1>11 DEF e, f, v

-----------------------------------------------------------------------------
\* Each conjunct of the invariant is preserved by a step.

LEMMA StepPois ==
  ASSUME Inv, NEW c \in Candles, NEW d \in Delta(DOMAIN specs), Advance(c, d)
  PROVE  PoisOK' /\ total' = total + 1
<1>1. PoisOK
  BY DEF Inv
<1>2. candles' \in Seq(Candles) /\ total' = total + 1
  <2>1. candles' = Append(candles, c) /\ candles \in Seq(Candles)
    BY <1>1, StreamStep, Zenon DEF PoisOK
  <2> QED BY <2>1 DEF total
<1>3. specs' = Revised(specs, d)
  BY StreamStep, Zenon
<1>4. \A p \in DOMAIN specs' : specs'[p] \in PoiSpecs
  BY <1>1, <1>3, DeltaFacts, Zenon
<1>5. DOMAIN cursors' = DOMAIN specs'
  BY <1>3, CursorStep
<1>6. DOMAIN lastWalks' \subseteq DOMAIN specs'
  <2>1. DOMAIN lastWalks' = DOMAIN Walked(c, d)
    BY CursorStep
  <2>2. /\ DOMAIN Walked(c, d) = Wake(c, Remaining(d)) \cup (DOMAIN d.given \ OnTimeIds(c, d))
        /\ Wake(c, Remaining(d)) \subseteq Remaining(d)
    BY <1>1, AfterDomain, Zenon
  <2>3. DOMAIN Revised(specs, d) = Remaining(d) \cup DOMAIN d.given
    BY <1>1, DeltaFacts, Zenon
  <2> QED BY <1>3, <2>1, <2>2, <2>3
<1> QED BY <1>2, <1>4, <1>5, <1>6, Zenon DEF PoisOK

\* Where the present cursors are after the step: written at the head, or asleep.
LEMMA StepCursorCases ==
  ASSUME Inv, NEW c \in Candles, NEW d \in Delta(DOMAIN specs), Advance(c, d),
         NEW p \in DOMAIN cursors'
  PROVE  \/ /\ p \in DOMAIN After(c, d)
            /\ cursors'[p] = After(c, d)[p].cursor
            /\ specs'[p].zone = After(c, d)[p].zone
         \/ /\ p \notin DOMAIN After(c, d)
            /\ p \in Remaining(d) /\ p \notin Wake(c, Remaining(d)) /\ p \in DOMAIN cursors
            /\ cursors'[p] = cursors[p] /\ specs'[p] = specs[p]
<1>1. PoisOK
  BY DEF Inv
<1>2. DOMAIN cursors' = DOMAIN Revised(specs, d)
  BY CursorStep
<1>3. cursors'[p] = IF p \in DOMAIN After(c, d) THEN After(c, d)[p].cursor ELSE cursors[p]
  <2>1. cursors' = [q \in DOMAIN Revised(specs, d) |->
                      IF q \in DOMAIN After(c, d) THEN After(c, d)[q].cursor ELSE cursors[q]]
    BY CursorStep, ZenonT(90)
  <2> QED BY <1>2, <2>1
<1>4. specs' = Revised(specs, d)
  BY StreamStep, Zenon
<1>5. CASE p \in DOMAIN After(c, d)
  <2>1. specs'[p].zone = After(c, d)[p].zone
    BY <1>1, <1>4, <1>5, AfterDomain, Zenon
  <2> QED BY <1>3, <1>5, <2>1
<1>6. CASE p \notin DOMAIN After(c, d)
  <2>1. DOMAIN After(c, d) = Wake(c, Remaining(d)) \cup DOMAIN d.given
    BY <1>1, AfterDomain, Zenon
  <2>2. /\ DOMAIN Revised(specs, d) = Remaining(d) \cup DOMAIN d.given
        /\ Remaining(d) \subseteq DOMAIN specs
        /\ \A q \in Remaining(d) : Revised(specs, d)[q] = specs[q]
    BY <1>1, DeltaFacts, Zenon
  <2>3. p \in Remaining(d) /\ p \notin Wake(c, Remaining(d))
    BY <1>2, <1>6, <2>1, <2>2
  <2>4. p \in DOMAIN cursors /\ specs'[p] = specs[p]
    BY <1>1, <1>4, <2>2, <2>3, Zenon DEF PoisOK
  <2> QED BY <1>3, <1>6, <2>3, <2>4
<1> QED BY <1>5, <1>6

LEMMA StepCursors ==
  ASSUME Inv, NEW c \in Candles, NEW d \in Delta(DOMAIN specs), Advance(c, d)
  PROVE  CursorsOK' /\ FastForwardIsSafe'
<1>1. total' = total + 1 /\ total \in Nat
  BY StepPois, TotalIsNat DEF Inv
<1> SUFFICES ASSUME NEW p \in DOMAIN cursors'
             PROVE  /\ WellFormed(cursors'[p]) /\ cursors'[p].total <= total'
                    /\ cursors'[p].total = total' \/ Dormant(cursors'[p])
  BY DEF CursorsOK, FastForwardIsSafe
<1>2. CASE p \in DOMAIN After(c, d)
  BY <1>1, <1>2, StepCursorCases, AfterCursors
<1>3. CASE p \notin DOMAIN After(c, d)
  <2>1. /\ p \in Remaining(d) /\ p \notin Wake(c, Remaining(d)) /\ p \in DOMAIN cursors
        /\ cursors'[p] = cursors[p]
    BY <1>3, StepCursorCases
  <2>2. Dormant(cursors[p])
    BY <2>1, SleepingIsQuiet
  <2>3. WellFormed(cursors[p]) /\ cursors[p].total <= total
    BY <2>1 DEF Inv, CursorsOK
  <2>4. cursors[p].total \in Nat
    BY <2>3 DEF WellFormed, Cursor
  <2> QED BY <1>1, <2>1, <2>2, <2>3, <2>4
<1> QED BY <1>2, <1>3

LEMMA StepLatest ==
  ASSUME Inv, NEW c \in Candles, NEW d \in Delta(DOMAIN specs), Advance(c, d)
  PROVE  LatestOK'
<1>1. /\ LatestOK /\ PoisOK
  BY DEF Inv
<1>2. maxAvailable' = Latest(c) /\ candles' = Append(candles, c)
  BY StreamStep, Zenon
<1>3. c.available \in Nat /\ maxAvailable \in Nat \cup {None}
  BY <1>1, StreamAssumption DEF LatestOK
<1>4. /\ Latest(c) \in Nat /\ Latest(c) >= c.available /\ Latest(c) # None
      /\ maxAvailable # None => Latest(c) >= maxAvailable
  BY <1>3 DEF Latest, None
<1>5. ASSUME NEW i \in 1 .. Len(candles')
      PROVE  candles'[i].available <= Latest(c)
  <2>1. CASE i \in 1 .. Len(candles)
    <3>1. candles'[i] = candles[i]
      BY <1>1, <1>2, <2>1 DEF PoisOK
    <3>2. maxAvailable # None /\ candles[i].available <= maxAvailable
      BY <1>1, <2>1 DEF LatestOK
    <3>3. candles[i] \in Candles
      BY <1>1, <2>1 DEF PoisOK
    <3>4. candles[i].available \in Nat
      BY <3>3, StreamAssumption
    <3> QED BY <1>3, <1>4, <3>1, <3>2, <3>4
  <2>2. CASE i = Len(candles) + 1
    <3>1. candles'[i] = c
      BY <1>1, <1>2, <2>2 DEF PoisOK
    <3> QED BY <1>4, <3>1
  <2>3. Len(candles') = Len(candles) + 1
    BY <1>1, <1>2 DEF PoisOK
  <2>4. Len(candles) \in Nat
    BY <1>1 DEF PoisOK
  <2> QED BY <2>1, <2>2, <2>3, <2>4
<1> QED BY <1>2, <1>4, <1>5 DEF LatestOK

\* Reindex keeps an index exact: if it held the POIs in was under their zones,
\* it then holds those in now and those of was that were not handled.
LEMMA ReindexExact ==
  ASSUME NEW index, NEW was, NEW now, NEW torn, NEW after,
         index = {<<p, specs[p].zone>> : p \in was},
         now \subseteq DOMAIN after,
         \A p \in DOMAIN after \ torn : p \in was => after[p].zone = specs[p].zone
  PROVE  Reindex(index, was, now, torn, after) =
           {<<p, after[p].zone>> : p \in now}
             \cup {<<p, specs[p].zone>> : p \in (was \ torn) \ DOMAIN after}
<1> DEFINE gone  == {<<p, specs[p].zone>> : p \in was \cap torn}
           enter == {<<p, after[p].zone>> : p \in now \ (was \ torn)}
           leave == {<<p, after[p].zone>> : p \in ((was \ torn) \cap DOMAIN after) \ now}
<1>1. index \ gone = {<<p, specs[p].zone>> : p \in was \ torn}
  OBVIOUS
<1>2. ((index \ gone) \cup enter) \ leave =
        {<<p, after[p].zone>> : p \in now}
          \cup {<<p, specs[p].zone>> : p \in (was \ torn) \ DOMAIN after}
  <2> HIDE DEF gone
  <2>1. (index \ gone) \cup enter =
          {<<p, specs[p].zone>> : p \in was \ torn} \cup {<<p, after[p].zone>> : p \in now}
    BY <1>1
  <2>2. {<<p, specs[p].zone>> : p \in was \ torn} =
          {<<p, after[p].zone>> : p \in (was \ torn) \cap DOMAIN after}
            \cup {<<p, specs[p].zone>> : p \in (was \ torn) \ DOMAIN after}
    OBVIOUS
  <2> HIDE DEF enter
  <2> QED BY <2>1, <2>2
<1> QED BY <1>2, Zenon DEF Reindex

\* What is present after a step, and under which zone.
LEMMA StepPresent ==
  ASSUME Inv, NEW c \in Candles, NEW d \in Delta(DOMAIN specs), Advance(c, d)
  PROVE  /\ DOMAIN After(c, d) \subseteq DOMAIN cursors'
         /\ \A p \in DOMAIN cursors \ Torn(d) : p \in DOMAIN cursors'
         /\ \A p \in DOMAIN cursors' \ DOMAIN After(c, d) :
              p \in DOMAIN cursors /\ p \notin Torn(d)
         /\ \A p \in DOMAIN After(c, d) \ Torn(d) :
              p \in DOMAIN cursors => After(c, d)[p].zone = specs[p].zone
<1>1. PoisOK
  BY DEF Inv
<1>2. DOMAIN cursors' = DOMAIN Revised(specs, d)
  BY CursorStep
<1>3. /\ DOMAIN After(c, d) = Wake(c, Remaining(d)) \cup DOMAIN d.given
      /\ Wake(c, Remaining(d)) \subseteq Remaining(d)
      /\ \A p \in DOMAIN After(c, d) : After(c, d)[p].zone = Revised(specs, d)[p].zone
  BY <1>1, AfterDomain, Zenon
<1>4. /\ DOMAIN Revised(specs, d) = Remaining(d) \cup DOMAIN d.given
      /\ Remaining(d) \subseteq DOMAIN specs
      /\ \A p \in Remaining(d) : Revised(specs, d)[p] = specs[p]
  BY <1>1, DeltaFacts, Zenon
<1>5. DOMAIN cursors = DOMAIN specs
  BY <1>1 DEF PoisOK
<1>6. Torn(d) = DOMAIN specs \ Remaining(d)
  BY DEF Torn
<1> QED BY <1>2, <1>3, <1>4, <1>5, <1>6

\* An index that held the POIs in was, and is reindexed for those in now, holds
\* those in inside, if inside is now among the handled and was among the others.
LEMMA StepIndex ==
  ASSUME Inv, NEW c \in Candles, NEW d \in Delta(DOMAIN specs), Advance(c, d),
         NEW index, NEW was \in SUBSET DOMAIN cursors, NEW now \in SUBSET DOMAIN After(c, d),
         NEW inside \in SUBSET DOMAIN cursors',
         index = {<<p, specs[p].zone>> : p \in was},
         inside \cap DOMAIN After(c, d) = now,
         inside \ DOMAIN After(c, d) = (was \ Torn(d)) \ DOMAIN After(c, d)
  PROVE  Reindex(index, was, now, Torn(d), After(c, d)) = {<<p, specs'[p].zone>> : p \in inside}
<1>1. Reindex(index, was, now, Torn(d), After(c, d)) =
        {<<p, After(c, d)[p].zone>> : p \in now}
          \cup {<<p, specs[p].zone>> : p \in (was \ Torn(d)) \ DOMAIN After(c, d)}
  <2>1. \A p \in DOMAIN After(c, d) \ Torn(d) : p \in was => After(c, d)[p].zone = specs[p].zone
    BY StepPresent
  <2>2. now \subseteq DOMAIN After(c, d)
    OBVIOUS
  <2> QED BY <2>1, <2>2, ReindexExact
<1>2. \A p \in now : specs'[p].zone = After(c, d)[p].zone
  BY StepPresent, StepCursorCases
<1>3. \A p \in inside \ DOMAIN After(c, d) : specs'[p].zone = specs[p].zone
  BY StepCursorCases
<1>4. {<<p, After(c, d)[p].zone>> : p \in now} = {<<p, specs'[p].zone>> : p \in now}
  BY <1>2
<1>5. {<<p, specs[p].zone>> : p \in inside \ DOMAIN After(c, d)} =
        {<<p, specs'[p].zone>> : p \in inside \ DOMAIN After(c, d)}
  BY <1>3
<1>6. inside = now \cup (inside \ DOMAIN After(c, d))
  OBVIOUS
<1>7. {<<p, specs'[p].zone>> : p \in inside} =
        {<<p, specs'[p].zone>> : p \in now}
          \cup {<<p, specs'[p].zone>> : p \in inside \ DOMAIN After(c, d)}
  BY <1>6
<1> QED BY <1>1, <1>4, <1>5, <1>7

LEMMA StepIndexes ==
  ASSUME Inv, NEW c \in Candles, NEW d \in Delta(DOMAIN specs), Advance(c, d)
  PROVE  IndexesMatchCursors'
<1> DEFINE touched  == {p \in DOMAIN cursors : InTouch(cursors[p])}
           breached == {p \in DOMAIN cursors : InBreach(cursors[p])}
           touchedNow  == {p \in DOMAIN After(c, d) : InTouch(After(c, d)[p].cursor)}
           breachedNow == {p \in DOMAIN After(c, d) : InBreach(After(c, d)[p].cursor)}
           touchedAfter  == {p \in DOMAIN cursors' : InTouch(cursors'[p])}
           breachedAfter == {p \in DOMAIN cursors' : InBreach(cursors'[p])}
<1>1. /\ \A p \in DOMAIN After(c, d) : p \in DOMAIN cursors' /\ cursors'[p] = After(c, d)[p].cursor
      /\ \A p \in DOMAIN cursors' \ DOMAIN After(c, d) :
           p \in DOMAIN cursors \ Torn(d) /\ cursors'[p] = cursors[p]
      /\ \A p \in DOMAIN cursors \ Torn(d) : p \in DOMAIN cursors'
  BY StepPresent, StepCursorCases
<1>2. touchIndex = {<<p, specs[p].zone>> : p \in touched}
  BY DEF Inv, IndexesMatchCursors
<1>3. breachIndex = {<<p, specs[p].zone>> : p \in breached}
  BY DEF Inv, IndexesMatchCursors
<1>4. /\ touchedAfter \cap DOMAIN After(c, d) = touchedNow
      /\ touchedAfter \ DOMAIN After(c, d) = (touched \ Torn(d)) \ DOMAIN After(c, d)
  BY <1>1
<1>5. /\ breachedAfter \cap DOMAIN After(c, d) = breachedNow
      /\ breachedAfter \ DOMAIN After(c, d) = (breached \ Torn(d)) \ DOMAIN After(c, d)
  BY <1>1
<1>6. /\ touchIndex' = Reindex(touchIndex, touched, touchedNow, Torn(d), After(c, d))
      /\ breachIndex' = Reindex(breachIndex, breached, breachedNow, Torn(d), After(c, d))
  BY RegistryStep, Zenon
<1>7. /\ touched \in SUBSET DOMAIN cursors /\ breached \in SUBSET DOMAIN cursors
      /\ touchedNow \in SUBSET DOMAIN After(c, d) /\ breachedNow \in SUBSET DOMAIN After(c, d)
      /\ touchedAfter \in SUBSET DOMAIN cursors' /\ breachedAfter \in SUBSET DOMAIN cursors'
  OBVIOUS
<1>8. IndexesMatchCursors' =
        (/\ touchIndex' = {<<p, specs'[p].zone>> : p \in touchedAfter}
         /\ breachIndex' = {<<p, specs'[p].zone>> : p \in breachedAfter})
  BY Zenon DEF IndexesMatchCursors, InTouch, InBreach
<1> HIDE DEF touched, breached, touchedNow, breachedNow, touchedAfter, breachedAfter
<1>9. touchIndex' = {<<p, specs'[p].zone>> : p \in touchedAfter}
  BY <1>2, <1>4, <1>6, <1>7, StepIndex
<1>10. breachIndex' = {<<p, specs'[p].zone>> : p \in breachedAfter}
  BY <1>3, <1>5, <1>6, <1>7, StepIndex
<1> QED BY <1>8, <1>9, <1>10

LEMMA StepDue ==
  ASSUME Inv, NEW c \in Candles, NEW d \in Delta(DOMAIN specs), Advance(c, d)
  PROVE  DueIsComingBar'
<1> DEFINE dueNow   == {q \in DOMAIN After(c, d) : DueNext(After(c, d)[q].cursor)}
           dueAfter == {q \in DOMAIN cursors' : DueNext(cursors'[q])}
<1>1. total' = total + 1 /\ total \in Nat
  BY StepPois, TotalIsNat DEF Inv
<1>2. due' = {e \in due : e[1] # total} \cup {<<total + 1, p>> : p \in dueNow}
  BY RegistryStep, ZenonT(60) DEF NextDue
<1>3. {e \in due : e[1] # total} = {}
  <2>1. due = {<<total, p>> : p \in {q \in DOMAIN cursors : DueNext(cursors[q])}}
    BY DEF Inv, DueIsComingBar
  <2> QED BY <2>1
<1>4. dueNow = dueAfter
  <2>1. \A p \in DOMAIN After(c, d) : p \in DOMAIN cursors' /\ cursors'[p] = After(c, d)[p].cursor
    BY StepPresent, StepCursorCases
  <2>2. ASSUME NEW p \in DOMAIN cursors', p \notin DOMAIN After(c, d)
        PROVE  ~ DueNext(cursors'[p])
    <3>1. p \in Remaining(d) /\ p \notin Wake(c, Remaining(d)) /\ cursors'[p] = cursors[p]
      BY <2>2, StepCursorCases
    <3>2. ~ DueNext(cursors[p])
      BY <3>1, SleepingIsQuiet
    <3> QED BY <3>1, <3>2
  <2> QED BY <2>1, <2>2
<1>5. due' = {<<total', p>> : p \in dueAfter}
  <2> HIDE DEF dueNow, dueAfter
  <2> QED BY <1>1, <1>2, <1>3, <1>4
<1>6. ASSUME NEW p \in DOMAIN cursors', DueNext(cursors'[p])
      PROVE  cursors'[p].total = total'
  <2>1. p \in DOMAIN After(c, d) /\ cursors'[p] = After(c, d)[p].cursor
    BY <1>4, <1>6, StepCursorCases
  <2> QED BY <1>1, <2>1, AfterCursors
<1>7. DueIsComingBar' = (/\ due' = {<<total', p>> : p \in dueAfter}
                         /\ \A p \in DOMAIN cursors' :
                              DueNext(cursors'[p]) => cursors'[p].total = total')
  BY Zenon DEF DueIsComingBar, DueNext
<1> QED BY <1>5, <1>6, <1>7

LEMMA InitInv == Init => Inv
<1> SUFFICES ASSUME Init PROVE Inv
  OBVIOUS
<1>1. PoisOK /\ total = 0
  BY DEF Init, PoisOK, total
<1>2. DOMAIN cursors = {}
  BY DEF Init
<1>3. CursorsOK /\ FastForwardIsSafe /\ IndexesMatchCursors /\ DueIsComingBar
  BY <1>2 DEF Init, CursorsOK, FastForwardIsSafe, IndexesMatchCursors, DueIsComingBar
<1>4. LatestOK
  BY DEF Init, LatestOK
<1> QED BY <1>1, <1>3, <1>4 DEF Inv

LEMMA StepInv == Inv /\ [Next]_vars => Inv'
<1> SUFFICES ASSUME Inv, [Next]_vars PROVE Inv'
  OBVIOUS
<1>1. CASE Next
  <2>1. PICK c \in Candles, d \in Delta(DOMAIN specs) : Advance(c, d)
    BY <1>1 DEF Next
  <2>2. PoisOK' /\ CursorsOK' /\ LatestOK'
    BY <2>1, StepPois, StepCursors, StepLatest
  <2>3. FastForwardIsSafe' /\ IndexesMatchCursors' /\ DueIsComingBar'
    BY <2>1, StepCursors, StepIndexes, StepDue
  <2> QED BY <2>2, <2>3 DEF Inv
<1>2. CASE UNCHANGED vars
  BY <1>2 DEF vars, Inv, PoisOK, CursorsOK, LatestOK, FastForwardIsSafe, IndexesMatchCursors,
       DueIsComingBar, total
<1> QED BY <1>1, <1>2

LEMMA Inductive == Spec => []Inv
BY InitInv, StepInv, PTL DEF Spec

-----------------------------------------------------------------------------
\* The registries and the cursors are well formed whatever the stream and the
\* changes of POIs.
THEOREM TypeCorrect == Spec => []TypeOK
<1>1. Inv => TypeOK
  BY DEF Inv, PoisOK, CursorsOK, WellFormed, IndexesMatchCursors, TypeOK
<1> QED BY <1>1, Inductive, PTL

\* The assertions of fast_forward_poi_cursor never fail: a cursor behind the head is
\* dormant.
THEOREM FastForwardSafe == Spec => []FastForwardIsSafe
<1>1. Inv => FastForwardIsSafe
  BY DEF Inv
<1> QED BY <1>1, Inductive, PTL

\* The two indexes hold exactly the cursors their queries must find, under the
\* zones they have now, and the due registry one bucket, for the coming bar.
THEOREM RegistriesExact == Spec => []RegistriesMatchCursors
<1>1. Inv => RegistriesMatchCursors
  BY DEF Inv, RegistriesMatchCursors
<1> QED BY <1>1, Inductive, PTL
-----------------------------------------------------------------------------
\* The scheduler implements the engine that advances every cursor.

\* The definitions the abstract engine brings are those of this module.
LEMMA SameDelta ==
  /\ \A present, d : Oracle!Kept(present, d) = Kept(present, d)
  /\ \A present : Oracle!Delta(present) = Delta(present)
  /\ \A s, d : Oracle!Revised(s, d) = Revised(s, d)
BY DEF Oracle!Kept, Kept, Oracle!Delta, Delta, Oracle!Revised, Revised

\* What the abstract engine computes for each POI present after the step.
Outcome(c, d) ==
  [p \in DOMAIN Revised(specs, d) |->
     IF p \in Kept(DOMAIN specs, d) THEN AdvanceCursor(Materialized[p], ViewOf(c, specs[p]))
     ELSE FeedAll(Append(candles, c), d.given[p])]

LEMMA AdvancedAtHead ==
  ASSUME NEW c, c.total = total'
  PROVE  FastForward(c, total') = c
BY DEF FastForward

\* A woken POI.
LEMMA WokenRefines ==
  ASSUME Inv, NEW c \in Candles, NEW d \in Delta(DOMAIN specs), Advance(c, d),
         NEW p \in Wake(c, Remaining(d))
  PROVE  /\ p \in DOMAIN cursors' /\ p \in DOMAIN lastWalks'
         /\ FastForward(cursors'[p], total') = Outcome(c, d)[p].cursor
         /\ lastWalks'[p] = Outcome(c, d)[p].result
<1>1. PoisOK /\ DOMAIN cursors = DOMAIN specs
  BY DEF Inv, PoisOK
<1>2. /\ Wake(c, Remaining(d)) \subseteq Remaining(d)
      /\ OnTimeIds(c, d) \subseteq DOMAIN d.given
      /\ DOMAIN Walked(c, d) = Wake(c, Remaining(d)) \cup (DOMAIN d.given \ OnTimeIds(c, d))
      /\ DOMAIN After(c, d) = Wake(c, Remaining(d)) \cup DOMAIN d.given
  BY <1>1, AfterDomain, Zenon
<1>3. /\ Remaining(d) \subseteq DOMAIN specs /\ Remaining(d) \cap DOMAIN d.given = {}
      /\ DOMAIN Revised(specs, d) = Remaining(d) \cup DOMAIN d.given
  BY <1>1, DeltaFacts, Zenon
<1>4. /\ p \in DOMAIN After(c, d) /\ p \in DOMAIN Walked(c, d) /\ p \notin OnTimeIds(c, d)
      /\ p \in DOMAIN cursors /\ p \in DOMAIN Revised(specs, d)
      /\ p \in Kept(DOMAIN specs, d)
  BY <1>1, <1>2, <1>3 DEF Remaining
<1>5. Walked(c, d)[p] = WakeUp(p, c)
  BY <1>4 DEF Walked
<1>6. After(c, d)[p].cursor = WakeUp(p, c).cursor
  BY <1>4, <1>5 DEF After, Written
<1>7. Outcome(c, d)[p] = WakeUp(p, c)
  <2>1. Materialized[p] = FastForward(cursors[p], total)
    BY <1>4 DEF Materialized
  <2> QED BY <1>4, <2>1 DEF Outcome, WakeUp
<1>8. p \in DOMAIN cursors' /\ cursors'[p] = WakeUp(p, c).cursor
  BY <1>4, <1>6, StepPresent, StepCursorCases
<1>9. cursors'[p].total = total'
  BY <1>4, <1>6, <1>8, AfterCursors, StepPois
<1>10. p \in DOMAIN lastWalks' /\ lastWalks'[p] = WakeUp(p, c).result
  <2>1. lastWalks' = [q \in DOMAIN Walked(c, d) |-> Walked(c, d)[q].result]
    BY CursorStep, ZenonT(60)
  <2> QED BY <1>4, <1>5, <2>1
<1> QED BY <1>7, <1>8, <1>9, <1>10, AdvancedAtHead

\* A POI rebuilt from the stream.
LEMMA RebuiltRefines ==
  ASSUME Inv, NEW c \in Candles, NEW d \in Delta(DOMAIN specs), Advance(c, d),
         NEW p \in DOMAIN d.given \ OnTimeIds(c, d)
  PROVE  /\ p \in DOMAIN cursors' /\ p \in DOMAIN lastWalks'
         /\ FastForward(cursors'[p], total') = Outcome(c, d)[p].cursor
         /\ lastWalks'[p] = Outcome(c, d)[p].result
<1> DEFINE fed == FeedAll(Append(candles, c), d.given[p])
<1>1. PoisOK
  BY DEF Inv
<1>2. /\ Wake(c, Remaining(d)) \subseteq Remaining(d)
      /\ DOMAIN Walked(c, d) = Wake(c, Remaining(d)) \cup (DOMAIN d.given \ OnTimeIds(c, d))
      /\ DOMAIN After(c, d) = Wake(c, Remaining(d)) \cup DOMAIN d.given
  BY <1>1, AfterDomain, Zenon
<1>3. /\ Remaining(d) \cap DOMAIN d.given = {}
      /\ DOMAIN Revised(specs, d) = Remaining(d) \cup DOMAIN d.given
  BY <1>1, DeltaFacts, Zenon
<1>4. /\ p \in DOMAIN After(c, d) /\ p \in DOMAIN Walked(c, d) /\ p \notin OnTimeIds(c, d)
      /\ p \in DOMAIN Revised(specs, d) /\ p \notin Wake(c, Remaining(d))
      /\ p \notin Kept(DOMAIN specs, d)
  BY <1>2, <1>3 DEF Remaining
<1>5. Walked(c, d)[p] = fed
  BY <1>4 DEF Walked
<1>6. After(c, d)[p].cursor = fed.cursor
  BY <1>4, <1>5 DEF After, Written
<1>7. Outcome(c, d)[p] = fed
  BY <1>4 DEF Outcome
<1>8. p \in DOMAIN cursors' /\ cursors'[p] = fed.cursor
  BY <1>4, <1>6, StepPresent, StepCursorCases
<1>9. cursors'[p].total = total'
  BY <1>4, <1>6, <1>8, AfterCursors, StepPois
<1>10. p \in DOMAIN lastWalks' /\ lastWalks'[p] = fed.result
  <2>1. lastWalks' = [q \in DOMAIN Walked(c, d) |-> Walked(c, d)[q].result]
    BY CursorStep, ZenonT(60)
  <2> QED BY <1>4, <1>5, <2>1
<1> QED BY <1>7, <1>8, <1>9, <1>10, AdvancedAtHead

\* A new POI whose availability no candle passes: what feeding it the stream would
\* give is read from a cursor created at the head.
LEMMA OnTimeRefines ==
  ASSUME Inv, NEW c \in Candles, NEW d \in Delta(DOMAIN specs), Advance(c, d),
         NEW p \in OnTimeIds(c, d)
  PROVE  LET f == FastForward(cursors'[p], total') IN
         /\ p \in DOMAIN cursors' /\ p \notin DOMAIN lastWalks'
         /\ f = Outcome(c, d)[p].cursor
         /\ CursorWalkResult(f) = Outcome(c, d)[p].result
<1> DEFINE h == Append(candles, c)
           s == d.given[p]
           e == FastForward(CreateCursor, total + 1)
<1>1. PoisOK /\ total \in Nat
  BY TotalIsNat DEF Inv
<1>2. /\ Wake(c, Remaining(d)) \subseteq Remaining(d)
      /\ OnTimeIds(c, d) \subseteq DOMAIN d.given
      /\ DOMAIN Walked(c, d) = Wake(c, Remaining(d)) \cup (DOMAIN d.given \ OnTimeIds(c, d))
      /\ DOMAIN After(c, d) = Wake(c, Remaining(d)) \cup DOMAIN d.given
  BY <1>1, AfterDomain, Zenon
<1>3. /\ Remaining(d) \cap DOMAIN d.given = {}
      /\ DOMAIN Revised(specs, d) = Remaining(d) \cup DOMAIN d.given
      /\ s \in PoiSpecs
  BY <1>1, <1>2, DeltaFacts, Zenon
<1>4. /\ p \in DOMAIN After(c, d) /\ p \notin DOMAIN Walked(c, d)
      /\ p \in DOMAIN Revised(specs, d) /\ p \notin Kept(DOMAIN specs, d)
  BY <1>2, <1>3 DEF Remaining
<1>5. After(c, d)[p].cursor = e
  BY <1>4 DEF After, Written
<1>6. Outcome(c, d)[p] = FeedAll(h, s)
  BY <1>4 DEF Outcome
<1>7. h \in Seq(Candles) /\ h # << >> /\ Len(h) = total + 1
  BY <1>1 DEF PoisOK, total
<1>8. \A i \in 1 .. Len(h) : ~ (h[i].available > s.available)
  <2>1. candles' = h /\ maxAvailable' = Latest(c)
    BY StreamStep, Zenon
  <2>2. LatestOK'
    BY StepLatest
  <2>3. s.available >= Latest(c)
    BY DEF OnTimeIds, OnTime
  <2>4. Latest(c) \in Nat \cup {None}
    BY <2>1, <2>2 DEF LatestOK
  <2>5. \A i \in 1 .. Len(h) : Latest(c) # None /\ h[i].available <= Latest(c)
    BY <2>1, <2>2 DEF LatestOK
  <2>6. \A i \in 1 .. Len(h) : h[i].available \in Nat
    <3> SUFFICES ASSUME NEW i \in 1 .. Len(h) PROVE h[i].available \in Nat
      OBVIOUS
    <3>1. h[i] \in Candles
      BY <1>7
    <3> QED BY <3>1, StreamAssumption
  <2>7. s.available \in Nat
    BY <1>3, StreamAssumption
  <2> HIDE DEF h, s
  <2> QED BY <2>3, <2>4, <2>5, <2>6, <2>7
<1>9. FeedAll(h, s) = [cursor |-> e, result |-> CursorWalkResult(e)]
  <2> HIDE DEF h, s
  <2> QED BY <1>3, <1>7, <1>8, FeedAllBeforeStart
<1>10. p \in DOMAIN cursors' /\ cursors'[p] = e
  BY <1>4, <1>5, StepPresent, StepCursorCases
<1>11. cursors'[p].total = total'
  BY <1>4, <1>5, <1>10, AfterCursors, StepPois
<1>12. DOMAIN lastWalks' = DOMAIN Walked(c, d)
  BY CursorStep
<1>13. FastForward(cursors'[p], total') = e
  BY <1>10, <1>11, AdvancedAtHead
<1> HIDE DEF e, h, s
<1> QED BY <1>4, <1>6, <1>9, <1>10, <1>12, <1>13

\* A POI left asleep: advancing it would have done no more than FastForward does.
LEMMA SleepingRefines ==
  ASSUME Inv, NEW c \in Candles, NEW d \in Delta(DOMAIN specs), Advance(c, d),
         NEW p \in Remaining(d), p \notin Wake(c, Remaining(d))
  PROVE  LET f == FastForward(cursors'[p], total') IN
         /\ p \in DOMAIN cursors' /\ p \notin DOMAIN lastWalks'
         /\ f = Outcome(c, d)[p].cursor
         /\ CursorWalkResult(f) = Outcome(c, d)[p].result
<1> DEFINE e == cursors[p]
           f == FastForward(e, total)
           g == FastForward(e, total + 1)
           v == ViewOf(c, specs[p])
<1>1. PoisOK /\ total \in Nat /\ total' = total + 1
  BY TotalIsNat, StepPois DEF Inv
<1>2. /\ DOMAIN Walked(c, d) = Wake(c, Remaining(d)) \cup (DOMAIN d.given \ OnTimeIds(c, d))
      /\ DOMAIN After(c, d) = Wake(c, Remaining(d)) \cup DOMAIN d.given
  BY <1>1, AfterDomain, Zenon
<1>3. /\ Remaining(d) \subseteq DOMAIN specs /\ Remaining(d) \cap DOMAIN d.given = {}
      /\ DOMAIN Revised(specs, d) = Remaining(d) \cup DOMAIN d.given
  BY <1>1, DeltaFacts, Zenon
<1>4. /\ p \notin DOMAIN After(c, d) /\ p \notin DOMAIN Walked(c, d)
      /\ p \in DOMAIN Revised(specs, d) /\ p \in Kept(DOMAIN specs, d)
      /\ p \in DOMAIN specs /\ p \in DOMAIN cursors
  BY <1>1, <1>2, <1>3 DEF Remaining, PoisOK
<1>5. Outcome(c, d)[p] = AdvanceCursor(f, v)
  <2>1. Materialized[p] = f
    BY <1>4 DEF Materialized
  <2> QED BY <1>4, <2>1 DEF Outcome
<1>6. Dormant(e) /\ Quiet(f, v)
  BY SleepingIsQuiet, Zenon
<1>7. WellFormed(f) /\ f.total = total /\ Dormant(f)
  BY <1>4, <1>6, HeadWellFormed
<1>8. v \in View
  BY <1>1, <1>4, ViewOfType DEF PoisOK
<1>9. WellFormed(e) /\ e.total <= total
  BY <1>4 DEF Inv, CursorsOK
<1>10. FastForward(f, total + 1) = g
  <2> HIDE DEF e, v
  <2>1. total < total + 1 /\ total + 1 \in Nat
    BY <1>1
  <2> QED BY <1>1, <1>6, <1>9, <2>1, FastForwardTwice
<1>11. p \in DOMAIN cursors' /\ cursors'[p] = e
  <2>1. DOMAIN cursors' = DOMAIN Revised(specs, d)
    BY CursorStep
  <2> QED BY <1>4, <2>1, StepCursorCases
<1>12. DOMAIN lastWalks' = DOMAIN Walked(c, d)
  BY CursorStep
<1> HIDE DEF e, f, g, v
<1>13. AdvanceCursor(f, v) = [cursor |-> g, result |-> CursorWalkResult(g)]
  BY <1>6, <1>7, <1>8, <1>10, QuietAdvance
<1>14. FastForward(cursors'[p], total') = g
  BY <1>1, <1>11 DEF g, e
<1> QED BY <1>4, <1>5, <1>11, <1>12, <1>13, <1>14

\* After a step every POI is where the abstract engine brings it, and is read with
\* the result of that.
LEMMA StepOutcome ==
  ASSUME Inv, NEW c \in Candles, NEW d \in Delta(DOMAIN specs), Advance(c, d)
  PROVE  /\ DOMAIN cursors' = DOMAIN Revised(specs, d)
         /\ \A p \in DOMAIN Revised(specs, d) : /\ Materialized'[p] = Outcome(c, d)[p].cursor
                                               /\ Published'[p] = Outcome(c, d)[p].result
<1>1. PoisOK
  BY DEF Inv
<1>2. /\ OnTimeIds(c, d) \subseteq DOMAIN d.given
      /\ DOMAIN Revised(specs, d) = Remaining(d) \cup DOMAIN d.given
  BY <1>1, AfterDomain, DeltaFacts, Zenon
<1>3. DOMAIN cursors' = DOMAIN Revised(specs, d)
  BY CursorStep
<1>4. ASSUME NEW p \in DOMAIN Revised(specs, d)
      PROVE  /\ Materialized'[p] = Outcome(c, d)[p].cursor
             /\ Published'[p] = Outcome(c, d)[p].result
  <2>1. Materialized'[p] = FastForward(cursors'[p], total')
    BY <1>3 DEF Materialized
  <2>2. Published'[p] = IF p \in DOMAIN lastWalks' THEN lastWalks'[p]
                        ELSE CursorWalkResult(Materialized'[p])
    BY <1>3 DEF Published
  <2>3. CASE p \in Wake(c, Remaining(d))
    BY <2>1, <2>2, <2>3, WokenRefines, Zenon
  <2>4. CASE p \in Remaining(d) /\ p \notin Wake(c, Remaining(d))
    BY <2>1, <2>2, <2>4, SleepingRefines, ZenonT(60)
  <2>5. CASE p \in DOMAIN d.given \ OnTimeIds(c, d)
    BY <2>1, <2>2, <2>5, RebuiltRefines, Zenon
  <2>6. CASE p \in OnTimeIds(c, d)
    BY <2>1, <2>2, <2>6, OnTimeRefines, Zenon
  <2> QED BY <1>2, <2>3, <2>4, <2>5, <2>6
<1> QED BY <1>3, <1>4

\* A step maps to the step of the abstract engine for the same candle and delta.
LEMMA StepRefines ==
  ASSUME Inv, NEW c \in Candles, NEW d \in Delta(DOMAIN specs), Advance(c, d)
  PROVE  Oracle!Advance(c, d)
<1>1. PoisOK /\ candles' = Append(candles, c) /\ specs' = Revised(specs, d)
      /\ Len(candles) < MaxCandles
  <2>1. total < MaxCandles
    BY Zenon DEF Advance, Commit
  <2> QED BY <2>1, StreamStep DEF Inv, total
<1>2. DOMAIN cursors' = DOMAIN Revised(specs, d)
  BY StepOutcome
<1>3. \A p \in DOMAIN Revised(specs, d) : /\ Materialized'[p] = Outcome(c, d)[p].cursor
                                         /\ Published'[p] = Outcome(c, d)[p].result
  BY StepOutcome
<1>5. DOMAIN Outcome(c, d) = DOMAIN Revised(specs, d)
  BY DEF Outcome
<1>6. Materialized' = [p \in DOMAIN Outcome(c, d) |-> Outcome(c, d)[p].cursor]
  BY <1>2, <1>3, <1>5 DEF Materialized
<1>7. Published' = [p \in DOMAIN Outcome(c, d) |-> Outcome(c, d)[p].result]
  BY <1>2, <1>3, <1>5 DEF Published
<1>8. [p \in DOMAIN Oracle!Revised(specs, d) |->
         IF p \in Oracle!Kept(DOMAIN specs, d) THEN AdvanceCursor(Materialized[p], ViewOf(c, specs[p]))
         ELSE FeedAll(Append(candles, c), d.given[p])] = Outcome(c, d)
  BY SameDelta DEF Outcome
<1>9. specs' = Oracle!Revised(specs, d)
  BY <1>1, SameDelta
<1> QED BY <1>1, <1>6, <1>7, <1>8, <1>9, Zenon DEF Oracle!Advance

\* Waking only touched, breached and due cursors, and leaving the others behind,
\* publishes at every candle the cursors and the results that advancing every
\* cursor would have.
THEOREM Implements == Spec => ImplementsEveryCursor
<1>1. Init => Oracle!Init
  BY DEF Init, Oracle!Init, Materialized, Published
<1>2. Inv /\ [Next]_vars => [Oracle!Next]_(Oracle!vars)
  <2> SUFFICES ASSUME Inv, [Next]_vars PROVE [Oracle!Next]_(Oracle!vars)
    OBVIOUS
  <2>1. CASE Next
    <3>1. PICK c \in Candles, d \in Delta(DOMAIN specs) : Advance(c, d)
      BY <2>1 DEF Next
    <3>2. Oracle!Advance(c, d)
      BY <3>1, StepRefines
    <3>3. d \in Oracle!Delta(DOMAIN specs)
      BY <3>1, SameDelta
    <3> QED BY <3>1, <3>2, <3>3 DEF Oracle!Next
  <2>2. CASE UNCHANGED vars
    BY <2>2 DEF vars, Oracle!vars, Materialized, Published, total
  <2> QED BY <2>1, <2>2
<1> QED BY <1>1, <1>2, Inductive, PTL DEF Spec, ImplementsEveryCursor, Oracle!Spec

-----------------------------------------------------------------------------
(***************************************************************************)
(* What is read of a POI is the batch engine's walk of the stream so far.  *)
(***************************************************************************)
LEMMA StreamOfType ==
  ASSUME NEW h \in Seq(Candles), NEW s \in PoiSpecs
  PROVE  StreamOf(h, s) \in Seq(View) /\ Len(StreamOf(h, s)) = Len(h)
<1>1. \A k \in 1 .. Len(h) : ViewOf(h[k], s) \in View
  BY ViewOfType
<1> QED BY <1>1 DEF StreamOf

LEMMA StreamOfAppend ==
  ASSUME NEW h \in Seq(Candles), NEW c \in Candles, NEW s \in PoiSpecs
  PROVE  StreamOf(Append(h, c), s) = Append(StreamOf(h, s), ViewOf(c, s))
<1> DEFINE g == Append(h, c)
           v == ViewOf(c, s)
           u == StreamOf(h, s)
           w == StreamOf(g, s)
<1>1. g \in Seq(Candles) /\ Len(g) = Len(h) + 1 /\ Len(h) \in Nat
  OBVIOUS
<1>2. u \in Seq(View) /\ Len(u) = Len(h) /\ w \in Seq(View) /\ Len(w) = Len(g) /\ v \in View
  BY <1>1, StreamOfType, ViewOfType
<1>3. \A k \in 1 .. Len(h) : w[k] = ViewOf(h[k], s) /\ u[k] = ViewOf(h[k], s)
  BY <1>1 DEF StreamOf
<1>4. w[Len(h) + 1] = v
  BY <1>1 DEF StreamOf
<1> HIDE DEF g, u, v, w
<1>5. Append(u, v) \in Seq(View) /\ Len(Append(u, v)) = Len(w)
  BY <1>1, <1>2
<1>6. \A k \in 1 .. Len(w) : Append(u, v)[k] = w[k]
  BY <1>1, <1>2, <1>3, <1>4
<1>7. w = Append(u, v)
  BY <1>2, <1>5, <1>6, SeqEqual
<1> QED BY <1>7 DEF g, u, v, w

\* A POI fed the whole stream answers for it.
LEMMA FeedAllTracks ==
  ASSUME DisplacementWindow <= ReclaimWindow + 1,
         NEW h \in Seq(Candles), NEW s \in PoiSpecs
  PROVE  /\ Tracks(FeedAll(h, s).cursor, StreamOf(h, s))
         /\ FeedAll(h, s).result = RunPoiLifecycle(StreamOf(h, s))
<1>1. PICK f : IsFed(f, h, s, Len(h)) /\ FeedAll(h, s) = f[Len(h)]
  BY FeedAllRun
<1> DEFINE seen(m) == StreamOf(SubSeq(h, 1, m), s)
           S == {m \in Nat : m <= Len(h) => /\ Tracks(f[m].cursor, seen(m))
                                           /\ f[m].result = RunPoiLifecycle(seen(m))}
<1>2. 0 \in S
  <2>1. f[0] = NotFed
    BY <1>1 DEF IsFed
  <2>2. seen(0) = << >>
    BY DEF StreamOf
  <2> QED BY <2>1, <2>2, CreateTracks DEF NotFed
<1>3. ASSUME NEW m \in S PROVE m + 1 \in S
  <2> SUFFICES ASSUME m + 1 <= Len(h)
               PROVE  /\ Tracks(f[m + 1].cursor, seen(m + 1))
                      /\ f[m + 1].result = RunPoiLifecycle(seen(m + 1))
    OBVIOUS
  <2>1. f[m + 1] = AdvanceCursor(f[m].cursor, ViewOf(h[m + 1], s))
    BY <1>1 DEF IsFed
  <2>2. h[m + 1] \in Candles /\ ViewOf(h[m + 1], s) \in View
    BY ViewOfType
  <2>3. SubSeq(h, 1, m) \in Seq(Candles) /\ SubSeq(h, 1, m + 1) = Append(SubSeq(h, 1, m), h[m + 1])
    OBVIOUS
  <2>4. seen(m + 1) = Append(seen(m), ViewOf(h[m + 1], s)) /\ seen(m) \in Seq(View)
    BY <2>2, <2>3, StreamOfAppend, StreamOfType
  <2>5. Tracks(f[m].cursor, seen(m))
    OBVIOUS
  <2> HIDE DEF seen, S
  <2> QED BY <2>1, <2>2, <2>4, <2>5, AdvanceTracks
<1> HIDE DEF S
<1>4. S = Nat
  <2>1. S \in SUBSET Nat
    BY DEF S
  <2> QED BY <1>2, <1>3, <2>1, SetInduction
<1>5. Len(h) \in Nat /\ SubSeq(h, 1, Len(h)) = h
  OBVIOUS
<1>6. Tracks(f[Len(h)].cursor, seen(Len(h))) /\ f[Len(h)].result = RunPoiLifecycle(seen(Len(h)))
  BY <1>4, <1>5 DEF S
<1> QED BY <1>1, <1>5, <1>6

\* The invariant: the cursors brought to the head answer for the stream.
Answers ==
  \A p \in DOMAIN specs : Tracks(Materialized[p], StreamOf(candles, specs[p]))

LEMMA StepAnswers ==
  ASSUME DisplacementWindow <= ReclaimWindow + 1, Inv, Answers,
         NEW c \in Candles, NEW d \in Delta(DOMAIN specs), Advance(c, d)
  PROVE  Answers' /\ PublishedIsBatch'
<1>1. PoisOK /\ candles' = Append(candles, c) /\ specs' = Revised(specs, d)
  BY StreamStep DEF Inv
<1>2. DOMAIN specs' = DOMAIN Revised(specs, d)
  BY <1>1
<1> SUFFICES ASSUME NEW p \in DOMAIN Revised(specs, d)
             PROVE  /\ Tracks(Materialized'[p], StreamOf(candles', specs'[p]))
                    /\ Published'[p] = RunPoiLifecycle(StreamOf(candles', specs'[p]))
  BY <1>2 DEF Answers, PublishedIsBatch
<1>3. Materialized'[p] = Outcome(c, d)[p].cursor /\ Published'[p] = Outcome(c, d)[p].result
  BY StepOutcome
<1>4. /\ DOMAIN Revised(specs, d) = Kept(DOMAIN specs, d) \cup DOMAIN d.given
      /\ Kept(DOMAIN specs, d) \subseteq DOMAIN specs
      /\ specs'[p] = IF p \in Kept(DOMAIN specs, d) THEN specs[p] ELSE d.given[p]
  BY <1>1 DEF Revised, Kept
<1>5. specs'[p] \in PoiSpecs
  BY <1>1, DeltaFacts, Zenon
<1>6. candles \in Seq(Candles) /\ candles' \in Seq(Candles)
  BY <1>1 DEF PoisOK
<1>7. CASE p \in Kept(DOMAIN specs, d)
  <2> DEFINE h == StreamOf(candles, specs[p])
             v == ViewOf(c, specs[p])
  <2>1. Outcome(c, d)[p] = AdvanceCursor(Materialized[p], v)
    BY <1>7 DEF Outcome
  <2>2. specs[p] \in PoiSpecs /\ specs'[p] = specs[p] /\ p \in DOMAIN specs
    BY <1>4, <1>5, <1>7
  <2>3. h \in Seq(View) /\ v \in View /\ StreamOf(candles', specs'[p]) = Append(h, v)
    BY <1>1, <1>6, <2>2, StreamOfType, StreamOfAppend, ViewOfType
  <2>4. Tracks(Materialized[p], h)
    BY <2>2 DEF Answers
  <2> HIDE DEF h, v
  <2> QED BY <1>3, <2>1, <2>3, <2>4, AdvanceTracks
<1>8. CASE p \notin Kept(DOMAIN specs, d)
  <2>1. Outcome(c, d)[p] = FeedAll(candles', specs'[p])
    BY <1>1, <1>4, <1>8 DEF Outcome
  <2> QED BY <1>3, <1>5, <1>6, <2>1, FeedAllTracks
<1> QED BY <1>7, <1>8

\* The whole of the POI engine: whatever was touched, breached, slept over, removed,
\* replaced and given again, what poi/analyzer.py reads of each present POI after
\* each candle is what run_poi_lifecycle computes from the whole stream.
THEOREM PublishedBatch ==
  ASSUME DisplacementWindow <= ReclaimWindow + 1
  PROVE  Spec => []PublishedIsBatch
<1>1. Init => Answers /\ PublishedIsBatch
  BY DEF Init, Answers, PublishedIsBatch
<1>2. Inv /\ Answers /\ PublishedIsBatch /\ [Next]_vars => Answers' /\ PublishedIsBatch'
  <2> SUFFICES ASSUME Inv, Answers, PublishedIsBatch, [Next]_vars
               PROVE  Answers' /\ PublishedIsBatch'
    OBVIOUS
  <2>1. CASE Next
    BY <2>1, StepAnswers DEF Next
  <2>2. CASE UNCHANGED vars
    BY <2>2 DEF vars, Answers, PublishedIsBatch, Materialized, Published, total
  <2> QED BY <2>1, <2>2
<1> QED BY <1>1, <1>2, Inductive, PTL DEF Spec

-----------------------------------------------------------------------------
\* The breach index the scheduler asks for the POIs a candle may breach: it is
\* exact for every configuration, zone and candle.

\* The decomposition: a POI whose close breaches it, after the multiplication by
\* Scale, is found by one of the two queries of its direction.
LEMMA BreachDecomposes ==
  ASSUME NEW z \in Zones, NEW b \in Bars, IsBreach(z, b)
  PROVE  /\ AtrTerm(b) \in Int /\ BreachKey(z) \in Int
         /\ Scale * z.bottom \in Int /\ Scale * z.top \in Int /\ Scale * b.close \in Int
         /\ z.direction = "bullish" =>
              \/ Scale * z.bottom > Scale * b.close + AtrTerm(b)
              \/ BreachKey(z) > Scale * b.close
         /\ z.direction = "bearish" =>
              \/ Scale * z.top < Scale * b.close - AtrTerm(b)
              \/ BreachKey(z) < Scale * b.close
<1> DEFINE q == AtrTerm(b)
           h == HeightTerm(z)
           zb == Scale * z.bottom
           zt == Scale * z.top
           cl == Scale * b.close
           tick == 2 * MinTick * Scale
<1>1. /\ z.top \in Int /\ z.bottom \in Int /\ z.direction \in {"bullish", "bearish"}
      /\ b.close \in Int /\ b.range \in Nat /\ b.atr \in Int
      /\ AtrMul \in Nat /\ HeightMul \in Nat /\ Scale \in Nat /\ MinTick \in Nat
  BY IndexAssumption
<1>2. /\ q \in Int /\ h \in Int /\ zb \in Int /\ zt \in Int /\ cl \in Int /\ tick \in Int
  BY <1>1, SMTT(30) DEF AtrTerm, HeightTerm
<1>3. /\ Overshoot(z, b) \in Int
      /\ Overshoot(z, b) >= q \/ Overshoot(z, b) >= h
  <2> HIDE DEF q, h, tick
  <2> Overshoot(z, b) = Larger(tick, Smaller(q, IF z.top > z.bottom THEN h ELSE q))
    BY DEF Overshoot, q, h, tick
  <2> QED BY <1>2 DEF Larger, Smaller
<1>4. BreachKey(z) = IF z.direction = "bullish" THEN zb - h ELSE zt + h
  BY DEF BreachKey
<1>5. IF z.direction = "bullish" THEN zb - cl > Overshoot(z, b)
      ELSE cl - zt > Overshoot(z, b)
  BY DEF IsBreach
<1> HIDE DEF q, h, zb, zt, cl, tick
<1>6. /\ q \in Int /\ BreachKey(z) \in Int
      /\ z.direction = "bullish" => zb > cl + q \/ BreachKey(z) > cl
      /\ z.direction = "bearish" => zt < cl - q \/ BreachKey(z) < cl
  BY <1>1, <1>2, <1>3, <1>4, <1>5
<1> QED BY <1>2, <1>6 DEF q, h, zb, zt, cl

\* A node beyond the bound of a query is found by it.
LEMMA NodeFound ==
  ASSUME NEW tree, NEW key, NEW bound, NEW id, <<key, id>> \in tree
  PROVE  /\ key > bound => id \in Greater(tree, bound)
         /\ key < bound => id \in Less(tree, bound)
BY DEF Greater, Less

\* What the queries return is what the trees hold.
LEMMA QueriesFind ==
  ASSUME IndexTypeOK, NEW b \in Bars, NEW id \in DOMAIN zoneOf, IsBreach(zoneOf[id], b)
  PROVE  id \in Candidates(b)
<1> DEFINE z == zoneOf[id]
<1>1. z \in Zones /\ z.direction \in {"bullish", "bearish"}
  BY IndexAssumption DEF IndexTypeOK
<1>2. CASE z.direction = "bullish"
  <2>1. <<Scale * z.bottom, id>> \in bullByBottom /\ <<BreachKey(z), id>> \in bullByKeyBottom
    BY <1>2 DEF IndexTypeOK, Of
  <2>2. Scale * z.bottom > Scale * b.close + AtrTerm(b) \/ BreachKey(z) > Scale * b.close
    BY <1>1, <1>2, BreachDecomposes
  <2> QED BY <2>1, <2>2, NodeFound DEF Candidates
<1>3. CASE z.direction = "bearish"
  <2>1. <<Scale * z.top, id>> \in bearByTop /\ <<BreachKey(z), id>> \in bearByKeyTop
    BY <1>3 DEF IndexTypeOK, Of
  <2>2. Scale * z.top < Scale * b.close - AtrTerm(b) \/ BreachKey(z) < Scale * b.close
    BY <1>1, <1>3, BreachDecomposes
  <2> QED BY <2>1, <2>2, NodeFound DEF Candidates
<1> QED BY <1>1, <1>2, <1>3

\* No stale node answers: every candidate is registered.
LEMMA CandidatesRegistered ==
  ASSUME IndexTypeOK, NEW b
  PROVE  Candidates(b) \subseteq DOMAIN zoneOf
BY DEF IndexTypeOK, Of, Candidates, Greater, Less

LEMMA TypeGivesExact == IndexTypeOK => WakeIsExact
BY QueriesFind, CandidatesRegistered, Zenon DEF WakeIsExact, BreachWakeSet

-----------------------------------------------------------------------------
LEMMA RegisterKeepsType ==
  ASSUME IndexTypeOK, NEW id \in Ids, NEW z \in Zones, Register(id, z)
  PROVE  IndexTypeOK'
<1>1. /\ DOMAIN zoneOf' = DOMAIN zoneOf \cup {id}
      /\ zoneOf'[id] = z
      /\ \A i \in DOMAIN zoneOf : i # id /\ zoneOf'[i] = zoneOf[i]
  BY DEF Register
<1>2. z.direction \in {"bullish", "bearish"}
  BY IndexAssumption
<1>3. /\ DOMAIN zoneOf' \subseteq Ids
      /\ \A i \in DOMAIN zoneOf' : zoneOf'[i] \in Zones
  BY <1>1 DEF IndexTypeOK
<1>4. /\ Of("bullish")' = IF z.direction = "bullish" THEN Of("bullish") \cup {id} ELSE Of("bullish")
      /\ Of("bearish")' = IF z.direction = "bearish" THEN Of("bearish") \cup {id} ELSE Of("bearish")
  BY <1>1 DEF Of
<1>5. \A i \in Of("bullish") \cup Of("bearish") : zoneOf'[i] = zoneOf[i]
  BY <1>1 DEF Of
<1>6. bullByBottom' = {<<Scale * zoneOf'[i].bottom, i>> : i \in Of("bullish")'}
  <2>1. bullByBottom = {<<Scale * zoneOf'[i].bottom, i>> : i \in Of("bullish")}
    BY <1>5 DEF IndexTypeOK
  <2>2. bullByBottom' = IF z.direction = "bullish" THEN bullByBottom \cup {<<Scale * z.bottom, id>>} ELSE bullByBottom
    BY <1>2 DEF Register
  <2> QED BY <2>1, <2>2, <1>1, <1>4
<1>7. bullByKeyBottom' = {<<BreachKey(zoneOf'[i]), i>> : i \in Of("bullish")'}
  <2>1. bullByKeyBottom = {<<BreachKey(zoneOf'[i]), i>> : i \in Of("bullish")}
    BY <1>5 DEF IndexTypeOK
  <2>2. bullByKeyBottom' = IF z.direction = "bullish" THEN bullByKeyBottom \cup {<<BreachKey(z), id>>} ELSE bullByKeyBottom
    BY <1>2 DEF Register
  <2> QED BY <2>1, <2>2, <1>1, <1>4
<1>8. bearByTop' = {<<Scale * zoneOf'[i].top, i>> : i \in Of("bearish")'}
  <2>1. bearByTop = {<<Scale * zoneOf'[i].top, i>> : i \in Of("bearish")}
    BY <1>5 DEF IndexTypeOK
  <2>2. bearByTop' = IF z.direction = "bearish" THEN bearByTop \cup {<<Scale * z.top, id>>} ELSE bearByTop
    BY <1>2 DEF Register
  <2> QED BY <2>1, <2>2, <1>1, <1>4
<1>9. bearByKeyTop' = {<<BreachKey(zoneOf'[i]), i>> : i \in Of("bearish")'}
  <2>1. bearByKeyTop = {<<BreachKey(zoneOf'[i]), i>> : i \in Of("bearish")}
    BY <1>5 DEF IndexTypeOK
  <2>2. bearByKeyTop' = IF z.direction = "bearish" THEN bearByKeyTop \cup {<<BreachKey(z), id>>} ELSE bearByKeyTop
    BY <1>2 DEF Register
  <2> QED BY <2>1, <2>2, <1>1, <1>4
<1> QED BY <1>3, <1>6, <1>7, <1>8, <1>9 DEF IndexTypeOK

LEMMA UnregisterKeepsType ==
  ASSUME IndexTypeOK, NEW id \in DOMAIN zoneOf, Unregister(id)
  PROVE  IndexTypeOK'
<1> DEFINE z == zoneOf[id]
<1>1. /\ DOMAIN zoneOf' = DOMAIN zoneOf \ {id}
      /\ \A i \in DOMAIN zoneOf' : zoneOf'[i] = zoneOf[i]
  BY DEF Unregister
<1>2. z.direction \in {"bullish", "bearish"}
  BY IndexAssumption DEF IndexTypeOK
<1>3. /\ DOMAIN zoneOf' \subseteq Ids
      /\ \A i \in DOMAIN zoneOf' : zoneOf'[i] \in Zones
  BY <1>1 DEF IndexTypeOK
<1>4. /\ Of("bullish")' = Of("bullish") \ {id} /\ (z.direction # "bullish" => id \notin Of("bullish"))
      /\ Of("bearish")' = Of("bearish") \ {id} /\ (z.direction # "bearish" => id \notin Of("bearish"))
  BY <1>1 DEF Of
<1>5. \A i \in Of("bullish")' \cup Of("bearish")' : zoneOf'[i] = zoneOf[i]
  BY <1>1 DEF Of
<1>6. bullByBottom' = {<<Scale * zoneOf'[i].bottom, i>> : i \in Of("bullish")'}
  <2>1. bullByBottom' = {n \in bullByBottom : n[2] # id}
    BY <1>2, <1>4 DEF IndexTypeOK, Unregister
  <2>2. bullByBottom' = {<<Scale * zoneOf[i].bottom, i>> : i \in Of("bullish")'}
    BY <2>1, <1>4 DEF IndexTypeOK
  <2> QED BY <2>2, <1>5
<1>7. bullByKeyBottom' = {<<BreachKey(zoneOf'[i]), i>> : i \in Of("bullish")'}
  <2>1. bullByKeyBottom' = {n \in bullByKeyBottom : n[2] # id}
    BY <1>2, <1>4 DEF IndexTypeOK, Unregister
  <2>2. bullByKeyBottom' = {<<BreachKey(zoneOf[i]), i>> : i \in Of("bullish")'}
    BY <2>1, <1>4 DEF IndexTypeOK
  <2> QED BY <2>2, <1>5
<1>8. bearByTop' = {<<Scale * zoneOf'[i].top, i>> : i \in Of("bearish")'}
  <2>1. bearByTop' = {n \in bearByTop : n[2] # id}
    BY <1>2, <1>4 DEF IndexTypeOK, Unregister
  <2>2. bearByTop' = {<<Scale * zoneOf[i].top, i>> : i \in Of("bearish")'}
    BY <2>1, <1>4 DEF IndexTypeOK
  <2> QED BY <2>2, <1>5
<1>9. bearByKeyTop' = {<<BreachKey(zoneOf'[i]), i>> : i \in Of("bearish")'}
  <2>1. bearByKeyTop' = {n \in bearByKeyTop : n[2] # id}
    BY <1>2, <1>4 DEF IndexTypeOK, Unregister
  <2>2. bearByKeyTop' = {<<BreachKey(zoneOf[i]), i>> : i \in Of("bearish")'}
    BY <2>1, <1>4 DEF IndexTypeOK
  <2> QED BY <2>2, <1>5
<1> QED BY <1>3, <1>6, <1>7, <1>8, <1>9 DEF IndexTypeOK

\* The trees hold the nodes of the registered POIs and nothing else, in every
\* state: register and unregister compute the same keys.
THEOREM IndexTypeCorrect == IndexSpec => []IndexTypeOK
<1>1. IndexInit => IndexTypeOK
  BY DEF IndexInit, IndexTypeOK, Of
<1>2. IndexTypeOK /\ [IndexNext]_indexVars => IndexTypeOK'
  <2> SUFFICES ASSUME IndexTypeOK, [IndexNext]_indexVars PROVE IndexTypeOK'
    OBVIOUS
  <2>1. CASE \E id \in Ids, z \in Zones : Register(id, z)
    BY <2>1, RegisterKeepsType
  <2>2. CASE \E id \in DOMAIN zoneOf : Unregister(id)
    BY <2>2, UnregisterKeepsType
  <2>3. CASE UNCHANGED indexVars
    BY <2>3 DEF indexVars, IndexTypeOK, Of
  <2> QED BY <2>1, <2>2, <2>3 DEF IndexNext
<1> QED BY <1>1, <1>2, PTL DEF IndexSpec

\* The index answers exactly what checking every registered POI would.
THEOREM WakeExact == IndexSpec => []WakeIsExact
<1>1. IndexTypeOK => WakeIsExact
  BY TypeGivesExact
<1> QED BY <1>1, IndexTypeCorrect, PTL
=============================================================================

----------------------------- MODULE PoiCursor -----------------------------
(***************************************************************************)
(* The resumable cursor of poi/lifecycle_cursor.py.  It is fed one candle  *)
(* at a time, keeps only the suffix of the stream whose windows may still  *)
(* change (buffer), and must produce at every prefix what RunPoiLifecycle  *)
(* produces from the whole prefix.                                         *)
(***************************************************************************)
EXTENDS PoiLifecycle

None == -1

(***************************************************************************)
(* The inner walk over the suffix s, whose first candle has stream index   *)
(* base.  Besides the loop's state it tracks how much is committed: once a *)
(* window is incomplete everything after it is provisional.                *)
(***************************************************************************)
InnerState(loop, provisional, boundary, status, count) ==
  [loop |-> loop, provisional |-> provisional,
   boundary |-> boundary, status |-> status, count |-> count]

Looped(p, step) ==
  LoopState(step.next, step.status, p.loop.trans \o step.trans, step.terminal, p.loop.i)

\* Mutant: a complete window after an incomplete one commits again.
AbsorbForgetsProvisional(p, step) ==
  IF step.complete
  THEN InnerState(Looped(p, step), FALSE, step.next, step.status,
                  Len(p.loop.trans \o step.trans))
  ELSE InnerState(Looped(p, step), TRUE, p.boundary, p.status, p.count)

\* Mutant: windows are committed before they are complete.
AbsorbCommitsAll(p, step) ==
  InnerState(Looped(p, step), FALSE, step.next, step.status, Len(p.loop.trans \o step.trans))

\* Mutant: a reclaim without displacement never becomes final.
AbsorbKeepsOpen(p, step) ==
  IF p.provisional \/ ~ step.complete \/ step.status = "RECLAIM_WITHOUT_DISPLACEMENT"
  THEN InnerState(Looped(p, step), TRUE, p.boundary, p.status, p.count)
  ELSE InnerState(Looped(p, step), FALSE, step.next, step.status,
                  Len(p.loop.trans \o step.trans))

Absorb(p, step) ==
  IF p.provisional \/ ~ step.complete
  THEN InnerState(Looped(p, step), TRUE, p.boundary, p.status, p.count)
  ELSE InnerState(Looped(p, step), FALSE, step.next, step.status,
                  Len(p.loop.trans \o step.trans))

InnerStep(s, base, p) == Absorb(p, LoopStep(s, base, p.loop.i, p.loop.status))

WalkStart(status) ==
  InnerState(LoopState(0, status, << >>, FALSE, None), FALSE, 0, status, 0)

\* One iteration, none once the loop has ended.
WalkStep(s, base, p) ==
  IF p.loop.i >= Len(s) \/ p.loop.terminal THEN p ELSE InnerStep(s, base, p)

WalkInner(s, base, status) ==
  LET run[k \in 0 .. Len(s)] ==
        IF k = 0 THEN WalkStart(status) ELSE WalkStep(s, base, run[k - 1])
  IN  run[Len(s)]

\* last is relative to the suffix; LastSeen makes it a stream index.
LastSeen(base, last) == IF last = None THEN None ELSE base + last

-----------------------------------------------------------------------------
Cursor ==
  [total : Nat,                 \* candles fed so far
   start : Nat \cup {None},     \* start_index, once known
   taps : Nat, inTap : BOOLEAN, tapNext : Nat,
   resume : Nat,                \* the committed floor resume_i
   status : Status,             \* the status there
   committed : Seq(Transitions),
   terminal : BOOLEAN,
   terminalLast : Nat \cup {None},
   buffer : Seq(View)]          \* the candles from resume on

CreateCursor ==
  [total |-> 0, start |-> None, taps |-> 0, inTap |-> FALSE, tapNext |-> 0,
   resume |-> 0, status |-> "NO_BREACH", committed |-> << >>,
   terminal |-> FALSE, terminalLast |-> None, buffer |-> << >>]

Result(trans, status, c, last) ==
  [transitions |-> trans, status |-> status, taps |-> c.taps,
   age |-> IF c.start = None THEN 0 ELSE c.total - c.start, lastSeen |-> last]

\* Mutant: a candle before the start is not counted.
CountCandleFromStart(c, v) ==
  IF c.start = None /\ ~ v.after THEN c
  ELSE [c EXCEPT !.total = c.total + 1, !.start = IF c.start = None THEN c.total ELSE @,
                 !.taps = IF v.touch /\ ~ c.inTap THEN @ + 1 ELSE @,
                 !.inTap = v.touch, !.tapNext = c.total + 1]

\* Mutant: a run of touching candles is never closed.
CountCandleKeepsTap(c, v) ==
  LET start == IF c.start = None /\ v.after THEN c.total ELSE c.start
  IN  IF start = None
      THEN [c EXCEPT !.total = c.total + 1]
      ELSE [c EXCEPT !.total = c.total + 1, !.start = start, !.tapNext = c.total + 1,
                     !.taps = IF v.touch /\ ~ c.inTap THEN @ + 1 ELSE @,
                     !.inTap = c.inTap \/ v.touch]

\* Parts 1 and 2 of advance_poi_cursor: the start index, the tap run.
CountCandle(c, v) ==
  LET start == IF c.start = None /\ v.after THEN c.total ELSE c.start
      taps  == IF v.touch /\ ~ c.inTap THEN c.taps + 1 ELSE c.taps
  IN  IF start = None
      THEN [c EXCEPT !.total = c.total + 1]
      ELSE [c EXCEPT !.total = c.total + 1, !.start = start, !.taps = taps,
                     !.inTap = v.touch, !.tapNext = c.total + 1]

\* The buffer is candles[resume .. total); its oldest candles are trimmed.
ExtendBuffer(c, v, resume, total) ==
  LET buffer == Append(c.buffer, v)
      offset == resume - (total - Len(buffer))
  IN  IF offset > 0 THEN SubSeq(buffer, offset + 1, Len(buffer)) ELSE buffer

\* Part 3: walk the suffix, then move the committed floor.
Settle(c, resume, buffer, walk) ==
  LET all   == c.committed \o walk.loop.trans
      last  == LastSeen(resume, walk.loop.last)
      floor == resume + walk.boundary
  IN  IF walk.loop.terminal
      THEN [cursor |-> [c EXCEPT !.resume = floor, !.status = walk.loop.status,
                          !.committed = all, !.terminal = TRUE,
                          !.terminalLast = last, !.buffer = << >>],
            result |-> Result(all, walk.loop.status, c, last)]
      ELSE [cursor |-> [c EXCEPT !.resume = floor, !.status = walk.status,
                          !.committed = @ \o SubSeq(walk.loop.trans, 1, walk.count),
                          !.buffer = SubSeq(buffer, walk.boundary + 1, Len(buffer))],
            result |-> Result(all, walk.loop.status, c, last)]

WalkCandle(c, v) ==
  LET resume == IF c.resume < c.start THEN c.start ELSE c.resume
      buffer == ExtendBuffer(c, v, resume, c.total)
  IN  Settle(c, resume, buffer, WalkInner(buffer, resume, c.status))

\* advance_poi_cursor: a terminal walk is frozen, a walk not yet started is
\* empty; in every case the taps and the counters are those of CountCandle.
AdvanceCursor(c, v) ==
  LET counted == CountCandle(c, v) IN
  IF c.terminal
  THEN [cursor |-> counted,
        result |-> Result(c.committed, "GENUINE_INVALIDATION_CONFIRMED",
                          counted, c.terminalLast)]
  ELSE IF counted.start = None
  THEN [cursor |-> [counted EXCEPT !.resume = counted.total],
        result |-> Result(<< >>, "NO_BREACH", counted, None)]
  ELSE WalkCandle(counted, v)

-----------------------------------------------------------------------------
\* A cursor on which a candle it cannot see has no effect but on its counters.
Dormant(c) ==
  \/ c.start = None
  \/ ~ c.inTap /\ (c.terminal \/ (c.buffer = << >> /\ c.resume = c.total))

\* Mutant: a terminal cursor's tap position is left behind.
FastForwardLosesTap(c, target) ==
  IF target = c.total THEN c
  ELSE IF c.terminal
  THEN [c EXCEPT !.total = target]
  ELSE [c EXCEPT !.total = target, !.resume = target,
                 !.tapNext = IF c.start = None THEN @ ELSE target]

\* fast_forward_poi_cursor to target, where its assertions hold.
FastForward(c, target) ==
  IF target = c.total THEN c
  ELSE IF c.terminal
  THEN [c EXCEPT !.total = target, !.tapNext = target]
  ELSE IF c.start = None
  THEN [c EXCEPT !.total = target, !.resume = target]
  ELSE [c EXCEPT !.total = target, !.tapNext = target, !.resume = target]

\* cursor_walk_result: the result read from a cursor at the head.
CursorWalkResult(c) ==
  IF c.terminal
  THEN Result(c.committed, "GENUINE_INVALIDATION_CONFIRMED", c, c.terminalLast)
  ELSE IF c.start = None THEN Result(<< >>, "NO_BREACH", c, None)
  ELSE IF c.buffer = << >> THEN Result(c.committed, c.status, c, c.total - 1)
  ELSE LET walk == WalkInner(c.buffer, c.resume, c.status) IN
       Result(c.committed \o walk.loop.trans, walk.loop.status, c,
              LastSeen(c.resume, walk.loop.last))
=============================================================================

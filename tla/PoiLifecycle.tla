---------------------------- MODULE PoiLifecycle ----------------------------
(***************************************************************************)
(* The lifecycle of one point of interest (POI), as poi/lifecycle.py       *)
(* computes it: a batch walk over every candle seen so far.  It is the     *)
(* definition of what the incremental engine must produce: the modules     *)
(* PoiCursor and PoiScheduler are compared with it.                        *)
(*                                                                         *)
(* A candle is abstracted to what one POI can tell about it, a View:       *)
(*   after  it becomes available strictly later than the POI itself;       *)
(*   touch  its range meets the zone;                                      *)
(*   pos    where its close lies, beyond every tolerance: "breach" (out    *)
(*          on the far side), "none", "reclaim" (back inside) or           *)
(*          "displace" (out on the near side, which is a reclaim too);     *)
(*   fast   the lengths of the legs ending here that measure_leg           *)
(*          classifies FAST or STRONG_FAST.                                *)
(* The three positions exclude one another since both tolerances are at    *)
(* least two price ticks and zone_bottom <= zone_top.                      *)
(***************************************************************************)
EXTENDS Integers, Sequences, FiniteSets

CONSTANTS
  ReclaimWindow,       \* PoiConfiguration.reclaim_window_bars
  DisplacementWindow   \* PoiConfiguration.displacement_window_bars

ASSUME WindowAssumption ==
  /\ ReclaimWindow \in Nat \ {0}
  /\ DisplacementWindow \in Nat \ {0}

View == [after : BOOLEAN, touch : BOOLEAN,
         pos : {"breach", "none", "reclaim", "displace"},
         fast : SUBSET (1 .. DisplacementWindow)]

Breaches(v)  == v.pos = "breach"
Reclaims(v)  == v.pos \in {"reclaim", "displace"}
Displaces(v) == v.pos = "displace"

Status == {"NO_BREACH", "CLOSE_BREACH_CANDIDATE", "RECLAIM_FAILED",
           "RECLAIM_WITHOUT_DISPLACEMENT", "FALSE_INVALIDATION_CONFIRMED",
           "GENUINE_INVALIDATION_CONFIRMED"}

Event == Status \cup {"RECLAIM_CONFIRMED", "DISPLACEMENT_AFTER_RECLAIM_CONFIRMED"}

\* A transition names its triggering candle by its index (from 0) in the stream.
Transition(type, index) == [type |-> type, at |-> index]

Transitions == [type : Event, at : Nat]

-----------------------------------------------------------------------------
(***************************************************************************)
(* One iteration of the outer loop.  s is the sequence of views the loop   *)
(* runs over, i (from 0) its index, base the stream index of s[1].         *)
(* The candle with index k of s is s[k + 1].                               *)
(***************************************************************************)
Least(S) == CHOOSE x \in S : \A y \in S : x <= y

AtMost(a, b) == IF a <= b THEN a ELSE b

\* No breach: the loop only moves on.
QuietStep(i, status) ==
  [trans |-> << >>, status |-> status, next |-> i + 1,
   terminal |-> FALSE, complete |-> TRUE]

\* A breach at i reclaimed at j: RECLAIM_CONFIRMED, then a fast displacement
\* within DisplacementWindow candles or RECLAIM_WITHOUT_DISPLACEMENT.
ReclaimedStep(s, base, i, j) ==
  LET end  == AtMost(j + 1 + DisplacementWindow, Len(s))
      hits == {k \in j + 1 .. end - 1 :
                 Displaces(s[k + 1]) /\ k - j \in s[k + 1].fast}
      head == <<Transition("CLOSE_BREACH_CANDIDATE", base + i),
                Transition("RECLAIM_CONFIRMED", base + j)>>
  IN  IF hits # {}
      THEN LET k == Least(hits) IN
           [trans |-> head \o
              <<Transition("DISPLACEMENT_AFTER_RECLAIM_CONFIRMED", base + k),
                Transition("FALSE_INVALIDATION_CONFIRMED", base + k)>>,
            status |-> "FALSE_INVALIDATION_CONFIRMED", next |-> j + 1,
            terminal |-> FALSE, complete |-> TRUE]
      ELSE [trans |-> Append(head, Transition("RECLAIM_WITHOUT_DISPLACEMENT", base + j)),
            status |-> "RECLAIM_WITHOUT_DISPLACEMENT", next |-> j + 1,
            terminal |-> FALSE, complete |-> j + 1 + DisplacementWindow <= Len(s)]

\* A breach at i no candle of its window [i + 1, end) reclaims.
UnreclaimedStep(s, base, i, end) ==
  LET window  == i + 1 .. end - 1
      head    == <<Transition("CLOSE_BREACH_CANDIDATE", base + i)>>
      genuine == /\ Cardinality(window) = ReclaimWindow
                 /\ Cardinality({k \in window : Breaches(s[k + 1])}) >= 2
                 /\ Breaches(s[end])
      type    == IF genuine THEN "GENUINE_INVALIDATION_CONFIRMED" ELSE "RECLAIM_FAILED"
  IN  [trans |-> IF window = {} THEN head ELSE Append(head, Transition(type, base + end - 1)),
       status |-> IF window = {} THEN "CLOSE_BREACH_CANDIDATE" ELSE type,
       next |-> end, terminal |-> genuine,
       complete |-> i + 1 + ReclaimWindow <= Len(s)]

\* Mutant: the search for a reclaim does not stop at the first one.
LoopStepLastReclaim(s, base, i, status) ==
  LET end      == AtMost(i + 1 + ReclaimWindow, Len(s))
      reclaims == {j \in i + 1 .. end - 1 : Reclaims(s[j + 1])}
  IN  IF ~ Breaches(s[i + 1]) THEN QuietStep(i, status)
      ELSE IF reclaims # {}
      THEN ReclaimedStep(s, base, i, CHOOSE j \in reclaims : \A k \in reclaims : k <= j)
      ELSE UnreclaimedStep(s, base, i, end)

LoopStep(s, base, i, status) ==
  LET end      == AtMost(i + 1 + ReclaimWindow, Len(s))
      reclaims == {j \in i + 1 .. end - 1 : Reclaims(s[j + 1])}
  IN  IF ~ Breaches(s[i + 1]) THEN QuietStep(i, status)
      ELSE IF reclaims # {} THEN ReclaimedStep(s, base, i, Least(reclaims))
      ELSE UnreclaimedStep(s, base, i, end)

-----------------------------------------------------------------------------
(***************************************************************************)
(* The batch walk from start on: the loop's state before it looks at i.    *)
(***************************************************************************)
LoopState(i, status, trans, terminal, last) ==
  [i |-> i, status |-> status, trans |-> trans, terminal |-> terminal, last |-> last]

\* run[k] is the loop's state after k iterations; an ended loop stays as it is.
BatchWalk(h, start) ==
  LET n == Len(h)
      run[k \in 0 .. n] ==
        IF k = 0 THEN LoopState(start, "NO_BREACH", << >>, FALSE, -1)
        ELSE LET p == run[k - 1] IN
             IF p.i >= n \/ p.terminal THEN p
             ELSE LET step == LoopStep(h, 0, p.i, p.status) IN
                  LoopState(step.next, step.status, p.trans \o step.trans,
                            step.terminal, p.i)
  IN  run[n]

\* The first candle available strictly after the POI, or the length.
StartIndex(h) ==
  LET later == {i \in 0 .. Len(h) - 1 : h[i + 1].after}
  IN  IF later = {} THEN Len(h) ELSE Least(later)

\* A tap is a maximal run of touching candles from the start index on; it is
\* counted where it begins.
TapCount(h, start) ==
  Cardinality({i \in start .. Len(h) - 1 :
                 h[i + 1].touch /\ (i = start \/ ~ h[i].touch)})

\* The LifecycleWalkResult; lastSeen is an index, -1 for none.
RunPoiLifecycle(h) ==
  LET start == StartIndex(h)
      walk  == BatchWalk(h, start)
  IN  [transitions |-> walk.trans, status |-> walk.status,
       taps |-> TapCount(h, start), age |-> Len(h) - start, lastSeen |-> walk.last]
=============================================================================

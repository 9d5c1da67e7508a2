------------------------- MODULE MarketReplayProofs -------------------------
(***************************************************************************)
(* The market replay keeps, candle by candle, the measurements, swings and *)
(* structure the batch passes would compute from the whole chart, for any  *)
(* chart, window, period and threshold.  MarketInv says it of every field  *)
(* the replay keeps; WalkOK is what every walk over a chart's events has.  *)
(***************************************************************************)
EXTENDS MarketReplay, CandleMeasuresProofs

-----------------------------------------------------------------------------
\* The recursive functions of the model, unfolded one step at a time.

\* f holds what merging the first n pivots gives.
IsMerged(f, pivots, n) ==
  f = [k \in 0 .. n |->
         IF k = 0 THEN << >>
         ELSE MergePlateau(f[k - 1], pivots[k])]

\* The function exists for every length.
LEMMA MergedExists ==
  ASSUME NEW pivots, NEW n \in Nat
  PROVE  \E f : IsMerged(f, pivots, n)
<1> DEFINE M == {m \in Nat : \E f : IsMerged(f, pivots, m)}
<1>1. 0 \in M
  <2> DEFINE f == [k \in 0 .. 0 |-> << >>]
  <2>1. IsMerged(f, pivots, 0)
    BY DEF IsMerged
  <2> QED
    BY <2>1
<1>2. ASSUME NEW m \in M PROVE m + 1 \in M
  <2>1. PICK f : IsMerged(f, pivots, m)
    OBVIOUS
  <2>2. \A k \in 0 .. m : f[k] = IF k = 0 THEN << >>
                            ELSE MergePlateau(f[k - 1], pivots[k])
    BY <2>1 DEF IsMerged
  <2> DEFINE g == [k \in 0 .. m + 1 |->
                     IF k = m + 1 THEN MergePlateau(f[m], pivots[(m + 1)]) ELSE f[k]]
  <2>3. ASSUME NEW k \in 0 .. m + 1
        PROVE  g[k] = IF k = 0 THEN << >>
                      ELSE MergePlateau(g[k - 1], pivots[k])
    <3>1. CASE k = m + 1
      BY <3>1
    <3>2. CASE k \in 0 .. m
      <4>1. g[k] = f[k] /\ (k # 0 => g[k - 1] = f[k - 1])
        BY <3>2
      <4>2. f[k] = IF k = 0 THEN << >>
                   ELSE MergePlateau(f[k - 1], pivots[k])
        BY <2>2, <3>2
      <4> HIDE DEF g
      <4> QED
        BY <4>1, <4>2
    <3> QED
      BY <3>1, <3>2
  <2>4. IsMerged(g, pivots, m + 1)
    <3>1. g = [k \in 0 .. m + 1 |-> g[k]]
      OBVIOUS
    <3> HIDE DEF g
    <3> QED
      BY <2>3, <3>1 DEF IsMerged
  <2> QED
    BY <2>4
<1> HIDE DEF M
<1>3. M = Nat
  <2>1. M \in SUBSET Nat
    BY DEF M
  <2> QED
    BY <1>1, <1>2, <2>1, SetInduction
<1> QED
  BY <1>3 DEF M

\* Merging the plateaus is merging one pivot after the other.
LEMMA MergedSteps ==
  ASSUME NEW pivots, Len(pivots) \in Nat
  PROVE  \E f : /\ f[0] = << >>
                /\ MergeAdjacentPlateaus(pivots) = f[Len(pivots)]
                /\ \A k \in 1 .. Len(pivots) : f[k] = MergePlateau(f[k - 1], pivots[k])
<1> DEFINE f == CHOOSE g : IsMerged(g, pivots, Len(pivots))
<1>1. IsMerged(f, pivots, Len(pivots))
  BY MergedExists
<1>2. MergeAdjacentPlateaus(pivots) = f[Len(pivots)]
  BY DEF MergeAdjacentPlateaus, IsMerged
<1> HIDE DEF f
<1>3. \A k \in 0 .. Len(pivots) : f[k] = IF k = 0 THEN << >>
            ELSE MergePlateau(f[k - 1], pivots[k])
  BY <1>1 DEF IsMerged
<1>4. f[0] = << >>
  BY <1>3
<1>5. ASSUME NEW k \in 1 .. Len(pivots) PROVE f[k] = MergePlateau(f[k - 1], pivots[k])
  BY <1>3
<1> QED
  BY <1>2, <1>4, <1>5

\* f holds what is left of the first n pivots.
IsCollapsed(f, pivots, n) ==
  f = [k \in 0 .. n |->
         IF k = 0 THEN << >>
         ELSE Supersede(f[k - 1], pivots[k])]

\* The function exists for every length.
LEMMA CollapsedExists ==
  ASSUME NEW pivots, NEW n \in Nat
  PROVE  \E f : IsCollapsed(f, pivots, n)
<1> DEFINE M == {m \in Nat : \E f : IsCollapsed(f, pivots, m)}
<1>1. 0 \in M
  <2> DEFINE f == [k \in 0 .. 0 |-> << >>]
  <2>1. IsCollapsed(f, pivots, 0)
    BY DEF IsCollapsed
  <2> QED
    BY <2>1
<1>2. ASSUME NEW m \in M PROVE m + 1 \in M
  <2>1. PICK f : IsCollapsed(f, pivots, m)
    OBVIOUS
  <2>2. \A k \in 0 .. m : f[k] = IF k = 0 THEN << >>
                            ELSE Supersede(f[k - 1], pivots[k])
    BY <2>1 DEF IsCollapsed
  <2> DEFINE g == [k \in 0 .. m + 1 |->
                     IF k = m + 1 THEN Supersede(f[m], pivots[(m + 1)]) ELSE f[k]]
  <2>3. ASSUME NEW k \in 0 .. m + 1
        PROVE  g[k] = IF k = 0 THEN << >>
                      ELSE Supersede(g[k - 1], pivots[k])
    <3>1. CASE k = m + 1
      BY <3>1
    <3>2. CASE k \in 0 .. m
      <4>1. g[k] = f[k] /\ (k # 0 => g[k - 1] = f[k - 1])
        BY <3>2
      <4>2. f[k] = IF k = 0 THEN << >>
                   ELSE Supersede(f[k - 1], pivots[k])
        BY <2>2, <3>2
      <4> HIDE DEF g
      <4> QED
        BY <4>1, <4>2
    <3> QED
      BY <3>1, <3>2
  <2>4. IsCollapsed(g, pivots, m + 1)
    <3>1. g = [k \in 0 .. m + 1 |-> g[k]]
      OBVIOUS
    <3> HIDE DEF g
    <3> QED
      BY <2>3, <3>1 DEF IsCollapsed
  <2> QED
    BY <2>4
<1> HIDE DEF M
<1>3. M = Nat
  <2>1. M \in SUBSET Nat
    BY DEF M
  <2> QED
    BY <1>1, <1>2, <2>1, SetInduction
<1> QED
  BY <1>3 DEF M

\* Superseding the runs is superseding by one pivot after the other.
LEMMA CollapsedSteps ==
  ASSUME NEW pivots, Len(pivots) \in Nat
  PROVE  \E f : /\ f[0] = << >>
                /\ SupersedeSameDirectionRuns(pivots) = f[Len(pivots)]
                /\ \A k \in 1 .. Len(pivots) : f[k] = Supersede(f[k - 1], pivots[k])
<1> DEFINE f == CHOOSE g : IsCollapsed(g, pivots, Len(pivots))
<1>1. IsCollapsed(f, pivots, Len(pivots))
  BY CollapsedExists
<1>2. SupersedeSameDirectionRuns(pivots) = f[Len(pivots)]
  BY DEF SupersedeSameDirectionRuns, IsCollapsed
<1> HIDE DEF f
<1>3. \A k \in 0 .. Len(pivots) : f[k] = IF k = 0 THEN << >>
            ELSE Supersede(f[k - 1], pivots[k])
  BY <1>1 DEF IsCollapsed
<1>4. f[0] = << >>
  BY <1>3
<1>5. ASSUME NEW k \in 1 .. Len(pivots) PROVE f[k] = Supersede(f[k - 1], pivots[k])
  BY <1>3
<1> QED
  BY <1>2, <1>4, <1>5

\* f holds the swings of the first n pivots.
IsAlternating(f, pivots, confirmations, n) ==
  f = [k \in 0 .. n |->
         IF k = 0 THEN << >>
         ELSE AddSwingOf(f[k - 1], pivots[k], confirmations[k])]

\* The function exists for every length.
LEMMA AlternatingExists ==
  ASSUME NEW pivots, NEW confirmations, NEW n \in Nat
  PROVE  \E f : IsAlternating(f, pivots, confirmations, n)
<1> DEFINE M == {m \in Nat : \E f : IsAlternating(f, pivots, confirmations, m)}
<1>1. 0 \in M
  <2> DEFINE f == [k \in 0 .. 0 |-> << >>]
  <2>1. IsAlternating(f, pivots, confirmations, 0)
    BY DEF IsAlternating
  <2> QED
    BY <2>1
<1>2. ASSUME NEW m \in M PROVE m + 1 \in M
  <2>1. PICK f : IsAlternating(f, pivots, confirmations, m)
    OBVIOUS
  <2>2. \A k \in 0 .. m : f[k] = IF k = 0 THEN << >>
                            ELSE AddSwingOf(f[k - 1], pivots[k], confirmations[k])
    BY <2>1 DEF IsAlternating
  <2> DEFINE g == [k \in 0 .. m + 1 |->
                     IF k = m + 1 THEN AddSwingOf(f[m], pivots[(m + 1)], confirmations[(m + 1)]) ELSE f[k]]
  <2>3. ASSUME NEW k \in 0 .. m + 1
        PROVE  g[k] = IF k = 0 THEN << >>
                      ELSE AddSwingOf(g[k - 1], pivots[k], confirmations[k])
    <3>1. CASE k = m + 1
      BY <3>1
    <3>2. CASE k \in 0 .. m
      <4>1. g[k] = f[k] /\ (k # 0 => g[k - 1] = f[k - 1])
        BY <3>2
      <4>2. f[k] = IF k = 0 THEN << >>
                   ELSE AddSwingOf(f[k - 1], pivots[k], confirmations[k])
        BY <2>2, <3>2
      <4> HIDE DEF g
      <4> QED
        BY <4>1, <4>2
    <3> QED
      BY <3>1, <3>2
  <2>4. IsAlternating(g, pivots, confirmations, m + 1)
    <3>1. g = [k \in 0 .. m + 1 |-> g[k]]
      OBVIOUS
    <3> HIDE DEF g
    <3> QED
      BY <2>3, <3>1 DEF IsAlternating
  <2> QED
    BY <2>4
<1> HIDE DEF M
<1>3. M = Nat
  <2>1. M \in SUBSET Nat
    BY DEF M
  <2> QED
    BY <1>1, <1>2, <2>1, SetInduction
<1> QED
  BY <1>3 DEF M

\* The alternating swings are built one pivot after the other.
LEMMA AlternatingSteps ==
  ASSUME NEW pivots, NEW confirmations, Len(pivots) \in Nat
  PROVE  \E f : /\ f[0] = << >>
                /\ AlternatingSwings(pivots, confirmations) = f[Len(pivots)]
                /\ \A k \in 1 .. Len(pivots) : f[k] = AddSwingOf(f[k - 1], pivots[k], confirmations[k])
<1> DEFINE f == CHOOSE g : IsAlternating(g, pivots, confirmations, Len(pivots))
<1>1. IsAlternating(f, pivots, confirmations, Len(pivots))
  BY AlternatingExists
<1>2. AlternatingSwings(pivots, confirmations) = f[Len(pivots)]
  BY DEF AlternatingSwings, IsAlternating
<1> HIDE DEF f
<1>3. \A k \in 0 .. Len(pivots) : f[k] = IF k = 0 THEN << >>
            ELSE AddSwingOf(f[k - 1], pivots[k], confirmations[k])
  BY <1>1 DEF IsAlternating
<1>4. f[0] = << >>
  BY <1>3
<1>5. ASSUME NEW k \in 1 .. Len(pivots) PROVE f[k] = AddSwingOf(f[k - 1], pivots[k], confirmations[k])
  BY <1>3
<1> QED
  BY <1>2, <1>4, <1>5

\* f holds the pivots centred on the first n candles.
IsSingles(f, candles_, atrs_, n) ==
  f = [k \in 0 .. n |->
         IF k <= WindowRadius THEN << >>
         ELSE f[k - 1] \o PivotAt(candles_, atrs_, k)]

\* The function exists for every length.
LEMMA SinglesExists ==
  ASSUME NEW candles_, NEW atrs_, NEW n \in Nat
  PROVE  \E f : IsSingles(f, candles_, atrs_, n)
<1> USE DEF WindowRadius
<1> DEFINE M == {m \in Nat : \E f : IsSingles(f, candles_, atrs_, m)}
<1>1. 0 \in M
  <2> DEFINE f == [k \in 0 .. 0 |-> << >>]
  <2>1. IsSingles(f, candles_, atrs_, 0)
    BY DEF IsSingles
  <2> QED
    BY <2>1
<1>2. ASSUME NEW m \in M PROVE m + 1 \in M
  <2>1. PICK f : IsSingles(f, candles_, atrs_, m)
    OBVIOUS
  <2>2. \A k \in 0 .. m : f[k] = IF k <= WindowRadius THEN << >>
                            ELSE f[k - 1] \o PivotAt(candles_, atrs_, k)
    BY <2>1 DEF IsSingles
  <2> DEFINE g == [k \in 0 .. m + 1 |->
                     IF k = m + 1 THEN IF m + 1 <= WindowRadius THEN << >> ELSE f[m] \o PivotAt(candles_, atrs_, (m + 1)) ELSE f[k]]
  <2>3. ASSUME NEW k \in 0 .. m + 1
        PROVE  g[k] = IF k <= WindowRadius THEN << >>
                      ELSE g[k - 1] \o PivotAt(candles_, atrs_, k)
    <3>1. CASE k = m + 1
      BY <3>1
    <3>2. CASE k \in 0 .. m
      <4>1. g[k] = f[k] /\ (k # 0 => g[k - 1] = f[k - 1])
        BY <3>2
      <4>2. f[k] = IF k <= WindowRadius THEN << >>
                   ELSE f[k - 1] \o PivotAt(candles_, atrs_, k)
        BY <2>2, <3>2
      <4> HIDE DEF g
      <4> QED
        BY <4>1, <4>2
    <3> QED
      BY <3>1, <3>2
  <2>4. IsSingles(g, candles_, atrs_, m + 1)
    <3>1. g = [k \in 0 .. m + 1 |-> g[k]]
      OBVIOUS
    <3> HIDE DEF g
    <3> QED
      BY <2>3, <3>1 DEF IsSingles
  <2> QED
    BY <2>4
<1> HIDE DEF M
<1>3. M = Nat
  <2>1. M \in SUBSET Nat
    BY DEF M
  <2> QED
    BY <1>1, <1>2, <2>1, SetInduction
<1> QED
  BY <1>3 DEF M

\* The batch scan meets the pivots one candle after the other.
LEMMA SinglesSteps ==
  ASSUME NEW candles_, NEW atrs_, Largest(0, Len(candles_) - WindowRadius) \in Nat
  PROVE  \E f : /\ f[0] = << >>
                /\ SinglePivots(candles_, atrs_) = f[Largest(0, Len(candles_) - WindowRadius)]
                /\ \A k \in 1 .. Largest(0, Len(candles_) - WindowRadius) : f[k] = IF k <= WindowRadius THEN << >> ELSE f[k - 1] \o PivotAt(candles_, atrs_, k)
<1> USE DEF WindowRadius
<1> DEFINE f == CHOOSE g : IsSingles(g, candles_, atrs_, Largest(0, Len(candles_) - WindowRadius))
<1>1. IsSingles(f, candles_, atrs_, Largest(0, Len(candles_) - WindowRadius))
  BY SinglesExists
<1>2. SinglePivots(candles_, atrs_) = f[Largest(0, Len(candles_) - WindowRadius)]
  BY DEF SinglePivots, IsSingles
<1> HIDE DEF f
<1>3. \A k \in 0 .. Largest(0, Len(candles_) - WindowRadius) : f[k] = IF k <= WindowRadius THEN << >>
            ELSE f[k - 1] \o PivotAt(candles_, atrs_, k)
  BY <1>1 DEF IsSingles
<1>4. f[0] = << >>
  BY <1>3
<1>5. ASSUME NEW k \in 1 .. Largest(0, Len(candles_) - WindowRadius) PROVE f[k] = IF k <= WindowRadius THEN << >> ELSE f[k - 1] \o PivotAt(candles_, atrs_, k)
  BY <1>3
<1> QED
  BY <1>2, <1>4, <1>5

\* f is the walk from w over the first n events.
IsWalk(f, w, events, n) ==
  f = [k \in 0 .. n |->
         IF k = 0 THEN w
         ELSE ProcessEvent(f[k - 1], events[k])]

\* The function exists for every number of events.
LEMMA WalkExists ==
  ASSUME NEW w, NEW events, NEW n \in Nat
  PROVE  \E f : IsWalk(f, w, events, n)
<1> DEFINE M == {m \in Nat : \E f : IsWalk(f, w, events, m)}
<1>1. 0 \in M
  <2> DEFINE f == [k \in 0 .. 0 |-> w]
  <2>1. IsWalk(f, w, events, 0)
    BY DEF IsWalk
  <2> QED
    BY <2>1
<1>2. ASSUME NEW m \in M PROVE m + 1 \in M
  <2>1. PICK f : IsWalk(f, w, events, m)
    OBVIOUS
  <2>2. \A k \in 0 .. m : f[k] = IF k = 0 THEN w
                            ELSE ProcessEvent(f[k - 1], events[k])
    BY <2>1 DEF IsWalk
  <2> DEFINE g == [k \in 0 .. m + 1 |->
                     IF k = m + 1 THEN ProcessEvent(f[m], events[(m + 1)]) ELSE f[k]]
  <2>3. ASSUME NEW k \in 0 .. m + 1
        PROVE  g[k] = IF k = 0 THEN w
                      ELSE ProcessEvent(g[k - 1], events[k])
    <3>1. CASE k = m + 1
      BY <3>1
    <3>2. CASE k \in 0 .. m
      <4>1. g[k] = f[k] /\ (k # 0 => g[k - 1] = f[k - 1])
        BY <3>2
      <4>2. f[k] = IF k = 0 THEN w
                   ELSE ProcessEvent(f[k - 1], events[k])
        BY <2>2, <3>2
      <4> HIDE DEF g
      <4> QED
        BY <4>1, <4>2
    <3> QED
      BY <3>1, <3>2
  <2>4. IsWalk(g, w, events, m + 1)
    <3>1. g = [k \in 0 .. m + 1 |-> g[k]]
      OBVIOUS
    <3> HIDE DEF g
    <3> QED
      BY <2>3, <3>1 DEF IsWalk
  <2> QED
    BY <2>4
<1> HIDE DEF M
<1>3. M = Nat
  <2>1. M \in SUBSET Nat
    BY DEF M
  <2> QED
    BY <1>1, <1>2, <2>1, SetInduction
<1> QED
  BY <1>3 DEF M

\* The walk handles one event after the other.
LEMMA WalkSteps ==
  ASSUME NEW w, NEW events, Len(events) \in Nat
  PROVE  /\ WalkFrom(w, events)[0] = w
         /\ \A k \in 1 .. Len(events) :
              WalkFrom(w, events)[k] = ProcessEvent(WalkFrom(w, events)[k - 1], events[k])
         /\ DOMAIN WalkFrom(w, events) = 0 .. Len(events)
<1> DEFINE f == CHOOSE g : IsWalk(g, w, events, Len(events))
<1>1. IsWalk(f, w, events, Len(events))
  BY WalkExists
<1>2. WalkFrom(w, events) = f
  BY DEF WalkFrom, IsWalk
<1> HIDE DEF f
<1>3. \A k \in 0 .. Len(events) : f[k] = IF k = 0 THEN w
            ELSE ProcessEvent(f[k - 1], events[k])
  BY <1>1 DEF IsWalk
<1>4. f[0] = w
  BY <1>3
<1>5. ASSUME NEW k \in 1 .. Len(events) PROVE f[k] = ProcessEvent(f[k - 1], events[k])
  BY <1>3
<1>6. DOMAIN f = 0 .. Len(events)
  BY <1>1 DEF IsWalk
<1> QED
  BY <1>2, <1>4, <1>5, <1>6

\* The greatest of a run of natural numbers.
LEMMA GreatestOfRun ==
  ASSUME NEW h, NEW from \in Nat, NEW to \in Nat, from <= to,
         \A j \in from .. to : h[j] \in Nat
  PROVE  /\ Max({h[j] : j \in from .. to}) \in {h[j] : j \in from .. to}
         /\ \A j \in from .. to : Max({h[i] : i \in from .. to}) >= h[j]
<1> DEFINE Bounded(m) == \E b \in Nat : \A j \in from .. to : j <= from + m => h[j] <= b
<1> DEFINE M == {m \in Nat : Bounded(m)}
<1>1. 0 \in M
  BY DEF M
<1>2. ASSUME NEW m \in M PROVE m + 1 \in M
  <2>1. PICK b \in Nat : \A j \in from .. to : j <= from + m => h[j] <= b
    OBVIOUS
  <2>2. CASE from + m + 1 \in from .. to
    <3> DEFINE c == IF b >= h[from + m + 1] THEN b ELSE h[from + m + 1]
    <3>1. c \in Nat /\ c >= b /\ c >= h[from + m + 1]
      BY <2>2
    <3> HIDE DEF c
    <3>2. ASSUME NEW j \in from .. to, j <= from + m + 1 PROVE h[j] <= c
      <4>1. CASE j <= from + m
        BY <2>1, <3>1, <4>1
      <4>2. CASE j = from + m + 1
        BY <3>1, <4>2
      <4> QED
        BY <3>2, <4>1, <4>2
    <3> QED
      BY <3>1, <3>2
  <2>3. CASE from + m + 1 \notin from .. to
    <3>1. \A j \in from .. to : j <= from + (m + 1) => h[j] <= b
      BY <2>1, <2>3
    <3> QED
      BY <3>1
  <2> QED
    BY <2>2, <2>3
<1> HIDE DEF M
<1>3. M = Nat
  <2>1. M \in SUBSET Nat
    BY DEF M
  <2> QED
    BY <1>1, <1>2, <2>1, SetInduction
<1>4. PICK b \in Nat : \A j \in from .. to : j <= from + (to - from) => h[j] <= b
  <2>1. to - from \in M
    BY <1>3
  <2> QED
    BY <2>1 DEF M
<1> DEFINE T == {h[j] : j \in from .. to}
<1>5. T \in SUBSET Nat /\ \A y \in T : y <= b
  BY <1>4
<1>6. T # {}
  <2>1. h[from] \in T
    OBVIOUS
  <2> QED
    BY <2>1
<1>7. \A j \in from .. to : h[j] \in T
  OBVIOUS
<1> HIDE DEF T
<1>8. Max(T) \in T /\ \A y \in T : Max(T) >= y
  BY <1>5, <1>6, GreatestOf
<1> QED
  BY <1>7, <1>8 DEF T

\* The least of a run of natural numbers.
LEMMA LeastOfRun ==
  ASSUME NEW h, NEW from \in Nat, NEW to \in Nat, from <= to,
         \A j \in from .. to : h[j] \in Nat
  PROVE  /\ Min({h[j] : j \in from .. to}) \in {h[j] : j \in from .. to}
         /\ \A j \in from .. to : Min({h[i] : i \in from .. to}) <= h[j]
<1> DEFINE T == {h[j] : j \in from .. to}
<1>1. T \in SUBSET Nat
  OBVIOUS
<1>2. T # {}
  <2>1. h[from] \in T
    OBVIOUS
  <2> QED
    BY <2>1
<1>3. \A j \in from .. to : h[j] \in T
  OBVIOUS
<1> HIDE DEF T
<1>4. Min(T) \in T /\ \A y \in T : Min(T) <= y
  BY <1>1, <1>2, LeastOf
<1> QED
  BY <1>3, <1>4 DEF T

\* A pivot, of one candle or of two.
Pivot == [start : Nat, end : Nat, type : {High, Low}, price : Nat, atr : Nat, tie : Nat]

\* The single-candle pivots of n candles, in the order of the candles.
RawOK(raw, n) ==
  /\ raw \in Seq(Pivot)
  /\ \A i \in 1 .. Len(raw) :
       raw[i].start = raw[i].end /\ raw[i].start > WindowRadius /\ raw[i].end + WindowRadius <= n
  /\ \A i, j \in 1 .. Len(raw) : i < j => raw[i].start < raw[j].start

\* A candle is a pivot by its window and its ATR alone.
LEMMA PivotAtSame ==
  ASSUME NEW cs, NEW ds, NEW f, NEW g, NEW i \in Int, f[i] = g[i],
         \A j \in i - WindowRadius .. i + WindowRadius : cs[j] = ds[j]
  PROVE  PivotAt(cs, f, i) = PivotAt(ds, g, i)
<1>1. cs[i] = ds[i]
  BY DEF WindowRadius
<1> DEFINE window == {j \in i - WindowRadius .. i + WindowRadius : j # i}
           HighIn(s, e) == \A j \in window : 100 * s[j].high <= 100 * s[i].high + Config.pivotTie * e[i]
           LowIn(s, e) == \A j \in window : 100 * s[j].low >= 100 * s[i].low - Config.pivotTie * e[i]
<1>2. \A j \in window : cs[j] = ds[j]
  OBVIOUS
<1>3. HighIn(cs, f) = HighIn(ds, g)
  BY <1>1, <1>2
<1>4. LowIn(cs, f) = LowIn(ds, g)
  BY <1>1, <1>2
<1> QED
  BY <1>1, <1>3, <1>4 DEF PivotAt

\* A pivot's shape.
LEMMA PivotAtShape ==
  ASSUME NEW seq, CandlesOK(seq), NEW f, AtrsOK(f, seq),
         NEW i \in 1 .. Len(seq)
  PROVE  \/ PivotAt(seq, f, i) = << >>
         \/ \E p \in Pivot : PivotAt(seq, f, i) = <<p>> /\ p.start = i /\ p.end = i
<1>1. i \in Nat /\ Len(seq) \in Nat
  BY LenProperties DEF CandlesOK
<1>2. seq[i].high \in Nat /\ seq[i].low \in Nat
  BY DEF CandlesOK, IsCandle
<1>3. f[i] = None \/ f[i] \in Nat
  BY ElementOfSeq DEF AtrsOK
<1>4. SUFFICES ASSUME PivotAt(seq, f, i) # << >>
      PROVE  \E p \in Pivot : PivotAt(seq, f, i) = <<p>> /\ p.start = i /\ p.end = i
  OBVIOUS
<1> DEFINE tie == Config.pivotTie * f[i]
           P(type, price) ==
             [start |-> i, end |-> i, type |-> type, price |-> price, atr |-> f[i], tie |-> tie]
<1>5. /\ f[i] # None
      /\ \/ PivotAt(seq, f, i) = <<P(High, seq[i].high)>>
         \/ PivotAt(seq, f, i) = <<P(Low, seq[i].low)>>
  BY <1>4 DEF PivotAt
<1>6. f[i] \in Nat
  BY <1>3, <1>5
<1>7. tie \in Nat
  BY <1>6, SwingConfig, ProductNat
<1> HIDE DEF tie
<1>8. P(High, seq[i].high) \in Pivot /\ P(Low, seq[i].low) \in Pivot
  BY <1>1, <1>2, <1>6, <1>7 DEF Pivot
<1>9. /\ P(High, seq[i].high).start = i /\ P(High, seq[i].high).end = i
      /\ P(Low, seq[i].low).start = i /\ P(Low, seq[i].low).end = i
  OBVIOUS
<1> HIDE DEF P
<1> QED
  BY <1>5, <1>8, <1>9

\* The pivots of one more candle: the candle two before it at the end.
LEMMA SinglesAppend ==
  ASSUME NEW seq, CandlesOK(seq), NEW c, IsCandle(c),
         NEW f, AtrsOK(f, seq), NEW x, AtrsOK(Append(f, x), Append(seq, c))
  PROVE  SinglePivots(Append(seq, c), Append(f, x))
           = AppendRawPivot(SinglePivots(seq, f), Append(seq, c), Append(f, x))
<1> DEFINE n == Len(seq)
           more == Append(seq, c)
           g == Append(f, x)
           last == Largest(0, n - WindowRadius)
           next == Largest(0, n + 1 - WindowRadius)
<1>1. /\ n \in Nat /\ Len(more) = n + 1 /\ \A i \in 1 .. n : more[i] = seq[i]
  BY CandlesAppend
<1>2. \A i \in 1 .. n : g[i] = f[i]
  <2>1. f \in Seq(Nat \cup {None}) /\ Len(f) = n /\ g \in Seq(Nat \cup {None}) /\ Len(g) = n + 1
    BY <1>1 DEF AtrsOK
  <2>2. g[n + 1] \in Nat \cup {None}
    BY <1>1, <2>1, ElementOfSeq
  <2> QED
    BY <1>1, <2>1
<1> HIDE DEF n, more, g
<1>3. last \in Nat /\ next \in Nat
  BY <1>1 DEF Largest, WindowRadius
<1>4. PICK h : /\ h[0] = << >>
               /\ SinglePivots(seq, f) = h[last]
               /\ \A k \in 1 .. last : h[k] = IF k <= WindowRadius THEN << >> ELSE h[k - 1] \o PivotAt(seq, f, k)
  BY <1>3, SinglesSteps DEF n
<1>5. PICK e : /\ e[0] = << >>
               /\ SinglePivots(more, g) = e[next]
               /\ \A k \in 1 .. next : e[k] = IF k <= WindowRadius THEN << >> ELSE e[k - 1] \o PivotAt(more, g, k)
  <2>1. Len(more) = n + 1 /\ Largest(0, Len(more) - WindowRadius) = Largest(0, n + 1 - WindowRadius)
    BY <1>1 DEF Largest, WindowRadius
  <2>2. Largest(0, Len(more) - WindowRadius) = next /\ Largest(0, Len(more) - WindowRadius) \in Nat
    BY <1>3, <2>1
  <2>3. \E e : /\ e[0] = << >>
               /\ SinglePivots(more, g) = e[Largest(0, Len(more) - WindowRadius)]
               /\ \A k \in 1 .. Largest(0, Len(more) - WindowRadius) :
                    e[k] = IF k <= WindowRadius THEN << >> ELSE e[k - 1] \o PivotAt(more, g, k)
    BY <2>2, SinglesSteps
  <2> QED
    BY <2>2, <2>3
<1> DEFINE M == {m \in Nat : m <= last => e[m] = h[m]}
<1>6. 0 \in M
  BY <1>4, <1>5
<1>7. ASSUME NEW m \in M PROVE m + 1 \in M
  <2>1. SUFFICES ASSUME m + 1 <= last PROVE e[m + 1] = h[m + 1]
    OBVIOUS
  <2>2. m + 1 \in 1 .. last /\ m + 1 \in 1 .. next /\ e[m] = h[m] /\ (m + 1) - 1 = m
    BY <1>1, <2>1 DEF Largest, WindowRadius
  <2>3. m + 1 > WindowRadius => PivotAt(more, g, m + 1) = PivotAt(seq, f, m + 1)
    <3>1. SUFFICES ASSUME m + 1 > WindowRadius PROVE PivotAt(more, g, m + 1) = PivotAt(seq, f, m + 1)
      OBVIOUS
    <3>2. m + 1 \in 1 .. n /\ \A j \in (m + 1) - WindowRadius .. (m + 1) + WindowRadius : j \in 1 .. n
      BY <1>1, <2>1, <3>1 DEF Largest, WindowRadius
    <3>3. g[m + 1] = f[m + 1] /\ \A j \in (m + 1) - WindowRadius .. (m + 1) + WindowRadius : more[j] = seq[j]
      BY <1>1, <1>2, <3>2
    <3>4. m + 1 \in Int
      OBVIOUS
    <3> HIDE DEF last, next, M
    <3> QED
      BY <3>3, <3>4, PivotAtSame
  <2> HIDE DEF last, next
  <2>4. h[m + 1] = IF m + 1 <= WindowRadius THEN << >> ELSE h[m] \o PivotAt(seq, f, m + 1)
    BY <1>4, <2>2
  <2>5. e[m + 1] = IF m + 1 <= WindowRadius THEN << >> ELSE e[m] \o PivotAt(more, g, m + 1)
    BY <1>5, <2>2
  <2> QED
    BY <2>2, <2>3, <2>4, <2>5 DEF WindowRadius
<1> HIDE DEF M
<1>8. M = Nat
  <2>1. M \in SUBSET Nat
    BY DEF M
  <2> QED
    BY <1>6, <1>7, <2>1, SetInduction
<1>9. e[last] = h[last]
  BY <1>3, <1>8 DEF M
<1>10. CASE n + 1 > 2 * WindowRadius
  <2>1. next = last + 1 /\ next > WindowRadius /\ next = Len(more) - WindowRadius
    BY <1>1, <1>10 DEF Largest, WindowRadius
  <2> HIDE DEF last, next
  <2>2. e[next] = e[last] \o PivotAt(more, g, next)
    <3>1. next \in 1 .. next /\ ~ (next <= WindowRadius) /\ next - 1 = last
      BY <1>3, <2>1 DEF WindowRadius
    <3> QED
      BY <1>5, <3>1
  <2>3. SinglePivots(more, g) = SinglePivots(seq, f) \o PivotAt(more, g, Len(more) - WindowRadius)
    BY <1>4, <1>5, <1>9, <2>1, <2>2
  <2> QED
    BY <1>1, <1>10, <2>3 DEF AppendRawPivot, more, g
<1>11. CASE ~ (n + 1 > 2 * WindowRadius)
  <2>1. next <= WindowRadius /\ last <= next
    BY <1>1, <1>11 DEF Largest, WindowRadius
  <2> HIDE DEF last, next
  <2>2. h[last] = << >>
    <3>1. last = 0 \/ (last \in 1 .. last /\ last <= WindowRadius)
      BY <1>3, <2>1 DEF WindowRadius
    <3> QED
      BY <1>4, <3>1
  <2>3. e[next] = << >>
    <3>1. next = 0 \/ next \in 1 .. next
      BY <1>3
    <3> QED
      BY <1>5, <2>1, <3>1
  <2> QED
    BY <1>1, <1>4, <1>5, <1>11, <2>2, <2>3 DEF AppendRawPivot, more, g
<1> QED
  BY <1>10, <1>11

\* No candle is a pivot of an empty chart.
LEMMA NoSingles == SinglePivots(<< >>, << >>) = << >>
<1>1. Len(<< >>) = 0 /\ Largest(0, 0 - WindowRadius) = 0
  BY EmptySeq DEF Largest, WindowRadius
<1> QED
  BY <1>1, SinglesSteps

\* The single-candle pivots stay in order.
LEMMA RawAppend ==
  ASSUME NEW seq, CandlesOK(seq), NEW c, IsCandle(c),
         NEW g, AtrsOK(g, Append(seq, c)), NEW raw, RawOK(raw, Len(seq))
  PROVE  LET new == AppendRawPivot(raw, Append(seq, c), g)
         IN  /\ RawOK(new, Len(seq) + 1)
             /\ \/ new = raw
                \/ \E p \in Pivot : new = Append(raw, p) /\ p.start = Len(seq) + 1 - WindowRadius
             /\ Len(seq) + 1 < 2 * WindowRadius + 1 => new = raw
<1> DEFINE n == Len(seq)
           more == Append(seq, c)
           new == AppendRawPivot(raw, more, g)
           at == n + 1 - WindowRadius
<1>1. CandlesOK(more) /\ n \in Nat /\ Len(more) = n + 1
  BY CandlesAppend
<1>2. new = IF n + 1 > 2 * WindowRadius THEN raw \o PivotAt(more, g, at) ELSE raw
  <2>1. new = IF Len(more) > 2 * WindowRadius THEN raw \o PivotAt(more, g, Len(more) - WindowRadius) ELSE raw
    BY DEF AppendRawPivot
  <2> HIDE DEF new, more, n, at
  <2>2. Len(more) - WindowRadius = at
    BY <1>1 DEF at, WindowRadius
  <2> QED
    BY <1>1, <2>1, <2>2
<1>3. raw \in Seq(Pivot)
  BY DEF RawOK
<1>4. /\ \A i \in 1 .. Len(raw) :
           raw[i].start = raw[i].end /\ raw[i].start > WindowRadius /\ raw[i].end + WindowRadius <= n
      /\ \A i, j \in 1 .. Len(raw) : i < j => raw[i].start < raw[j].start
  BY DEF RawOK
<1>5. \A i \in 1 .. Len(raw) : raw[i].start \in Nat /\ raw[i].end \in Nat
  <2>1. \A i \in 1 .. Len(raw) : raw[i] \in Pivot
    BY <1>3, ElementOfSeq
  <2> QED
    BY <2>1 DEF Pivot
<1> HIDE DEF n, more, new
<1>6. CASE new = raw
  <2>1. RawOK(raw, n + 1)
    <3>1. \A i \in 1 .. Len(raw) : raw[i].end + WindowRadius <= n + 1
      BY <1>1, <1>4, <1>5 DEF WindowRadius
    <3> QED
      BY <1>3, <1>4, <3>1 DEF RawOK
  <2> QED
    BY <1>6, <2>1 DEF new, n, more
<1>7. CASE n + 1 > 2 * WindowRadius /\ \E p \in Pivot : new = Append(raw, p) /\ p.start = at /\ p.end = at
  <2>1. PICK p \in Pivot : new = Append(raw, p) /\ p.start = at /\ p.end = at
    BY <1>7
  <2>2. Len(raw) \in Nat /\ new \in Seq(Pivot) /\ Len(new) = Len(raw) + 1
          /\ new[Len(raw) + 1] = p /\ \A i \in 1 .. Len(raw) : new[i] = raw[i]
    BY <1>3, <2>1, AppendProperties, LenProperties
  <2>3. at > WindowRadius /\ at + WindowRadius = n + 1 /\ at \in Nat
    BY <1>1, <1>7 DEF WindowRadius
  <2> HIDE DEF at
  <2>4. ASSUME NEW i \in 1 .. Len(new)
        PROVE  new[i].start = new[i].end /\ new[i].start > WindowRadius /\ new[i].end + WindowRadius <= n + 1
    <3>1. CASE i \in 1 .. Len(raw)
      BY <1>1, <1>4, <1>5, <2>2, <3>1 DEF WindowRadius
    <3>2. CASE i = Len(raw) + 1
      BY <1>1, <2>1, <2>2, <2>3, <3>2
    <3>3. i \in 1 .. Len(raw) \/ i = Len(raw) + 1
      BY <2>2
    <3> QED
      BY <3>1, <3>2, <3>3
  <2>5. ASSUME NEW i \in 1 .. Len(new), NEW j \in 1 .. Len(new), i < j
        PROVE  new[i].start < new[j].start
    <3>1. i \in 1 .. Len(raw)
      BY <2>2, <2>5
    <3>2. CASE j \in 1 .. Len(raw)
      BY <1>4, <2>2, <2>5, <3>1, <3>2
    <3>3. CASE j = Len(raw) + 1
      <4>1. raw[i].start + WindowRadius <= n
        BY <1>4, <3>1
      <4>2. raw[i].start \in Nat /\ new[i] = raw[i] /\ new[j] = p
        BY <1>5, <2>2, <3>1, <3>3
      <4> QED
        BY <1>1, <2>1, <2>3, <4>1, <4>2 DEF WindowRadius
    <3>4. j \in 1 .. Len(raw) \/ j = Len(raw) + 1
      BY <2>2
    <3> QED
      BY <3>2, <3>3, <3>4
  <2>6. RawOK(new, n + 1)
    BY <2>2, <2>4, <2>5 DEF RawOK
  <2>7. ~ (n + 1 < 2 * WindowRadius + 1)
    BY <1>1, <1>7 DEF WindowRadius
  <2> QED
    BY <2>1, <2>6, <2>7 DEF new, n, more, at
<1>8. new = raw \/ (n + 1 > 2 * WindowRadius /\ \E p \in Pivot : new = Append(raw, p) /\ p.start = at /\ p.end = at)
  <2>1. SUFFICES ASSUME n + 1 > 2 * WindowRadius
        PROVE  new = raw \/ \E p \in Pivot : new = Append(raw, p) /\ p.start = at /\ p.end = at
    BY <1>2
  <2>2. at \in 1 .. Len(more)
    BY <1>1, <2>1 DEF WindowRadius
  <2> HIDE DEF at
  <2>3. AtrsOK(g, more)
    BY DEF more
  <2>4. \/ PivotAt(more, g, at) = << >>
        \/ \E p \in Pivot : PivotAt(more, g, at) = <<p>> /\ p.start = at /\ p.end = at
    BY <1>1, <2>2, <2>3, PivotAtShape
  <2>5. new = raw \o PivotAt(more, g, at)
    BY <1>2, <2>1
  <2>6. raw \o << >> = raw
    BY <1>3, ConcatEmptySeq
  <2>7. \A p \in Pivot : raw \o <<p>> = Append(raw, p)
    BY <1>3
  <2> QED
    BY <2>4, <2>5, <2>6, <2>7
<1> QED
  BY <1>6, <1>7, <1>8

\* What the merge can make of single-candle pivots: one of them, or a plateau
\* of two next to each other.
IsPivotOf(raw, q) ==
  \/ \E i \in 1 .. Len(raw) : q = raw[i]
  \/ \E i, j \in 1 .. Len(raw) : raw[j].start = raw[i].end + 1 /\ q = Plateau(raw[i], raw[j])

PivotsOf(raw) ==
  {q \in {raw[i] : i \in 1 .. Len(raw)} \cup {Plateau(raw[i], raw[j]) : i, j \in 1 .. Len(raw)} :
     IsPivotOf(raw, q)}

\* Pivots in the order of their candles.
Ascending(s) == \A i, j \in 1 .. Len(s) : i < j => s[i].start < s[j].start

\* Membership, for the provers to match.
LEMMA PivotsOfIs ==
  ASSUME NEW raw, NEW q
  PROVE  q \in PivotsOf(raw) <=> IsPivotOf(raw, q)
  BY DEF PivotsOf, IsPivotOf

\* A plateau runs from its first pivot to its last.
LEMMA PlateauShape ==
  ASSUME NEW first, NEW p \in Pivot
  PROVE  /\ Plateau(first, p).start = first.start
         /\ Plateau(first, p).end = p.end
         /\ Plateau(first, p).type = p.type
  BY DEF Plateau, Pivot

\* The place of a pivot.
LEMMA PivotOfShape ==
  ASSUME NEW raw, NEW n \in Nat, RawOK(raw, n), NEW q, IsPivotOf(raw, q)
  PROVE  /\ q.start \in Nat /\ q.end \in Nat /\ q.type \in {High, Low}
         /\ q.start <= q.end /\ q.start > WindowRadius /\ q.end + WindowRadius <= n
         /\ \E i \in 1 .. Len(raw) : raw[i].start = q.start
         /\ \E j \in 1 .. Len(raw) : raw[j].start = q.end
         /\ q.start = q.end => \E i \in 1 .. Len(raw) : q = raw[i]
<1>1. ASSUME NEW i \in 1 .. Len(raw)
      PROVE  /\ raw[i] \in Pivot
             /\ raw[i].start \in Nat /\ raw[i].end \in Nat /\ raw[i].type \in {High, Low}
             /\ raw[i].start = raw[i].end /\ raw[i].start > WindowRadius /\ raw[i].end + WindowRadius <= n
  <2>1. raw[i] \in Pivot
    BY ElementOfSeq DEF RawOK
  <2>2. raw[i].start = raw[i].end /\ raw[i].start > WindowRadius /\ raw[i].end + WindowRadius <= n
    BY DEF RawOK
  <2> QED
    BY <2>1, <2>2 DEF Pivot
<1>2. CASE \E i \in 1 .. Len(raw) : q = raw[i]
  BY <1>1, <1>2
<1>3. CASE \E i, j \in 1 .. Len(raw) : raw[j].start = raw[i].end + 1 /\ q = Plateau(raw[i], raw[j])
  <2>1. PICK i \in 1 .. Len(raw), j \in 1 .. Len(raw) : raw[j].start = raw[i].end + 1 /\ q = Plateau(raw[i], raw[j])
    BY <1>3
  <2>2. q.start = raw[i].start /\ q.end = raw[j].end /\ q.type = raw[j].type
    BY <1>1, <2>1, PlateauShape
  <2>3. q.start < q.end
    BY <1>1, <2>1, <2>2
  <2> QED
    BY <1>1, <2>1, <2>2, <2>3
<1> QED
  BY <1>2, <1>3 DEF IsPivotOf

\* Single-candle pivots lie on different candles.
LEMMA RawByStart ==
  ASSUME NEW raw, NEW n \in Nat, RawOK(raw, n),
         NEW i \in 1 .. Len(raw), NEW j \in 1 .. Len(raw), raw[i].start = raw[j].start
  PROVE  i = j
<1>1. raw[i] \in Pivot /\ raw[j] \in Pivot
  BY ElementOfSeq DEF RawOK
<1>2. raw[i].start \in Nat
  BY <1>1 DEF Pivot
<1>3. Len(raw) \in Nat
  BY LenProperties DEF RawOK
<1>4. i \in Nat /\ j \in Nat
  BY <1>3
<1>5. (i < j => raw[i].start < raw[j].start) /\ (j < i => raw[j].start < raw[i].start)
  BY DEF RawOK
<1> QED
  BY <1>2, <1>4, <1>5

\* A pivot is known by its candles and its type.
LEMMA KeyDetermines ==
  ASSUME NEW raw, NEW n \in Nat, RawOK(raw, n),
         NEW p, IsPivotOf(raw, p), NEW q, IsPivotOf(raw, q), PivotKey(p) = PivotKey(q)
  PROVE  p = q
<1>1. p.start = q.start /\ p.end = q.end /\ p.type = q.type
  BY DEF PivotKey
<1>2. ASSUME NEW i \in 1 .. Len(raw)
      PROVE  raw[i] \in Pivot /\ raw[i].start \in Nat /\ raw[i].start = raw[i].end
  <2>1. raw[i] \in Pivot
    BY ElementOfSeq DEF RawOK
  <2> QED
    BY <2>1 DEF RawOK, Pivot
<1>3. CASE p.start = p.end
  <2>1. PICK i \in 1 .. Len(raw) : p = raw[i]
    BY <1>3, PivotOfShape
  <2>2. PICK j \in 1 .. Len(raw) : q = raw[j]
    <3>1. q.start = q.end
      BY <1>1, <1>3
    <3> QED
      BY <3>1, PivotOfShape
  <2>3. raw[i].start = raw[j].start
    BY <1>1, <2>1, <2>2
  <2>4. i = j
    BY <2>3, RawByStart
  <2> QED
    BY <2>1, <2>2, <2>4
<1>4. CASE p.start # p.end
  <2>1. PICK i \in 1 .. Len(raw), j \in 1 .. Len(raw) :
          raw[j].start = raw[i].end + 1 /\ p = Plateau(raw[i], raw[j])
    BY <1>2, <1>4 DEF IsPivotOf
  <2>2. PICK k \in 1 .. Len(raw), l \in 1 .. Len(raw) :
          raw[l].start = raw[k].end + 1 /\ q = Plateau(raw[k], raw[l])
    BY <1>1, <1>2, <1>4 DEF IsPivotOf
  <2>3. p.start = raw[i].start /\ p.end = raw[j].end
    BY <1>2, <2>1, PlateauShape
  <2>4. q.start = raw[k].start /\ q.end = raw[l].end
    BY <1>2, <2>2, PlateauShape
  <2>5. raw[i].start = raw[k].start
    BY <1>1, <2>3, <2>4
  <2>6. raw[j].start = raw[l].start
    BY <1>1, <1>2, <2>3, <2>4
  <2>7. i = k /\ j = l
    BY <2>5, <2>6, RawByStart
  <2> QED
    BY <2>1, <2>2, <2>7
<1> QED
  BY <1>3, <1>4

\* The pivots of a sequence are among those of a longer one.
LEMMA PivotsOfGrow ==
  ASSUME NEW raw \in Seq(Pivot), NEW x \in Pivot, NEW q, IsPivotOf(raw, q)
  PROVE  IsPivotOf(Append(raw, x), q)
<1> DEFINE new == Append(raw, x)
<1>1. Len(raw) \in Nat /\ Len(new) = Len(raw) + 1 /\ \A i \in 1 .. Len(raw) : new[i] = raw[i]
  BY AppendProperties, LenProperties
<1> HIDE DEF new
<1>2. \A i \in 1 .. Len(raw) : i \in 1 .. Len(new)
  BY <1>1
<1>3. IsPivotOf(new, q)
  BY <1>1, <1>2 DEF IsPivotOf
<1> QED
  BY <1>3 DEF new

-----------------------------------------------------------------------------
(* What the merge of the first pivots has made.                            *)

MergedOK(merged, raw, k) ==
  /\ merged \in Seq(PivotsOf(raw))
  /\ Ascending(merged)
  /\ \A i \in 1 .. Len(merged) : k # 0 /\ merged[i].end <= raw[k].end

\* The end of a sequence and what comes before it.
LEMMA LastAndFront ==
  ASSUME NEW S, NEW s \in Seq(S), s # << >>
  PROVE  /\ Len(s) \in Nat \ {0} /\ Last(s) = s[Len(s)] /\ Last(s) \in S
         /\ Front(s) \in Seq(S) /\ Len(Front(s)) = Len(s) - 1
         /\ \A i \in 1 .. Len(s) - 1 : Front(s)[i] = s[i]
<1>1. Len(s) \in Nat \ {0}
  BY EmptySeq
<1>2. \A i \in 1 .. Len(s) - 1 : s[i] \in S
  <2>1. ASSUME NEW i \in 1 .. Len(s) - 1 PROVE s[i] \in S
    <3>1. i \in 1 .. Len(s)
      BY <1>1
    <3> QED
      BY <3>1, ElementOfSeq
  <2> QED
    BY <2>1
<1> DEFINE m == Len(s) - 1
<1>3. m \in Nat
  BY <1>1
<1>4. /\ SubSeq(s, 1, m) \in Seq(S) /\ Len(SubSeq(s, 1, m)) = (IF 1 <= m THEN m - 1 + 1 ELSE 0)
      /\ \A i \in 1 .. m - 1 + 1 : SubSeq(s, 1, m)[i] = s[1 + i - 1]
  BY <1>2, <1>3, SubSeqProperties
<1> DEFINE front == SubSeq(s, 1, m)
<1>5. Len(front) = m /\ \A i \in 1 .. m : front[i] = s[i]
  <2>1. /\ Len(front) = (IF 1 <= m THEN m - 1 + 1 ELSE 0)
        /\ \A i \in 1 .. m - 1 + 1 : front[i] = s[1 + i - 1]
    BY <1>4
  <2> HIDE DEF front, m
  <2>2. Len(front) = m
    BY <1>3, <2>1
  <2>3. ASSUME NEW i \in 1 .. m PROVE front[i] = s[i]
    <3>1. i \in 1 .. m - 1 + 1 /\ 1 + i - 1 = i
      BY <1>3
    <3> QED
      BY <2>1, <3>1
  <2> QED
    BY <2>2, <2>3
<1>6. Last(s) = s[Len(s)] /\ s[Len(s)] \in S
  BY <1>1, ElementOfSeq DEF Last
<1> QED
  BY <1>1, <1>4, <1>5, <1>6 DEF Front

\* One more pivot keeps the merged pivots made of raw ones, in order.
LEMMA MergeStepOK ==
  ASSUME NEW raw, NEW n \in Nat, RawOK(raw, n), NEW k \in Nat, k + 1 \in 1 .. Len(raw),
         NEW merged, MergedOK(merged, raw, k)
  PROVE  MergedOK(MergePlateau(merged, raw[k + 1]), raw, k + 1)
<1> DEFINE S == PivotsOf(raw)
           p == raw[k + 1]
           new == MergePlateau(merged, p)
<1>1. Len(raw) \in Nat /\ (k # 0 => k \in 1 .. Len(raw))
  BY LenProperties DEF RawOK
<1>2. merged \in Seq(S) /\ Ascending(merged) /\ Len(merged) \in Nat
  BY LenProperties DEF MergedOK
<1>3. ASSUME NEW i \in 1 .. Len(raw)
      PROVE  raw[i] \in Pivot /\ raw[i].start \in Nat /\ raw[i].start = raw[i].end
  <2>1. raw[i] \in Pivot
    BY ElementOfSeq DEF RawOK
  <2> QED
    BY <2>1 DEF RawOK, Pivot
<1>4. p \in S
  <2>1. IsPivotOf(raw, p)
    BY DEF IsPivotOf
  <2> QED
    BY <2>1, PivotsOfIs
<1>5. ASSUME NEW i \in 1 .. Len(merged)
      PROVE  /\ IsPivotOf(raw, merged[i]) /\ merged[i].start \in Nat /\ merged[i].end \in Nat
             /\ merged[i].start <= merged[i].end /\ merged[i].end < p.start
  <2>1. merged[i] \in S
    BY <1>2, ElementOfSeq
  <2>2. IsPivotOf(raw, merged[i])
    BY <2>1, PivotsOfIs
  <2>3. merged[i].start \in Nat /\ merged[i].end \in Nat /\ merged[i].start <= merged[i].end
    BY <2>2, PivotOfShape
  <2>4. k # 0 /\ merged[i].end <= raw[k].end
    BY DEF MergedOK
  <2>5. k \in 1 .. Len(raw) /\ k < k + 1
    BY <1>1, <2>4
  <2>6. raw[k].start < p.start
    BY <2>5 DEF RawOK
  <2>7. raw[k].start \in Nat /\ raw[k].start = raw[k].end /\ p.start \in Nat
    BY <1>3, <2>5
  <2> HIDE DEF p
  <2> QED
    BY <2>2, <2>3, <2>4, <2>6, <2>7
<1>6. p.start = p.end /\ p.start \in Nat
  BY <1>3
<1> DEFINE Merges == /\ merged # << >>
                     /\ Last(merged).type = p.type
                     /\ Last(merged).start = Last(merged).end
                     /\ p.start = Last(merged).end + 1
                     /\ 100 * AbsDiff(p.price, Last(merged).price) <= Last(merged).tie
<1>7. new = IF Merges THEN Append(Front(merged), Plateau(Last(merged), p)) ELSE Append(merged, p)
  BY DEF MergePlateau
<1>8. CASE ~ Merges
  <2>1. new = Append(merged, p)
    BY <1>7, <1>8
  <2> HIDE DEF S, p, new, Merges
  <2>2. /\ new \in Seq(S) /\ Len(new) = Len(merged) + 1 /\ new[Len(merged) + 1] = p
        /\ \A i \in 1 .. Len(merged) : new[i] = merged[i]
    BY <1>2, <1>4, <2>1, AppendProperties
  <2>3. \A i \in 1 .. Len(new) : i \in 1 .. Len(merged) \/ i = Len(merged) + 1
    BY <1>2, <2>2
  <2>4. Ascending(new)
    <3>1. ASSUME NEW i \in 1 .. Len(new), NEW j \in 1 .. Len(new), i < j PROVE new[i].start < new[j].start
      <4>1. i \in 1 .. Len(merged)
        BY <1>2, <2>2, <3>1
      <4>2. CASE j \in 1 .. Len(merged)
        BY <1>2, <2>2, <3>1, <4>1, <4>2 DEF Ascending
      <4>3. CASE j = Len(merged) + 1
        <5>1. merged[i].start \in Nat /\ merged[i].end \in Nat /\ merged[i].start <= merged[i].end /\ merged[i].end < p.start
          BY <1>5, <4>1
        <5>2. new[i] = merged[i] /\ new[j] = p
          BY <2>2, <4>1, <4>3
        <5> QED
          BY <1>6, <5>1, <5>2
      <4> QED
        BY <2>3, <4>2, <4>3
    <3> QED
      BY <3>1 DEF Ascending
  <2>5. ASSUME NEW i \in 1 .. Len(new) PROVE k + 1 # 0 /\ new[i].end <= raw[k + 1].end
    <3>1. CASE i \in 1 .. Len(merged)
      <4>1. merged[i].end \in Nat /\ merged[i].end < p.start /\ new[i] = merged[i]
        BY <1>5, <2>2, <3>1
      <4> QED
        BY <1>6, <4>1 DEF p
    <3>2. CASE i = Len(merged) + 1
      <4>1. new[i] = p
        BY <2>2, <3>2
      <4> QED
        BY <1>6, <4>1 DEF p
    <3> QED
      BY <2>3, <3>1, <3>2
  <2> QED
    BY <2>2, <2>4, <2>5 DEF MergedOK, S, new, p
<1>9. CASE Merges
  <2> DEFINE l == Len(merged)
             top == merged[l]
             q == Plateau(top, p)
             front == Front(merged)
  <2>1. /\ l \in Nat \ {0} /\ Last(merged) = top
        /\ front \in Seq(S) /\ Len(front) = l - 1 /\ \A i \in 1 .. l - 1 : front[i] = merged[i]
    BY <1>2, <1>9, LastAndFront
  <2>2. l \in 1 .. l
    BY <2>1
  <2>3. /\ IsPivotOf(raw, top) /\ top.start \in Nat /\ top.end \in Nat /\ top.end < p.start
    BY <1>5, <2>2
  <2>4. top.start = top.end /\ p.start = top.end + 1
    BY <1>9, <2>1
  <2>5. PICK i \in 1 .. Len(raw) : top = raw[i]
    BY <2>3, <2>4, PivotOfShape
  <2>6. q \in S
    <3>1. IsPivotOf(raw, q)
      BY <2>4, <2>5 DEF IsPivotOf
    <3> QED
      BY <3>1, PivotsOfIs
  <2>7. q.start = top.start /\ q.end = p.end
    BY <1>3, PlateauShape
  <2>8. new = Append(front, q)
    BY <1>7, <1>9, <2>1
  <2> HIDE DEF S, p, new, Merges, l, top, q, front
  <2>9. /\ new \in Seq(S) /\ Len(new) = l /\ new[l] = q
        /\ \A j \in 1 .. l - 1 : new[j] = merged[j]
    <3>1. /\ new \in Seq(S) /\ Len(new) = Len(front) + 1 /\ new[Len(front) + 1] = q
          /\ \A j \in 1 .. Len(front) : new[j] = front[j]
      BY <2>1, <2>6, <2>8, AppendProperties
    <3>2. Len(front) + 1 = l
      BY <2>1
    <3> QED
      BY <2>1, <3>1, <3>2
  <2>10. \A j \in 1 .. l : j \in 1 .. l - 1 \/ j = l
    BY <2>1
  <2>11. \A j \in 1 .. l - 1 : j \in 1 .. Len(merged) /\ j < l
    BY <2>1 DEF l
  <2>12. Ascending(new)
    <3>1. ASSUME NEW i1 \in 1 .. l, NEW j \in 1 .. l, i1 < j PROVE new[i1].start < new[j].start
      <4>1. i1 \in 1 .. l - 1
        BY <2>1, <3>1
      <4>2. new[i1] = merged[i1] /\ i1 \in 1 .. Len(merged)
        BY <2>9, <2>11, <4>1
      <4>3. CASE j \in 1 .. l - 1
        BY <1>2, <2>9, <2>11, <3>1, <4>2, <4>3 DEF Ascending
      <4>4. CASE j = l
        <5>1. l \in 1 .. Len(merged)
          BY <2>2 DEF l
        <5>2. merged[i1].start < merged[l].start
          BY <1>2, <3>1, <4>2, <4>4, <5>1 DEF Ascending
        <5> QED
          BY <2>7, <2>9, <4>2, <4>4, <5>2 DEF top
      <4> QED
        BY <2>10, <4>3, <4>4
    <3> QED
      BY <2>9, <3>1 DEF Ascending
  <2>13. ASSUME NEW i1 \in 1 .. l PROVE k + 1 # 0 /\ new[i1].end <= raw[k + 1].end
    <3>1. CASE i1 \in 1 .. l - 1
      <4>1. i1 \in 1 .. Len(merged) /\ new[i1] = merged[i1]
        BY <2>9, <2>11, <3>1
      <4>2. merged[i1].end \in Nat /\ merged[i1].end < p.start
        BY <1>5, <4>1
      <4> QED
        BY <1>6, <4>1, <4>2 DEF p
    <3>2. CASE i1 = l
      <4>1. new[i1].end = p.end
        BY <2>7, <2>9, <3>2
      <4> QED
        BY <1>6, <4>1 DEF p
    <3> QED
      BY <2>10, <3>1, <3>2
  <2> QED
    BY <2>9, <2>12, <2>13 DEF MergedOK, S, new, p
<1> QED
  BY <1>8, <1>9

\* Merged pivots are made of raw ones, in order.
LEMMA MergeOK ==
  ASSUME NEW raw, NEW n \in Nat, RawOK(raw, n)
  PROVE  MergeAdjacentPlateaus(raw) \in Seq(PivotsOf(raw)) /\ Ascending(MergeAdjacentPlateaus(raw))
<1> DEFINE l == Len(raw)
<1>1. l \in Nat
  BY LenProperties DEF RawOK
<1>2. PICK f : /\ f[0] = << >>
               /\ MergeAdjacentPlateaus(raw) = f[l]
               /\ \A k \in 1 .. l : f[k] = MergePlateau(f[k - 1], raw[k])
  BY <1>1, MergedSteps
<1> DEFINE M == {m \in Nat : m <= l => MergedOK(f[m], raw, m)}
<1>3. 0 \in M
  <2>1. << >> \in Seq(PivotsOf(raw)) /\ Len(<< >>) = 0
    BY EmptySeq
  <2>2. MergedOK(<< >>, raw, 0)
    BY <2>1 DEF MergedOK, Ascending
  <2> QED
    BY <1>2, <2>2
<1>4. ASSUME NEW m \in M PROVE m + 1 \in M
  <2>1. SUFFICES ASSUME m + 1 <= l PROVE MergedOK(f[m + 1], raw, m + 1)
    OBVIOUS
  <2>2. m + 1 \in 1 .. l /\ MergedOK(f[m], raw, m) /\ (m + 1) - 1 = m
    BY <1>1, <2>1
  <2>3. f[m + 1] = MergePlateau(f[m], raw[m + 1])
    BY <1>2, <2>2
  <2> QED
    BY <2>2, <2>3, MergeStepOK
<1> HIDE DEF M
<1>5. M = Nat
  <2>1. M \in SUBSET Nat
    BY DEF M
  <2> QED
    BY <1>3, <1>4, <2>1, SetInduction
<1>6. MergedOK(f[l], raw, l)
  BY <1>1, <1>5 DEF M
<1> QED
  BY <1>2, <1>6 DEF MergedOK

\* What is left of the first k pivots of an ordered sequence.
CollapsedOK(left, pivots, k) ==
  /\ left \in Seq(Range(pivots))
  /\ Ascending(left)
  /\ \A i \in 1 .. Len(left) : \E j \in 1 .. k : left[i] = pivots[j]

\* An element after those of a sequence in order.
LEMMA AscendingAppend ==
  ASSUME NEW S, NEW s \in Seq(S), Ascending(s), NEW x \in S,
         \A i \in 1 .. Len(s) : s[i].start < x.start
  PROVE  Ascending(Append(s, x))
<1> DEFINE new == Append(s, x)
<1>1. Len(s) \in Nat /\ Len(new) = Len(s) + 1 /\ new[Len(s) + 1] = x /\ \A i \in 1 .. Len(s) : new[i] = s[i]
  BY AppendProperties, LenProperties
<1> HIDE DEF new
<1>2. ASSUME NEW i \in 1 .. Len(new), NEW j \in 1 .. Len(new), i < j PROVE new[i].start < new[j].start
  <2>1. i \in 1 .. Len(s)
    BY <1>1, <1>2
  <2>2. CASE j \in 1 .. Len(s)
    BY <1>1, <1>2, <2>1, <2>2 DEF Ascending
  <2>3. CASE j = Len(s) + 1
    BY <1>1, <2>1, <2>3
  <2>4. j \in 1 .. Len(s) \/ j = Len(s) + 1
    BY <1>1
  <2> QED
    BY <2>2, <2>3, <2>4
<1> QED
  BY <1>2 DEF Ascending, new

\* What comes before the end of an ascending sequence is ascending.
LEMMA AscendingFront ==
  ASSUME NEW S, NEW s \in Seq(S), s # << >>, Ascending(s)
  PROVE  Ascending(Front(s))
<1> DEFINE new == Front(s)
<1>1. Len(s) \in Nat \ {0} /\ Len(new) = Len(s) - 1 /\ \A i \in 1 .. Len(s) - 1 : new[i] = s[i]
  BY LastAndFront
<1> HIDE DEF new
<1>2. \A i \in 1 .. Len(new) : i \in 1 .. Len(s) /\ new[i] = s[i]
  BY <1>1
<1> QED
  BY <1>2 DEF Ascending, new

\* One more pivot keeps the surviving pivots pivots of the list, in order.
LEMMA SupersedeStepOK ==
  ASSUME NEW S, NEW pivots \in Seq(S), Ascending(pivots), NEW k \in Nat, k + 1 \in 1 .. Len(pivots),
         NEW left, CollapsedOK(left, pivots, k)
  PROVE  CollapsedOK(Supersede(left, pivots[k + 1]), pivots, k + 1)
<1> DEFINE p == pivots[k + 1]
           R == Range(pivots)
           new == Supersede(left, p)
<1>1. left \in Seq(R) /\ Ascending(left) /\ Len(left) \in Nat
  BY LenProperties DEF CollapsedOK
<1>2. DOMAIN pivots = 1 .. Len(pivots) /\ Len(pivots) \in Nat
  BY LenProperties
<1>3. p \in R
  BY <1>2 DEF Range
<1>4. ASSUME NEW i \in 1 .. Len(left)
      PROVE  left[i].start < p.start /\ \E j \in 1 .. k : left[i] = pivots[j]
  <2>1. PICK j \in 1 .. k : left[i] = pivots[j]
    BY DEF CollapsedOK
  <2>2. j \in 1 .. Len(pivots) /\ j < k + 1
    BY <1>2
  <2>3. pivots[j].start < pivots[k + 1].start
    BY <2>2 DEF Ascending
  <2> QED
    BY <2>1, <2>3
<1> HIDE DEF R
<1>5. /\ Append(left, p) \in Seq(R) /\ Len(Append(left, p)) = Len(left) + 1
      /\ Append(left, p)[Len(left) + 1] = p /\ \A i \in 1 .. Len(left) : Append(left, p)[i] = left[i]
  BY <1>1, <1>3, AppendProperties
<1>6. CASE new = Append(left, p)
  <2>1. Ascending(new)
    BY <1>1, <1>3, <1>4, <1>6, AscendingAppend
  <2>2. ASSUME NEW i \in 1 .. Len(new) PROVE \E j \in 1 .. k + 1 : new[i] = pivots[j]
    <3>1. i \in 1 .. Len(left) \/ i = Len(left) + 1
      BY <1>1, <1>5, <1>6
    <3>2. CASE i \in 1 .. Len(left)
      <4>1. PICK j \in 1 .. k : left[i] = pivots[j]
        BY <1>4, <3>2
      <4>2. j \in 1 .. k + 1 /\ new[i] = left[i]
        BY <1>5, <1>6, <3>2
      <4> QED
        BY <4>1, <4>2
    <3>3. CASE i = Len(left) + 1
      <4>1. k + 1 \in 1 .. k + 1 /\ new[i] = p
        BY <1>5, <1>6, <3>3
      <4> QED
        BY <4>1
    <3> QED
      BY <3>1, <3>2, <3>3
  <2> QED
    BY <1>5, <1>6, <2>1, <2>2 DEF CollapsedOK, R
<1>7. CASE left # << >> /\ new = Append(Front(left), p)
  <2> DEFINE front == Front(left)
  <2>1. /\ Len(left) \in Nat \ {0} /\ front \in Seq(R) /\ Len(front) = Len(left) - 1
        /\ \A i \in 1 .. Len(left) - 1 : front[i] = left[i]
    BY <1>1, <1>7, LastAndFront
  <2>2. Ascending(front)
    BY <1>1, <1>7, AscendingFront
  <2>3. new = Append(front, p)
    BY <1>7
  <2> HIDE DEF front, p, new
  <2>4. \A i \in 1 .. Len(front) : i \in 1 .. Len(left) /\ front[i] = left[i]
    BY <2>1
  <2>5. \A i \in 1 .. Len(front) : front[i].start < p.start
    BY <1>4, <2>4
  <2>6. Ascending(new)
    BY <1>3, <2>1, <2>2, <2>3, <2>5, AscendingAppend
  <2>7. /\ new \in Seq(R) /\ Len(new) = Len(front) + 1 /\ Len(front) \in Nat
        /\ new[Len(front) + 1] = p /\ \A i \in 1 .. Len(front) : new[i] = front[i]
    BY <1>3, <2>1, <2>3, AppendProperties, LenProperties
  <2>8. ASSUME NEW i \in 1 .. Len(new) PROVE \E j \in 1 .. k + 1 : new[i] = pivots[j]
    <3>1. i \in 1 .. Len(front) \/ i = Len(front) + 1
      BY <2>7
    <3>2. CASE i \in 1 .. Len(front)
      <4>1. PICK j \in 1 .. k : left[i] = pivots[j]
        BY <1>4, <2>4, <3>2
      <4>2. j \in 1 .. k + 1 /\ new[i] = left[i]
        BY <2>4, <2>7, <3>2
      <4> QED
        BY <4>1, <4>2
    <3>3. CASE i = Len(front) + 1
      <4>1. k + 1 \in 1 .. k + 1 /\ new[i] = pivots[k + 1]
        BY <2>7, <3>3 DEF p
      <4> QED
        BY <4>1
    <3> QED
      BY <3>1, <3>2, <3>3
  <2> QED
    BY <2>6, <2>7, <2>8 DEF CollapsedOK, R, new, p
<1>8. CASE new = left
  <2>1. \A i \in 1 .. Len(left) : \E j \in 1 .. k + 1 : left[i] = pivots[j]
    <3>1. \A j \in 1 .. k : j \in 1 .. k + 1
      OBVIOUS
    <3> QED
      BY <1>4, <3>1
  <2> QED
    BY <1>1, <1>8, <2>1 DEF CollapsedOK, R
<1>9. new = Append(left, p) \/ (left # << >> /\ new = Append(Front(left), p)) \/ new = left
  BY DEF Supersede
<1> QED
  BY <1>6, <1>7, <1>8, <1>9

\* The surviving pivots are pivots of the list, in order.
LEMMA SupersedeOK ==
  ASSUME NEW S, NEW pivots \in Seq(S), Ascending(pivots)
  PROVE  /\ SupersedeSameDirectionRuns(pivots) \in Seq(S)
         /\ Ascending(SupersedeSameDirectionRuns(pivots))
<1> DEFINE l == Len(pivots)
           R == Range(pivots)
<1>1. l \in Nat /\ DOMAIN pivots = 1 .. l
  BY LenProperties
<1>2. PICK f : /\ f[0] = << >>
               /\ SupersedeSameDirectionRuns(pivots) = f[l]
               /\ \A k \in 1 .. l : f[k] = Supersede(f[k - 1], pivots[k])
  BY <1>1, CollapsedSteps
<1> DEFINE M == {m \in Nat : m <= l => CollapsedOK(f[m], pivots, m)}
<1>3. 0 \in M
  <2>1. << >> \in Seq(R) /\ Len(<< >>) = 0
    BY EmptySeq
  <2>2. CollapsedOK(<< >>, pivots, 0)
    BY <2>1 DEF CollapsedOK, Ascending
  <2> QED
    BY <1>2, <2>2
<1>4. ASSUME NEW m \in M PROVE m + 1 \in M
  <2>1. SUFFICES ASSUME m + 1 <= l PROVE CollapsedOK(f[m + 1], pivots, m + 1)
    OBVIOUS
  <2>2. m + 1 \in 1 .. l /\ CollapsedOK(f[m], pivots, m) /\ (m + 1) - 1 = m /\ m \in Nat
    BY <1>1, <2>1
  <2>3. f[m + 1] = Supersede(f[m], pivots[m + 1])
    BY <1>2, <2>2
  <2> HIDE DEF M
  <2>4. CollapsedOK(Supersede(f[m], pivots[m + 1]), pivots, m + 1)
    BY <2>2, SupersedeStepOK
  <2> QED
    BY <2>3, <2>4
<1> HIDE DEF M
<1>5. M = Nat
  <2>1. M \in SUBSET Nat
    BY DEF M
  <2> QED
    BY <1>3, <1>4, <2>1, SetInduction
<1>6. CollapsedOK(f[l], pivots, l)
  BY <1>1, <1>5 DEF M
<1>7. R \subseteq S
  <2>1. \A i \in 1 .. l : pivots[i] \in S
    BY ElementOfSeq
  <2> QED
    BY <1>1, <2>1 DEF Range
<1>8. f[l] \in Seq(S)
  BY <1>6, <1>7, SeqMonotonic DEF CollapsedOK
<1> QED
  BY <1>2, <1>6, <1>8 DEF CollapsedOK

\* The pivots of single-candle pivots: in order, each made of one or two.
LEMMA PivotsOK ==
  ASSUME NEW raw, NEW n \in Nat, RawOK(raw, n)
  PROVE  /\ Pivots(raw) \in Seq(PivotsOf(raw)) /\ Ascending(Pivots(raw))
         /\ Len(Pivots(raw)) \in Nat /\ DOMAIN Pivots(raw) = 1 .. Len(Pivots(raw))
         /\ \A i \in 1 .. Len(Pivots(raw)) : IsPivotOf(raw, Pivots(raw)[i])
<1>1. Pivots(raw) \in Seq(PivotsOf(raw)) /\ Ascending(Pivots(raw))
  BY MergeOK, SupersedeOK DEF Pivots
<1>2. Len(Pivots(raw)) \in Nat /\ DOMAIN Pivots(raw) = 1 .. Len(Pivots(raw))
  BY <1>1, LenProperties
<1>3. \A i \in 1 .. Len(Pivots(raw)) : IsPivotOf(raw, Pivots(raw)[i])
  BY <1>1, ElementOfSeq, PivotsOfIs
<1> QED
  BY <1>1, <1>2, <1>3

-----------------------------------------------------------------------------
(* The swings of pivots whose confirmations are known.                     *)

IsConfirmation(x, n) == x.at = None \/ x.at \in 1 .. n

\* The swings of the first k pivots.
SwingsOf(found, pivots, confirmations, n, k) ==
  /\ found \in Seq({Swing(pivots[j], confirmations[j].at, confirmations[j].excursion) : j \in 1 .. Len(pivots)})
  /\ \A i \in 1 .. Len(found) :
       \E j \in 1 .. k : /\ confirmations[j].at \in 1 .. n
                         /\ found[i] = Swing(pivots[j], confirmations[j].at, confirmations[j].excursion)
  /\ Ascending(found)

\* One more confirmed pivot keeps the swings swings of the list, in order.
LEMMA AddSwingOK ==
  ASSUME NEW S, NEW pivots \in Seq(S), Ascending(pivots), NEW n \in Nat, NEW confirmations,
         \A j \in 1 .. Len(pivots) : IsConfirmation(confirmations[j], n),
         NEW k \in Nat, k + 1 \in 1 .. Len(pivots),
         NEW found, SwingsOf(found, pivots, confirmations, n, k)
  PROVE  SwingsOf(AddSwingOf(found, pivots[k + 1], confirmations[k + 1]), pivots, confirmations, n, k + 1)
<1> DEFINE T(j) == Swing(pivots[j], confirmations[j].at, confirmations[j].excursion)
           R == {T(j) : j \in 1 .. Len(pivots)}
           new == AddSwingOf(found, pivots[k + 1], confirmations[k + 1])
           s == T(k + 1)
<1>1. found \in Seq(R) /\ Ascending(found) /\ Len(found) \in Nat
  BY LenProperties DEF SwingsOf
<1>2. \A i \in 1 .. Len(found) : \E j \in 1 .. k : confirmations[j].at \in 1 .. n /\ found[i] = T(j)
  BY DEF SwingsOf
<1>3. Len(pivots) \in Nat
  BY LenProperties
<1>4. \A j \in 1 .. Len(pivots) : T(j).start = pivots[j].start
  BY DEF Swing
<1>5. s \in R
  OBVIOUS
<1>6. \A j \in 1 .. k : j \in 1 .. Len(pivots) /\ j < k + 1 /\ j \in 1 .. k + 1
  BY <1>3
<1>7. ASSUME NEW i \in 1 .. Len(found) PROVE found[i].start < s.start
  <2>1. PICK j \in 1 .. k : found[i] = T(j)
    BY <1>2
  <2>2. pivots[j].start < pivots[k + 1].start
    BY <1>6 DEF Ascending
  <2> HIDE DEF T
  <2> QED
    BY <1>4, <1>6, <2>1, <2>2
<1>8. CASE new = found
  <2>1. \A i \in 1 .. Len(found) : \E j \in 1 .. k + 1 : confirmations[j].at \in 1 .. n /\ found[i] = T(j)
    BY <1>2, <1>6
  <2> QED
    BY <1>1, <1>8, <2>1 DEF SwingsOf
<1>9. CASE confirmations[k + 1].at # None /\ new = Append(found, s)
  <2>1. confirmations[k + 1].at \in 1 .. n
    BY <1>9 DEF IsConfirmation
  <2> HIDE DEF R, new, T, s
  <2>2. /\ new \in Seq(R) /\ Len(new) = Len(found) + 1 /\ new[Len(found) + 1] = s
        /\ \A i \in 1 .. Len(found) : new[i] = found[i]
    BY <1>1, <1>5, <1>9, AppendProperties
  <2>3. Ascending(new)
    BY <1>1, <1>5, <1>7, <1>9, AscendingAppend
  <2>4. ASSUME NEW i \in 1 .. Len(new)
        PROVE  \E j \in 1 .. k + 1 : confirmations[j].at \in 1 .. n /\ new[i] = T(j)
    <3>1. i \in 1 .. Len(found) \/ i = Len(found) + 1
      BY <1>1, <2>2
    <3>2. CASE i \in 1 .. Len(found)
      BY <1>2, <1>6, <2>2, <3>2
    <3>3. CASE i = Len(found) + 1
      <4>1. k + 1 \in 1 .. k + 1
        OBVIOUS
      <4> QED
        BY <2>1, <2>2, <3>3, <4>1 DEF s
    <3> QED
      BY <3>1, <3>2, <3>3
  <2> QED
    BY <2>2, <2>3, <2>4 DEF SwingsOf, R, new, T
<1>10. new = found \/ (confirmations[k + 1].at # None /\ new = Append(found, s))
  BY DEF AddSwingOf
<1> QED
  BY <1>8, <1>9, <1>10

\* The alternating swings are swings of the pivots given, in order.
LEMMA AlternatingOK ==
  ASSUME NEW S, NEW pivots \in Seq(S), Ascending(pivots), NEW n \in Nat, NEW confirmations,
         \A j \in 1 .. Len(pivots) : IsConfirmation(confirmations[j], n)
  PROVE  SwingsOf(AlternatingSwings(pivots, confirmations), pivots, confirmations, n, Len(pivots))
<1> DEFINE l == Len(pivots)
<1>1. l \in Nat
  BY LenProperties
<1>2. PICK f : /\ f[0] = << >>
               /\ AlternatingSwings(pivots, confirmations) = f[l]
               /\ \A k \in 1 .. l : f[k] = AddSwingOf(f[k - 1], pivots[k], confirmations[k])
  BY <1>1, AlternatingSteps
<1> DEFINE M == {m \in Nat : m <= l => SwingsOf(f[m], pivots, confirmations, n, m)}
<1>3. 0 \in M
  <2> DEFINE R == {Swing(pivots[j], confirmations[j].at, confirmations[j].excursion) : j \in 1 .. Len(pivots)}
  <2>1. << >> \in Seq(R) /\ Len(<< >>) = 0
    BY EmptySeq
  <2>2. SwingsOf(<< >>, pivots, confirmations, n, 0)
    BY <2>1 DEF SwingsOf, Ascending
  <2> QED
    BY <1>2, <2>2
<1>4. ASSUME NEW m \in M PROVE m + 1 \in M
  <2>1. SUFFICES ASSUME m + 1 <= l PROVE SwingsOf(f[m + 1], pivots, confirmations, n, m + 1)
    OBVIOUS
  <2>2. m + 1 \in 1 .. l /\ SwingsOf(f[m], pivots, confirmations, n, m) /\ (m + 1) - 1 = m /\ m \in Nat
    BY <1>1, <2>1
  <2>3. f[m + 1] = AddSwingOf(f[m], pivots[m + 1], confirmations[m + 1])
    BY <1>2, <2>2
  <2> HIDE DEF M
  <2>4. SwingsOf(AddSwingOf(f[m], pivots[m + 1], confirmations[m + 1]), pivots, confirmations, n, m + 1)
    BY <2>2, AddSwingOK
  <2> QED
    BY <2>3, <2>4
<1> HIDE DEF M
<1>5. M = Nat
  <2>1. M \in SUBSET Nat
    BY DEF M
  <2> QED
    BY <1>3, <1>4, <2>1, SetInduction
<1>6. SwingsOf(f[l], pivots, confirmations, n, l)
  BY <1>1, <1>5 DEF M
<1> QED
  BY <1>2, <1>6

\* The extreme of a run of candles does not see later ones.
LEMMA ExtremeSame ==
  ASSUME NEW seq, CandlesOK(seq), NEW c, IsCandle(c), NEW type,
         NEW from \in Nat, from # 0, NEW to \in Nat, to <= Len(seq)
  PROVE  Extreme(type, Append(seq, c), from, to) = Extreme(type, seq, from, to)
<1> DEFINE more == Append(seq, c)
<1>1. Len(seq) \in Nat /\ \A i \in 1 .. Len(seq) : more[i] = seq[i]
  BY CandlesAppend
<1>2. \A j \in from .. to : more[j] = seq[j]
  BY <1>1
<1> HIDE DEF more
<1>3. {more[j].low : j \in from .. to} = {seq[j].low : j \in from .. to}
  BY <1>2
<1>4. {more[j].high : j \in from .. to} = {seq[j].high : j \in from .. to}
  BY <1>2
<1>5. Extreme(type, more, from, to) = Extreme(type, seq, from, to)
  BY <1>3, <1>4 DEF Extreme
<1> QED
  BY <1>5 DEF more

\* The extreme of a run and one more candle.
LEMMA ExtremeNext ==
  ASSUME NEW seq, CandlesOK(seq), NEW c, IsCandle(c), NEW type,
         NEW from \in 1 .. Len(seq)
  PROVE  Extreme(type, Append(seq, c), from, Len(seq) + 1)
           = IF type = High THEN Smallest(Extreme(type, seq, from, Len(seq)), c.low)
                            ELSE Largest(Extreme(type, seq, from, Len(seq)), c.high)
<1> DEFINE n == Len(seq)
           more == Append(seq, c)
<1>1. n \in Nat /\ more[n + 1] = c /\ \A i \in 1 .. n : more[i] = seq[i]
  BY CandlesAppend
<1>2. \A j \in from .. n : j \in 1 .. n /\ more[j] = seq[j]
  BY <1>1
<1>3. \A j \in from .. n : seq[j].low \in Nat /\ seq[j].high \in Nat
  <2>1. \A j \in 1 .. n : IsCandle(seq[j])
    BY DEF CandlesOK
  <2>2. ASSUME NEW j \in from .. n PROVE seq[j].low \in Nat /\ seq[j].high \in Nat
    <3>1. IsCandle(seq[j])
      BY <1>2, <2>1
    <3> QED
      BY <3>1 DEF IsCandle
  <2> QED
    BY <2>2
<1>4. c.low \in Nat /\ c.high \in Nat
  BY DEF IsCandle
<1>5. \A j \in from .. n + 1 : j \in from .. n \/ j = n + 1
  BY <1>1
<1>6. from \in Nat /\ from <= n /\ n + 1 \in from .. n + 1 /\ \A j \in from .. n : j \in from .. n + 1
  BY <1>1
<1> DEFINE low == [j \in 1 .. n |-> seq[j].low]
           high == [j \in 1 .. n |-> seq[j].high]
           Lows == {seq[j].low : j \in from .. n}
           Highs == {seq[j].high : j \in from .. n}
           MoreLows == {more[j].low : j \in from .. n + 1}
           MoreHighs == {more[j].high : j \in from .. n + 1}
<1>7. Lows \in SUBSET Nat /\ Lows # {} /\ Highs \in SUBSET Nat /\ Highs # {}
  <2>1. seq[n].low \in Lows /\ seq[n].high \in Highs
    BY <1>1, <1>6
  <2>2. Lows \in SUBSET Nat /\ Highs \in SUBSET Nat
    BY <1>3
  <2> QED
    BY <2>1, <2>2
<1>8. MoreLows = Lows \cup {c.low}
  BY <1>1, <1>2, <1>5, <1>6
<1>9. MoreHighs = Highs \cup {c.high}
  BY <1>1, <1>2, <1>5, <1>6
<1>10. Max(Highs) \in Highs /\ \A y \in Highs : Max(Highs) >= y
  <2>1. Highs = {high[j] : j \in from .. n}
    BY <1>2
  <2>2. \A j \in from .. n : high[j] \in Nat /\ high[j] = seq[j].high
    BY <1>2, <1>3
  <2> HIDE DEF high, n
  <2>3. /\ Max({high[j] : j \in from .. n}) \in {high[j] : j \in from .. n}
        /\ \A j \in from .. n : Max({high[i] : i \in from .. n}) >= high[j]
    BY <1>1, <1>6, <2>2, GreatestOfRun
  <2> QED
    BY <2>1, <2>2, <2>3
<1>11. Min(Lows) \in Lows /\ \A y \in Lows : Min(Lows) <= y
  BY <1>7, LeastOf
<1> HIDE DEF Lows, Highs, MoreLows, MoreHighs
<1>12. Min(MoreLows) = Smallest(Min(Lows), c.low)
  <2> DEFINE s == Smallest(Min(Lows), c.low)
  <2>1. s \in MoreLows /\ \A y \in MoreLows : s <= y
    <3> DEFINE m == Min(Lows)
               x == c.low
    <3>1. m \in Lows /\ m \in Nat /\ \A y \in Lows : y \in Nat /\ m <= y
      BY <1>7, <1>11
    <3>2. x \in Nat /\ MoreLows = Lows \cup {x}
      BY <1>4, <1>8
    <3>3. s = Smallest(m, x)
      OBVIOUS
    <3> HIDE DEF m, x, s
    <3>4. CASE m <= x
      <4>1. s = m
        BY <3>3, <3>4 DEF Smallest
      <4> QED
        BY <3>1, <3>2, <3>4, <4>1
    <3>5. CASE ~ (m <= x)
      <4>1. s = x /\ x <= m
        BY <3>1, <3>2, <3>3, <3>5 DEF Smallest
      <4>2. \A y \in Lows : x <= y
        BY <3>1, <3>2, <4>1
      <4> QED
        BY <3>2, <4>1, <4>2
    <3> QED
      BY <3>4, <3>5
  <2>2. Min(MoreLows) \in MoreLows /\ \A y \in MoreLows : Min(MoreLows) <= y
    BY <2>1 DEF Min
  <2>3. MoreLows \in SUBSET Nat
    BY <1>4, <1>7, <1>8
  <2> HIDE DEF s
  <2>4. s \in Nat /\ Min(MoreLows) \in Nat /\ s <= Min(MoreLows) /\ Min(MoreLows) <= s
    BY <2>1, <2>2, <2>3
  <2> QED
    BY <2>4 DEF s
<1>13. Max(MoreHighs) = Largest(Max(Highs), c.high)
  <2> DEFINE s == Largest(Max(Highs), c.high)
  <2>1. s \in MoreHighs /\ \A y \in MoreHighs : s >= y
    <3> DEFINE m == Max(Highs)
               x == c.high
    <3>1. m \in Highs /\ m \in Nat /\ \A y \in Highs : y \in Nat /\ m >= y
      BY <1>7, <1>10
    <3>2. x \in Nat /\ MoreHighs = Highs \cup {x}
      BY <1>4, <1>9
    <3>3. s = Largest(m, x)
      OBVIOUS
    <3> HIDE DEF m, x, s
    <3>4. CASE m >= x
      <4>1. s = m
        BY <3>3, <3>4 DEF Largest
      <4> QED
        BY <3>1, <3>2, <3>4, <4>1
    <3>5. CASE ~ (m >= x)
      <4>1. s = x /\ x >= m
        BY <3>1, <3>2, <3>3, <3>5 DEF Largest
      <4>2. \A y \in Highs : x >= y
        BY <3>1, <3>2, <4>1
      <4> QED
        BY <3>2, <4>1, <4>2
    <3> QED
      BY <3>4, <3>5
  <2>2. Max(MoreHighs) \in MoreHighs /\ \A y \in MoreHighs : Max(MoreHighs) >= y
    BY <2>1 DEF Max
  <2>3. MoreHighs \in SUBSET Nat
    BY <1>4, <1>7, <1>9
  <2> HIDE DEF s
  <2>4. s \in Nat /\ Max(MoreHighs) \in Nat /\ s >= Max(MoreHighs) /\ Max(MoreHighs) >= s
    BY <2>1, <2>2, <2>3
  <2> QED
    BY <2>4 DEF s
<1>14. CASE type = High
  BY <1>12, <1>14 DEF Extreme, MoreLows, Lows
<1>15. CASE type # High
  BY <1>13, <1>15 DEF Extreme, MoreHighs, Highs
<1> QED
  BY <1>14, <1>15

\* The tracker of a pivot over one more candle: what the fold makes of it.
LEMMA CaughtUpStep ==
  ASSUME NEW seq, CandlesOK(seq), NEW c, IsCandle(c), NEW p, LocalIndex(p) \in 1 .. Len(seq)
  PROVE  CaughtUpTracker(p, Append(seq, c))
           = IF CaughtUpTracker(p, seq).confirmedAt # None
               THEN CaughtUpTracker(p, seq)
               ELSE FoldedTracker(CaughtUpTracker(p, seq), p, Append(seq, c))
<1> DEFINE n == Len(seq)
           more == Append(seq, c)
           local == LocalIndex(p)
           At(j) == Extreme(p.type, seq, local, j)
           NextExt(j) == Extreme(p.type, more, local, j)
           hits == {j \in local + 1 .. n : Reversed(p, At(j))}
           again == {j \in local + 1 .. n + 1 : Reversed(p, NextExt(j))}
<1>1. n \in Nat /\ Len(more) = n + 1 /\ more[n + 1] = c
  BY CandlesAppend
<1>2. local \in Nat /\ local # 0 /\ local <= n
  BY <1>1
<1>3. ASSUME NEW j \in local + 1 .. n PROVE NextExt(j) = At(j)
  <2>1. j \in Nat /\ j <= n
    BY <1>1, <1>2
  <2> HIDE DEF local, n
  <2> QED
    BY <1>2, <2>1, ExtremeSame DEF n
<1>4. CaughtUpTracker(p, seq) =
        IF hits = {} THEN [extreme |-> At(n), confirmedAt |-> None, excursion |-> 0]
                     ELSE [extreme |-> At(Min(hits)), confirmedAt |-> Min(hits),
                           excursion |-> Excursion(p, At(Min(hits)))]
  BY DEF CaughtUpTracker
<1>5. CaughtUpTracker(p, more) =
        IF again = {} THEN [extreme |-> NextExt(n + 1), confirmedAt |-> None, excursion |-> 0]
                      ELSE [extreme |-> NextExt(Min(again)), confirmedAt |-> Min(again),
                            excursion |-> Excursion(p, NextExt(Min(again)))]
  <2>1. CaughtUpTracker(p, more) =
          LET m == Len(more)
              found == {j \in local + 1 .. m : Reversed(p, NextExt(j))}
          IN  IF found = {} THEN [extreme |-> NextExt(m), confirmedAt |-> None, excursion |-> 0]
                            ELSE [extreme |-> NextExt(Min(found)), confirmedAt |-> Min(found),
                                  excursion |-> Excursion(p, NextExt(Min(found)))]
    BY DEF CaughtUpTracker
  <2> HIDE DEF more, n, local
  <2> QED
    BY <1>1, <2>1
<1>6. NextExt(n + 1) = IF p.type = High THEN Smallest(At(n), c.low) ELSE Largest(At(n), c.high)
  BY ExtremeNext
<1>7. FoldedTracker(CaughtUpTracker(p, seq), p, more) =
        LET extreme == IF p.type = High THEN Smallest(CaughtUpTracker(p, seq).extreme, c.low)
                                        ELSE Largest(CaughtUpTracker(p, seq).extreme, c.high)
        IN  IF Reversed(p, extreme)
              THEN [extreme |-> extreme, confirmedAt |-> n + 1, excursion |-> Excursion(p, extreme)]
              ELSE [CaughtUpTracker(p, seq) EXCEPT !.extreme = extreme]
  <2>1. Last(more) = c
    BY <1>1 DEF Last
  <2> HIDE DEF more, n
  <2> QED
    BY <1>1, <2>1 DEF FoldedTracker
<1> HIDE DEF n, more, local, At, NextExt
<1>8. hits \in SUBSET Nat /\ again \in SUBSET Nat
  BY <1>1, <1>2
<1>9. again = hits \cup (IF Reversed(p, NextExt(n + 1)) THEN {n + 1} ELSE {})
  <2>1. \A j \in local + 1 .. n + 1 : j \in local + 1 .. n \/ j = n + 1
    BY <1>1, <1>2
  <2>2. n + 1 \in local + 1 .. n + 1 /\ \A j \in local + 1 .. n : j \in local + 1 .. n + 1
    BY <1>1, <1>2
  <2>3. ASSUME NEW j PROVE j \in again <=> j \in hits \cup (IF Reversed(p, NextExt(n + 1)) THEN {n + 1} ELSE {})
    <3>1. CASE j \in local + 1 .. n
      <4>1. j # n + 1 /\ j \in local + 1 .. n + 1
        BY <1>1, <1>2, <3>1
      <4> QED
        BY <1>3, <3>1, <4>1
    <3>2. CASE j = n + 1
      <4>1. j \notin local + 1 .. n
        BY <1>1, <1>2, <3>2
      <4> QED
        BY <2>2, <3>2, <4>1
    <3>3. CASE j \notin local + 1 .. n + 1
      BY <2>2, <3>3
    <3> QED
      BY <2>1, <3>1, <3>2, <3>3
  <2> HIDE DEF again, hits
  <2> QED
    BY <2>3
<1>10. hits \subseteq local + 1 .. n
  OBVIOUS
<1>11. CASE hits # {}
  <2> HIDE DEF hits, again
  <2>1. Min(hits) \in hits /\ \A y \in hits : Min(hits) <= y
    BY <1>8, <1>11, LeastOf
  <2>2. Min(again) \in again /\ \A y \in again : Min(again) <= y
    BY <1>8, <1>9, <1>11, LeastOf
  <2>3. Min(hits) \in again /\ \A y \in again : Min(hits) <= y
    <3>1. Min(hits) \in local + 1 .. n
      BY <1>10, <2>1
    <3>2. Min(hits) <= n + 1
      BY <1>1, <1>2, <3>1
    <3> QED
      BY <1>9, <2>1, <3>2
  <2>4. Min(again) = Min(hits)
    <3>1. Min(again) \in Nat /\ Min(hits) \in Nat /\ Min(again) <= Min(hits) /\ Min(hits) <= Min(again)
      BY <1>8, <2>2, <2>3
    <3> QED
      BY <3>1
  <2>5. NextExt(Min(hits)) = At(Min(hits))
    BY <1>3, <1>10, <2>1
  <2>6. Min(hits) # None
    BY <1>8, <2>1 DEF None
  <2>7. CaughtUpTracker(p, seq).confirmedAt = Min(hits) /\ CaughtUpTracker(p, more) = CaughtUpTracker(p, seq)
    BY <1>4, <1>5, <1>11, <2>3, <2>4, <2>5
  <2> QED
    BY <2>6, <2>7 DEF more
<1>12. CASE hits = {}
  <2> DEFINE extreme == NextExt(n + 1)
  <2> HIDE DEF hits, again, extreme
  <2>1. CaughtUpTracker(p, seq) = [extreme |-> At(n), confirmedAt |-> None, excursion |-> 0]
    BY <1>4, <1>12
  <2>2. CaughtUpTracker(p, seq).confirmedAt = None /\ CaughtUpTracker(p, seq).extreme = At(n)
    BY <2>1
  <2>3. FoldedTracker(CaughtUpTracker(p, seq), p, more) =
          IF Reversed(p, extreme)
            THEN [extreme |-> extreme, confirmedAt |-> n + 1, excursion |-> Excursion(p, extreme)]
            ELSE [CaughtUpTracker(p, seq) EXCEPT !.extreme = extreme]
    BY <1>6, <1>7, <2>2 DEF extreme
  <2>4. [CaughtUpTracker(p, seq) EXCEPT !.extreme = extreme]
          = [extreme |-> extreme, confirmedAt |-> None, excursion |-> 0]
    BY <2>1
  <2>5. CASE Reversed(p, extreme)
    <3>1. again = {n + 1}
      BY <1>9, <1>12, <2>5 DEF extreme
    <3>2. Min(again) = n + 1
      <4>1. Min(again) \in again
        BY <1>8, <3>1, LeastOf
      <4> QED
        BY <3>1, <4>1
    <3>3. CaughtUpTracker(p, more)
            = [extreme |-> extreme, confirmedAt |-> n + 1, excursion |-> Excursion(p, extreme)]
      BY <1>5, <3>1, <3>2 DEF extreme
    <3> QED
      BY <2>2, <2>3, <2>5, <3>3 DEF more
  <2>6. CASE ~ Reversed(p, extreme)
    <3>1. again = {}
      BY <1>9, <1>12, <2>6 DEF extreme
    <3>2. CaughtUpTracker(p, more) = [extreme |-> extreme, confirmedAt |-> None, excursion |-> 0]
      BY <1>5, <3>1 DEF extreme
    <3> QED
      BY <2>2, <2>3, <2>4, <2>6, <3>2 DEF more
  <2> QED
    BY <2>5, <2>6
<1> QED
  BY <1>11, <1>12

\* What a tracker that has caught up has found is the confirmation.
LEMMA CaughtUpFound ==
  ASSUME NEW p, NEW seq
  PROVE  [at |-> CaughtUpTracker(p, seq).confirmedAt, excursion |-> CaughtUpTracker(p, seq).excursion]
           = Confirmation(p, seq)
  BY DEF CaughtUpTracker, Confirmation

\* A confirmation is at one of the candles.
LEMMA ConfirmationAt ==
  ASSUME NEW p, NEW seq, CandlesOK(seq), LocalIndex(p) \in Nat
  PROVE  IsConfirmation(Confirmation(p, seq), Len(seq))
<1> DEFINE local == LocalIndex(p)
           hits == {j \in local + 1 .. Len(seq) : Reversed(p, Extreme(p.type, seq, local, j))}
<1>1. Len(seq) \in Nat
  BY LenProperties DEF CandlesOK
<1>2. hits \in SUBSET Nat /\ hits \subseteq 1 .. Len(seq)
  BY <1>1
<1>3. Confirmation(p, seq).at = IF hits = {} THEN None ELSE Min(hits)
  BY DEF Confirmation
<1> HIDE DEF hits
<1>4. hits # {} => Min(hits) \in hits
  BY <1>2, LeastOf
<1> QED
  BY <1>2, <1>3, <1>4 DEF IsConfirmation

\* Each pivot has a tracker, where a search of the candles so far would be.
TrackersOK(trackers_, raw, seq) ==
  /\ DOMAIN trackers_ = {PivotKey(p) : p \in Range(Pivots(raw))}
  /\ \A p \in Range(Pivots(raw)) : trackers_[PivotKey(p)] = CaughtUpTracker(p, seq)

\* Every pivot is live: its local candle is there.
LEMMA PivotsLive ==
  ASSUME NEW raw, NEW n \in Nat, RawOK(raw, n)
  PROVE  /\ LivePivots(Pivots(raw), n) = Range(Pivots(raw))
         /\ \A p \in Range(Pivots(raw)) : IsPivotOf(raw, p) /\ LocalIndex(p) \in 1 .. n
<1>1. ASSUME NEW p \in Range(Pivots(raw)) PROVE IsPivotOf(raw, p) /\ LocalIndex(p) \in 1 .. n
  <2>1. PICK i \in 1 .. Len(Pivots(raw)) : p = Pivots(raw)[i]
    BY PivotsOK DEF Range
  <2>2. IsPivotOf(raw, p)
    BY <2>1, PivotsOK
  <2>3. p.end \in Nat /\ p.end + WindowRadius <= n
    BY <2>2, PivotOfShape
  <2> QED
    BY <2>2, <2>3 DEF LocalIndex, WindowRadius
<1>2. \A p \in Range(Pivots(raw)) : LocalIndex(p) <= n
  BY <1>1
<1> QED
  BY <1>1, <1>2 DEF LivePivots

\* After a candle the trackers hold the confirmation of every pivot.
LEMMA TrackersStep ==
  ASSUME NEW seq, CandlesOK(seq), NEW c, IsCandle(c),
         NEW raw, RawOK(raw, Len(seq)), NEW new, RawOK(new, Len(seq) + 1),
         new = raw \/ \E x \in Pivot : new = Append(raw, x),
         NEW trackers_, TrackersOK(trackers_, raw, seq)
  PROVE  TrackersOK(UpdateTrackers(trackers_, Pivots(new), Append(seq, c)), new, Append(seq, c))
<1> DEFINE n == Len(seq)
           more == Append(seq, c)
           live == Range(Pivots(new))
           Stepped(p) == IF PivotKey(p) \notin DOMAIN trackers_
                        THEN CaughtUpTracker(p, more)
                        ELSE IF trackers_[PivotKey(p)].confirmedAt # None
                               THEN trackers_[PivotKey(p)]
                               ELSE FoldedTracker(trackers_[PivotKey(p)], p, more)
           after == UpdateTrackers(trackers_, Pivots(new), more)
<1>1. n \in Nat /\ n + 1 \in Nat /\ Len(more) = n + 1
  BY CandlesAppend
<1>2. LivePivots(Pivots(new), Len(more)) = live
  BY <1>1, PivotsLive
<1>3. after = [key \in {PivotKey(p) : p \in live} |-> Stepped(CHOOSE p \in live : PivotKey(p) = key)]
  BY <1>2 DEF UpdateTrackers
<1>4. \A p \in live : IsPivotOf(new, p) /\ LocalIndex(p) \in 1 .. n + 1
  BY <1>1, PivotsLive
<1>5. \A p \in Range(Pivots(raw)) : IsPivotOf(new, p) /\ LocalIndex(p) \in 1 .. n
  <2>1. \A p \in Range(Pivots(raw)) : IsPivotOf(raw, p) /\ LocalIndex(p) \in 1 .. n
    BY <1>1, PivotsLive
  <2>2. raw \in Seq(Pivot)
    BY DEF RawOK
  <2>3. ASSUME NEW p \in Range(Pivots(raw)) PROVE IsPivotOf(new, p)
    <3>1. CASE new = raw
      BY <2>1, <3>1
    <3>2. CASE new # raw
      <4>1. PICK x \in Pivot : new = Append(raw, x)
        BY <3>2
      <4>2. IsPivotOf(Append(raw, x), p)
        BY <2>1, <2>2, PivotsOfGrow
      <4> QED
        BY <4>1, <4>2
    <3> QED
      BY <3>1, <3>2
  <2> QED
    BY <2>1, <2>3
<1>6. ASSUME NEW p \in live PROVE Stepped(p) = CaughtUpTracker(p, more)
  <2>1. SUFFICES ASSUME PivotKey(p) \in DOMAIN trackers_ PROVE Stepped(p) = CaughtUpTracker(p, more)
    OBVIOUS
  <2>2. PICK q \in Range(Pivots(raw)) : PivotKey(p) = PivotKey(q)
    BY <2>1 DEF TrackersOK
  <2>3. p = q
    BY <1>1, <1>4, <1>5, <2>2, KeyDetermines
  <2>4. trackers_[PivotKey(p)] = CaughtUpTracker(p, seq) /\ LocalIndex(p) \in 1 .. n
    BY <1>5, <2>2, <2>3 DEF TrackersOK
  <2>5. CaughtUpTracker(p, more)
           = IF CaughtUpTracker(p, seq).confirmedAt # None
               THEN CaughtUpTracker(p, seq)
               ELSE FoldedTracker(CaughtUpTracker(p, seq), p, more)
    BY <2>4, CaughtUpStep
  <2> QED
    BY <2>1, <2>4, <2>5
<1> HIDE DEF Stepped, live, more, after
<1>7. ASSUME NEW p \in live PROVE after[PivotKey(p)] = CaughtUpTracker(p, more)
  <2>1. PivotKey(p) \in {PivotKey(q) : q \in live}
    OBVIOUS
  <2> DEFINE r == CHOOSE q \in live : PivotKey(q) = PivotKey(p)
  <2>2. r \in live /\ PivotKey(r) = PivotKey(p)
    OBVIOUS
  <2>3. after[PivotKey(p)] = Stepped(r)
    BY <1>3, <2>1
  <2> HIDE DEF r
  <2>4. r = p
    BY <1>1, <1>4, <2>2, KeyDetermines
  <2> QED
    BY <1>6, <2>3, <2>4
<1>8. DOMAIN after = {PivotKey(p) : p \in live}
  BY <1>3
<1> QED
  BY <1>7, <1>8 DEF TrackersOK, live, after, more

\* The swings derived from the trackers are those of the batch.
LEMMA SwingsAreBatch ==
  ASSUME NEW seq, CandlesOK(seq), NEW raw, RawOK(raw, Len(seq)),
         NEW f, AtrsOK(f, seq), raw = SinglePivots(seq, f),
         NEW trackers_, TrackersOK(trackers_, raw, seq)
  PROVE  DeriveConfirmedSwings(Pivots(raw), trackers_) = DetectConfirmedSwings(seq)
<1> DEFINE n == Len(seq)
           pivots == Pivots(raw)
<1>1. n \in Nat
  BY LenProperties DEF CandlesOK
<1>2. pivots = Pivots(SinglePivots(seq, AtrSeries(seq)))
  BY AtrsAreBatch
<1>3. DOMAIN pivots = 1 .. Len(pivots) /\ Len(pivots) \in Nat
  BY <1>1, PivotsOK
<1>4. ASSUME NEW k \in DOMAIN pivots PROVE Found(pivots[k], trackers_) = Confirmation(pivots[k], seq)
  <2>1. pivots[k] \in Range(pivots)
    BY DEF Range
  <2>2. PivotKey(pivots[k]) \in DOMAIN trackers_ /\ trackers_[PivotKey(pivots[k])] = CaughtUpTracker(pivots[k], seq)
    BY <2>1 DEF TrackersOK
  <2> HIDE DEF pivots
  <2> QED
    BY <2>2, CaughtUpFound DEF Found
<1>5. [k \in DOMAIN pivots |-> Found(pivots[k], trackers_)] = [k \in DOMAIN pivots |-> Confirmation(pivots[k], seq)]
  BY <1>4
<1>6. CASE ~ (n < 2 * WindowRadius + 1)
  <2> HIDE DEF n, pivots
  <2>1. DeriveConfirmedSwings(pivots, trackers_)
          = AlternatingSwings(pivots, [k \in DOMAIN pivots |-> Confirmation(pivots[k], seq)])
    BY <1>5 DEF DeriveConfirmedSwings
  <2>2. DetectConfirmedSwings(seq)
          = AlternatingSwings(pivots, [k \in DOMAIN pivots |-> Confirmation(pivots[k], seq)])
    BY <1>2, <1>6 DEF DetectConfirmedSwings, n
  <2> QED
    BY <2>1, <2>2 DEF pivots
<1>7. CASE n < 2 * WindowRadius + 1
  <2>1. Len(pivots) = 0
    <3>1. SUFFICES ASSUME Len(pivots) # 0 PROVE FALSE
      OBVIOUS
    <3>2. IsPivotOf(raw, pivots[1])
      <4>1. 1 \in 1 .. Len(pivots)
        BY <1>3, <3>1
      <4> QED
        BY <1>1, <4>1, PivotsOK
    <3>3. /\ pivots[1].start \in Nat /\ pivots[1].end \in Nat /\ pivots[1].start <= pivots[1].end
          /\ pivots[1].start > WindowRadius /\ pivots[1].end + WindowRadius <= n
      BY <1>1, <3>2, PivotOfShape
    <3> HIDE DEF n, pivots
    <3> QED
      BY <1>1, <1>7, <3>3 DEF WindowRadius
  <2> DEFINE found == [k \in DOMAIN pivots |-> Found(pivots[k], trackers_)]
  <2>2. AlternatingSwings(pivots, found) = << >>
    <3> HIDE DEF pivots, found
    <3> QED
      BY <2>1, AlternatingSteps
  <2>3. DetectConfirmedSwings(seq) = << >>
    BY <1>7 DEF DetectConfirmedSwings
  <2> QED
    BY <2>2, <2>3 DEF DeriveConfirmedSwings
<1> QED
  BY <1>6, <1>7

-----------------------------------------------------------------------------
(* Displacements.                                                          *)

DisplacementAt(seq, i) ==
  LET before == [k \in 1 .. Config.contextWindow |-> TotalRange(seq[i + k - 1])]
      c      == seq[i + Config.contextWindow]
  IN  [candle |-> c,
       direction |-> IF c.close >= c.open THEN "BULLISH" ELSE "BEARISH",
       classification |-> Classify(TotalRange(c), Median(before))]

\* An observation by its window of candles alone.
LEMMA DisplacementSame ==
  ASSUME NEW s, NEW t, NEW i, NEW j,
         \A k \in 1 .. Config.contextWindow : s[i + k - 1] = t[j + k - 1],
         s[i + Config.contextWindow] = t[j + Config.contextWindow]
  PROVE  DisplacementAt(s, i) = DisplacementAt(t, j)
<1>1. [k \in 1 .. Config.contextWindow |-> TotalRange(s[i + k - 1])]
        = [k \in 1 .. Config.contextWindow |-> TotalRange(t[j + k - 1])]
  OBVIOUS
<1> QED
  BY <1>1 DEF DisplacementAt

\* The batch displacements, one definition opened.
LEMMA DisplacementsAre ==
  ASSUME NEW seq
  PROVE  DetectDisplacements(seq)
           = [i \in 1 .. Largest(0, Len(seq) - Config.contextWindow) |-> DisplacementAt(seq, i)]
  BY DEF DetectDisplacements, DisplacementAt

\* Appending the displacement the newest candle completes gives the batch list.
LEMMA DisplacementsStep ==
  ASSUME NEW seq, CandlesOK(seq), NEW c, IsCandle(c)
  PROVE  AppendDisplacement(DetectDisplacements(seq), Append(seq, c)) = DetectDisplacements(Append(seq, c))
<1> DEFINE n == Len(seq)
           W == Config.contextWindow
           more == Append(seq, c)
           first == n + 1 - W
           old == DetectDisplacements(seq)
           new == DetectDisplacements(more)
           window == SubSeq(more, first, n + 1)
           last == DetectDisplacements(window)
<1>1. CandlesOK(more) /\ n \in Nat /\ Len(more) = n + 1 /\ more[n + 1] = c /\ \A i \in 1 .. n : more[i] = seq[i]
  BY CandlesAppend
<1>2. W \in Nat \ {0}
  BY DisplacementConfig
<1>3. old = [i \in 1 .. Largest(0, n - W) |-> DisplacementAt(seq, i)]
  BY DisplacementsAre
<1>4. new = [i \in 1 .. Largest(0, Len(more) - W) |-> DisplacementAt(more, i)]
  BY DisplacementsAre
<1>5. last = [i \in 1 .. Largest(0, Len(window) - W) |-> DisplacementAt(window, i)]
  BY DisplacementsAre
<1>6. AppendDisplacement(old, more) = IF Len(more) - W > 0 THEN old \o DetectDisplacements(SubSeq(more, Len(more) - W, Len(more))) ELSE old
  BY DEF AppendDisplacement
<1> HIDE DEF n, W, more, old, new, window, last
<1>7. Len(more) - W = first
  BY <1>1, <1>2
<1>8. AppendDisplacement(old, more) = IF first > 0 THEN old \o last ELSE old
  <2>1. DetectDisplacements(SubSeq(more, Len(more) - W, Len(more))) = last
    BY <1>1, <1>7 DEF last, window
  <2> HIDE DEF first
  <2> QED
    BY <1>6, <1>7, <2>1
<1>9. first \in Int
  BY <1>1, <1>2
<1> HIDE DEF first
<1>10. CASE ~ (first > 0)
  <2>1. Largest(0, n - W) = 0 /\ Largest(0, Len(more) - W) = 0
    BY <1>1, <1>2, <1>7, <1>10 DEF Largest, first
  <2>2. old = [i \in 1 .. 0 |-> DisplacementAt(seq, i)] /\ new = [i \in 1 .. 0 |-> DisplacementAt(more, i)]
    BY <1>3, <1>4, <2>1
  <2>3. old = new
    BY <2>2
  <2> QED
    BY <1>8, <1>10, <2>3 DEF more, old, new
<1>11. CASE first > 0
  <2>1. first \in Nat \ {0} /\ Largest(0, n - W) = first - 1 /\ Largest(0, Len(more) - W) = first
    BY <1>1, <1>2, <1>7, <1>9, <1>11 DEF Largest, first
  <2>2. first + W = n + 1
    BY <1>1, <1>2 DEF first
  <2>3. /\ Len(window) = W + 1
        /\ \A i \in 1 .. W + 1 : window[i] = more[first + i - 1]
    <3>1. \A i \in first .. n + 1 : more[i] \in Range(more)
      <4>1. \A i \in first .. n + 1 : i \in 1 .. Len(more)
        BY <1>1, <2>1
      <4> QED
        BY <1>1, <4>1, ElementOfSeq DEF CandlesOK
    <3>2. first <= n + 1 /\ n + 1 - first + 1 = W + 1
      BY <1>1, <1>2, <2>1, <2>2
    <3>3. /\ Len(window) = (IF first <= n + 1 THEN n + 1 - first + 1 ELSE 0)
          /\ \A i \in 1 .. n + 1 - first + 1 : window[i] = more[first + i - 1]
      BY <1>1, <1>9, <3>1, SubSeqProperties DEF window
    <3> QED
      BY <3>2, <3>3
  <2>4. last = [i \in 1 .. 1 |-> DisplacementAt(window, i)]
    <3>1. Largest(0, Len(window) - W) = 1
      BY <1>2, <2>3 DEF Largest
    <3> QED
      BY <1>5, <3>1
  <2>5. DisplacementAt(window, 1) = DisplacementAt(more, first)
    <3>1. \A k \in 1 .. W : 1 + k - 1 = k /\ k \in 1 .. W + 1
      BY <1>2
    <3>2. \A k \in 1 .. W : window[1 + k - 1] = more[first + k - 1]
      BY <2>3, <3>1
    <3>3. 1 + W \in 1 .. W + 1 /\ first + (1 + W) - 1 = first + W
      BY <1>2, <2>1
    <3>4. window[1 + W] = more[first + W]
      BY <2>3, <3>3
    <3> QED
      BY <3>2, <3>4, DisplacementSame DEF W
  <2>6. \A i \in 1 .. first - 1 : DisplacementAt(seq, i) = DisplacementAt(more, i)
    <3>1. ASSUME NEW i \in 1 .. first - 1 PROVE DisplacementAt(seq, i) = DisplacementAt(more, i)
      <4>1. \A k \in 1 .. W : i + k - 1 \in 1 .. n
        BY <1>1, <1>2, <2>1, <2>2
      <4>2. i + W \in 1 .. n
        BY <1>1, <1>2, <2>1, <2>2
      <4> QED
        BY <1>1, <4>1, <4>2, DisplacementSame DEF W
    <3> QED
      BY <3>1
  <2> DEFINE S == {DisplacementAt(more, i) : i \in 1 .. first}
  <2>7. old = [i \in 1 .. first - 1 |-> DisplacementAt(seq, i)]
    BY <1>3, <2>1
  <2>8. new = [i \in 1 .. first |-> DisplacementAt(more, i)]
    BY <1>4, <2>1
  <2>9. old \in [1 .. first - 1 -> S]
    <3>1. \A i \in 1 .. first - 1 : i \in 1 .. first
      BY <2>1
    <3>2. \A i \in 1 .. first - 1 : DisplacementAt(seq, i) \in S
      BY <2>6, <3>1
    <3> HIDE DEF S
    <3> QED
      BY <2>7, <3>2
  <2>10. new \in [1 .. first -> S]
    BY <2>8
  <2>11. last \in [1 .. 1 -> S]
    <3>1. first \in 1 .. first
      BY <2>1
    <3>2. DisplacementAt(window, 1) \in S
      BY <2>5, <3>1
    <3>3. \A i \in 1 .. 1 : i = 1
      OBVIOUS
    <3> HIDE DEF S
    <3> QED
      BY <2>4, <3>2, <3>3
  <2> HIDE DEF S
  <2>12. first - 1 \in Nat /\ first \in Nat /\ 1 \in Nat
    BY <2>1
  <2>13. /\ old \in Seq(S) /\ Len(old) = first - 1
         /\ last \in Seq(S) /\ Len(last) = 1
         /\ new \in Seq(S) /\ Len(new) = first
    <3> DEFINE m == first - 1
    <3>1. m \in Nat /\ old \in [1 .. m -> S]
      BY <2>9, <2>12
    <3> HIDE DEF m
    <3>2. old \in Seq(S) /\ Len(old) = m
      BY <3>1
    <3> DEFINE one == 1
    <3>3. last \in Seq(S) /\ Len(last) = 1
      <4>1. one \in Nat /\ last \in [1 .. one -> S]
        BY <2>11
      <4> HIDE DEF one
      <4>2. last \in Seq(S) /\ Len(last) = one
        BY <4>1
      <4> QED
        BY <4>2 DEF one
    <3>4. new \in Seq(S) /\ Len(new) = first
      BY <2>10, <2>12
    <3> QED
      BY <3>2, <3>3, <3>4 DEF m
  <2>14. /\ old \o last \in Seq(S) /\ Len(old \o last) = Len(old) + Len(last)
         /\ \A i \in 1 .. Len(old) + Len(last) :
              (old \o last)[i] = IF i <= Len(old) THEN old[i] ELSE last[i - Len(old)]
    BY <2>13, ConcatProperties
  <2>15. Len(old) + Len(last) = first
    BY <2>1, <2>13
  <2>16. ASSUME NEW i \in 1 .. first PROVE (old \o last)[i] = new[i]
    <3>1. new[i] = DisplacementAt(more, i)
      BY <2>8
    <3>2. CASE i <= first - 1
      <4>1. i \in 1 .. first - 1
        BY <2>1, <3>2
      <4>2. old[i] = DisplacementAt(more, i)
        BY <2>6, <2>7, <4>1
      <4>3. i \in 1 .. Len(old) + Len(last) /\ i <= Len(old)
        BY <2>13, <2>15, <3>2
      <4>4. (old \o last)[i] = old[i]
        BY <2>14, <4>3
      <4> QED
        BY <3>1, <4>2, <4>4
    <3>3. CASE i = first
      <4>1. ~ (i <= Len(old)) /\ i - Len(old) = 1
        BY <2>1, <2>13, <3>3
      <4>2. last[1] = DisplacementAt(more, first)
        BY <2>4, <2>5
      <4>3. i \in 1 .. Len(old) + Len(last)
        BY <2>15
      <4>4. (old \o last)[i] = last[i - Len(old)]
        BY <2>14, <4>1, <4>3
      <4>5. last[i - Len(old)] = last[1] /\ DisplacementAt(more, i) = DisplacementAt(more, first)
        BY <3>3, <4>1
      <4>6. (old \o last)[i] = DisplacementAt(more, first) /\ new[i] = DisplacementAt(more, first)
        BY <3>1, <4>2, <4>4, <4>5
      <4> QED
        BY <4>6
    <3>4. i <= first - 1 \/ i = first
      BY <2>1
    <3> QED
      BY <3>2, <3>3, <3>4
  <2>17. old \o last = new
    BY <2>13, <2>14, <2>15, <2>16, SeqEqual
  <2> QED
    BY <1>8, <1>11, <2>17 DEF more, old, new
<1> QED
  BY <1>10, <1>11

\* An empty chart has no displacement.
LEMMA NoDisplacements == DetectDisplacements(<< >>) = << >>
<1>1. Len(<< >>) = 0 /\ Config.contextWindow \in Nat \ {0}
  BY EmptySeq, DisplacementConfig
<1>2. Largest(0, Len(<< >>) - Config.contextWindow) = 0
  BY <1>1 DEF Largest
<1>3. DetectDisplacements(<< >>) = [i \in 1 .. 0 |-> DisplacementAt(<< >>, i)]
  BY <1>2, DisplacementsAre
<1> QED
  BY <1>3

\* Events the order compares.
EventsShape(S) ==
  IsFiniteSet(S) /\ \A e \in S : e.at \in Nat /\ e.kind \in 0 .. 2 /\ Tie(e) \in Nat

\* Events of which no two tie.
NoTies(S) ==
  \A e, f \in S : e.at = f.at /\ e.kind = f.kind /\ Tie(e) = Tie(f) => e = f

RankOf(S, e) == Cardinality({f \in S : EventBefore(f, e)})

\* The ordered sequence, one definition opened.
LEMMA InOrderIs ==
  ASSUME NEW S
  PROVE  InOrder(S) = [k \in 1 .. Cardinality(S) |-> CHOOSE e \in {f \in S : RankOf(S, f) = k - 1} : TRUE]
<1> DEFINE before == [e \in S |-> Cardinality({f \in S : EventBefore(f, e)})]
<1>1. \A f \in S : before[f] = RankOf(S, f)
  BY DEF RankOf
<1>2. InOrder(S) = [k \in 1 .. Cardinality(S) |-> CHOOSE e \in {f \in S : before[f] = k - 1} : TRUE]
  BY DEF InOrder
<1> HIDE DEF before
<1>3. ASSUME NEW k \in 1 .. Cardinality(S) PROVE {f \in S : before[f] = k - 1} = {f \in S : RankOf(S, f) = k - 1}
  BY <1>1
<1>4. [k \in 1 .. Cardinality(S) |-> CHOOSE e \in {f \in S : before[f] = k - 1} : TRUE]
        = [k \in 1 .. Cardinality(S) |-> CHOOSE e \in {f \in S : RankOf(S, f) = k - 1} : TRUE]
  <2>1. ASSUME NEW k \in 1 .. Cardinality(S)
        PROVE  (CHOOSE e \in {f \in S : before[f] = k - 1} : TRUE) = (CHOOSE e \in {f \in S : RankOf(S, f) = k - 1} : TRUE)
    <3> DEFINE A == {f \in S : before[f] = k - 1}
               B == {f \in S : RankOf(S, f) = k - 1}
    <3>1. A = B
      BY <1>3
    <3> HIDE DEF A, B
    <3>2. (CHOOSE e \in A : TRUE) = (CHOOSE e \in B : TRUE)
      BY <3>1
    <3> QED
      BY <3>2 DEF A, B
  <2> QED
    BY <2>1
<1> QED
  BY <1>2, <1>4

\* EventBefore is a strict order, total where no two events tie.
LEMMA EventBeforeOrder ==
  ASSUME NEW S, EventsShape(S)
  PROVE  /\ \A e \in S : ~ EventBefore(e, e)
         /\ \A e, f, g \in S : EventBefore(e, f) /\ EventBefore(f, g) => EventBefore(e, g)
         /\ NoTies(S) => \A e, f \in S : e = f \/ EventBefore(e, f) \/ EventBefore(f, e)
<1>1. \A e \in S : e.at \in Nat /\ e.kind \in Nat /\ Tie(e) \in Nat
  <2>1. \A k \in 0 .. 2 : k \in Nat
    OBVIOUS
  <2> QED
    BY <2>1 DEF EventsShape
<1>2. \A e \in S : ~ EventBefore(e, e)
  BY <1>1 DEF EventBefore
<1>3. ASSUME NEW e \in S, NEW f \in S, NEW g \in S, EventBefore(e, f), EventBefore(f, g)
      PROVE  EventBefore(e, g)
  BY <1>1, <1>3 DEF EventBefore
<1>4. ASSUME NoTies(S), NEW e \in S, NEW f \in S PROVE e = f \/ EventBefore(e, f) \/ EventBefore(f, e)
  <2>1. CASE e.at = f.at /\ e.kind = f.kind /\ Tie(e) = Tie(f)
    BY <1>4, <2>1 DEF NoTies
  <2>2. CASE ~ (e.at = f.at /\ e.kind = f.kind /\ Tie(e) = Tie(f))
    BY <1>1, <2>2 DEF EventBefore
  <2> QED
    BY <2>1, <2>2
<1> QED
  BY <1>2, <1>3, <1>4

\* An event has fewer before it than there are.
LEMMA RankBound ==
  ASSUME NEW S, EventsShape(S), NEW e \in S
  PROVE  Cardinality(S) \in Nat /\ RankOf(S, e) \in 0 .. Cardinality(S) - 1
<1> DEFINE B == {f \in S : EventBefore(f, e)}
<1>1. IsFiniteSet(S) /\ Cardinality(S) \in Nat
  BY FS_CardinalityType DEF EventsShape
<1>2. B \in SUBSET S /\ e \notin B
  BY EventBeforeOrder
<1> HIDE DEF B
<1>3. IsFiniteSet(B) /\ Cardinality(B) <= Cardinality(S) /\ (Cardinality(S) = Cardinality(B) => S = B)
  BY <1>1, <1>2, FS_Subset
<1>4. Cardinality(B) \in Nat
  BY <1>3, FS_CardinalityType
<1>5. Cardinality(B) # Cardinality(S)
  BY <1>2, <1>3
<1>6. RankOf(S, e) = Cardinality(B)
  BY DEF RankOf, B
<1> QED
  BY <1>1, <1>3, <1>4, <1>5, <1>6

\* Events after all others do not move them.
LEMMA SortedExtends ==
  ASSUME NEW S, EventsShape(S), NEW T, EventsShape(T), S \subseteq T, NEW n \in Nat,
         \A e \in S : e.at < n, \A e \in T \ S : e.at >= n
  PROVE  /\ Cardinality(S) \in Nat /\ Cardinality(T) \in Nat /\ Cardinality(S) <= Cardinality(T)
         /\ \A e \in S : RankOf(T, e) = RankOf(S, e)
         /\ \A e \in T \ S : RankOf(T, e) >= Cardinality(S)
         /\ \A k \in 1 .. Cardinality(S) : InOrder(T)[k] = InOrder(S)[k]
<1> DEFINE s == Cardinality(S)
           t == Cardinality(T)
<1>1. IsFiniteSet(S) /\ IsFiniteSet(T) /\ s \in Nat /\ t \in Nat /\ s <= t
  BY FS_CardinalityType, FS_Subset DEF EventsShape
<1>2. \A e \in T : e.at \in Nat
  BY DEF EventsShape
<1>3. ASSUME NEW e \in S PROVE RankOf(T, e) = RankOf(S, e)
  <2>1. ASSUME NEW f \in T \ S PROVE ~ EventBefore(f, e)
    <3>1. f.at >= n /\ e.at < n /\ f.at \in Nat /\ e.at \in Nat
      BY <1>2
    <3> QED
      BY <3>1 DEF EventBefore
  <2>2. {f \in T : EventBefore(f, e)} = {f \in S : EventBefore(f, e)}
    BY <2>1
  <2> QED
    BY <2>2 DEF RankOf
<1>4. ASSUME NEW e \in T \ S PROVE RankOf(T, e) \in Nat /\ RankOf(T, e) >= s
  <2> DEFINE B == {f \in T : EventBefore(f, e)}
  <2>1. ASSUME NEW f \in S PROVE EventBefore(f, e)
    <3>1. e.at >= n /\ f.at < n /\ f.at \in Nat /\ e.at \in Nat
      BY <1>2
    <3> QED
      BY <3>1 DEF EventBefore
  <2>2. S \in SUBSET B /\ B \in SUBSET T
    BY <2>1
  <2> HIDE DEF B
  <2>3. IsFiniteSet(B)
    BY <1>1, <2>2, FS_Subset
  <2>4. Cardinality(B) \in Nat /\ s <= Cardinality(B)
    BY <2>2, <2>3, FS_Subset, FS_CardinalityType
  <2> QED
    BY <1>1, <2>4 DEF RankOf, B
<1>5. ASSUME NEW k \in 1 .. s PROVE InOrder(T)[k] = InOrder(S)[k]
  <2> DEFINE A == {f \in S : RankOf(S, f) = k - 1}
             B == {f \in T : RankOf(T, f) = k - 1}
  <2>1. A = B
    <3>1. ASSUME NEW f \in T \ S PROVE RankOf(T, f) # k - 1
      <4>1. RankOf(T, f) \in Nat /\ RankOf(T, f) >= s
        BY <1>4
      <4> HIDE DEF s
      <4> QED
        BY <1>1, <4>1
    <3> QED
      BY <1>3, <3>1
  <2>2. k \in 1 .. t
    BY <1>1
  <2>3. InOrder(S)[k] = CHOOSE e \in A : TRUE
    BY InOrderIs
  <2>4. InOrder(T)[k] = CHOOSE e \in B : TRUE
    BY <2>2, InOrderIs
  <2> HIDE DEF A, B
  <2> QED
    BY <2>1, <2>3, <2>4
<1> QED
  BY <1>1, <1>3, <1>4, <1>5

\* One event more, after all others.
AddsLast(S, T, e) == T = S \cup {e} /\ e \notin S /\ \A f \in S : f.at < e.at

\* One event after all others is the last.
LEMMA SortedAppend ==
  ASSUME NEW S, EventsShape(S), NEW T, EventsShape(T), NEW e, AddsLast(S, T, e)
  PROVE  /\ Cardinality(S) \in Nat /\ Cardinality(T) = Cardinality(S) + 1
         /\ InOrder(T)[Cardinality(S) + 1] = e
         /\ \A k \in 1 .. Cardinality(S) : InOrder(T)[k] = InOrder(S)[k]
<1> DEFINE s == Cardinality(S)
<1>0. T = S \cup {e} /\ e \notin S /\ \A f \in S : f.at < e.at
  BY DEF AddsLast
<1>1. IsFiniteSet(S) /\ s \in Nat /\ Cardinality(T) = s + 1
  BY <1>0, FS_CardinalityType, FS_AddElement DEF EventsShape
<1>2. T \ S = {e} /\ S \subseteq T
  BY <1>0
<1>3. /\ \A f \in S : RankOf(T, f) = RankOf(S, f)
      /\ RankOf(T, e) >= s
      /\ \A k \in 1 .. s : InOrder(T)[k] = InOrder(S)[k]
  <2>0. e.at \in Nat
    BY <1>0 DEF EventsShape
  <2>1. \A f \in T \ S : f.at >= e.at
    BY <1>2, <2>0
  <2>2. e \in T \ S
    BY <1>2
  <2> QED
    BY <1>0, <1>2, <2>0, <2>1, <2>2, SortedExtends
<1>4. RankOf(T, e) = s
  <2>1. RankOf(T, e) \in 0 .. s + 1 - 1
    <3>1. e \in T /\ EventsShape(T)
      BY <1>0
    <3> QED
      BY <1>1, <3>1, RankBound
  <2> HIDE DEF s
  <2> QED
    BY <1>1, <1>3, <2>1
<1>5. \A f \in S : RankOf(T, f) # s
  <2>1. ASSUME NEW f \in S PROVE RankOf(T, f) # s
    <3>1. RankOf(S, f) \in 0 .. s - 1 /\ RankOf(T, f) = RankOf(S, f)
      BY <1>3, RankBound
    <3> HIDE DEF s
    <3> QED
      BY <1>1, <3>1
  <2> QED
    BY <2>1
<1> HIDE DEF s
<1>6. {f \in T : RankOf(T, f) = (s + 1) - 1} = {e}
  <2>1. (s + 1) - 1 = s
    BY <1>1
  <2> QED
    BY <1>0, <1>4, <1>5, <2>1
<1>7. InOrder(T)[s + 1] = e
  <2>1. s + 1 \in 1 .. Cardinality(T)
    BY <1>1
  <2> DEFINE A == {f \in T : RankOf(T, f) = (s + 1) - 1}
  <2>2. InOrder(T)[s + 1] = CHOOSE x \in A : TRUE
    BY <2>1, InOrderIs
  <2>3. A = {e}
    BY <1>6
  <2> HIDE DEF A
  <2> QED
    BY <2>2, <2>3
<1> QED
  BY <1>1, <1>3, <1>7 DEF s

\* The sorted events are the events.
LEMMA SortedIsIn ==
  ASSUME NEW S, EventsShape(S), NoTies(S), NEW k \in 1 .. Cardinality(S)
  PROVE  InOrder(S)[k] \in S
<1> DEFINE s == Cardinality(S)
           T == 0 .. s - 1
           rank == [e \in S |-> RankOf(S, e)]
<1>1. IsFiniteSet(S) /\ s \in Nat
  BY FS_CardinalityType DEF EventsShape
<1>2. rank \in [S -> T]
  BY RankBound
<1>3. ASSUME NEW e \in S, NEW f \in S, EventBefore(e, f) PROVE RankOf(S, e) # RankOf(S, f)
  <2> DEFINE A == {g \in S : EventBefore(g, e)}
             B == {g \in S : EventBefore(g, f)}
  <2>1. A \in SUBSET B /\ e \in B /\ e \notin A
    BY <1>3, EventBeforeOrder
  <2>2. B \in SUBSET S
    OBVIOUS
  <2> HIDE DEF A, B
  <2>3. IsFiniteSet(B)
    BY <1>1, <2>2, FS_Subset
  <2>4. Cardinality(A) # Cardinality(B)
    BY <2>1, <2>3, FS_Subset
  <2> QED
    BY <2>4 DEF RankOf, A, B
<1>4. rank \in Injection(S, T)
  <2>1. ASSUME NEW e \in S, NEW f \in S, rank[e] = rank[f] PROVE e = f
    BY <1>3, <2>1, EventBeforeOrder
  <2> HIDE DEF T
  <2>2. DOMAIN rank = S
    OBVIOUS
  <2> HIDE DEF rank
  <2>3. IsInjective(rank)
    BY <2>1, <2>2 DEF IsInjective
  <2> QED
    BY <1>2, <2>3 DEF Injection
<1>5. IsFiniteSet(T) /\ Cardinality(T) = s
  <2>1. s - 1 \in Int
    BY <1>1
  <2> HIDE DEF s
  <2>2. IsFiniteSet(T) /\ Cardinality(T) = IF 0 > s - 1 THEN 0 ELSE s - 1 - 0 + 1
    BY <2>1, FS_Interval
  <2> QED
    BY <1>1, <2>2
<1>6. rank \in Surjection(S, T)
  BY <1>1, <1>4, <1>5, FS_Injection
<1>7. k - 1 \in T
  BY <1>1
<1>8. PICK e \in S : rank[e] = k - 1
  BY <1>6, <1>7 DEF Surjection
<1> DEFINE A == {f \in S : RankOf(S, f) = k - 1}
<1>9. e \in A
  BY <1>8
<1>10. InOrder(S)[k] = CHOOSE x \in A : TRUE
  BY InOrderIs
<1> HIDE DEF A
<1>11. (CHOOSE x \in A : TRUE) \in A
  BY <1>9
<1> QED
  BY <1>10, <1>11 DEF A

\* Swings of n candles, in the order of their pivots.
SwingsOK(sw, n) ==
  /\ sw \in Seq(Range(sw))
  /\ \A i \in 1 .. Len(sw) : /\ sw[i].type \in {High, Low}
                             /\ sw[i].start \in 1 .. n /\ sw[i].end \in 1 .. n
                             /\ sw[i].confirmed \in 1 .. n
  /\ Ascending(sw)

\* A seen swing, as the walk reads it.
IsSeen(s, n) == s.type \in Sides /\ s.id[1] = s.type /\ s.index \in 1 .. n

\* What an event of n candles is.
EventOK(e, n) ==
  \/ \E i, close : i \in 1 .. n /\ e = CandleEvent(i, close)
  \/ \E s : IsSeen(s, n) /\ s.at \in 1 .. n /\ e = SwingEvent(s)
  \/ \E s, t, label : /\ IsSeen(s, n) /\ s.at \in 1 .. n /\ t.at \in 1 .. n
                      /\ label \in {"HIGHER", "LOWER", "EQUAL"}
                      /\ e = RelationshipEvent(label, s, t)

\* Membership, for the provers to match.
LEMMA EventsAre ==
  ASSUME NEW seq, NEW sw, NEW e
  PROVE  e \in Events(seq, sw) <=>
           \/ \E i \in DOMAIN seq : e = CandleEvent(i, seq[i].close)
           \/ \E i \in DOMAIN sw : e = SwingEvent(Seen(sw[i]))
           \/ \E i, j \in DOMAIN sw : Precedes(sw, i, j) /\ e = Relationship(sw[j], sw[i])
<1> DEFINE pairs == {ij \in (DOMAIN sw) \X (DOMAIN sw) : Precedes(sw, ij[1], ij[2])}
<1>1. e \in DetectSwingRelationships(sw) <=> \E ij \in pairs : e = Relationship(sw[ij[2]], sw[ij[1]])
  BY DEF DetectSwingRelationships
<1>2. (\E ij \in pairs : e = Relationship(sw[ij[2]], sw[ij[1]]))
        <=> \E i, j \in DOMAIN sw : Precedes(sw, i, j) /\ e = Relationship(sw[j], sw[i])
  <2>1. ASSUME NEW i \in DOMAIN sw, NEW j \in DOMAIN sw, Precedes(sw, i, j) /\ e = Relationship(sw[j], sw[i])
        PROVE  \E ij \in pairs : e = Relationship(sw[ij[2]], sw[ij[1]])
    <3>1. <<i, j>> \in pairs
      BY <2>1
    <3> QED
      BY <2>1, <3>1
  <2> QED
    BY <2>1
<1> QED
  BY <1>1, <1>2 DEF Events

\* The larger of two integers.
LEMMA GreaterOfTwo ==
  ASSUME NEW a \in Int, NEW b \in Int
  PROVE  Max({a, b}) = IF a >= b THEN a ELSE b
<1>1. \E x \in {a, b} : \A y \in {a, b} : x >= y
  <2>1. CASE a >= b
    BY <2>1
  <2>2. CASE ~ (a >= b)
    BY <2>2
  <2> QED
    BY <2>1, <2>2
<1>2. Max({a, b}) \in {a, b} /\ \A y \in {a, b} : Max({a, b}) >= y
  BY <1>1 DEF Max
<1> QED
  BY <1>2

\* What the walk sees of a swing.
LEMMA SeenShape ==
  ASSUME NEW n, NEW s, s.type \in {High, Low}, s.start \in 1 .. n
  PROVE  /\ IsSeen(Seen(s), n)
         /\ Seen(s).at = s.confirmed /\ Seen(s).index = s.start
  BY DEF Seen, IsSeen, SwingId, High, Low, Sides

\* The place of an event in the order.
LEMMA EventShape ==
  ASSUME NEW n \in Nat, NEW e, EventOK(e, n)
  PROVE  e.at \in 1 .. n /\ e.kind \in 0 .. 2 /\ Tie(e) \in 1 .. n
<1>1. CASE \E i, close : i \in 1 .. n /\ e = CandleEvent(i, close)
  <2>1. PICK i, close : i \in 1 .. n /\ e = CandleEvent(i, close)
    BY <1>1
  <2>2. e.at = i /\ e.kind = 0 /\ e.index = i
    BY <2>1 DEF CandleEvent
  <2> QED
    BY <2>1, <2>2 DEF Tie
<1>2. CASE \E s : IsSeen(s, n) /\ s.at \in 1 .. n /\ e = SwingEvent(s)
  <2>1. PICK s : IsSeen(s, n) /\ s.at \in 1 .. n /\ e = SwingEvent(s)
    BY <1>2
  <2>2. e.at = s.at /\ e.kind = 1 /\ e.swing = s
    BY <2>1 DEF SwingEvent
  <2> QED
    BY <2>1, <2>2 DEF Tie, IsSeen
<1>3. CASE \E s, t, label : /\ IsSeen(s, n) /\ s.at \in 1 .. n /\ t.at \in 1 .. n
                            /\ label \in {"HIGHER", "LOWER", "EQUAL"}
                            /\ e = RelationshipEvent(label, s, t)
  <2>1. PICK s, t, label : /\ IsSeen(s, n) /\ s.at \in 1 .. n /\ t.at \in 1 .. n
                           /\ e = RelationshipEvent(label, s, t)
    BY <1>3
  <2>2. e.at = Max({s.at, t.at}) /\ e.kind = 2 /\ e.swing = s
    BY <2>1 DEF RelationshipEvent
  <2>3. Max({s.at, t.at}) \in 1 .. n
    BY <2>1, GreaterOfTwo
  <2> QED
    BY <2>1, <2>2, <2>3 DEF Tie, IsSeen
<1> QED
  BY <1>1, <1>2, <1>3 DEF EventOK

\* The label of two swings.
LEMMA LabelIs ==
  ASSUME NEW s, NEW t
  PROVE  Label(s, t) \in {"HIGHER", "LOWER", "EQUAL"}
  BY DEF Label

\* Every event of candles and their swings is one.
LEMMA EventsOK ==
  ASSUME NEW seq, CandlesOK(seq), NEW sw, SwingsOK(sw, Len(seq)), NEW e \in Events(seq, sw)
  PROVE  EventOK(e, Len(seq))
<1> DEFINE n == Len(seq)
<1>1. DOMAIN seq = 1 .. n /\ n \in Nat
  BY LenProperties DEF CandlesOK
<1>2. DOMAIN sw = 1 .. Len(sw)
  BY LenProperties DEF SwingsOK
<1>3. \A i \in 1 .. Len(sw) : /\ sw[i].type \in {High, Low} /\ sw[i].start \in 1 .. n
                              /\ sw[i].confirmed \in 1 .. n
  BY DEF SwingsOK
<1> HIDE DEF n
<1>4. \A i \in 1 .. Len(sw) : IsSeen(Seen(sw[i]), n) /\ Seen(sw[i]).at \in 1 .. n
  BY <1>3, SeenShape
<1>5. CASE \E i \in DOMAIN seq : e = CandleEvent(i, seq[i].close)
  BY <1>1, <1>5 DEF EventOK, n
<1>6. CASE \E i \in DOMAIN sw : e = SwingEvent(Seen(sw[i]))
  <2>1. \E s : IsSeen(s, n) /\ s.at \in 1 .. n /\ e = SwingEvent(s)
    BY <1>2, <1>4, <1>6
  <2> QED
    BY <2>1 DEF EventOK, n
<1>7. CASE \E i, j \in DOMAIN sw : Precedes(sw, i, j) /\ e = Relationship(sw[j], sw[i])
  <2>1. PICK i \in DOMAIN sw, j \in DOMAIN sw : e = Relationship(sw[j], sw[i])
    BY <1>7
  <2> DEFINE s == Seen(sw[j])
             t == Seen(sw[i])
             label == Label(sw[j], sw[i])
  <2>2. e = RelationshipEvent(label, s, t)
    BY <2>1 DEF Relationship
  <2>3. IsSeen(s, n) /\ s.at \in 1 .. n /\ t.at \in 1 .. n
    BY <1>2, <1>4
  <2>4. label \in {"HIGHER", "LOWER", "EQUAL"}
    BY LabelIs
  <2> HIDE DEF s, t, label
  <2> QED
    BY <2>2, <2>3, <2>4 DEF EventOK, n
<1> QED
  BY <1>5, <1>6, <1>7, EventsAre

\* The events of a chart are finitely many.
LEMMA EventsFinite ==
  ASSUME NEW seq, CandlesOK(seq), NEW sw, SwingsOK(sw, Len(seq))
  PROVE  IsFiniteSet(Events(seq, sw))
<1>1. DOMAIN seq = 1 .. Len(seq) /\ Len(seq) \in Nat
  BY LenProperties DEF CandlesOK
<1>2. DOMAIN sw = 1 .. Len(sw) /\ Len(sw) \in Nat
  BY LenProperties DEF SwingsOK
<1>3. IsFiniteSet(DOMAIN seq) /\ IsFiniteSet(DOMAIN sw)
  BY <1>1, <1>2, FS_Interval
<1> DEFINE A == {CandleEvent(i, seq[i].close) : i \in DOMAIN seq}
           B == {SwingEvent(Seen(sw[i])) : i \in DOMAIN sw}
           pairs == {ij \in (DOMAIN sw) \X (DOMAIN sw) : Precedes(sw, ij[1], ij[2])}
           D == {Relationship(sw[ij[2]], sw[ij[1]]) : ij \in pairs}
           f == [i \in DOMAIN seq |-> CandleEvent(i, seq[i].close)]
           g == [i \in DOMAIN sw |-> SwingEvent(Seen(sw[i]))]
           h == [ij \in pairs |-> Relationship(sw[ij[2]], sw[ij[1]])]
<1>4. f \in Surjection(DOMAIN seq, A)
  BY DEF Surjection
<1>5. g \in Surjection(DOMAIN sw, B)
  BY DEF Surjection
<1>6. h \in Surjection(pairs, D)
  BY DEF Surjection
<1>7. pairs \in SUBSET ((DOMAIN sw) \X (DOMAIN sw))
  OBVIOUS
<1> HIDE DEF f, g, h, A, B, D, pairs
<1>8. IsFiniteSet(pairs)
  BY <1>3, <1>7, FS_Product, FS_Subset
<1>9. IsFiniteSet(A) /\ IsFiniteSet(B) /\ IsFiniteSet(D)
  BY <1>3, <1>4, <1>5, <1>6, <1>8, FS_Surjection
<1>10. IsFiniteSet((A \cup B) \cup D)
  BY <1>9, FS_Union
<1> QED
  BY <1>10 DEF Events, DetectSwingRelationships, A, B, D, pairs

\* They are ordered by EventBefore and lie within the chart.
LEMMA EventsShaped ==
  ASSUME NEW seq, CandlesOK(seq), NEW sw, SwingsOK(sw, Len(seq))
  PROVE  EventsShape(Events(seq, sw)) /\ \A e \in Events(seq, sw) : e.at <= Len(seq)
<1> DEFINE n == Len(seq)
<1>1. n \in Nat
  BY LenProperties DEF CandlesOK
<1>2. \A e \in Events(seq, sw) : e.at \in 1 .. n /\ e.kind \in 0 .. 2 /\ Tie(e) \in 1 .. n
  BY <1>1, EventsOK, EventShape
<1>3. \A k \in 1 .. n : k \in Nat /\ k <= n
  BY <1>1
<1> QED
  BY <1>2, <1>3, EventsFinite DEF EventsShape

\* Two swings start on different candles.
LEMMA AscendingDistinct ==
  ASSUME NEW n, NEW sw, SwingsOK(sw, n), NEW i \in 1 .. Len(sw), NEW j \in 1 .. Len(sw),
         sw[i].start = sw[j].start
  PROVE  i = j
<1>1. Len(sw) \in Nat
  BY LenProperties DEF SwingsOK
<1>2. sw[i].start \in Int
  BY DEF SwingsOK
<1>3. (i < j => sw[i].start < sw[j].start) /\ (j < i => sw[j].start < sw[i].start)
  BY DEF SwingsOK, Ascending
<1> QED
  BY <1>1, <1>2, <1>3

\* A swing has one predecessor.
LEMMA OnePredecessor ==
  ASSUME NEW sw, Len(sw) \in Nat, NEW i \in 1 .. Len(sw), NEW k \in 1 .. Len(sw), NEW j \in 1 .. Len(sw),
         Precedes(sw, i, j), Precedes(sw, k, j)
  PROVE  i = k
<1>1. i \in Nat /\ k \in Nat /\ j \in Nat
  OBVIOUS
<1>2. /\ i < j /\ sw[i].type = sw[j].type
      /\ \A l \in i + 1 .. j - 1 : sw[l].type # sw[j].type
  BY DEF Precedes
<1>3. /\ k < j /\ sw[k].type = sw[j].type
      /\ \A l \in k + 1 .. j - 1 : sw[l].type # sw[j].type
  BY DEF Precedes
<1>4. ~ (i < k)
  <2>1. i < k => k \in i + 1 .. j - 1
    BY <1>1, <1>2, <1>3
  <2> QED
    BY <1>2, <1>3, <2>1
<1>5. ~ (k < i)
  <2>1. k < i => i \in k + 1 .. j - 1
    BY <1>1, <1>2, <1>3
  <2> QED
    BY <1>2, <1>3, <2>1
<1> QED
  BY <1>1, <1>4, <1>5

\* No two events tie.
LEMMA EventsUntied ==
  ASSUME NEW seq, CandlesOK(seq), NEW sw, SwingsOK(sw, Len(seq))
  PROVE  NoTies(Events(seq, sw))
<1>1. DOMAIN sw = 1 .. Len(sw) /\ Len(sw) \in Nat
  BY LenProperties DEF SwingsOK
<1> SUFFICES ASSUME NEW e \in Events(seq, sw), NEW f \in Events(seq, sw),
                    e.kind = f.kind, Tie(e) = Tie(f)
             PROVE  e = f
  BY DEF NoTies
<1> DEFINE IsC(x) == \E i \in DOMAIN seq : x = CandleEvent(i, seq[i].close)
           IsS(x) == \E i \in DOMAIN sw : x = SwingEvent(Seen(sw[i]))
           IsR(x) == \E i, j \in DOMAIN sw : Precedes(sw, i, j) /\ x = Relationship(sw[j], sw[i])
<1>2. (IsC(e) \/ IsS(e) \/ IsR(e)) /\ (IsC(f) \/ IsS(f) \/ IsR(f))
  BY EventsAre
<1>3. \A x : IsC(x) => x.kind = 0
  BY DEF CandleEvent
<1>4. \A x : IsS(x) => x.kind = 1
  BY DEF SwingEvent
<1>5. \A x : IsR(x) => x.kind = 2
  BY DEF Relationship, RelationshipEvent
<1>6. CASE IsC(e) /\ IsC(f)
  <2>1. PICK i \in DOMAIN seq : e = CandleEvent(i, seq[i].close)
    BY <1>6
  <2>2. PICK j \in DOMAIN seq : f = CandleEvent(j, seq[j].close)
    BY <1>6
  <2>3. Tie(e) = i /\ Tie(f) = j
    BY <2>1, <2>2 DEF Tie, CandleEvent
  <2> QED
    BY <2>1, <2>2, <2>3
<1>7. CASE IsS(e) /\ IsS(f)
  <2>1. PICK i \in DOMAIN sw : e = SwingEvent(Seen(sw[i]))
    BY <1>7
  <2>2. PICK j \in DOMAIN sw : f = SwingEvent(Seen(sw[j]))
    BY <1>7
  <2>3. Tie(e) = sw[i].start /\ Tie(f) = sw[j].start
    BY <2>1, <2>2 DEF Tie, SwingEvent, Seen
  <2>4. i = j
    BY <1>1, <2>3, AscendingDistinct
  <2> QED
    BY <2>1, <2>2, <2>4
<1>8. CASE IsR(e) /\ IsR(f)
  <2>1. PICK i \in DOMAIN sw, j \in DOMAIN sw : Precedes(sw, i, j) /\ e = Relationship(sw[j], sw[i])
    BY <1>8
  <2>2. PICK k \in DOMAIN sw, l \in DOMAIN sw : Precedes(sw, k, l) /\ f = Relationship(sw[l], sw[k])
    BY <1>8
  <2>3. Tie(e) = sw[j].start /\ Tie(f) = sw[l].start
    BY <2>1, <2>2 DEF Tie, Relationship, RelationshipEvent, Seen
  <2>4. j = l
    BY <1>1, <2>3, AscendingDistinct
  <2>5. i = k
    BY <1>1, <2>1, <2>2, <2>4, OnePredecessor
  <2> QED
    BY <2>1, <2>2, <2>4, <2>5
<1> HIDE DEF IsC, IsS, IsR
<1> QED
  BY <1>2, <1>3, <1>4, <1>5, <1>6, <1>7, <1>8

-----------------------------------------------------------------------------
(* Events of one more candle.                                              *)

\* A candle that confirms nothing adds its own event only.
LEMMA EventsAppend ==
  ASSUME NEW seq, CandlesOK(seq), NEW c, IsCandle(c), NEW sw
  PROVE  Events(Append(seq, c), sw) = Events(seq, sw) \cup {CandleEvent(Len(seq) + 1, c.close)}
<1> DEFINE n == Len(seq)
           more == Append(seq, c)
           new == CandleEvent(n + 1, c.close)
<1>1. /\ CandlesOK(more) /\ n \in Nat /\ Len(more) = n + 1 /\ more[n + 1] = c
      /\ \A i \in 1 .. n : more[i] = seq[i]
  BY CandlesAppend
<1>2. DOMAIN seq = 1 .. n /\ DOMAIN more = 1 .. n + 1
  BY <1>1, LenProperties DEF CandlesOK
<1> HIDE DEF more, n
<1>3. \A i \in 1 .. n + 1 : i \in 1 .. n \/ i = n + 1
  BY <1>1
<1>4. \A i \in 1 .. n : i \in 1 .. n + 1
  BY <1>1
<1>5. n + 1 \in 1 .. n + 1
  BY <1>1
<1>6. {CandleEvent(i, more[i].close) : i \in DOMAIN more}
        = {CandleEvent(i, seq[i].close) : i \in DOMAIN seq} \cup {new}
  BY <1>1, <1>2, <1>3, <1>4, <1>5
<1> QED
  BY <1>6 DEF Events, more, n

\* Swings that come after the known ones bring events of the newest candle.
LEMMA EventsOfMoreSwings ==
  ASSUME NEW seq, CandlesOK(seq), NEW c, IsCandle(c),
         NEW sw, SwingsOK(sw, Len(seq)), NEW su, SwingsOK(su, Len(seq) + 1),
         OnlyAppends(sw, su, Len(seq) + 1)
  PROVE  /\ Events(seq, sw) \subseteq Events(Append(seq, c), su)
         /\ \A e \in Events(Append(seq, c), su) \ Events(seq, sw) : e.at >= Len(seq) + 1
<1> DEFINE n == Len(seq)
           more == Append(seq, c)
           m == Len(sw)
<1>1. n \in Nat /\ Events(more, su) = Events(seq, su) \cup {CandleEvent(n + 1, c.close)}
  BY CandlesAppend, EventsAppend
<1>2. CandleEvent(n + 1, c.close).at = n + 1
  BY DEF CandleEvent
<1>3. DOMAIN sw = 1 .. m /\ m \in Nat /\ DOMAIN su = 1 .. Len(su) /\ Len(su) \in Nat
  BY LenProperties DEF SwingsOK
<1>4. m <= Len(su) /\ \A i \in 1 .. m : su[i] = sw[i]
  <2>1. m <= Len(su) /\ SubSeq(sw, 1, m) = SubSeq(su, 1, m)
    BY DEF OnlyAppends, IsPrefix
  <2> DEFINE a == SubSeq(sw, 1, m)
             b == SubSeq(su, 1, m)
  <2>2. \A i \in 1 .. m : sw[i] \in Range(sw) /\ su[i] \in Range(su)
    BY <1>3, <2>1 DEF Range
  <2>3. \A i \in 1 .. m - 1 + 1 : a[i] = sw[1 + i - 1]
    BY <1>3, <2>2, SubSeqProperties
  <2>4. \A i \in 1 .. m - 1 + 1 : b[i] = su[1 + i - 1]
    BY <1>3, <2>2, SubSeqProperties
  <2>5. a = b
    BY <2>1
  <2> HIDE DEF a, b, m
  <2>6. ASSUME NEW i \in 1 .. m PROVE su[i] = sw[i]
    <3>1. i \in 1 .. m - 1 + 1 /\ 1 + i - 1 = i
      BY <1>3
    <3> QED
      BY <2>3, <2>4, <2>5, <3>1
  <2> QED
    BY <2>1, <2>6
<1>5. \A i \in m + 1 .. Len(su) : su[i].confirmed = n + 1
  BY DEF OnlyAppends
<1>6. \A i \in 1 .. Len(su) : su[i].confirmed \in 1 .. n + 1
  BY DEF SwingsOK
<1>7. \A i \in 1 .. m : i \in 1 .. Len(su)
  BY <1>3, <1>4
<1>8. \A i \in 1 .. Len(su) : i \in 1 .. m \/ i \in m + 1 .. Len(su)
  BY <1>3, <1>4
<1> HIDE DEF n, m, more
<1>9. ASSUME NEW i \in 1 .. m, NEW j \in 1 .. m
      PROVE  Precedes(su, i, j) <=> Precedes(sw, i, j)
  <2>1. \A k \in i + 1 .. j - 1 : k \in 1 .. m
    BY <1>3
  <2> QED
    BY <1>4, <2>1 DEF Precedes
<1>10. Events(seq, sw) \subseteq Events(seq, su)
  <2>1. ASSUME NEW e \in Events(seq, sw) PROVE e \in Events(seq, su)
    <3>1. CASE \E i \in DOMAIN seq : e = CandleEvent(i, seq[i].close)
      BY <3>1, EventsAre
    <3>2. CASE \E i \in DOMAIN sw : e = SwingEvent(Seen(sw[i]))
      <4>1. \E i \in DOMAIN su : e = SwingEvent(Seen(su[i]))
        BY <1>3, <1>4, <1>7, <3>2
      <4> QED
        BY <4>1, EventsAre
    <3>3. CASE \E i, j \in DOMAIN sw : Precedes(sw, i, j) /\ e = Relationship(sw[j], sw[i])
      <4>1. \E i, j \in DOMAIN su : Precedes(su, i, j) /\ e = Relationship(su[j], su[i])
        BY <1>3, <1>4, <1>7, <1>9, <3>3
      <4> QED
        BY <4>1, EventsAre
    <3> QED
      BY <3>1, <3>2, <3>3, EventsAre
  <2> QED
    BY <2>1
<1>11. ASSUME NEW e \in Events(seq, su), e \notin Events(seq, sw) PROVE e.at >= n + 1
  <2>1. CASE \E i \in DOMAIN seq : e = CandleEvent(i, seq[i].close)
    BY <1>11, <2>1, EventsAre
  <2>2. CASE \E i \in DOMAIN su : e = SwingEvent(Seen(su[i]))
    <3>1. PICK i \in DOMAIN su : e = SwingEvent(Seen(su[i]))
      BY <2>2
    <3>2. i \notin 1 .. m
      <4>1. i \in 1 .. m => e \in Events(seq, sw)
        BY <1>3, <1>4, <3>1, EventsAre
      <4> QED
        BY <1>11, <4>1
    <3>3. su[i].confirmed = n + 1
      BY <1>3, <1>5, <1>8, <3>2
    <3>4. e.at = su[i].confirmed
      BY <3>1 DEF SwingEvent, Seen
    <3> QED
      BY <1>1, <3>3, <3>4
  <2>3. CASE \E i, j \in DOMAIN su : Precedes(su, i, j) /\ e = Relationship(su[j], su[i])
    <3>1. PICK i \in DOMAIN su, j \in DOMAIN su : Precedes(su, i, j) /\ e = Relationship(su[j], su[i])
      BY <2>3
    <3>2. j \notin 1 .. m
      <4>1. SUFFICES ASSUME j \in 1 .. m PROVE FALSE
        OBVIOUS
      <4>2. i < j
        BY <3>1 DEF Precedes
      <4>3. i \in 1 .. m
        BY <1>3, <3>1, <4>1, <4>2
      <4>4. Precedes(sw, i, j) /\ e = Relationship(sw[j], sw[i])
        BY <1>4, <1>9, <3>1, <4>1, <4>3
      <4> QED
        BY <1>3, <1>11, <4>1, <4>3, <4>4, EventsAre
    <3>3. su[j].confirmed = n + 1
      BY <1>3, <1>5, <1>8, <3>2
    <3>4. e.at = Max({su[j].confirmed, su[i].confirmed})
      BY <3>1 DEF Relationship, RelationshipEvent, Seen
    <3>5. su[i].confirmed \in Int /\ su[j].confirmed \in Int
      BY <1>3, <1>6, <3>1
    <3>6. Max({su[j].confirmed, su[i].confirmed}) >= su[j].confirmed
      BY <3>5, GreaterOfTwo
    <3> QED
      BY <3>3, <3>4, <3>6
  <2> QED
    BY <2>1, <2>2, <2>3, EventsAre
<1>12. \A e \in Events(more, su) \ Events(seq, sw) : e.at >= n + 1
  <2>1. n + 1 >= n + 1
    BY <1>1
  <2> QED
    BY <1>1, <1>2, <1>11, <2>1
<1> QED
  BY <1>1, <1>10, <1>12 DEF n, more

\* Two sequences agree up to their m-th element.
AgreeUpTo(s, t, m) == \A i \in 1 .. m : s[i] = t[i]

\* The walk over the first events does not see the others.
LEMMA WalkAgrees ==
  ASSUME NEW w, NEW s, Len(s) \in Nat, NEW t, Len(t) \in Nat,
         NEW m \in Nat, m <= Len(s), m <= Len(t), AgreeUpTo(s, t, m)
  PROVE  \A k \in 0 .. m : WalkFrom(w, s)[k] = WalkFrom(w, t)[k]
<1> DEFINE f == WalkFrom(w, s)
           g == WalkFrom(w, t)
           M == {k \in Nat : k <= m => f[k] = g[k]}
<1>1. f[0] = w /\ \A k \in 1 .. Len(s) : f[k] = ProcessEvent(f[k - 1], s[k])
  BY WalkSteps
<1>2. g[0] = w /\ \A k \in 1 .. Len(t) : g[k] = ProcessEvent(g[k - 1], t[k])
  BY WalkSteps
<1> HIDE DEF f, g
<1>3. 0 \in M
  BY <1>1, <1>2
<1>4. ASSUME NEW k \in M PROVE k + 1 \in M
  <2>1. SUFFICES ASSUME k + 1 <= m PROVE f[k + 1] = g[k + 1]
    OBVIOUS
  <2>2. k \in Nat /\ f[k] = g[k] /\ k + 1 \in 1 .. m /\ k + 1 \in 1 .. Len(s) /\ k + 1 \in 1 .. Len(t) /\ (k + 1) - 1 = k
    BY <2>1
  <2>3. f[k + 1] = ProcessEvent(f[k], s[k + 1]) /\ g[k + 1] = ProcessEvent(g[k], t[k + 1])
    BY <1>1, <1>2, <2>2
  <2>4. s[k + 1] = t[k + 1]
    BY <2>2 DEF AgreeUpTo
  <2> QED
    BY <2>2, <2>3, <2>4
<1> HIDE DEF M
<1>5. M = Nat
  <2>1. M \in SUBSET Nat
    BY DEF M
  <2> QED
    BY <1>3, <1>4, <2>1, SetInduction
<1>6. \A k \in 0 .. m : f[k] = g[k]
  BY <1>5 DEF M
<1> QED
  BY <1>6 DEF f, g

\* The rest of a sequence after its first m.
IsRest(u, t, m) == Len(u) = Len(t) - m /\ \A i \in 1 .. Len(u) : u[i] = t[m + i]

\* The walk resumed at an event is the walk.
LEMMA WalkResumes ==
  ASSUME NEW w, NEW t, Len(t) \in Nat, NEW m \in Nat, m <= Len(t), NEW u, IsRest(u, t, m)
  PROVE  \A k \in 0 .. Len(u) : WalkFrom(WalkFrom(w, t)[m], u)[k] = WalkFrom(w, t)[m + k]
<1> DEFINE g == WalkFrom(w, t)
           f == WalkFrom(g[m], u)
           M == {k \in Nat : k <= Len(u) => f[k] = g[m + k]}
<1>0. Len(u) \in Nat /\ Len(u) = Len(t) - m /\ \A i \in 1 .. Len(u) : u[i] = t[m + i]
  BY DEF IsRest
<1>1. f[0] = g[m] /\ \A k \in 1 .. Len(u) : f[k] = ProcessEvent(f[k - 1], u[k])
  BY <1>0, WalkSteps
<1>2. \A k \in 1 .. Len(t) : g[k] = ProcessEvent(g[k - 1], t[k])
  BY WalkSteps
<1> HIDE DEF f, g
<1>3. 0 \in M
  BY <1>1
<1>4. ASSUME NEW k \in M PROVE k + 1 \in M
  <2>1. SUFFICES ASSUME k + 1 <= Len(u) PROVE f[k + 1] = g[m + (k + 1)]
    OBVIOUS
  <2>2. k \in Nat /\ f[k] = g[m + k] /\ k + 1 \in 1 .. Len(u) /\ (k + 1) - 1 = k
    BY <1>0, <2>1
  <2>3. m + (k + 1) \in 1 .. Len(t) /\ (m + (k + 1)) - 1 = m + k
    BY <1>0, <2>1, <2>2
  <2>4. f[k + 1] = ProcessEvent(f[k], u[k + 1])
    BY <1>1, <2>2
  <2>5. g[m + (k + 1)] = ProcessEvent(g[m + k], t[m + (k + 1)])
    BY <1>2, <2>3
  <2>6. u[k + 1] = t[m + (k + 1)]
    BY <1>0, <2>2
  <2> QED
    BY <2>2, <2>4, <2>5, <2>6
<1> HIDE DEF M
<1>5. M = Nat
  <2>1. M \in SUBSET Nat
    BY DEF M
  <2> QED
    BY <1>3, <1>4, <2>1, SetInduction
<1>6. \A k \in 0 .. Len(u) : f[k] = g[m + k]
  <2>1. \A k \in 0 .. Len(u) : k \in Nat /\ k <= Len(u)
    BY <1>0
  <2> QED
    BY <1>5, <2>1 DEF M
<1> QED
  BY <1>6 DEF f, g

\* A checkpoint after each event.
Checkpoints(events) == [k \in 1 .. Len(events) |-> WalkFrom(InitialWalk, events)[k]]

\* A function on 1 .. n is a sequence of what it returns.
LEMMA FunctionSeq ==
  ASSUME NEW n \in Nat, NEW f, f = [i \in 1 .. n |-> f[i]]
  PROVE  f \in Seq(Range(f)) /\ Len(f) = n /\ DOMAIN f = 1 .. n
<1>1. DOMAIN f = 1 .. n
  BY Zenon
<1>2. \A i \in 1 .. n : f[i] \in Range(f)
  BY <1>1 DEF Range
<1> DEFINE R == Range(f)
<1> HIDE DEF R
<1>3. f \in [1 .. n -> R]
  BY <1>1, <1>2 DEF R
<1>4. f \in Seq(R) /\ Len(f) = n
  BY <1>3
<1> QED
  BY <1>1, <1>4 DEF R

\* Resuming after what two sequences of events share walks the second.
LEMMA ResumeOK ==
  ASSUME NEW S, NEW s \in Seq(S), NEW t \in Seq(S),
         NEW m \in Nat, m <= Len(s), m <= Len(t), \A i \in 1 .. m : s[i] = t[i]
  PROVE  ResumeWalk(Checkpoints(s), m, SubSeq(t, m + 1, Len(t))) = Checkpoints(t)
<1> DEFINE u == SubSeq(t, m + 1, Len(t))
           f == WalkFrom(InitialWalk, s)
           g == WalkFrom(InitialWalk, t)
           old == Checkpoints(s)
           new == Checkpoints(t)
           start == WalkAt(old, m)
           walk == WalkFrom(start, u)
           kept == SubSeq(old, 1, m)
           rest == [k \in 1 .. Len(u) |-> walk[k]]
<1>1. Len(s) \in Nat /\ Len(t) \in Nat
  BY LenProperties
<1>2. Len(u) = Len(t) - m /\ \A i \in 1 .. Len(u) : u[i] = t[m + i]
  <2> DEFINE l == Len(t)
  <2>1. l \in Nat /\ m + 1 \in Int
    BY <1>1
  <2>2. \A i \in m + 1 .. l : t[i] \in S
    <3>1. \A i \in m + 1 .. l : i \in 1 .. Len(t)
      BY <1>1
    <3> QED
      BY <3>1, ElementOfSeq
  <2>3. /\ Len(u) = (IF m + 1 <= l THEN l - (m + 1) + 1 ELSE 0)
        /\ \A i \in 1 .. l - (m + 1) + 1 : u[i] = t[m + 1 + i - 1]
    BY <2>1, <2>2, SubSeqProperties
  <2> HIDE DEF u
  <2>4. Len(u) = l - m /\ l - (m + 1) + 1 = l - m
    BY <1>1, <2>3
  <2>5. ASSUME NEW i \in 1 .. Len(u) PROVE u[i] = t[m + i]
    <3>1. i \in 1 .. l - (m + 1) + 1 /\ m + 1 + i - 1 = m + i
      BY <2>1, <2>4
    <3> QED
      BY <2>3, <3>1
  <2> QED
    BY <2>4, <2>5
<1>3. \A k \in 0 .. m : f[k] = g[k]
  BY <1>1, WalkAgrees DEF AgreeUpTo
<1>4. start = g[m]
  <2>1. m # 0 => m \in 1 .. Len(s)
    BY <1>1
  <2>2. m # 0 => old[m] = f[m]
    BY <2>1 DEF Checkpoints
  <2>3. f[0] = InitialWalk
    BY <1>1, WalkSteps
  <2>4. m \in 0 .. m /\ 0 \in 0 .. m
    OBVIOUS
  <2> HIDE DEF f, g, old
  <2>5. f[m] = g[m]
    BY <1>3, <2>4
  <2> QED
    BY <2>2, <2>3, <2>5 DEF WalkAt
<1>5. \A k \in 0 .. Len(u) : walk[k] = g[m + k]
  <2>1. walk = WalkFrom(g[m], u)
    BY <1>4
  <2> HIDE DEF u, f, g, walk
  <2>2. IsRest(u, t, m)
    BY <1>2 DEF IsRest
  <2> DEFINE w == InitialWalk
  <2>3. Len(t) \in Nat /\ m <= Len(t)
    BY <1>1
  <2> HIDE DEF w
  <2>4. \A k \in 0 .. Len(u) : WalkFrom(WalkFrom(w, t)[m], u)[k] = WalkFrom(w, t)[m + k]
    BY <2>2, <2>3, WalkResumes
  <2> QED
    BY <2>1, <2>4 DEF g, w
<1>6. /\ \A k \in 1 .. Len(s) : old[k] = f[k]
      /\ \A k \in 1 .. Len(t) : new[k] = g[k]
  BY DEF Checkpoints
<1>7. new = [k \in 1 .. Len(t) |-> new[k]]
  BY DEF Checkpoints
<1>8. ResumeWalk(old, m, u) = kept \o rest
  BY DEF ResumeWalk
<1> DEFINE W == Range(new)
<1> HIDE DEF u, f, g, old, new, start, walk
<1>9. DOMAIN new = 1 .. Len(t) /\ new \in Seq(W) /\ Len(new) = Len(t)
  BY <1>1, <1>7, FunctionSeq
<1>10. \A k \in 1 .. Len(t) : g[k] \in W
  BY <1>6, <1>9 DEF Range
<1> HIDE DEF W
<1>11. ASSUME NEW k \in 1 .. m PROVE old[k] = g[k] /\ old[k] \in W
  <2>1. k \in 1 .. Len(s) /\ k \in 1 .. Len(t) /\ k \in 0 .. m
    BY <1>1
  <2> QED
    BY <1>3, <1>6, <1>10, <2>1
<1>12. kept \in Seq(W) /\ Len(kept) = m /\ \A k \in 1 .. m : kept[k] = g[k]
  <2>1. /\ kept \in Seq(W) /\ Len(kept) = (IF 1 <= m THEN m - 1 + 1 ELSE 0)
        /\ \A k \in 1 .. m - 1 + 1 : kept[k] = old[1 + k - 1]
    BY <1>11, SubSeqProperties
  <2> HIDE DEF kept
  <2>2. Len(kept) = m
    BY <2>1
  <2>3. ASSUME NEW k \in 1 .. m PROVE kept[k] = g[k]
    <3>1. k \in 1 .. m - 1 + 1 /\ 1 + k - 1 = k
      OBVIOUS
    <3> QED
      BY <1>11, <2>1, <3>1
  <2> QED
    BY <2>1, <2>2, <2>3
<1>13. ASSUME NEW k \in 1 .. Len(u) PROVE walk[k] = g[m + k] /\ m + k \in 1 .. Len(t)
  BY <1>1, <1>2, <1>5
<1>14. rest \in Seq(W) /\ Len(rest) = Len(u) /\ \A k \in 1 .. Len(u) : rest[k] = g[m + k]
  <2>1. Len(u) \in Nat
    BY <1>1, <1>2
  <2>2. \A k \in 1 .. Len(u) : walk[k] \in W
    BY <1>10, <1>13
  <2>3. rest \in [1 .. Len(u) -> W]
    BY <2>2
  <2>4. \A k \in 1 .. Len(u) : rest[k] = g[m + k]
    BY <1>13
  <2> HIDE DEF rest
  <2>5. rest \in Seq(W) /\ Len(rest) = Len(u)
    BY <2>1, <2>3
  <2> QED
    BY <2>4, <2>5
<1> HIDE DEF kept, rest
<1>15. /\ kept \o rest \in Seq(W) /\ Len(kept \o rest) = Len(kept) + Len(rest)
       /\ \A k \in 1 .. Len(kept) + Len(rest) :
            (kept \o rest)[k] = IF k <= Len(kept) THEN kept[k] ELSE rest[k - Len(kept)]
  <2>1. kept \in Seq(W) /\ rest \in Seq(W)
    BY <1>12, <1>14
  <2> QED
    BY <2>1, ConcatProperties
<1>16. Len(kept) + Len(rest) = Len(t)
  BY <1>1, <1>2, <1>12, <1>14
<1>17. ASSUME NEW k \in 1 .. Len(t) PROVE (kept \o rest)[k] = new[k]
  <2>1. new[k] = g[k]
    BY <1>6
  <2>2. CASE k <= m
    <3>1. k \in 1 .. m /\ k \in 1 .. Len(kept) + Len(rest) /\ k <= Len(kept)
      BY <1>12, <1>16, <2>2
    <3>2. (kept \o rest)[k] = kept[k] /\ kept[k] = g[k]
      BY <1>12, <1>15, <3>1
    <3> QED
      BY <2>1, <3>2
  <2>3. CASE ~ (k <= m)
    <3>1. k - m \in 1 .. Len(u) /\ k \in 1 .. Len(kept) + Len(rest) /\ ~ (k <= Len(kept)) /\ m + (k - m) = k
      BY <1>1, <1>2, <1>12, <1>16, <2>3
    <3>2. (kept \o rest)[k] = rest[k - Len(kept)]
      BY <1>15, <3>1
    <3>3. rest[k - m] = g[m + (k - m)]
      BY <1>14, <3>1
    <3>4. rest[k - Len(kept)] = g[k]
      BY <1>12, <3>1, <3>3
    <3> QED
      BY <2>1, <3>2, <3>4
  <2> QED
    BY <2>2, <2>3
<1>18. kept \o rest = new
  BY <1>9, <1>15, <1>16, <1>17, SeqEqual
<1> QED
  BY <1>8, <1>18 DEF u, old, new

\* The longest common prefix of two sequences is a prefix of both.
LEMMA CommonPrefix ==
  ASSUME NEW S, NEW s \in Seq(S), NEW t \in Seq(S)
  PROVE  LET m == Len(LongestCommonPrefix({s, t}))
         IN  m \in Nat /\ m <= Len(s) /\ m <= Len(t) /\ \A i \in 1 .. m : s[i] = t[i]
<1> DEFINE P == CommonPrefixes({s, t})
           longest == LongestCommonPrefix({s, t})
<1>1. Len(s) \in Nat /\ Len(t) \in Nat
  BY LenProperties
<1>2. ASSUME NEW r \in Seq(S), NEW l \in Nat, l <= Len(r)
      PROVE  /\ SubSeq(r, 1, l) \in Seq(S) /\ Len(SubSeq(r, 1, l)) = l
             /\ \A i \in 1 .. l : SubSeq(r, 1, l)[i] = r[i]
  <2> DEFINE u == SubSeq(r, 1, l)
  <2>1. \A i \in 1 .. l : r[i] \in S
    <3>1. \A i \in 1 .. l : i \in 1 .. Len(r)
      BY <1>2, LenProperties
    <3> QED
      BY <3>1, ElementOfSeq
  <2>2. /\ u \in Seq(S) /\ Len(u) = (IF 1 <= l THEN l - 1 + 1 ELSE 0)
        /\ \A i \in 1 .. l - 1 + 1 : u[i] = r[1 + i - 1]
    BY <2>1, SubSeqProperties
  <2> HIDE DEF u
  <2>3. Len(u) = l
    BY <2>2
  <2>4. ASSUME NEW i \in 1 .. l PROVE u[i] = r[i]
    <3>1. i \in 1 .. l - 1 + 1 /\ 1 + i - 1 = i
      OBVIOUS
    <3> QED
      BY <2>2, <3>1
  <2> QED
    BY <2>2, <2>3, <2>4 DEF u
<1>3. ASSUME NEW p \in P
      PROVE  /\ p \in Seq(S) /\ Len(p) \in Nat /\ IsPrefix(p, s) /\ IsPrefix(p, t)
             /\ Len(p) <= Len(s) /\ Len(p) <= Len(t)
  <2>1. PICK r \in {s, t} : p \in Prefixes(r)
    BY DEF CommonPrefixes
  <2>2. PICK l \in 0 .. Len(r) : p = SubSeq(r, 1, l)
    BY <2>1 DEF Prefixes
  <2>3. p \in Seq(S)
    BY <1>1, <1>2, <2>1, <2>2
  <2>4. IsPrefix(p, s) /\ IsPrefix(p, t)
    BY DEF CommonPrefixes
  <2> QED
    BY <2>3, <2>4, LenProperties DEF IsPrefix
<1>4. << >> \in P
  <2>1. SubSeq(s, 1, 0) = << >> /\ SubSeq(t, 1, 0) = << >> /\ SubSeq(<< >>, 1, 0) = << >> /\ Len(<< >>) = 0
    BY SubSeqEmpty, EmptySeq
  <2>2. << >> \in Prefixes(s)
    BY <1>1, <2>1 DEF Prefixes
  <2>3. IsPrefix(<< >>, s) /\ IsPrefix(<< >>, t)
    BY <1>1, <2>1 DEF IsPrefix
  <2> QED
    BY <2>2, <2>3 DEF CommonPrefixes
<1>5. \E p \in P : \A q \in P : Len(q) <= Len(p)
  <2> DEFINE L == {Len(p) : p \in P}
  <2>1. L \in SUBSET Nat /\ \A y \in L : y <= Len(s)
    BY <1>3
  <2>2. L # {}
    BY <1>4
  <2>3. \A p \in P : Len(p) \in L
    OBVIOUS
  <2> HIDE DEF P
  <2>4. PICK p \in P : Max(L) = Len(p)
    BY <1>1, <2>1, <2>2, GreatestOf
  <2>5. \A y \in L : Max(L) >= y
    BY <1>1, <2>1, <2>2, GreatestOf
  <2> HIDE DEF L
  <2>6. \A q \in P : Len(q) <= Len(p)
    BY <2>1, <2>3, <2>4, <2>5
  <2> QED
    BY <2>6
<1>6. longest \in P
  BY <1>5 DEF LongestCommonPrefix
<1> DEFINE m == Len(longest)
<1> HIDE DEF longest, P
<1>7. m \in Nat /\ m <= Len(s) /\ m <= Len(t) /\ IsPrefix(longest, s) /\ IsPrefix(longest, t)
  BY <1>3, <1>6
<1>8. SubSeq(s, 1, m) = SubSeq(longest, 1, m) /\ SubSeq(t, 1, m) = SubSeq(longest, 1, m)
  BY <1>7 DEF IsPrefix
<1> HIDE DEF m
<1>9. ASSUME NEW i \in 1 .. m PROVE s[i] = t[i]
  <2>1. SubSeq(s, 1, m)[i] = s[i] /\ SubSeq(t, 1, m)[i] = t[i]
    BY <1>2, <1>7
  <2> QED
    BY <1>8, <2>1
<1> QED
  BY <1>7, <1>9 DEF longest, m

\* The sorted events are a sequence of the events.
LEMMA SortedSeq ==
  ASSUME NEW seq, CandlesOK(seq), NEW sw, SwingsOK(sw, Len(seq))
  PROVE  /\ SortedEvents(seq, sw) \in Seq(Events(seq, sw))
         /\ Cardinality(Events(seq, sw)) \in Nat
         /\ Len(SortedEvents(seq, sw)) = Cardinality(Events(seq, sw))
<1> DEFINE S == Events(seq, sw)
           n == Cardinality(S)
           s == InOrder(S)
<1>1. EventsShape(S) /\ NoTies(S)
  BY EventsShaped, EventsUntied
<1> HIDE DEF S
<1>2. n \in Nat
  BY <1>1, FS_CardinalityType DEF EventsShape
<1>3. \A k \in 1 .. n : s[k] \in S
  BY <1>1, SortedIsIn
<1>4. s = [k \in 1 .. n |-> CHOOSE e \in {f \in S : RankOf(S, f) = k - 1} : TRUE]
  BY InOrderIs
<1>5. DOMAIN s = 1 .. n /\ s = [k \in 1 .. n |-> s[k]]
  BY <1>4
<1> HIDE DEF n, s
<1>6. s \in [1 .. n -> S]
  BY <1>3, <1>5
<1>7. s \in Seq(S) /\ Len(s) = n
  BY <1>2, <1>6
<1> QED
  BY <1>2, <1>7 DEF SortedEvents, S, n, s

\* The structure state of candles and their swings.
StructureOK(st, seq, sw) ==
  st = [swings |-> sw, relationships |-> st.relationships, events |-> SortedEvents(seq, sw),
        checkpoints |-> Checkpoints(SortedEvents(seq, sw))]

\* The fields of a correct structure state.
LEMMA StructureFields ==
  ASSUME NEW st, NEW seq, NEW sw, StructureOK(st, seq, sw)
  PROVE  /\ st.swings = sw /\ st.events = SortedEvents(seq, sw)
         /\ st.checkpoints = Checkpoints(SortedEvents(seq, sw))
<1> DEFINE events == SortedEvents(seq, sw)
           checkpoints == Checkpoints(events)
           relationships == st.relationships
<1>1. st = [swings |-> sw, relationships |-> relationships, events |-> events,
            checkpoints |-> checkpoints]
  BY DEF StructureOK
<1> HIDE DEF events, checkpoints, relationships
<1>2. st.swings = sw /\ st.events = events /\ st.checkpoints = checkpoints
  BY <1>1
<1> QED
  BY <1>2 DEF events, checkpoints

\* Swings of n candles are swings of more.
LEMMA SwingsOfMore ==
  ASSUME NEW n \in Nat, NEW sw, SwingsOK(sw, n)
  PROVE  SwingsOK(sw, n + 1)
<1>1. \A i \in 1 .. n : i \in 1 .. n + 1
  OBVIOUS
<1> QED
  BY <1>1 DEF SwingsOK

\* The events after one more candle.
LEMMA SortedOfMore ==
  ASSUME NEW seq, CandlesOK(seq), NEW c, IsCandle(c), NEW sw, SwingsOK(sw, Len(seq))
  PROVE  SortedEvents(Append(seq, c), sw) = Append(SortedEvents(seq, sw), CandleEvent(Len(seq) + 1, c.close))
<1> DEFINE n == Len(seq)
           more == Append(seq, c)
           e == CandleEvent(n + 1, c.close)
           S == Events(seq, sw)
           T == Events(more, sw)
           s == SortedEvents(seq, sw)
           t == SortedEvents(more, sw)
           l == Cardinality(S)
<1>1. n \in Nat /\ CandlesOK(more) /\ Len(more) = n + 1
  BY CandlesAppend
<1>2. SwingsOK(sw, n + 1)
  BY <1>1, SwingsOfMore
<1>3. T = S \cup {e}
  BY EventsAppend
<1>4. EventsShape(S) /\ \A f \in S : f.at <= n
  BY EventsShaped
<1>5. EventsShape(T)
  BY <1>1, <1>2, EventsShaped
<1>6. e.at = n + 1
  BY DEF CandleEvent
<1>7. s \in Seq(S) /\ l \in Nat /\ Len(s) = l
  BY SortedSeq
<1>8. t \in Seq(T) /\ Len(t) = Cardinality(T)
  BY <1>1, <1>2, SortedSeq
<1>9. s = InOrder(S) /\ t = InOrder(T)
  BY DEF SortedEvents
<1> HIDE DEF S, T, s, t, e, more, n
<1>10. \A f \in S : f.at < e.at
  <2>1. \A f \in S : f.at \in Nat
    BY <1>4 DEF EventsShape
  <2> QED
    BY <1>1, <1>4, <1>6, <2>1
<1>11. e \notin S
  <2>1. ~ (e.at < e.at)
    BY <1>1, <1>6
  <2> QED
    BY <1>10, <2>1
<1>13. /\ Cardinality(T) = l + 1 /\ InOrder(T)[l + 1] = e
       /\ \A k \in 1 .. l : InOrder(T)[k] = InOrder(S)[k]
  <2>1. EventsShape(S) /\ EventsShape(T) /\ AddsLast(S, T, e)
    BY <1>3, <1>4, <1>5, <1>10, <1>11 DEF AddsLast
  <2>2. /\ Cardinality(T) = Cardinality(S) + 1 /\ InOrder(T)[Cardinality(S) + 1] = e
        /\ \A k \in 1 .. Cardinality(S) : InOrder(T)[k] = InOrder(S)[k]
    BY <2>1, SortedAppend
  <2> QED
    BY <2>2
<1>14. Len(t) = l + 1 /\ t[l + 1] = e /\ \A k \in 1 .. l : t[k] = s[k]
  BY <1>3, <1>8, <1>9, <1>13
<1> HIDE DEF l
<1>15. s \in Seq(T) /\ e \in T
  <2>1. S \subseteq T /\ e \in T
    BY <1>3
  <2> QED
    BY <1>7, <2>1, SeqMonotonic
<1> DEFINE u == Append(s, e)
<1>16. /\ u \in Seq(T) /\ Len(u) = Len(s) + 1 /\ u[Len(s) + 1] = e
       /\ \A k \in 1 .. Len(s) : u[k] = s[k]
  BY <1>15, AppendProperties
<1> HIDE DEF u
<1>17. ASSUME NEW k \in 1 .. Len(t) PROVE t[k] = u[k]
  <2>1. k \in 1 .. l \/ k = l + 1
    BY <1>7, <1>14
  <2>2. CASE k \in 1 .. l
    <3>1. t[k] = s[k]
      BY <1>14, <2>2
    <3>2. u[k] = s[k]
      BY <1>7, <1>16, <2>2
    <3> QED
      BY <3>1, <3>2
  <2>3. CASE k = l + 1
    <3>1. t[k] = e
      BY <1>14, <2>3
    <3>2. u[k] = e
      BY <1>7, <1>16, <2>3
    <3> QED
      BY <3>1, <3>2
  <2> QED
    BY <2>1, <2>2, <2>3
<1>18. Len(u) = Len(t)
  BY <1>7, <1>14, <1>16
<1>19. t = u
  BY <1>8, <1>16, <1>17, <1>18, SeqEqual
<1> QED
  BY <1>19 DEF t, u, s, e, more, n

\* A sequence from a place to that place.
LEMMA SubSeqOfOne ==
  ASSUME NEW S, NEW t, NEW k \in Int, t[k] \in S
  PROVE  SubSeq(t, k, k) = <<t[k]>>
<1> DEFINE u == SubSeq(t, k, k)
           v == <<t[k]>>
<1>1. \A i \in k .. k : t[i] \in S
  <2>1. \A i \in k .. k : i = k
    OBVIOUS
  <2> QED
    BY <2>1
<1>2. /\ u \in Seq(S) /\ Len(u) = (IF k <= k THEN k - k + 1 ELSE 0)
      /\ \A i \in 1 .. k - k + 1 : u[i] = t[k + i - 1]
  BY <1>1, SubSeqProperties
<1>3. v \in Seq(S) /\ Len(v) = 1 /\ v[1] = t[k]
  OBVIOUS
<1> HIDE DEF u, v
<1>4. Len(u) = 1
  BY <1>2
<1>5. u[1] = t[k]
  <2>1. 1 \in 1 .. k - k + 1 /\ k + 1 - 1 = k
    OBVIOUS
  <2> QED
    BY <1>2, <2>1
<1>6. \A i \in 1 .. Len(u) : u[i] = v[i]
  <2>1. \A i \in 1 .. Len(u) : i = 1
    BY <1>4
  <2> QED
    BY <1>3, <1>5, <2>1
<1>7. u = v
  BY <1>2, <1>3, <1>4, <1>6, SeqEqual
<1> QED
  BY <1>7 DEF u, v

\* A candle that changes no swing is appended.
LEMMA AppendCandleOK ==
  ASSUME NEW seq, CandlesOK(seq), NEW c, IsCandle(c), NEW sw, SwingsOK(sw, Len(seq)),
         NEW st, StructureOK(st, seq, sw)
  PROVE  StructureOK(AppendCandle(st, Append(seq, c)), Append(seq, c), sw)
<1> DEFINE n == Len(seq)
           more == Append(seq, c)
           e == CandleEvent(n + 1, c.close)
           S == Events(more, sw)
           s == SortedEvents(seq, sw)
           t == SortedEvents(more, sw)
           l == Len(s)
<1>1. n \in Nat /\ CandlesOK(more) /\ Len(more) = n + 1 /\ more[n + 1] = c
  BY CandlesAppend
<1>2. SwingsOK(sw, n + 1)
  BY <1>1, SwingsOfMore
<1>3. t = Append(s, e)
  BY SortedOfMore
<1>4. t \in Seq(S)
  BY <1>1, <1>2, SortedSeq
<1>5. s \in Seq(S) /\ l \in Nat
  <2>1. s \in Seq(Events(seq, sw))
    BY SortedSeq
  <2>2. Events(seq, sw) \subseteq S
    BY EventsAppend
  <2> HIDE DEF s, S
  <2>3. s \in Seq(S)
    BY <2>1, <2>2, SeqMonotonic
  <2> QED
    BY <2>3, LenProperties
<1>6. Last(more) = c
  BY <1>1 DEF Last
<1>7. st = [swings |-> sw, relationships |-> st.relationships, events |-> s,
            checkpoints |-> Checkpoints(s)]
  BY DEF StructureOK
<1>8. Len(Checkpoints(s)) = l
  <2>1. Checkpoints(s) = [k \in 1 .. l |-> Checkpoints(s)[k]]
    BY DEF Checkpoints
  <2> HIDE DEF s
  <2> DEFINE f == Checkpoints(s)
  <2> HIDE DEF f, l
  <2>2. f = [k \in 1 .. l |-> f[k]]
    BY <2>1 DEF f
  <2>3. Len(f) = l
    BY <1>5, <2>2, FunctionSeq
  <2> QED
    BY <2>3 DEF f
<1>9. AppendCandle(st, more)
        = [st EXCEPT !.events = Append(st.events, e),
                     !.checkpoints = ResumeWalk(st.checkpoints, Len(st.checkpoints), <<e>>)]
  BY <1>1, <1>6 DEF AppendCandle
<1> HIDE DEF s, t, more, n, e, S
<1>10. e \in S
  <2>1. CandleEvent(n + 1, c.close) \in Events(Append(seq, c), sw)
    BY EventsAppend DEF n
  <2> QED
    BY <2>1 DEF S, more, e
<1>11. /\ Len(t) = l + 1 /\ t[l + 1] = e /\ \A k \in 1 .. l : t[k] = s[k]
  BY <1>3, <1>5, <1>10, AppendProperties
<1> HIDE DEF l
<1>12. SubSeq(t, l + 1, Len(t)) = <<e>>
  <2>1. t[l + 1] \in S /\ l + 1 \in Int
    BY <1>5, <1>10, <1>11
  <2>2. SubSeq(t, l + 1, l + 1) = <<t[l + 1]>>
    BY <2>1, SubSeqOfOne
  <2> QED
    BY <1>11, <2>2
<1>13. ResumeWalk(Checkpoints(s), l, <<e>>) = Checkpoints(t)
  <2>1. l <= Len(s) /\ l <= Len(t) /\ \A k \in 1 .. l : s[k] = t[k]
    BY <1>5, <1>11 DEF l
  <2>2. ResumeWalk(Checkpoints(s), l, SubSeq(t, l + 1, Len(t))) = Checkpoints(t)
    BY <1>4, <1>5, <2>1, ResumeOK
  <2> QED
    BY <1>12, <2>2
<1>14. st.events = s /\ st.checkpoints = Checkpoints(s) /\ st.swings = sw
  BY StructureFields DEF s
<1>15. AppendCandle(st, more) = [st EXCEPT !.events = t, !.checkpoints = Checkpoints(t)]
  BY <1>3, <1>8, <1>9, <1>13, <1>14
<1> DEFINE a == AppendCandle(st, more)
<1> DEFINE old == Checkpoints(s)
           new == Checkpoints(t)
           relationships == st.relationships
<1>16. a = [swings |-> sw, relationships |-> relationships, events |-> t, checkpoints |-> new]
  <2>1. /\ st = [swings |-> sw, relationships |-> relationships, events |-> s, checkpoints |-> old]
        /\ a = [st EXCEPT !.events = t, !.checkpoints = new]
    BY <1>7, <1>15
  <2> HIDE DEF a, old, new, relationships
  <2> QED
    BY <2>1
<1> HIDE DEF a, relationships
<1>17. a = [swings |-> sw, relationships |-> a.relationships, events |-> t,
            checkpoints |-> Checkpoints(t)]
  BY <1>16
<1> QED
  BY <1>17 DEF StructureOK, a, t, more

\* Changed swings walk again from the first event that changed.
LEMMA RebuildOK ==
  ASSUME NEW seq, CandlesOK(seq), NEW sw, SwingsOK(sw, Len(seq)), NEW st, StructureOK(st, seq, sw),
         NEW more, CandlesOK(more), NEW su, SwingsOK(su, Len(more))
  PROVE  StructureOK(RebuildFrom(more, su, st), more, su)
<1> DEFINE S == Events(seq, sw)
           T == Events(more, su)
           U == S \cup T
           s == SortedEvents(seq, sw)
           t == SortedEvents(more, su)
           m == Len(LongestCommonPrefix({s, t}))
           r == DetectSwingRelationships(su)
           a == RebuildFrom(more, su, st)
<1>1. s \in Seq(S) /\ t \in Seq(T)
  BY SortedSeq
<1> HIDE DEF S, T
<1>2. s \in Seq(U) /\ t \in Seq(U)
  <2>1. S \subseteq U /\ T \subseteq U
    OBVIOUS
  <2> HIDE DEF U, s, t
  <2> QED
    BY <1>1, <2>1, SeqMonotonic
<1> HIDE DEF U
<1>3. st.events = s /\ st.checkpoints = Checkpoints(s)
  BY StructureFields
<1>4. m \in Nat /\ m <= Len(s) /\ m <= Len(t) /\ \A i \in 1 .. m : s[i] = t[i]
  <2> HIDE DEF s, t
  <2> QED
    BY <1>2, CommonPrefix
<1>5. a = [swings |-> su, relationships |-> r, events |-> t,
           checkpoints |-> ResumeWalk(Checkpoints(s), m, SubSeq(t, m + 1, Len(t)))]
  BY <1>3 DEF RebuildFrom
<1> HIDE DEF s, t, m
<1>6. ResumeWalk(Checkpoints(s), m, SubSeq(t, m + 1, Len(t))) = Checkpoints(t)
  BY <1>2, <1>4, ResumeOK
<1> HIDE DEF a, r
<1>7. a = [swings |-> su, relationships |-> r, events |-> t, checkpoints |-> Checkpoints(t)]
  BY <1>5, <1>6
<1>8. a = [swings |-> su, relationships |-> a.relationships, events |-> t, checkpoints |-> Checkpoints(t)]
  BY <1>7
<1> QED
  BY <1>8 DEF StructureOK, a, t

\* The structure after a candle.
LEMMA StructureStep ==
  ASSUME NEW seq, CandlesOK(seq), NEW c, IsCandle(c), NEW sw, SwingsOK(sw, Len(seq)),
         NEW su, SwingsOK(su, Len(seq) + 1), NEW st, StructureOK(st, seq, sw)
  PROVE  StructureOK(AdvanceStructure(st, Append(seq, c), su), Append(seq, c), su)
<1> DEFINE more == Append(seq, c)
<1>1. CandlesOK(more) /\ Len(more) = Len(seq) + 1
  BY CandlesAppend
<1>2. st.swings = sw
  BY StructureFields
<1>3. CASE su = sw
  BY <1>2, <1>3, AppendCandleOK DEF AdvanceStructure
<1>4. CASE su # sw
  <2> HIDE DEF more
  <2>1. StructureOK(RebuildFrom(more, su, st), more, su)
    BY <1>1, RebuildOK
  <2> QED
    BY <1>2, <1>4, <2>1 DEF AdvanceStructure, more
<1> QED
  BY <1>3, <1>4

\* Before any candle there is nothing to walk.
LEMMA InitialStructureOK == StructureOK(InitialStructure, << >>, << >>)
<1> DEFINE S == Events(<< >>, << >>)
<1>1. DOMAIN << >> = {}
  OBVIOUS
<1>2. S = {}
  BY <1>1 DEF Events, DetectSwingRelationships
<1>3. Cardinality(S) = 0
  BY <1>2, FS_EmptySet
<1> HIDE DEF S
<1>4. InOrder(S) = [k \in 1 .. Cardinality(S) |-> CHOOSE e \in {f \in S : RankOf(S, f) = k - 1} : TRUE]
  BY InOrderIs
<1>5. DOMAIN InOrder(S) = {}
  BY <1>3, <1>4
<1>6. SortedEvents(<< >>, << >>) = << >>
  <2>1. InOrder(S) = [k \in {} |-> InOrder(S)[k]]
    BY <1>3, <1>4
  <2>2. << >> = [k \in {} |-> << >>[k]]
    OBVIOUS
  <2>3. [k \in {} |-> InOrder(S)[k]] = [k \in {} |-> << >>[k]]
    OBVIOUS
  <2>4. InOrder(S) = << >>
    BY <2>1, <2>2, <2>3
  <2> QED
    BY <2>4 DEF SortedEvents, S
<1>7. Checkpoints(<< >>) = << >>
  <2>1. 1 .. Len(<< >>) = {}
    OBVIOUS
  <2>2. Checkpoints(<< >>) = [k \in {} |-> WalkFrom(InitialWalk, << >>)[k]]
    BY <2>1 DEF Checkpoints
  <2>3. << >> = [k \in {} |-> << >>[k]]
    OBVIOUS
  <2> QED
    BY <2>2, <2>3
<1> QED
  BY <1>6, <1>7 DEF StructureOK, InitialStructure

\* Where the resumed walk ends, the walk over all events does.
LEMMA WalkResultIs ==
  ASSUME NEW seq, CandlesOK(seq), NEW sw, SwingsOK(sw, Len(seq)), NEW st, StructureOK(st, seq, sw)
  PROVE  WalkResult(st) = RunStructureWalk(seq, sw)
<1> DEFINE s == SortedEvents(seq, sw)
           l == Len(s)
           f == Checkpoints(s)
<1>1. l \in Nat
  BY SortedSeq
<1>2. st.checkpoints = f
  BY StructureFields
<1>3. RunStructureWalk(seq, sw) = WalkFrom(InitialWalk, s)[l]
  BY DEF RunStructureWalk
<1> HIDE DEF s
<1>4. WalkFrom(InitialWalk, s)[0] = InitialWalk
  BY <1>1, WalkSteps
<1>5. f = [k \in 1 .. l |-> f[k]] /\ \A k \in 1 .. l : f[k] = WalkFrom(InitialWalk, s)[k]
  BY DEF Checkpoints
<1> HIDE DEF f, l
<1>6. Len(f) = l
  BY <1>1, <1>5, FunctionSeq
<1>7. WalkAt(f, l) = WalkFrom(InitialWalk, s)[l]
  <2>1. l # 0 => l \in 1 .. l
    BY <1>1
  <2> QED
    BY <1>4, <1>5, <2>1 DEF WalkAt
<1> QED
  BY <1>2, <1>3, <1>6, <1>7 DEF WalkResult

\* A sequence is one of what it holds.
LEMMA SeqOfHeld ==
  ASSUME NEW S, NEW s \in Seq(S)
  PROVE  s \in Seq(Range(s)) /\ Len(s) \in Nat /\ DOMAIN s = 1 .. Len(s)
<1>1. Len(s) \in Nat /\ DOMAIN s = 1 .. Len(s)
  BY LenProperties
<1> DEFINE R == Range(s)
           n == Len(s)
<1>2. \A i \in 1 .. n : s[i] \in R
  BY <1>1 DEF Range
<1>3. s = [i \in 1 .. n |-> s[i]]
  BY <1>1
<1> HIDE DEF R, n
<1>4. s \in [1 .. n -> R]
  BY <1>2, <1>3
<1>5. s \in Seq(R)
  BY <1>1, <1>4 DEF n
<1>6. R = Range(s)
  BY DEF R
<1> QED
  BY <1>1, <1>5, <1>6

\* The swings the batch detector finds.
LEMMA DetectedOK ==
  ASSUME NEW seq, CandlesOK(seq), NEW f, AtrsOK(f, seq), RawOK(SinglePivots(seq, f), Len(seq))
  PROVE  SwingsOK(DetectConfirmedSwings(seq), Len(seq))
<1> DEFINE n == Len(seq)
           raw == SinglePivots(seq, f)
           pivots == Pivots(raw)
           S == PivotsOf(raw)
           confirmations == [k \in DOMAIN pivots |-> Confirmation(pivots[k], seq)]
           found == AlternatingSwings(pivots, confirmations)
<1>1. n \in Nat /\ RawOK(raw, n)
  BY LenProperties DEF CandlesOK
<1>2. f = AtrSeries(seq)
  BY AtrsAreBatch
<1>3. CASE n < 2 * WindowRadius + 1
  <2>1. DetectConfirmedSwings(seq) = << >>
    BY <1>3 DEF DetectConfirmedSwings
  <2>2. << >> \in Seq(Range(<< >>)) /\ Len(<< >>) = 0
    OBVIOUS
  <2>3. SwingsOK(<< >>, n)
    BY <2>2 DEF SwingsOK, Ascending
  <2> QED
    BY <2>1, <2>3
<1>4. CASE ~ (n < 2 * WindowRadius + 1)
  <2>1. DetectConfirmedSwings(seq) = found
    BY <1>2, <1>4 DEF DetectConfirmedSwings
  <2> HIDE DEF raw, n
  <2>2. /\ pivots \in Seq(S) /\ Ascending(pivots) /\ DOMAIN pivots = 1 .. Len(pivots) /\ Len(pivots) \in Nat
        /\ \A i \in 1 .. Len(pivots) : IsPivotOf(raw, pivots[i])
    BY <1>1, PivotsOK
  <2> HIDE DEF pivots, S
  <2>3. ASSUME NEW j \in 1 .. Len(pivots)
        PROVE  /\ pivots[j].start \in 1 .. n /\ pivots[j].end \in 1 .. n /\ pivots[j].type \in {High, Low}
               /\ LocalIndex(pivots[j]) \in Nat
    <3>1. IsPivotOf(raw, pivots[j])
      BY <2>2
    <3>2. /\ pivots[j].start \in Nat /\ pivots[j].end \in Nat /\ pivots[j].type \in {High, Low}
          /\ pivots[j].start <= pivots[j].end /\ pivots[j].start > WindowRadius /\ pivots[j].end + WindowRadius <= n
      BY <1>1, <3>1, PivotOfShape
    <3> QED
      BY <1>1, <3>2 DEF WindowRadius, LocalIndex
  <2>4. ASSUME NEW j \in 1 .. Len(pivots) PROVE IsConfirmation(confirmations[j], n)
    <3>1. IsConfirmation(Confirmation(pivots[j], seq), n)
      BY <2>3, ConfirmationAt DEF n
    <3> QED
      BY <2>2, <3>1
  <2> HIDE DEF confirmations
  <2>5. SwingsOf(found, pivots, confirmations, n, Len(pivots))
    BY <1>1, <2>2, <2>4, AlternatingOK
  <2> HIDE DEF found
  <2>6. found \in Seq(Range(found)) /\ Ascending(found)
    BY <2>5, SeqOfHeld DEF SwingsOf
  <2>7. ASSUME NEW i \in 1 .. Len(found)
        PROVE  /\ found[i].type \in {High, Low} /\ found[i].start \in 1 .. n /\ found[i].end \in 1 .. n
               /\ found[i].confirmed \in 1 .. n
    <3>1. PICK j \in 1 .. Len(pivots) :
            /\ confirmations[j].at \in 1 .. n
            /\ found[i] = Swing(pivots[j], confirmations[j].at, confirmations[j].excursion)
      BY <2>5 DEF SwingsOf
    <3>2. /\ found[i].type = pivots[j].type /\ found[i].start = pivots[j].start
          /\ found[i].end = pivots[j].end /\ found[i].confirmed = confirmations[j].at
      BY <3>1 DEF Swing
    <3> QED
      BY <2>3, <3>1, <3>2
  <2>8. SwingsOK(found, n)
    BY <2>6, <2>7 DEF SwingsOK
  <2> QED
    BY <2>1, <2>8 DEF n
<1> QED
  BY <1>3, <1>4

-----------------------------------------------------------------------------
(* The invariant of the measurements and of the structure.                 *)

MarketInv ==
  /\ CandlesOK(candles)
  /\ AtrsOK(atrs, candles)
  /\ AtrStateOK(atrState, atrs, candles)
  /\ RawOK(rawPivots, Len(candles))
  /\ rawPivots = SinglePivots(candles, atrs)
  /\ TrackersOK(trackers, rawPivots, candles)
  /\ MeasurementsAreBatch
  /\ StructureOK(structure, candles, swings)

\* The invariant holds of the empty chart,
LEMMA MarketInit == Init => MarketInv
<1> SUFFICES ASSUME Init PROVE MarketInv
  OBVIOUS
<1>1. /\ candles = << >> /\ atrs = << >> /\ atrState = InitialAtrState /\ rawPivots = << >>
      /\ trackers = EmptyMap /\ swings = << >> /\ displacements = << >> /\ structure = InitialStructure
  BY DEF Init
<1>2. Len(<< >>) = 0 /\ << >> \in Seq(Range(<< >>)) /\ << >> \in Seq(Nat \cup {None}) /\ << >> \in Seq(Pivot)
  OBVIOUS
<1>3. CandlesOK(<< >>)
  BY <1>2 DEF CandlesOK
<1>4. AtrsOK(<< >>, << >>) /\ AtrStateOK(InitialAtrState, << >>, << >>)
  BY AtrsInit
<1>5. RawOK(<< >>, 0)
  BY <1>2 DEF RawOK
<1>6. TrackersOK(EmptyMap, << >>, << >>)
  <2>1. Pivots(<< >>) \in Seq(PivotsOf(<< >>)) /\ Len(Pivots(<< >>)) \in Nat
        /\ DOMAIN Pivots(<< >>) = 1 .. Len(Pivots(<< >>))
        /\ \A i \in 1 .. Len(Pivots(<< >>)) : IsPivotOf(<< >>, Pivots(<< >>)[i])
    BY <1>5, PivotsOK
  <2>2. \A q : ~ IsPivotOf(<< >>, q)
    BY <1>2 DEF IsPivotOf
  <2>3. DOMAIN Pivots(<< >>) = {}
    BY <2>1, <2>2
  <2>4. Range(Pivots(<< >>)) = {}
    BY <2>3 DEF Range
  <2>5. DOMAIN EmptyMap = {}
    BY DEF EmptyMap
  <2> QED
    BY <2>4, <2>5 DEF TrackersOK
<1>7. DetectConfirmedSwings(<< >>) = << >>
  BY <1>2 DEF DetectConfirmedSwings, WindowRadius
<1>8. MeasurementsAreBatch
  BY <1>1, <1>7, NoDisplacements DEF MeasurementsAreBatch
<1> QED
  BY <1>1, <1>2, <1>3, <1>4, <1>5, <1>6, <1>8, NoSingles, InitialStructureOK DEF MarketInv

\* every candle keeps it,
LEMMA MarketStep ==
  ASSUME MarketInv, NEW c, IsCandle(c), Advance(c)
  PROVE  MarketInv'
<1> DEFINE n == Len(candles)
           more == Append(candles, c)
           state == AtrStep(atrState, c)
           measures == Append(atrs, state.atr)
           raw == AppendRawPivot(rawPivots, more, measures)
           tracked == UpdateTrackers(trackers, Pivots(rawPivots'), more)
<1>1. /\ candles' = more /\ atrState' = state /\ atrs' = measures
      /\ rawPivots' = raw /\ trackers' = tracked
      /\ swings' = DeriveConfirmedSwings(Pivots(rawPivots'), trackers')
      /\ displacements' = AppendDisplacement(displacements, more)
      /\ structure' = AdvanceStructure(structure, more, swings')
  BY DEF Advance
<1>2. /\ CandlesOK(candles) /\ AtrsOK(atrs, candles) /\ AtrStateOK(atrState, atrs, candles)
      /\ RawOK(rawPivots, n) /\ rawPivots = SinglePivots(candles, atrs)
      /\ TrackersOK(trackers, rawPivots, candles)
      /\ swings = DetectConfirmedSwings(candles) /\ displacements = DetectDisplacements(candles)
      /\ StructureOK(structure, candles, swings)
  BY DEF MarketInv, MeasurementsAreBatch
<1>3. CandlesOK(more) /\ n \in Nat /\ Len(more) = n + 1
  BY <1>2, CandlesAppend
<1>4. AtrsOK(measures, more) /\ AtrStateOK(state, measures, more)
  BY <1>2, AtrStepOK DEF AtrStep
<1> HIDE DEF measures, state
<1>5. /\ RawOK(raw, n + 1)
      /\ raw = rawPivots \/ \E p \in Pivot : raw = Append(rawPivots, p)
  BY <1>2, <1>4, RawAppend
<1>6. raw = SinglePivots(more, measures)
  BY <1>2, <1>4, SinglesAppend DEF measures
<1> HIDE DEF raw
<1>7. TrackersOK(tracked, raw, more)
  BY <1>1, <1>2, <1>5, TrackersStep
<1> HIDE DEF tracked
<1>8. swings' = DetectConfirmedSwings(more)
  <2> HIDE DEF more
  <2>1. RawOK(raw, Len(more))
    BY <1>3, <1>5
  <2>2. DeriveConfirmedSwings(Pivots(raw), tracked) = DetectConfirmedSwings(more)
    BY <1>3, <1>4, <1>6, <1>7, <2>1, SwingsAreBatch
  <2> QED
    BY <1>1, <2>2
<1>9. displacements' = DetectDisplacements(more)
  BY <1>1, <1>2, DisplacementsStep
<1>10. SwingsOK(swings, n)
  BY <1>2, DetectedOK
<1>11. SwingsOK(swings', n + 1)
  <2> HIDE DEF more
  <2>1. RawOK(SinglePivots(more, measures), Len(more))
    BY <1>3, <1>5, <1>6
  <2>2. SwingsOK(DetectConfirmedSwings(more), Len(more))
    BY <1>3, <1>4, <2>1, DetectedOK
  <2> QED
    BY <1>3, <1>8, <2>2
<1>12. StructureOK(structure', more, swings')
  <2>1. StructureOK(AdvanceStructure(structure, more, swings'), more, swings')
    BY <1>2, <1>10, <1>11, StructureStep
  <2> QED
    BY <1>1, <2>1
<1>13. MeasurementsAreBatch'
  BY <1>1, <1>8, <1>9 DEF MeasurementsAreBatch
<1>14. /\ CandlesOK(candles') /\ AtrsOK(atrs', candles') /\ AtrStateOK(atrState', atrs', candles')
       /\ RawOK(rawPivots', Len(candles')) /\ rawPivots' = SinglePivots(candles', atrs')
       /\ TrackersOK(trackers', rawPivots', candles')
       /\ StructureOK(structure', candles', swings')
  BY <1>1, <1>3, <1>4, <1>5, <1>6, <1>7, <1>12
<1> QED
  BY <1>13, <1>14 DEF MarketInv

\* and so does doing nothing.
LEMMA MarketStutter ==
  ASSUME MarketInv, UNCHANGED vars
  PROVE  MarketInv'
<1>1. /\ candles' = candles /\ atrState' = atrState /\ atrs' = atrs /\ rawPivots' = rawPivots
      /\ trackers' = trackers /\ swings' = swings /\ displacements' = displacements /\ structure' = structure
  BY DEF vars
<1>2. /\ CandlesOK(candles) /\ AtrsOK(atrs, candles) /\ AtrStateOK(atrState, atrs, candles)
      /\ RawOK(rawPivots, Len(candles)) /\ rawPivots = SinglePivots(candles, atrs)
      /\ TrackersOK(trackers, rawPivots, candles)
      /\ StructureOK(structure, candles, swings)
  BY DEF MarketInv
<1>3. /\ CandlesOK(candles') /\ AtrsOK(atrs', candles') /\ AtrStateOK(atrState', atrs', candles')
      /\ RawOK(rawPivots', Len(candles')) /\ rawPivots' = SinglePivots(candles', atrs')
      /\ TrackersOK(trackers', rawPivots', candles')
      /\ StructureOK(structure', candles', swings')
  BY <1>1, <1>2
<1>4. MeasurementsAreBatch'
  BY <1>1 DEF MarketInv, MeasurementsAreBatch
<1> QED
  BY <1>3, <1>4 DEF MarketInv

\* The invariant of every behaviour.
THEOREM MarketInvariant == Spec => []MarketInv
<1>1. MarketInv /\ [Next]_vars => MarketInv'
  <2>1. MarketInv /\ Next => MarketInv'
    BY MarketStep DEF Next
  <2> QED
    BY <2>1, MarketStutter
<1> QED
  BY MarketInit, <1>1, PTL DEF Spec

\* The replay's measurements are those of the batch.
THEOREM ReplayMeasurementsAreBatch == Spec => []MeasurementsAreBatch
<1>1. MarketInv => MeasurementsAreBatch
  BY DEF MarketInv
<1> QED
  BY MarketInvariant, <1>1, PTL

\* The resumed walk ends where the batch walk does.
THEOREM ReplayStructureIsBatch == Spec => []StructureIsBatch
<1>1. ASSUME MarketInv PROVE StructureIsBatch
  <2>1. /\ CandlesOK(candles) /\ AtrsOK(atrs, candles) /\ StructureOK(structure, candles, swings)
        /\ RawOK(SinglePivots(candles, atrs), Len(candles)) /\ swings = DetectConfirmedSwings(candles)
    BY <1>1 DEF MarketInv, MeasurementsAreBatch
  <2>2. SwingsOK(swings, Len(candles))
    BY <2>1, DetectedOK
  <2> QED
    BY <2>1, <2>2, WalkResultIs DEF StructureIsBatch
<1> QED
  BY MarketInvariant, <1>1, PTL

\* A swing of a side, or none.
IsOfSide(s, side) == s = NoSwing \/ (s.type = side /\ s.id[1] = side)

Fields == {"direction", "protected", "weak", "broken", "boundary", "label", "latest", "visible",
           "transitions", "lastChange"}

WalkShape(w) ==
  /\ DOMAIN w = Fields
  /\ w.direction \in {Undetermined, "BULLISH", "BEARISH"}
  /\ DOMAIN w.protected = Sides /\ DOMAIN w.weak = Sides /\ DOMAIN w.boundary = Sides
  /\ DOMAIN w.label = Sides /\ DOMAIN w.latest = Sides /\ DOMAIN w.visible = Sides

SwingsHeld(w, n) ==
  /\ \A side \in Sides : IsOfSide(w.protected[side], side) /\ IsOfSide(w.weak[side], side)
                         /\ IsOfSide(w.latest[side], side)
  /\ \A side \in Sides : \A s \in w.visible[side] : s.type = side /\ s.id[1] = side /\ s.index \in 1 .. n
  /\ \A side \in Sides : w.label[side] # "NONE" => w.latest[side] # NoSwing

LevelsOK(w) ==
  /\ w.direction # Undetermined =>
       /\ w.protected[Behind(w.direction)] # NoSwing
       /\ w.protected[Ahead(w.direction)] = NoSwing
       /\ w.weak[Behind(w.direction)] = NoSwing
  /\ w.direction = Undetermined =>
       w.broken = {} /\ \A side \in Sides : w.protected[side] = NoSwing /\ w.weak[side] = NoSwing
  /\ \A side \in Sides :
       /\ w.protected[side] # NoSwing => w.protected[side].id \notin w.broken
       /\ w.weak[side] # NoSwing => w.weak[side].id \notin w.broken

BrokenOnce(transitions, broken) ==
  /\ transitions \in Seq(Range(transitions))
  /\ \A k, l \in 1 .. Len(transitions) : transitions[k].broken = transitions[l].broken => k = l
  /\ \A k \in 1 .. Len(transitions) : transitions[k].broken \in broken

\* What every event relies on and keeps.
WalkOK(w, n) ==
  WalkShape(w) /\ SwingsHeld(w, n) /\ LevelsOK(w) /\ BrokenOnce(w.transitions, w.broken)

\* The sides of a direction.
LEMMA SidesOf ==
  /\ \A d \in {"BULLISH", "BEARISH"} :
       /\ Ahead(d) \in Sides /\ Behind(d) \in Sides /\ Ahead(d) # Behind(d)
       /\ Other(Behind(d)) = Ahead(d) /\ d # Undetermined
       /\ \A side \in Sides : side = Ahead(d) \/ side = Behind(d)
  /\ \A side \in Sides :
       /\ Toward(side) \in {"BULLISH", "BEARISH"} /\ Other(side) \in Sides /\ Other(side) # side
       /\ Ahead(Toward(side)) = side /\ Behind(Toward(side)) = Other(side)
  BY DEF Ahead, Behind, Other, Toward, Sides, Undetermined

\* The absent swing is of neither side.
LEMMA NoSwingType == NoSwing.type \notin Sides
  BY DEF NoSwing, Sides

\* The most recent of some seen swings is one of them.
LEMMA MostRecentIn ==
  ASSUME NEW n \in Nat, NEW T, T # {}, \A s \in T : s.index \in 1 .. n
  PROVE  MostRecent(T) \in T
<1> DEFINE I == {s.index : s \in T}
<1>1. I \in SUBSET Nat /\ I # {} /\ \A y \in I : y <= n
  OBVIOUS
<1>2. \A s \in T : s.index \in I
  OBVIOUS
<1>3. Max(I) \in I /\ \A y \in I : Max(I) >= y
  BY <1>1, GreatestOf
<1>4. PICK s \in T : s.index = Max(I)
  BY <1>3
<1> HIDE DEF I
<1>5. \A t \in T : s.index >= t.index
  BY <1>2, <1>3, <1>4
<1>6. \E r \in T : \A t \in T : r.index >= t.index
  BY <1>5
<1> QED
  BY <1>6 DEF MostRecent

\* One more transition, of a swing not broken before.
LEMMA OneMoreBroken ==
  ASSUME NEW a, NEW b, BrokenOnce(a, b), NEW t, t.broken \notin b
  PROVE  /\ BrokenOnce(Append(a, t), b \cup {t.broken})
         /\ Len(a) \in Nat /\ Len(a) <= Len(Append(a, t))
         /\ \A k \in 1 .. Len(a) : Append(a, t)[k] = a[k]
<1> DEFINE S == Range(a) \cup {t}
           u == Append(a, t)
           n == Len(a)
<1>1. a \in Seq(Range(a)) /\ Range(a) \subseteq S /\ t \in S
  BY DEF BrokenOnce
<1> HIDE DEF S
<1>2. a \in Seq(S)
  <2> DEFINE R == Range(a)
  <2>1. a \in Seq(R) /\ R \subseteq S
    BY <1>1
  <2> HIDE DEF R
  <2> QED
    BY <2>1, SeqMonotonic
<1>3. n \in Nat /\ u \in Seq(S) /\ Len(u) = n + 1 /\ u[n + 1] = t /\ \A k \in 1 .. n : u[k] = a[k]
  BY <1>1, <1>2, AppendProperties, LenProperties
<1> HIDE DEF u, n
<1>4. u \in Seq(Range(u))
  BY <1>3, SeqOfHeld
<1>5. \A k \in 1 .. n + 1 : k \in 1 .. n \/ k = n + 1
  BY <1>3
<1>6. \A k \in 1 .. n : a[k].broken \in b /\ u[k] = a[k]
  BY <1>3 DEF BrokenOnce, n
<1>7. ASSUME NEW k \in 1 .. n + 1, NEW l \in 1 .. n + 1, u[k].broken = u[l].broken PROVE k = l
  <2>1. CASE k \in 1 .. n /\ l \in 1 .. n
    <3>1. a[k].broken = a[l].broken
      BY <1>6, <1>7, <2>1
    <3> QED
      BY <2>1, <3>1 DEF BrokenOnce, n
  <2>2. CASE k \in 1 .. n /\ l = n + 1
    BY <1>3, <1>6, <1>7, <2>2
  <2>3. CASE k = n + 1 /\ l \in 1 .. n
    BY <1>3, <1>6, <1>7, <2>3
  <2>4. CASE k = n + 1 /\ l = n + 1
    BY <2>4
  <2> QED
    BY <1>5, <2>1, <2>2, <2>3, <2>4
<1>8. \A k \in 1 .. n + 1 : u[k].broken \in b \cup {t.broken}
  BY <1>3, <1>5, <1>6
<1>9. BrokenOnce(u, b \cup {t.broken})
  BY <1>3, <1>4, <1>7, <1>8 DEF BrokenOnce
<1> QED
  BY <1>3, <1>9 DEF u, n

\* What follows a walk: its transitions and what came of them.
Follows(v, w) ==
  /\ Len(w.transitions) <= Len(v.transitions)
  /\ \A k \in 1 .. Len(w.transitions) : v.transitions[k] = w.transitions[k]

\* A walk follows itself.
LEMMA FollowsItself ==
  ASSUME NEW n, NEW w, WalkOK(w, n)
  PROVE  Follows(w, w) /\ Len(w.transitions) \in Nat
<1>1. Len(w.transitions) \in Nat
  BY LenProperties DEF WalkOK, BrokenOnce
<1> QED
  BY <1>1 DEF Follows

-----------------------------------------------------------------------------
(* Each event keeps it.                                                    *)

\* A change of character keeps the walk correct and only appends to it.
LEMMA ChangeCharacterOK ==
  ASSUME NEW n \in Nat, NEW w, WalkOK(w, n), NEW e, BreaksProtected(w, e)
  PROVE  WalkOK(ChangeCharacter(w, e), n) /\ Follows(ChangeCharacter(w, e), w)
<1> DEFINE behind == Behind(w.direction)
           ahead == Other(behind)
           broken == w.protected[behind]
           spare == Unbroken(w, ahead, w.broken)
           next == MostRecent(spare)
           t == Transition("CHOCH", w, Toward(behind), broken, next, e)
           v == ChangeCharacter(w, e)
<1>1. CASE spare = {}
  <2>1. v = w
    BY <1>1 DEF ChangeCharacter
  <2> QED
    BY <2>1, FollowsItself
<1>2. CASE spare # {}
  <2>1. w.direction \in {"BULLISH", "BEARISH"} /\ broken # NoSwing
    BY DEF BreaksProtected, WalkOK, WalkShape
  <2>2. /\ behind \in Sides /\ ahead \in Sides /\ ahead # behind
        /\ Toward(behind) \in {"BULLISH", "BEARISH"}
        /\ Ahead(Toward(behind)) = behind /\ Behind(Toward(behind)) = ahead
        /\ Toward(behind) # Undetermined
        /\ \A side \in Sides : side = ahead \/ side = behind
    BY <2>1, SidesOf
  <2>3. next \in w.visible[ahead] /\ next.id \notin w.broken
    <3>1. spare \subseteq w.visible[ahead] /\ \A s \in spare : s.id \notin w.broken
      BY DEF Unbroken
    <3>2. \A s \in w.visible[ahead] : s.index \in 1 .. n
      BY <2>2 DEF WalkOK, SwingsHeld
    <3> HIDE DEF spare
    <3>3. next \in spare
      BY <1>2, <3>1, <3>2, MostRecentIn
    <3> QED
      BY <3>1, <3>3
  <2>4. next.type = ahead /\ next.id[1] = ahead /\ next # NoSwing
    <3>1. next.type = ahead /\ next.id[1] = ahead
      BY <2>2, <2>3 DEF WalkOK, SwingsHeld
    <3> QED
      BY <2>2, <3>1, NoSwingType
  <2>5. broken.id \notin w.broken /\ broken.id[1] = behind
    BY <2>1, <2>2 DEF WalkOK, LevelsOK, SwingsHeld, IsOfSide
  <2>6. next.id \notin w.broken \cup {broken.id}
    BY <2>2, <2>3, <2>4, <2>5
  <2>7. t.broken = broken.id
    BY DEF Transition
  <2>8. v = [w EXCEPT !.direction = Toward(behind),
                      !.protected = [side \in Sides |-> IF side = behind THEN NoSwing ELSE next],
                      !.weak = [side \in Sides |-> NoSwing],
                      !.broken = w.broken \cup {broken.id},
                      !.boundary = [w.boundary EXCEPT ![behind] = e.index],
                      !.transitions = Append(w.transitions, t),
                      !.lastChange = t.at]
    BY <1>2 DEF ChangeCharacter
  <2>9. DOMAIN w = Fields
    BY DEF WalkOK, WalkShape
  <2> HIDE DEF v, next, t, spare
  <2> DEFINE d == Toward(behind)
             spared == [side \in Sides |-> IF side = behind THEN NoSwing ELSE next]
             none == [side \in Sides |-> NoSwing]
             gone == w.broken \cup {broken.id}
             boundary == [w.boundary EXCEPT ![behind] = e.index]
             transitions == Append(w.transitions, t)
             at == t.at
  <2>10. v = [w EXCEPT !.direction = d, !.protected = spared, !.weak = none, !.broken = gone,
                       !.boundary = boundary, !.transitions = transitions, !.lastChange = at]
    BY <2>8
  <2>11. DOMAIN boundary = DOMAIN w.boundary
    OBVIOUS
  <2>12. /\ DOMAIN spared = Sides /\ DOMAIN none = Sides
         /\ spared[ahead] = next /\ spared[behind] = NoSwing /\ \A side \in Sides : none[side] = NoSwing
    BY <2>2
  <2>13. BrokenOnce(transitions, gone) /\ Len(w.transitions) <= Len(transitions)
         /\ \A k \in 1 .. Len(w.transitions) : transitions[k] = w.transitions[k]
    BY <2>5, <2>7, OneMoreBroken DEF WalkOK
  <2> HIDE DEF d, spared, none, gone, boundary, transitions, at
  <2>14. /\ DOMAIN v = Fields /\ v.direction = d /\ v.protected = spared /\ v.weak = none
         /\ v.broken = gone /\ v.boundary = boundary /\ v.transitions = transitions
         /\ v.label = w.label /\ v.latest = w.latest /\ v.visible = w.visible
    BY <2>9, <2>10 DEF Fields
  <2>15. WalkShape(v)
    BY <2>2, <2>11, <2>12, <2>14 DEF d, WalkOK, WalkShape
  <2>16. SwingsHeld(v, n)
    <3>1. \A side \in Sides : IsOfSide(spared[side], side) /\ IsOfSide(none[side], side)
      BY <2>2, <2>4, <2>12 DEF IsOfSide
    <3> QED
      BY <2>14, <3>1 DEF WalkOK, SwingsHeld
  <2>17. LevelsOK(v)
    <3>1. /\ v.protected[Behind(v.direction)] # NoSwing /\ v.protected[Ahead(v.direction)] = NoSwing
          /\ v.weak[Behind(v.direction)] = NoSwing /\ v.direction # Undetermined
      BY <2>2, <2>4, <2>12, <2>14 DEF d
    <3>2. \A side \in Sides :
            /\ v.protected[side] # NoSwing => v.protected[side].id \notin v.broken
            /\ v.weak[side] # NoSwing => v.weak[side].id \notin v.broken
      BY <2>2, <2>6, <2>12, <2>14 DEF gone
    <3> QED
      BY <3>1, <3>2 DEF LevelsOK
  <2> QED
    BY <2>13, <2>14, <2>15, <2>16, <2>17 DEF WalkOK, Follows, v
<1> QED
  BY <1>1, <1>2

\* A break of structure keeps the walk correct and only appends to it.
LEMMA BreakStructureOK ==
  ASSUME NEW n \in Nat, NEW w, WalkOK(w, n), NEW e, BreaksWeak(w, e)
  PROVE  WalkOK(BreakStructure(w, e), n) /\ Follows(BreakStructure(w, e), w)
<1> DEFINE ahead == Ahead(w.direction)
           behind == Behind(w.direction)
           broken == w.weak[ahead]
           spare == Unbroken(w, behind, w.broken \cup {broken.id})
           next == IF spare = {} THEN w.protected[behind] ELSE MostRecent(spare)
           t == Transition("BOS", w, w.direction, broken, next, e)
           v == BreakStructure(w, e)
           gone == w.broken \cup {broken.id}
<1>1. w.direction \in {"BULLISH", "BEARISH"} /\ broken # NoSwing
  BY DEF BreaksWeak, WalkOK, WalkShape
<1>2. /\ behind \in Sides /\ ahead \in Sides /\ ahead # behind /\ w.direction # Undetermined
      /\ \A side \in Sides : side = ahead \/ side = behind
  BY <1>1, SidesOf
<1>3. broken.id \notin w.broken /\ broken.id[1] = ahead
  BY <1>1, <1>2 DEF WalkOK, LevelsOK, SwingsHeld, IsOfSide
<1>4. /\ w.protected[behind] # NoSwing /\ w.protected[ahead] = NoSwing /\ w.weak[behind] = NoSwing
      /\ w.protected[behind].id \notin w.broken /\ IsOfSide(w.protected[behind], behind)
  BY <1>2 DEF WalkOK, LevelsOK, SwingsHeld
<1>5. next # NoSwing /\ IsOfSide(next, behind) /\ next.id \notin gone
  <2>1. CASE spare = {}
    <3>1. next = w.protected[behind]
      BY <2>1
    <3>2. next.id[1] = behind
      BY <1>4, <3>1 DEF IsOfSide
    <3> QED
      BY <1>2, <1>3, <1>4, <3>1, <3>2
  <2>2. CASE spare # {}
    <3>1. spare \subseteq w.visible[behind] /\ \A s \in spare : s.id \notin gone
      BY DEF Unbroken
    <3>2. \A s \in w.visible[behind] : s.type = behind /\ s.id[1] = behind /\ s.index \in 1 .. n
      BY <1>2 DEF WalkOK, SwingsHeld
    <3>3. next = MostRecent(spare)
      BY <2>2
    <3> HIDE DEF spare, gone, next
    <3>4. next \in spare
      BY <2>2, <3>1, <3>2, <3>3, MostRecentIn
    <3>5. next.type = behind /\ next.id[1] = behind /\ next.id \notin gone
      BY <3>1, <3>2, <3>4
    <3>6. next # NoSwing
      BY <1>2, <3>5, NoSwingType
    <3> QED
      BY <3>5, <3>6 DEF IsOfSide
  <2> QED
    BY <2>1, <2>2
<1>6. t.broken = broken.id
  BY DEF Transition
<1> DEFINE spared == [w.protected EXCEPT ![behind] = next]
           weak == [w.weak EXCEPT ![ahead] = NoSwing]
           boundary == [w.boundary EXCEPT ![ahead] = e.index]
           transitions == Append(w.transitions, t)
           at == t.at
<1>7. v = [w EXCEPT !.protected = spared, !.weak = weak, !.broken = gone, !.boundary = boundary,
                    !.transitions = transitions, !.lastChange = at]
  BY DEF BreakStructure
<1>8. WalkShape(w) /\ SwingsHeld(w, n) /\ BrokenOnce(w.transitions, w.broken)
  BY DEF WalkOK
<1> HIDE DEF next, t, spare, v
<1>9. BrokenOnce(transitions, gone) /\ Len(w.transitions) <= Len(transitions)
      /\ \A k \in 1 .. Len(w.transitions) : transitions[k] = w.transitions[k]
  BY <1>3, <1>6, <1>8, OneMoreBroken
<1>10. /\ DOMAIN spared = Sides /\ DOMAIN weak = Sides /\ DOMAIN boundary = Sides
       /\ spared[behind] = next /\ spared[ahead] = NoSwing
       /\ weak[ahead] = NoSwing /\ weak[behind] = NoSwing
  BY <1>2, <1>4, <1>8 DEF WalkShape
<1> HIDE DEF spared, weak, boundary, transitions, at
<1>11. DOMAIN w = Fields
  BY <1>8 DEF WalkShape
<1> HIDE DEF gone
<1>12. /\ DOMAIN v = Fields /\ v.direction = w.direction /\ v.protected = spared /\ v.weak = weak
       /\ v.broken = gone /\ v.boundary = boundary /\ v.transitions = transitions
       /\ v.label = w.label /\ v.latest = w.latest /\ v.visible = w.visible
  BY <1>7, <1>11 DEF Fields
<1>13. WalkShape(v)
  BY <1>8, <1>10, <1>12 DEF WalkShape
<1>14. SwingsHeld(v, n)
  <2>1. \A side \in Sides : IsOfSide(spared[side], side) /\ IsOfSide(weak[side], side)
    BY <1>2, <1>5, <1>10 DEF IsOfSide
  <2> QED
    BY <1>8, <1>12, <2>1 DEF SwingsHeld
<1>15. LevelsOK(v)
  <2>1. /\ v.protected[Behind(v.direction)] # NoSwing /\ v.protected[Ahead(v.direction)] = NoSwing
        /\ v.weak[Behind(v.direction)] = NoSwing /\ v.direction # Undetermined
    BY <1>2, <1>5, <1>10, <1>12
  <2>2. \A side \in Sides :
          /\ v.protected[side] # NoSwing => v.protected[side].id \notin v.broken
          /\ v.weak[side] # NoSwing => v.weak[side].id \notin v.broken
    BY <1>2, <1>5, <1>10, <1>12
  <2> QED
    BY <2>1, <2>2 DEF LevelsOK
<1> QED
  BY <1>9, <1>12, <1>13, <1>14, <1>15 DEF WalkOK, Follows, v

\* A swing event keeps the walk correct and changes no transition.
LEMMA StepSwingOK ==
  ASSUME NEW n \in Nat, NEW w, WalkOK(w, n), NEW s, IsSeen(s, n), NEW e, e.swing = s
  PROVE  WalkOK(StepSwing(w, e), n) /\ Follows(StepSwing(w, e), w)
<1> DEFINE side == s.type
           visible == [w.visible EXCEPT ![side] = w.visible[side] \cup {s}]
           seen == [w EXCEPT !.visible = visible]
           v == StepSwing(w, e)
           starts == /\ w.direction # Undetermined
                     /\ side = Ahead(w.direction)
                     /\ w.weak[side] = NoSwing
                     /\ s.index > w.boundary[side]
                     /\ s.id \notin w.broken
           weak == [w.weak EXCEPT ![side] = s]
           at == Max({w.lastChange, s.at})
<1>1. WalkShape(w) /\ SwingsHeld(w, n) /\ LevelsOK(w) /\ BrokenOnce(w.transitions, w.broken) /\ DOMAIN w = Fields
  BY DEF WalkOK, WalkShape
<1>2. side \in Sides /\ s.id[1] = side /\ s.index \in 1 .. n /\ s # NoSwing
  BY NoSwingType DEF IsSeen
<1>3. /\ DOMAIN visible = Sides
      /\ visible[side] = w.visible[side] \cup {s}
      /\ \A other \in Sides : other # side => visible[other] = w.visible[other]
  BY <1>1, <1>2 DEF WalkShape
<1>4. /\ DOMAIN weak = Sides /\ weak[side] = s
      /\ \A other \in Sides : other # side => weak[other] = w.weak[other]
  BY <1>1, <1>2 DEF WalkShape
<1>5. \A other \in Sides : \A r \in visible[other] : r.type = other /\ r.id[1] = other /\ r.index \in 1 .. n
  BY <1>1, <1>2, <1>3 DEF SwingsHeld
<1>6. /\ seen.lastChange = w.lastChange /\ seen.weak = w.weak
  BY <1>1 DEF Fields
<1>7. v = IF starts THEN [seen EXCEPT !.weak = [seen.weak EXCEPT ![side] = s],
                                      !.lastChange = Max({seen.lastChange, s.at})]
                    ELSE seen
  BY DEF StepSwing
<1>8. v = IF starts THEN [seen EXCEPT !.weak = weak, !.lastChange = at] ELSE seen
  BY <1>6, <1>7
<1> HIDE DEF visible, weak, at, v
<1>9. /\ DOMAIN seen = Fields /\ seen.direction = w.direction /\ seen.protected = w.protected
      /\ seen.weak = w.weak /\ seen.broken = w.broken /\ seen.boundary = w.boundary
      /\ seen.transitions = w.transitions /\ seen.label = w.label /\ seen.latest = w.latest
      /\ seen.visible = visible
  BY <1>1 DEF Fields
<1> HIDE DEF seen
<1>10. CASE ~ starts
  <2>1. v = seen
    BY <1>8, <1>10
  <2> HIDE DEF starts
  <2>2. WalkShape(seen)
    BY <1>1, <1>3, <1>9 DEF WalkShape
  <2>3. SwingsHeld(seen, n)
    BY <1>1, <1>5, <1>9 DEF SwingsHeld
  <2>4. LevelsOK(seen)
    BY <1>1, <1>9 DEF LevelsOK
  <2>5. BrokenOnce(seen.transitions, seen.broken)
    BY <1>1, <1>9
  <2>6. Follows(seen, w)
    BY <1>9, FollowsItself DEF Follows
  <2> QED
    BY <2>1, <2>2, <2>3, <2>4, <2>5, <2>6 DEF WalkOK, v
<1>11. CASE starts
  <2>1. v = [seen EXCEPT !.weak = weak, !.lastChange = at]
    BY <1>8, <1>11
  <2>2. w.direction # Undetermined /\ side = Ahead(w.direction) /\ s.id \notin w.broken
    BY <1>11
  <2> HIDE DEF starts
  <2>3. /\ DOMAIN v = Fields /\ v.direction = w.direction /\ v.protected = w.protected
        /\ v.weak = weak /\ v.broken = w.broken /\ v.boundary = w.boundary
        /\ v.transitions = w.transitions /\ v.label = w.label /\ v.latest = w.latest
        /\ v.visible = visible
    BY <1>9, <2>1 DEF Fields
  <2>4. WalkShape(v)
    BY <1>1, <1>3, <1>4, <2>3 DEF WalkShape
  <2>5. SwingsHeld(v, n)
    <3>1. \A other \in Sides : IsOfSide(weak[other], other)
      BY <1>1, <1>2, <1>4 DEF SwingsHeld, IsOfSide
    <3> QED
      BY <1>1, <1>5, <2>3, <3>1 DEF SwingsHeld
  <2>6. LevelsOK(v)
    <3>1. w.direction \in {"BULLISH", "BEARISH"}
      BY <1>1, <2>2 DEF WalkShape
    <3>2. Behind(w.direction) \in Sides /\ Behind(w.direction) # side
      BY <2>2, <3>1, SidesOf
    <3>3. weak[Behind(w.direction)] = NoSwing
      BY <1>1, <1>4, <2>2, <3>2 DEF LevelsOK
    <3>4. \A other \in Sides : weak[other] # NoSwing => weak[other].id \notin w.broken
      BY <1>1, <1>4, <2>2 DEF LevelsOK
    <3> QED
      BY <1>1, <2>2, <2>3, <3>3, <3>4 DEF LevelsOK
  <2>7. BrokenOnce(v.transitions, v.broken)
    BY <1>1, <2>3
  <2>8. Follows(v, w)
    BY <2>3, FollowsItself DEF Follows
  <2> QED
    BY <2>4, <2>5, <2>6, <2>7, <2>8 DEF WalkOK, v
<1> QED
  BY <1>10, <1>11

\* A relationship event keeps the walk correct and changes no transition.
LEMMA StepRelationshipOK ==
  ASSUME NEW n \in Nat, NEW w, WalkOK(w, n), NEW e, IsSeen(e.swing, n), e.label # "NONE"
  PROVE  WalkOK(StepRelationship(w, e), n) /\ Follows(StepRelationship(w, e), w)
<1> DEFINE s == e.swing
           side == s.type
           label == [w.label EXCEPT ![side] = e.label]
           latest == [w.latest EXCEPT ![side] = s]
           noted == [w EXCEPT !.label = label, !.latest = latest]
           agreed == Agreed(label)
           stays == w.direction # Undetermined \/ agreed = Undetermined
           v == StepRelationship(w, e)
<1>1. WalkShape(w) /\ SwingsHeld(w, n) /\ LevelsOK(w) /\ BrokenOnce(w.transitions, w.broken) /\ DOMAIN w = Fields
  BY DEF WalkOK, WalkShape
<1>2. side \in Sides /\ s.id[1] = side /\ s # NoSwing
  BY NoSwingType DEF IsSeen
<1>3. /\ DOMAIN label = Sides /\ label[side] = e.label
      /\ \A other \in Sides : other # side => label[other] = w.label[other]
  BY <1>1, <1>2 DEF WalkShape
<1>4. /\ DOMAIN latest = Sides /\ latest[side] = s
      /\ \A other \in Sides : other # side => latest[other] = w.latest[other]
  BY <1>1, <1>2 DEF WalkShape
<1>5. \A other \in Sides : IsOfSide(latest[other], other) /\ (label[other] # "NONE" => latest[other] # NoSwing)
  BY <1>1, <1>2, <1>3, <1>4 DEF SwingsHeld, IsOfSide
<1> HIDE DEF label, latest
<1>6. /\ DOMAIN noted = Fields /\ noted.direction = w.direction /\ noted.protected = w.protected
      /\ noted.weak = w.weak /\ noted.broken = w.broken /\ noted.boundary = w.boundary
      /\ noted.transitions = w.transitions /\ noted.label = label /\ noted.latest = latest
      /\ noted.visible = w.visible
  BY <1>1 DEF Fields
<1> DEFINE spared == [w.protected EXCEPT ![Behind(agreed)] = latest[Behind(agreed)]]
           weak == [w.weak EXCEPT ![Ahead(agreed)] = latest[Ahead(agreed)]]
           at == e.at
<1>7. v = IF stays THEN noted
          ELSE [noted EXCEPT !.direction = agreed, !.protected = spared, !.weak = weak, !.lastChange = at]
  <2>2. v = IF w.direction # Undetermined \/ Agreed(noted.label) = Undetermined
              THEN noted
              ELSE [noted EXCEPT !.direction = Agreed(noted.label),
                                 !.protected = [noted.protected EXCEPT
                                    ![Behind(Agreed(noted.label))] = noted.latest[Behind(Agreed(noted.label))]],
                                 !.weak = [noted.weak EXCEPT
                                    ![Ahead(Agreed(noted.label))] = noted.latest[Ahead(Agreed(noted.label))]],
                                 !.lastChange = e.at]
    BY DEF StepRelationship, label, latest
  <2> HIDE DEF noted, v
  <2>3. noted.label = label /\ noted.latest = latest /\ noted.protected = w.protected /\ noted.weak = w.weak
    BY <1>6
  <2> DEFINE a == Agreed(noted.label)
             p == [noted.protected EXCEPT ![Behind(a)] = noted.latest[Behind(a)]]
             q == [noted.weak EXCEPT ![Ahead(a)] = noted.latest[Ahead(a)]]
  <2>4. a = agreed
    BY <2>3
  <2>5. p = spared /\ q = weak
    BY <2>3, <2>4
  <2>6. v = IF w.direction # Undetermined \/ a = Undetermined
              THEN noted
              ELSE [noted EXCEPT !.direction = a, !.protected = p, !.weak = q, !.lastChange = at]
    BY <2>2
  <2> HIDE DEF a, p, q, agreed, spared, weak, at
  <2> QED
    BY <2>4, <2>5, <2>6
<1> HIDE DEF noted, v
<1>8. CASE stays
  <2>1. v = noted
    BY <1>7, <1>8
  <2>2. WalkShape(noted)
    BY <1>1, <1>3, <1>4, <1>6 DEF WalkShape
  <2>3. SwingsHeld(noted, n)
    BY <1>1, <1>5, <1>6 DEF SwingsHeld
  <2>4. LevelsOK(noted)
    BY <1>1, <1>6 DEF LevelsOK
  <2>5. BrokenOnce(noted.transitions, noted.broken)
    BY <1>1, <1>6
  <2>6. Follows(noted, w)
    BY <1>6, FollowsItself DEF Follows
  <2> QED
    BY <2>1, <2>2, <2>3, <2>4, <2>5, <2>6 DEF WalkOK, v
<1>9. CASE ~ stays
  <2>1. v = [noted EXCEPT !.direction = agreed, !.protected = spared, !.weak = weak, !.lastChange = at]
    BY <1>7, <1>9
  <2>2. w.direction = Undetermined /\ agreed # Undetermined
    BY <1>9
  <2>3. /\ agreed \in {"BULLISH", "BEARISH"}
        /\ \A other \in Sides : label[other] # "NONE"
    <3>1. CASE label = [other \in Sides |-> "HIGHER"]
      <4>0. label # [other \in Sides |-> "LOWER"]
        <5>1. "SWING_HIGH" \in Sides /\ "HIGHER" # "LOWER"
          BY DEF Sides
        <5>2. [other \in Sides |-> "HIGHER"]["SWING_HIGH"] # [other \in Sides |-> "LOWER"]["SWING_HIGH"]
          BY <5>1
        <5> QED
          BY <3>1, <5>2
      <4>1. agreed = "BULLISH"
        BY <3>1, <4>0 DEF Agreed
      <4>2. \A other \in Sides : label[other] = "HIGHER"
        BY <3>1
      <4> QED
        BY <4>1, <4>2
    <3>2. CASE label # [other \in Sides |-> "HIGHER"] /\ label = [other \in Sides |-> "LOWER"]
      <4>1. agreed = "BEARISH"
        BY <3>2 DEF Agreed
      <4>2. \A other \in Sides : label[other] = "LOWER"
        BY <3>2
      <4> QED
        BY <4>1, <4>2
    <3>3. CASE label # [other \in Sides |-> "HIGHER"] /\ label # [other \in Sides |-> "LOWER"]
      BY <2>2, <3>3 DEF Agreed
    <3> QED
      BY <3>1, <3>2, <3>3
  <2> HIDE DEF agreed
  <2>4. /\ Ahead(agreed) \in Sides /\ Behind(agreed) \in Sides /\ Ahead(agreed) # Behind(agreed)
        /\ \A other \in Sides : other = Ahead(agreed) \/ other = Behind(agreed)
    BY <2>3, SidesOf
  <2>5. /\ w.broken = {} /\ \A other \in Sides : w.protected[other] = NoSwing /\ w.weak[other] = NoSwing
    BY <1>1, <2>2 DEF LevelsOK
  <2>6. /\ DOMAIN spared = Sides /\ DOMAIN weak = Sides
        /\ spared[Behind(agreed)] = latest[Behind(agreed)] /\ spared[Ahead(agreed)] = NoSwing
        /\ weak[Ahead(agreed)] = latest[Ahead(agreed)] /\ weak[Behind(agreed)] = NoSwing
    BY <1>1, <2>4, <2>5 DEF WalkShape
  <2> HIDE DEF spared, weak, stays, at
  <2>7. /\ DOMAIN v = Fields /\ v.direction = agreed /\ v.protected = spared
        /\ v.weak = weak /\ v.broken = {} /\ v.boundary = w.boundary
        /\ v.transitions = w.transitions /\ v.label = label /\ v.latest = latest
        /\ v.visible = w.visible
    BY <1>6, <2>1, <2>5 DEF Fields
  <2>8. WalkShape(v)
    BY <1>1, <1>3, <1>4, <2>3, <2>6, <2>7 DEF WalkShape
  <2>9. SwingsHeld(v, n)
    <3>1. \A other \in Sides : IsOfSide(spared[other], other) /\ IsOfSide(weak[other], other)
      BY <1>5, <2>4, <2>6 DEF IsOfSide
    <3> QED
      BY <1>1, <1>5, <2>7, <3>1 DEF SwingsHeld
  <2>10. LevelsOK(v)
    <3>1. spared[Behind(agreed)] # NoSwing
      BY <1>5, <2>3, <2>4, <2>6
    <3> QED
      BY <2>2, <2>6, <2>7, <3>1 DEF LevelsOK
  <2>11. BrokenOnce(v.transitions, v.broken)
    BY <1>1, <2>5, <2>7
  <2>12. Follows(v, w)
    BY <2>7, FollowsItself DEF Follows
  <2> QED
    BY <2>8, <2>9, <2>10, <2>11, <2>12 DEF WalkOK, v
<1> QED
  BY <1>8, <1>9

\* Every event keeps it, and the transitions.
LEMMA ProcessEventOK ==
  ASSUME NEW n \in Nat, NEW w, WalkOK(w, n), NEW e, EventOK(e, n)
  PROVE  WalkOK(ProcessEvent(w, e), n) /\ Follows(ProcessEvent(w, e), w)
<1>1. CASE \E i, close : i \in 1 .. n /\ e = CandleEvent(i, close)
  <2>1. e.kind = 0
    BY <1>1 DEF CandleEvent
  <2>2. ProcessEvent(w, e) = StepCandle(w, e)
    BY <2>1 DEF ProcessEvent
  <2>3. CASE BreaksProtected(w, e)
    <3>1. StepCandle(w, e) = ChangeCharacter(w, e)
      BY <2>3 DEF StepCandle
    <3> QED
      BY <2>2, <2>3, <3>1, ChangeCharacterOK
  <2>4. CASE ~ BreaksProtected(w, e) /\ BreaksWeak(w, e)
    <3>1. StepCandle(w, e) = BreakStructure(w, e)
      BY <2>4 DEF StepCandle
    <3> QED
      BY <2>2, <2>4, <3>1, BreakStructureOK
  <2>5. CASE ~ BreaksProtected(w, e) /\ ~ BreaksWeak(w, e)
    <3>1. StepCandle(w, e) = w
      BY <2>5 DEF StepCandle
    <3> QED
      BY <2>2, <3>1, FollowsItself
  <2> QED
    BY <2>3, <2>4, <2>5
<1>2. CASE \E s : IsSeen(s, n) /\ s.at \in 1 .. n /\ e = SwingEvent(s)
  <2>1. PICK s : IsSeen(s, n) /\ e = SwingEvent(s)
    BY <1>2
  <2>2. e.kind = 1 /\ e.swing = s
    BY <2>1 DEF SwingEvent
  <2>3. ProcessEvent(w, e) = StepSwing(w, e)
    BY <2>2 DEF ProcessEvent
  <2> QED
    BY <2>1, <2>2, <2>3, StepSwingOK
<1>3. CASE \E s, t, label : /\ IsSeen(s, n) /\ s.at \in 1 .. n /\ t.at \in 1 .. n
                            /\ label \in {"HIGHER", "LOWER", "EQUAL"}
                            /\ e = RelationshipEvent(label, s, t)
  <2>1. PICK s, t, label : /\ IsSeen(s, n) /\ label \in {"HIGHER", "LOWER", "EQUAL"}
                           /\ e = RelationshipEvent(label, s, t)
    BY <1>3
  <2>2. e.kind = 2 /\ e.swing = s /\ e.label = label
    BY <2>1 DEF RelationshipEvent
  <2>3. ProcessEvent(w, e) = StepRelationship(w, e)
    BY <2>2 DEF ProcessEvent
  <2>4. IsSeen(e.swing, n) /\ e.label # "NONE"
    BY <2>1, <2>2
  <2> QED
    BY <2>3, <2>4, StepRelationshipOK
<1> QED
  BY <1>1, <1>2, <1>3 DEF EventOK

\* Nothing is known yet.
LEMMA InitialWalkOK ==
  ASSUME NEW n
  PROVE  WalkOK(InitialWalk, n)
<1>1. /\ DOMAIN InitialWalk = Fields /\ InitialWalk.direction = Undetermined
      /\ InitialWalk.protected = [side \in Sides |-> NoSwing]
      /\ InitialWalk.weak = [side \in Sides |-> NoSwing]
      /\ InitialWalk.broken = {}
      /\ InitialWalk.boundary = [side \in Sides |-> 0]
      /\ InitialWalk.label = [side \in Sides |-> "NONE"]
      /\ InitialWalk.latest = [side \in Sides |-> NoSwing]
      /\ InitialWalk.visible = [side \in Sides |-> {}]
      /\ InitialWalk.transitions = << >>
  BY DEF InitialWalk, Fields
<1>2. WalkShape(InitialWalk)
  BY <1>1 DEF WalkShape
<1>3. SwingsHeld(InitialWalk, n)
  BY <1>1 DEF SwingsHeld, IsOfSide
<1>4. LevelsOK(InitialWalk)
  BY <1>1 DEF LevelsOK
<1>5. BrokenOnce(<< >>, {})
  <2>1. << >> \in Seq(Range(<< >>)) /\ Len(<< >>) = 0
    OBVIOUS
  <2> QED
    BY <2>1 DEF BrokenOnce
<1> QED
  BY <1>1, <1>2, <1>3, <1>4, <1>5 DEF WalkOK

\* What follows what follows a walk.
LEMMA FollowsOn ==
  ASSUME NEW n, NEW u, WalkOK(u, n), NEW v, WalkOK(v, n), NEW w, WalkOK(w, n),
         Follows(w, v), Follows(v, u)
  PROVE  Follows(w, u)
<1>1. Len(u.transitions) \in Nat /\ Len(v.transitions) \in Nat /\ Len(w.transitions) \in Nat
  BY FollowsItself
<1>2. /\ Len(v.transitions) <= Len(w.transitions)
      /\ \A k \in 1 .. Len(v.transitions) : w.transitions[k] = v.transitions[k]
  BY DEF Follows
<1>3. /\ Len(u.transitions) <= Len(v.transitions)
      /\ \A k \in 1 .. Len(u.transitions) : v.transitions[k] = u.transitions[k]
  BY DEF Follows
<1>4. \A k \in 1 .. Len(u.transitions) : k \in 1 .. Len(v.transitions)
  BY <1>1, <1>3
<1>5. Len(u.transitions) <= Len(w.transitions)
  BY <1>1, <1>2, <1>3
<1> QED
  BY <1>2, <1>3, <1>4, <1>5 DEF Follows

\* After every event of a walk.
LEMMA WalkStaysOK ==
  ASSUME NEW n \in Nat, NEW s, Len(s) \in Nat, \A k \in 1 .. Len(s) : EventOK(s[k], n)
  PROVE  \A k \in 0 .. Len(s) : WalkOK(WalkFrom(InitialWalk, s)[k], n)
<1> DEFINE f == WalkFrom(InitialWalk, s)
           M == {k \in Nat : k <= Len(s) => WalkOK(f[k], n)}
<1>1. f[0] = InitialWalk /\ \A k \in 1 .. Len(s) : f[k] = ProcessEvent(f[k - 1], s[k])
  BY WalkSteps
<1> HIDE DEF f
<1>2. 0 \in M
  BY <1>1, InitialWalkOK
<1>3. ASSUME NEW k \in M PROVE k + 1 \in M
  <2>1. SUFFICES ASSUME k + 1 <= Len(s) PROVE WalkOK(f[k + 1], n)
    OBVIOUS
  <2>2. k \in Nat /\ k + 1 \in 1 .. Len(s) /\ (k + 1) - 1 = k /\ WalkOK(f[k], n)
    BY <2>1
  <2>3. f[k + 1] = ProcessEvent(f[k], s[k + 1])
    BY <1>1, <2>2
  <2> QED
    BY <2>2, <2>3, ProcessEventOK
<1> HIDE DEF M
<1>4. M = Nat
  <2>1. M \in SUBSET Nat
    BY DEF M
  <2> QED
    BY <1>2, <1>3, <2>1, SetInduction
<1>5. \A k \in 0 .. Len(s) : k \in Nat /\ k <= Len(s)
  OBVIOUS
<1>6. \A k \in 0 .. Len(s) : WalkOK(f[k], n)
  BY <1>4, <1>5 DEF M
<1> QED
  BY <1>6 DEF f

\* The walk keeps the transitions it has made.
LEMMA WalkKeeps ==
  ASSUME NEW n \in Nat, NEW s, Len(s) \in Nat, \A k \in 1 .. Len(s) : EventOK(s[k], n),
         NEW m \in 0 .. Len(s)
  PROVE  Follows(WalkFrom(InitialWalk, s)[Len(s)], WalkFrom(InitialWalk, s)[m])
<1> DEFINE f == WalkFrom(InitialWalk, s)
           M == {k \in Nat : m + k <= Len(s) => Follows(f[m + k], f[m])}
<1>1. \A k \in 1 .. Len(s) : f[k] = ProcessEvent(f[k - 1], s[k])
  BY WalkSteps
<1>2. \A k \in 0 .. Len(s) : WalkOK(f[k], n)
  BY WalkStaysOK
<1> HIDE DEF f
<1>3. 0 \in M
  <2>1. Follows(f[m], f[m]) /\ m + 0 = m
    BY <1>2, FollowsItself
  <2> QED
    BY <2>1
<1>4. ASSUME NEW k \in M PROVE k + 1 \in M
  <2>1. SUFFICES ASSUME m + (k + 1) <= Len(s) PROVE Follows(f[m + (k + 1)], f[m])
    OBVIOUS
  <2>2. /\ m + (k + 1) \in 1 .. Len(s) /\ (m + (k + 1)) - 1 = m + k /\ m + k \in 0 .. Len(s)
        /\ m + (k + 1) \in 0 .. Len(s)
    BY <2>1
  <2>3. Follows(f[m + k], f[m])
    BY <2>2
  <2>4. f[m + (k + 1)] = ProcessEvent(f[m + k], s[m + (k + 1)])
    BY <1>1, <2>2
  <2>5. Follows(f[m + (k + 1)], f[m + k])
    BY <1>2, <2>2, <2>4, ProcessEventOK
  <2> QED
    BY <1>2, <2>2, <2>3, <2>5, FollowsOn
<1> HIDE DEF M
<1>5. M = Nat
  <2>1. M \in SUBSET Nat
    BY DEF M
  <2> QED
    BY <1>3, <1>4, <2>1, SetInduction
<1>6. Len(s) - m \in Nat /\ m + (Len(s) - m) = Len(s)
  OBVIOUS
<1> DEFINE rest == Len(s) - m
<1> HIDE DEF rest
<1>7. Follows(f[m + rest], f[m])
  <2>1. rest \in M /\ m + rest <= Len(s)
    BY <1>5, <1>6 DEF rest
  <2> QED
    BY <2>1 DEF M
<1>8. Follows(f[Len(s)], f[m])
  BY <1>6, <1>7 DEF rest
<1> QED
  BY <1>8 DEF f

\* A walk that follows another has its transitions first.
LEMMA FollowsPrefix ==
  ASSUME NEW n, NEW v, WalkOK(v, n), NEW w, WalkOK(w, n), Follows(v, w)
  PROVE  IsPrefix(w.transitions, v.transitions)
<1> DEFINE a == w.transitions
           b == v.transitions
           S == Range(a) \cup Range(b)
           l == Len(a)
           u == SubSeq(a, 1, l)
           r == SubSeq(b, 1, l)
<1>1. a \in Seq(Range(a)) /\ b \in Seq(Range(b)) /\ DOMAIN a = 1 .. l /\ DOMAIN b = 1 .. Len(b)
      /\ l \in Nat /\ Len(b) \in Nat
  BY LenProperties DEF WalkOK, BrokenOnce
<1>2. l <= Len(b) /\ \A k \in 1 .. l : b[k] = a[k]
  BY DEF Follows
<1> HIDE DEF a, b
<1>3. \A k \in 1 .. l : a[k] \in S /\ b[k] \in S
  <2>1. \A k \in 1 .. l : a[k] \in Range(a)
    BY <1>1 DEF Range
  <2> QED
    BY <1>2, <2>1
<1> HIDE DEF S, l
<1>4. u \in Seq(S) /\ Len(u) = (IF 1 <= l THEN l - 1 + 1 ELSE 0) /\ \A k \in 1 .. l - 1 + 1 : u[k] = a[1 + k - 1]
  BY <1>1, <1>3, SubSeqProperties
<1>5. r \in Seq(S) /\ Len(r) = (IF 1 <= l THEN l - 1 + 1 ELSE 0) /\ \A k \in 1 .. l - 1 + 1 : r[k] = b[1 + k - 1]
  BY <1>1, <1>3, SubSeqProperties
<1> HIDE DEF u, r
<1>6. Len(u) = l /\ Len(r) = l
  BY <1>1, <1>4, <1>5
<1>7. ASSUME NEW k \in 1 .. Len(u) PROVE u[k] = r[k]
  <2>1. k \in 1 .. l /\ k \in 1 .. l - 1 + 1 /\ 1 + k - 1 = k
    BY <1>1, <1>6
  <2>2. u[k] = a[k] /\ r[k] = b[k]
    BY <1>4, <1>5, <2>1
  <2> QED
    BY <1>2, <2>1, <2>2
<1>8. u = r
  BY <1>4, <1>5, <1>6, <1>7, SeqEqual
<1> QED
  BY <1>2, <1>8 DEF IsPrefix, a, b, u, r, l

\* The sorted events of candles and their swings.
LEMMA SortedEventsOK ==
  ASSUME NEW seq, CandlesOK(seq), NEW sw, SwingsOK(sw, Len(seq))
  PROVE  /\ Len(SortedEvents(seq, sw)) \in Nat
         /\ \A k \in 1 .. Len(SortedEvents(seq, sw)) : EventOK(SortedEvents(seq, sw)[k], Len(seq))
<1> DEFINE s == SortedEvents(seq, sw)
           S == Events(seq, sw)
<1>1. s \in Seq(S) /\ Len(s) \in Nat
  BY SortedSeq
<1>2. \A e \in S : EventOK(e, Len(seq))
  BY EventsOK
<1> HIDE DEF s, S
<1>3. \A k \in 1 .. Len(s) : s[k] \in S
  BY <1>1, ElementOfSeq
<1> QED
  BY <1>1, <1>2, <1>3 DEF s

\* Checkpoints that the walk could resume from are consistent.
THEOREM ReplayCheckpointsConsistent == Spec => []CheckpointsConsistent
<1>1. ASSUME MarketInv PROVE CheckpointsConsistent
  <2> DEFINE n == Len(candles)
             s == SortedEvents(candles, swings)
             f == WalkFrom(InitialWalk, s)
  <2>1. /\ CandlesOK(candles) /\ AtrsOK(atrs, candles) /\ StructureOK(structure, candles, swings)
        /\ RawOK(SinglePivots(candles, atrs), Len(candles)) /\ swings = DetectConfirmedSwings(candles)
    BY <1>1 DEF MarketInv, MeasurementsAreBatch
  <2>2. SwingsOK(swings, n) /\ n \in Nat
    BY <2>1, DetectedOK, LenProperties DEF CandlesOK
  <2>3. structure.checkpoints = Checkpoints(s)
    BY <2>1, StructureFields
  <2>4. Len(s) \in Nat /\ \A k \in 1 .. Len(s) : EventOK(s[k], n)
    BY <2>1, <2>2, SortedEventsOK
  <2> HIDE DEF s, n
  <2>5. \A k \in 0 .. Len(s) : WalkOK(f[k], n)
    BY <2>2, <2>4, WalkStaysOK
  <2>6. /\ DOMAIN structure.checkpoints = 1 .. Len(s)
        /\ \A k \in 1 .. Len(s) : structure.checkpoints[k] = f[k]
    BY <2>3 DEF Checkpoints
  <2>7. \A k \in 1 .. Len(s) : k \in 0 .. Len(s)
    BY <2>4
  <2> HIDE DEF f
  <2>8. ASSUME NEW w, WalkOK(w, n) PROVE WalkConsistent(w)
    <3>1. DOMAIN w.transitions = 1 .. Len(w.transitions)
      BY <2>8, LenProperties DEF WalkOK, BrokenOnce
    <3> QED
      BY <2>8, <3>1 DEF WalkOK, LevelsOK, BrokenOnce, WalkConsistent
  <2> QED
    BY <2>5, <2>6, <2>7, <2>8 DEF CheckpointsConsistent
<1> QED
  BY MarketInvariant, <1>1, PTL

\* The walk over the events of more swings, that come after the known ones.
LEMMA WalkOfMore ==
  ASSUME NEW seq, CandlesOK(seq), NEW c, IsCandle(c),
         NEW sw, SwingsOK(sw, Len(seq)), NEW su, SwingsOK(su, Len(seq) + 1),
         OnlyAppends(sw, su, Len(seq) + 1)
  PROVE  IsPrefix(RunStructureWalk(seq, sw).transitions, RunStructureWalk(Append(seq, c), su).transitions)
<1> DEFINE n == Len(seq)
           more == Append(seq, c)
           S == Events(seq, sw)
           T == Events(more, su)
           s == SortedEvents(seq, sw)
           t == SortedEvents(more, su)
           m == Len(s)
           g == WalkFrom(InitialWalk, t)
<1>1. n \in Nat /\ CandlesOK(more) /\ Len(more) = n + 1
  BY CandlesAppend
<1>2. S \subseteq T /\ \A e \in T \ S : e.at >= n + 1
  BY EventsOfMoreSwings
<1>3. EventsShape(S) /\ \A e \in S : e.at <= n
  BY EventsShaped
<1>4. EventsShape(T)
  <2> HIDE DEF more
  <2>1. SwingsOK(su, Len(more))
    BY <1>1
  <2> QED
    BY <1>1, <2>1, EventsShaped
<1>5. m = Cardinality(S) /\ m \in Nat
  BY SortedSeq
<1>6. Len(t) = Cardinality(T) /\ Len(t) \in Nat /\ \A k \in 1 .. Len(t) : EventOK(t[k], n + 1)
  <2> HIDE DEF more
  <2>1. SwingsOK(su, Len(more))
    BY <1>1
  <2>2. Len(t) = Cardinality(T) /\ Cardinality(T) \in Nat
    BY <1>1, <2>1, SortedSeq
  <2>3. \A k \in 1 .. Len(t) : EventOK(t[k], Len(more))
    BY <1>1, <2>1, SortedEventsOK
  <2> QED
    BY <1>1, <2>2, <2>3
<1>7. s = InOrder(S) /\ t = InOrder(T)
  BY DEF SortedEvents
<1>8. RunStructureWalk(seq, sw) = WalkFrom(InitialWalk, s)[m] /\ RunStructureWalk(more, su) = g[Len(t)]
  BY DEF RunStructureWalk
<1> HIDE DEF S, T, s, t, n, more
<1>9. \A e \in S : e.at < n + 1
  <2>1. \A e \in S : e.at \in Nat
    BY <1>3 DEF EventsShape
  <2> QED
    BY <1>1, <1>3, <2>1
<1>10. Cardinality(S) <= Cardinality(T) /\ \A k \in 1 .. Cardinality(S) : InOrder(T)[k] = InOrder(S)[k]
  <2>1. n + 1 \in Nat
    BY <1>1
  <2> QED
    BY <1>2, <1>3, <1>4, <1>9, <2>1, SortedExtends
<1>11. m <= Len(t) /\ \A k \in 1 .. m : s[k] = t[k]
  BY <1>5, <1>6, <1>7, <1>10
<1>12. \A k \in 0 .. m : WalkFrom(InitialWalk, s)[k] = g[k]
  <2>1. m <= Len(s) /\ Len(s) \in Nat /\ m \in Nat /\ m <= Len(t) /\ Len(t) \in Nat
    BY <1>5, <1>6, <1>11
  <2>2. AgreeUpTo(s, t, m)
    BY <1>11 DEF AgreeUpTo
  <2> DEFINE w == InitialWalk
  <2> HIDE DEF w, m, g
  <2>3. \A k \in 0 .. m : WalkFrom(w, s)[k] = WalkFrom(w, t)[k]
    BY <2>1, <2>2, WalkAgrees
  <2> QED
    BY <2>3 DEF w, g
<1>13. m \in 0 .. m /\ m \in 0 .. Len(t) /\ Len(t) \in 0 .. Len(t) /\ n + 1 \in Nat
  BY <1>1, <1>5, <1>6, <1>11
<1>14. \A k \in 0 .. Len(t) : WalkOK(g[k], n + 1)
  BY <1>6, <1>13, WalkStaysOK
<1>15. Follows(g[Len(t)], g[m])
  BY <1>6, <1>13, WalkKeeps
<1> HIDE DEF g, m
<1>16. IsPrefix(g[m].transitions, g[Len(t)].transitions)
  BY <1>13, <1>14, <1>15, FollowsPrefix
<1> QED
  BY <1>8, <1>12, <1>13, <1>16 DEF more

\* A transition reported is still reported when new swings come after the known.
THEOREM ReplayTransitionsOnlyAppended == Spec => TransitionsOnlyAppended
<1> DEFINE Step == OnlyAppends(swings, swings', Len(candles'))
                     => IsPrefix(WalkResult(structure).transitions, WalkResult(structure').transitions)
<1>1. ASSUME MarketInv, NEW c, IsCandle(c), Advance(c) PROVE Step
  <2> DEFINE n == Len(candles)
             more == Append(candles, c)
  <2>1. MarketInv'
    BY <1>1, MarketStep
  <2>2. candles' = more
    BY <1>1 DEF Advance
  <2>3. /\ CandlesOK(candles) /\ AtrsOK(atrs, candles) /\ StructureOK(structure, candles, swings)
        /\ RawOK(SinglePivots(candles, atrs), Len(candles)) /\ swings = DetectConfirmedSwings(candles)
    BY <1>1 DEF MarketInv, MeasurementsAreBatch
  <2>4. /\ CandlesOK(candles') /\ AtrsOK(atrs', candles') /\ StructureOK(structure', candles', swings')
        /\ RawOK(SinglePivots(candles', atrs'), Len(candles')) /\ swings' = DetectConfirmedSwings(candles')
    BY <2>1 DEF MarketInv, MeasurementsAreBatch
  <2>5. SwingsOK(swings, n) /\ SwingsOK(swings', Len(candles'))
    BY <2>3, <2>4, DetectedOK
  <2>6. WalkResult(structure) = RunStructureWalk(candles, swings)
        /\ WalkResult(structure') = RunStructureWalk(candles', swings')
    BY <2>3, <2>4, <2>5, WalkResultIs
  <2>7. Len(more) = n + 1
    BY <1>1, <2>3, CandlesAppend
  <2>8. SwingsOK(swings', n + 1)
    BY <2>2, <2>5, <2>7
  <2>9. ASSUME OnlyAppends(swings, swings', n + 1)
        PROVE  IsPrefix(RunStructureWalk(candles, swings).transitions, RunStructureWalk(more, swings').transitions)
    BY <1>1, <2>3, <2>5, <2>8, <2>9, WalkOfMore
  <2> QED
    BY <2>2, <2>6, <2>7, <2>9
<1>2. MarketInv /\ Next => Step
  BY <1>1 DEF Next
<1>3. MarketInv /\ [Next]_vars => [Step]_vars
  BY <1>2
<1> QED
  BY MarketInvariant, <1>3, PTL DEF Spec, TransitionsOnlyAppended
=============================================================================

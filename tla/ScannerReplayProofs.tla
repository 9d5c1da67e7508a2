------------------------- MODULE ScannerReplayProofs ------------------------
(***************************************************************************)
(* The kernel implements ScannerBatch, for any timeframes, candles and     *)
(* evidence, whoever calls it: a group that is in progress is a local of   *)
(* its call, and what it has come to so far is what its candles so far     *)
(* make of the engines.                                                    *)
(*                                                                         *)
(* And a completed replay has found what one scan of all the inputs finds: *)
(* after each group, what was scanned or taken of a timeframe are exactly  *)
(* its candles in the groups so far, in order, and in order the candles of *)
(* all groups are the inputs.                                              *)
(***************************************************************************)
EXTENDS ScannerReplay, SequenceTheorems, NaturalProofs

-----------------------------------------------------------------------------
(* The engines are fed one input for each candle.                          *)

StructureInput(cs, i) == [candle |-> cs[i], swings |-> SubSeq(cs, 1, i)]
PoiInput(cs, i)       == [candle |-> cs[i], measured |-> SubSeq(cs, 1, i)]
BtmmInput(t, cs, i)   ==
  [candle |-> cs[i], pois |-> i, evidence |-> Gated(t, cs[i].available)]

\* A sequence made element by element grows by the element of the new index.
IsMap(f, n) == f = [i \in 1 .. n |-> f[i]]
Agree(f, g, n) == \A i \in 1 .. n : g[i] = f[i]

\* Two sequences that agree up to the last index of the first differ by one element.
LEMMA MapAppend ==
  ASSUME NEW n \in Nat, NEW f, NEW g, NEW x,
         IsMap(f, n), IsMap(g, n + 1), Agree(f, g, n), g[n + 1] = x
  PROVE  g = Append(f, x)
<1> USE DEF IsMap, Agree
<1> DEFINE S == {f[i] : i \in 1 .. n} \cup {x}
<1>1. f \in Seq(S) /\ Len(f) = n
  <2>1. f \in [1 .. n -> S]
    OBVIOUS
  <2> QED BY <2>1, SMTT(30)
<1>2. g \in Seq(S) /\ Len(g) = n + 1
  <2>1. ASSUME NEW i \in 1 .. n + 1 PROVE g[i] \in S
    <3>1. CASE i = n + 1
      BY <3>1
    <3>2. CASE i \in 1 .. n
      BY <3>2
    <3> QED BY <3>1, <3>2
  <2>2. g \in [1 .. n + 1 -> S]
    BY <2>1
  <2> QED BY <2>2
<1> HIDE DEF S
<1>3. x \in S
  BY DEF S
<1>4. Append(f, x) \in Seq(S) /\ Len(Append(f, x)) = n + 1
  BY <1>1, <1>3
<1>5. ASSUME NEW i \in 1 .. n + 1 PROVE Append(f, x)[i] = g[i]
  <2>1. CASE i = n + 1
    BY <2>1, <1>1, <1>3
  <2>2. CASE i \in 1 .. n
    BY <2>2, <1>1, <1>3, AppendProperties, SMTT(30)
  <2> QED BY <2>1, <2>2
<1> QED BY <1>2, <1>4, <1>5, SeqEqual

\* The prefixes of a sequence do not change when a candle is appended.
LEMMA PrefixStays ==
  ASSUME NEW cs \in Seq(Candle), NEW c \in Candle, NEW i \in 1 .. Len(cs)
  PROVE  SubSeq(Append(cs, c), 1, i) = SubSeq(cs, 1, i) /\ Append(cs, c)[i] = cs[i]
<1>1. Append(cs, c) = cs \o <<c>>
  BY AppendIsConcat
<1>2. <<c>> \in Seq(Candle) /\ 1 \in 1 .. Len(cs)
  OBVIOUS
<1>3. SubSeq(cs \o <<c>>, 1, i) = SubSeq(cs, 1, i)
  BY <1>2, SubSeqOfConcat1
<1> QED BY <1>1, <1>3

\* Appending a candle gives candles, one more of them, the old ones unchanged.
LEMMA Grown ==
  ASSUME NEW cs \in Seq(Candle), NEW c \in Candle
  PROVE  /\ Append(cs, c) \in Seq(Candle)
         /\ DOMAIN cs = 1 .. Len(cs) /\ Len(cs) \in Nat
         /\ DOMAIN Append(cs, c) = 1 .. Len(cs) + 1 /\ Len(Append(cs, c)) = Len(cs) + 1
         /\ Append(cs, c)[Len(cs) + 1] = c
         /\ SubSeq(Append(cs, c), 1, Len(cs) + 1) = Append(cs, c)
<1>1. Append(cs, c) \in Seq(Candle) /\ Len(Append(cs, c)) = Len(cs) + 1
  OBVIOUS
<1>2. SubSeq(Append(cs, c), 1, Len(cs) + 1) = Append(cs, c)
  BY <1>1, SubSeqFull
<1> QED BY <1>1, <1>2

\* Each engine has one input more after one candle more.
LEMMA EnginesGrow ==
  ASSUME NEW t, NEW cs \in Seq(Candle), NEW c \in Candle
  PROVE  /\ Engines(t, Append(cs, c)).measurement = Append(cs, c)
         /\ Engines(t, Append(cs, c)).structure
              = Append(Engines(t, cs).structure, [candle |-> c, swings |-> Append(cs, c)])
         /\ Engines(t, Append(cs, c)).poi
              = Append(Engines(t, cs).poi, [candle |-> c, measured |-> Append(cs, c)])
         /\ Engines(t, Append(cs, c)).btmm =
              IF t \notin BtmmEligible THEN Engines(t, cs).btmm
              ELSE Append(Engines(t, cs).btmm,
                          [candle |-> c, pois |-> Len(cs) + 1, evidence |-> Gated(t, c.available)])
<1> DEFINE ds == Append(cs, c)
           n  == Len(cs)
<1>1. n \in Nat /\ DOMAIN cs = 1 .. n /\ DOMAIN ds = 1 .. n + 1
      /\ ds[n + 1] = c /\ SubSeq(ds, 1, n + 1) = ds
  BY Grown
<1>2. \A i \in 1 .. n : ds[i] = cs[i] /\ SubSeq(ds, 1, i) = SubSeq(cs, 1, i)
  BY PrefixStays
<1> HIDE DEF ds, n
<1>3. [i \in DOMAIN ds |-> StructureInput(ds, i)]
        = Append([i \in DOMAIN cs |-> StructureInput(cs, i)], StructureInput(ds, n + 1))
  <2> DEFINE f == [i \in 1 .. n |-> StructureInput(cs, i)]
             g == [i \in 1 .. n + 1 |-> StructureInput(ds, i)]
  <2>1. Agree(f, g, n)
    BY <1>1, <1>2 DEF StructureInput, Agree
  <2>2. IsMap(f, n) /\ IsMap(g, n + 1)
        /\ g[n + 1] = StructureInput(ds, n + 1)
    BY <1>1 DEF IsMap
  <2> HIDE DEF f, g
  <2>3. g = Append(f, StructureInput(ds, n + 1))
    BY <1>1, <2>1, <2>2, MapAppend
  <2> QED BY <2>3, <1>1 DEF f, g
<1>4. [i \in DOMAIN ds |-> PoiInput(ds, i)]
        = Append([i \in DOMAIN cs |-> PoiInput(cs, i)], PoiInput(ds, n + 1))
  <2> DEFINE f == [i \in 1 .. n |-> PoiInput(cs, i)]
             g == [i \in 1 .. n + 1 |-> PoiInput(ds, i)]
  <2>1. Agree(f, g, n)
    BY <1>1, <1>2 DEF PoiInput, Agree
  <2>2. IsMap(f, n) /\ IsMap(g, n + 1)
        /\ g[n + 1] = PoiInput(ds, n + 1)
    BY <1>1 DEF IsMap
  <2> HIDE DEF f, g
  <2>3. g = Append(f, PoiInput(ds, n + 1))
    BY <1>1, <2>1, <2>2, MapAppend
  <2> QED BY <2>3, <1>1 DEF f, g
<1>5. [i \in DOMAIN ds |-> BtmmInput(t, ds, i)]
        = Append([i \in DOMAIN cs |-> BtmmInput(t, cs, i)], BtmmInput(t, ds, n + 1))
  <2> DEFINE f == [i \in 1 .. n |-> BtmmInput(t, cs, i)]
             g == [i \in 1 .. n + 1 |-> BtmmInput(t, ds, i)]
  <2>1. Agree(f, g, n)
    BY <1>1, <1>2 DEF BtmmInput, Agree
  <2>2. IsMap(f, n) /\ IsMap(g, n + 1)
        /\ g[n + 1] = BtmmInput(t, ds, n + 1)
    BY <1>1 DEF IsMap
  <2> HIDE DEF f, g
  <2>3. g = Append(f, BtmmInput(t, ds, n + 1))
    BY <1>1, <2>1, <2>2, MapAppend
  <2> QED BY <2>3, <1>1 DEF f, g
<1>6. StructureInput(ds, n + 1) = [candle |-> c, swings |-> ds]
      /\ PoiInput(ds, n + 1) = [candle |-> c, measured |-> ds]
      /\ BtmmInput(t, ds, n + 1) = [candle |-> c, pois |-> n + 1, evidence |-> Gated(t, c.available)]
  BY <1>1 DEF StructureInput, PoiInput, BtmmInput
<1>7. Engines(t, cs).measurement = cs /\ Engines(t, ds).measurement = ds
      /\ Engines(t, cs).structure = [i \in DOMAIN cs |-> StructureInput(cs, i)]
      /\ Engines(t, ds).structure = [i \in DOMAIN ds |-> StructureInput(ds, i)]
      /\ Engines(t, cs).poi = [i \in DOMAIN cs |-> PoiInput(cs, i)]
      /\ Engines(t, ds).poi = [i \in DOMAIN ds |-> PoiInput(ds, i)]
      /\ Engines(t, cs).btmm = (IF t \notin BtmmEligible THEN <<>>
                                ELSE [i \in DOMAIN cs |-> BtmmInput(t, cs, i)])
      /\ Engines(t, ds).btmm = (IF t \notin BtmmEligible THEN <<>>
                                ELSE [i \in DOMAIN ds |-> BtmmInput(t, ds, i)])
  BY DEF Engines, StructureInput, PoiInput, BtmmInput
<1> QED BY <1>3, <1>4, <1>5, <1>6, <1>7 DEF ds, n

-----------------------------------------------------------------------------
(* A group is worked on candle by candle.                                  *)

IsFlat(f, seqs, n) ==
  f = [i \in 1 .. n |-> IF i = 1 THEN seqs[i] ELSE f[i - 1] \o seqs[i]]

\* The recursive function of FlattenSeq exists.
LEMMA FlatExists ==
  ASSUME NEW seqs, NEW n \in Nat
  PROVE  \E f : IsFlat(f, seqs, n)
<1> DEFINE S == {m \in Nat : \E f : IsFlat(f, seqs, m)}
<1>1. 0 \in S
  <2> DEFINE f == [i \in 1 .. 0 |-> seqs[i]]
  <2>1. IsFlat(f, seqs, 0)
    BY DEF IsFlat
  <2> QED BY <2>1
<1>2. ASSUME NEW m \in S PROVE m + 1 \in S
  <2>1. PICK f : IsFlat(f, seqs, m)
    OBVIOUS
  <2> DEFINE g == [i \in 1 .. m + 1 |->
                     IF i = m + 1 THEN (IF i = 1 THEN seqs[i] ELSE f[m] \o seqs[i]) ELSE f[i]]
  <2>2. ASSUME NEW i \in 1 .. m + 1
        PROVE  g[i] = IF i = 1 THEN seqs[i] ELSE g[i - 1] \o seqs[i]
    <3>1. CASE i = m + 1
      BY <3>1
    <3>2. CASE i \in 1 .. m
      <4>1. f[i] = IF i = 1 THEN seqs[i] ELSE f[i - 1] \o seqs[i]
        BY <2>1, <3>2 DEF IsFlat
      <4>2. g[i] = f[i] /\ (i # 1 => g[i - 1] = f[i - 1])
        BY <3>2
      <4> QED BY <4>1, <4>2
    <3> QED BY <3>1, <3>2
  <2>3. IsFlat(g, seqs, m + 1)
    <3>1. g = [i \in 1 .. m + 1 |-> g[i]]
      OBVIOUS
    <3> QED BY <2>2, <3>1 DEF IsFlat
  <2> QED BY <2>3
<1> HIDE DEF S
<1>3. S = Nat
  <2>1. S \in SUBSET Nat
    BY DEF S
  <2> QED BY <1>1, <1>2, <2>1, SetInduction
<1> QED BY <1>3 DEF S

\* What is flattened is made of the elements of what it is made of.
LEMMA Flattened ==
  ASSUME NEW T, NEW seqs \in Seq(Seq(T))
  PROVE  FlattenSeq(seqs) \in Seq(T)
<1>1. CASE Len(seqs) = 0
  BY <1>1 DEF FlattenSeq
<1>2. CASE Len(seqs) # 0
  <2> DEFINE f == CHOOSE f : IsFlat(f, seqs, Len(seqs))
  <2>1. Len(seqs) \in Nat /\ IsFlat(f, seqs, Len(seqs))
    BY FlatExists
  <2>2. FlattenSeq(seqs) = f[Len(seqs)]
    BY <1>2 DEF FlattenSeq, IsFlat
  <2> HIDE DEF f
  <2> DEFINE S == {m \in Nat : m \in 1 .. Len(seqs) => f[m] \in Seq(T)}
  <2>3. 0 \in S
    OBVIOUS
  <2>4. ASSUME NEW m \in S PROVE m + 1 \in S
    <3> SUFFICES ASSUME m + 1 \in 1 .. Len(seqs) PROVE f[m + 1] \in Seq(T)
      OBVIOUS
    <3>1. seqs[m + 1] \in Seq(T)
      OBVIOUS
    <3>2. f[m + 1] = IF m + 1 = 1 THEN seqs[m + 1] ELSE f[m] \o seqs[m + 1]
      <4>1. \A i \in 1 .. Len(seqs) : f[i] = IF i = 1 THEN seqs[i] ELSE f[i - 1] \o seqs[i]
        BY <2>1 DEF IsFlat
      <4>2. (m + 1) - 1 = m
        OBVIOUS
      <4> HIDE DEF S
      <4> QED BY <4>1, <4>2
    <3>3. m + 1 # 1 => f[m] \in Seq(T)
      BY <2>1
    <3> QED BY <3>1, <3>2, <3>3
  <2> HIDE DEF S
  <2>5. S = Nat
    <3>1. S \in SUBSET Nat
      BY DEF S
    <3> QED BY <2>3, <2>4, <3>1, SetInduction
  <2> QED BY <1>2, <2>1, <2>2, <2>5 DEF S
<1> QED BY <1>1, <1>2

Task(ts, time) == [timeframe : ts, candle : [event : Int, available : {time}]]

\* What advance_group takes from a group are candles of tracked timeframes, all of
\* the group's moment.
LEMMA WorkOfGroup ==
  ASSUME NEW ts, NEW time \in Int,
         NEW group \in [ts -> Seq([event : Int, available : {time}])]
  PROVE  Work(group) \in Seq(Task(ts, time))
<1> DEFINE Of(t) == IF t \in DOMAIN group
                      THEN [i \in DOMAIN group[t] |-> [timeframe |-> t, candle |-> group[t][i]]]
                      ELSE <<>>
           all == [r \in DOMAIN Timeframes |-> Of(Timeframes[r])]
<1>1. ASSUME NEW t PROVE Of(t) \in Seq(Task(ts, time))
  <2>1. CASE t \in ts
    <3>1. group[t] \in Seq([event : Int, available : {time}])
      BY <2>1
    <3>2. Len(group[t]) \in Nat /\ DOMAIN group[t] = 1 .. Len(group[t])
      BY <3>1
    <3>3. \A i \in 1 .. Len(group[t]) :
            [timeframe |-> t, candle |-> group[t][i]] \in Task(ts, time)
      <4> SUFFICES ASSUME NEW i \in 1 .. Len(group[t])
                   PROVE  [timeframe |-> t, candle |-> group[t][i]] \in Task(ts, time)
        OBVIOUS
      <4>1. group[t][i] \in [event : Int, available : {time}]
        BY <3>1, ElementOfSeq
      <4> QED BY <2>1, <4>1 DEF Task
    <3> DEFINE tasks == [i \in DOMAIN group[t] |-> [timeframe |-> t, candle |-> group[t][i]]]
    <3>4. tasks \in [DOMAIN group[t] -> Task(ts, time)]
      <4> DEFINE task(i) == [timeframe |-> t, candle |-> group[t][i]]
      <4>1. \A i \in DOMAIN group[t] : task(i) \in Task(ts, time)
        BY <3>2, <3>3
      <4> HIDE DEF task
      <4>2. [i \in DOMAIN group[t] |-> task(i)] \in [DOMAIN group[t] -> Task(ts, time)]
        BY <4>1
      <4> QED BY <4>2 DEF task
    <3> HIDE DEF tasks
    <3>5. tasks \in Seq(Task(ts, time))
      <4> DEFINE n == Len(group[t])
      <4>1. tasks \in [1 .. n -> Task(ts, time)] /\ n \in Nat
        BY <3>2, <3>4
      <4> HIDE DEF n
      <4> QED BY <4>1
    <3>6. t \in DOMAIN group
      BY <2>1
    <3> QED BY <3>5, <3>6 DEF tasks
  <2>2. CASE t \notin ts
    BY <2>2
  <2> QED BY <2>1, <2>2
<1>2. Len(Timeframes) \in Nat /\ DOMAIN Timeframes = 1 .. Len(Timeframes)
  BY ScannerConstants
<1> HIDE DEF Of
<1>3. all \in Seq(Seq(Task(ts, time)))
  BY <1>1, <1>2
<1>4. Work(group) = FlattenSeq(all)
  BY DEF Work, Of
<1> HIDE DEF all
<1> QED BY <1>3, <1>4, Flattened

-----------------------------------------------------------------------------
(* The invariant.                                                          *)

Follows(c, cs) == cs # <<>> => c.event > cs[Len(cs)].event

\* Candles of one moment were added at the end.
Extends(old, new, time) ==
  /\ Sorted(new)
  /\ Len(old) <= Len(new) /\ \A i \in 1 .. Len(old) : new[i] = old[i]
  /\ \A i \in Len(old) + 1 .. Len(new) : new[i].available = time

\* The engines of a timeframe with one candle more, before the given stage.
Partial(t, cs, c, stage) ==
  LET old == Engines(t, cs)
      new == Engines(t, Append(cs, c))
  IN  [measurement |-> IF stage = "measurement" THEN old.measurement ELSE new.measurement,
       structure   |-> IF stage \in {"measurement", "structure"} THEN old.structure ELSE new.structure,
       poi         |-> IF stage = "btmm" THEN new.poi ELSE old.poi,
       btmm        |-> old.btmm]

Reached(t) ==
  IF call.work # <<>> /\ t = Now.timeframe
    THEN Partial(t, call.visible[t], Now.candle, call.stage)
    ELSE Engines(t, call.visible[t])

\* The locals of a call: the candles taken so far are visible in them, and its
\* engines are between two stages of the candle at hand.
CallInv ==
  /\ call = [stage |-> call.stage, work |-> call.work, time |-> call.time,
             state |-> call.state, visible |-> call.visible]
  /\ call.stage \in {"measurement", "structure", "poi", "btmm"}
  /\ call.time \in Int
  /\ call.work \in Seq(Task(DOMAIN visible, call.time))
  /\ call.visible \in [DOMAIN visible -> Seq(Candle)]
  /\ \A t \in DOMAIN visible : Extends(visible[t], call.visible[t], call.time)
  /\ call.work = <<>> => \E t \in DOMAIN visible : Len(call.visible[t]) > Len(visible[t])
  /\ call.work # <<>> /\ call.stage # "measurement" =>
       Follows(Now.candle, call.visible[Now.timeframe])
  /\ call.state = [t \in DOMAIN visible |-> Reached(t)]

VisibleInv ==
  /\ visible \in [DOMAIN visible -> Seq(Candle)]
  /\ \A t \in DOMAIN visible : Sorted(visible[t])
  /\ state = EnginesOf(visible)

Inv ==
  /\ VisibleInv
  /\ ledgerCache = None \/ ledgerCache = Ledger(visible, state, finalized)
  /\ call # NoCall => CallInv

-----------------------------------------------------------------------------
(* The stages of a candle.                                                 *)

\* The kernel starts with the engines of no candles (__init__).
LEMMA NoEnginesYet == ASSUME NEW t PROVE Engines(t, <<>>) = NoEngines
<1>1. DOMAIN <<>> = {}
  OBVIOUS
<1>2. \A e : [i \in {} |-> e] = <<>>
  OBVIOUS
<1> QED BY <1>1 DEF Engines, NoEngines

\* Before the first stage of a candle the engines are those of the candles before it.
LEMMA PartialStart == ASSUME NEW t, NEW cs, NEW c PROVE Partial(t, cs, c, "measurement") = Engines(t, cs)
BY DEF Partial, Engines

\* Each stage renews one engine.
LEMMA PartialSteps ==
  ASSUME NEW t, NEW cs, NEW c
  PROVE  LET new == Engines(t, Append(cs, c))
             P(stage) == Partial(t, cs, c, stage)
         IN  /\ P("structure") = [P("measurement") EXCEPT !.measurement = new.measurement]
             /\ P("poi") = [P("structure") EXCEPT !.structure = new.structure]
             /\ P("btmm") = [P("poi") EXCEPT !.poi = new.poi]
<1> DEFINE old == Engines(t, cs)
           new == Engines(t, Append(cs, c))
           R(m, s, p) == [measurement |-> m, structure |-> s, poi |-> p, btmm |-> old.btmm]
<1> HIDE DEF old, new
<1>1. /\ Partial(t, cs, c, "measurement") = R(old.measurement, old.structure, old.poi)
      /\ Partial(t, cs, c, "structure") = R(new.measurement, old.structure, old.poi)
      /\ Partial(t, cs, c, "poi") = R(new.measurement, new.structure, old.poi)
      /\ Partial(t, cs, c, "btmm") = R(new.measurement, new.structure, new.poi)
  BY DEF Partial, old, new
<1>2. \A m, s, p, x : /\ R(x, s, p) = [R(m, s, p) EXCEPT !.measurement = x]
                     /\ R(m, x, p) = [R(m, s, p) EXCEPT !.structure = x]
                     /\ R(m, s, x) = [R(m, s, p) EXCEPT !.poi = x]
  OBVIOUS
<1> HIDE DEF R
<1> QED BY <1>1, <1>2 DEF new

\* The candle at hand.
LEMMA AtHand ==
  ASSUME CallInv, call.work # <<>>
  PROVE  /\ Now.timeframe \in DOMAIN visible
         /\ Now.candle \in Candle /\ Now.candle.available = call.time
         /\ call.visible[Now.timeframe] \in Seq(Candle)
         /\ call.state[Now.timeframe]
              = Partial(Now.timeframe, call.visible[Now.timeframe], Now.candle, call.stage)
         /\ Tail(call.work) \in Seq(Task(DOMAIN visible, call.time))
<1>1. Now \in Task(DOMAIN visible, call.time) /\ Tail(call.work) \in Seq(Task(DOMAIN visible, call.time))
  BY HeadTailProperties DEF CallInv, Now
<1>2. Now.timeframe \in DOMAIN visible /\ Now.candle \in Candle /\ Now.candle.available = call.time
  BY <1>1 DEF Task, Candle, CallInv
<1>3. call.visible[Now.timeframe] \in Seq(Candle)
  BY <1>2 DEF CallInv
<1>4. call.state[Now.timeframe] = Reached(Now.timeframe)
  BY <1>2 DEF CallInv
<1> QED BY <1>1, <1>2, <1>3, <1>4 DEF Reached

\* A stage before the last leaves everything but its engine.
LEMMA StageKeeps ==
  ASSUME CallInv,
         NEW stage, NEW new, NEW next \in {"structure", "poi", "btmm"},
         Stage(stage, new, next),
         Follows(Now.candle, call.visible[Now.timeframe]),
         new = Partial(Now.timeframe, call.visible[Now.timeframe], Now.candle, next)
  PROVE  CallInv'
<1> DEFINE u == Now.timeframe
<1>1. call.work # <<>> /\ call.stage = stage /\ visible' = visible
  BY DEF Stage, At
<1>2. call' = [stage |-> next, work |-> call.work, time |-> call.time,
               state |-> [call.state EXCEPT ![u] = new],
               visible |-> call.visible]
  BY DEF Stage, CallInv
<1>3. /\ call'.stage = next /\ call'.work = call.work /\ call'.time = call.time
      /\ call'.visible = call.visible
      /\ call'.state = [call.state EXCEPT ![u] = new]
  BY <1>2
<1>4. Now' = Now
  BY <1>3 DEF Now
<1>5. u \in DOMAIN visible /\ call.state[u] = Partial(u, call.visible[u], Now.candle, stage)
  BY <1>1, AtHand
<1>6. call'.state = [t \in DOMAIN visible |-> Reached(t)']
  <2>1. DOMAIN call.state = DOMAIN visible
    BY DEF CallInv
  <2>2. call'.state = [t \in DOMAIN visible |->
                         IF t = u THEN new ELSE call.state[t]]
    BY <1>3, <2>1
  <2>3. ASSUME NEW t \in DOMAIN visible
        PROVE  Reached(t)' = IF t = u THEN new ELSE call.state[t]
    <3>1. CASE t = u
      BY <3>1, <1>1, <1>3, <1>4, <1>5 DEF Reached
    <3>2. CASE t # u
      <4>1. call.state[t] = Reached(t)
        BY DEF CallInv
      <4> QED BY <3>2, <4>1, <1>1, <1>3, <1>4 DEF Reached
    <3> QED BY <3>1, <3>2
  <2> QED BY <2>2, <2>3
<1>7. \A t \in DOMAIN visible : Extends(visible[t], call.visible[t], call.time)
  BY DEF CallInv
<1> QED BY <1>1, <1>2, <1>3, <1>4, <1>6, <1>7 DEF CallInv

\* The measurement stage keeps the call's invariant.
LEMMA MeasureKeeps == ASSUME CallInv, Measure PROVE CallInv'
<1> DEFINE u == Now.timeframe
           cs == call.visible[u]
           c == Now.candle
           new == [Local EXCEPT !.measurement = Append(@, c)]
<1>1. call.work # <<>> /\ call.stage = "measurement"
  BY DEF Measure, At
<1>2. cs \in Seq(Candle) /\ c \in Candle /\ Local = Partial(u, cs, c, "measurement")
  BY <1>1, AtHand DEF Local
<1>3. Local.measurement = cs
  BY <1>2 DEF Partial, Engines
<1>4. Follows(c, cs)
  BY <1>3 DEF Measure, InOrder, Follows, Last
<1>5. Stage("measurement", new, "structure")
  BY DEF Measure
<1> HIDE DEF u, cs, c
<1>6. Engines(u, Append(cs, c)).measurement = Append(Local.measurement, c)
  BY <1>3 DEF Engines
<1>7. new = Partial(u, cs, c, "structure")
  BY <1>2, <1>6, PartialSteps
<1> HIDE DEF new
<1> QED BY <1>4, <1>5, <1>7, StageKeeps DEF u, cs, c

\* The structure stage keeps the call's invariant.
LEMMA StructureKeeps == ASSUME CallInv, Structure PROVE CallInv'
<1> DEFINE u == Now.timeframe
           cs == call.visible[u]
           c == Now.candle
           input == [candle |-> c, swings |-> Local.measurement]
           new == [Local EXCEPT !.structure = Append(@, input)]
<1>1. call.work # <<>> /\ call.stage = "structure"
  BY DEF Structure, At
<1>2. cs \in Seq(Candle) /\ c \in Candle /\ Local = Partial(u, cs, c, "structure")
  BY <1>1, AtHand DEF Local
<1>3. Local.measurement = Append(cs, c) /\ Local.structure = Engines(u, cs).structure
  BY <1>2 DEF Partial, Engines
<1>4. Follows(c, cs)
  BY <1>1 DEF CallInv
<1>5. Stage("structure", new, "poi")
  BY DEF Structure
<1> HIDE DEF u, cs, c
<1>6. Engines(u, Append(cs, c)).structure = Append(Local.structure, input)
  <2>1. Engines(u, Append(cs, c)).structure
          = Append(Engines(u, cs).structure, [candle |-> c, swings |-> Append(cs, c)])
    <3>1. cs \in Seq(Candle) /\ c \in Candle
      BY <1>2
    <3> QED BY <3>1, EnginesGrow, ZenonT(60)
  <2> QED BY <2>1, <1>3
<1>7. new = Partial(u, cs, c, "poi")
  BY <1>2, <1>6, PartialSteps
<1> HIDE DEF new
<1> QED BY <1>4, <1>5, <1>7, StageKeeps DEF u, cs, c

\* The POI stage keeps the call's invariant.
LEMMA PoiKeeps == ASSUME CallInv, Poi PROVE CallInv'
<1> DEFINE u == Now.timeframe
           cs == call.visible[u]
           c == Now.candle
           input == [candle |-> c, measured |-> Local.measurement]
           new == [Local EXCEPT !.poi = Append(@, input)]
<1>1. call.work # <<>> /\ call.stage = "poi"
  BY DEF Poi, At
<1>2. cs \in Seq(Candle) /\ c \in Candle /\ Local = Partial(u, cs, c, "poi")
  BY <1>1, AtHand DEF Local
<1>3. Local.measurement = Append(cs, c) /\ Local.poi = Engines(u, cs).poi
  BY <1>2 DEF Partial, Engines
<1>4. Follows(c, cs)
  BY <1>1 DEF CallInv
<1>5. Stage("poi", new, "btmm")
  BY DEF Poi
<1> HIDE DEF u, cs, c
<1>6. Engines(u, Append(cs, c)).poi = Append(Local.poi, input)
  <2>1. Engines(u, Append(cs, c)).poi
          = Append(Engines(u, cs).poi, [candle |-> c, measured |-> Append(cs, c)])
    <3>1. cs \in Seq(Candle) /\ c \in Candle
      BY <1>2
    <3> QED BY <3>1, EnginesGrow, ZenonT(60)
  <2> QED BY <2>1, <1>3
<1>7. new = Partial(u, cs, c, "btmm")
  BY <1>2, <1>6, PartialSteps
<1> HIDE DEF new
<1> QED BY <1>4, <1>5, <1>7, StageKeeps DEF u, cs, c

\* A candle after the others extends what one moment extends.
LEMMA ExtendsMore ==
  ASSUME NEW old \in Seq(Candle), NEW cs \in Seq(Candle), NEW c \in Candle,
         Extends(old, cs, c.available), Follows(c, cs)
  PROVE  Extends(old, Append(cs, c), c.available)
<1> DEFINE ds == Append(cs, c)
           n  == Len(cs)
<1>1. n \in Nat /\ Len(ds) = n + 1 /\ ds[n + 1] = c /\ Len(old) \in Nat
  BY Grown
<1>2. \A i \in 1 .. n : ds[i] = cs[i]
  BY PrefixStays
<1>3. Len(old) <= n /\ Sorted(cs) /\ n = Len(cs)
  BY DEF Extends
<1>4. cs # <<>> <=> n # 0
  OBVIOUS
<1> HIDE DEF ds, n
<1>5. ASSUME NEW i \in 2 .. n + 1 PROVE ds[i].event > ds[i - 1].event
  <2>1. CASE i = n + 1
    <3>1. n \in 1 .. n /\ n # 0
      BY <2>1, <1>1
    <3>2. ds[i] = c /\ ds[i - 1] = cs[n]
      BY <2>1, <3>1, <1>1, <1>2
    <3> QED BY <3>1, <3>2, <1>3, <1>4 DEF Follows
  <2>2. CASE i \in 2 .. n
    <3>1. i \in 1 .. n /\ i - 1 \in 1 .. n
      BY <2>2, <1>1
    <3>2. ds[i] = cs[i] /\ ds[i - 1] = cs[i - 1]
      BY <3>1, <1>2
    <3> QED BY <2>2, <3>2, <1>3 DEF Sorted
  <2> QED BY <2>1, <2>2, <1>1
<1>6. \A i \in 1 .. Len(old) : ds[i] = old[i]
  <2>1. \A i \in 1 .. Len(old) : cs[i] = old[i] /\ i \in 1 .. n
    BY <1>1, <1>3 DEF Extends
  <2> QED BY <2>1, <1>2
<1>7. ASSUME NEW i \in Len(old) + 1 .. n + 1 PROVE ds[i].available = c.available
  <2>1. CASE i = n + 1
    BY <2>1, <1>1
  <2>2. CASE i \in Len(old) + 1 .. n
    <3>1. cs[i].available = c.available
      BY <2>2, <1>3 DEF Extends
    <3>2. i \in 1 .. n
      BY <2>2, <1>1
    <3> QED BY <3>1, <3>2, <1>2
  <2> QED BY <2>1, <2>2, <1>1
<1>8. Sorted(ds)
  BY <1>1, <1>5 DEF Sorted
<1>9. Len(old) <= Len(ds)
  BY <1>1, <1>3
<1>10. Extends(old, ds, c.available)
  BY <1>1, <1>6, <1>7, <1>8, <1>9 DEF Extends
<1> QED BY <1>10 DEF ds

\* The last stage makes the candle visible in the call.
LEMMA BtmmKeeps == ASSUME VisibleInv, CallInv, Btmm PROVE CallInv'
<1> DEFINE u == Now.timeframe
           cs == call.visible[u]
           c == Now.candle
           new == IF u \notin BtmmEligible THEN Local.btmm
                  ELSE Append(Local.btmm, [candle |-> c, pois |-> Len(Local.poi),
                                           evidence |-> Gated(u, call.time)])
<1>1. call.work # <<>> /\ call.stage = "btmm" /\ visible' = visible
  BY DEF Btmm, At
<1>2. /\ u \in DOMAIN visible /\ cs \in Seq(Candle) /\ c \in Candle /\ c.available = call.time
      /\ Local = Partial(u, cs, c, "btmm")
      /\ Tail(call.work) \in Seq(Task(DOMAIN visible, call.time))
  BY <1>1, AtHand DEF Local
<1>3. Follows(c, cs)
  BY <1>1 DEF CallInv
<1>4. call' = [stage |-> "measurement", work |-> Tail(call.work), time |-> call.time,
               state |-> [call.state EXCEPT ![u] = [@ EXCEPT !.btmm = new]],
               visible |-> [call.visible EXCEPT ![u] = Append(@, c)]]
  BY DEF Btmm, CallInv
<1>5. /\ call'.stage = "measurement" /\ call'.work = Tail(call.work) /\ call'.time = call.time
      /\ call'.state = [call.state EXCEPT ![u] = [@ EXCEPT !.btmm = new]]
      /\ call'.visible = [call.visible EXCEPT ![u] = Append(@, c)]
  BY <1>4
<1>6. [call.state[u] EXCEPT !.btmm = new] = Engines(u, Append(cs, c))
  <2>1. call.state[u] = Local
    BY DEF Local
  <2>2. Len(Engines(u, Append(cs, c)).poi) = Len(cs) + 1
    <3>1. Append(cs, c) \in Seq(Candle) /\ Len(Append(cs, c)) = Len(cs) + 1 /\ Len(cs) \in Nat
      BY <1>2, Grown
    <3>2. ASSUME NEW ds \in Seq(Candle) PROVE Len(Engines(u, ds).poi) = Len(ds)
      BY DEF Engines
    <3> QED BY <3>1, <3>2
  <2> HIDE DEF u, cs, c
  <2>3. Local.btmm = Engines(u, cs).btmm /\ Local.poi = Engines(u, Append(cs, c)).poi
    BY <1>2 DEF Partial
  <2>4. new = Engines(u, Append(cs, c)).btmm
    <3>1. cs \in Seq(Candle) /\ c \in Candle
      BY <1>2
    <3>2. Engines(u, Append(cs, c)).btmm =
            IF u \notin BtmmEligible THEN Engines(u, cs).btmm
            ELSE Append(Engines(u, cs).btmm,
                        [candle |-> c, pois |-> Len(cs) + 1, evidence |-> Gated(u, c.available)])
      BY <3>1, EnginesGrow
    <3>3. CASE u \notin BtmmEligible
      BY <3>3, <3>2, <2>3
    <3>4. CASE u \in BtmmEligible
      BY <3>4, <3>2, <2>2, <2>3, <1>2
    <3> QED BY <3>3, <3>4
  <2> HIDE DEF new
  <2>5. [Local EXCEPT !.btmm = new] = Engines(u, Append(cs, c))
    <3> DEFINE after == Engines(u, Append(cs, c))
    <3>1. after = [measurement |-> after.measurement, structure |-> after.structure,
                   poi |-> after.poi, btmm |-> after.btmm]
      BY DEF Engines
    <3>2. Partial(u, cs, c, "btmm")
            = [measurement |-> after.measurement, structure |-> after.structure,
               poi |-> after.poi, btmm |-> Engines(u, cs).btmm]
      BY DEF Partial
    <3>3. new = after.btmm
      BY <2>4
    <3> HIDE DEF after
    <3>4. [Partial(u, cs, c, "btmm") EXCEPT !.btmm = new] = after
      BY <3>1, <3>2, <3>3
    <3> QED BY <3>4, <1>2 DEF after
  <2> QED BY <2>1, <2>5
<1>7. call'.visible \in [DOMAIN visible -> Seq(Candle)]
  <2>1. Append(cs, c) \in Seq(Candle)
    BY <1>2, Grown
  <2> QED BY <2>1, <1>2, <1>5 DEF CallInv
<1>8. call'.visible[u] = Append(cs, c) /\ \A t \in DOMAIN visible : t # u => call'.visible[t] = call.visible[t]
  BY <1>2, <1>5 DEF CallInv
<1>9. ASSUME NEW t \in DOMAIN visible PROVE Extends(visible[t], call'.visible[t], call.time)
  <2>1. Extends(visible[t], call.visible[t], call.time) /\ visible[t] \in Seq(Candle)
    BY DEF CallInv, VisibleInv
  <2>2. CASE t = u
    <3>1. Extends(visible[t], Append(cs, c), c.available)
      BY <2>1, <2>2, <1>2, <1>3, ExtendsMore
    <3> QED BY <3>1, <2>2, <1>2, <1>8
  <2>3. CASE t # u
    BY <2>1, <2>3, <1>8
  <2> QED BY <2>2, <2>3
<1>10. \E t \in DOMAIN visible : Len(call'.visible[t]) > Len(visible[t])
  <2>1. Len(Append(cs, c)) = Len(cs) + 1 /\ Len(cs) \in Nat
    BY <1>2, Grown
  <2>2. Len(visible[u]) <= Len(cs) /\ Len(visible[u]) \in Nat
    BY <1>2 DEF CallInv, Extends, VisibleInv
  <2> QED BY <2>1, <2>2, <1>2, <1>8
<1>11. call'.state = [t \in DOMAIN visible |-> Reached(t)']
  <2>1. call'.state = [t \in DOMAIN visible |->
                         IF t = u THEN Engines(u, Append(cs, c)) ELSE call.state[t]]
    <3>1. DOMAIN call.state = DOMAIN visible
      BY DEF CallInv
    <3> HIDE DEF u, cs, c, new
    <3> QED BY <1>5, <1>6, <3>1
  <2>2. ASSUME NEW t \in DOMAIN visible
        PROVE  Reached(t)' = IF t = u THEN Engines(u, Append(cs, c)) ELSE call.state[t]
    <3>1. Reached(t)' = Engines(t, call'.visible[t])
      BY <1>5, PartialStart DEF Reached
    <3>2. t # u => call.state[t] = Engines(t, call.visible[t])
      BY <1>2 DEF CallInv, Reached
    <3> HIDE DEF u, cs, c
    <3> QED BY <3>1, <3>2, <1>8
  <2> HIDE DEF u, cs, c
  <2> QED BY <2>1, <2>2
<1> HIDE DEF u, cs, c, new
<1> QED BY <1>1, <1>2, <1>4, <1>5, <1>7, <1>9, <1>10, <1>11 DEF CallInv

\* A call begins with the engines as they are and all of its candles to come.
LEMMA BeginKeeps == ASSUME VisibleInv, GroupGiven PROVE CallInv'
<1>0. PICK time \in Int :
        \E group \in [DOMAIN visible -> Seq([event : Int, available : {time}])] :
          Work(group) # <<>> /\ BeginGroup(group)
  BY DEF GroupGiven
<1>1. PICK group \in [DOMAIN visible -> Seq([event : Int, available : {time}])] :
        Work(group) # <<>> /\ BeginGroup(group)
  BY <1>0
<1> DEFINE work == Work(group)
<1>2. work \in Seq(Task(DOMAIN visible, time))
  BY WorkOfGroup
<1>3. visible' = visible /\ work # <<>>
  BY <1>1 DEF BeginGroup
<1>4. call' = [stage |-> "measurement", work |-> work, time |-> Head(work).candle.available,
               state |-> state, visible |-> visible]
  BY <1>1 DEF BeginGroup
<1> HIDE DEF work
<1>5. Head(work).candle.available = time
  <2>1. Head(work) \in Task(DOMAIN visible, time)
    BY <1>2, <1>3, HeadTailProperties
  <2> QED BY <2>1 DEF Task
<1>6. /\ call'.stage = "measurement" /\ call'.work = work /\ call'.time = time
      /\ call'.state = state /\ call'.visible = visible
  BY <1>4, <1>5
<1>7. \A t \in DOMAIN visible : Reached(t)' = Engines(t, visible[t])
  BY <1>6, PartialStart DEF Reached
<1>8. call'.state = [t \in DOMAIN visible |-> Reached(t)']
  BY <1>6, <1>7 DEF VisibleInv, EnginesOf
<1>9. \A t \in DOMAIN visible : Extends(visible[t], visible[t], time)
  <2> SUFFICES ASSUME NEW t \in DOMAIN visible PROVE Extends(visible[t], visible[t], time)
    OBVIOUS
  <2>1. Len(visible[t]) \in Nat /\ Sorted(visible[t])
    BY DEF VisibleInv
  <2> QED BY <2>1 DEF Extends
<1> QED BY <1>2, <1>3, <1>4, <1>5, <1>6, <1>8, <1>9 DEF CallInv, VisibleInv

\* A call that is over has brought the engines where its candles do.
LEMMA Completed ==
  ASSUME CallInv, call.work = <<>>
  PROVE  call.state = EnginesOf(call.visible)
<1>1. DOMAIN call.visible = DOMAIN visible
  BY DEF CallInv
<1>2. \A t \in DOMAIN visible : Reached(t) = Engines(t, call.visible[t])
  BY DEF Reached
<1> QED BY <1>1, <1>2 DEF CallInv, EnginesOf

\* The invariant holds before the first call.
LEMMA InitialInv ==
  ASSUME NEW tracked \in SUBSET Range(Timeframes), InitKernel(tracked)
  PROVE  Inv /\ Batch!Init
<1>1. visible = [t \in tracked |-> <<>>] /\ state = [t \in tracked |-> NoEngines]
      /\ count = 0 /\ finalized = None /\ returned = None /\ ledgerCache = None /\ call = NoCall
  BY DEF InitKernel
<1>2. visible \in [DOMAIN visible -> Seq(Candle)] /\ \A t \in DOMAIN visible : Sorted(visible[t])
  BY <1>1 DEF Sorted
<1>3. \A t \in tracked : visible[t] = <<>> /\ Engines(t, visible[t]) = NoEngines
  BY <1>1, NoEnginesYet
<1>4. state = EnginesOf(visible)
  BY <1>1, <1>3 DEF EnginesOf
<1>5. Inv
  BY <1>1, <1>2, <1>4 DEF Inv, VisibleInv
<1>6. Batch!EnginesOf(visible) = EnginesOf(visible)
  BY DEF EnginesOf, Batch!EnginesOf, Engines, Batch!Engines, Gated, Batch!Gated
<1>7. Batch!Init
  BY <1>1, <1>4, <1>6 DEF Batch!Init, Batch!Range, Range
<1> QED BY <1>5, <1>7

\* Each step keeps it.
LEMMA StepInv == Inv /\ [KernelNext]_kernelVars => Inv'
<1> SUFFICES ASSUME Inv, [KernelNext]_kernelVars PROVE Inv'
  OBVIOUS
<1>1. CASE GroupGiven
  <2>1. CallInv'
    BY <1>1, BeginKeeps DEF Inv
  <2>2. UNCHANGED <<visible, state, finalized, ledgerCache>>
    BY <1>1 DEF GroupGiven, BeginGroup
  <2> QED BY <2>1, <2>2 DEF Inv, VisibleInv, Ledger, Empty, EnginesOf
<1>2. CASE Measure \/ Structure \/ Poi \/ Btmm
  <2>1. call # NoCall
    BY <1>2 DEF Measure, Structure, Poi, Btmm, At, Idle
  <2>2. CallInv'
    BY <1>2, <2>1, MeasureKeeps, StructureKeeps, PoiKeeps, BtmmKeeps DEF Inv
  <2>3. UNCHANGED <<visible, state, finalized, ledgerCache>>
    BY <1>2 DEF Measure, Structure, Poi, Btmm, Stage
  <2> QED BY <2>2, <2>3 DEF Inv, VisibleInv
<1>3. CASE Publish
  <2>1. call.work = <<>> /\ CallInv
    BY <1>3 DEF Publish, Idle, Inv
  <2>2. visible' = call.visible /\ state' = call.state /\ ledgerCache' = None /\ call' = NoCall
    BY <1>3 DEF Publish
  <2>3. state' = EnginesOf(visible)'
    BY <2>1, <2>2, Completed DEF EnginesOf
  <2>4. visible' \in [DOMAIN visible' -> Seq(Candle)] /\ DOMAIN visible' = DOMAIN visible
    BY <2>1, <2>2 DEF CallInv
  <2>5. \A t \in DOMAIN visible' : Sorted(visible'[t])
    BY <2>1, <2>2, <2>4 DEF CallInv, Extends
  <2> QED BY <2>2, <2>3, <2>4, <2>5 DEF Inv, VisibleInv
<1>4. CASE Raise
  BY <1>4 DEF Raise, Inv, VisibleInv
<1>5. CASE EventLedger
  <2>1. UNCHANGED <<visible, state, finalized, call>> /\ Idle
    BY <1>5 DEF EventLedger
  <2>2. ledgerCache' = Ledger(visible, state, finalized) \/ ledgerCache' = ledgerCache
    BY <1>5 DEF EventLedger
  <2> QED BY <2>1, <2>2 DEF Inv, VisibleInv, Idle
<1>6. CASE FinalizeKernel
  <2>1. UNCHANGED <<visible, state, call>> /\ Idle
    BY <1>6 DEF FinalizeKernel
  <2>2. UNCHANGED <<finalized, ledgerCache>> \/ ledgerCache' = None
    BY <1>6 DEF FinalizeKernel
  <2> QED BY <2>1, <2>2 DEF Inv, VisibleInv, Idle
<1>7. CASE UNCHANGED kernelVars
  <2>1. UNCHANGED <<visible, state, finalized, ledgerCache, call>>
    BY <1>7 DEF kernelVars
  <2> QED BY <2>1 DEF Inv, VisibleInv, CallInv, Reached, Now
<1> QED BY <1>1, <1>2, <1>3, <1>4, <1>5, <1>6, <1>7 DEF KernelNext, KernelStep

-----------------------------------------------------------------------------
(* The refinement.                                                         *)

\* The definitions of the batch module are these.
LEMMA SameDefinitions ==
  /\ \A vs : Batch!EnginesOf(vs) = EnginesOf(vs)
  /\ \A vs : Batch!Empty(vs) = Empty(vs)
  /\ \A vs, es, ts : Batch!Ledger(vs, es, ts) = Ledger(vs, es, ts)
  /\ \A vs, es : Batch!Analysis(vs, es) = Analysis(vs, es)
  /\ \A vs : Batch!EvidenceSeen(vs) = EvidenceSeen(vs)
<1>1. \A t, cs : Batch!Engines(t, cs) = Engines(t, cs)
  BY DEF Engines, Batch!Engines, Gated, Batch!Gated
<1>2. \A vs : Batch!EnginesOf(vs) = EnginesOf(vs)
  BY <1>1 DEF EnginesOf, Batch!EnginesOf
<1>3. \A vs : Batch!Empty(vs) <=> Empty(vs)
  BY DEF Empty, Batch!Empty
<1>4. \A vs, es, ts : Batch!Ledger(vs, es, ts) = Ledger(vs, es, ts)
  BY <1>3 DEF Ledger, Batch!Ledger
<1>5. \A vs, es : Batch!Analysis(vs, es) = Analysis(vs, es)
  BY <1>3 DEF Analysis, Batch!Analysis
<1>6. \A vs : Batch!EvidenceSeen(vs) = EvidenceSeen(vs)
  BY DEF EvidenceSeen, Batch!EvidenceSeen, Gated, Batch!Gated, Last, Batch!Last
<1> QED BY <1>2, <1>3, <1>4, <1>5, <1>6

\* The candles of a call are one moment's.
LEMMA Moment ==
  ASSUME NEW old \in Seq(Candle), NEW new \in Seq(Candle), NEW time \in Int, Extends(old, new, time)
  PROVE  /\ IsPrefix(old, new)
         /\ LET added == SubSeq(new, Len(old) + 1, Len(new))
            IN  /\ \A c \in Range(added) : c.available = time
                /\ Len(new) > Len(old) => Range(added) # {}
<1> DEFINE added == SubSeq(new, Len(old) + 1, Len(new))
<1>1. Len(old) \in Nat /\ Len(new) \in Nat /\ Len(old) <= Len(new)
  BY DEF Extends
<1>2. SubSeq(old, 1, Len(old)) = SubSeq(new, 1, Len(old))
  <2> DEFINE start == SubSeq(new, 1, Len(old))
  <2>1. \A i \in 1 .. Len(old) : new[i] \in Candle
    BY <1>1
  <2>2. start \in Seq(Candle) /\ Len(start) = Len(old)
        /\ \A i \in 1 .. Len(old) : start[i] = new[i]
    BY <1>1, <2>1, SubSeqProperties
  <2>3. \A i \in 1 .. Len(old) : start[i] = old[i]
    BY <2>2 DEF Extends
  <2> HIDE DEF start
  <2>4. start = old
    BY <2>2, <2>3, SeqEqual
  <2> QED BY <2>4, SubSeqFull DEF start
<1>3. \A i \in Len(old) + 1 .. Len(new) : new[i] \in Candle
  BY <1>1
<1>4. added \in Seq(Candle) /\ Len(added) = Len(new) - Len(old)
      /\ \A i \in 1 .. Len(added) : added[i] = new[Len(old) + i]
  BY <1>1, <1>3, SubSeqProperties
<1> HIDE DEF added
<1>5. DOMAIN added = 1 .. Len(added)
  BY <1>4
<1>6. ASSUME NEW i \in 1 .. Len(added) PROVE added[i].available = time
  <2>1. Len(old) + i \in Len(old) + 1 .. Len(new)
    BY <1>1, <1>4
  <2>2. new[Len(old) + i].available = time
    BY <2>1 DEF Extends
  <2> QED BY <2>2, <1>4
<1>7. \A c \in Range(added) : c.available = time
  BY <1>5, <1>6 DEF Range
<1>8. Len(new) > Len(old) => 1 \in DOMAIN added
  BY <1>1, <1>4, <1>5
<1>9. Len(new) > Len(old) => Range(added) # {}
  BY <1>8 DEF Range
<1>10. IsPrefix(old, new)
  BY <1>1, <1>2 DEF IsPrefix
<1> QED BY <1>7, <1>9, <1>10 DEF added

\* Publishing makes a group visible in one step.
LEMMA PublishAdvances == ASSUME Inv, Publish PROVE Batch!AdvanceGroup
<1>1. call.work = <<>> /\ CallInv /\ VisibleInv
  BY DEF Publish, Idle, Inv
<1>2. visible' = call.visible /\ state' = call.state /\ count' = count + 1
      /\ UNCHANGED <<finalized, returned>>
  BY DEF Publish
<1>3. state' = Batch!EnginesOf(visible')
  <2>1. state' = EnginesOf(call.visible)
    BY <1>1, <1>2, Completed
  <2> QED BY <2>1, <1>2, SameDefinitions
<1>4. DOMAIN visible' = DOMAIN visible
  BY <1>1, <1>2 DEF CallInv
<1>5. ASSUME NEW t \in DOMAIN visible
      PROVE  /\ visible[t] \in Seq(Candle) /\ visible'[t] \in Seq(Candle)
             /\ Extends(visible[t], visible'[t], call.time)
  BY <1>1, <1>2 DEF CallInv, VisibleInv
<1> DEFINE added(t) == SubSeq(visible'[t], Len(visible[t]) + 1, Len(visible'[t]))
           times == {c.available : c \in UNION {Range(added(t)) : t \in DOMAIN visible}}
<1>6. \A t \in DOMAIN visible :
        /\ IsPrefix(visible[t], visible'[t])
        /\ \A c \in Range(added(t)) : c.available = call.time
        /\ Len(visible'[t]) > Len(visible[t]) => Range(added(t)) # {}
  <2>1. call.time \in Int
    BY <1>1 DEF CallInv
  <2> QED BY <1>5, <2>1, Moment
<1>7. PICK u \in DOMAIN visible : Range(added(u)) # {}
  <2>1. \E u \in DOMAIN visible : Len(visible'[u]) > Len(visible[u])
    BY <1>1, <1>2 DEF CallInv
  <2> QED BY <2>1, <1>6
<1> HIDE DEF added
<1>8. times = {call.time}
  BY <1>6, <1>7
<1>9. \E time \in times : times = {time}
  BY <1>8
<1>10. \A t \in DOMAIN visible : \A i \in 2 .. Len(visible'[t]) :
         visible'[t][i].event > visible'[t][i - 1].event
  BY <1>5 DEF Extends, Sorted
<1>11. \A t \in DOMAIN visible : Batch!IsPrefix(visible[t], visible'[t])
  BY <1>6 DEF Batch!IsPrefix, IsPrefix
<1>12. \A t \in DOMAIN visible : Range(added(t)) = Batch!Range(added(t))
  BY DEF Batch!Range, Range
<1>13. times = {c.available : c \in UNION {Batch!Range(added(t)) : t \in DOMAIN visible}}
  BY <1>12
<1> HIDE DEF times
<1> QED BY <1>2, <1>3, <1>4, <1>9, <1>10, <1>11, <1>13 DEF Batch!AdvanceGroup, added

\* The setups know the evidence visible at their timeframe's last candle.
LEMMA EvidenceIsSeen == ASSUME VisibleInv PROVE EvidenceGiven = EvidenceSeen(visible)
<1>1. DOMAIN state = DOMAIN visible
  BY DEF VisibleInv, EnginesOf
<1>2. ASSUME NEW t \in DOMAIN visible
      PROVE  (IF state[t].btmm = <<>> THEN {} ELSE Last(state[t].btmm).evidence)
               = (IF visible[t] = <<>> THEN {} ELSE Gated(t, Last(visible[t]).available))
  <2> DEFINE cs == visible[t]
             setups == [i \in 1 .. Len(cs) |-> [candle |-> cs[i], pois |-> i,
                                                evidence |-> Gated(t, cs[i].available)]]
  <2>1. cs \in Seq(Candle) /\ Len(cs) \in Nat /\ DOMAIN cs = 1 .. Len(cs)
    BY DEF VisibleInv
  <2>2. state[t].btmm = IF t \notin BtmmEligible THEN <<>> ELSE setups
    BY <2>1 DEF VisibleInv, EnginesOf, Engines
  <2>3. CASE t \notin BtmmEligible
    <3>1. \A time : Gated(t, time) = {}
      BY <2>3, ScannerConstants DEF Gated
    <3> QED BY <2>2, <2>3, <3>1
  <2>4. CASE t \in BtmmEligible
    <3>1. Len(setups) = Len(cs)
      BY <2>1
    <3>2. setups = <<>> <=> cs = <<>>
      BY <2>1
    <3>3. cs # <<>> => Last(setups).evidence = Gated(t, Last(cs).available)
      BY <2>1, <3>1 DEF Last
    <3> HIDE DEF setups
    <3> QED BY <2>2, <2>4, <3>2, <3>3
  <2> QED BY <2>3, <2>4
<1> QED BY <1>1, <1>2 DEF EvidenceGiven, EvidenceSeen

\* Each step of the kernel is a step of the batch module or none.
LEMMA StepRefines == Inv /\ [KernelNext]_kernelVars => [Batch!Next]_Batch!vars
<1> SUFFICES ASSUME Inv, [KernelNext]_kernelVars PROVE [Batch!Next]_Batch!vars
  OBVIOUS
<1>1. CASE Publish
  BY <1>1, PublishAdvances DEF Batch!Next
<1>2. CASE EventLedger
  <2>1. ledgerCache' = Ledger(visible, state, finalized)
    BY <1>2 DEF EventLedger, Inv
  <2>2. Batch!ReadLedger
    BY <1>2, <2>1, SameDefinitions DEF EventLedger, Batch!ReadLedger
  <2> QED BY <2>2 DEF Batch!Next
<1>3. CASE FinalizeKernel
  <2>1. returned' = Batch!Analysis(visible, Batch!EvidenceSeen(visible))
    BY <1>3, EvidenceIsSeen, SameDefinitions DEF FinalizeKernel, Inv
  <2>2. finalized' = IF Batch!Empty(visible) THEN finalized ELSE visible
    BY <1>3, SameDefinitions DEF FinalizeKernel
  <2>3. UNCHANGED <<visible, state, count>>
    BY <1>3 DEF FinalizeKernel
  <2> QED BY <2>1, <2>2, <2>3 DEF Batch!Finalize, Batch!Next
<1>4. CASE GroupGiven \/ Measure \/ Structure \/ Poi \/ Btmm \/ Raise \/ UNCHANGED kernelVars
  BY <1>4 DEF GroupGiven, BeginGroup, Measure, Structure, Poi, Stage, Btmm, Raise, kernelVars,
              Batch!vars
<1> QED BY <1>1, <1>2, <1>3, <1>4 DEF KernelNext, KernelStep

\* Whoever calls the kernel, with whatever groups, and whatever stage raises: a
\* group counts as a whole or not at all, the engines of every timeframe are where
\* its visible candles bring them from nothing, and the ledger and the finalization
\* are of the candles visible now (scanner/replay.py IncrementalReplayKernel).
THEOREM KernelImplements == KernelSpec => ImplementsScannerBatch
<1>1. (\E tracked \in SUBSET Range(Timeframes) : InitKernel(tracked)) => Inv /\ Batch!Init
  BY InitialInv
<1> QED BY <1>1, StepInv, StepRefines, PTL DEF KernelSpec, ImplementsScannerBatch, Batch!Spec

-----------------------------------------------------------------------------
(* Putting a set in order.                                                 *)

\* A set is put in the order of a key that tells its elements apart.
IsByKey(s, S, key) ==
  /\ s \in [1 .. Cardinality(S) -> S]
  /\ Range(s) = S
  /\ \A i, j \in 1 .. Cardinality(S) : i < j => key[s[i]] < key[s[j]]

Keyed(S, key) == (\A x \in S : key[x] \in Int) /\ (\A x, y \in S : key[x] = key[y] => x = y)

\* Taking an element away leaves one less.
LEMMA OneLess ==
  ASSUME NEW S, IsFiniteSet(S), NEW x \in S
  PROVE  /\ IsFiniteSet(S \ {x})
         /\ Cardinality(S \ {x}) \in Nat /\ Cardinality(S) = Cardinality(S \ {x}) + 1
<1>1. IsFiniteSet(S \ {x}) /\ Cardinality(S \ {x}) = Cardinality(S) - 1
  BY FS_RemoveElement
<1>2. Cardinality(S) \in Nat
  BY FS_CardinalityType
<1>3. Cardinality(S \ {x}) \in Nat
  BY <1>1, FS_CardinalityType
<1> QED BY <1>1, <1>2, <1>3

\* The greatest element goes after the others in order.
LEMMA ByKeyMore ==
  ASSUME NEW S, IsFiniteSet(S), NEW key, NEW m \in S, NEW s,
         \A x \in S \ {m} : key[x] < key[m],
         IsByKey(s, S \ {m}, key)
  PROVE  \E u : IsByKey(u, S, key)
<1> DEFINE n == Cardinality(S \ {m})
           u == [i \in 1 .. n + 1 |-> IF i = n + 1 THEN m ELSE s[i]]
<1>1. n \in Nat /\ Cardinality(S) = n + 1
  BY OneLess
<1>2. s \in [1 .. n -> S \ {m}] /\ Range(s) = S \ {m}
      /\ \A i, j \in 1 .. n : i < j => key[s[i]] < key[s[j]]
  BY DEF IsByKey
<1> HIDE DEF n
<1>3. \A i \in 1 .. n : u[i] = s[i] /\ s[i] \in S \ {m}
  BY <1>1, <1>2
<1>4. u[n + 1] = m
  BY <1>1
<1>5. \A i \in 1 .. n + 1 : i = n + 1 \/ i \in 1 .. n
  BY <1>1
<1>6. DOMAIN u = 1 .. n + 1 /\ u = [i \in 1 .. n + 1 |-> u[i]]
  OBVIOUS
<1> HIDE DEF u
<1>7. \A i \in 1 .. n + 1 : u[i] \in S
  BY <1>3, <1>4, <1>5
<1>8. u \in [1 .. n + 1 -> S]
  BY <1>6, <1>7
<1>9. Range(u) = S
  <2>1. ASSUME NEW x \in S PROVE x \in Range(u)
    <3>1. CASE x = m
      BY <3>1, <1>1, <1>4, <1>6 DEF Range
    <3>2. CASE x # m
      <4>1. PICK i \in 1 .. n : s[i] = x
        BY <3>2, <1>2 DEF Range
      <4>2. i \in 1 .. n + 1 /\ u[i] = x
        BY <4>1, <1>1, <1>3
      <4> QED BY <4>2, <1>6 DEF Range
    <3> QED BY <3>1, <3>2
  <2> QED BY <2>1, <1>6, <1>7 DEF Range
<1>10. ASSUME NEW i \in 1 .. n + 1, NEW j \in 1 .. n + 1, i < j PROVE key[u[i]] < key[u[j]]
  <2>1. i \in 1 .. n
    BY <1>1, <1>10
  <2>2. CASE j = n + 1
    BY <2>1, <2>2, <1>3, <1>4
  <2>3. CASE j \in 1 .. n
    BY <2>1, <2>3, <1>2, <1>3, <1>10
  <2> QED BY <2>2, <2>3, <1>5
<1>11. IsByKey(u, S, key)
  BY <1>1, <1>8, <1>9, <1>10 DEF IsByKey
<1> QED BY <1>11

HasSize(T, n) == Cardinality(T) = n

\* Every finite set can be put in order.
LEMMA ByKeyExists ==
  ASSUME NEW S, IsFiniteSet(S), NEW key, Keyed(S, key)
  PROVE  \E s : IsByKey(s, S, key)
<1> DEFINE N == {n \in Nat : \A T \in SUBSET S : HasSize(T, n) => \E s : IsByKey(s, T, key)}
<1>0. \A T \in SUBSET S : IsFiniteSet(T)
  BY FS_Subset
<1>1. 0 \in N
  <2> SUFFICES ASSUME NEW T \in SUBSET S, HasSize(T, 0) PROVE \E s : IsByKey(s, T, key)
    OBVIOUS
  <2>1. T = {}
    BY <1>0, FS_EmptySet DEF HasSize
  <2>2. <<>> \in [1 .. 0 -> T] /\ Range(<<>>) = {}
    BY <2>1 DEF Range
  <2>3. IsByKey(<<>>, T, key)
    BY <2>1, <2>2 DEF IsByKey, HasSize
  <2> QED BY <2>3
<1>2. ASSUME NEW n \in N PROVE n + 1 \in N
  <2> SUFFICES ASSUME NEW T \in SUBSET S, HasSize(T, n + 1) PROVE \E s : IsByKey(s, T, key)
    OBVIOUS
  <2>0. n \in Nat /\ IsFiniteSet(T) /\ \A U \in SUBSET S : HasSize(U, n) => \E s : IsByKey(s, U, key)
    BY <1>0
  <2> HIDE DEF N
  <2>1. T # {}
    <3>1. Cardinality({}) = 0
      BY FS_EmptySet
    <3> QED BY <3>1, <2>0 DEF HasSize
  <2>2. ASSUME NEW x \in T PROVE \E s : IsByKey(s, T \ {x}, key)
    <3>1. HasSize(T \ {x}, n) /\ T \ {x} \in SUBSET S
      BY <2>0, OneLess DEF HasSize
    <3> QED BY <3>1, <2>0
  <2>3. PICK m \in T : \A x \in T \ {m} : key[x] < key[m]
    <3>1. PICK x \in T : TRUE
      BY <2>1
    <3>2. PICK s : IsByKey(s, T \ {x}, key)
      BY <2>2
    <3>3. HasSize(T \ {x}, n)
      BY <2>0, OneLess, SMTT(30) DEF HasSize
    <3>4. CASE n = 0
      <4>1. Range(s) = {}
        BY <3>2, <3>3, <3>4 DEF IsByKey, Range, HasSize
      <4>2. T \ {x} = {}
        BY <4>1, <3>2 DEF IsByKey
      <4> QED BY <4>2
    <3>5. CASE n # 0
      <4>1. s[n] \in T /\ s[n] # x /\ \A y \in T \ {x} : y = s[n] \/ key[y] < key[s[n]]
        <5>1. n \in 1 .. n /\ s[n] \in T \ {x}
          <6>1. n \in 1 .. n
            BY <2>0, <3>5
          <6>2. s \in [1 .. n -> T \ {x}]
            BY <3>2, <3>3 DEF IsByKey, HasSize
          <6> QED BY <6>1, <6>2
        <5>2. ASSUME NEW y \in T \ {x} PROVE y = s[n] \/ key[y] < key[s[n]]
          <6>1. PICK i \in 1 .. n : s[i] = y
            BY <3>2, <3>3 DEF IsByKey, Range, HasSize
          <6>2. i = n \/ i < n
            BY <2>0
          <6> QED BY <6>1, <6>2, <5>1, <3>2, <3>3 DEF IsByKey, HasSize
        <5> QED BY <5>1, <5>2
      <4>2. key[x] \in Int /\ key[s[n]] \in Int /\ key[x] # key[s[n]]
            /\ \A y \in T : key[y] \in Int
        BY <4>1 DEF Keyed
      <4>3. CASE key[x] < key[s[n]]
        <5>1. \A y \in T \ {s[n]} : key[y] < key[s[n]]
          BY <4>1, <4>3
        <5> QED BY <4>1, <5>1
      <4>4. CASE key[s[n]] < key[x]
        <5>1. \A y \in T \ {x} : key[y] < key[x]
          BY <4>1, <4>2, <4>4
        <5> QED BY <5>1
      <4> QED BY <4>2, <4>3, <4>4
    <3> QED BY <2>0, <3>4, <3>5
  <2>4. PICK s : IsByKey(s, T \ {m}, key)
    BY <2>2
  <2> QED BY <2>0, <2>3, <2>4, ByKeyMore
<1> HIDE DEF N
<1>3. N = Nat
  <2>1. N \in SUBSET Nat
    BY DEF N
  <2> QED BY <1>1, <1>2, <2>1, SetInduction
<1>4. Cardinality(S) \in Nat /\ S \in SUBSET S
  BY FS_CardinalityType
<1> QED BY <1>3, <1>4 DEF N, HasSize

\* ByKey puts a finite set in order.
LEMMA InKeyOrder ==
  ASSUME NEW S, IsFiniteSet(S), NEW key, Keyed(S, key)
  PROVE  IsByKey(ByKey(S, key), S, key) /\ Cardinality(S) \in Nat
<1>1. PICK s : IsByKey(s, S, key)
  BY ByKeyExists
<1>2. \E u \in [1 .. Cardinality(S) -> S] :
        /\ Range(u) = S
        /\ \A i, j \in 1 .. Cardinality(S) : i < j => key[u[i]] < key[u[j]]
  BY <1>1 DEF IsByKey
<1>3. IsByKey(ByKey(S, key), S, key)
  BY <1>2 DEF IsByKey, ByKey
<1> QED BY <1>3, FS_CardinalityType

\* Candles have times.
LEMMA EventOf ==
  ASSUME NEW cs \in Seq(Candle)
  PROVE  /\ Len(cs) \in Nat /\ DOMAIN cs = 1 .. Len(cs)
         /\ \A i \in 1 .. Len(cs) : /\ cs[i] \in Candle
                                   /\ cs[i].event \in Int /\ cs[i].available \in Int
<1>1. \A c \in Candle : c.event \in Int /\ c.available \in Int
  BY DEF Candle
<1>2. \A i \in 1 .. Len(cs) : cs[i] \in Candle
  OBVIOUS
<1>3. Len(cs) \in Nat /\ DOMAIN cs = 1 .. Len(cs)
  OBVIOUS
<1> QED BY <1>1, <1>2, <1>3

\* The candles of one time after another are ordered throughout.
LEMMA SortedThroughout ==
  ASSUME NEW cs \in Seq(Candle), Sorted(cs)
  PROVE  \A i, j \in 1 .. Len(cs) : i < j => cs[i].event < cs[j].event
<1> DEFINE N == {n \in Nat : n \in 1 .. Len(cs) => \A i \in 1 .. n - 1 : cs[i].event < cs[n].event}
<1>0. Len(cs) \in Nat /\ \A i \in 1 .. Len(cs) : cs[i].event \in Int
  BY EventOf
<1>1. 0 \in N
  OBVIOUS
<1>2. ASSUME NEW n \in N PROVE n + 1 \in N
  <2> SUFFICES ASSUME n + 1 \in 1 .. Len(cs), NEW i \in 1 .. (n + 1) - 1
               PROVE  cs[i].event < cs[n + 1].event
    OBVIOUS
  <2>1. n \in Nat /\ n + 1 \in 2 .. Len(cs) /\ n \in 1 .. Len(cs) /\ i \in 1 .. n
        /\ i \in 1 .. Len(cs)
    BY <1>0
  <2>2. cs[n + 1].event > cs[n].event
    <3>1. cs[n + 1].event > cs[(n + 1) - 1].event
      BY <2>1 DEF Sorted
    <3>2. (n + 1) - 1 = n
      BY <2>1
    <3> QED BY <3>1, <3>2
  <2>3. CASE i = n
    BY <2>2, <2>3, <2>1, <1>0
  <2>4. CASE i \in 1 .. n - 1
    <3>1. cs[i].event < cs[n].event
      BY <2>1, <2>4
    <3> QED BY <3>1, <2>1, <2>2, <1>0
  <2> QED BY <2>1, <2>3, <2>4
<1> HIDE DEF N
<1>3. N = Nat
  <2>1. N \in SUBSET Nat
    BY DEF N
  <2> QED BY <1>1, <1>2, <2>1, SetInduction
<1> SUFFICES ASSUME NEW i \in 1 .. Len(cs), NEW j \in 1 .. Len(cs), i < j
             PROVE  cs[i].event < cs[j].event
  OBVIOUS
<1>4. i \in 1 .. j - 1 /\ j \in Nat
  BY <1>0
<1> QED BY <1>3, <1>4 DEF N

SameRange(xs, ys) == Range(xs) = Range(ys)

\* What one sorted sequence holds, another of the same candles holds in the same place.
LEMMA SortedAgree ==
  ASSUME NEW xs \in Seq(Candle), NEW ys \in Seq(Candle), Sorted(xs), Sorted(ys),
         SameRange(xs, ys)
  PROVE  \A i \in 1 .. Len(xs) : i \in 1 .. Len(ys) /\ ys[i] = xs[i]
<1> DEFINE N == {n \in Nat : \A i \in 1 .. n : i \in 1 .. Len(xs) => i \in 1 .. Len(ys) /\ ys[i] = xs[i]}
<1>0. /\ Len(xs) \in Nat /\ \A i \in 1 .. Len(xs) : xs[i].event \in Int
      /\ Len(ys) \in Nat /\ \A i \in 1 .. Len(ys) : ys[i].event \in Int
      /\ DOMAIN xs = 1 .. Len(xs) /\ DOMAIN ys = 1 .. Len(ys)
  BY EventOf
<1>a. \A i, j \in 1 .. Len(xs) : i < j => xs[i].event < xs[j].event
  BY SortedThroughout
<1>b. \A i, j \in 1 .. Len(ys) : i < j => ys[i].event < ys[j].event
  BY SortedThroughout
<1>1. 0 \in N
  OBVIOUS
<1>2. ASSUME NEW n \in N PROVE n + 1 \in N
  <2>1. n \in Nat /\ \A i \in 1 .. n : i \in 1 .. Len(xs) => i \in 1 .. Len(ys) /\ ys[i] = xs[i]
    OBVIOUS
  <2>2. ASSUME n + 1 \in 1 .. Len(xs) PROVE n + 1 \in 1 .. Len(ys) /\ ys[n + 1] = xs[n + 1]
    <3> DEFINE m == n + 1
    <3>1. m \in Nat /\ m \in 1 .. Len(xs) /\ \A i \in 1 .. Len(xs) : i < m => i \in 1 .. n
      BY <2>1, <2>2, <1>0
    <3> HIDE DEF m
    <3>2. PICK j \in 1 .. Len(ys) : ys[j] = xs[m]
      <4>1. xs[m] \in Range(ys)
        <5>1. xs[m] \in Range(xs)
          BY <3>1, <1>0 DEF Range
        <5> QED BY <5>1 DEF SameRange
      <4> QED BY <4>1, <1>0 DEF Range
    <3>3. ~ (j < m)
      <4> SUFFICES ASSUME j < m PROVE FALSE
        OBVIOUS
      <4>1. j \in 1 .. Len(xs) /\ j \in 1 .. n
        BY <3>1, <1>0
      <4>2. xs[j] = xs[m]
        BY <4>1, <2>1, <3>2
      <4>3. xs[j].event < xs[m].event
        BY <4>1, <3>1, <1>a
      <4> QED BY <4>1, <4>2, <4>3, <1>0
    <3>4. m \in 1 .. Len(ys)
      BY <3>1, <3>3, <1>0
    <3>5. ~ (m < j)
      <4> SUFFICES ASSUME m < j PROVE FALSE
        OBVIOUS
      <4>1. ys[m].event < xs[m].event
        BY <3>2, <3>4, <1>b
      <4>2. PICK l \in 1 .. Len(xs) : xs[l] = ys[m]
        <5>1. ys[m] \in Range(xs)
          <6>1. ys[m] \in Range(ys)
            BY <3>4, <1>0 DEF Range
          <6> QED BY <6>1 DEF SameRange
        <5> QED BY <5>1, <1>0 DEF Range
      <4>3. l < m
        <5>1. ~ (m < l)
          BY <4>1, <4>2, <3>1, <1>a, <1>0
        <5>2. l # m
          BY <4>1, <4>2, <3>1, <1>0
        <5> QED BY <5>1, <5>2, <3>1
      <4>4. l \in 1 .. Len(ys) /\ ys[l] = xs[l]
        BY <4>3, <3>1, <2>1
      <4>5. ys[l].event < ys[m].event
        BY <4>3, <4>4, <3>4, <1>b
      <4> QED BY <4>2, <4>4, <4>5, <3>4, <1>0
    <3>6. j = m
      BY <3>1, <3>3, <3>5
    <3> QED BY <3>2, <3>4, <3>6 DEF m
  <2>3. \A i \in 1 .. n + 1 : i \in 1 .. n \/ i = n + 1
    BY <2>1
  <2>4. \A i \in 1 .. n + 1 : i \in 1 .. Len(xs) => i \in 1 .. Len(ys) /\ ys[i] = xs[i]
    BY <2>1, <2>2, <2>3
  <2>5. n + 1 \in Nat
    BY <2>1
  <2> QED BY <2>4, <2>5
<1> HIDE DEF N
<1>3. N = Nat
  <2>1. N \in SUBSET Nat
    BY DEF N
  <2> QED BY <1>1, <1>2, <2>1, SetInduction
<1>4. Len(xs) \in N
  BY <1>0, <1>3
<1> QED BY <1>4 DEF N

\* Sorted sequences of the same candles are the same.
LEMMA SortedSame ==
  ASSUME NEW xs \in Seq(Candle), NEW ys \in Seq(Candle), Sorted(xs), Sorted(ys),
         SameRange(xs, ys)
  PROVE  xs = ys
<1>1. \A i \in 1 .. Len(xs) : i \in 1 .. Len(ys) /\ ys[i] = xs[i]
  BY SortedAgree
<1>2. \A i \in 1 .. Len(ys) : i \in 1 .. Len(xs) /\ xs[i] = ys[i]
  <2>1. SameRange(ys, xs)
    BY DEF SameRange
  <2> QED BY <2>1, SortedAgree
<1>3. Len(xs) \in Nat /\ Len(ys) \in Nat
  OBVIOUS
<1>4. Len(xs) <= Len(ys)
  <2>1. CASE Len(xs) = 0
    BY <2>1, <1>3
  <2>2. CASE Len(xs) # 0
    BY <2>2, <1>1, <1>3
  <2> QED BY <2>1, <2>2
<1>5. Len(ys) <= Len(xs)
  <2>1. CASE Len(ys) = 0
    BY <2>1, <1>3
  <2>2. CASE Len(ys) # 0
    BY <2>2, <1>2, <1>3
  <2> QED BY <2>1, <2>2
<1>6. Len(xs) = Len(ys)
  BY <1>3, <1>4, <1>5
<1> QED BY <1>1, <1>6, SeqEqual

-----------------------------------------------------------------------------
(* The inputs.                                                             *)

\* What a function on a finite set takes on is finite.
LEMMA FiniteRange ==
  ASSUME NEW S, IsFiniteSet(S), NEW f, f = [x \in S |-> f[x]]
  PROVE  IsFiniteSet(Range(f))
<1>1. f \in Surjection(S, Range(f))
  BY DEF Surjection, Range
<1> QED BY <1>1, FS_Surjection

\* What is known of a timeframe of the inputs.
LEMMA InputOf ==
  ASSUME NEW vs \in Inputs, NEW t \in DOMAIN vs
  PROVE  /\ vs[t] \in Seq(Candle) /\ Sorted(vs[t]) /\ t \in Range(Timeframes)
         /\ IsFiniteSet(Range(vs[t])) /\ Range(vs[t]) \subseteq Candle
         /\ \A c, d \in Range(vs[t]) : c.event = d.event => c = d
<1>1. vs[t] \in Seq(Candle) /\ Sorted(vs[t]) /\ t \in Range(Timeframes)
  <2>1. vs \in [DOMAIN vs -> Seq(Candle)] /\ DOMAIN vs \subseteq Range(Timeframes)
        /\ \A u \in DOMAIN vs : Sorted(vs[u])
    BY InputsInOrder
  <2> QED BY <2>1
<1> DEFINE cs == vs[t]
<1> HIDE DEF cs
<1>2. cs \in Seq(Candle) /\ Sorted(cs)
  BY <1>1 DEF cs
<1>3. Len(cs) \in Nat /\ DOMAIN cs = 1 .. Len(cs)
      /\ \A i \in 1 .. Len(cs) : cs[i] \in Candle /\ cs[i].event \in Int
  BY <1>2, EventOf
<1>4. Range(cs) = {cs[i] : i \in 1 .. Len(cs)}
  BY <1>3 DEF Range
<1>5. IsFiniteSet(Range(cs))
  <2>1. IsFiniteSet(1 .. Len(cs))
    BY <1>3, FS_Interval
  <2>2. cs = [i \in 1 .. Len(cs) |-> cs[i]]
    BY <1>2
  <2> QED BY <2>1, <2>2, FiniteRange
<1>6. Range(cs) \subseteq Candle
  BY <1>3, <1>4
<1>7. ASSUME NEW c \in Range(cs), NEW d \in Range(cs), c.event = d.event PROVE c = d
  <2>1. PICK i \in 1 .. Len(cs) : c = cs[i]
    BY <1>4
  <2>2. PICK j \in 1 .. Len(cs) : d = cs[j]
    BY <1>4
  <2>3. ~ (i < j) /\ ~ (j < i)
    BY <2>1, <2>2, <1>2, <1>3, <1>7, SortedThroughout
  <2>4. i = j
    BY <2>3, <1>3
  <2> QED BY <2>1, <2>2, <2>4
<1> QED BY <1>1, <1>5, <1>6, <1>7 DEF cs

\* The times of the inputs.
LEMMA TimesOf ==
  ASSUME NEW vs \in Inputs
  PROVE  /\ IsFiniteSet(Times(vs)) /\ Times(vs) \subseteq Int
         /\ Times(vs) = {} <=> Empty(vs)
         /\ \A t \in DOMAIN vs : \A c \in Range(vs[t]) : c.available \in Times(vs)
<1> DEFINE ranges == {Range(vs[t]) : t \in DOMAIN vs}
<1>1. IsFiniteSet(DOMAIN vs)
  <2>1. DOMAIN vs \subseteq Range(Timeframes)
    BY InputsInOrder
  <2>2. Len(Timeframes) \in Nat /\ DOMAIN Timeframes = 1 .. Len(Timeframes)
    BY ScannerConstants
  <2> DEFINE ranks == 1 .. Len(Timeframes)
  <2>3. IsFiniteSet(ranks)
    BY <2>2, FS_Interval
  <2>4. IsFiniteSet(Range(Timeframes))
    <3>1. Timeframes = [i \in ranks |-> Timeframes[i]]
      BY ScannerConstants
    <3> HIDE DEF ranks
    <3> QED BY <2>3, <3>1, FiniteRange
  <2> QED BY <2>1, <2>4, FS_Subset
<1>2. IsFiniteSet(ranges)
  <2> DEFINE f == [t \in DOMAIN vs |-> Range(vs[t])]
  <2>1. IsFiniteSet(Range(f))
    BY <1>1, FiniteRange
  <2>2. Range(f) = ranges
    BY DEF Range
  <2> QED BY <2>1, <2>2
<1>3. \A R \in ranges : IsFiniteSet(R)
  BY InputOf
<1>4. IsFiniteSet(UNION ranges)
  BY <1>2, <1>3, FS_UNION
<1>5. IsFiniteSet(Times(vs))
  <2> DEFINE all == UNION ranges
  <2>1. IsFiniteSet(all)
    BY <1>4
  <2>2. Times(vs) = {c.available : c \in all}
    BY DEF Times
  <2> HIDE DEF all
  <2> DEFINE f == [c \in all |-> c.available]
  <2>3. IsFiniteSet(Range(f))
    BY <2>1, FiniteRange
  <2>4. Range(f) = {c.available : c \in all}
    BY DEF Range
  <2> QED BY <2>2, <2>3, <2>4
<1>6. \A t \in DOMAIN vs : \A c \in Range(vs[t]) : c.available \in Times(vs)
  BY DEF Times
<1>7. \A t \in DOMAIN vs : Range(vs[t]) \subseteq Candle
  BY InputOf
<1>8. Times(vs) \subseteq Int
  BY <1>7 DEF Times, Candle
<1>9. \A t \in DOMAIN vs : vs[t] = <<>> <=> Range(vs[t]) = {}
  <2> SUFFICES ASSUME NEW t \in DOMAIN vs PROVE vs[t] = <<>> <=> Range(vs[t]) = {}
    OBVIOUS
  <2> DEFINE cs == vs[t]
  <2>1. cs \in Seq(Candle)
    BY InputOf
  <2> HIDE DEF cs
  <2>2. Range(cs) = {cs[i] : i \in 1 .. Len(cs)} /\ Len(cs) \in Nat
    BY <2>1, RangeEquality
  <2>3. cs = <<>> <=> Len(cs) = 0
    BY <2>1
  <2>4. Len(cs) = 0 <=> 1 .. Len(cs) = {}
    BY <2>2
  <2> QED BY <2>2, <2>3, <2>4 DEF cs
<1>10. Times(vs) = {} <=> Empty(vs)
  <2>1. Times(vs) = {} <=> \A t \in DOMAIN vs : Range(vs[t]) = {}
    BY DEF Times
  <2> QED BY <2>1, <1>9 DEF Empty
<1> QED BY <1>5, <1>6, <1>8, <1>10

-----------------------------------------------------------------------------
(* The groups.                                                             *)

AtTime(vs, t, time) == {c \in Range(vs[t]) : c.available = time}

\* A group holds what became available at its time.
IsGroup(vs, g, time) ==
  /\ time \in Int
  /\ g \in [DOMAIN vs -> Seq([event : Int, available : {time}])]
  /\ \A t \in DOMAIN vs : Range(g[t]) = AtTime(vs, t, time)
  /\ \E t \in DOMAIN vs : Range(g[t]) # {}

\* Candles of one moment in order of their event time.
LEMMA OneTimeframe ==
  ASSUME NEW vs \in Inputs, NEW t \in DOMAIN vs, NEW time
  PROVE  LET now == AtTime(vs, t, time)
             cs  == ByKey(now, [c \in now |-> c.event])
         IN  cs \in Seq([event : Int, available : {time}]) /\ Range(cs) = now
<1> DEFINE now == AtTime(vs, t, time)
           key == [c \in now |-> c.event]
           cs  == ByKey(now, key)
<1>1. now \subseteq Range(vs[t]) /\ \A c \in now : c.available = time
  BY DEF AtTime
<1>2. IsFiniteSet(now)
  BY <1>1, InputOf, FS_Subset
<1>3. \A c \in now : c \in Candle
  BY <1>1, InputOf
<1>4. Keyed(now, key)
  <2>1. \A c \in now : key[c] = c.event /\ c.event \in Int
    BY <1>3 DEF Candle
  <2>2. \A c, d \in now : c.event = d.event => c = d
    BY <1>1, InputOf
  <2> HIDE DEF now, key
  <2> QED BY <2>1, <2>2 DEF Keyed
<1>5. \A c \in now : c \in [event : Int, available : {time}]
  BY <1>1, <1>3 DEF Candle
<1> HIDE DEF now, key
<1>6. IsByKey(cs, now, key) /\ Cardinality(now) \in Nat
  BY <1>2, <1>4, InKeyOrder
<1>7. cs \in [1 .. Cardinality(now) -> now] /\ Range(cs) = now
  BY <1>6 DEF IsByKey
<1>8. cs \in Seq(now)
  BY <1>6, <1>7
<1>9. cs \in Seq([event : Int, available : {time}])
  BY <1>8, <1>5, SeqMonotonic
<1> QED BY <1>7, <1>9 DEF now, key

\* The groups of the inputs: for each time one, of what became available then.
LEMMA Groups ==
  ASSUME NEW vs \in Inputs
  PROVE  /\ Len(GroupsOf(vs)) \in Nat
         /\ GroupsOf(vs) = [i \in 1 .. Len(GroupsOf(vs)) |-> GroupsOf(vs)[i]]
         /\ \A i \in 1 .. Len(GroupsOf(vs)) : \E time \in Times(vs) : IsGroup(vs, GroupsOf(vs)[i], time)
         /\ \A time \in Times(vs) : \E i \in 1 .. Len(GroupsOf(vs)) : IsGroup(vs, GroupsOf(vs)[i], time)
<1> DEFINE T == Times(vs)
           key == [time \in T |-> time]
           ordered == ByKey(T, key)
           Group(time) == [t \in DOMAIN vs |->
                             ByKey(AtTime(vs, t, time), [c \in AtTime(vs, t, time) |-> c.event])]
           n == Cardinality(T)
<1>1. IsFiniteSet(T) /\ T \subseteq Int
  BY TimesOf
<1>2. Keyed(T, key)
  BY <1>1 DEF Keyed
<1> HIDE DEF key
<1>3. IsByKey(ordered, T, key) /\ n \in Nat
  BY <1>1, <1>2, InKeyOrder
<1>4. ordered \in [1 .. n -> T] /\ Range(ordered) = T
  BY <1>3 DEF IsByKey
<1>5. GroupsOf(vs) = [i \in DOMAIN ordered |-> Group(ordered[i])]
  BY DEF GroupsOf, AtTime, key
<1> HIDE DEF Group, ordered, n, T
<1>6. GroupsOf(vs) = [i \in 1 .. n |-> Group(ordered[i])]
  BY <1>4, <1>5
<1>7. Len(GroupsOf(vs)) = n
  BY <1>3, <1>6
<1>8. ASSUME NEW time \in T PROVE IsGroup(vs, Group(time), time)
  <2>1. \A t \in DOMAIN vs : /\ Group(time)[t] \in Seq([event : Int, available : {time}])
                             /\ Range(Group(time)[t]) = AtTime(vs, t, time)
    BY OneTimeframe DEF Group
  <2>2. Group(time) \in [DOMAIN vs -> Seq([event : Int, available : {time}])]
    <3>1. Group(time) = [t \in DOMAIN vs |-> Group(time)[t]]
      BY DEF Group
    <3> QED BY <2>1, <3>1
  <2>3. PICK t \in DOMAIN vs : \E c \in Range(vs[t]) : c.available = time
    BY DEF T, Times
  <2>4. AtTime(vs, t, time) # {}
    BY <2>3 DEF AtTime
  <2>5. time \in Int
    BY <1>1
  <2> QED BY <2>1, <2>2, <2>4, <2>5 DEF IsGroup
<1>9. \A i \in 1 .. n : ordered[i] \in T /\ GroupsOf(vs)[i] = Group(ordered[i])
  BY <1>4, <1>6
<1>10. \A time \in T : \E i \in 1 .. n : ordered[i] = time
  BY <1>4 DEF Range
<1>11. GroupsOf(vs) = [i \in 1 .. n |-> GroupsOf(vs)[i]]
  BY <1>6
<1>12. \A i \in 1 .. n : \E time \in T : IsGroup(vs, GroupsOf(vs)[i], time)
  BY <1>8, <1>9
<1>13. \A time \in T : \E i \in 1 .. n : IsGroup(vs, GroupsOf(vs)[i], time)
  BY <1>8, <1>9, <1>10
<1> QED BY <1>3, <1>7, <1>11, <1>12, <1>13 DEF T

\* The candles of a timeframe in the first groups.
Upto(vs, k, t) == UNION {Range(GroupsOf(vs)[i][t]) : i \in 1 .. k}

\* They grow group by group, from none to all of them.
LEMMA UptoGrows ==
  ASSUME NEW vs \in Inputs, NEW t \in DOMAIN vs
  PROVE  /\ Upto(vs, 0, t) = {}
         /\ \A k \in Nat : Upto(vs, k + 1, t) = Upto(vs, k, t) \cup Range(GroupsOf(vs)[k + 1][t])
         /\ Upto(vs, Len(GroupsOf(vs)), t) = Range(vs[t])
<1> DEFINE R(i) == Range(GroupsOf(vs)[i][t])
<1> HIDE DEF R
<1>1. \A k : Upto(vs, k, t) = UNION {R(i) : i \in 1 .. k}
  BY DEF Upto, R
<1>2. Upto(vs, 0, t) = {}
  BY <1>1
<1>3. ASSUME NEW k \in Nat PROVE Upto(vs, k + 1, t) = Upto(vs, k, t) \cup R(k + 1)
  <2>1. 1 .. k + 1 = (1 .. k) \cup {k + 1}
    OBVIOUS
  <2>2. UNION {R(i) : i \in (1 .. k) \cup {k + 1}} = (UNION {R(i) : i \in 1 .. k}) \cup R(k + 1)
    OBVIOUS
  <2> QED BY <2>1, <2>2, <1>1
<1>4. Upto(vs, Len(GroupsOf(vs)), t) = Range(vs[t])
  <2>1. \A i \in 1 .. Len(GroupsOf(vs)) : \E time \in Times(vs) : R(i) = AtTime(vs, t, time)
    BY Groups DEF IsGroup, R
  <2>2. \A time \in Times(vs) : \E i \in 1 .. Len(GroupsOf(vs)) : R(i) = AtTime(vs, t, time)
    BY Groups DEF IsGroup, R
  <2>3. \A c \in Range(vs[t]) : c \in AtTime(vs, t, c.available) /\ c.available \in Times(vs)
    BY TimesOf DEF AtTime
  <2>4. \A time : AtTime(vs, t, time) \subseteq Range(vs[t])
    BY DEF AtTime
  <2>5. UNION {R(i) : i \in 1 .. Len(GroupsOf(vs))} = Range(vs[t])
    <3>1. ASSUME NEW c \in Range(vs[t]) PROVE c \in UNION {R(i) : i \in 1 .. Len(GroupsOf(vs))}
      BY <2>2, <2>3
    <3>2. ASSUME NEW i \in 1 .. Len(GroupsOf(vs)) PROVE R(i) \subseteq Range(vs[t])
      BY <2>1, <2>4
    <3> QED BY <3>1, <3>2
  <2> QED BY <2>5, <1>1
<1> QED BY <1>2, <1>3, <1>4 DEF R

-----------------------------------------------------------------------------
(* The candles of a group that are still to be taken.                      *)

Taken(work, t) == {w.candle : w \in {v \in Range(work) : v.timeframe = t}}

\* What is flattened holds what its parts hold.
LEMMA FlattenedRange ==
  ASSUME NEW T, NEW seqs \in Seq(Seq(T))
  PROVE  Range(FlattenSeq(seqs)) = UNION {Range(seqs[i]) : i \in 1 .. Len(seqs)}
<1> DEFINE R(i) == Range(seqs[i])
<1>0. Len(seqs) \in Nat /\ DOMAIN seqs = 1 .. Len(seqs)
  OBVIOUS
<1>1. CASE Len(seqs) = 0
  <2>1. seqs = <<>> /\ FlattenSeq(seqs) = seqs
    BY <1>1 DEF FlattenSeq
  <2>2. Range(<<>>) = {} /\ 1 .. 0 = {}
    BY DEF Range
  <2> QED BY <2>1, <2>2, <1>1
<1>2. CASE Len(seqs) # 0
  <2> DEFINE f == CHOOSE f : IsFlat(f, seqs, Len(seqs))
  <2>1. Len(seqs) \in Nat /\ IsFlat(f, seqs, Len(seqs))
    BY FlatExists
  <2>2. FlattenSeq(seqs) = f[Len(seqs)]
    BY <1>2 DEF FlattenSeq, IsFlat
  <2> HIDE DEF f, R
  <2>a. \A i \in 1 .. Len(seqs) : f[i] = IF i = 1 THEN seqs[i] ELSE f[i - 1] \o seqs[i]
    BY <2>1 DEF IsFlat
  <2> DEFINE S == {m \in Nat : m \in 1 .. Len(seqs) => /\ f[m] \in Seq(T)
                                                       /\ Range(f[m]) = UNION {R(i) : i \in 1 .. m}}
  <2>3. 0 \in S
    OBVIOUS
  <2>4. ASSUME NEW m \in S PROVE m + 1 \in S
    <3> SUFFICES ASSUME m + 1 \in 1 .. Len(seqs)
                 PROVE  /\ f[m + 1] \in Seq(T)
                        /\ Range(f[m + 1]) = UNION {R(i) : i \in 1 .. m + 1}
      OBVIOUS
    <3>0. m \in Nat /\ (m # 0 => /\ f[m] \in Seq(T) /\ Range(f[m]) = UNION {R(i) : i \in 1 .. m})
      BY <1>0
    <3> HIDE DEF S
    <3>1. seqs[m + 1] \in Seq(T) /\ Range(seqs[m + 1]) = R(m + 1)
      BY DEF R
    <3>2. 1 .. m + 1 = (1 .. m) \cup {m + 1} /\ (m + 1) - 1 = m
      BY <3>0
    <3>3. UNION {R(i) : i \in 1 .. m + 1} = (UNION {R(i) : i \in 1 .. m}) \cup R(m + 1)
      BY <3>2
    <3>4. CASE m = 0
      <4>1. f[m + 1] = seqs[m + 1]
        BY <3>4, <2>a
      <4>2. UNION {R(i) : i \in 1 .. m} = {}
        BY <3>4
      <4> QED BY <4>1, <4>2, <3>1, <3>3
    <3>5. CASE m # 0
      <4>1. f[m + 1] = f[m] \o seqs[m + 1]
        <5>1. f[m + 1] = IF m + 1 = 1 THEN seqs[m + 1] ELSE f[(m + 1) - 1] \o seqs[m + 1]
          BY <2>a
        <5>2. m + 1 # 1 /\ (m + 1) - 1 = m
          BY <3>0, <3>5
        <5> QED BY <5>1, <5>2
      <4>2. Range(f[m] \o seqs[m + 1]) = Range(f[m]) \cup Range(seqs[m + 1])
            /\ f[m] \o seqs[m + 1] \in Seq(T)
        BY <3>0, <3>1, <3>5, RangeConcatenation
      <4> QED BY <4>1, <4>2, <3>0, <3>1, <3>3, <3>5
    <3> QED BY <3>4, <3>5
  <2> HIDE DEF S
  <2>5. S = Nat
    <3>1. S \in SUBSET Nat
      BY DEF S
    <3> QED BY <2>3, <2>4, <3>1, SetInduction
  <2>6. Range(f[Len(seqs)]) = UNION {R(i) : i \in 1 .. Len(seqs)}
    <3>1. Len(seqs) \in S
      BY <2>5, <1>0
    <3>2. Len(seqs) \in 1 .. Len(seqs)
      BY <1>0, <1>2
    <3> QED BY <3>1, <3>2 DEF S
  <2> QED BY <2>2, <2>6 DEF R
<1> QED BY <1>1, <1>2

\* The work of a group is its candles.
LEMMA WorkTaken ==
  ASSUME NEW ts \in SUBSET Range(Timeframes), NEW time \in Int,
         NEW group \in [ts -> Seq([event : Int, available : {time}])], NEW t \in ts
  PROVE  /\ Taken(Work(group), t) = Range(group[t])
         /\ Range(group[t]) # {} => Work(group) # <<>>
<1> DEFINE C == [event : Int, available : {time}]
           K == Task(ts, time)
           task(u, c) == [timeframe |-> u, candle |-> c]
           Of(u) == IF u \in DOMAIN group
                      THEN [i \in DOMAIN group[u] |-> [timeframe |-> u, candle |-> group[u][i]]]
                      ELSE <<>>
           all == [r \in DOMAIN Timeframes |-> Of(Timeframes[r])]
<1>0. Len(Timeframes) \in Nat /\ DOMAIN Timeframes = 1 .. Len(Timeframes) /\ DOMAIN group = ts
  BY ScannerConstants
<1>1. \A u, c : task(u, c).timeframe = u /\ task(u, c).candle = c
  OBVIOUS
<1>2. \A u \in ts : \A c \in C : task(u, c) \in K
  BY DEF Task
<1> HIDE DEF task, C, K
<1>3. ASSUME NEW u \in ts
      PROVE  /\ Of(u) \in Seq(K)
             /\ Range(Of(u)) = {task(u, c) : c \in Range(group[u])}
  <2> DEFINE cs == group[u]
             n == Len(cs)
  <2>1. cs \in Seq(C)
    BY DEF C
  <2>2. n \in Nat /\ DOMAIN cs = 1 .. n /\ \A i \in 1 .. n : cs[i] \in C
    BY <2>1
  <2>3. Of(u) = [i \in DOMAIN cs |-> task(u, cs[i])]
    BY <1>0 DEF task
  <2> HIDE DEF cs, n, Of
  <2>4. Of(u) \in [1 .. n -> K]
    BY <2>2, <2>3, <1>2
  <2>5. Of(u) \in Seq(K)
    BY <2>2, <2>4
  <2>6. Range(Of(u)) = {task(u, c) : c \in Range(cs)}
    BY <2>2, <2>3 DEF Range
  <2> QED BY <2>5, <2>6 DEF cs
<1>4. \A u : u \notin ts => Of(u) \in Seq(K) /\ Range(Of(u)) = {}
  <2>1. Range(<<>>) = {} /\ <<>> \in Seq(K)
    BY DEF Range
  <2> QED BY <2>1, <1>0
<1>5. Work(group) = FlattenSeq(all)
  BY DEF Work
<1> HIDE DEF Of
<1>6. all \in Seq(Seq(K)) /\ Len(all) = Len(Timeframes)
  <2>1. all \in [1 .. Len(Timeframes) -> Seq(K)]
    BY <1>0, <1>3, <1>4
  <2> HIDE DEF all
  <2> QED BY <2>1, <1>0, SMTT(30)
<1>7. \A r \in 1 .. Len(Timeframes) : all[r] = Of(Timeframes[r])
  BY <1>0
<1> HIDE DEF all
<1>8. Range(Work(group)) = UNION {Range(all[r]) : r \in 1 .. Len(Timeframes)}
  BY <1>5, <1>6, FlattenedRange
<1>9. PICK r \in 1 .. Len(Timeframes) : Timeframes[r] = t
  BY <1>0 DEF Range
<1>10. \A c \in Range(group[t]) : task(t, c) \in Range(Work(group))
  BY <1>3, <1>7, <1>8, <1>9
<1>11. ASSUME NEW w \in Range(Work(group)), w.timeframe = t
       PROVE  w.candle \in Range(group[t])
  <2>1. PICK q \in 1 .. Len(Timeframes) : w \in Range(Of(Timeframes[q]))
    BY <1>7, <1>8
  <2>2. Timeframes[q] \in ts
    BY <2>1, <1>4
  <2>3. PICK c \in Range(group[Timeframes[q]]) : w = task(Timeframes[q], c)
    BY <2>1, <2>2, <1>3
  <2> QED BY <2>3, <1>1, <1>11
<1>12. Taken(Work(group), t) \subseteq Range(group[t])
  BY <1>11 DEF Taken
<1>13. Range(group[t]) \subseteq Taken(Work(group), t)
  BY <1>1, <1>10 DEF Taken
<1>14. Range(group[t]) # {} => Work(group) # <<>>
  <2> SUFFICES ASSUME NEW c \in Range(group[t]) PROVE Work(group) # <<>>
    OBVIOUS
  <2>1. task(t, c) \in Range(Work(group))
    BY <1>10
  <2>2. Range(<<>>) = {}
    BY DEF Range
  <2> QED BY <2>1, <2>2
<1> QED BY <1>12, <1>13, <1>14

\* A group of the inputs is one that may be given.
LEMMA InputGroup ==
  ASSUME NEW vs \in Inputs, NEW i \in 1 .. Len(GroupsOf(vs))
  PROVE  /\ \E time \in Int : GroupsOf(vs)[i] \in [DOMAIN vs -> Seq([event : Int, available : {time}])]
         /\ Work(GroupsOf(vs)[i]) # <<>>
         /\ \E t \in DOMAIN vs : Range(GroupsOf(vs)[i][t]) # {}
         /\ \A t \in DOMAIN vs : /\ GroupsOf(vs)[i][t] \in Seq(Candle)
                                 /\ Taken(Work(GroupsOf(vs)[i]), t) = Range(GroupsOf(vs)[i][t])
<1> DEFINE g == GroupsOf(vs)[i]
<1>1. PICK time \in Times(vs) : IsGroup(vs, g, time)
  BY Groups
<1> HIDE DEF g
<1>2. time \in Int /\ g \in [DOMAIN vs -> Seq([event : Int, available : {time}])]
  BY <1>1 DEF IsGroup
<1>3. DOMAIN vs \in SUBSET Range(Timeframes)
  BY InputsInOrder
<1>4. PICK u \in DOMAIN vs : Range(g[u]) # {}
  BY <1>1 DEF IsGroup
<1>5. Work(g) # <<>>
  BY <1>2, <1>3, <1>4, WorkTaken
<1>6. \A t \in DOMAIN vs : Taken(Work(g), t) = Range(g[t])
  BY <1>2, <1>3, WorkTaken
<1>7. \A t \in DOMAIN vs : g[t] \in Seq(Candle)
  <2>1. \A c \in [event : Int, available : {time}] : c \in Candle
    BY <1>2 DEF Candle
  <2>2. \A t \in DOMAIN vs : g[t] \in Seq([event : Int, available : {time}])
    BY <1>2
  <2> QED BY <2>1, <2>2, SeqMonotonic
<1> QED BY <1>2, <1>4, <1>5, <1>6, <1>7 DEF g

\* The work that is left when one candle was taken.
LEMMA TakenNext ==
  ASSUME NEW K, NEW work \in Seq(K), work # <<>>, NEW t
  PROVE  Taken(work, t) = Taken(Tail(work), t) \cup
                            (IF Head(work).timeframe = t THEN {Head(work).candle} ELSE {})
<1>1. Tail(work) \in Seq(K) /\ <<Head(work)>> \in Seq(K)
  BY HeadTailProperties
<1>2. work = <<Head(work)>> \o Tail(work)
  BY HeadTailProperties
<1>3. Range(<<Head(work)>> \o Tail(work)) = Range(<<Head(work)>>) \cup Range(Tail(work))
  BY <1>1, RangeConcatenation, ZenonT(60)
<1>4. Range(<<Head(work)>>) = {Head(work)}
  BY DEF Range
<1>5. Range(work) = {Head(work)} \cup Range(Tail(work))
  BY <1>2, <1>3, <1>4
<1> QED BY <1>5 DEF Taken

\* The range of a sequence grown by a candle.
LEMMA AppendRange ==
  ASSUME NEW cs \in Seq(Candle), NEW c \in Candle
  PROVE  Range(Append(cs, c)) = Range(cs) \cup {c}
<1>1. Append(cs, c) = cs \o <<c>> /\ <<c>> \in Seq(Candle)
  BY AppendIsConcat
<1>2. Range(cs \o <<c>>) = Range(cs) \cup Range(<<c>>)
  BY <1>1, RangeConcatenation, ZenonT(60)
<1>3. Range(<<c>>) = {c}
  BY DEF Range
<1> QED BY <1>1, <1>2, <1>3

-----------------------------------------------------------------------------
(* The evidence of a scan and of the kernel.                               *)

\* The latest of the times is at none of their candles' before.
LEMMA LatestIs ==
  ASSUME NEW vs \in Inputs, ~Empty(vs)
  PROVE  Latest(vs) \in Times(vs) /\ \A time \in Times(vs) : time <= Latest(vs)
<1> DEFINE T == Times(vs)
           key == [time \in T |-> time]
           s == ByKey(T, key)
           n == Cardinality(T)
<1>1. IsFiniteSet(T) /\ T \subseteq Int /\ T # {}
  BY TimesOf
<1>2. Keyed(T, key)
  BY <1>1 DEF Keyed
<1>3. \A time \in T : key[time] = time
  OBVIOUS
<1> HIDE DEF key, T
<1>4. IsByKey(s, T, key) /\ n \in Nat
  BY <1>1, <1>2, InKeyOrder
<1> HIDE DEF s, n
<1>5. s \in [1 .. n -> T] /\ Range(s) = T /\ \A i, j \in 1 .. n : i < j => key[s[i]] < key[s[j]]
  BY <1>4 DEF IsByKey, n
<1>6. \A time \in T : \E i \in 1 .. n : s[i] = time
  BY <1>5 DEF Range
<1>7. n \in 1 .. n
  <2>1. PICK time \in T : TRUE
    BY <1>1
  <2>2. PICK i \in 1 .. n : s[i] = time
    BY <2>1, <1>6
  <2> QED BY <1>4, <2>2
<1>8. s[n] \in T
  BY <1>5, <1>7
<1>9. \A time \in T : s[n] >= time
  <2> SUFFICES ASSUME NEW time \in T PROVE s[n] >= time
    OBVIOUS
  <2>1. PICK i \in 1 .. n : s[i] = time
    BY <1>6
  <2>2. i = n \/ i < n
    BY <1>4
  <2>3. i < n => time < s[n]
    BY <2>1, <1>3, <1>5, <1>7, <1>8
  <2>4. time \in Int /\ s[n] \in Int
    BY <1>1, <1>8
  <2>5. i = n => s[n] = time
    BY <2>1
  <2> QED BY <2>2, <2>3, <2>4, <2>5
<1>10. \E x \in T : \A y \in T : x >= y
  BY <1>8, <1>9
<1>11. Latest(vs) \in T /\ \A y \in T : Latest(vs) >= y
  BY <1>10 DEF Latest, Max, T
<1> QED BY <1>1, <1>11 DEF T

\* The kernel misses no evidence but what becomes visible after the last candle.
LEMMA MissedIsLate ==
  ASSUME NEW vs \in Inputs, ~Empty(vs), NEW t \in DOMAIN vs,
         EvidenceSeen(vs)[t] # ScanMarket(vs).evidence[t]
  PROVE  vs[t] # <<>> /\ \E e \in Evidence : e.timeframe = t /\ e.available > Last(vs[t]).available
<1> DEFINE cs == vs[t]
<1>1. EvidenceSeen(vs)[t] = IF cs = <<>> THEN {} ELSE Gated(t, Last(cs).available)
  BY DEF EvidenceSeen
<1>2. ScanMarket(vs).evidence[t] = IF cs = <<>> THEN {} ELSE Gated(t, Latest(vs))
  BY DEF ScanMarket
<1>3. cs # <<>> /\ Gated(t, Last(cs).available) # Gated(t, Latest(vs))
  BY <1>1, <1>2
<1>4. Last(cs).available \in Int /\ Last(cs).available <= Latest(vs) /\ Latest(vs) \in Int
  <2>1. cs \in Seq(Candle)
    BY InputOf
  <2>2. Len(cs) \in Nat /\ DOMAIN cs = 1 .. Len(cs)
        /\ \A i \in 1 .. Len(cs) : cs[i].available \in Int
    BY <2>1, EventOf
  <2>3. Len(cs) \in 1 .. Len(cs)
    <3>1. Len(cs) # 0
      BY <1>3, <2>1
    <3> QED BY <3>1, <2>2
  <2>4. cs[Len(cs)] \in Range(cs)
    BY <2>2, <2>3 DEF Range
  <2>5. cs[Len(cs)].available \in Times(vs)
    BY <2>4, TimesOf
  <2>6. Latest(vs) \in Int /\ cs[Len(cs)].available <= Latest(vs)
    BY <2>5, LatestIs, TimesOf
  <2> QED BY <2>2, <2>3, <2>6 DEF Last
<1> HIDE DEF cs
<1>5. \A e \in Evidence : e.available \in Int
  BY ScannerConstants
<1>6. \E e \in Evidence : e.timeframe = t /\ e.available > Last(cs).available
  <2> SUFFICES ASSUME \A e \in Evidence : e.timeframe = t => e.available <= Last(cs).available
               PROVE  FALSE
    BY <1>4, <1>5
  <2>1. \A e \in Evidence : e.timeframe = t => e.available <= Latest(vs)
    BY <1>4, <1>5
  <2>2. Gated(t, Last(cs).available) = Gated(t, Latest(vs))
    BY <2>1 DEF Gated
  <2> QED BY <2>2, <1>3
<1> QED BY <1>3, <1>6 DEF cs

\* The comparison finds no difference where there is none.
LEMMA ComparesEqual ==
  ASSUME NEW x, NEW y,
         x = [timeframes |-> x.timeframes, records |-> x.records, evidence |-> x.evidence],
         y = [timeframes |-> y.timeframes, records |-> y.records, evidence |-> y.evidence]
  PROVE  Compare(x, y) = {} <=> y = x
<1>1. Compare(x, y) = {} <=> x.timeframes = y.timeframes /\ x.records = y.records /\ x.evidence = y.evidence
  BY DEF Compare
<1> QED BY <1>1

-----------------------------------------------------------------------------
(* The groups that are left.                                               *)

IsRest(gs, all, k) ==
  /\ Len(all) \in Nat /\ k \in 0 .. Len(all)
  /\ gs = [i \in 1 .. Len(all) - k |-> all[k + i]]

NextIsGiven(gs, all, k) ==
  /\ Len(gs) = Len(all) - k /\ DOMAIN gs = 1 .. Len(gs)
  /\ \A i \in DOMAIN gs : k + i \in 1 .. Len(all) /\ gs[i] = all[k + i]
  /\ gs = <<>> <=> k = Len(all)
  /\ gs # <<>> => /\ 1 \in DOMAIN gs /\ Head(gs) = gs[1]
                  /\ k + 1 \in 1 .. Len(all) /\ Head(gs) = all[k + 1]
                  /\ IsRest(Tail(gs), all, k + 1)

\* The next group is taken from those that are left.
LEMMA RestNext ==
  ASSUME NEW all, NEW gs, NEW k, IsRest(gs, all, k)
  PROVE  NextIsGiven(gs, all, k)
<1> DEFINE n == Len(all)
           S == {all[k + i] : i \in 1 .. n - k}
<1>1. n \in Nat /\ k \in 0 .. n /\ gs = [i \in 1 .. n - k |-> all[k + i]]
  BY DEF IsRest
<1> HIDE DEF n
<1>2. n - k \in Nat
  BY <1>1
<1>3. gs \in [1 .. n - k -> S]
  BY <1>1
<1> HIDE DEF S
<1>4. gs \in Seq(S) /\ Len(gs) = n - k
  BY <1>2, <1>3
<1>5. \A i \in 1 .. n - k : k + i \in 1 .. n /\ gs[i] = all[k + i]
  BY <1>1
<1>6. gs = <<>> <=> k = n
  BY <1>1, <1>2, <1>4
<1>7. ASSUME gs # <<>>
      PROVE  /\ 1 \in DOMAIN gs /\ Head(gs) = gs[1]
             /\ k + 1 \in 1 .. n /\ Head(gs) = all[k + 1] /\ IsRest(Tail(gs), all, k + 1)
  <2>1. 1 \in 1 .. n - k /\ k + 1 \in 0 .. n
    BY <1>1, <1>6, <1>7
  <2>2. Head(gs) = gs[1]
    BY <1>4, <1>7
  <2>3. Tail(gs) = [i \in 1 .. (n - k) - 1 |-> gs[i + 1]]
    <3> DEFINE rest == Tail(gs)
    <3>1. rest \in Seq(S) /\ Len(rest) = (n - k) - 1
          /\ \A i \in 1 .. Len(rest) : rest[i] = gs[i + 1]
      BY <1>4, <1>7, HeadTailProperties
    <3> HIDE DEF rest
    <3>2. rest = [i \in 1 .. Len(rest) |-> rest[i]]
      BY <3>1
    <3>3. rest = [i \in 1 .. (n - k) - 1 |-> gs[i + 1]]
      BY <3>1, <3>2
    <3> QED BY <3>3 DEF rest
  <2>4. (n - k) - 1 = n - (k + 1)
    BY <1>1
  <2>5. \A i \in 1 .. n - (k + 1) : gs[i + 1] = all[(k + 1) + i]
    BY <1>1
  <2>6. Tail(gs) = [i \in 1 .. n - (k + 1) |-> all[(k + 1) + i]]
    BY <2>3, <2>4, <2>5
  <2> QED BY <2>1, <2>2, <2>6, <1>1, <1>3, <1>5 DEF IsRest, n
<1>8. DOMAIN gs = 1 .. Len(gs)
  BY <1>3, <1>4
<1>9. /\ Len(gs) = Len(all) - k
      /\ \A i \in DOMAIN gs : k + i \in 1 .. Len(all) /\ gs[i] = all[k + i]
      /\ gs = <<>> <=> k = Len(all)
  BY <1>4, <1>5, <1>6, <1>8 DEF n
<1> QED BY <1>7, <1>8, <1>9 DEF n, NextIsGiven

-----------------------------------------------------------------------------
(* What a scan returns.                                                    *)

Scans(ts) == {ScanMarket(vs) : vs \in [ts -> Seq(Candle)]}

\* A scan of more candles is another.
LEMMA ScansDiffer ==
  ASSUME NEW ts, NEW vs \in [ts -> Seq(Candle)], NEW t \in ts, NEW cs \in Seq(Candle),
         Range(cs) # {}, NEW ws, ws[t] = vs[t] \o cs
  PROVE  ScanMarket(vs) # ScanMarket(ws)
<1>1. Len(cs) \in Nat /\ Len(cs) # 0
  <2>1. Range(<<>>) = {}
    BY DEF Range
  <2> QED BY <2>1
<1>2. vs[t] \in Seq(Candle)
  OBVIOUS
<1>3. Len(vs[t] \o cs) = Len(vs[t]) + Len(cs) /\ Len(vs[t]) \in Nat
  BY <1>2
<1>4. vs # ws
  BY <1>1, <1>3
<1>5. ScanMarket(vs).records = vs /\ ScanMarket(ws).records = ws
  BY DEF ScanMarket
<1> QED BY <1>4, <1>5

\* Appending a snapshot.
LEMMA SnapshotTaken ==
  ASSUME NEW S, NEW ss \in Seq(S), NEW x \in S
  PROVE  /\ Append(ss, x) \in Seq(S) /\ Len(Append(ss, x)) = Len(ss) + 1
         /\ Last(Append(ss, x)) = x /\ Append(ss, x) # <<>>
<1>1. Append(ss, x) \in Seq(S) /\ Len(Append(ss, x)) = Len(ss) + 1 /\ Len(ss) \in Nat
  OBVIOUS
<1>2. Append(ss, x)[Len(ss) + 1] = x
  OBVIOUS
<1>3. Append(ss, x) # <<>>
  BY <1>1
<1> QED BY <1>1, <1>2, <1>3 DEF Last

\* What has become visible, in order and complete, are the inputs.
LEMMA AllGiven ==
  ASSUME NEW vs \in Inputs, NEW ws, ws \in [DOMAIN vs -> Seq(Candle)],
         \A t \in DOMAIN vs : Sorted(ws[t]) /\ Range(ws[t]) = Upto(vs, Len(GroupsOf(vs)), t)
  PROVE  ws = vs
<1>1. ASSUME NEW t \in DOMAIN vs PROVE ws[t] = vs[t]
  <2>1. Range(ws[t]) = Range(vs[t])
    BY UptoGrows
  <2>2. SameRange(ws[t], vs[t])
    BY <2>1 DEF SameRange
  <2>3. vs[t] \in Seq(Candle) /\ Sorted(vs[t])
    BY InputOf
  <2>4. ws[t] \in Seq(Candle) /\ Sorted(ws[t])
    OBVIOUS
  <2> QED BY <2>2, <2>3, <2>4, SortedSame
<1>2. vs \in [DOMAIN vs -> Seq(Candle)]
  BY InputsInOrder
<1> QED BY <1>1, <1>2

-----------------------------------------------------------------------------
(* The invariant of a replay.                                              *)

\* How many groups were given.
Given == Len(GroupsOf(inputs)) - Len(groups)

\* The first so many groups were given, and the kernel tracks what the inputs hold.
GivenInv ==
  /\ inputs \in Inputs
  /\ policy \in {"ALL", "CHANGED_ONLY", "FINAL_ONLY", "KERNEL"} /\ verify \in BOOLEAN
  /\ DOMAIN visible = DOMAIN inputs
  /\ IsRest(groups, GroupsOf(inputs), Given)

\* What was scanned so far are the candles of the groups given.
ScannedSoFar ==
  /\ seen \in [DOMAIN inputs -> Seq(Candle)]
  /\ \A t \in DOMAIN inputs : Sorted(seen[t]) /\ Range(seen[t]) = Upto(inputs, Given, t)
  /\ snapshots \in Seq(Scans(DOMAIN inputs))
  /\ Len(snapshots) = Given
  /\ snapshots # <<>> => final = ScanMarket(seen) /\ Last(snapshots) = final

\* The kernel has them, or still has them to take.
TakenSoFar ==
  \A t \in DOMAIN inputs :
    /\ call = NoCall => Range(visible[t]) = Upto(inputs, Given, t)
    /\ call # NoCall => Range(call.visible[t]) \cup Taken(call.work, t) = Upto(inputs, Given, t)

\* What a replay has found in the end.
Result ==
  IF DOMAIN inputs = {} THEN final = ScanMarket(inputs)
  ELSE /\ Last(snapshots) = final
       /\ policy # "FINAL_ONLY" =>
            final = ScanMarket(inputs) /\ Len(snapshots) = Len(GroupsOf(inputs))
       /\ policy = "FINAL_ONLY" =>
            /\ ~Empty(inputs)
            /\ final = Analysis(inputs, EvidenceSeen(inputs)) /\ Len(snapshots) = 1

\* How a run goes on, and how it ends.
RunsInv ==
  outcome = "running" =>
    /\ mismatches = {}
    /\ policy \in {"ALL", "CHANGED_ONLY"} => ScannedSoFar
    /\ policy = "FINAL_ONLY" => TakenSoFar

EndsInv ==
  /\ outcome = "replayed" => Result
  /\ outcome = "done" =>
       /\ Result
       /\ verify => mismatches = Compare(ScanMarket(inputs), final)

RunInv == Inv /\ GivenInv /\ RunsInv /\ EndsInv

-----------------------------------------------------------------------------
(* A replay uses the kernel as anyone may.                                 *)

\* What is given to the kernel is a group that may be given.
LEMMA GivesAGroup ==
  ASSUME GivenInv, NEW i \in DOMAIN groups, BeginGroup(groups[i])
  PROVE  GroupGiven
<1> DEFINE all == GroupsOf(inputs)
<1>1. inputs \in Inputs /\ DOMAIN visible = DOMAIN inputs /\ IsRest(groups, all, Given)
  BY DEF GivenInv
<1>2. NextIsGiven(groups, all, Given)
  BY <1>1, RestNext
<1>3. Given + i \in 1 .. Len(all) /\ groups[i] = all[Given + i]
  BY <1>2 DEF NextIsGiven
<1>4. /\ \E time \in Int : groups[i] \in [DOMAIN visible -> Seq([event : Int, available : {time}])]
      /\ Work(groups[i]) # <<>>
  BY <1>1, <1>3, InputGroup
<1> QED BY <1>4 DEF GroupGiven

\* Every step of a replay is one of the kernel's or leaves it alone.
LEMMA ReplayUsesKernel ==
  ASSUME GivenInv, [RunNext]_<<kernelVars, runVars>> PROVE [KernelNext]_kernelVars
<1>1. CASE GiveGroup
  <2>1. groups # <<>> /\ BeginGroup(Head(groups))
    BY <1>1 DEF GiveGroup
  <2>2. 1 \in DOMAIN groups /\ Head(groups) = groups[1]
    BY <2>1, RestNext DEF GivenInv, NextIsGiven
  <2>3. GroupGiven
    BY <2>1, <2>2, GivesAGroup
  <2> QED BY <2>3 DEF KernelNext
<1>2. CASE HolderAdvances
  <2>1. PICK i \in DOMAIN groups : BeginGroup(groups[i])
    BY <1>2 DEF HolderAdvances
  <2>2. GroupGiven
    BY <2>1, GivesAGroup
  <2> QED BY <2>2 DEF KernelNext
<1>3. CASE GroupRaises \/ FinalizeRun \/ HolderReads \/ KernelSteps
  BY <1>3 DEF GroupRaises, FinalizeRun, HolderReads, KernelSteps, KernelNext
<1>4. CASE ScanEmpty \/ GateRaises \/ ScanGroup \/ Verify \/ UNCHANGED <<kernelVars, runVars>>
  BY <1>4 DEF ScanEmpty, GateRaises, ScanGroup, Verify
<1> QED BY <1>1, <1>2, <1>3, <1>4 DEF RunNext, Replay, Holder

\* The kernel tracks the same timeframes throughout.
LEMMA TracksTheSame ==
  ASSUME Inv, [KernelNext]_kernelVars PROVE DOMAIN visible' = DOMAIN visible
<1>1. CASE Publish
  <2>1. visible' = call.visible /\ CallInv
    BY <1>1 DEF Publish, Idle, Inv
  <2> QED BY <2>1 DEF CallInv
<1>2. CASE ~Publish
  BY <1>2 DEF KernelNext, GroupGiven, BeginGroup, KernelStep, Measure, Structure, Poi, Stage, Btmm,
              Raise, EventLedger, FinalizeKernel, kernelVars
<1> QED BY <1>1, <1>2

-----------------------------------------------------------------------------
(* The kernel's candles.                                                   *)

\* Before the last stage of a candle no candle is taken.
LEMMA StageTakes ==
  ASSUME CallInv, NEW stage, NEW new, NEW next, Stage(stage, new, next)
  PROVE  call'.visible = call.visible /\ call'.work = call.work
<1>1. call' = [call EXCEPT !.stage = next, !.state[Now.timeframe] = new]
  BY DEF Stage
<1> QED BY <1>1 DEF CallInv

\* A stage takes a candle or leaves it.
LEMMA TakesAlong ==
  ASSUME Inv, GivenInv, TakenSoFar, KernelStep, Inv', inputs' = inputs, groups' = groups
  PROVE  TakenSoFar'
<1>0. CallInv /\ call # NoCall
  BY DEF KernelStep, Measure, Structure, Poi, Btmm, Publish, At, Idle, Inv
<1>1. Given' = Given /\ DOMAIN visible = DOMAIN inputs
  BY DEF Given, GivenInv
<1>2. \A t \in DOMAIN inputs : Range(call.visible[t]) \cup Taken(call.work, t) = Upto(inputs, Given, t)
  BY <1>0 DEF TakenSoFar
<1>3. CASE Measure \/ Structure \/ Poi
  <2>1. call'.visible = call.visible /\ call'.work = call.work
    BY <1>0, <1>3, StageTakes DEF Measure, Structure, Poi
  <2>2. call' # NoCall
    <3>1. call'.stage \in {"structure", "poi", "btmm"}
      BY <1>0, <1>3 DEF Measure, Structure, Poi, Stage, CallInv
    <3> QED BY <3>1 DEF NoCall
  <2> QED BY <1>1, <1>2, <2>1, <2>2 DEF TakenSoFar
<1>4. CASE Btmm
  <2> DEFINE u == Now.timeframe
             c == Now.candle
  <2>1. call.work # <<>>
    BY <1>4 DEF Btmm, At
  <2>2. /\ u \in DOMAIN visible /\ c \in Candle /\ call.visible[u] \in Seq(Candle)
        /\ call.work \in Seq(Task(DOMAIN visible, call.time))
    BY <1>0, <2>1, AtHand DEF CallInv
  <2>3. /\ call'.stage = "measurement" /\ call'.work = Tail(call.work)
        /\ call'.visible = [call.visible EXCEPT ![u] = Append(@, c)]
    BY <1>0, <1>4 DEF Btmm, CallInv
  <2>4. call' # NoCall
    BY <2>3 DEF NoCall
  <2>5. ASSUME NEW t \in DOMAIN inputs
        PROVE  Range(call'.visible[t]) \cup Taken(call'.work, t) = Upto(inputs, Given, t)
    <3>1. Taken(call.work, t) = Taken(Tail(call.work), t) \cup (IF u = t THEN {c} ELSE {})
      BY <2>1, <2>2, TakenNext DEF Now
    <3>2. call.visible \in [DOMAIN visible -> Seq(Candle)]
      BY <1>0 DEF CallInv
    <3> HIDE DEF u, c
    <3>3. CASE t = u
      <4>1. call'.visible[t] = Append(call.visible[t], c)
        BY <2>2, <2>3, <3>2, <3>3
      <4>2. Range(Append(call.visible[t], c)) = Range(call.visible[t]) \cup {c}
        BY <2>2, <3>3, AppendRange
      <4> QED BY <1>2, <2>3, <3>1, <3>3, <4>1, <4>2
    <3>4. CASE t # u
      <4>1. call'.visible[t] = call.visible[t]
        BY <2>2, <2>3, <3>2, <3>4, <1>1
      <4> QED BY <1>2, <2>3, <3>1, <3>4, <4>1
    <3> QED BY <3>3, <3>4
  <2> QED BY <1>1, <2>4, <2>5 DEF TakenSoFar
<1>5. CASE Publish
  <2>1. visible' = call.visible /\ call' = NoCall /\ call.work = <<>>
    BY <1>5 DEF Publish
  <2>2. \A t : Taken(<<>>, t) = {}
    BY DEF Taken, Range
  <2>3. \A t \in DOMAIN inputs : Range(visible'[t]) = Upto(inputs, Given, t)
    BY <1>2, <2>1, <2>2
  <2> QED BY <1>1, <2>1, <2>3 DEF TakenSoFar
<1> QED BY <1>3, <1>4, <1>5 DEF KernelStep

\* The next group is the kernel's to take.
LEMMA GroupTaken ==
  ASSUME GivenInv, TakenSoFar, GiveGroup
  PROVE  TakenSoFar'
<1> DEFINE all == GroupsOf(inputs)
           g == Head(groups)
<1>1. inputs \in Inputs /\ DOMAIN visible = DOMAIN inputs /\ IsRest(groups, all, Given)
  BY DEF GivenInv
<1>2. NextIsGiven(groups, all, Given)
  BY <1>1, RestNext
<1>3. groups # <<>> /\ BeginGroup(g) /\ groups' = Tail(groups) /\ inputs' = inputs
  BY DEF GiveGroup
<1>4. /\ Given + 1 \in 1 .. Len(all) /\ g = all[Given + 1] /\ IsRest(groups', all, Given + 1)
      /\ Given \in Nat
  <2>1. Given \in Nat
    BY <1>1 DEF IsRest
  <2> HIDE DEF all
  <2> QED BY <2>1, <1>2, <1>3 DEF NextIsGiven
<1>5. Given' = Given + 1
  <2>1. Len(groups') = Len(all) - (Given + 1)
    <3> HIDE DEF all
    <3>1. NextIsGiven(groups', all, Given + 1)
      BY <1>4, RestNext
    <3> QED BY <3>1 DEF NextIsGiven
  <2>2. Len(all) \in Nat
    BY <1>1 DEF IsRest
  <2>3. Given' = Len(all) - Len(groups')
    BY <1>3 DEF Given
  <2> QED BY <2>1, <2>2, <2>3, <1>4
<1>6. call = NoCall
  BY <1>3 DEF BeginGroup, Idle
<1> HIDE DEF g, all
<1>7. call'.stage = "measurement" /\ call'.work = Work(g) /\ call'.visible = visible
  BY <1>3 DEF BeginGroup
<1>8. call' # NoCall
  BY <1>7 DEF NoCall
<1>9. ASSUME NEW t \in DOMAIN inputs
      PROVE  Range(visible[t]) \cup Taken(Work(g), t) = Upto(inputs, Given + 1, t)
  <2>1. Range(visible[t]) = Upto(inputs, Given, t)
    BY <1>6 DEF TakenSoFar
  <2>2. Taken(Work(g), t) = Range(g[t])
    BY <1>1, <1>4, InputGroup DEF all
  <2>3. Upto(inputs, Given + 1, t) = Upto(inputs, Given, t) \cup Range(g[t])
    BY <1>1, <1>4, UptoGrows DEF all
  <2> QED BY <2>1, <2>2, <2>3
<1> QED BY <1>3, <1>5, <1>7, <1>8, <1>9 DEF TakenSoFar

-----------------------------------------------------------------------------
(* Scans of growing prefixes.                                              *)

\* A scan that does not raise is of the groups given, and of all the inputs in the end.
LEMMA ScanTakes ==
  ASSUME GivenInv, ScannedSoFar, ScanGroup, outcome' # "raised"
  PROVE  ScannedSoFar' /\ (outcome' = "replayed" => Result')
<1> DEFINE all == GroupsOf(inputs)
           g == Head(groups)
           ts == DOMAIN inputs
<1>1. inputs \in Inputs /\ IsRest(groups, all, Given) /\ inputs' = inputs /\ policy' = policy
  BY DEF GivenInv, ScanGroup
<1>2. NextIsGiven(groups, all, Given)
  BY <1>1, RestNext
<1>3. groups # <<>> /\ groups' = Tail(groups) /\ policy # "FINAL_ONLY"
  BY DEF ScanGroup, Running
<1>4. /\ Given + 1 \in 1 .. Len(all) /\ g = all[Given + 1] /\ IsRest(groups', all, Given + 1)
      /\ Given \in Nat
  <2>1. Given \in Nat
    BY <1>1 DEF IsRest
  <2> HIDE DEF all
  <2> QED BY <2>1, <1>2, <1>3 DEF NextIsGiven
<1> HIDE DEF all
<1>5. NextIsGiven(groups', all, Given + 1)
  BY <1>4, RestNext
<1>6. Given' = Given + 1
  <2>1. Len(groups') = Len(all) - (Given + 1)
    BY <1>5 DEF NextIsGiven
  <2>2. Len(all) \in Nat
    BY <1>1 DEF IsRest
  <2>3. Given' = Len(all) - Len(groups')
    BY <1>1 DEF Given, all
  <2> QED BY <2>1, <2>2, <2>3, <1>4
<1>7. /\ \A t \in ts : g[t] \in Seq(Candle)
      /\ \E t \in ts : Range(g[t]) # {}
      /\ \A t \in ts : Upto(inputs, Given + 1, t) = Upto(inputs, Given, t) \cup Range(g[t])
  <2>1. /\ \A t \in ts : g[t] \in Seq(Candle)
        /\ \E t \in ts : Range(g[t]) # {}
    BY <1>1, <1>4, InputGroup DEF all
  <2>2. \A t \in ts : Upto(inputs, Given + 1, t) = Upto(inputs, Given, t) \cup Range(all[Given + 1][t])
    BY <1>1, <1>4, UptoGrows DEF all
  <2> QED BY <2>1, <2>2, <1>4
<1>8. seen \in [ts -> Seq(Candle)] /\ \A t \in ts : Range(seen[t]) = Upto(inputs, Given, t)
  BY DEF ScannedSoFar
<1>9. seen' = [t \in ts |-> seen[t] \o g[t]]
  BY <1>8 DEF ScanGroup
<1> HIDE DEF g
<1>10. seen' \in [ts -> Seq(Candle)]
  BY <1>7, <1>8, <1>9
<1>11. ASSUME NEW t \in ts PROVE Range(seen'[t]) = Upto(inputs, Given + 1, t)
  <2>1. seen[t] \in Seq(Candle) /\ g[t] \in Seq(Candle) /\ seen'[t] = seen[t] \o g[t]
    BY <1>7, <1>8, <1>9
  <2>2. Range(seen[t] \o g[t]) = Range(seen[t]) \cup Range(g[t])
    BY <2>1, RangeConcatenation
  <2> QED BY <2>1, <2>2, <1>7, <1>8
<1>12. /\ ~Refused(seen') /\ final' = ScanMarket(seen')
       /\ snapshots' = IF policy = "ALL" \/ snapshots = <<>> \/ Last(snapshots) # final'
                         THEN Append(snapshots, final') ELSE snapshots
       /\ outcome' = IF groups' = <<>> THEN "replayed" ELSE "running"
  <2>1. ~Refused(seen')
    BY DEF ScanGroup
  <2> QED BY <2>1 DEF ScanGroup
<1>13. \A t \in ts : Sorted(seen'[t])
  BY <1>10, <1>12 DEF Refused
<1>14. final' \in Scans(ts) /\ snapshots \in Seq(Scans(ts)) /\ Len(snapshots) = Given
  BY <1>10, <1>12 DEF Scans, ScannedSoFar
<1>15. snapshots # <<>> => Last(snapshots) # final'
  <2> SUFFICES ASSUME snapshots # <<>> PROVE Last(snapshots) # final'
    OBVIOUS
  <2>1. Last(snapshots) = ScanMarket(seen)
    BY DEF ScannedSoFar
  <2>2. PICK t \in ts : Range(g[t]) # {}
    BY <1>7
  <2>3. g[t] \in Seq(Candle) /\ seen'[t] = seen[t] \o g[t]
    BY <1>7, <1>9
  <2>4. ScanMarket(seen) # ScanMarket(seen')
    BY <1>8, <2>2, <2>3, ScansDiffer
  <2> QED BY <1>12, <2>1, <2>4
<1>16. snapshots' = Append(snapshots, final')
  BY <1>12, <1>15
<1>17. /\ snapshots' \in Seq(Scans(ts)) /\ Len(snapshots') = Given + 1
       /\ Last(snapshots') = final'
  BY <1>14, <1>16, SnapshotTaken
<1>18. ScannedSoFar'
  BY <1>1, <1>6, <1>10, <1>11, <1>12, <1>13, <1>17 DEF ScannedSoFar
<1>19. ASSUME outcome' = "replayed" PROVE Result'
  <2>1. Given + 1 = Len(all)
    <3>1. groups' = <<>>
      BY <1>12, <1>19
    <3> QED BY <3>1, <1>5 DEF NextIsGiven
  <2>2. seen' = inputs
    BY <1>1, <1>10, <1>11, <1>13, <2>1, AllGiven DEF all
  <2>3. ts # {}
    BY <1>7
  <2> QED BY <1>1, <1>3, <1>12, <1>17, <2>1, <2>2, <2>3 DEF Result, all
<1> QED BY <1>18, <1>19

\* The kernel's finalization is of all the inputs.
LEMMA FinalizesAll ==
  ASSUME Inv, GivenInv, TakenSoFar, FinalizeRun
  PROVE  Result'
<1> DEFINE all == GroupsOf(inputs)
<1>1. /\ inputs \in Inputs /\ DOMAIN visible = DOMAIN inputs /\ IsRest(groups, all, Given)
      /\ inputs' = inputs /\ policy' = policy
  BY DEF GivenInv, FinalizeRun
<1>2. groups = <<>> /\ ~Empty(inputs) /\ FinalizeKernel /\ final' = returned' /\ snapshots' = <<final'>>
      /\ policy = "FINAL_ONLY"
  BY DEF FinalizeRun, Running
<1>3. Given = Len(all)
  BY <1>1, <1>2, RestNext DEF NextIsGiven
<1>4. call = NoCall /\ returned' = Analysis(visible, EvidenceGiven) /\ VisibleInv
  BY <1>2 DEF FinalizeKernel, Idle, Inv
<1>5. visible = inputs
  <2>1. visible \in [DOMAIN inputs -> Seq(Candle)] /\ \A t \in DOMAIN inputs : Sorted(visible[t])
    BY <1>1, <1>4 DEF VisibleInv
  <2>2. \A t \in DOMAIN inputs : Range(visible[t]) = Upto(inputs, Len(GroupsOf(inputs)), t)
    BY <1>3, <1>4 DEF TakenSoFar
  <2> QED BY <1>1, <2>1, <2>2, AllGiven
<1>6. EvidenceGiven = EvidenceSeen(inputs)
  BY <1>4, <1>5, EvidenceIsSeen
<1>7. final' = Analysis(inputs, EvidenceSeen(inputs))
  BY <1>2, <1>4, <1>5, <1>6
<1>8. DOMAIN inputs # {}
  BY <1>2 DEF Empty
<1>9. Len(snapshots') = 1 /\ Last(snapshots') = final'
  <2>1. \A x : Len(<<x>>) = 1 /\ <<x>>[1] = x
    OBVIOUS
  <2> QED BY <2>1, <1>2 DEF Last
<1> QED BY <1>1, <1>2, <1>7, <1>8, <1>9 DEF Result

-----------------------------------------------------------------------------
(* The invariant holds.                                                    *)

\* It holds at the beginning of a run.
LEMMA RunInvInit == InitRun => RunInv /\ Batch!Init
<1> SUFFICES ASSUME InitRun PROVE RunInv /\ Batch!Init
  OBVIOUS
<1> DEFINE all == GroupsOf(inputs)
<1>1. /\ inputs \in Inputs /\ InitKernel(DOMAIN inputs) /\ groups = all
      /\ seen = [t \in DOMAIN inputs |-> <<>>] /\ snapshots = <<>> /\ mismatches = {}
      /\ policy \in {"ALL", "CHANGED_ONLY", "FINAL_ONLY", "KERNEL"} /\ verify \in BOOLEAN
      /\ outcome = "running"
  BY DEF InitRun
<1>2. DOMAIN inputs \in SUBSET Range(Timeframes)
  BY <1>1, InputsInOrder
<1>3. Inv /\ Batch!Init
  BY <1>1, <1>2, InitialInv
<1>4. Len(all) \in Nat /\ all = [i \in 1 .. Len(all) |-> all[i]]
  BY <1>1, Groups
<1>5. Given = 0
  BY <1>1, <1>4 DEF Given
<1> HIDE DEF all
<1>6. IsRest(groups, all, 0)
  <2>1. Len(all) - 0 = Len(all) /\ \A i \in 1 .. Len(all) : all[0 + i] = all[i]
    BY <1>4
  <2> QED BY <1>1, <1>4, <2>1 DEF IsRest
<1>7. visible = [t \in DOMAIN inputs |-> <<>>] /\ call = NoCall
  BY <1>1 DEF InitKernel
<1>8. GivenInv
  BY <1>1, <1>5, <1>6, <1>7 DEF GivenInv, all
<1>9. \A t \in DOMAIN inputs : Upto(inputs, 0, t) = {}
  BY <1>1, UptoGrows
<1>10. Range(<<>>) = {} /\ Sorted(<<>>) /\ <<>> \in Seq(Candle)
  BY DEF Range, Sorted
<1>11. ScannedSoFar
  <2>1. snapshots \in Seq(Scans(DOMAIN inputs)) /\ Len(snapshots) = 0
    BY <1>1
  <2>2. seen \in [DOMAIN inputs -> Seq(Candle)]
    BY <1>1, <1>10
  <2>3. \A t \in DOMAIN inputs : Sorted(seen[t]) /\ Range(seen[t]) = Upto(inputs, Given, t)
    BY <1>1, <1>5, <1>9, <1>10
  <2> QED BY <1>1, <1>5, <2>1, <2>2, <2>3 DEF ScannedSoFar
<1>12. TakenSoFar
  BY <1>5, <1>7, <1>9, <1>10 DEF TakenSoFar
<1> QED BY <1>1, <1>3, <1>8, <1>11, <1>12 DEF RunInv, RunsInv, EndsInv

\* A step leaves the groups or takes the next.
LEMMA GivenKept ==
  ASSUME Inv, GivenInv, [RunNext]_<<kernelVars, runVars>>
  PROVE  GivenInv'
<1>1. DOMAIN visible' = DOMAIN visible
  BY ReplayUsesKernel, TracksTheSame
<1>2. inputs' = inputs /\ policy' = policy /\ verify' = verify
  BY DEF RunNext, Replay, Holder, ScanEmpty, GateRaises, ScanGroup, GiveGroup, GroupRaises, FinalizeRun,
         Verify, HolderAdvances, HolderReads, KernelSteps, runVars
<1>3. groups' = groups \/ (groups # <<>> /\ groups' = Tail(groups))
  BY DEF RunNext, Replay, Holder, ScanEmpty, GateRaises, ScanGroup, GiveGroup, GroupRaises, FinalizeRun,
         Verify, HolderAdvances, HolderReads, KernelSteps, runVars
<1> DEFINE all == GroupsOf(inputs)
<1>4. IsRest(groups, all, Given)
  BY DEF GivenInv
<1>5. IsRest(groups', all, Given')
  <2>1. CASE groups' = groups
    <3>1. Given' = Given
      BY <1>2, <2>1 DEF Given
    <3> QED BY <3>1, <1>4, <2>1
  <2>2. CASE groups # <<>> /\ groups' = Tail(groups)
    <3>1. NextIsGiven(groups, all, Given)
      BY <1>4, RestNext
    <3>2. IsRest(groups', all, Given + 1)
      BY <3>1, <2>2 DEF NextIsGiven
    <3> HIDE DEF all
    <3>3. NextIsGiven(groups', all, Given + 1)
      BY <3>2, RestNext
    <3>4. Len(groups') = Len(all) - (Given + 1) /\ Len(all) \in Nat /\ Given \in Int
      BY <3>3, <1>4 DEF NextIsGiven, IsRest
    <3>5. Given' = Len(all) - Len(groups')
      BY <1>2 DEF Given, all
    <3>6. Given' = Given + 1
      BY <3>4, <3>5
    <3> QED BY <3>2, <3>6
  <2> QED BY <1>3, <2>1, <2>2
<1> QED BY <1>1, <1>2, <1>5 DEF GivenInv

\* Each step keeps the invariant.
LEMMA RunInvStep == RunInv /\ [RunNext]_<<kernelVars, runVars>> => RunInv'
<1> SUFFICES ASSUME RunInv, [RunNext]_<<kernelVars, runVars>> PROVE RunInv'
  OBVIOUS
<1>0. Inv /\ GivenInv /\ RunsInv /\ EndsInv
  BY DEF RunInv
<1>1. [KernelNext]_kernelVars
  BY <1>0, ReplayUsesKernel
<1>2. Inv' /\ GivenInv'
  BY <1>0, <1>1, StepInv, GivenKept
<1>3. SUFFICES RunsInv' /\ EndsInv'
  BY <1>2 DEF RunInv
<1>4. CASE ScanEmpty
  <2>1. Running({"ALL", "CHANGED_ONLY", "FINAL_ONLY"}) /\ Empty(inputs) /\ mismatches' = mismatches
        /\ inputs' = inputs /\ verify' = verify
    BY <1>4 DEF ScanEmpty
  <2>2. mismatches' = {}
    BY <1>0, <2>1 DEF RunsInv, Running
  <2>3. CASE outcome' = "raised"
    BY <2>3 DEF RunsInv, EndsInv
  <2>4. CASE outcome' # "raised"
    <3>1. ~Refused(inputs) /\ outcome' = "done" /\ final' = ScanMarket(inputs)
      BY <1>4, <2>4 DEF ScanEmpty
    <3>2. DOMAIN inputs = {}
      BY <2>1, <3>1 DEF Refused
    <3>3. Result'
      BY <2>1, <3>1, <3>2 DEF Result
    <3>4. Compare(ScanMarket(inputs), ScanMarket(inputs)) = {}
      BY DEF Compare
    <3> QED BY <2>1, <2>2, <3>1, <3>3, <3>4 DEF RunsInv, EndsInv
  <2> QED BY <2>3, <2>4
<1>5. CASE GateRaises
  BY <1>5 DEF GateRaises, RunsInv, EndsInv
<1>6. CASE ScanGroup
  <2>1. /\ outcome = "running" /\ policy \in {"ALL", "CHANGED_ONLY"}
        /\ mismatches' = mismatches /\ policy' = policy
    BY <1>6 DEF ScanGroup, Running
  <2>2. CASE outcome' = "raised"
    BY <2>2 DEF RunsInv, EndsInv
  <2>3. CASE outcome' # "raised"
    <3>1. ScannedSoFar
      BY <1>0, <2>1 DEF RunsInv
    <3>2. ScannedSoFar' /\ (outcome' = "replayed" => Result')
      BY <1>0, <1>6, <2>3, <3>1, ScanTakes
    <3>3. outcome' \in {"replayed", "running"}
      BY <1>6, <2>3 DEF ScanGroup
    <3>4. mismatches' = {} /\ policy' # "FINAL_ONLY"
      BY <1>0, <2>1 DEF RunsInv
    <3> QED BY <3>2, <3>3, <3>4 DEF RunsInv, EndsInv
  <2> QED BY <2>2, <2>3
<1>7. CASE GiveGroup
  <2>1. /\ outcome = "running" /\ policy = "FINAL_ONLY" /\ outcome' = "running"
        /\ mismatches' = mismatches /\ policy' = policy
    BY <1>7 DEF GiveGroup, Running
  <2>2. TakenSoFar'
    BY <1>0, <1>7, <2>1, GroupTaken DEF RunsInv
  <2> QED BY <1>0, <2>1, <2>2 DEF RunsInv, EndsInv
<1>8. CASE GroupRaises
  BY <1>8 DEF GroupRaises, RunsInv, EndsInv
<1>9. CASE FinalizeRun
  <2>1. outcome = "running" /\ policy = "FINAL_ONLY" /\ outcome' = "replayed"
    BY <1>9 DEF FinalizeRun, Running
  <2>2. Result'
    BY <1>0, <1>9, <2>1, FinalizesAll DEF RunsInv
  <2> QED BY <2>1, <2>2 DEF RunsInv, EndsInv
<1>10. CASE Verify
  <2>1. outcome = "replayed" /\ Result /\ UNCHANGED <<inputs, policy, verify, snapshots, final>>
    BY <1>0, <1>10 DEF Verify, EndsInv
  <2>2. Result'
    BY <2>1 DEF Result
  <2>3. outcome' = "raised" \/ (outcome' = "done" /\ (verify => mismatches' = Compare(ScanMarket(inputs), final)))
    BY <1>10 DEF Verify
  <2> QED BY <2>1, <2>2, <2>3 DEF RunsInv, EndsInv
<1>11. CASE Holder
  <2>1. outcome = "running" /\ policy = "KERNEL" /\ UNCHANGED runVars
    BY <1>11 DEF Holder, HolderAdvances, HolderReads, Running
  <2> QED BY <1>0, <2>1 DEF RunsInv, EndsInv, runVars
<1>12. CASE KernelSteps
  <2>1. KernelStep /\ UNCHANGED runVars
    BY <1>12 DEF KernelSteps
  <2>2. EndsInv'
    BY <1>0, <2>1 DEF EndsInv, Result, runVars
  <2>3. ScannedSoFar => ScannedSoFar'
    BY <2>1 DEF ScannedSoFar, Given, runVars
  <2>4. TakenSoFar => TakenSoFar'
    BY <1>0, <1>2, <2>1, TakesAlong DEF runVars
  <2> QED BY <1>0, <2>1, <2>2, <2>3, <2>4 DEF RunsInv, runVars
<1>13. CASE UNCHANGED <<kernelVars, runVars>>
  <2>1. EndsInv'
    BY <1>0, <1>13 DEF EndsInv, Result, runVars
  <2>2. ScannedSoFar => ScannedSoFar'
    BY <1>13 DEF ScannedSoFar, Given, runVars
  <2>3. TakenSoFar => TakenSoFar'
    BY <1>13 DEF TakenSoFar, Given, runVars, kernelVars
  <2> QED BY <1>0, <1>13, <2>1, <2>2, <2>3 DEF RunsInv, runVars
<1> QED BY <1>4, <1>5, <1>6, <1>7, <1>8, <1>9, <1>10, <1>11, <1>12, <1>13 DEF RunNext, Replay

\* What a run has come to is the scan of all the inputs.
LEMMA ResultIsBatch == RunInv => ReplayIsBatch
<1> SUFFICES ASSUME RunInv, outcome = "done"
             PROVE  LET all == ScanMarket(inputs)
                        differing == {t \in DOMAIN inputs : final.evidence[t] # all.evidence[t]}
                    IN  /\ final.timeframes = all.timeframes /\ final.records = all.records
                        /\ \A t \in differing : policy = "FINAL_ONLY" /\ Late(t)
                        /\ verify => (mismatches = {} <=> final = all)
                        /\ DOMAIN inputs # {} =>
                             /\ Last(snapshots) = final
                             /\ Len(snapshots) = IF policy = "FINAL_ONLY" THEN 1 ELSE Len(GroupsOf(inputs))
  BY DEF ReplayIsBatch
<1> DEFINE all == ScanMarket(inputs)
<1>1. Result /\ (verify => mismatches = Compare(all, final)) /\ inputs \in Inputs
  BY DEF RunInv, GivenInv, EndsInv
<1>2. all = [timeframes |-> all.timeframes, records |-> all.records, evidence |-> all.evidence]
      /\ all.timeframes = DOMAIN inputs /\ all.records = inputs
  BY DEF ScanMarket
<1>3. CASE final = all
  <2>1. verify => (mismatches = {} <=> final = all)
    BY <1>1, <1>3 DEF Compare
  <2>2. DOMAIN inputs # {} =>
          /\ Last(snapshots) = final
          /\ Len(snapshots) = IF policy = "FINAL_ONLY" THEN 1 ELSE Len(GroupsOf(inputs))
    BY <1>1 DEF Result
  <2> QED BY <1>3, <2>1, <2>2
<1>4. CASE final # all
  <2> DEFINE evidence == EvidenceSeen(inputs)
  <2>1. /\ policy = "FINAL_ONLY" /\ ~Empty(inputs) /\ final = Analysis(inputs, evidence)
        /\ Last(snapshots) = final /\ Len(snapshots) = 1
    BY <1>1, <1>4 DEF Result
  <2> HIDE DEF evidence, all
  <2>2. final = [timeframes |-> DOMAIN inputs, records |-> inputs, evidence |-> evidence]
    BY <2>1 DEF Analysis
  <2>3. final = [timeframes |-> final.timeframes, records |-> final.records, evidence |-> final.evidence]
        /\ final.timeframes = DOMAIN inputs /\ final.records = inputs /\ final.evidence = evidence
    BY <2>2
  <2>4. verify => (mismatches = {} <=> final = all)
    BY <1>1, <1>2, <2>3, ComparesEqual
  <2>5. ASSUME NEW t \in DOMAIN inputs, final.evidence[t] # all.evidence[t] PROVE Late(t)
    BY <1>1, <2>1, <2>3, <2>5, MissedIsLate DEF Late, evidence, all
  <2> QED BY <1>2, <2>1, <2>3, <2>4, <2>5 DEF all
<1> QED BY <1>3, <1>4

\* Under every retention policy, for any inputs of any timeframes, whatever raises
\* and whenever the gate stops the run: a replay that is completed has found what
\* one scan of all the inputs finds, but for evidence that only becomes visible
\* after the last candle of its timeframe; and the comparison tells the two apart
\* exactly when they differ (scanner/replay.py run_scanner_replay).
THEOREM ReplayFindsTheBatch == RunSpec => []ReplayIsBatch
BY RunInvInit, RunInvStep, ResultIsBatch, PTL DEF RunSpec

\* The kernel of a replay, and one in the hands of a caller who gives any group
\* again or goes on after one that raised, implements ScannerBatch
\* (scanner/replay.py IncrementalReplayKernel under run_scanner_replay).
THEOREM ReplayImplements == RunSpec => ImplementsScannerBatch
<1>1. RunInv /\ [RunNext]_<<kernelVars, runVars>> => [Batch!Next]_Batch!vars
  <2> SUFFICES ASSUME RunInv, [RunNext]_<<kernelVars, runVars>> PROVE [Batch!Next]_Batch!vars
    OBVIOUS
  <2>1. [KernelNext]_kernelVars
    BY ReplayUsesKernel DEF RunInv
  <2> QED BY <2>1, StepRefines DEF RunInv
<1> QED BY <1>1, RunInvInit, RunInvStep, PTL DEF RunSpec, ImplementsScannerBatch, Batch!Spec
=============================================================================

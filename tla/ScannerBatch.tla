---------------------------- MODULE ScannerBatch ----------------------------
(***************************************************************************)
(* What a replay promises, without saying how: the candles become visible  *)
(* a group at a time, all of a group or none, and everything that is read  *)
(* is what the analyzers make of the candles visible now.                  *)
(*                                                                         *)
(* An engine's state is the sequence of the inputs it was advanced with,   *)
(* which determines it: the candle, and what the stages before it and the  *)
(* reviewed evidence were then.  A candle is [event, available], evidence  *)
(* [timeframe, available].                                                 *)
(***************************************************************************)
EXTENDS Integers, Sequences, SequencesExt, FiniteSetsExt

CONSTANTS
  Timeframes,     \* a sequence, by rank
  BtmmEligible,   \* formation_timeframes and supporting_only_timeframes
  Evidence,       \* the reviewed evidence
  None

ASSUME ScannerConstants ==
  /\ Timeframes \in Seq(STRING) /\ IsInjective(Timeframes)
  /\ BtmmEligible \subseteq Range(Timeframes)
  /\ \A e \in Evidence : e.timeframe \in BtmmEligible /\ e.available \in Int

Candle == [event : Int, available : Int]

VARIABLES
  visible,     \* for each tracked timeframe, its visible candles
  state,       \* what the engines of each timeframe have made of them
  count,       \* processed_group_count
  finalized,   \* the visible candles that _finalized_lifecycle_transitions are of, or None
  returned     \* what the last call has returned

vars == <<visible, state, count, finalized, returned>>

\* The evidence of a timeframe that is visible at a time.
Gated(timeframe, time) == {e \in Evidence : e.timeframe = timeframe /\ e.available <= time}

\* The engines of one timeframe after its candles.
Engines(timeframe, candles) ==
  [measurement |-> candles,
   structure   |-> [i \in DOMAIN candles |-> [candle |-> candles[i], swings |-> SubSeq(candles, 1, i)]],
   poi         |-> [i \in DOMAIN candles |-> [candle |-> candles[i], measured |-> SubSeq(candles, 1, i)]],
   btmm        |-> IF timeframe \notin BtmmEligible THEN <<>>
                   ELSE [i \in DOMAIN candles |->
                           [candle |-> candles[i], pois |-> i,
                            evidence |-> Gated(timeframe, candles[i].available)]]]

EnginesOf(vs) == [t \in DOMAIN vs |-> Engines(t, vs[t])]

Empty(vs) == \A t \in DOMAIN vs : vs[t] = <<>>

\* A ledger of what the engines know, with the lifecycle transitions that the
\* last finalization has left.
Ledger(vs, engines, transitionsOf) ==
  [records |-> IF Empty(vs) THEN <<>> ELSE engines, transitions |-> transitionsOf]

\* processed_timeframes, the records of each, and the evidence in their setups.
Analysis(vs, evidence) ==
  IF Empty(vs) THEN [timeframes |-> {}, records |-> <<>>, evidence |-> <<>>]
  ELSE [timeframes |-> DOMAIN vs, records |-> vs, evidence |-> evidence]

\* The evidence of each timeframe at its own last candle.
EvidenceSeen(vs) ==
  [t \in DOMAIN vs |-> IF vs[t] = <<>> THEN {} ELSE Gated(t, Last(vs[t]).available)]

Init ==
  /\ visible \in {[t \in ts |-> <<>>] : ts \in SUBSET Range(Timeframes)}
  /\ state = EnginesOf(visible)
  /\ count = 0 /\ finalized = None /\ returned = None

\* All of the candles of one moment, each after those of its timeframe.
AdvanceGroup ==
  LET added(t) == SubSeq(visible'[t], Len(visible[t]) + 1, Len(visible'[t]))
      times == {c.available : c \in UNION {Range(added(t)) : t \in DOMAIN visible}}
  IN  /\ DOMAIN visible' = DOMAIN visible
      /\ \A t \in DOMAIN visible : IsPrefix(visible[t], visible'[t])
      /\ \A t \in DOMAIN visible : \A i \in 2..Len(visible'[t]) :
           visible'[t][i].event > visible'[t][i - 1].event
      /\ \E time \in times : times = {time}
      /\ state' = EnginesOf(visible')
      /\ count' = count + 1
      /\ UNCHANGED <<finalized, returned>>

ReadLedger ==
  /\ returned' = Ledger(visible, state, finalized)
  /\ UNCHANGED <<visible, state, count, finalized>>

Finalize ==
  /\ returned' = Analysis(visible, EvidenceSeen(visible))
  /\ finalized' = IF Empty(visible) THEN finalized ELSE visible
  /\ UNCHANGED <<visible, state, count>>

Next == AdvanceGroup \/ ReadLedger \/ Finalize

Spec == Init /\ [][Next]_vars
=============================================================================

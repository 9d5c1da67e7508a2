---------------------------- MODULE ReplayKernel ----------------------------
(***************************************************************************)
(* IncrementalReplayKernel of scanner/replay.py: advance_group, one stage  *)
(* of one candle at a time, any of which may raise; the lazily cached      *)
(* event ledger; and the finalization.                                     *)
(***************************************************************************)
EXTENDS ScannerBatch

VARIABLES
  ledgerCache,   \* _ledger_cache
  call           \* the advance_group in progress, or NoCall

kernelVars == <<visible, state, count, finalized, returned, ledgerCache, call>>

NoCall == [stage |-> "none"]

NoEngines == [measurement |-> <<>>, structure |-> <<>>, poi |-> <<>>, btmm |-> <<>>]

InitKernel(tracked) ==
  /\ visible = [t \in tracked |-> <<>>]
  /\ state = [t \in tracked |-> NoEngines]
  /\ count = 0
  /\ finalized = None /\ returned = None
  /\ ledgerCache = None
  /\ call = NoCall

Idle == call = NoCall

\* The candles of a group in the order advance_group takes them.
Work(group) ==
  LET Of(t) == IF t \in DOMAIN group
                 THEN [i \in DOMAIN group[t] |-> [timeframe |-> t, candle |-> group[t][i]]]
                 ELSE <<>>
  IN  FlattenSeq([r \in DOMAIN Timeframes |-> Of(Timeframes[r])])

\* Everything the call makes is a local of its own.
BeginGroup(group) ==
  /\ Idle
  /\ call' = [stage |-> "measurement", work |-> Work(group), time |-> Head(Work(group)).candle.available,
              state |-> state, visible |-> visible]
  /\ UNCHANGED <<visible, state, count, finalized, returned, ledgerCache>>

At(stage) == ~Idle /\ call.work # <<>> /\ call.stage = stage

Now == Head(call.work)
Local == call.state[Now.timeframe]

\* One stage of the candle at hand: the engines of its timeframe become new.
Stage(stage, new, next) ==
  /\ At(stage)
  /\ call' = [call EXCEPT !.stage = next, !.state[Now.timeframe] = new]
  /\ UNCHANGED <<visible, state, count, finalized, returned, ledgerCache>>

\* A candle that is not after the one before it raises.
InOrder == Local.measurement # <<>> => Now.candle.event > Last(Local.measurement).event

Measure ==
  /\ At("measurement") /\ InOrder
  /\ Stage("measurement", [Local EXCEPT !.measurement = Append(@, Now.candle)], "structure")

\* Structure and POIs are given the measurement of this very candle.
Structure ==
  /\ At("structure")
  /\ LET input == [candle |-> Now.candle, swings |-> Local.measurement]
     IN  Stage("structure", [Local EXCEPT !.structure = Append(@, input)], "poi")

Poi ==
  /\ At("poi")
  /\ LET input == [candle |-> Now.candle, measured |-> Local.measurement]
     IN  Stage("poi", [Local EXCEPT !.poi = Append(@, input)], "btmm")

\* The candle is visible, and BTMM is given what the POIs have come to, and the
\* evidence visible with the group.
Btmm ==
  /\ At("btmm")
  /\ LET t   == Now.timeframe
         new == IF t \notin BtmmEligible THEN Local.btmm
                ELSE Append(Local.btmm, [candle |-> Now.candle, pois |-> Len(Local.poi),
                                         evidence |-> Gated(t, call.time)])
     IN  call' = [call EXCEPT !.stage = "measurement", !.work = Tail(@), !.state[t].btmm = new,
                              !.visible[t] = Append(@, Now.candle)]
  /\ UNCHANGED <<visible, state, count, finalized, returned, ledgerCache>>

\* A stage raises, a candle out of order or an assertion of an engine; the
\* locals are lost.
Raise ==
  /\ ~Idle /\ call.work # <<>>
  /\ call' = NoCall
  /\ UNCHANGED <<visible, state, count, finalized, returned, ledgerCache>>

\* Mutant: the ledger of the group before is kept.
PublishKeepsLedger ==
  /\ ~Idle /\ call.work = <<>>
  /\ visible' = call.visible /\ state' = call.state
  /\ count' = count + 1
  /\ call' = NoCall
  /\ UNCHANGED <<finalized, returned, ledgerCache>>

Publish ==
  /\ ~Idle /\ call.work = <<>>
  /\ visible' = call.visible /\ state' = call.state
  /\ ledgerCache' = None
  /\ count' = count + 1
  /\ call' = NoCall
  /\ UNCHANGED <<finalized, returned>>

EventLedger ==
  /\ Idle
  /\ ledgerCache' = IF ledgerCache = None THEN Ledger(visible, state, finalized) ELSE ledgerCache
  /\ returned' = ledgerCache'
  /\ UNCHANGED <<visible, state, count, finalized, call>>

\* The setups of a timeframe know the evidence their last candle was given.
EvidenceGiven ==
  [t \in DOMAIN state |-> IF state[t].btmm = <<>> THEN {} ELSE Last(state[t].btmm).evidence]

FinalizeKernel ==
  /\ Idle
  /\ returned' = Analysis(visible, EvidenceGiven)
  /\ IF Empty(visible)
       THEN UNCHANGED <<finalized, ledgerCache>>
       ELSE finalized' = visible /\ ledgerCache' = None
  /\ UNCHANGED <<visible, state, count, call>>

\* The steps of an advance_group after its beginning.
KernelStep == Measure \/ Structure \/ Poi \/ Btmm \/ Publish

\* Candles of one moment, one at least, for timeframes the kernel tracks.
GroupGiven ==
  \E time \in Int : \E group \in [DOMAIN visible -> Seq([event : Int, available : {time}])] :
    Work(group) # <<>> /\ BeginGroup(group)

\* The kernel in any hands.
KernelNext == GroupGiven \/ KernelStep \/ Raise \/ EventLedger \/ FinalizeKernel

KernelSpec ==
  /\ \E tracked \in SUBSET Range(Timeframes) : InitKernel(tracked)
  /\ [][KernelNext]_kernelVars

Batch == INSTANCE ScannerBatch

\* Whatever stage of whatever candle raises, and whenever the ledger was read
\* last: a group counts as a whole or not at all, the engines of every timeframe
\* are where its visible candles bring them from nothing, and what is read is of
\* the candles visible now (scanner/replay.py advance_group, event_ledger and
\* finalize).
ImplementsScannerBatch == Batch!Spec
=============================================================================

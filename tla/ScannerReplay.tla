--------------------------- MODULE ScannerReplay ---------------------------
(***************************************************************************)
(* run_scanner_replay: the candles of all timeframes in groups of one      *)
(* availability, each given to scan_market over the growing prefix or to   *)
(* the kernel, by retention policy; the gate before each group; and the    *)
(* comparison with one scan of everything.                                 *)
(*                                                                         *)
(* With the policy KERNEL the kernel is held by a caller of its own, who   *)
(* advances it, reads and finalizes it in any order and goes on after a    *)
(* group that has raised.                                                  *)
(***************************************************************************)
EXTENDS ReplayKernel

CONSTANTS
  Requirements, \* the choices of required_timeframes
  Inputs        \* the historical inputs: for each timeframe given, its candles

Sorted(candles) == \A i \in 2..Len(candles) : candles[i].event > candles[i - 1].event

\* As the loader gives them (historical_backtest/loader.py, csv_parser.py): a timeframe's
\* candles by event time, no two of one time.
ASSUME InputsInOrder ==
  \A vs \in Inputs :
    /\ DOMAIN vs \subseteq Range(Timeframes)
    /\ vs \in [DOMAIN vs -> Seq(Candle)]
    /\ \A t \in DOMAIN vs : Sorted(vs[t])

VARIABLES
  inputs, required, policy, verify,
  groups,       \* the groups that are left
  seen,         \* visible_by_timeframe
  snapshots, final, mismatches,
  outcome       \* "running", "replayed", "done", "stopped" or "raised"

runVars == <<inputs, required, policy, verify, groups, seen, snapshots, final, mismatches, outcome>>

Times(vs) == {c.available : c \in UNION {Range(vs[t]) : t \in DOMAIN vs}}

\* The moment a scan speaks for, that of the last candle of any timeframe.
Latest(vs) == Max(Times(vs))

\* scan_market refuses inputs without a required timeframe, without any candle
\* or with candles out of order, and evidence on a POI of a timeframe that has
\* no candles yet.
Refused(vs) ==
  \/ ~(required \subseteq DOMAIN vs)
  \/ DOMAIN vs # {} /\ Empty(vs)
  \/ \E t \in DOMAIN vs : ~Sorted(vs[t])
  \/ /\ ~Empty(vs)
     /\ \E e \in Evidence : /\ e.available <= Latest(vs)
                            /\ e.timeframe \in DOMAIN vs => vs[e.timeframe] = <<>>

ScanMarket(vs) ==
  [timeframes |-> DOMAIN vs, records |-> vs,
   evidence |-> [t \in DOMAIN vs |-> IF vs[t] = <<>> THEN {} ELSE Gated(t, Latest(vs))]]

\* The elements of a finite set, by their keys.
ByKey(S, key) ==
  CHOOSE s \in [1..Cardinality(S) -> S] :
    /\ Range(s) = S
    /\ \A i, j \in 1..Cardinality(S) : i < j => key[s[i]] < key[s[j]]

\* The candles in groups of one availability, by time; a timeframe's own by
\* their event time within a group.
GroupsOf(vs) ==
  LET ordered == ByKey(Times(vs), [time \in Times(vs) |-> time])
      Group(time) == [t \in DOMAIN vs |->
        LET now == {c \in Range(vs[t]) : c.available = time}
        IN  ByKey(now, [c \in now |-> c.event])]
  IN  [i \in DOMAIN ordered |-> Group(ordered[i])]

InitRun ==
  /\ inputs \in Inputs /\ required \in Requirements
  /\ policy \in {"ALL", "CHANGED_ONLY", "FINAL_ONLY", "KERNEL"}
  /\ verify \in BOOLEAN
  /\ policy = "KERNEL" => ~verify
  /\ InitKernel(DOMAIN inputs)
  /\ groups = GroupsOf(inputs)
  /\ seen = [t \in DOMAIN inputs |-> <<>>]
  /\ snapshots = <<>> /\ final = None /\ mismatches = {}
  /\ outcome = "running"

Running(policies) == outcome = "running" /\ policy \in policies

\* Without any input there is one scan of nothing, and no snapshot; a scan of
\* inputs without any candle raises.
ScanEmpty ==
  /\ Running({"ALL", "CHANGED_ONLY", "FINAL_ONLY"}) /\ Empty(inputs)
  /\ IF Refused(inputs)
       THEN outcome' = "raised" /\ UNCHANGED final
       ELSE outcome' = "done" /\ final' = ScanMarket(inputs)
  /\ UNCHANGED <<inputs, required, policy, verify, groups, seen, snapshots, mismatches>>
  /\ UNCHANGED kernelVars

\* group_gate may stop the run before any group.
GateRaises ==
  /\ Running({"ALL", "CHANGED_ONLY", "FINAL_ONLY"}) /\ Idle /\ groups # <<>>
  /\ outcome' = "stopped"
  /\ UNCHANGED <<inputs, required, policy, verify, groups, seen, snapshots, final, mismatches>>
  /\ UNCHANGED kernelVars

\* A whole scan for each group.  The availability of a snapshot is its group's,
\* so that no two of them are equal and CHANGED_ONLY keeps them all.
ScanGroup ==
  /\ Running({"ALL", "CHANGED_ONLY"}) /\ groups # <<>>
  /\ seen' = [t \in DOMAIN seen |-> seen[t] \o Head(groups)[t]]
  /\ groups' = Tail(groups)
  /\ IF Refused(seen')
       THEN outcome' = "raised" /\ UNCHANGED <<snapshots, final>>
       ELSE /\ final' = ScanMarket(seen')
            /\ snapshots' = IF policy = "ALL" \/ snapshots = <<>> \/ Last(snapshots) # final'
                              THEN Append(snapshots, final') ELSE snapshots
            /\ outcome' = IF groups' = <<>> THEN "replayed" ELSE "running"
  /\ UNCHANGED <<inputs, required, policy, verify, mismatches>>
  /\ UNCHANGED kernelVars

GiveGroup ==
  /\ Running({"FINAL_ONLY"}) /\ groups # <<>>
  /\ BeginGroup(Head(groups))
  /\ groups' = Tail(groups)
  /\ UNCHANGED <<inputs, required, policy, verify, seen, snapshots, final, mismatches, outcome>>

GroupRaises ==
  /\ Running({"FINAL_ONLY"})
  /\ Raise
  /\ outcome' = "raised"
  /\ UNCHANGED <<inputs, required, policy, verify, groups, seen, snapshots, final, mismatches>>

FinalizeRun ==
  /\ Running({"FINAL_ONLY"}) /\ groups = <<>> /\ ~Empty(inputs)
  /\ FinalizeKernel
  /\ final' = returned'
  /\ snapshots' = <<final'>>
  /\ outcome' = "replayed"
  /\ UNCHANGED <<inputs, required, policy, verify, groups, seen, mismatches>>

\* Mutant: the setups are not compared.
CompareRecordsOnly(expected, actual) ==
  {f \in {"timeframes", "records"} : expected[f] # actual[f]}

\* The concepts and timeframes in which two analyses differ.  Not compared are the
\* symbol, the order of records and the overlap of POIs, functions of the rest.
Compare(expected, actual) ==
  {f \in {"timeframes", "records", "evidence"} : expected[f] # actual[f]}

\* scan_market over the inputs as they were given.
Verify ==
  /\ outcome = "replayed"
  /\ IF verify /\ Refused(inputs)
       THEN outcome' = "raised" /\ UNCHANGED mismatches
       ELSE /\ mismatches' = IF verify THEN Compare(ScanMarket(inputs), final) ELSE {}
            /\ outcome' = "done"
  /\ UNCHANGED <<inputs, required, policy, verify, groups, seen, snapshots, final>>
  /\ UNCHANGED kernelVars

Replay ==
  \/ ScanEmpty \/ GateRaises \/ ScanGroup
  \/ GiveGroup \/ GroupRaises \/ FinalizeRun \/ Verify

-----------------------------------------------------------------------------
\* A caller of its own gives any group again, or the next.
HolderAdvances ==
  /\ Running({"KERNEL"})
  /\ \E i \in 1..(count + 1) : i \in DOMAIN groups /\ BeginGroup(groups[i])
  /\ UNCHANGED runVars

HolderReads ==
  /\ Running({"KERNEL"})
  /\ EventLedger \/ FinalizeKernel \/ Raise
  /\ UNCHANGED runVars

KernelSteps == KernelStep /\ UNCHANGED runVars

Holder == HolderAdvances \/ HolderReads

RunNext == Replay \/ Holder \/ KernelSteps

RunSpec == InitRun /\ [][RunNext]_<<kernelVars, runVars>>

-----------------------------------------------------------------------------
\* Evidence that becomes visible after the last candle of its timeframe.
Late(t) == inputs[t] # <<>> /\ \E e \in Evidence : e.timeframe = t /\ e.available > Last(inputs[t]).available

\* What a completed replay returns is the scan of all the inputs at once, and
\* the comparison says so; only the kernel misses evidence that becomes visible
\* after the last candle of its timeframe, and the comparison says that too.
\* Every group has left a snapshot, the last of which is final, or there is one
\* (scanner/replay.py run_scanner_replay against scanner/analyzer.py
\* scan_market).
ReplayIsBatch ==
  outcome = "done" =>
    LET all == ScanMarket(inputs)
        differing == {t \in DOMAIN inputs : final.evidence[t] # all.evidence[t]}
    IN  /\ final.timeframes = all.timeframes /\ final.records = all.records
        /\ \A t \in differing : policy = "FINAL_ONLY" /\ Late(t)
        /\ verify => (mismatches = {} <=> final = all)
        /\ DOMAIN inputs # {} =>
             /\ Last(snapshots) = final
             /\ Len(snapshots) = IF policy = "FINAL_ONLY" THEN 1 ELSE Len(GroupsOf(inputs))
=============================================================================

------------------------- MODULE HistoricalBacktest -------------------------
(***************************************************************************)
(* A historical backtest from the command line to its exit code: cli.py    *)
(* and execution.py around DirectBatchWorker and HistoricalReport.  Final- *)
(* only runs take the worker's snapshot of each symbol; the others replay  *)
(* incrementally, under a gate before each group, and let the worker check *)
(* each final snapshot.  Nothing is published unless every symbol passed.  *)
(***************************************************************************)
EXTENDS DirectBatchWorker, HistoricalReport

CONSTANTS
  Symbols,       \* how many symbols the dataset has
  GroupCounts,   \* how many availability groups a symbol may have
  RetentionCap,  \* groups allowed with an unbounded retention policy
  Interrupts     \* whether the user may interrupt a verification

ASSUME BacktestAssumption ==
  Symbols \in Nat \ {0} /\ GroupCounts \subseteq Nat /\ RetentionCap \in Nat /\ Interrupts \in BOOLEAN

VARIABLES
  mode,     \* HistoricalExecutionMode
  groups,   \* availability groups of each symbol
  stage,    \* where main is
  at,       \* the symbol in work
  group,    \* groups replayed of that symbol
  equal,    \* symbols whose incremental snapshot is the oracle's
  passed,   \* symbols whose verification passed
  exit      \* exit code, "none" before

runVars == <<mode, groups, stage, at, group, equal, passed, exit>>
vars    == <<workerVars, reportVars, runVars>>

Batch == "batch_historical_final_only"

TypeOK ==
  /\ WorkerTypeOK /\ ReportTypeOK
  /\ mode \in {Batch, "incremental_streaming"}
  /\ stage \in {"load", "floor", "replay", "verify", "judge", "publish", "leave", "exited"}
  /\ at \in 1 .. Symbols /\ groups \in GroupCounts /\ group \in 0 .. groups
  /\ equal \subseteq 1 .. Symbols /\ passed \subseteq 1 .. Symbols
  /\ exit \in {"none", "0", "1", "3", "4", "5", "6", "7", "interrupted"}

Init ==
  /\ WorkerIdle /\ ReportIdle
  /\ mode \in {Batch, "incremental_streaming"}
  /\ groups \in GroupCounts
  /\ stage = "load" /\ at = 1 /\ group = 0 /\ equal = {} /\ passed = {} /\ exit = "none"

-----------------------------------------------------------------------------
Leave(code)  == stage' = "leave" /\ exit' = code
Stay         == UNCHANGED <<at, group, equal, passed, exit>>
OnlyTheRun   == UNCHANGED <<mode, groups, workerVars, reportVars>>

\* load_historical_dataset: a rejection, another failure, or the dataset.
Load ==
  /\ stage = "load"
  /\ \/ stage' = "floor" /\ UNCHANGED exit
     \/ \E code \in {"3", "1"} : Leave(code)
  /\ UNCHANGED <<at, group, equal, passed>> /\ OnlyTheRun

\* The host memory floor, then, before a replay, the retention cap.
CheckGates ==
  /\ stage = "floor"
  /\ \/ Leave("4")
     \/ mode = Batch /\ stage' = "verify" /\ UNCHANGED exit
     \/ mode # Batch /\ groups > RetentionCap /\ Leave("7")
     \/ mode # Batch /\ groups <= RetentionCap /\ stage' = "replay" /\ UNCHANGED exit
  /\ UNCHANGED <<at, group, equal, passed>> /\ OnlyTheRun

\* The gate is asked before each group; its deadline covers all symbols.
ReplayGroup ==
  /\ stage = "replay" /\ group < groups
  /\ \/ group' = group + 1 /\ UNCHANGED <<stage, exit>>
     \/ \E code \in {"4", "1"} : Leave(code) /\ UNCHANGED group
  /\ UNCHANGED <<at, equal, passed>> /\ OnlyTheRun

\* The final snapshot, equal to the oracle's or not, and its evaluation.
FinishReplay ==
  /\ stage = "replay" /\ group = groups
  /\ \/ /\ equal' \in {equal, equal \cup {at}}
        /\ IF at < Symbols THEN at' = at + 1 /\ UNCHANGED stage
                           ELSE at' = 1 /\ stage' = "verify"
        /\ group' = 0 /\ UNCHANGED exit
     \/ \E code \in {"5", "1"} : Leave(code) /\ UNCHANGED <<at, group, equal>>
  /\ UNCHANGED passed /\ OnlyTheRun

\* A verification runs its course; an exception of it ends the run.
Verify ==
  /\ stage = "verify" /\ (ParentStep \/ (Interrupts /\ Interrupt))
  /\ UNCHANGED <<runVars, reportVars>>

Background ==
  /\ (WorkerStep \/ Tick) /\ UNCHANGED <<runVars, reportVars>>

\* The outcome of the worker, and in a streaming run the comparison of snapshots.
JudgeFailure ==
  /\ stage = "verify" /\ parent = "returned" /\ status # "SUCCESS"
  /\ Leave(CASE status = "raised" -> "1" [] status = "interrupted" -> "interrupted" [] OTHER -> "4")
  /\ UNCHANGED <<at, group, equal, passed>> /\ OnlyTheRun

JudgeDifference ==
  /\ stage = "verify" /\ parent = "returned" /\ status = "SUCCESS"
  /\ mode # Batch /\ at \notin equal /\ Leave("4")
  /\ UNCHANGED <<at, group, equal, passed>> /\ OnlyTheRun

\* In a final-only run the snapshot is parsed and evaluated here.
JudgeUnusable ==
  /\ stage = "verify" /\ parent = "returned" /\ status = "SUCCESS" /\ mode = Batch
  /\ \E code \in {"5", "1"} : Leave(code)
  /\ UNCHANGED <<at, group, equal, passed>> /\ OnlyTheRun

\* Mutant: the comparison of the two snapshots is left out.
JudgeSuccessUncompared ==
  /\ stage = "verify" /\ parent = "returned" /\ status = "SUCCESS"
  /\ passed' = passed \cup {at}
  /\ IF at < Symbols THEN at' = at + 1 /\ UNCHANGED stage
                     ELSE stage' = "publish" /\ UNCHANGED at
  /\ ForgetWorker
  /\ UNCHANGED <<mode, groups, group, equal, exit, reportVars>>

JudgeSuccess ==
  /\ stage = "verify" /\ parent = "returned" /\ status = "SUCCESS"
  /\ (mode = Batch \/ at \in equal)
  /\ passed' = passed \cup {at}
  /\ IF at < Symbols THEN at' = at + 1 /\ UNCHANGED stage
                     ELSE stage' = "publish" /\ UNCHANGED at
  /\ ForgetWorker
  /\ UNCHANGED <<mode, groups, group, equal, exit, reportVars>>

Publish ==
  /\ stage = "publish" /\ outcome = "none" /\ ReportStep
  /\ UNCHANGED <<runVars, workerVars>>

\* Mutant: only a write error is told from success.
ReportExitSwallows ==
  /\ stage = "publish" /\ outcome # "none" /\ Leave(IF outcome = "write_error" THEN "6" ELSE "0")
  /\ UNCHANGED <<at, group, equal, passed>> /\ OnlyTheRun

\* _write_report_or_fail.
ReportExit ==
  /\ stage = "publish" /\ outcome # "none"
  /\ Leave(CASE outcome = "written" -> "0" [] outcome = "write_error" -> "6" [] OTHER -> "1")
  /\ UNCHANGED <<at, group, equal, passed>> /\ OnlyTheRun

\* The interpreter joins a worker it still has before it exits.
ExitProcess ==
  /\ stage = "leave" /\ ~ Alive /\ stage' = "exited" /\ Stay /\ OnlyTheRun

Main ==
  \/ Load \/ CheckGates \/ ReplayGroup \/ FinishReplay \/ Verify \/ JudgeFailure
  \/ JudgeDifference \/ JudgeUnusable \/ JudgeSuccess \/ Publish \/ ReportExit \/ ExitProcess

Next == Main \/ Background

\* The parent's process runs, time passes and the system delivers a kill; the
\* worker itself may hang anywhere and ignore a termination for ever.
Spec ==
  /\ Init /\ [][Next]_vars
  /\ WF_vars(Main)
  /\ WF_vars(Tick /\ UNCHANGED <<runVars, reportVars>>)
  /\ WF_vars(WorkerKilled /\ UNCHANGED <<runVars, reportVars>>)

-----------------------------------------------------------------------------
\* checksums.json appears only in a run each of whose symbols passed: its worker
\* succeeded, and in a streaming run the replay's snapshot was the worker's.
\* (_verify_and_publish, execute_scanner_backtest_batch_historical)
PublishedOnlyIfVerified ==
  directory \/ visible # {} =>
    passed = 1 .. Symbols /\ (mode # Batch => equal = 1 .. Symbols)

\* The exit code tells whether there is a report to read: success leaves the
\* complete report, a refused or failed run leaves no directory, and a report that
\* could not be written leaves no marker, and nothing that could be removed.
\* (main, _write_report_or_fail)
ExitCodeIsTrue ==
  /\ exit = "0" => "checksums" \in visible /\ Files \subseteq visible
  /\ exit \in {"3", "4", "5", "7"} => ~ directory
  /\ exit = "6" => "checksums" \notin visible /\ (directory => stuck)

\* A run comes to its exit whatever its worker does: a worker that hangs, or that
\* ignores its termination, delays it by no more than the timeout.  Only a user's
\* interrupt can leave the interpreter waiting for its worker.
\* (_spawn_and_monitor, _terminate_process)
RunEnds == <>(stage = "exited" \/ status = "interrupted")
=============================================================================

---------------------- MODULE HistoricalBacktestProofs ----------------------
(***************************************************************************)
(* The safety of a historical backtest for any number of symbols, groups   *)
(* and report files, any timeout and any retention cap.  The invariant has *)
(* a part for the worker, one for the report and one for the run that uses *)
(* both; each part is kept by the steps of its own, the last also by the   *)
(* other two.                                                              *)
(***************************************************************************)
EXTENDS HistoricalBacktest, TLAPS

-----------------------------------------------------------------------------
(* The worker.                                                             *)

\* Before the spawn there is no worker; a verdict is given of a worker that is
\* gone, and a signal only to one that has been judged already.
WorkerInv ==
  /\ WorkerTypeOK
  /\ parent \in {"idle", "temp", "spawn"} => worker = "none"
  /\ exitcode # "none" => worker = "gone"
  /\ parent \in {"terminate", "grace", "kill"} => status \notin {"none", "SUCCESS"}
  /\ parent \in {"idle", "temp", "spawn", "poll", "sample", "wait", "classify"} =>
       status = "none" /\ signal = "none"
  /\ parent = "reap" => status # "SUCCESS" /\ (status = "none" => signal = "none")
  /\ parent \in {"classify", "preserve"} => ~ Alive /\ status # "SUCCESS"
  /\ parent \in {"clean", "returned"} /\ status # "interrupted" => ~ Alive
  /\ status = "SUCCESS" =>
       worker = "gone" /\ exitcode = "0" /\ response = "snapshot" /\ signal = "none"

LEMMA WorkerInitial == WorkerIdle => WorkerInv
BY TimeoutAssumption DEF WorkerIdle, WorkerInv, WorkerTypeOK, Alive

LEMMA WorkerForgotten == ForgetWorker => WorkerInv'
BY TimeoutAssumption DEF ForgetWorker, WorkerInv, WorkerTypeOK, Alive

LEMMA WorkerUnchanged == WorkerInv /\ UNCHANGED workerVars => WorkerInv'
BY DEF workerVars, WorkerInv, WorkerTypeOK, Alive

\* What the worker does by itself, and what is done to it.
LEMMA WorkerKeeps == WorkerInv /\ (WorkerStep \/ Tick) => WorkerInv'
<1> USE DEF WorkerInv, WorkerTypeOK, Alive, Statuses
<1> SUFFICES ASSUME WorkerInv, WorkerStep \/ Tick PROVE WorkerInv'
  OBVIOUS
<1>1. CASE WorkerOpens
  BY <1>1, ZenonT(60) DEF WorkerOpens, Exit
<1>2. CASE WorkerReads
  BY <1>2 DEF WorkerReads, Exit
<1>3. CASE WorkerScans
  BY <1>3, ZenonT(60) DEF WorkerScans, Exit
<1>4. CASE WorkerReplaces
  BY <1>4, ZenonT(60) DEF WorkerReplaces, Exit
<1>5. CASE WorkerCloses
  BY <1>5 DEF WorkerCloses, Exit
<1>6. CASE WorkerStopped
  BY <1>6 DEF WorkerStopped, Exit
<1>7. CASE Tick
  BY <1>7, TimeoutAssumption DEF Tick
<1> QED BY <1>1, <1>2, <1>3, <1>4, <1>5, <1>6, <1>7 DEF WorkerStep

\* What its parent does.
LEMMA ParentKeeps == WorkerInv /\ (ParentStep \/ Interrupt) => WorkerInv'
<1> USE DEF WorkerInv, WorkerTypeOK, Alive, Statuses, Goto
<1> SUFFICES ASSUME WorkerInv, ParentStep \/ Interrupt PROVE WorkerInv'
  OBVIOUS
<1>1. CASE MakeTemporaryDirectory
  BY <1>1 DEF MakeTemporaryDirectory
<1>2. CASE WriteRequest
  BY <1>2 DEF WriteRequest, Raise
<1>3. CASE Spawn
  BY <1>3 DEF Spawn, Raise
<1>4. CASE Poll
  BY <1>4 DEF Poll
<1>5. CASE Sample
  BY <1>5 DEF Sample
<1>6. CASE Wait
  BY <1>6 DEF Wait
<1>7. CASE Terminate
  BY <1>7 DEF Terminate
<1>8. CASE Grace
  BY <1>8 DEF Grace
<1>9. CASE Kill
  BY <1>9 DEF Kill
<1>10. CASE Reap
  BY <1>10 DEF Reap
<1>11. CASE Classify
  BY <1>11 DEF Classify, Verdict
<1>12. CASE Preserve
  BY <1>12 DEF Preserve, Raise
<1>13. CASE Clean
  BY <1>13, ZenonT(60) DEF Clean
<1>14. CASE Interrupt
  BY <1>14 DEF Interrupt
<1> QED BY <1>1, <1>2, <1>3, <1>4, <1>5, <1>6, <1>7, <1>8, <1>9, <1>10, <1>11, <1>12,
           <1>13, <1>14 DEF ParentStep

-----------------------------------------------------------------------------
(* The report.                                                             *)

\* Under their final names are exactly the files that are written, and the
\* current one between its rename and its hash; unless the last one failed, a
\* directory sync has followed all of them but that one.  checksums.json comes when every file is listed.
ReportInv ==
  /\ ReportTypeOK
  /\ writer = "idle" =>
       /\ written = 0 /\ visible = {} /\ listed = {} /\ durable = {}
       /\ ~ directory /\ ~ temporary /\ ~ stuck
  /\ writer \in {"temporary", "rename", "collect", "cleanup"} => visible = WrittenFiles
  /\ writer \in {"sync", "hash"} => visible = WrittenFiles \cup {Current}
  /\ writer = "collect" => written = Len(Ordinary)
  /\ writer \in {"temporary", "rename", "collect", "cleanup", "hash"} /\ ~ unsynced =>
       durable = visible
  /\ writer = "sync" /\ ~ unsynced => WrittenFiles \subseteq durable
  /\ writer \in {"temporary", "rename", "sync", "hash"} /\ written = Len(Ordinary) => listed = Files
  /\ writer = "over" => MarkerIsLast
  /\ writer = "over" <=> outcome # "none"
  /\ outcome = "written" => "checksums" \in visible
  /\ outcome = "write_error" => "checksums" \notin visible /\ (directory => stuck)

\* The files that are written are files of the report, all of them in the end.
LEMMA WrittenFacts ==
  ASSUME written \in 0 .. Len(Ordinary)
  PROVE  /\ Len(Ordinary) \in Nat
         /\ WrittenFiles \subseteq Files /\ "checksums" \notin Files
         /\ written = Len(Ordinary) => WrittenFiles = Files
         /\ written = 0 => WrittenFiles = {}
         /\ Current \in Files \cup {"checksums"}
         /\ Current = "checksums" <=> written = Len(Ordinary)
<1>1. Len(Ordinary) \in Nat /\ \A i \in 1 .. Len(Ordinary) : Ordinary[i] # "checksums"
  BY ReportAssumption
<1>2. written # Len(Ordinary) => written + 1 \in 1 .. Len(Ordinary)
  BY <1>1
<1>3. \A i \in 1 .. written : i \in 1 .. Len(Ordinary)
  BY <1>1
<1>4. WrittenFiles \subseteq Files /\ "checksums" \notin Files
  BY <1>1, <1>3 DEF WrittenFiles, Files
<1>5. written = Len(Ordinary) => WrittenFiles = Files
  BY DEF WrittenFiles, Files
<1>6. written = 0 => WrittenFiles = {}
  BY DEF WrittenFiles
<1>7. Current \in Files \cup {"checksums"}
  BY <1>2 DEF Current, Files
<1>8. Current = "checksums" <=> written = Len(Ordinary)
  BY <1>1, <1>2 DEF Current
<1> QED BY <1>1, <1>4, <1>5, <1>6, <1>7, <1>8

\* One file more is written: the current one.
LEMMA WrittenGrows ==
  ASSUME written \in 0 .. Len(Ordinary), written # Len(Ordinary), written' = written + 1
  PROVE  WrittenFiles' = WrittenFiles \cup {Current} /\ written' \in 0 .. Len(Ordinary)
<1>1. Len(Ordinary) \in Nat
  BY ReportAssumption
<1>2. 1 .. written' = (1 .. written) \cup {written + 1} /\ written' \in 0 .. Len(Ordinary)
  BY <1>1
<1> QED BY <1>2 DEF WrittenFiles, Current

LEMMA ReportInitial == ReportIdle => ReportInv
<1> SUFFICES ASSUME ReportIdle PROVE ReportInv
  OBVIOUS
<1>1. Len(Ordinary) \in Nat /\ written \in 0 .. Len(Ordinary)
  BY ReportAssumption DEF ReportIdle
<1> QED BY <1>1 DEF ReportIdle, ReportInv, ReportTypeOK

LEMMA ReportUnchanged == ReportInv /\ UNCHANGED reportVars => ReportInv'
BY DEF reportVars, ReportInv, ReportTypeOK, MarkerIsLast, WrittenFiles, Current

LEMMA ReportKeeps == ReportInv /\ ReportStep => ReportInv'
<1> SUFFICES ASSUME ReportInv, ReportStep PROVE ReportInv'
  OBVIOUS
<1>1. written \in 0 .. Len(Ordinary)
  BY DEF ReportInv, ReportTypeOK
<1>2. /\ Len(Ordinary) \in Nat
      /\ WrittenFiles \subseteq Files /\ "checksums" \notin Files
      /\ written = Len(Ordinary) => WrittenFiles = Files
      /\ written = 0 => WrittenFiles = {}
      /\ Current \in Files \cup {"checksums"}
      /\ Current = "checksums" <=> written = Len(Ordinary)
  BY <1>1, WrittenFacts
<1>3. UNCHANGED written => UNCHANGED <<WrittenFiles, Current>>
  BY DEF WrittenFiles, Current
<1> USE DEF ReportInv, ReportTypeOK, MarkerIsLast, Over
<1>4. CASE MakeDirectory
  <2>1. UNCHANGED <<written, WrittenFiles>> /\ written = 0 /\ WrittenFiles = {}
    BY <1>2, <1>3, <1>4 DEF MakeDirectory
  <2>2. CASE Over("write_error") /\ UNCHANGED directory
    BY <1>2, <1>4, <2>1, <2>2 DEF MakeDirectory
  <2>3. CASE directory' = TRUE /\ writer' = "temporary" /\ UNCHANGED outcome
    BY <1>2, <1>4, <2>1, <2>3 DEF MakeDirectory
  <2> QED BY <1>4, <2>2, <2>3 DEF MakeDirectory
<1>5. CASE WriteTemporary
  BY <1>2, <1>3, <1>5 DEF WriteTemporary, FailWrite
<1>6. CASE Rename
  BY <1>2, <1>3, <1>6 DEF Rename, FailWrite
<1>7. CASE SyncDirectory
  BY <1>2, <1>3, <1>7 DEF SyncDirectory
<1>8. CASE ReadBack
  <2>1. CASE Over("unexpected") /\ UNCHANGED written
    BY <1>2, <1>3, <1>8, <2>1 DEF ReadBack
  <2>2. CASE Current # "checksums" /\ written' = written + 1
    <3>1. WrittenFiles' = WrittenFiles \cup {Current} /\ written' \in 0 .. Len(Ordinary)
      BY <1>1, <1>2, <2>2, WrittenGrows
    <3> QED BY <1>1, <1>2, <1>8, <2>2, <3>1 DEF ReadBack
  <2>3. CASE Current = "checksums" /\ Over("written") /\ UNCHANGED written
    BY <1>2, <1>3, <1>8, <2>3 DEF ReadBack
  <2> QED BY <1>8, <2>1, <2>2, <2>3 DEF ReadBack
<1>9. CASE CollectChecksums
  BY <1>2, <1>3, <1>9 DEF CollectChecksums
<1>10. CASE CleanUp
  BY <1>2, <1>3, <1>10 DEF CleanUp
<1> QED BY <1>4, <1>5, <1>6, <1>7, <1>8, <1>9, <1>10 DEF ReportStep

\* The marker stands last in every state, not only when the call is over.
LEMMA InvGivesMarker == ReportInv => MarkerIsLast
<1> SUFFICES ASSUME ReportInv PROVE MarkerIsLast
  OBVIOUS
<1>1. written \in 0 .. Len(Ordinary)
  BY DEF ReportInv, ReportTypeOK
<1> QED BY <1>1, WrittenFacts DEF ReportInv, ReportTypeOK, MarkerIsLast

-----------------------------------------------------------------------------
(* The run.                                                                *)

\* The symbols before the one in work have passed, and a report is begun only
\* when all have.
RunInv ==
  /\ WorkerInv /\ ReportInv /\ TypeOK
  /\ stage \in {"load", "floor"} => at = 1 /\ group = 0
  /\ stage \in {"load", "floor", "replay"} => passed = {}
  /\ stage = "verify" => passed = 1 .. (at - 1)
  /\ stage = "publish" => passed = 1 .. Symbols
  /\ mode # Batch => passed \subseteq equal
  /\ stage \notin {"publish", "leave", "exited"} => writer = "idle"
  /\ writer # "idle" => passed = 1 .. Symbols /\ (mode # Batch => equal = 1 .. Symbols)
  /\ stage \notin {"leave", "exited"} => exit = "none"
  /\ exit = "0" => outcome = "written"
  /\ exit = "6" => outcome = "write_error"
  /\ exit \in {"3", "4", "5", "7"} => writer = "idle"

LEMMA RunInitial == Init => RunInv
<1> SUFFICES ASSUME Init PROVE RunInv
  OBVIOUS
<1>1. WorkerInv /\ ReportInv
  BY WorkerInitial, ReportInitial DEF Init
<1> QED BY <1>1, BacktestAssumption
        DEF Init, ReportIdle, RunInv, TypeOK, WorkerInv, ReportInv, Batch

\* The steps of main that touch neither worker nor report.
LEMMA MainKeeps ==
  ASSUME RunInv, Load \/ CheckGates \/ ReplayGroup \/ FinishReplay \/ JudgeFailure
                   \/ JudgeDifference \/ JudgeUnusable \/ ReportExit \/ ExitProcess
  PROVE  RunInv'
<1>1. UNCHANGED <<mode, groups, workerVars, reportVars>>
  BY DEF Load, CheckGates, ReplayGroup, FinishReplay, JudgeFailure, JudgeDifference,
         JudgeUnusable, ReportExit, ExitProcess, OnlyTheRun
<1>2. WorkerInv' /\ ReportInv' /\ WorkerTypeOK' /\ ReportTypeOK'
  BY <1>1, WorkerUnchanged, ReportUnchanged DEF RunInv, WorkerInv, ReportInv
<1>3. UNCHANGED <<mode, groups, writer, outcome>>
  BY <1>1 DEF reportVars
<1>4. Symbols \in Nat \ {0} /\ groups \in Nat
  BY BacktestAssumption DEF RunInv, TypeOK
<1> USE <1>2, <1>3, <1>4 DEF RunInv, TypeOK, Leave, Stay
<1>5. CASE Load
  BY <1>5 DEF Load
<1>6. CASE CheckGates
  BY <1>6 DEF CheckGates
<1>7. CASE ReplayGroup
  BY <1>7 DEF ReplayGroup
<1>8. CASE FinishReplay
  <2>1. passed' = {} /\ stage = "replay" /\ 1 .. (1 - 1) = {}
    BY <1>8 DEF FinishReplay
  <2>2. at' \in 1 .. Symbols /\ equal' \subseteq 1 .. Symbols /\ group' \in 0 .. groups
    <3>1. at \in 1 .. Symbols /\ equal \subseteq 1 .. Symbols /\ group \in 0 .. groups
      OBVIOUS
    <3>2. at' \in {at, at + 1, 1} /\ (at' = at + 1 => at < Symbols)
      BY <1>8, <3>1 DEF FinishReplay
    <3>3. equal' \in {equal, equal \cup {at}} /\ group' \in {group, 0}
      BY <1>8 DEF FinishReplay
    <3> QED BY <3>1, <3>2, <3>3
  <2>3. CASE stage' = "replay" /\ UNCHANGED exit
    BY <2>1, <2>2, <2>3
  <2>4. CASE stage' = "verify" /\ at' = 1 /\ UNCHANGED exit
    BY <2>1, <2>2, <2>4
  <2>5. CASE stage' = "leave" /\ exit' \in {"5", "1"}
    BY <2>1, <2>2, <2>5
  <2> QED BY <1>8, <2>3, <2>4, <2>5 DEF FinishReplay
<1>9. CASE JudgeFailure
  BY <1>9 DEF JudgeFailure
<1>10. CASE JudgeDifference
  BY <1>10 DEF JudgeDifference
<1>11. CASE JudgeUnusable
  BY <1>11 DEF JudgeUnusable
<1>12. CASE ReportExit
  <2>1. /\ exit' \in {"0", "6", "1"} /\ stage' = "leave" /\ UNCHANGED <<at, group, equal, passed>>
        /\ exit' = "0" => outcome = "written"
        /\ exit' = "6" => outcome = "write_error"
    BY <1>12 DEF ReportExit
  <2> QED BY <2>1
<1>13. CASE ExitProcess
  BY <1>13 DEF ExitProcess
<1> QED BY <1>5, <1>6, <1>7, <1>8, <1>9, <1>10, <1>11, <1>12, <1>13

LEMMA JudgeKeeps == ASSUME RunInv, JudgeSuccess PROVE RunInv'
<1>1. UNCHANGED <<mode, groups, group, equal, exit, reportVars>> /\ ForgetWorker
  BY DEF JudgeSuccess
<1>2. WorkerInv' /\ ReportInv' /\ WorkerTypeOK' /\ ReportTypeOK'
  BY <1>1, WorkerForgotten, ReportUnchanged DEF RunInv, WorkerInv, ReportInv
<1>3. UNCHANGED <<mode, groups, group, equal, exit, writer, outcome>>
  BY <1>1 DEF reportVars
<1>4. Symbols \in Nat \ {0} /\ at \in 1 .. Symbols /\ passed = 1 .. (at - 1)
  BY BacktestAssumption DEF RunInv, TypeOK, JudgeSuccess
<1>5. passed' = 1 .. at
  BY <1>4 DEF JudgeSuccess
<1>6. mode # Batch => passed' \subseteq equal
  BY DEF RunInv, JudgeSuccess
<1>7. CASE at < Symbols /\ at' = at + 1 /\ UNCHANGED stage
  BY <1>2, <1>3, <1>4, <1>5, <1>6, <1>7 DEF JudgeSuccess, RunInv, TypeOK
<1>8. CASE at = Symbols /\ stage' = "publish" /\ UNCHANGED at
  BY <1>2, <1>3, <1>4, <1>5, <1>6, <1>8 DEF JudgeSuccess, RunInv, TypeOK
<1> QED BY <1>4, <1>7, <1>8 DEF JudgeSuccess

\* The steps of the worker and its parent, and of the report.
LEMMA PartsKeep == ASSUME RunInv, Verify \/ Background \/ Publish PROVE RunInv'
<1>1. UNCHANGED runVars
  BY DEF Verify, Background, Publish
<1>2. CASE Verify \/ Background
  <2>1. WorkerInv' /\ ReportInv' /\ UNCHANGED reportVars
    BY <1>2, WorkerKeeps, ParentKeeps, ReportUnchanged DEF RunInv, Verify, Background
  <2> QED BY <1>1, <2>1
          DEF runVars, reportVars, RunInv, TypeOK, WorkerInv, ReportInv
<1>3. CASE Publish
  <2>1. WorkerInv' /\ ReportInv'
    BY <1>3, ReportKeeps, WorkerUnchanged DEF RunInv, Publish
  <2>2. stage = "publish" /\ exit = "none"
    BY <1>3 DEF RunInv, Publish
  <2>3. mode # Batch => equal = 1 .. Symbols
    BY <2>2 DEF RunInv, TypeOK
  <2> QED BY <1>1, <2>1, <2>2, <2>3 DEF runVars, RunInv, TypeOK, WorkerInv, ReportInv
<1> QED BY <1>2, <1>3

LEMMA RunKeeps == RunInv /\ [Next]_vars => RunInv'
<1> SUFFICES ASSUME RunInv, [Next]_vars PROVE RunInv'
  OBVIOUS
<1>1. CASE UNCHANGED vars
  <2>1. UNCHANGED <<workerVars, reportVars, runVars>>
    BY <1>1 DEF vars
  <2>2. WorkerInv' /\ ReportInv'
    BY <2>1, WorkerUnchanged, ReportUnchanged DEF RunInv
  <2> QED BY <2>1, <2>2
          DEF runVars, reportVars, RunInv, TypeOK, WorkerInv, ReportInv
<1>2. CASE Main
  BY <1>2, MainKeeps, JudgeKeeps, PartsKeep DEF Main
<1>3. CASE Background
  BY <1>3, PartsKeep
<1> QED BY <1>1, <1>2, <1>3 DEF Next

LEMMA RunInvariant == Spec => []RunInv
<1> QED BY RunInitial, RunKeeps, PTL DEF Spec

-----------------------------------------------------------------------------
\* Worker, report and run stay in their states, whatever fails (TypeOK).
THEOREM TypeCorrect == Spec => []TypeOK
<1>1. RunInv => TypeOK
  BY DEF RunInv
<1> QED BY <1>1, RunInvariant, PTL

\* A verification never succeeds on a worker that was stopped, that failed, or
\* whose response is not the snapshot it computed (_classify_completed_worker).
THEOREM SuccessTrustworthy == Spec => []SuccessIsTrustworthy
<1>1. RunInv => SuccessIsTrustworthy
  BY DEF RunInv, WorkerInv, SuccessIsTrustworthy
<1> QED BY <1>1, RunInvariant, PTL

\* No worker outlives a verification that was not interrupted, whatever the
\* worker ignores (_terminate_process, _run_isolated_direct_batch_verification).
THEOREM NoWorkerSurvives == Spec => []NoWorkerLeft
<1>1. RunInv => NoWorkerLeft
  BY DEF RunInv, WorkerInv, NoWorkerLeft
<1> QED BY <1>1, RunInvariant, PTL

\* However many files a report has, its marker is there only when they all are,
\* also after a power failure unless the last directory sync failed
\* (write_backtest_report).
THEOREM MarkerLast == Spec => []MarkerIsLast
<1>1. RunInv => MarkerIsLast
  BY InvGivesMarker DEF RunInv
<1> QED BY <1>1, RunInvariant, PTL

\* However many symbols, nothing is published unless all of them passed
\* (_verify_and_publish).
THEOREM PublishedVerified == Spec => []PublishedOnlyIfVerified
<1>1. RunInv => PublishedOnlyIfVerified
  BY DEF RunInv, ReportInv, PublishedOnlyIfVerified
<1> QED BY <1>1, RunInvariant, PTL

\* The exit code agrees with what is on the disk (main, _write_report_or_fail).
THEOREM ExitCodeTrue == Spec => []ExitCodeIsTrue
<1>1. ASSUME RunInv PROVE ExitCodeIsTrue
  BY <1>1, InvGivesMarker DEF RunInv, ReportInv, MarkerIsLast, ExitCodeIsTrue
<1> QED BY <1>1, RunInvariant, PTL
=============================================================================

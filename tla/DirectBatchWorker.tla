------------------------- MODULE DirectBatchWorker -------------------------
(***************************************************************************)
(* One isolated verification of historical_backtest/direct_batch_worker.py *)
(* at a time: the parent that spawns, watches, stops and judges a worker   *)
(* process (_run_isolated_direct_batch_verification), and the worker that  *)
(* reads a request, runs the scanner and publishes a response file.  The   *)
(* two share a temporary directory, the worker's exit code and signals.    *)
(* A step of the parent is one call between which the worker may move.     *)
(***************************************************************************)
EXTENDS Naturals

CONSTANT Timeout   \* the wall-clock ceiling, in ticks

ASSUME TimeoutAssumption == Timeout \in Nat \ {0}

VARIABLES
  parent,    \* where the parent is in the verification
  status,    \* terminal or final status, "raised" when an exception leaves the call
  clock,     \* time since the worker was started
  worker,    \* where the worker is
  exitcode,  \* of the worker, "none" while there is none
  signal,    \* the strongest signal sent to the worker
  files,     \* what the temporary directory holds, {} when it does not exist
  response   \* content of the response file: the oracle's snapshot or a damaged one

workerVars == <<parent, status, clock, worker, exitcode, signal, files, response>>

Statuses == {"SUCCESS", "TIMEOUT", "MEMORY_CEILING_EXCEEDED", "CRASHED", "CORRUPTED"}
Alive    == worker \notin {"none", "gone"}

WorkerTypeOK ==
  /\ parent \in {"idle", "temp", "spawn", "poll", "sample", "wait", "terminate", "grace",
                 "kill", "reap", "classify", "preserve", "clean", "returned"}
  /\ status \in Statuses \cup {"none", "raised", "interrupted"}
  /\ clock \in 0 .. Timeout
  /\ worker \in {"none", "opening", "reading", "scanning", "replacing", "closing", "gone"}
  /\ exitcode \in {"none", "0", "1", "2", "signal"}
  /\ signal \in {"none", "term", "kill"}
  /\ files \subseteq {"directory", "request", "log", "partial", "response"}
  /\ response \in {"none", "snapshot", "damaged"}

WorkerIdle ==
  /\ parent = "idle" /\ status = "none" /\ clock = 0 /\ worker = "none"
  /\ exitcode = "none" /\ signal = "none" /\ files = {} /\ response = "none"

-----------------------------------------------------------------------------
(* The worker: _direct_batch_worker_entrypoint.  Every step may fail with  *)
(* an exception, which multiprocessing reports as exit code 1.             *)
Exit(code) == worker' = "gone" /\ exitcode' = code

WorkerOpens ==
  /\ worker = "opening"
  /\ \/ "directory" \in files /\ worker' = "reading" /\ files' = files \cup {"log"} /\ UNCHANGED exitcode
     \/ Exit("1") /\ UNCHANGED files
  /\ UNCHANGED <<parent, status, clock, signal, response>>

WorkerReads ==
  /\ worker = "reading"
  /\ \/ "request" \in files /\ worker' = "scanning" /\ UNCHANGED exitcode
     \/ Exit("2")
  /\ UNCHANGED <<parent, status, clock, signal, files, response>>

\* scan_market, then the partial file; scan_market may also never return.
WorkerScans ==
  /\ worker = "scanning"
  /\ \/ "directory" \in files /\ worker' = "replacing" /\ files' = files \cup {"partial"} /\ UNCHANGED exitcode
     \/ Exit("1") /\ UNCHANGED files
  /\ UNCHANGED <<parent, status, clock, signal, response>>

\* The rename, and whatever damages the file afterwards.
WorkerReplaces ==
  /\ worker = "replacing"
  /\ \/ /\ "partial" \in files
        /\ worker' = "closing" /\ files' = (files \ {"partial"}) \cup {"response"}
        /\ response' \in {"snapshot", "damaged"} /\ UNCHANGED exitcode
     \/ Exit("1") /\ UNCHANGED <<files, response>>
  /\ UNCHANGED <<parent, status, clock, signal>>

WorkerCloses ==
  /\ worker = "closing" /\ (Exit("0") \/ Exit("1"))
  /\ UNCHANGED <<parent, status, clock, signal, files, response>>

\* A termination may be ignored, a kill is not.
WorkerStopped ==
  /\ Alive /\ signal # "none" /\ Exit("signal")
  /\ UNCHANGED <<parent, status, clock, signal, files, response>>

WorkerKilled == signal = "kill" /\ WorkerStopped

Tick ==
  /\ Alive /\ clock < Timeout /\ clock' = clock + 1
  /\ UNCHANGED <<parent, status, worker, exitcode, signal, files, response>>

-----------------------------------------------------------------------------
(* The parent.                                                             *)
Goto(p) == parent' = p
Raise   == Goto("clean") /\ status' = "raised"

\* mkdtemp is outside of the try statement: there is nothing to clean yet.
MakeTemporaryDirectory ==
  /\ parent = "idle"
  /\ \/ Goto("temp") /\ files' = {"directory"} /\ UNCHANGED status
     \/ Goto("returned") /\ status' = "raised" /\ UNCHANGED files
  /\ UNCHANGED <<clock, worker, exitcode, signal, response>>

WriteRequest ==
  /\ parent = "temp"
  /\ \/ Goto("spawn") /\ files' = files \cup {"request"} /\ UNCHANGED status
     \/ Raise /\ UNCHANGED files
  /\ UNCHANGED <<clock, worker, exitcode, signal, response>>

Spawn ==
  /\ parent = "spawn"
  /\ \/ Goto("poll") /\ worker' = "opening" /\ UNCHANGED status
     \/ Raise /\ UNCHANGED worker
  /\ UNCHANGED <<clock, exitcode, signal, files, response>>

Poll ==
  /\ parent = "poll" /\ Goto(IF Alive THEN "sample" ELSE "reap")
  /\ UNCHANGED <<status, clock, worker, exitcode, signal, files, response>>

\* Mutant: the time is asked only while the working set can be read.
SampleReadableOnly ==
  /\ parent = "sample"
  /\ \E reading \in {"unreadable", "below", "above"} :
       \/ reading = "above" /\ status' = "MEMORY_CEILING_EXCEEDED" /\ Goto("terminate")
       \/ reading = "below" /\ clock >= Timeout /\ status' = "TIMEOUT" /\ Goto("terminate")
       \/ (reading = "unreadable" \/ clock < Timeout) /\ reading # "above" /\ UNCHANGED status /\ Goto("wait")
  /\ UNCHANGED <<clock, worker, exitcode, signal, files, response>>

\* The working set, which may be unreadable, is judged before the time.
Sample ==
  /\ parent = "sample"
  /\ \E reading \in {"unreadable", "below", "above"} :
       \/ reading = "above" /\ status' = "MEMORY_CEILING_EXCEEDED" /\ Goto("terminate")
       \/ reading # "above" /\ clock >= Timeout /\ status' = "TIMEOUT" /\ Goto("terminate")
       \/ reading # "above" /\ clock < Timeout /\ UNCHANGED status /\ Goto("wait")
  /\ UNCHANGED <<clock, worker, exitcode, signal, files, response>>

\* join(timeout=...) returns when the worker is gone or the interval is over.
Wait ==
  /\ parent = "wait" /\ Goto("poll")
  /\ UNCHANGED <<status, clock, worker, exitcode, signal, files, response>>

Terminate ==
  /\ parent = "terminate" /\ signal' = "term" /\ Goto("grace")
  /\ UNCHANGED <<status, clock, worker, exitcode, files, response>>

Grace ==
  /\ parent = "grace" /\ Goto(IF Alive THEN "kill" ELSE "reap")
  /\ UNCHANGED <<status, clock, worker, exitcode, signal, files, response>>

Kill ==
  /\ parent = "kill" /\ signal' = "kill" /\ Goto("reap")
  /\ UNCHANGED <<status, clock, worker, exitcode, files, response>>

\* Mutant: a stopped worker is classified like one that exited.
ReapForgetsStatus ==
  /\ parent = "reap" /\ ~ Alive /\ Goto("classify")
  /\ UNCHANGED <<status, clock, worker, exitcode, signal, files, response>>

\* Mutant: the last join has a timeout as well.
ReapImpatient ==
  /\ parent = "reap" /\ Goto(IF status = "none" THEN "classify" ELSE "preserve")
  /\ UNCHANGED <<status, clock, worker, exitcode, signal, files, response>>

\* The last join has no timeout.
Reap ==
  /\ parent = "reap" /\ ~ Alive
  /\ Goto(IF status = "none" THEN "classify" ELSE "preserve")
  /\ UNCHANGED <<status, clock, worker, exitcode, signal, files, response>>

\* _classify_completed_worker: the checksum tells a snapshot from a damaged file.
Verdict ==
  IF exitcode # "0" THEN "CRASHED"
  ELSE IF response = "snapshot" THEN "SUCCESS" ELSE "CORRUPTED"

Classify ==
  /\ parent = "classify" /\ status' = Verdict
  /\ Goto(IF Verdict = "SUCCESS" THEN "clean" ELSE "preserve")
  /\ UNCHANGED <<clock, worker, exitcode, signal, files, response>>

\* _preserve_log copies the log out, if there is one.
Preserve ==
  /\ parent = "preserve"
  /\ \/ Goto("clean") /\ UNCHANGED status
     \/ "log" \in files /\ Raise
  /\ UNCHANGED <<clock, worker, exitcode, signal, files, response>>

\* rmtree ignores errors: whatever it cannot remove stays, whether a worker is
\* still writing or not, and with it the directory.
Clean ==
  /\ parent = "clean" /\ Goto("returned")
  /\ \E kept \in SUBSET files : (kept # {} => "directory" \in kept) /\ files' = kept
  /\ UNCHANGED <<status, clock, worker, exitcode, signal, response>>

\* KeyboardInterrupt inside the try statement.
Interrupt ==
  /\ parent \notin {"idle", "clean", "returned"}
  /\ Goto("clean") /\ status' = "interrupted"
  /\ UNCHANGED <<clock, worker, exitcode, signal, files, response>>

ParentStep ==
  \/ MakeTemporaryDirectory \/ WriteRequest \/ Spawn \/ Poll \/ Sample \/ Wait
  \/ Terminate \/ Grace \/ Kill \/ Reap \/ Classify \/ Preserve \/ Clean

WorkerStep ==
  \/ WorkerOpens \/ WorkerReads \/ WorkerScans \/ WorkerReplaces \/ WorkerCloses
  \/ WorkerStopped

\* The next symbol starts a verification of its own, in a directory of its own.
ForgetWorker ==
  /\ parent' = "idle" /\ status' = "none" /\ clock' = 0 /\ worker' = "none"
  /\ exitcode' = "none" /\ signal' = "none" /\ files' = {} /\ response' = "none"

-----------------------------------------------------------------------------
\* A verification that succeeded was ended by the worker itself, of which the
\* parent read exactly the oracle's snapshot; whatever the worker left behind
\* when it was stopped, or damaged, is never taken for one.
\* (_classify_completed_worker, _report_publication_permitted)
SuccessIsTrustworthy ==
  status = "SUCCESS" => exitcode = "0" /\ response = "snapshot" /\ signal = "none"

\* When the call has returned the worker is gone, so that nothing is written to
\* the temporary directory after it was removed: neither a late start nor a
\* worker that ignores the termination survives its parent's judgement.  An
\* interrupt is the exception, and files that cannot be removed stay.
\* (_terminate_process, the finally of _run_isolated_direct_batch_verification)
NoWorkerLeft ==
  parent = "returned" /\ status # "interrupted" => ~ Alive
=============================================================================

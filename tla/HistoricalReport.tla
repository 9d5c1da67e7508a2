-------------------------- MODULE HistoricalReport --------------------------
(***************************************************************************)
(* write_backtest_report of historical_backtest/reporting.py: a directory, *)
(* the ordinary files one after the other, each by a temporary sibling and *)
(* a rename, and checksums.json last, which alone says that the report is  *)
(* complete.  A crash may come between any two steps, a power failure may  *)
(* undo the renames no directory sync has made durable.                    *)
(***************************************************************************)
EXTENDS Naturals, Sequences

CONSTANT Ordinary   \* the ordinary files, in the order they are written

ASSUME ReportAssumption ==
  /\ Ordinary \in Seq(STRING)
  /\ \A i \in 1 .. Len(Ordinary) : Ordinary[i] # "checksums"

VARIABLES
  writer,     \* where the writer is
  written,    \* how many files are written and hashed: written_file_paths
  directory,  \* the execution directory exists
  temporary,  \* a temporary sibling exists
  visible,    \* files under their final names
  durable,    \* those whose rename a directory sync followed
  unsynced,   \* the last directory sync failed
  listed,     \* the files checksums.json lists
  stuck,      \* a file or the directory could not be removed
  outcome     \* "written", "write_error" or "unexpected" once the call is over

reportVars == <<writer, written, directory, temporary, visible, durable, unsynced, listed, stuck, outcome>>

Files     == {Ordinary[i] : i \in 1 .. Len(Ordinary)}
Current   == IF written = Len(Ordinary) THEN "checksums" ELSE Ordinary[written + 1]
WrittenFiles == {Ordinary[i] : i \in 1 .. written}

ReportTypeOK ==
  /\ writer \in {"idle", "temporary", "rename", "sync", "hash", "collect", "cleanup", "over"}
  /\ written \in 0 .. Len(Ordinary)
  /\ directory \in BOOLEAN /\ temporary \in BOOLEAN /\ stuck \in BOOLEAN /\ unsynced \in BOOLEAN
  /\ visible \subseteq Files \cup {"checksums"} /\ durable \subseteq visible
  /\ listed \subseteq Files
  /\ outcome \in {"none", "written", "write_error", "unexpected"}

ReportIdle ==
  /\ writer = "idle" /\ written = 0 /\ directory = FALSE /\ temporary = FALSE /\ visible = {}
  /\ durable = {} /\ unsynced = FALSE /\ listed = {} /\ stuck = FALSE /\ outcome = "none"

-----------------------------------------------------------------------------
Over(how) == writer' = "over" /\ outcome' = how

\* An existing directory is refused; an mkdir that fails has nothing to clean.
MakeDirectory ==
  /\ writer = "idle"
  /\ \/ ~ directory /\ directory' = TRUE /\ writer' = "temporary" /\ UNCHANGED outcome
     \/ Over("write_error") /\ UNCHANGED directory
  /\ UNCHANGED <<written, temporary, visible, durable, unsynced, listed, stuck>>

\* An OSError of _write_json_file removes the temporary file, if that succeeds.
FailWrite ==
  /\ writer' = "cleanup"
  /\ \/ temporary' = FALSE /\ UNCHANGED stuck
     \/ temporary' = TRUE /\ stuck' = TRUE

\* The payload is built, written and synced; a payload that cannot be built
\* is no OSError, and nothing catches it.
WriteTemporary ==
  /\ writer = "temporary"
  /\ \/ temporary' = TRUE /\ writer' = "rename" /\ UNCHANGED <<stuck, outcome>>
     \/ FailWrite /\ UNCHANGED outcome
     \/ Current # "checksums" /\ Over("unexpected") /\ UNCHANGED <<temporary, stuck>>
  /\ UNCHANGED <<written, directory, visible, durable, unsynced, listed>>

Rename ==
  /\ writer = "rename"
  /\ \/ /\ visible' = visible \cup {Current} /\ temporary' = FALSE
        /\ writer' = "sync" /\ UNCHANGED stuck
     \/ FailWrite /\ UNCHANGED visible
  /\ UNCHANGED <<written, directory, durable, unsynced, listed, outcome>>

\* Mutant: the directory is never synced.
SyncDirectoryNot ==
  /\ writer = "sync" /\ writer' = "hash"
  /\ UNCHANGED <<written, directory, temporary, visible, durable, unsynced, listed, stuck, outcome>>

\* Any sync may fail, on some platforms each does; the failure is passed over.
SyncDirectory ==
  /\ writer = "sync" /\ writer' = "hash"
  /\ \/ durable' = visible /\ unsynced' = FALSE
     \/ UNCHANGED durable /\ unsynced' = TRUE
  /\ UNCHANGED <<written, directory, temporary, visible, listed, stuck, outcome>>

\* Mutant: checksums.json is counted like an ordinary file.
ReadBackCountsAll ==
  /\ writer = "hash"
  /\ \/ Over("unexpected") /\ UNCHANGED written
     \/ /\ Current # "checksums" /\ written' = written + 1 /\ UNCHANGED outcome
        /\ writer' = IF written + 1 = Len(Ordinary) THEN "collect" ELSE "temporary"
     \/ Current = "checksums" /\ Over("written") /\ written' = written + 1
  /\ UNCHANGED <<directory, temporary, visible, durable, unsynced, listed, stuck>>

\* The bytes are read back outside of the try statement: an OSError here is not
\* turned into a write error.
ReadBack ==
  /\ writer = "hash"
  /\ \/ Over("unexpected") /\ UNCHANGED written
     \/ /\ Current # "checksums" /\ written' = written + 1 /\ UNCHANGED outcome
        /\ writer' = IF written + 1 = Len(Ordinary) THEN "collect" ELSE "temporary"
     \/ Current = "checksums" /\ Over("written") /\ UNCHANGED written
  /\ UNCHANGED <<directory, temporary, visible, durable, unsynced, listed, stuck>>

\* Every file is hashed again for the payload of checksums.json.
CollectChecksums ==
  /\ writer = "collect"
  /\ \/ writer' = "temporary" /\ listed' = WrittenFiles /\ UNCHANGED outcome
     \/ Over("unexpected") /\ UNCHANGED listed
  /\ UNCHANGED <<written, directory, temporary, visible, durable, unsynced, stuck>>

\* The except clause removes what was written, as far as that is possible.
CleanUp ==
  /\ writer = "cleanup"
  /\ \E kept \in SUBSET WrittenFiles :
       /\ visible' = visible \ (WrittenFiles \ kept)
       /\ durable' = durable \cap visible'
       /\ \/ visible' = {} /\ ~ temporary /\ directory' = FALSE /\ UNCHANGED stuck
          \/ stuck' = TRUE /\ UNCHANGED directory
       /\ (kept # {} => stuck')
  /\ Over("write_error")
  /\ UNCHANGED <<written, temporary, unsynced, listed>>

ReportStep ==
  \/ MakeDirectory \/ WriteTemporary \/ Rename \/ SyncDirectory \/ ReadBack
  \/ CollectChecksums \/ CleanUp

-----------------------------------------------------------------------------
\* Where checksums.json is, the report is complete, and stays so through a power
\* failure: it lists every ordinary file, each is there under its final name and,
\* unless the last directory sync failed, a sync has followed its rename before
\* checksums.json got its own.
\* (write_backtest_report; the completion marker of the decision register, 41T2)
MarkerIsLast ==
  "checksums" \in visible =>
    listed = Files /\ Files \subseteq visible /\ (~ unsynced => Files \subseteq durable)
=============================================================================

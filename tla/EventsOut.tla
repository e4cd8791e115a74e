----------------------------- MODULE EventsOut ------------------------------
(***************************************************************************)
(* The end of a command in cli/src/main.rs: what it found out (verdict) is *)
(* written to the file of --events-out, if one is asked for and there are  *)
(* events, and told by the exit.  The file is written beside its path,     *)
(* synced, and renamed to it; every step may fail, and the machine may go  *)
(* down between any two.                                                   *)
(***************************************************************************)
EXTENDS Naturals

VARIABLES
    verdict,   \* of the measurement; artifact: there are events to write
    file,      \* the artifact: the step, the temporary file, the path
    exit       \* what the command says when it ends

outVars == <<verdict, file, exit>>

Success == [known |-> TRUE, ok |-> TRUE, code |-> "none", artifact |-> TRUE]
Failure(code, artifact) == [known |-> TRUE, ok |-> FALSE, code |-> code, artifact |-> artifact]
Unasked == [events_out |-> FALSE, format |-> FALSE]

OutInit ==
    /\ verdict = [Success EXCEPT !.known = FALSE]
    /\ file = [pc |-> "idle", temporary |-> "none", path |-> "old", asked |-> Unasked]
    /\ exit = [done |-> FALSE, ok |-> FALSE, code |-> "none", original |-> "none", artifact_path |-> FALSE]

\* emit_measurement, emit_command_failure: what a verdict says, told about a file or not.
Emitted(v, path) ==
    [done |-> TRUE, ok |-> v.ok, code |-> v.code, original |-> "none", artifact_path |-> path /\ ~v.ok]

emit_error(code) == exit' = Emitted(Failure(code, FALSE), FALSE)

\* A command that writes no artifact.
Emit(v, asked) ==
    /\ verdict' = v /\ exit' = Emitted(v, FALSE)
    /\ file' = [file EXCEPT !.asked = asked]

\* finish_measurement and finish_measurement_failure.
finish(v, asked) ==
    /\ verdict' = v
    /\ IF asked.format /\ ~asked.events_out
       THEN emit_error("TraceExportFailed") /\ file' = [file EXCEPT !.asked = asked]
       ELSE IF asked.events_out /\ v.artifact
       THEN file' = [file EXCEPT !.pc = "create", !.asked = asked] /\ UNCHANGED exit
       ELSE exit' = Emitted(v, FALSE) /\ file' = [file EXCEPT !.asked = asked]

-----------------------------------------------------------------------------
(* write_export_file.                                                      *)

Writes(next) == file' = next /\ UNCHANGED <<verdict, exit>>

(* Mutant: the failure of the artifact hides that of the measurement. *)
ExportFailedBare(next) ==
    /\ file' = [next EXCEPT !.pc = "failed"]
    /\ emit_error("TraceExportFailed")
    /\ UNCHANGED verdict

ExportFailed(next) ==
    /\ file' = [next EXCEPT !.pc = "failed"]
    /\ exit' = [Emitted(Failure("TraceExportFailed", FALSE), FALSE) EXCEPT !.original = verdict.code]
    /\ UNCHANGED verdict

\* remove_temporary_artifact, which may fail.
remove_temporary_artifact ==
    \E left \in {file.temporary, "none"} : ExportFailed([file EXCEPT !.temporary = left])

\* Serializing, naming and opening the temporary file (export_measurement_capture).
CreateTemporary ==
    /\ file.pc = "create"
    /\ Writes([file EXCEPT !.pc = "write", !.temporary = "partial"]) \/ ExportFailed(file)

WriteTemporary ==
    /\ file.pc = "write"
    /\ Writes([file EXCEPT !.pc = "sync", !.temporary = "written"]) \/ remove_temporary_artifact

(* Mutant: the file is not synced before it is renamed. *)
SyncTemporaryLater ==
    /\ file.pc = "sync"
    /\ Writes([file EXCEPT !.pc = "rename"]) \/ remove_temporary_artifact

SyncTemporary ==
    /\ file.pc = "sync"
    /\ Writes([file EXCEPT !.pc = "rename", !.temporary = "synced"]) \/ remove_temporary_artifact

Rename ==
    /\ file.pc = "rename"
    /\ \/ Writes([file EXCEPT !.pc = "directory", !.temporary = "none", !.path = file.temporary])
       \/ remove_temporary_artifact

SyncDirectory ==
    /\ file.pc = "directory"
    /\ \/ /\ file' = [file EXCEPT !.pc = "done"]
          /\ exit' = Emitted(verdict, TRUE)
          /\ UNCHANGED verdict
       \/ ExportFailed(file)

ExportStep == CreateTemporary \/ WriteTemporary \/ SyncTemporary \/ Rename \/ SyncDirectory

-----------------------------------------------------------------------------
(* At every moment, and so whenever the command is killed or the machine   *)
(* goes down, the path of --events-out names the file that was there       *)
(* before or all of the new one on disk.                                   *)
ArtifactIsOldOrWhole == file.path \in {"old", "synced"}

(* The exit tells what became of the artifact: after a success the path    *)
(* has the new one exactly if --events-out was given, whatever mode the    *)
(* options chose; a failure that names the artifact has written it; and    *)
(* one that does not has left the path alone, except if only syncing its   *)
(* directory failed.                                                       *)
ExitTellsTheArtifact ==
    exit.done =>
        /\ exit.ok => (file.path # "old") = file.asked.events_out
        /\ exit.artifact_path => file.path # "old"
        /\ ~exit.ok /\ ~exit.artifact_path => file.path = "old" \/ (file.pc = "failed" /\ file.temporary = "none")

(* A failed measurement is told by its own error code, or has it in the    *)
(* details of the artifact's failure.  One exception is in the code:       *)
(* --format without --events-out is only refused after the measurement,    *)
(* and then the cause (or the result) is gone.                             *)
FailureKeepsItsCause ==
    exit.done /\ verdict.known /\ ~verdict.ok =>
        \/ verdict.code \in {exit.code, exit.original}
        \/ file.asked.format /\ ~file.asked.events_out
=============================================================================

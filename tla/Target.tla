-------------------------------- MODULE Target --------------------------------
(***************************************************************************)
(* core/src/inspect.rs: the target of a command is whatever process has    *)
(* the given PID, told apart from earlier and later ones by its start      *)
(* time.  It may exit at any time, and the PID may be used again.          *)
(***************************************************************************)
EXTENDS Naturals

CONSTANT MaxProcesses   \* processes that have the PID one after another

ASSUME MaxProcessesAssumption == MaxProcesses \in Nat \ {0}

VARIABLES
    process,   \* start time of the last process with the PID; does it run?
    report     \* inspect::run: its progress, the start time it read first,
               \* and the process that the rest of /proc/PID was read from

TargetInit ==
    /\ process = [start |-> 1, runs |-> TRUE]
    /\ report = [stage |-> "none", start |-> 0, from |-> 0]

TargetExits ==
    /\ process.runs
    /\ process' = [process EXCEPT !.runs = FALSE]
    /\ UNCHANGED report

PidIsReused ==
    /\ ~process.runs /\ process.start < MaxProcesses
    /\ process' = [start |-> process.start + 1, runs |-> TRUE]
    /\ UNCHANGED report

(* Mutant: only the presence of the process is checked. *)
verify_targetPresent(start) ==
    IF process.runs THEN "ok" ELSE "TargetExited"

verify_target(start) ==
    IF ~process.runs THEN "TargetExited"
    ELSE IF process.start # start THEN "TargetReused"
    ELSE "ok"

-----------------------------------------------------------------------------
(* inspect::run.  A read that fails ends it with the error as its stage.   *)

InspectErrors == {"TargetNotFound", "TargetExited", "TargetReused", "PermissionDenied"}

Inspected(next, gone) ==
    /\ report' = IF process.runs THEN next ELSE [report EXCEPT !.stage = gone]
    /\ UNCHANGED process

InspectFirst ==
    /\ report.stage = "none"
    /\ Inspected([stage |-> "first", start |-> process.start, from |-> 0], "TargetNotFound")

\* What is read may be refused or malformed.
InspectRest ==
    /\ report.stage = "first"
    /\ \/ Inspected([report EXCEPT !.stage = "rest", !.from = process.start], "TargetExited")
       \/ Inspected([report EXCEPT !.stage = "PermissionDenied"], "TargetExited")

InspectLast ==
    /\ report.stage = "rest"
    /\ Inspected([report EXCEPT !.stage = IF process.start = report.start THEN "done" ELSE "TargetReused"],
                 "TargetExited")

Inspect == InspectFirst \/ InspectRest \/ InspectLast

-----------------------------------------------------------------------------
(* What inspect::run reports was read from the process that its identity   *)
(* names, although the reads are separate and the PID may change hands     *)
(* between any two of them.                                                *)
ReportIsOfOneProcess == report.stage = "done" => report.from = report.start
=============================================================================

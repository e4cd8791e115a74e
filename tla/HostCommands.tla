---------------------------- MODULE HostCommands -----------------------------
(***************************************************************************)
(* The commands of cli/src/main.rs from their options to their exit:       *)
(* which collection the options choose, the inspection of the target, the  *)
(* collection itself (HostCapture, SyscallAggregate, CpuSampling, or the   *)
(* activation of the agent by RemoteCall and its capture and flush of GPU  *)
(* activities, FlushWait), and the artifact and exit (EventsOut).  The     *)
(* target may exit and its PID be used again at any time.                  *)
(***************************************************************************)
EXTENDS HostCapture, SyscallAggregate, CpuSampling, RemoteCall, FlushWait, EventsOut

VARIABLE command   \* the mode chosen, the process a spec names, what may be
                   \* asked of the artifact (chosen when it first matters)

vars == <<hostVars, sysVars, cpuVars, remVars, flushVars, outVars, process, report, command>>

-----------------------------------------------------------------------------
(* The options of `measure`.                                               *)

SpecKinds == {"unreadable", "unparsable", "unbounded", "cpu", "syscalls", "exact", "aggregate"}

\* clap: conflicts_with_all.
Accepted(a) ==
    /\ a.spec # "none" => /\ ~a.input /\ ~a.pid /\ ~a.cpu_sample /\ ~a.syscall_aggregate /\ ~a.samples
                          /\ ~a.duration_ms /\ ~a.aggregate /\ ~a.max_groups /\ a.selection = "none"
    /\ a.cpu_sample \/ a.syscall_aggregate =>
          /\ ~a.input /\ ~a.samples /\ ~a.aggregate /\ ~a.events_out /\ ~a.format /\ ~a.device
          /\ a.selection = "none" /\ a.cpu_sample # a.syscall_aggregate
    /\ a.aggregate => ~a.input /\ ~a.samples /\ ~a.events_out /\ ~a.format

MeasureArgs ==
    {a \in [spec : SpecKinds \cup {"none"}, selection : {"none", "incomplete", "unmatched", "complete"},
            cpu_sample : BOOLEAN, syscall_aggregate : BOOLEAN, aggregate : BOOLEAN,
            input : BOOLEAN, pid : BOOLEAN, samples : BOOLEAN, duration_ms : BOOLEAN, max_groups : BOOLEAN,
            device : BOOLEAN, events_out : BOOLEAN, format : BOOLEAN] : Accepted(a)}

Mode(mode, expected) == [code |-> "ok", mode |-> mode, expected |-> expected]
Refused(code) == [code |-> code, mode |-> "none", expected |-> 0]

(* Mutant: an aggregate spec is collected whatever artifact is asked for. *)
run_measure_specEager(a) ==
    CASE a.spec = "unreadable" -> Refused("TraceExportFailed")
      [] a.spec = "unparsable" -> Refused("InvalidEventSelector")
      [] a.spec = "unbounded" -> Refused("SessionLimitExceeded")
      [] OTHER -> Mode(a.spec, 1)

\* run_cpu_sampling_file_spec and run_syscall_aggregate_file_spec.
run_file_spec(a) ==
    IF a.device \/ a.events_out \/ a.format THEN Refused("InvalidEventSelector") ELSE Mode(a.spec, 1)

\* An exact spec needs max_events and an aggregate one max_groups.
measurement_spec_capacity(spec) == IF spec = "unbounded" THEN "SessionLimitExceeded" ELSE "ok"

\* A spec names its target: the first process that had the PID.
run_measure_spec(a) ==
    CASE a.spec = "unreadable" -> Refused("TraceExportFailed")
      [] a.spec = "unparsable" -> Refused("InvalidEventSelector")
      [] a.spec \in {"cpu", "syscalls"} -> run_file_spec(a)
      [] measurement_spec_capacity(a.spec) # "ok" -> Refused(measurement_spec_capacity(a.spec))
      [] a.spec = "aggregate" /\ (a.events_out \/ a.format) -> Refused("TraceExportFailed")
      [] OTHER -> Mode(a.spec, 1)

\* --cpu-sample, --syscall-aggregate and --aggregate need a PID and a duration.
WithDuration(a, mode) ==
    IF ~a.pid THEN Refused("InvalidEventSelector")
    ELSE IF ~a.duration_ms THEN Refused("SessionLimitExceeded")
    ELSE Mode(mode, 0)

\* --from, --to and --match.
parse_measure_selection(selection) ==
    CASE selection \in {"none", "incomplete"} -> "InvalidEventSelector"
      [] selection = "unmatched" -> "InvalidCorrelationPolicy"
      [] OTHER -> "ok"

validate_measure_source(a) == IF a.pid /\ a.input THEN "InvalidEventSelector" ELSE "ok"

run_completed_measurement(a) ==
    IF ~a.input THEN Refused("TraceExportFailed")
    ELSE IF a.device THEN Refused("InvalidEventSelector")
    ELSE Mode("completed", 0)

run_measure(a) ==
    CASE a.spec # "none" -> run_measure_spec(a)
      [] a.cpu_sample -> WithDuration(a, "cpu")
      [] a.syscall_aggregate -> WithDuration(a, "syscalls")
      [] a.max_groups /\ ~a.aggregate -> Refused("InvalidEventSelector")
      [] parse_measure_selection(a.selection) # "ok" -> Refused(parse_measure_selection(a.selection))
      [] validate_measure_source(a) # "ok" -> Refused(validate_measure_source(a))
      [] a.aggregate -> WithDuration(a, "aggregate")
      [] a.pid -> Mode("exact", 0)
      [] OTHER -> run_completed_measurement(a)

\* run_trace takes an exact spec and writes no artifact.
run_trace(spec) ==
    IF spec \in {"cpu", "syscalls"} THEN Refused("InvalidEventSelector")
    ELSE IF spec = "aggregate" THEN Refused("InvalidEventSelector")
    ELSE run_measure_spec([spec |-> spec, device |-> FALSE, events_out |-> FALSE, format |-> FALSE])

\* Formats the inputs it is given into the file it is given.
run_export == Mode("export", 0)

\* These report on the target: what inspect::run, resolve::run and the three
\* validations say of it.
run_inspect == Mode("report", 0)
run_resolve == Mode("report", 0)
run_validate == Mode("report", 0)

\* Every command line: what it leads to and what it asks of the artifact.
CommandLines ==
    {[leads |-> run_measure(a), asked |-> [events_out |-> a.events_out, format |-> a.format]] : a \in MeasureArgs}
    \cup {[leads |-> run_trace(s), asked |-> Unasked] : s \in SpecKinds}
    \cup {[leads |-> run_export, asked |-> [events_out |-> TRUE, format |-> TRUE]]}
    \cup {[leads |-> leads, asked |-> Unasked] : leads \in {run_inspect, run_resolve, run_validate}}

Start ==
    /\ command.mode = "none" /\ ~exit.done
    /\ LET lines == CommandLines
       IN  \E leads \in {line.leads : line \in lines} :
             IF leads.code # "ok"
             THEN emit_error(leads.code) /\ UNCHANGED <<verdict, file, command>>
             ELSE /\ \E mode \in IF leads.mode = "exact" THEN {"live", "cuda"} ELSE {leads.mode} :
                       command' = [mode |-> mode, expected |-> leads.expected,
                                   evidence |-> {l.asked : l \in {line \in lines : line.leads = leads}}]
                  /\ UNCHANGED outVars
    /\ UNCHANGED <<hostVars, sysVars, cpuVars, remVars, flushVars, process, report>>

-----------------------------------------------------------------------------
(* The run of a command, up to its verdict.                                *)

HasTarget == command.mode \in {"live", "cuda", "aggregate", "syscalls", "cpu", "report"}
Running(mode) == command.mode = mode /\ command.expected = 0 /\ report.stage = "done" /\ ~verdict.known

\* The target that a spec names: the report's of prepare_live_collection, or
\* verified by run_cpu_sampling_spec and run_syscall_aggregate_spec.
Expected ==
    IF command.mode \in {"cpu", "syscalls"} THEN verify_target(command.expected)
    ELSE IF report.start = command.expected THEN "ok" ELSE "TargetReused"

ExpectTarget ==
    /\ HasTarget /\ report.stage = "done" /\ command.expected # 0 /\ Expected = "ok"
    /\ command' = [command EXCEPT !.expected = 0]
    /\ UNCHANGED <<hostVars, sysVars, cpuVars, remVars, flushVars, outVars, process, report>>

\* What may come of the command in this state.  Completed.tla, LiveSession.tla
\* and AggregateTable.tla say which of the outcomes left open here it is.
Open == {Success, Failure("Capture", TRUE), Failure("Capture", FALSE)}
UsesAgent == Running("cuda") \/ Running("aggregate")
Of(code) == {IF code = "ok" THEN Success ELSE Failure(code, FALSE)}

Verdicts ==
    CASE command.mode = "completed" -> Open
      [] command.mode = "export" -> {Success, Failure("Capture", FALSE)}
      [] HasTarget /\ report.stage \in InspectErrors -> {Failure(report.stage, FALSE)}
      [] HasTarget /\ report.stage = "done" /\ command.expected # 0 -> Of(Expected) \ {Success}
      [] Running("report") -> {Success, Failure("Refused", FALSE)}
      [] Running("live") /\ driver.pc = "done" ->
           {IF Measured THEN Success ELSE Failure(outcome.code, outcome.artifact)}
      [] Running("syscalls") /\ reader.pc = "done" -> Of(reader.code)
      [] Running("cpu") /\ sampler.pc = "done" -> Of(sampler.code)
      [] UsesAgent /\ remote.pc = "done" /\ remote.code # "ok" -> Of(remote.code)
      [] UsesAgent /\ flush.pc = "done" -> IF flush.result = "READY" THEN Open ELSE Open \ {Success}
      [] OTHER -> {}

\* The verdict is all that is left of the collection.
Conclude ==
    /\ ~verdict.known /\ ~exit.done
    /\ \E v \in Verdicts, asked \in command.evidence :
         IF command.mode \in {"live", "cuda", "completed", "export"} THEN finish(v, asked) ELSE Emit(v, asked)
    /\ DropCapture /\ FreeMaps /\ reader' = Unread /\ FlushReset
    /\ UNCHANGED <<cpuVars, remVars, process, report, command>>

\* The end of the command is the end of its threads and probes.
Collect ==
    \/ Running("live") /\ CollectHost /\ UNCHANGED <<sysVars, cpuVars, remVars, flushVars>>
    \/ Running("syscalls") /\ ReaderStep /\ UNCHANGED <<hostVars, cpuVars, remVars, flushVars>>
    \/ Running("cpu") /\ SamplerStep /\ UNCHANGED <<hostVars, sysVars, remVars, flushVars>>
    \/ UsesAgent /\ RemoteStep /\ UNCHANGED <<hostVars, sysVars, cpuVars, flushVars>>
    \/ UsesAgent /\ remote.code = "ok" /\ FlushStep /\ UNCHANGED <<hostVars, sysVars, cpuVars, remVars, process, report>>

CommandStep ==
    \/ Start \/ ExpectTarget \/ Conclude
    \/ Collect /\ UNCHANGED <<outVars, command>>
    \/ HasTarget /\ ~verdict.known /\ Inspect /\ UNCHANGED <<hostVars, sysVars, cpuVars, remVars, flushVars, outVars, command>>
    \/ ExportStep /\ UNCHANGED <<hostVars, sysVars, cpuVars, remVars, flushVars, process, report, command>>

\* The target, and the kernel and CUPTI on its behalf.  After the verdict, and
\* after the collection or the activation, it is of no consequence which
\* process has the PID; and before the first read of /proc only a spec tells
\* one process from the next.  After the system calls are disarmed it matters
\* only at the last check which process it is.
Settled == verdict.known \/ driver.pc = "done" \/ reader.pc = "done" \/ sampler.pc = "done" \/ remote.pc = "done"

TargetActs ==
    \/ Running("live") /\ TargetCalls /\ UNCHANGED <<sysVars, cpuVars, remVars>>
    \/ Running("syscalls") /\ TargetSyscalls /\ UNCHANGED <<hostVars, cpuVars, remVars>>
    \/ Running("cpu") /\ TargetRuns /\ UNCHANGED <<hostVars, sysVars, remVars>>
    \/ /\ reader.pc \notin {"disarmed", "reading", "grouped", "summed"}
       /\ \/ TargetExits
          \/ /\ report.stage = "none" => command.expected # 0
             /\ ProgramRuns => reader.pc = "read"
             /\ PidIsReused
       /\ UNCHANGED <<hostVars, sysVars, cpuVars, remVars>>

Init ==
    /\ TargetInit /\ HostInit /\ SysInit /\ CpuInit /\ RemInit /\ FlushInit /\ OutInit
    /\ command = [mode |-> "none", expected |-> 0, evidence |-> {}]

Compute ==
    \/ Running("live") /\ Judge /\ UNCHANGED <<sysVars, cpuVars, remVars, flushVars, outVars, command>>
    \/ Running("cpu") /\ Drain /\ UNCHANGED <<hostVars, sysVars, remVars, flushVars, outVars, command>>

Next ==
    \/ CommandStep \/ Compute
    \/ HasTarget /\ ~Settled /\ TargetActs /\ UNCHANGED <<flushVars, outVars, command>>
    \/ CuptiStep /\ UNCHANGED <<hostVars, sysVars, cpuVars, remVars, outVars, process, report, command>>

\* Every wait of the command has a deadline, so nothing the target does or
\* omits keeps the command's own steps from being taken; what it computes by
\* itself takes finite time.
Spec ==
    /\ Init /\ [][Next]_vars
    /\ WF_vars(CommandStep)
    /\ []<>(driver.pc \notin {"captured", "timeout"} /\ sampler.pc # "disabled")

-----------------------------------------------------------------------------
(* Whatever a successful command reports was collected from the process    *)
(* that it inspected (and that its spec named), although the PID may have  *)
(* changed hands between any two steps and several sources go by the PID:  *)
(* the system calls counted, the samples, the events of a completed        *)
(* measurement and the process that the agent was started in.  The report  *)
(* itself is of one process.  (A live measurement that timed out is not    *)
(* verified again.)                                                        *)
ResultIsOfTheTarget ==
    /\ ReportIsOfOneProcess
    /\ outcome.status = "completed" => \A e \in ToSet(outcome.events) : e.from = report.start
    /\ reader.code = "ok" => \A id \in DOMAIN syscalls : syscalls[id].stage = "counted" => syscalls[id].from = report.start
    /\ sampler.code = "ok" => sampler.capture.from = {report.start}
    /\ remote.code = "ok" => tracee.from = report.start

(* Every command ends, with a verdict or an error, whatever the target     *)
(* does and whichever collectors fail, fill up or are never ready.         *)
CommandEnds == <>exit.done
=============================================================================

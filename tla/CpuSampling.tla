----------------------------- MODULE CpuSampling -----------------------------
(***************************************************************************)
(* `measure --cpu-sample`: collector/src/cpu_sampling.rs opens a perf      *)
(* counter for each thread of a snapshot, arms them one by one, drains     *)
(* their ring buffers until the duration or the sample limit is reached,   *)
(* disarms and drains once more; cli/src/main.rs and core/cpu_sampling*.rs *)
(* verify the target around it and judge the capture.                      *)
(*                                                                         *)
(* The kernel tells of samples it lost only together with a later sample   *)
(* of the same thread that finds room.                                     *)
(***************************************************************************)
EXTENDS CpuAnalysis, Target

CONSTANTS
    CpuThreads,   \* thread IDs 1..CpuThreads; the first leads the process
    MaxTaken,     \* samples that are taken altogether
    PerfSlots,    \* records that a perf ring buffer holds
    MaxThreads, MaxCpuSamples

VARIABLES
    alive,     \* threads of the current process
    perf,      \* per thread: the counter, the process it belongs to, its ring
    taken,     \* samples taken
    sampler    \* collect and its callers

cpuVars == <<alive, perf, taken, sampler>>

NoCounter == [state |-> "none", from |-> 0, ring |-> <<>>, pending |-> 0]
NoCapture == [observed |-> 0, grouped |-> 0, lost |-> 0, throttled |-> 0, skipped |-> 0,
              capacity_reached |-> FALSE, from |-> {}]
CpuIdle == [pc |-> "idle", todo |-> <<>>, attached |-> <<>>, capture |-> NoCapture,
            complete |-> FALSE, code |-> "none"]

\* Closing a counter disables it; an error closes all.
CpuFails(code) ==
    /\ sampler' = [CpuIdle EXCEPT !.pc = "done", !.code = code]
    /\ perf' = [t \in 1..CpuThreads |-> NoCounter]
    /\ taken' = 0
    /\ UNCHANGED <<alive, process, report>>

Samples(next) == sampler' = next /\ UNCHANGED <<alive, perf, taken, process, report>>

-----------------------------------------------------------------------------
(* The target and the kernel.                                              *)

ThreadExits(t) ==
    /\ t \in alive \ {1}
    /\ alive' = alive \ {t}
    /\ UNCHANGED <<perf, taken, sampler, process, report>>

\* kind: a sample with or without user addresses, or a throttle record (one is
\* enough).
TakeSample(t, kind) ==
    LET p == perf[t]
        Record(k, n) == [kind |-> k, count |-> n, thread |-> t, from |-> p.from]
        new == (IF p.pending > 0 THEN <<Record("lost", p.pending)>> ELSE <<>>) \o <<Record(kind, 1)>>
    IN  /\ p.state = "on" /\ p.from = process.start /\ process.runs /\ t \in alive
        /\ taken < MaxTaken
        /\ kind = "throttle" => sampler.capture.throttled = 0 /\ \A i \in DOMAIN p.ring : p.ring[i].kind # kind
        /\ taken' = IF kind = "throttle" THEN taken ELSE taken + 1
        /\ IF Len(p.ring) + Len(new) <= PerfSlots
           THEN perf' = [perf EXCEPT ![t].ring = @ \o new, ![t].pending = 0]
           ELSE kind # "throttle" /\ perf' = [perf EXCEPT ![t].pending = @ + 1]
        /\ UNCHANGED <<alive, sampler, process, report>>

-----------------------------------------------------------------------------
(* run_cpu_sampling_spec and collect.                                      *)

\* In ascending order, read between two checks of the target.
target_thread_ids == SelectSeq([t \in 1..CpuThreads |-> t], LAMBDA t : t \in alive)

\* The first max_threads of the threads are tried, the others are skipped.
cpu_collector_request(threads) ==
    LET n == IF Len(threads) < MaxThreads THEN Len(threads) ELSE MaxThreads
    IN  [CpuIdle EXCEPT !.pc = "opening", !.todo = SubSeq(threads, 1, n),
                        !.capture.skipped = Len(threads) - n]

\* cpu_sampling::validate, and the request.
CpuBegin ==
    /\ sampler.pc = "idle" /\ report.stage = "done"
    /\ \/ verify_target(report.start) # "ok" /\ CpuFails(verify_target(report.start))
       \/ CpuFails("PermissionDenied")
       \/ verify_target(report.start) = "ok" /\ Samples(cpu_collector_request(target_thread_ids))

\* A thread that is gone is skipped; any other error is returned.
OpenCounter ==
    /\ sampler.pc = "opening" /\ sampler.todo # <<>>
    /\ LET t == Head(sampler.todo)
           rest == [sampler EXCEPT !.todo = Tail(@)]
       IN  \/ /\ process.runs /\ t \in alive
              /\ perf' = [perf EXCEPT ![t] = [NoCounter EXCEPT !.state = "off", !.from = process.start]]
              /\ sampler' = [rest EXCEPT !.attached = Append(@, t)]
              /\ UNCHANGED <<alive, taken, process, report>>
           \/ /\ ~(process.runs /\ t \in alive)
              /\ Samples([rest EXCEPT !.capture.skipped = @ + 1])
           \/ CpuFails("Collector")

Opened ==
    /\ sampler.pc = "opening" /\ sampler.todo = <<>>
    /\ IF sampler.attached = <<>> THEN CpuFails("TargetExited")
       ELSE Samples([sampler EXCEPT !.pc = "arming", !.todo = sampler.attached])

\* arm_all: when one fails those before it are disabled, and that may fail too.
ArmCounter ==
    /\ sampler.pc = "arming"
    /\ \/ /\ sampler.todo # <<>>
          /\ perf' = [perf EXCEPT ![Head(sampler.todo)].state = "on"]
          /\ sampler' = [sampler EXCEPT !.todo = Tail(@)]
          /\ UNCHANGED <<alive, taken, process, report>>
       \/ sampler.todo # <<>> /\ CpuFails("Collector")
       \/ sampler.todo # <<>> /\ CpuFails("CleanupFailed")
       \/ sampler.todo = <<>> /\ Samples([sampler EXCEPT !.pc = "sampling"])

(* Mutant: lost records are passed over. *)
DrainRecordBlind(acc, r) ==
    IF acc.full THEN [acc EXCEPT !.rest = Append(@, r)]
    ELSE IF r.kind \in {"lost", "throttle"} THEN acc
    ELSE LET next == [acc EXCEPT !.observed = @ + 1, !.grouped = @ + 1, !.from = @ \cup {r.from}]
         IN  [next EXCEPT !.full = next.observed >= MaxCpuSamples]

\* A record read with the limit reached ends the drain, and is itself lost
\* when it is a sample; so does the record that reaches the limit.
DrainRecord(acc, r) ==
    LET sample == r.kind \in {"walked", "blank"}
        next == CASE sample /\ acc.observed < MaxCpuSamples ->
                       [acc EXCEPT !.observed = @ + 1, !.from = @ \cup {r.from},
                                   !.grouped = IF r.kind = "walked" THEN @ + 1 ELSE @]
                  [] r.kind = "lost" -> [acc EXCEPT !.lost = @ + r.count]
                  [] r.kind = "throttle" -> [acc EXCEPT !.throttled = @ + 1]
                  [] OTHER -> acc
    IN  IF acc.full THEN [acc EXCEPT !.rest = Append(@, r)]
        ELSE [next EXCEPT !.full = next.observed >= MaxCpuSamples]

\* drain: the rings of the attached threads in order.
Drained ==
    FoldLeft(DrainRecord,
             [observed |-> sampler.capture.observed, grouped |-> sampler.capture.grouped,
              lost |-> sampler.capture.lost, throttled |-> sampler.capture.throttled,
              from |-> sampler.capture.from, full |-> FALSE, rest |-> <<>>],
             FoldLeft(LAMBDA all, t : all \o perf[t].ring, <<>>, sampler.attached))

drain(pc) ==
    LET d == Drained
    IN  /\ sampler' = [sampler EXCEPT !.pc = pc,
             !.capture = [observed |-> d.observed, grouped |-> d.grouped, lost |-> d.lost, from |-> d.from,
                          throttled |-> d.throttled, skipped |-> sampler.capture.skipped,
                          capacity_reached |-> d.observed >= MaxCpuSamples]]
        /\ perf' = [t \in DOMAIN perf |->
                      [perf[t] EXCEPT !.ring = SelectSeq(d.rest, LAMBDA r : r.thread = t)]]
        /\ UNCHANGED <<alive, taken, process, report>>

DrainSome ==
    /\ sampler.pc = "sampling" /\ sampler.capture.observed < MaxCpuSamples
    /\ \E t \in 1..CpuThreads : perf[t].ring # <<>>
    /\ drain("sampling")

\* The duration or the limit ends the loop, or the timeout does; disable_all.
Disable ==
    /\ sampler.pc = "sampling"
    /\ \/ /\ sampler' = [sampler EXCEPT !.pc = "disabled"]
          /\ perf' = [t \in DOMAIN perf |-> [perf[t] EXCEPT !.state = "off"]]
          /\ UNCHANGED <<alive, taken, process, report>>
       \/ CpuFails("SessionLimitExceeded")
       \/ CpuFails("CleanupFailed")

DrainRest == sampler.pc = "disabled" /\ drain("captured")

\* The stacks are grouped and symbolized by CpuAnalysis!analyze; here there are
\* never more groups than max_groups.
AnalyzeSamples ==
    /\ sampler.pc = "captured"
    /\ IF sampler.capture.observed = 0 THEN CpuFails("NoMatchedSamples")
       ELSE IF verify_target(report.start) # "ok" THEN CpuFails(verify_target(report.start))
       ELSE Samples([sampler EXCEPT !.pc = "done", !.code = "ok",
                       !.complete = capture_is_complete(sampler.capture, sampler.capture.grouped, FALSE)])

SamplerStep == CpuBegin \/ OpenCounter \/ Opened \/ ArmCounter \/ Disable \/ AnalyzeSamples
Drain == DrainSome \/ DrainRest

CpuInit ==
    /\ alive = 1..CpuThreads
    /\ perf = [t \in 1..CpuThreads |-> NoCounter]
    /\ taken = 0
    /\ sampler = CpuIdle

TargetRuns ==
    /\ sampler.pc \notin {"idle", "done"}
    /\ \E t \in 1..CpuThreads :
         \/ ThreadExits(t)
         \/ \E kind \in {"walked", "blank", "throttle"} : TakeSample(t, kind)

-----------------------------------------------------------------------------
(* A complete inventory has every sample that any counter took from being  *)
(* armed to being disarmed, with its stack: none is left in a ring, cut    *)
(* off by the limit or lost unreported.  The exception are losses of a     *)
(* thread that took no sample afterwards, of which the kernel never tells. *)
SamplesAreAllThere ==
    sampler.code = "ok" /\ sampler.complete =>
        /\ taken = sampler.capture.observed + MapThenSumSet(LAMBDA t : perf[t].pending, 1..CpuThreads)
        /\ sampler.capture.grouped = sampler.capture.observed
        /\ \A t \in 1..CpuThreads : perf[t].state = "off" \/ t \notin ToSet(sampler.attached)
=============================================================================

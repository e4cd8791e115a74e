------------------------------- MODULE Analysis -------------------------------
(***************************************************************************)
(* The parts of xprobe that compute without acting on the target, each on  *)
(* all small inputs: selectors and name filters, address resolution, the   *)
(* correlator, merged captures and the analysis of CPU samples.  A         *)
(* behaviour picks a subject and builds one input for it, piece by piece.  *)
(***************************************************************************)
EXTENDS Completed, CpuAnalysis

CONSTANTS
    Alphabet,       \* characters of patterns
    Names,          \* names that patterns are applied to
    KernelNames,    \* names of the events of selectors
    MaxPattern,     \* length of patterns
    Texts,          \* selectors
    Segments,       \* pairs of segment size and whether it is executable
    Placements,     \* pairs of symbol address and size
    MaxTrace,       \* events of a trace
    MaxTime,        \* largest timestamp of a trace
    Threads,        \* threads of a trace
    MaxValues,      \* latencies of a measurement
    Inputs,         \* finished captures
    Chains,         \* sampled call chains
    Processes,      \* processes that are sampled
    MaxSamples,     \* samples of a CPU capture
    PerfMapLines    \* lines of a perf map

VARIABLES
    subject,        \* what is analysed
    input           \* what it is given, a sequence

vars == <<subject, input>>

Subjects == {"pattern", "selectors", "image", "trace", "latencies", "inputs", "samples", "perf map"}

About(name, most) == subject = name /\ Len(input) < most
Give(piece) == input' = Append(input, piece) /\ UNCHANGED subject

Init == subject \in Subjects /\ input = <<>>

GivePattern == About("pattern", MaxPattern) /\ \E c \in Alphabet : Give(c)

\* Start and end selector.
GiveSelector == About("selectors", 2) /\ \E t \in Texts : Give(t)

(* A binary: two segments one after the other in the file, in memory at    *)
(* the same offset within a page and never on a page of the other, and     *)
(* then two functions of an executable one.                                *)
GiveSegment ==
    /\ About("image", 2)
    /\ \E s \in Segments :
         LET end == IF input = <<>> THEN 0 ELSE input[1].offset + input[1].size
             vaddr == IF end % Page = 0 THEN end ELSE end + Page
         IN  Give([offset |-> end, vaddr |-> vaddr, size |-> s[1], exec |-> s[2]])

GiveFunction ==
    /\ About("image", 4) /\ Len(input) >= 2
    /\ \E f \in Placements :
         /\ \E i \in {1, 2} : /\ input[i].exec /\ InSegment(f[1], input[i])
                             /\ f[1] + f[2] <= input[i].vaddr + input[i].size
         /\ Give([mangled |-> "f", demangled |-> Absent, text |-> TRUE,
                  address |-> f[1], size |-> f[2]])

\* Calls still open, the innermost of a thread last.
Open(trace, thread) ==
    SelectSeq(trace, LAMBDA e : /\ e.thread = thread /\ e.boundary = 0
                                /\ ~\E d \in ToSet(trace) : d.boundary = 1 /\ d.call = e.call)

(* The next event of a trace: a call begins, or the innermost one of its   *)
(* thread ends, or one that began before the capture.  A keyless event has *)
(* neither correlation key nor stream.                                     *)
GiveEvent ==
    /\ About("trace", MaxTrace)
    /\ \E boundary \in {0, 1}, thread \in Threads :
       \E keyless \in {FALSE, thread # 1} :
       \E ts \in (IF input = <<>> THEN 0 ELSE Last(input).ts)..MaxTime :
         LET open == Open(input, thread)
         IN  Give(
               [boundary |-> boundary, ts |-> ts, seq |-> Len(input), thread |-> thread,
                key |-> IF keyless THEN NoKey ELSE thread,
                stream |-> IF keyless THEN NoKey ELSE thread,
                call |-> IF boundary = 0 THEN Len(input) + 1
                         ELSE IF open = <<>> THEN 0 ELSE Last(open).call,
                type |-> IF boundary = 0 THEN "GpuKernelStart" ELSE "GpuKernelEnd",
                what |-> <<"a">>, pid |-> 1,
                clock |-> IF keyless THEN "HostMonotonic" ELSE "CuptiNormalizedToHostMonotonic",
                error |-> IF thread = 1 THEN <<thread>> ELSE <<>>])

\* Latencies with every pattern of ties between neighbours of three.
GiveLatency == About("latencies", MaxValues) /\ Give(Len(input) - (Len(input) % 3))

GiveInput == About("inputs", 2) /\ \E i \in Inputs : Give(i)

GiveSample == About("samples", MaxSamples) /\ \E c \in Chains : Give(c)

GiveLine == About("perf map", 3) /\ \E l \in PerfMapLines : Give(l)

Next == \/ GivePattern \/ GiveSelector \/ GiveSegment \/ GiveFunction \/ GiveEvent
        \/ GiveLatency \/ GiveInput \/ GiveSample \/ GiveLine

Spec == Init /\ [][Next]_vars

-----------------------------------------------------------------------------
(* The name filter that the Agent applies selects what the regular         *)
(* expression selects, and an aggregate group's hint selects the group     *)
(* (NameFilters).                                                          *)
FilterAgreesWithSelector ==
    subject = "pattern" => LoweredFilterIsTheRegex(input, Names)
HintFindsItsGroup ==
    subject = "pattern" => HintSelectsItsGroup(input)

\* Whatever validate accepts, the correlator can measure (MeasureSelectors).
ValidatedMeansMeasurable ==
    (subject = "selectors" /\ Len(input) = 2) =>
        \A policy \in Policies : ValidatedIsMeasurable(input[1], input[2], policy, KernelNames)

Bias == 100
ImageSegments == SubSeq(input, 1, 2)
ImageProcess ==
    [canonical |-> [p \in {"bin"} |-> "bin"], unreadable |-> {},
     maps |-> LoaderMaps("bin", ImageSegments, Bias),
     elf |-> [p \in {"bin"} |-> [segments |-> ImageSegments, dynamic |-> {},
                                 full |-> ToSet(SubSeq(input, 3, Len(input)))]]]
ImageAddresses == 0..(input[2].vaddr + input[2].size)

(* A resolved address is where the symbol is (Resolve), and back: the       *)
(* selector that a hotspot suggests for a sampled address probes the       *)
(* function that was sampled (CpuAnalysis).                                *)
ResolvedIsWhereTheSymbolIs ==
    (subject = "image" /\ Len(input) > 1) =>
        \A a \in ImageAddresses :
            IF Len(input) = 2 THEN RuntimeAddressIsTheSymbol(input, Bias, a)
            ELSE HintProbesTheSampledFunction(ImageProcess, Bias, a)

\* The policies that claim calls report calls (Correlator).
ReportedPairsAreCalls == subject = "trace" => PairsAreCalls(input)
\* The heuristic policies do what they promise (Correlator).
HeuristicPairsAreBest == subject = "trace" => HeuristicsAreGreedy(input)
\* Every event is paired, unmatched or ambiguous, and used once (Correlator).
NothingIsUncounted == subject = "trace" => EveryEventIsCounted(input)
(* A bounded measurement is the beginning of the unbounded one: a sample   *)
(* limit keeps the first pairs, and events after the duration do not       *)
(* change the report (Correlator).                                         *)
BoundsKeepThePrefix ==
    subject = "trace" =>
        /\ LimitTakesThePrefix(input, 1)
        /\ \A policy \in {"exact", "first-after", "nearest", "stream-order"} :
              WindowEndsTheMeasurement(input,
                  [from |-> [scheme |-> "cuda", parts |-> <<"kernel_start">>, pattern |-> <<>>],
                   to |-> [scheme |-> "cuda", parts |-> <<"kernel_end">>, pattern |-> <<>>],
                   policy |-> policy, samples |-> Unlimited, duration |-> 1,
                   max_events |-> Unlimited, dropped_events |-> 0])

\* Percentiles are nearest-rank percentiles of the measured values (Correlator).
PercentilesAreMeasured == subject = "latencies" => PercentileIsNearestRank(input)

\* Merged captures are measured only when each of them is whole (Completed).
InputsAreWhole ==
    (subject = "inputs" /\ input # <<>>) =>
        MeasuredInputsAreWhole(input,
            [from |-> [scheme |-> "cuda", parts |-> <<"kernel_start">>, pattern |-> <<>>],
             to |-> [scheme |-> "cuda", parts |-> <<"kernel_end">>, pattern |-> <<>>],
             policy |-> "first-after", samples |-> Unlimited, duration |-> 2,
             max_events |-> Unlimited, dropped_events |-> 0])

\* Hotspots of a complete inventory count the samples (CpuAnalysis).
InventoryCountsTheSamples ==
    subject = "samples" =>
        \A process \in Processes, max_groups \in 1..3, capacity_reached \in BOOLEAN,
           lost \in {0, 1}, skipped \in {0, 1} :
            HotspotsCountTheSamples(process,
                [samples |-> input, observed |-> Len(input), lost |-> lost, throttled |-> 0,
                 skipped |-> skipped, capacity_reached |-> capacity_reached, python |-> "active"],
                max_groups)

\* Python frames never carry the name of replaced code (CpuAnalysis).
PythonNamesAreCurrent ==
    subject = "perf map" => \A a \in 0..6 : PythonFrameIsTheNewest(input, a)
=============================================================================

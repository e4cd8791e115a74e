-------------------------- MODULE SyscallAggregate --------------------------
(***************************************************************************)
(* `measure --syscall-aggregate`: two eBPF programs (xprobe.bpf.c) keep    *)
(* the system calls that are open in an LRU map and sum the finished ones  *)
(* in a per-CPU table; collector/src/syscall_aggregate.rs arms, waits,     *)
(* disarms and reads the maps one after the other, and                     *)
(* core/src/syscall_aggregate.rs judges whether the result is complete.    *)
(*                                                                         *)
(* A program runs concurrently with the other CPUs and with the reader:    *)
(* it looks at the armed flag first and changes the maps later.  Its       *)
(* pointer into the LRU map is not protected: the element may be given to  *)
(* another thread's start before it is read.  It stores the fields of a    *)
(* group one by one, and the reader copies them one by one.                *)
(***************************************************************************)
EXTENDS Target, Integers, Sequences, FiniteSetsExt, Functions, TLC

CONSTANTS
    SysThreads,   \* each on a CPU of its own
    Syscalled,    \* number, duration and possible threads of the calls that the
                  \* target makes, in the order they begin: a sequence of sets
    MaxGroups, MaxInflight,
    ClockRange    \* 2^64: durations are differences of 64-bit times

VARIABLES
    syscalls,   \* every call: what it is, and where its programs are
    inflight,   \* the LRU map: the call whose start each element holds, or 0
    groups,     \* the table: number -> per CPU values
    summary,
    reader      \* collect: where it is, what it has read, what it returns

sysVars == <<syscalls, inflight, groups, summary, reader>>

NoSummary == [entries |-> 0, exits |-> 0, unmatched |-> 0, dropped |-> 0]
Unread == [pc |-> "idle", links |-> {}, armed |-> FALSE, groups |-> <<>>, summary |-> NoSummary,
           keys |-> {}, at |-> <<>>, copy |-> <<>>, open |-> 0, complete |-> FALSE, code |-> "none"]
NoSums == [count |-> 0, total |-> 0, least |-> 0, most |-> 0]
Fields == <<"count", "total", "least", "most">>
Elements == 1..MaxInflight

-----------------------------------------------------------------------------
(* The target's threads and the programs.  stage of a call: "checked" (its *)
(* entry program saw the flag), "open", "found", "numbered" and "timed"    *)
(* (its exit program has a pointer to `element` of the map, has read the   *)
(* number and the time there), "matched" (it has removed its start), the   *)
(* field that it stores next, "counted" or "over".  start is the call      *)
(* whose start is in `element`; group and measured are what was read.      *)

Current(id) == syscalls[id].from = process.start /\ process.runs
InCall(t) == \E id \in DOMAIN syscalls :
    syscalls[id].thread = t /\ Current(id) /\ syscalls[id].stage \notin {"counted", "over"}

Put(id, call) == syscalls' = [syscalls EXCEPT ![id] = call]
Quiet == UNCHANGED <<reader, process, report>>

\* xprobe_target_syscall_aggregate: attached, armed and of the PID.
Watched(program) == program \in reader.links /\ reader.armed

\* A program that has begun ends, also when the process is killed.
ProgramRuns == \E id \in DOMAIN syscalls : syscalls[id].stage \notin {"open", "counted", "over"}

SyscallEntry(t) ==
    /\ process.runs /\ ~InCall(t) /\ Len(syscalls) < Len(Syscalled)
    /\ \E call \in {c \in Syscalled[Len(syscalls) + 1] : t \in c.threads} : syscalls' = Append(syscalls,
         [thread |-> t, from |-> process.start, number |-> call.number, duration |-> call.duration,
          element |-> 0, start |-> 0, group |-> 0, measured |-> 0, timely |-> FALSE,
          stage |-> IF Watched("entry") THEN "checked" ELSE "open"])
    /\ UNCHANGED <<inflight, groups, summary>> /\ Quiet

\* The element with the thread's start.
ElementsOf(t) == {e \in Elements : inflight[e] # 0 /\ syscalls[inflight[e]].thread = t}

\* The start of `id` is copied into element e, and whoever points there sees it.
Occupy(e, id) ==
    /\ inflight' = [f \in Elements |-> IF f = e THEN id
                                       ELSE IF f \in ElementsOf(syscalls[id].thread) THEN 0
                                       ELSE inflight[f]]
    /\ syscalls' = [o \in DOMAIN syscalls |->
                      IF o = id THEN [syscalls[o] EXCEPT !.stage = "open"]
                      ELSE IF syscalls[o].element = e THEN [syscalls[o] EXCEPT !.start = id]
                      ELSE syscalls[o]]

\* bpf_map_update_elem: a full LRU map gives up some other start.
RecordStart(id) ==
    /\ syscalls[id].stage = "checked"
    /\ LET free == {e \in Elements : inflight[e] = 0} \cup ElementsOf(syscalls[id].thread)
       IN  \/ /\ \E e \in IF free # {} THEN free ELSE Elements : Occupy(e, id)
              /\ summary' = [summary EXCEPT !.entries = @ + 1]
           \/ /\ Put(id, [syscalls[id] EXCEPT !.stage = "open"])
              /\ summary' = [summary EXCEPT !.dropped = @ + 1]
              /\ UNCHANGED inflight
    /\ UNCHANGED groups /\ Quiet

Found(id, e) ==
    /\ Put(id, [syscalls[id] EXCEPT !.stage = "found", !.element = e, !.start = inflight[e]])
    /\ UNCHANGED <<inflight, groups, summary>> /\ Quiet

(* Mutant: an exit without a start is ignored. *)
SyscallExitForgiving(id) ==
    LET mine == ElementsOf(syscalls[id].thread)
    IN  /\ Watched("exit") /\ Current(id) /\ syscalls[id].stage = "open"
        /\ \/ \E e \in mine : Found(id, e)
           \/ /\ mine = {}
              /\ Put(id, [syscalls[id] EXCEPT !.stage = "over", !.timely = TRUE])
              /\ UNCHANGED <<inflight, groups, summary>> /\ Quiet

\* bpf_map_lookup_elem by the thread.  An exit that the program does not watch
\* changes nothing that is counted.
SyscallExit(id) ==
    LET mine == ElementsOf(syscalls[id].thread)
    IN  /\ Watched("exit") /\ Current(id) /\ syscalls[id].stage = "open"
        /\ \/ \E e \in mine : Found(id, e)
           \/ /\ mine = {}
              /\ Put(id, [syscalls[id] EXCEPT !.stage = "over", !.timely = TRUE])
              /\ summary' = [summary EXCEPT !.unmatched = @ + 1]
              /\ UNCHANGED <<inflight, groups>> /\ Quiet

ReadNumber(id) ==
    /\ syscalls[id].stage = "found"
    /\ Put(id, [syscalls[id] EXCEPT !.stage = "numbered", !.group = syscalls[syscalls[id].start].number])
    /\ UNCHANGED <<inflight, groups, summary>> /\ Quiet

\* The clock is read before the start's time.  Another call's start is more recent,
\* and may be later than the clock read.
ReadTime(id) ==
    /\ syscalls[id].stage = "numbered"
    /\ \E since \in IF syscalls[id].start = id THEN {syscalls[id].duration}
                     ELSE -1..(syscalls[id].duration - 1) :
         Put(id, [syscalls[id] EXCEPT !.stage = "timed", !.measured = since % ClockRange])
    /\ UNCHANGED <<inflight, groups, summary>> /\ Quiet

\* bpf_map_delete_elem by the thread, whatever became of the element.
DeleteStart(id) ==
    /\ syscalls[id].stage = "timed"
    /\ Put(id, [syscalls[id] EXCEPT !.stage = "matched", !.element = 0])
    /\ inflight' = [e \in Elements |-> IF e \in ElementsOf(syscalls[id].thread) THEN 0 ELSE inflight[e]]
    /\ summary' = [summary EXCEPT !.exits = @ + 1]
    /\ UNCHANGED groups /\ Quiet

\* The group is looked up, or inserted with this duration as its minimum.
FindGroup(id) ==
    LET call == syscalls[id]
        known == call.group \in DOMAIN groups
        initial == [c \in SysThreads |-> IF c = call.thread THEN [NoSums EXCEPT !.least = call.measured] ELSE NoSums]
    IN  /\ call.stage = "matched"
        /\ IF ~known /\ Cardinality(DOMAIN groups) >= MaxGroups
           THEN /\ Put(id, [call EXCEPT !.stage = "counted", !.timely = reader.armed])
                /\ summary' = [summary EXCEPT !.dropped = @ + 1] /\ UNCHANGED groups
           ELSE /\ Put(id, [call EXCEPT !.stage = "count"])
                /\ groups' = IF known THEN groups ELSE groups @@ (call.group :> initial)
                /\ UNCHANGED summary
        /\ UNCHANGED inflight /\ Quiet

Stored(sums, field, d) ==
    CASE field = "count" -> sums.count + 1
      [] field = "total" -> (sums.total + d) % ClockRange
      [] field = "least" -> IF sums.least = 0 \/ d < sums.least THEN d ELSE sums.least
      [] field = "most"  -> IF d > sums.most THEN d ELSE sums.most

\* Each field of the CPU's value is a store of its own.
StoreField(id) ==
    LET call == syscalls[id]
    IN  \E i \in DOMAIN Fields :
        /\ call.stage = Fields[i]
        /\ groups' = [groups EXCEPT ![call.group][call.thread][Fields[i]] =
                        Stored(groups[call.group][call.thread], Fields[i], call.measured)]
        /\ Put(id, IF i < Len(Fields) THEN [call EXCEPT !.stage = Fields[i + 1]]
                   ELSE [call EXCEPT !.stage = "counted", !.timely = reader.armed])
        /\ UNCHANGED <<inflight, summary>> /\ Quiet

\* Once the table is read it does not matter what is stored there.
ExitProgram(id) ==
    \/ SyscallExit(id) \/ ReadNumber(id) \/ ReadTime(id) \/ DeleteStart(id) \/ FindGroup(id)
    \/ reader.pc \in {"armed", "disarmed", "reading"} /\ StoreField(id)

-----------------------------------------------------------------------------
(* collect, and analyze with its two checks of the target.                 *)

ReaderAt(pc) == [reader EXCEPT !.pc = pc]

FreeMaps == syscalls' = <<>> /\ inflight' = [e \in Elements |-> 0] /\ groups' = <<>> /\ summary' = NoSummary

\* An error drops the links and the object with its maps.
SysFails(code) ==
    /\ reader' = [Unread EXCEPT !.pc = "done", !.code = code]
    /\ FreeMaps
    /\ UNCHANGED <<process, report>>

Reads(next) == reader' = next /\ UNCHANGED <<syscalls, inflight, groups, summary, process, report>>

\* validate, validate_request, load_object and configure_object, attach_programs.
Attach ==
    /\ reader.pc = "idle" /\ report.stage = "done"
    /\ \/ verify_target(report.start) = "ok" /\ Reads([ReaderAt("attached") EXCEPT !.links = {"entry"}])
       \/ verify_target(report.start) # "ok" /\ SysFails(verify_target(report.start))
       \/ SysFails("Collector")

AttachExit ==
    /\ reader.pc = "attached" /\ reader.links = {"entry"}
    /\ Reads([reader EXCEPT !.links = {"entry", "exit"}]) \/ SysFails("Collector")

set_armed ==
    /\ reader.pc = "attached" /\ reader.links = {"entry", "exit"}
    /\ Reads([ReaderAt("armed") EXCEPT !.armed = TRUE]) \/ SysFails("Collector")

\* capture_end, or the timeout; disarming may fail.
Disarm ==
    /\ reader.pc = "armed"
    /\ \/ Reads([ReaderAt("disarmed") EXCEPT !.armed = FALSE])
       \/ SysFails("Timeout")
       \/ SysFails("CleanupFailed")

\* A value without calls is skipped; sums saturate.
sum_group(values) ==
    LET used == {c \in SysThreads : values[c].count # 0}
        SumOf(field) == MapThenSumSet(LAMBDA c : values[c][field], used)
    IN  [count |-> SumOf("count"), total |-> Min({SumOf("total"), ClockRange - 1}),
         least |-> IF used = {} THEN 0 ELSE Min({values[c].least : c \in used}),
         most |-> Max({0} \cup {values[c].most : c \in used})]

\* read_capture: groups, then the summary, then the open calls.  That one of
\* the reads fails is shown at the first.
BeginRead ==
    /\ reader.pc = "disarmed"
    /\ \/ Reads([ReaderAt("reading") EXCEPT !.keys = DOMAIN groups])
       \/ SysFails("Collector")

\* The keys are iterated while programs insert: a new one may be met or not.
NextKey ==
    /\ reader.pc = "reading" /\ reader.at = <<>>
    /\ \/ \E n \in DOMAIN groups \ DOMAIN reader.groups :
            Reads([reader EXCEPT !.at = <<n, Min(SysThreads), 1>>, !.copy = [c \in SysThreads |-> NoSums]])
       \/ /\ reader.keys \subseteq DOMAIN reader.groups
          /\ Reads([ReaderAt("grouped") EXCEPT !.keys = {}])

\* lookup_percpu copies the values CPU by CPU and field by field.
Following(n, cpu, i) ==
    LET later == {c \in SysThreads : c > cpu}
    IN  IF i < Len(Fields) THEN <<n, cpu, i + 1>> ELSE IF later # {} THEN <<n, Min(later), 1>> ELSE <<>>

CopyField ==
    /\ reader.pc = "reading" /\ reader.at # <<>>
    /\ LET n == reader.at[1]
           cpu == reader.at[2]
           field == Fields[reader.at[3]]
           next == Following(n, cpu, reader.at[3])
       IN  \E copy \in {[reader.copy EXCEPT ![cpu][field] = groups[n][cpu][field]]} :
             Reads(IF next # <<>> THEN [reader EXCEPT !.at = next, !.copy = copy]
                   ELSE [reader EXCEPT !.at = <<>>, !.copy = <<>>,
                                       !.groups = @ @@ (n :> sum_group(copy))])

ReadSummary ==
    /\ reader.pc = "grouped"
    /\ Reads([ReaderAt("summed") EXCEPT !.summary = summary])

ReadInflight ==
    /\ reader.pc = "summed"
    /\ Reads([ReaderAt("read") EXCEPT !.open = Cardinality({e \in Elements : inflight[e] # 0}), !.links = {}])

analyze_syscalls ==
    /\ reader.pc = "read"
    /\ IF verify_target(report.start) # "ok" THEN SysFails(verify_target(report.start))
       ELSE Reads([ReaderAt("done") EXCEPT !.code = "ok",
                     !.groups = Restrict(@, {n \in DOMAIN @ : @[n].count # 0}),
                     !.complete = /\ reader.summary.unmatched = 0 /\ reader.open = 0
                                  /\ reader.summary.dropped = 0])

ReaderStep ==
    \/ Attach \/ AttachExit \/ set_armed \/ Disarm
    \/ BeginRead \/ NextKey \/ CopyField \/ ReadSummary \/ ReadInflight \/ analyze_syscalls

SysInit ==
    /\ syscalls = <<>> /\ inflight = [e \in Elements |-> 0] /\ groups = <<>>
    /\ summary = NoSummary
    /\ reader = Unread

\* Before the programs are attached and after they are disarmed, only those that
\* already run concern the collection, and then only if it is not discarded
\* because the target is gone.
TargetSyscalls ==
    \/ \E t \in SysThreads : reader.pc \in {"attached", "armed"} /\ SyscallEntry(t)
    \/ /\ reader.pc \in {"attached", "armed"} \/ verify_target(report.start) = "ok"
       /\ \E id \in DOMAIN syscalls : reader.pc \notin {"read", "done"} /\ (RecordStart(id) \/ ExitProgram(id))

-----------------------------------------------------------------------------
(* A complete inventory has every call that ended while collection was     *)
(* armed, once, under its own number, and has count, total, shortest and   *)
(* longest duration of a number right, whichever CPUs the calls ended on.  *)
(* Two races are not covered by the counters that decide on completeness.  *)
(* A call whose exit program was still running when collection was         *)
(* disarmed may be in some of the figures and not in others, and its       *)
(* minimum may be read as 0.  And a call whose element of the LRU map was  *)
(* given to another start between its lookup and its last read is counted  *)
(* with that one's number or time.                                         *)
InventoryIsOfTheCalls ==
    LET Own(id) == syscalls[id].start = id
        Begun(n) == {id \in DOMAIN syscalls : /\ syscalls[id].group = n
                                              /\ syscalls[id].stage \notin {"checked", "open", "over"}}
        Timely(n) == {id \in Begun(n) : syscalls[id].timely}
        Durations(set) == {syscalls[id].duration : id \in set}
        Figure(field, set) ==
          CASE field = "count" -> Cardinality(set)
            [] field = "total" -> MapThenSumSet(LAMBDA id : syscalls[id].duration, set)
            [] field = "least" -> IF set = {} THEN 0 ELSE Min(Durations(set))
            [] field = "most"  -> Max({0} \cup Durations(set))
        Read(n, field) == IF n \in DOMAIN reader.groups THEN reader.groups[n][field] ELSE 0
        Right(n, field) ==
          \/ \E racing \in SUBSET (Begun(n) \ Timely(n)) :
                Read(n, field) = Figure(field, Timely(n) \cup racing)
          \/ field = "least" /\ Begun(n) # Timely(n) /\ Read(n, field) = 0
    IN  reader.code = "ok" /\ reader.complete =>
        /\ \A id \in DOMAIN syscalls : syscalls[id].timely =>
              syscalls[id].stage = "counted" /\ (Own(id) => syscalls[id].group = syscalls[id].number)
        /\ \A n \in {c.number : c \in UNION Range(Syscalled)} :
              /\ Right(n, "count")
              /\ (\A id \in Begun(n) : Own(id)) => \A field \in {"total", "least", "most"} : Right(n, field)
=============================================================================

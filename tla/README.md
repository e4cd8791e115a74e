# TLA+ models of xprobe

xprobe measures latencies between host events and CUDA events of a running
process. Its correctness rests on code that tests hardly reach: lock-free
stores filled by CUPTI callbacks on every thread of the target, a control
thread that reads them while they fill, eBPF programs and samplers that lose
data when their buffers are full, a target that may exit or be replaced at any
moment, and a command line that decides from a few counters whether what it got
is complete. This directory models that code, checks it with TLC on small
instances, and proves the central results with TLAPS for every instance.

File and line references are to `src/` of the repository. `cupti_agent.c` is
`src/cupti/src/cupti_agent.c`, `main.rs` is `src/xprobe/cli/src/main.rs`,
`cupti.rs` is `src/xprobe/collector/src/cupti.rs`.

## 1. The system and its parts

| Part | State | Operations | What is hard about it |
|---|---|---|---|
| Record log (exact mode), `cupti_agent.c:587-620` | `records`, `record_ready`, `record_count`, `committed_record_count` | `enqueue_record` | any number of threads, no lock; a thread that meets a gap leaves publication to others |
| Aggregate table, `cupti_agent.c:622-762` | `aggregate_slots`, group count, drop counter | `aggregate_activity`, `write_aggregate_records` | claim race on a new key, counters updated and read field by field, overflow |
| NVTX range table, `cupti_agent.c:782-1098` | `nvtx_range_slots` with tombstones | `remember_nvtx_range`, `take_nvtx_range` | candidate slot picked before it is swapped, tombstone reuse, keys that outlive their thread |
| Capture control, `cupti_agent.c:239-294, 1688-1817, 1986-2368` | `capture_state`, `stop_reason`, `agent_status`, what CUPTI has enabled | ARM, SNAPSHOT, STOP, CLOSE, (re)start | relaxed stores of callbacks race with check-then-store; CUPTI calls fail half way |
| Activity buffers, `cupti_agent.c:1131-1418` | buffers requested and completed | buffer callbacks, flush and wait | quiet-period heuristic with two deadlines |
| Control server, `cupti_agent.c:1819-1984`, `cupti.rs:349-612` | listener, backlog, one connection | `serve_snapshots`, `request` | a client times out while its request is still queued |
| Live measurement, `main.rs:1965-2987, 3296-3540` | offset, accumulated capture, host collectors | the whole `measure` command | cleanup on every error path |
| Injection, `core/src/inject.rs` | the target's registers and stack | attach, remote call, restore, detach | one step of several fails |
| Host collectors, `collector/src/{linux,uprobe,completed}.rs`, `bpf/xprobe.bpf.c` | ring buffers, drop counters, cancel flag | attach, poll, cancel, join, merge | threads that end out of order |
| Syscall aggregation, `bpf/xprobe.bpf.c:425-524`, `collector/src/syscall_aggregate.rs` | in-flight map (LRU), per-CPU groups | entry, exit, read | silent eviction |
| CPU sampling, `collector/src/cpu_sampling.rs` | perf counters and rings | arm, drain, disable | partial arming, sample bound |
| Correlator, `correlator/src/lib.rs` | none | five pairing algorithms, lifecycles, statistics | ties, nesting, reuse of an end |
| Artifacts, `main.rs:606-756`, `exporter/src/lib.rs` | files | create, write, sync, rename | crash between two steps |
| Inspection and identity, `core/src/inspect.rs` | `/proc` of the target | inspect, verify | PID reuse between query and use |
| Selectors and validation, `core/src/validate.rs`, `main.rs:2377-2536` | none | parse, validate, derive filters | three readers of one selector (validation, agent filter, correlator) must agree |
| Resolution and CPU analysis, `core/src/{resolve,cpu_sampling_analysis}.rs` | none | addresses to symbols and back, stacks to inventories | segments that share pages, recursion, replaced code |
| Commands, `main.rs:265-934, 1312-1699` | options, verdict, exit | measure, trace, export, inspect, resolve, validate | a late failure must not hide an earlier one |
| Doctor, discovery, compatibility | none | environment queries | |

Properties wanted of each: what is published is whole and in order; what the
CLI calls complete is complete; a loss is counted; a start and an end belong to
the same range; no command leaves CUPTI collecting; every command ends; a
restored target is as it was; an algorithm pairs what its definition pairs.

## 2. Modules

```
PrefixLog        abstract append-only log
CaptureControl   capture_state, stop_reason, agent_status; stop_capture
  RecordLog      enqueue_record                 -- implements PrefixLog
    RecordLogProofs
    ExactCapture reply, decoding, accumulation, verdict
      ExactCaptureProofs
  AggregateTable aggregate_activity, reply, decoding, inventory
NvtxRanges       the range table and the target's own ranges
  NvtxRangesProofs
AgentServer      effect of each command on the Agent
  LiveSession    control socket and `xprobe measure` commands
    LiveSessionProofs

NameFilters      regular expressions, the Agent's name filter, group hints
Resolve          segments, maps, symbols, file offsets, runtime addresses
  Selectors      selector parsing and `validate`      (with NameFilters)
    MeasureSelectors  the correlator's reading of the same selectors
      Correlator      selection, limits, the policies, statistics
        Completed     finished captures, merged and measured
  CpuAnalysis    stacks, hotspots, perf maps
Analysis         the modules above on all small inputs

Target           the process, its PID, inspect and verify_target
  HostCapture    uprobe and Linux collectors, measurement loop (with Completed)
  SyscallAggregate, CpuSampling, RemoteCall
FlushWait        activity buffers and the flush
EventsOut        artifact and exit
HostCommands     composes Target ... EventsOut into the commands
MC*              instances for TLC
```

**PrefixLog** is what the record log promises: a sequence to which one record
at a time is appended and of which nothing is ever changed.

**CaptureControl** holds the three control variables and the steps of
`stop_capture`: flush (which returns `agent_status`, line 1801), shutdown, the
load of `capture_state` (1809) and the two stores (1811, 1813) are separate
steps, and callbacks store between any of them. `CallbacksDrained` states
whether CUPTI, when it disables callbacks and activities, waits for the ones
that run. The code relies on neither answer explicitly. All passing runs have it
FALSE, which allows every behaviour that TRUE allows: a callback may end before
or after the shutdown. What outlasts it is remembered (`late`), and properties
that it breaks say so.

**RecordLog** has one action per shared access of `enqueue_record`: entry
check, `fetch_add`, the two stores of the limit path, the record, the ready
flag, the load of the watermark, the load of a flag, the compare-and-swap. With
`StoreBuffering` the ready flag may stay in the thread's x86-64 store buffer
while the thread itself reads on; locked instructions empty the buffer. The
weak compare-and-swap does not fail spuriously on x86-64. `missed` remembers
the slots whose flag a thread took for unset while it was in another thread's
buffer. Records are model values. `record_count` needs no bound: claims stop once the limit is stored, so
it exceeds the capacity by at most the number of threads.

**ExactCapture** adds `write_capture`, which reads the watermark, then the
claim counter, then the state, then the slots, and the CLI: `decode_capture`
(`WellFormed`), `append_cuda_capture` (`Accept`, `Offset`) and
`reject_incomplete_capture` (`Judge`). `late` remembers that a callback was
still inside `enqueue_record` after CUPTI's shutdown.

**AggregateTable** has the probe, the claiming compare-and-swap, the
publication, and each atomic update of a counter as steps of their own, with
counters of width `MaxValue` that refuse to overflow (`atomic_add_checked`), and
the reader that sums, then copies group by group and field by field, beside
callbacks that outlast the shutdown (`late` is how often each activity does).
The byte total is updated exactly like the duration total and is left out.

**NvtxRanges** has the probe, the choice of a candidate, the swap, the fill on
the start side and find, grab, copy, tombstone on the end side. `open` and
`generation` are the target's own view of its ranges and serve as the
reference. The target may leave ranges open when a thread exits and reuse the
thread's id, or end a process range twice; `careless` remembers that it did.

**AgentServer** maps a state of the Agent to the set of states a command may
leave it in, given that any CUPTI call or callback may fail. Commands run under
`flush_mutex` one at a time, so a command is one step here; how callbacks
interleave with it is the subject of the modules above.

**LiveSession** runs the commands of several clients, each through
`prepare_cupti_activation`, ARM with `cleanup_failed_arm`,
`start_host_collectors`, the loop of `collect_live_measurement`, and
`stop_cupti_agent`. Requests wait in the backlog and are served even if their
client has given up. A client in `managed` injects and owns a private socket;
the others use the socket of a preloaded Agent. `overlapped` remembers which
commands ran at the same time.

**NameFilters** has regular expressions over a small alphabet with a matcher,
`bounded_kernel_name_filter` and `regex_literal`, which turn some of them into
exact, prefix, suffix or substring filters, the Agent's comparison of bounded
names, and `aggregate_selector_hint`. **Resolve** works on segments and maps with pages of
four bytes. **Selectors** is `validate::run`: parsing, resolution of endpoints,
compatible and recommended policies, capabilities; **MeasureSelectors** is the
other reader of the same text, `Selector::parse` and its matching in the
correlator. Selectors are structured (scheme, parts, pattern), not strings.

**Correlator** has `measure` with its error paths, the duration window, the
sample limit, exact lifecycles, `first-after`, `nearest`, `stack-nested`,
`stream-order` and the statistics. **Completed** decodes finished captures of
both formats, merges and measures them. **CpuAnalysis** loads the target's maps
and, with Python symbols, the first perf map that can be read, of which lines may
be malformed; it then groups samples, counts inclusive and leaf samples and
symbolizes, leaving modules that cannot be read unnamed. These modules have no
state; **Analysis** builds every small input for one of them at a time, and
its invariants compare the result with a definition that does not say how it is
computed.

**Target** is the process behind a PID: it may exit, and another one may get the
PID, between any two reads of `/proc`. A process is named by its start time.

**HostCapture** has a target that enters and leaves calls (nested, on two
levels), a collector per uprobe and one for everything else, each with a ring,
a drop counter, a limit, attach, arm, ready, poll and stop steps, and the loop of
`collect_live_measurement`: wait until all are ready, the deadline, cancel,
join, judge (by `Correlator!measure`). The order of attachment, the missing
final drain and the separate ends of two uprobe collectors are the code's.

**SyscallAggregate** has the entry and exit programs in the steps between which
another CPU or the reader may act. An exit program looks up an element of the LRU
map, reads the number and the time there, and deletes the entry; until it has
read them, an entry on another CPU may recycle the element under its pointer. It
then stores count, total, minimum and maximum one by one, and the reader copies
them one by one, CPU by CPU, before it reads the counters and the open calls. **CpuSampling** has the thread list,
opening and enabling of counters one by one, sampling into rings that fill up,
announced and unannounced losses, disabling and the final drain.

**RemoteCall** has one step per ptrace request that matters: save, enter, wait,
restore of every remote call of `activate`, any of which may fail, and detach.
**FlushWait** has CUPTI handing buffers back on its threads, the poll of
`wait_for_activity_buffers` as two steps (the count, then the clock), and ARM,
which resets the counters while a buffer of an earlier capture is still out.

**EventsOut** has the artifact's temporary file, its sync, the replacement, the
directory sync, and how an export failure and a measurement failure are told.
**HostCommands** enumerates the options that clap accepts, dispatches them as
`run_measure`, `run_measure_spec` and `run_trace` do, and takes the chosen
collection to its verdict and exit. Once a verdict is known the variables of the
collection are reset, because nothing reads them any more.

A value used several times in a definition is passed to an operator or bound by
a quantifier over a singleton, so that TLC computes it once.

## 3. Runs

| Run | Result | Distinct states | Shows |
|---|---|---|---|
| record_log | holds | 0.34 M | with store buffers what is published is whole and the log is append-only; every claim is published eventually, and nothing is stranded when callbacks rest, unless a flag was missed |
| exact_capture | holds | 2.5 M | contiguous and well-formed replies that add up to a prefix, with callbacks and store buffers beside every read; an accepted capture is everything the target produced unless a flag was missed or a callback was late |
| exact_capture_stranded | violated | | finding 1 |
| aggregate | holds | 3.9 M | an accepted inventory is exact up to late activities; a reply that does not decode implies an error or a late activity |
| nvtx_ranges | holds | 2.6 M | starts and ends pair, the table holds the open ranges, every loss is counted |
| nvtx_reuse | violated | | finding 3 |
| session | holds | 0.59 M | success means the command's own and whole capture; every command ends; under every fault |
| session_host_failure | violated | | finding 2 |
| analysis | holds | 0.13 M | twelve statements about the algorithms, below |
| host_commands | holds | 0.97 M | twelve statements about collectors, injection, flush, artifact and commands, below |
| host_same_endpoint | violated | | finding 4 |
| injection_failure | violated | | finding 5 |

`analysis` checks for every small input that

- the Agent's filter selects what the regular expression selects
  (`FilterAgreesWithSelector`), and the selector that an inventory suggests finds
  its group again (`HintFindsItsGroup`);
- what `validate` accepts the correlator can measure
  (`ValidatedMeansMeasurable`);
- a resolved symbol is where the loader put it, and the selector of a hotspot
  probes the sampled function (`ResolvedIsWhereTheSymbolIs`);
- exact and nested pairs are calls (`ReportedPairsAreCalls`), heuristic pairs are
  the ones their definition prefers (`HeuristicPairsAreBest`), every event is
  counted once (`NothingIsUncounted`), a sample limit keeps the first pairs and
  events after the duration do not count (`BoundsKeepThePrefix`), and percentiles
  are nearest-rank ones (`PercentilesAreMeasured`);
- merged captures are measured only if each is whole (`InputsAreWhole`), complete
  sample inventories count every sample (`InventoryCountsTheSamples`), and Python
  frames carry current names (`PythonNamesAreCurrent`).

`host_commands` checks that

- the pairs of a host measurement are calls of the target
  (`PairsAreCallsOfTheTarget`) and no collector of two different endpoints filled
  up unnoticed (`NoCollectorFilledUp`);
- a complete system call inventory is that of the calls that ended while it was
  armed (`InventoryIsOfTheCalls`), a complete sampling has every sample
  (`SamplesAreAllThere`);
- a report and a result are of one process, the inspected one
  (`ResultIsOfTheTarget`), and an injected target goes on where it was
  (`TargetIsLeftAsItWas`);
- a flush waits for a quiet period (`FlushWaitsForQuiet`) and leaves exactly the
  capture's activities (`FlushedIsOfTheCapture`);
- the artifact is the old or the whole new one at every moment
  (`ArtifactIsOldOrWhole`), the exit tells which (`ExitTellsTheArtifact`) and why
  (`FailureKeepsItsCause`);
- every command ends (`CommandEnds`).

The type invariants of the record log and the exact capture are checked by their
runs and proved. Those of `AggregateTable`, `NvtxRanges` and `LiveSession` hold
in the same instances (add `TypeOK` to the configuration); the runs spend their
time on the properties above.

Deadlock is checked in the NVTX and session runs, whose idle end is an explicit
stuttering action. In the log, capture and table runs the system really stops:
after STOP callbacks return at once and nobody sends another request. In
`analysis` an input is finished, in `host_commands` the command has exited.

**Bounds.** Two threads are enough for every race between two callbacks. A
capacity of three gives a gap below two finished records and, one claim later,
the limit; `exact_capture` has a capacity of two, one record on either side of a
snapshot. The safety properties of both are proved for every number of threads
and records. The aggregate run has two keys with equal hashes
in two slots (a wrap-around, a full table, a duplicate) and counters that
overflow with the second long activity (`MaxValue` 7, durations 1 and 4). The
NVTX run has two threads with one push range each and one process range in two
slots, so that they collide and the table is full with one range to spare, two
starts of each push range, so that tombstones are reused (`MaxGeneration`), and
one malformed call (`MaxUnknown`).
The session run has two clients, each with its own or the shared socket, and
captures of at most one record: what matters there is whose capture a record
belongs to and whether it is read once, twice or not at all. It holds with
`Nvtx` TRUE as well, which keeps the subscriber across captures.

In `analysis`, patterns have up to five of seven characters (an ordinary one,
the escape, both anchors, two operators and the one that makes an assertion
after an escape), names up to four with a bound of four, so that the cut falls
inside; traces have up to four events of two threads at four instants, enough
for a call nested in another with all four at different times, for crossing,
ties and a skipped event; latencies number up to 101, past
the first count at which the 99th percentile is not the maximum; binaries have
two segments, which may share a page, and two functions.
In `host_commands`, three calls in two levels meet rings of two records and, over
a duration, a limit of two events, so that uprobe collectors fill up with one
endpoint or with two; two system calls, on one CPU or two, with one number or
two, meet one in-flight element and one group, so that a start is evicted or
recycled and the group table is full. The same holds with a third call (27
million states); two threads
with four samples meet rings of two and a bound of three; two processes share
the PID; two buffers, one of which may be old, meet a quiet period of two polls
and a deadline of three. `FlushWait` alone was also checked with three buffers and
a deadline of four.

**Fairness.** `RecordLog!FairSpec` assumes weak fairness of each thread that is
inside a callback (the operating system runs it, and the code never blocks
there) and of the store buffers; nothing obliges the target to call CUDA again.
`LiveSession!FairSpec` assumes that the control thread serves its backlog, that
a started command takes its next step, and, strongly, that the collection loop
ends: the deadline of `collect_live_measurement` (`main.rs:1979`) is reached
whatever the snapshots say. It does not assume that timeouts happen.
`HostCommands!Spec` assumes weak fairness of the command's own steps: each of
its waits has a deadline (`main.rs:1979`, the collectors' timeouts, the remote
call's, the flush's), so no step waits for the target. Nothing is assumed of the
target, the kernel or CUPTI. The two steps that only compute (judging a capture,
draining the samples) are stated to be taken with `[]<>`, which TLC evaluates
faster than their enabledness.

## 4. Findings

Each is a disagreement between a document of the repository and the code,
reproduced by a run. The lines are in `PROJECT.json`.

1. `exact_capture_stranded`: the release store of `record_ready` and the
   following acquire loads are not ordered on x86-64; two callbacks can each
   miss the other's flag, and the last record stays unpublished although it is
   written. `observed_records` then exceeds the retained records while the
   state is STOPPED.
2. `session_host_failure`: if the host collectors fail to start after ARM, the
   command ends without STOP or CLOSE.
3. `nvtx_reuse`: a range left open by an exited thread is handed to a later
   thread with the same id.
4. `host_same_endpoint`: a duration measurement between a uprobe and itself has
   one collector, which never says that it filled up and whose events do not
   exceed `max_events`; it is reported as completed instead of
   `EVENT_RATE_TOO_HIGH`. `NoCollectorFilledUp` shows that two different
   endpoints, and the Linux collector, are never reported full.
5. `injection_failure`: a remote call that has timed out and cannot be stopped is
   left without an attempt to restore registers and stack.
   `TargetIsLeftAsItWas` shows that this and a failing restore are the only ways
   to leave a running target changed.

More limits of the code are visible in the models as conditions of
properties. A record stays unpublished when its delayed flag was missed (finding
1): `QuietMeansCommitted`, `ClaimsArePublished` and `CompleteMeansEverything`
except exactly the watermark that stands at a missed flag. A limit that a
callback stores between `stop_capture`'s check of `capture_state` and its own
stores is overwritten by STOPPED (`cupti_agent.c:1809`), and the record of a
callback that outlasts CUPTI's shutdown may miss the final reply;
`CompleteMeansEverything` excepts captures with such a callback. In aggregate
mode the four fields of a group are copied beside it (`cupti_agent.c:1612`):
`InventoryIsExact` lets each field show it or not, and `MalformedOnlyOnError`
lets the reply fail to decode. A reply does not identify its ARM, so two commands on one
Agent can take each other's records for their own (`main.rs:2923`);
`SuccessIsOwnCapture` therefore leaves out commands that overlapped. After a
callback error STOP returns before it disables CUPTI (`cupti_agent.c:1801`);
with `Errors = {"callbacks"}` `ExitLeavesAgentQuiet` fails for that reason too.

The two runs of the host side state such limits as exceptions of their
properties, each as narrow as the code allows:

- `\<` and `\>` in a pattern are reduced to the bare character
  (`main.rs:2508`; `FilterAgreesWithSelector`).
- A uprobe path that is not canonical passes validation and matches no event
  (`resolve.rs:182`), and validation accepts NVTX endpoints that are not a start
  and an end, and nested endpoints that name one function in two ways, which the
  correlator refuses (`ValidatedMeansMeasurable`).
- A runtime address on a file page that two segments share may be of the other
  segment; the probe is right (`resolve.rs:222`; `ResolvedIsWhereTheSymbolIs`).
- Perf map entries that overlap with different starts are told apart by their
  start, not by their age (`cpu_sampling_analysis.rs:706`;
  `PythonNamesAreCurrent`).
- Two uprobe collectors stop on their own; a return recorded after the last
  entry may be taken for the return of an earlier call
  (`uprobe.rs:324`; `PairsAreCallsOfTheTarget`).
- Samples lost after the last one taken by a thread are never announced
  (`SamplesAreAllThere`); a measurement that timed out is not verified again
  (`main.rs:3375`; `ResultIsOfTheTarget`).
- A system call whose exit program still runs when collection is disarmed may be
  in some figures of its group and not in others, and its minimum may be read as
  0 (`xprobe.bpf.c:514`, `syscall_aggregate.rs:179`); and one whose element of
  the LRU map is recycled between its lookup and its reads (`xprobe.bpf.c:480,
  450`) is counted with the other call's number or time. Neither makes the
  inventory incomplete (`InventoryIsOfTheCalls`).
- A failed restore leaves the target in the foreign call, besides finding 5
  (`TargetIsLeftAsItWas`).
- A buffer that CUPTI hands back more than 100 ms after the last one misses the
  reply, and one handed back between the enabling of activities and the ACTIVE
  state is passed over (`cupti_agent.c:1390, 1293`; `FlushWaitsForQuiet`,
  `FlushedIsOfTheCapture`).
- If only the directory sync fails the new artifact is there although the command
  failed (`main.rs:738`; `ExitTellsTheArtifact`), and `--format` without
  `--events-out` hides the cause of a failure (`main.rs:1675`;
  `FailureKeepsItsCause`).

## 5. What is proved

The four modules `*Proofs` are checked by TLAPS to the last step. Each theorem
holds for every value of the constants that meets the named assumptions of the
modules, which TLC evaluates on every run: `Capacity` positive, `NoRecord` not a
record and the flags Boolean in the record log; at least one slot and one range
in the NVTX table (`RangeAssumption`); model values that are not clients
(`AgentAssumption`, `SessionAssumption`). The sets of threads, records, ranges
and clients are otherwise arbitrary.

### The record log and the exact capture (`RecordLogProofs`, `ExactCaptureProofs`)

- `TypeCorrect`, `PublishedIsWritten`, `Implementation`. `PublishedWritten` is
  not inductive: nothing in it says why a raised flag means a written record.
  The inductive invariant `WatermarkInv` adds that each claimed slot that is not
  yet ready has exactly one owner (`OwnersInv`), that an owner past its write
  has written its slot and that a flag, raised or on its way, implies a written
  slot (`WrittenInv`), and that a thread about to swap has seen the flag at its
  copy of the watermark (`CoveredInv`). They hold with and without store
  buffers. The refinement of `PrefixLog` follows: the only step that changes
  the published records is a successful swap, and it appends one.
- `NothingElseStrands`: with or without store buffers, only a missed flag strands
  a record. `CommitInv` adds that the flag at the watermark is raised, or on its
  way, only while some thread is in its loop with a copy that makes it notice,
  or after it was missed. `FencedMissesNothing` shows that with `~StoreBuffering`
  no flag is ever missed.
- `CaptureTypeCorrect`, `DeliveryIsPrefix`, `RepliesAreAccepted`. Every step of
  ExactCapture is a step of RecordLog or leaves it alone, so the log's
  invariants carry over (`CaptureIsLog`). `ReaderInv` relates what the control
  thread has read so far to the log: the watermark it read is at most the
  present one and at most the counter it read next, which is at least what the
  client knows. `TurnInv` keeps STOP and SNAPSHOT apart.
- `CompleteIsEverything`: a capture that passes for complete is everything unless
  a flag was missed or a callback was late. `EndingInv` says that past shutdown,
  with no late callback, none runs and the log is frozen, `FinalReplyInv` that
  the values read for the final reply are then equal to it.
  `DrainedIsNeverLate` shows that with `CallbacksDrained` no callback is late.

### The NVTX range table (`NvtxRangesProofs`)

`TableIsSafe` proves `TableInv`, from which `TableHasItsTypes`,
`EndsHaveTheirStarts` (`EndsArePaired`), `TableIsExact`
(`TableHoldsOpenRanges`) and `NoLossIsSilent` (`LossesAreCounted`) follow, for
any number of slots, threads and ranges and any hash function. What the
properties leave unsaid, and the induction needs:

- `ClaimInv`: a slot in the state WRITING has exactly one thread that claimed
  it, so nobody else's fill, copy or tombstone can hit it;
- `ProbeInv`: how far each search has come, and that a start's candidate lies
  where its probe has been;
- `RangeInv`: a range has at most one slot, and no slot on the way to it is
  empty (`Reached`), which is why a search that stops at an empty slot misses
  nothing. Tombstones exist to keep this true. For each thread it says where its
  range stands between the steps (`Stands`), and for each range between two
  callbacks that it is in the table exactly if it is open and its start was
  recorded (`Rests`);
- `RecordInv`: recorded ranges are not younger than the target's own, and ends
  have their starts;
- `CountInv`: the attempts are the recorded, the lost, the malformed and those
  still under way.

`RangeInv` assumes a target that balances its ranges, as the properties do; the
others hold whatever the target does.

### The sessions (`LiveSessionProofs`)

`SessionIsSafe` proves `SessionInv`, and `SuccessIsComplete` derives
`SuccessIsOwnCapture`, for any number of commands, any backlog and every fault.
The hazard is a request of a command that gave up: it is still in the backlog
and is served while a later command runs. The argument is about order. A command
on its own sends ARM last into the backlog (`AsksLast`), so that once ARM is
served nothing of an earlier command is left; from then on the only request is
its own, and the Agent's operations either keep the capture or make it inactive
(`Keeps`), never reopen it. `OnCourse` says this for every stage of a command,
`ReplyIsOwn` that a reply continues what the command has and that a reply that
is not ACTIVE is final, `HasRecords` that what it has is a prefix of its
capture.

### What is only model-checked

The liveness properties, the aggregate table, the sessions' other properties,
the algorithms of the host side (most of them fold over sequences) and the
commands.

## 6. Not modelled

- A measurement of one host and one CUDA endpoint: LiveSession and HostCapture
  model the two halves, the merge of their events is that of Completed, and the
  product of both is out of reach of a small run.
- The reallocation of the Agent's stores on ARM with callbacks in flight
  (`cupti_agent.c:226`) depends on what CUPTI guarantees when it disables them;
  the models of the stores start after ARM.
- The Agent's output to a file without a CLI (`xprobe_cupti_agent_flush`,
  `write_output`), which uses the same flush and the same stores.
- The one-probe commands `uprobe` and `cupti`, which run one collector of
  HostCapture or read one socket of LiveSession.
- Reading ELF, DWARF and USDT notes from bytes, the environment queries of
  `discover`, `doctor` and `cupti_compat`, the trace formats, JSON and text
  output: sequential transformations of bytes without state. Resolve and
  Selectors begin where the symbols, segments and notes have been read.
- Numeric fields of records (grids, sizes, devices), the errors counter of a
  system call group, and a failing `bpf_probe_read_kernel`.

To be proved next: `FlushWaitsForQuiet`, `TargetIsLeftAsItWas` and
`ArtifactIsOldOrWhole`, whose modules use no recursion, then the slot ownership
of AggregateTable. Liveness and what recursive definitions compute for all
inputs are beyond the prover and stay with TLC.

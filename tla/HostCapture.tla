----------------------------- MODULE HostCapture -----------------------------
(***************************************************************************)
(* A live measurement of host events: the collectors of uprobe.rs and      *)
(* linux.rs in threads of the command, the eBPF programs of xprobe.bpf.c   *)
(* in the target's threads, and the driver of cli/src/main.rs.             *)
(*                                                                         *)
(* A uprobe endpoint has a collector of its own, which records as soon as  *)
(* its probe is attached; the Linux endpoints share one, which records     *)
(* only once armed.  Every collector has its own ring buffer, deadline and *)
(* limit.  One thread of the target enters and leaves the probed function  *)
(* (or system call); a clock counts its boundaries.                        *)
(***************************************************************************)
EXTENDS Completed, Target

CONSTANTS
    Requests,   \* from, to, policy, samples, duration, max_events
    MaxCalls,   \* calls that the target makes
    MaxDepth,   \* of recursion (a system call has depth one)
    RingSlots   \* events that a ring buffer holds

VARIABLES
    request,     \* with the endpoints that validate::run made of it
    cancelled,
    calls,       \* calls begun so far
    now,         \* boundaries passed so far
    open,        \* stack of open calls; hooked: the return will be trapped
    collectors,
    driver,      \* of main.rs: where it is, what follows a join
    outcome

hostVars == <<request, cancelled, calls, now, open, collectors, driver, outcome>>

Pending == [status |-> "pending", code |-> "none", artifact |-> FALSE, events |-> <<>>, pairs |-> <<>>]
Failed(code) == [Pending EXCEPT !.status = "failed", !.code = code]

Endpoint(r, b) == IF b = 0 THEN r.start ELSE r.end
IsUprobe(r, b) == Endpoint(r, b).kind \in {"HostEntry", "HostReturn"}
IsOfProcess(r, b) == IsUprobe(r, b) \/ Endpoint(r, b).kind \in {"PythonGcStart", "PythonGcEnd"}

-----------------------------------------------------------------------------
(* The target and the eBPF programs.                                       *)

RawEvent(b, call) == [boundary |-> b, call |-> call, ts |-> now + 1, from |-> process.start]

\* normalize_event of either collector.
normalize_event(raw) ==
    LET endpoint == Endpoint(request, raw.boundary)
        e == IF IsUprobe(request, raw.boundary) THEN normalize_uprobe(endpoint) ELSE normalize_linux(endpoint)
    IN  [type |-> e.type, what |-> e.what, boundary |-> raw.boundary, call |-> raw.call, ts |-> raw.ts,
         from |-> raw.from, seq |-> 0, thread |-> 1, key |-> NoKey, stream |-> 1, pid |-> 1,
         clock |-> "HostMonotonic", error |-> <<>>]

(* Mutant: an event that finds no room is not counted. *)
SubmitSilently(c, event) ==
    IF Len(c.ring) < RingSlots THEN [c EXCEPT !.ring = Append(@, event)] ELSE c

\* bpf_ringbuf_reserve, or one more on the dropped counter.
Submit(c, event) ==
    IF Len(c.ring) < RingSlots THEN [c EXCEPT !.ring = Append(@, event)]
    ELSE [c EXCEPT !.dropped = @ + 1]

\* A uprobe or USDT probe belongs to the process it was attached to; the programs
\* compare the PID with the one configured, and those of the Linux collector
\* look at the armed flag.
Fires(c, b) ==
    \E link \in c.links : /\ link.boundary = b
                          /\ IsOfProcess(request, b) => link.to = process.start
                          /\ IsUprobe(request, b) \/ c.armed

Boundary(b, call, trapped) ==
    /\ process.runs
    /\ now' = now + 1
    /\ collectors' = [i \in DOMAIN collectors |->
                        IF trapped /\ Fires(collectors[i], b)
                        THEN Submit(collectors[i], RawEvent(b, call)) ELSE collectors[i]]
    /\ UNCHANGED <<request, cancelled, driver, outcome, process, report>>

Enter ==
    /\ calls < MaxCalls
    /\ Len(SelectSeq(open, LAMBDA c : c.from = process.start)) < IF IsUprobe(request, 0) THEN MaxDepth ELSE 1
    /\ calls' = calls + 1
    /\ open' = Append(open, [call |-> calls + 1, from |-> process.start,
                             hooked |-> \E i \in DOMAIN collectors : Fires(collectors[i], 1)])
    /\ Boundary(0, calls + 1, TRUE)

Leave ==
    /\ open # <<>>
    /\ LET top == Last(open)
       IN  /\ top.from = process.start
           /\ Boundary(1, top.call, IsUprobe(request, 1) => top.hooked)
    /\ open' = Front(open)
    /\ UNCHANGED calls

-----------------------------------------------------------------------------
(* capture of uprobe.rs and of linux.rs.                                   *)

linux_capture_event_limit(r, endpoints) ==
    Min({r.max_events, IF r.samples = Unlimited THEN r.max_events ELSE r.samples * endpoints + endpoints})

(* Mutant: two uprobe collectors share the limit. *)
LimitShared(r, probes) ==
    IF ~IsUprobe(r, probes[1]) THEN linux_capture_event_limit(r, Len(probes))
    ELSE IF r.samples = Unlimited THEN r.max_events \div 2 ELSE r.samples

Limit(r, probes) ==
    IF ~IsUprobe(r, probes[1]) THEN linux_capture_event_limit(r, Len(probes))
    ELSE IF r.samples = Unlimited THEN r.max_events ELSE r.samples

Collector(r, probes) ==
    [pc |-> "attaching", probes |-> probes, links |-> {}, armed |-> FALSE, ready |-> FALSE,
     limit |-> Limit(r, probes), ring |-> <<>>, got |-> <<>>, dropped |-> 0, full |-> FALSE]

Become(i, c) ==
    /\ collectors' = [collectors EXCEPT ![i] = c]
    /\ UNCHANGED <<request, cancelled, calls, now, open, driver, outcome, process, report>>

\* Every error, from validate_request on, returns; returning detaches and frees.
Fail(i) == Become(i, [collectors[i] EXCEPT !.pc = "failed", !.links = {}, !.ring = <<>>, !.got = <<>>])

Missing(c) == SelectSeq(c.probes, LAMBDA b : \A link \in c.links : link.boundary # b)

\* Failure includes that of validate_request, load_object and configure_object.
AttachProbe(i) ==
    /\ collectors[i].pc = "attaching" /\ Missing(collectors[i]) # <<>>
    /\ \/ /\ process.runs
          /\ Become(i, [collectors[i] EXCEPT !.links = @ \cup
                          {[boundary |-> Missing(collectors[i])[1], to |-> process.start]}])
       \/ Fail(i)

\* arm_object, of the Linux collector only.
Arm(i) ==
    /\ collectors[i].pc = "attaching" /\ Missing(collectors[i]) = <<>>
    /\ ~IsUprobe(request, collectors[i].probes[1]) /\ ~collectors[i].armed
    /\ \/ Become(i, [collectors[i] EXCEPT !.armed = TRUE])
       \/ Fail(i)

\* ready.send fails once the driver has given up: it then holds no receiver.
Ready(i) ==
    /\ collectors[i].pc = "attaching" /\ Missing(collectors[i]) = <<>>
    /\ IsUprobe(request, collectors[i].probes[1]) \/ collectors[i].armed
    /\ IF outcome = Pending
       THEN Become(i, [collectors[i] EXCEPT !.pc = "polling", !.ready = TRUE])
       ELSE Fail(i)

\* ring_buffer.poll takes everything; what exceeds the limit is thrown away.
Poll(i) ==
    /\ collectors[i].pc = "polling" /\ ~cancelled
    /\ Len(collectors[i].got) < collectors[i].limit /\ collectors[i].ring # <<>>
    /\ LET all == collectors[i].got \o collectors[i].ring
       IN  Become(i, [collectors[i] EXCEPT !.ring = <<>>,
                        !.got = SubSeq(all, 1, Min({Len(all), collectors[i].limit}))])

\* The Linux collector says that it filled up unless it takes samples.
record_limit_reached(c) ==
    /\ ~IsUprobe(request, c.probes[1]) /\ request.samples = Unlimited
    /\ Len(c.got) = c.limit

\* The limit, the flag or the deadline ends the loop; what is still in the ring
\* is not read.  The counter is read, or that fails, and the probes go.
Stop(i) ==
    /\ collectors[i].pc = "polling"
    /\ \/ Become(i, [collectors[i] EXCEPT !.pc = "ended", !.links = {}, !.ring = <<>>,
                                          !.full = record_limit_reached(collectors[i])])
       \/ Fail(i)

CollectorStep(i) ==
    AttachProbe(i) \/ Arm(i) \/ Ready(i) \/ Poll(i) \/ Stop(i)

-----------------------------------------------------------------------------
(* collect_live_measurement.                                               *)

Driver(pc, next) == [pc |-> pc, next |-> next]
Halt(result) == outcome' = result /\ driver' = Driver("done", "none")
Unchanged == UNCHANGED <<request, calls, now, open, collectors, process, report>>

validate_live_limits(r) ==
    /\ r.samples # 0 /\ r.duration # 0 /\ r.max_events # 0
    /\ r.samples # Unlimited \/ r.duration # Unlimited

\* Two equal endpoints are one probe; uprobes are compared as they were given.
Boundaries(r) ==
    IF r.from = r.to \/ (~IsUprobe(r, 0) /\ r.start = r.end) THEN <<0>> ELSE <<0, 1>>
HostProbes(r) == SelectSeq(Boundaries(r), LAMBDA b : IsUprobe(r, b))
LinuxProbes(r) == SelectSeq(Boundaries(r), LAMBDA b : ~IsUprobe(r, b))

\* A collector for every uprobe, and one for all other host probes.
start_host_collectors(r) ==
    [i \in DOMAIN HostProbes(r) |-> Collector(r, <<HostProbes(r)[i]>>)]
      \o IF LinuxProbes(r) = <<>> THEN <<>> ELSE <<Collector(r, LinuxProbes(r))>>

\* prepare_live_collection after inspect::run: why q is not measured.
Refusal(q, validated) ==
    IF ~validate_live_limits(q) THEN "SessionLimitExceeded"
    ELSE IF ~validated.ok THEN validated.code
    ELSE IF ~validated.valid THEN "Issue"
    ELSE verify_target(report.start)

Begin ==
    /\ driver.pc = "idle" /\ report.stage = "done"
    /\ \E q \in Requests : \E v \in {validate_run(q.from, q.to, q.policy)} :
         \/ /\ Refusal(q, v) # "ok"
            /\ Halt(Failed(Refusal(q, v)))
            /\ UNCHANGED <<request, collectors>>
         \/ /\ Refusal(q, v) = "ok"
            /\ request' = q @@ [start |-> v.start, end |-> v.end]
            /\ driver' = Driver("waiting", "none")
            /\ collectors' = start_host_collectors(request')
            /\ UNCHANGED outcome
    /\ UNCHANGED <<cancelled, calls, now, open, process, report>>

\* wait_for_host_collectors waits for one after the other.  Once all are ready
\* the target is verified again.
Started ==
    /\ driver.pc = "waiting" /\ \A i \in DOMAIN collectors : collectors[i].ready
    /\ IF verify_target(report.start) = "ok"
       THEN driver' = Driver("collecting", "none") /\ UNCHANGED cancelled
       ELSE cancelled' = TRUE /\ driver' = Driver("joining", verify_target(report.start))
    /\ UNCHANGED outcome /\ Unchanged

\* The next one is gone, or still not ready after the timeout.
NotStarted ==
    /\ driver.pc = "waiting"
    /\ \E i \in DOMAIN collectors :
         /\ ~collectors[i].ready /\ \A j \in 1..(i - 1) : collectors[j].ready
         /\ \/ driver' = Driver("joining", "SessionLimitExceeded")
            \/ collectors[i].pc = "failed" /\ driver' = Driver("joining", "Internal")
    /\ cancelled' = TRUE
    /\ UNCHANGED outcome /\ Unchanged

(* Mutant: a collector that failed is waited for. *)
JoinOnlyEnded(next) ==
    /\ \A i \in DOMAIN collectors : collectors[i].pc = "ended"
    /\ IF next \in {"captured", "timeout"} THEN driver' = Driver(next, "none") /\ UNCHANGED outcome
       ELSE Halt(Failed(next))

\* HostCollectors::join: in order, and the first error is returned while the
\* collectors after it are left to themselves.
Join(next) ==
    \/ /\ \A i \in DOMAIN collectors : collectors[i].pc = "ended"
       /\ IF next \in {"captured", "timeout"} THEN driver' = Driver(next, "none") /\ UNCHANGED outcome
          ELSE Halt(Failed(next))
    \/ /\ \E i \in DOMAIN collectors : /\ collectors[i].pc = "failed"
                                       /\ \A j \in 1..(i - 1) : collectors[j].pc = "ended"
       /\ Halt(Failed("Collector"))

Joining ==
    /\ driver.pc = "joining" /\ Join(driver.next)
    /\ UNCHANGED cancelled /\ Unchanged

\* refresh_live_sources: finished() and join().
Refresh ==
    /\ driver.pc = "collecting"
    /\ \A i \in DOMAIN collectors : collectors[i].pc \in {"ended", "failed"}
    /\ Join("captured")
    /\ UNCHANGED cancelled /\ Unchanged

\* finish_live_timeout.
Deadline ==
    /\ driver.pc = "collecting"
    /\ cancelled' = TRUE
    /\ driver' = Driver("joining", "timeout")
    /\ UNCHANGED outcome /\ Unchanged

\* completed_live_capture makes of a host capture what decode_json makes of
\* its envelope, and measure_live_capture treats the merged capture alike.
measure_live_capture ==
    measure_completed_inputs(
        [i \in DOMAIN collectors |->
           [form |-> "json",
            documents |-> << [envelope |-> TRUE, dropped |-> collectors[i].dropped,
                              record_limit_reached |-> collectors[i].full,
                              events |-> [n \in DOMAIN collectors[i].got |-> normalize_event(collectors[i].got[n])]] >>]],
        [from |-> request.from, to |-> request.to, policy |-> request.policy, samples |-> request.samples,
         duration |-> request.duration, max_events |-> request.max_events, dropped_events |-> 0])

Result(status, m) ==
    IF m.ok THEN [status |-> status, code |-> "none", artifact |-> TRUE, events |-> m.events,
                  pairs |-> m.result.outcome.pairs]
    ELSE [Failed(m.code) EXCEPT !.artifact = m.artifact # <<>>, !.events = m.artifact]

\* evaluate_live_result.  Without a pair the loop goes on to the deadline.
Evaluate ==
    /\ driver.pc = "captured"
    /\ \E m \in {measure_live_capture} :
         \/ /\ ~m.ok
            /\ Halt(Result("failed", m))
         \/ /\ m.ok
            /\ Len(m.result.outcome.pairs) >= request.samples \/ request.duration # Unlimited
            /\ Halt(IF verify_target(report.start) = "ok" THEN Result("completed", m)
                    ELSE Failed(verify_target(report.start)))
         \/ /\ m.ok /\ Len(m.result.outcome.pairs) < request.samples
            /\ Halt(Result("timed_out", m))
    /\ UNCHANGED cancelled /\ Unchanged

TimedOut ==
    /\ driver.pc = "timeout"
    /\ Halt(Result("timed_out", measure_live_capture))
    /\ UNCHANGED cancelled /\ Unchanged

DriverStep == Begin \/ Started \/ NotStarted \/ Refresh \/ Deadline \/ Joining
Judge == Evaluate \/ TimedOut

NoRequest == [from |-> <<>>, to |-> <<>>, policy |-> "none", samples |-> 0, duration |-> 0, max_events |-> 0,
              start |-> <<>>, end |-> <<>>]

HostInit ==
    /\ request = NoRequest /\ cancelled = FALSE
    /\ calls = 0 /\ now = 0 /\ open = <<>>
    /\ collectors = <<>>
    /\ driver = Driver("idle", "none") /\ outcome = Pending

\* What is collected is dropped with the collection.
DropCapture ==
    /\ request' = NoRequest /\ cancelled' = FALSE
    /\ calls' = 0 /\ now' = 0 /\ open' = <<>>
    /\ collectors' = <<>>
    /\ driver' = Driver("idle", "none") /\ outcome' = Pending

CollectHost == DriverStep \/ \E i \in DOMAIN collectors : CollectorStep(i)

\* What the target does before and after the command is of no consequence.
TargetCalls == driver.pc \notin {"idle", "done"} /\ (Enter \/ Leave)

-----------------------------------------------------------------------------
Measured == outcome.status \in {"completed", "timed_out"}

(* The pairs of a reported measurement of a call (between two different    *)
(* endpoints) are calls of the target: the end of a pair is the return of  *)
(* the call that its start entered, however the two collectors started,    *)
(* polled, dropped and stopped.  One exception is in the code: a uprobe    *)
(* collector stops by itself (its own limit, its own deadline), and once   *)
(* the return of a call that was entered after the last recorded entry is  *)
(* taken for another, later returns may be too.                            *)
PairsAreCallsOfTheTarget ==
    Measured /\ request.from # request.to => \A p \in ToSet(outcome.pairs) :
        \/ p.start.call = p.end.call
        \/ /\ IsUprobe(request, 0)
           /\ \E late \in ToSet(outcome.events) :
                /\ late.boundary = 1
                /\ \A e \in ToSet(outcome.events) : e.boundary = 0 => e.call < late.call

(* docs/cli-contract.md: "A duration capture that fills `--max-events`     *)
(* returns `EVENT_RATE_TOO_HIGH` rather than reporting partial success."   *)
FullIsNoSuccess ==
    Measured /\ request.samples = Unlimited =>
        \A i \in DOMAIN collectors : Len(collectors[i].got) < collectors[i].limit

(* A measurement over a duration is reported only if no collector filled   *)
(* up before its time: the Linux collector says so itself, and the events  *)
(* of a full uprobe collector exceed max_events with those of the other.   *)
(* One exception is in the code: if both endpoints are the same uprobe     *)
(* there is no other collector, and a full one is taken for a whole one.   *)
NoCollectorFilledUp ==
    Measured /\ (IsUprobe(request, 0) => request.from # request.to) => FullIsNoSuccess
=============================================================================

------------------------------ MODULE Correlator ------------------------------
(***************************************************************************)
(* correlator/src/lib.rs: from a bounded list of captured events to pairs  *)
(* of a start and an end, the counts of what stayed unpaired, and latency  *)
(* statistics.  Beside type and payload (MeasureSelectors) an event has    *)
(*   ts, seq    its timestamp and sequence number                          *)
(*   thread     process and thread, key its correlation key, stream its    *)
(*              device, context and stream; the last two may be NoKey      *)
(*   clock      its clock domain                                           *)
(* Keys are numbers, which is the order that the BTreeMaps iterate in.     *)
(***************************************************************************)
EXTENDS MeasureSelectors

NoKey == 0
Unlimited == 1000       \* a limit or duration that is not set

StableSort(seq, Less(_, _)) ==
    LET Before(i, j) == \/ Less(seq[i], seq[j])
                        \/ ~Less(seq[j], seq[i]) /\ i < j
    IN  [k \in DOMAIN seq |->
           seq[CHOOSE i \in DOMAIN seq : Cardinality({j \in DOMAIN seq : Before(j, i)}) = k - 1]]

ByTime(seq) == StableSort(seq, LAMBDA a, b : a.ts < b.ts)
ByStart(pairs) == StableSort(pairs, LAMBDA a, b : a.start.ts < b.start.ts)

Truncate(pairs, limit) == SubSeq(pairs, 1, IF limit < Len(pairs) THEN limit ELSE Len(pairs))

Pair(start, end) == [start |-> start, end |-> end]
Outcome(pairs, us, ue, ambiguous) ==
    [pairs |-> pairs, unmatched_start |-> us, unmatched_end |-> ue, ambiguous |-> ambiguous]

\* Starts and ends on one line: by time, a start before an end of its time;
\* the lifecycles then go by sequence number, the call stacks by position.
Timeline(starts, ends, bySequence) ==
    LET Tag(seq, b) == [i \in DOMAIN seq |-> [boundary |-> b, event |-> seq[i]]]
    IN  StableSort(Tag(starts, 0) \o Tag(ends, 1),
          LAMBDA a, b : \/ a.event.ts < b.event.ts
                        \/ a.event.ts = b.event.ts /\ a.boundary < b.boundary
                        \/ /\ a.event.ts = b.event.ts /\ a.boundary = b.boundary
                           /\ bySequence /\ a.event.seq < b.event.seq)

\* One pending start per key; a second start displaces it as ambiguous.
LifecycleStep(acc, entry, key) ==
    LET e == entry.event
        same == {p \in acc.pending : p[key] = e[key]}
        start == CHOOSE p \in same : TRUE
    IN  CASE e[key] = NoKey /\ entry.boundary = 0 -> [acc EXCEPT !.us = @ + 1]
          [] e[key] = NoKey /\ entry.boundary = 1 -> [acc EXCEPT !.ue = @ + 1]
          [] e[key] # NoKey /\ entry.boundary = 0 ->
               [acc EXCEPT !.pending = (@ \ same) \cup {e},
                           !.ambiguous = @ + Cardinality(same)]
          [] e[key] # NoKey /\ entry.boundary = 1 /\ same = {} -> [acc EXCEPT !.ue = @ + 1]
          [] OTHER -> [acc EXCEPT !.pending = @ \ same, !.pairs = Append(@, Pair(start, e))]

LifecycleOutcome(acc, limit) ==
    Outcome(Truncate(ByStart(acc.pairs), limit),
            acc.us + Cardinality(acc.pending), acc.ue, acc.ambiguous)

Lifecycle(starts, ends, limit, key) ==
    LifecycleOutcome(FoldLeft(LAMBDA a, x : LifecycleStep(a, x, key),
                              [pending |-> {}, pairs |-> <<>>, us |-> 0, ue |-> 0, ambiguous |-> 0],
                              Timeline(starts, ends, TRUE)),
                     limit)

(* Mutant: starts that are still pending are forgotten. *)
LifecycleForgetting(starts, ends, limit) ==
    [Lifecycle(starts, ends, limit, "thread") EXCEPT !.unmatched_start = 0]

correlate_thread_lifecycle(starts, ends, limit) ==
    Lifecycle(starts, ends, limit, "thread")

correlate_nvtx_lifecycle(starts, ends, limit) ==
    Lifecycle(starts, ends, limit, "key")

\* The events of one key; the keys in order; events without a key stay unpaired.
OfKey(seq, key, k) == SelectSeq(seq, LAMBDA e : e[key] = k)
KeysOf(starts, ends, key) ==
    [k \in 1..Max({e[key] : e \in ToSet(starts \o ends)} \cup {NoKey}) |-> k]
Unkeyed(starts, ends, key) ==
    Outcome(<<>>, Len(OfKey(starts, key, NoKey)), Len(OfKey(ends, key, NoKey)), 0)

Limited(outcome, limit) == [outcome EXCEPT !.pairs = Truncate(ByStart(@), limit)]

\* A group pairs up in time order if there are as many starts as ends.
ExactGroup(acc, s, e) ==
    LET late == {i \in DOMAIN s : e[i].ts < s[i].ts}
        kept == SelectSeq([i \in DOMAIN s |-> i], LAMBDA i : i \notin late)
    IN  CASE s = <<>> -> [acc EXCEPT !.unmatched_end = @ + Len(e)]
          [] s # <<>> /\ e = <<>> -> [acc EXCEPT !.unmatched_start = @ + Len(s)]
          [] s # <<>> /\ e # <<>> /\ Len(s) # Len(e) ->
               [acc EXCEPT !.ambiguous = @ + Max({Len(s), Len(e)})]
          [] OTHER -> [acc EXCEPT
               !.pairs = @ \o [i \in DOMAIN kept |-> Pair(s[kept[i]], e[kept[i]])],
               !.unmatched_start = @ + Cardinality(late),
               !.unmatched_end = @ + Cardinality(late)]

correlate_exact(starts, ends, limit) ==
    Limited(FoldLeft(LAMBDA acc, k : ExactGroup(acc, OfKey(starts, "key", k), OfKey(ends, "key", k)),
                     Unkeyed(starts, ends, "key"), KeysOf(starts, ends, "key")),
            limit)

\* Every start takes the first end left that is not before it.
FirstAfterStep(acc, i, from, starts, ends, limit) ==
    CASE acc.stop \/ Len(acc.pairs) = limit -> [acc EXCEPT !.stop = TRUE]
      [] ~acc.stop /\ Len(acc.pairs) # limit /\ from = 0 ->
           [acc EXCEPT !.stop = TRUE, !.next = Len(ends) + 1,
                       !.ue = @ + (Len(ends) + 1 - acc.next),
                       !.us = @ + (Len(starts) + 1 - i)]
      [] OTHER ->
           [acc EXCEPT !.pairs = Append(@, Pair(starts[i], ends[from])),
                       !.ue = @ + (from - acc.next), !.next = from + 1]

FirstAfterOutcome(acc, ends, limit) ==
    Outcome(acc.pairs, acc.us,
            acc.ue + (IF Len(acc.pairs) < limit THEN Len(ends) + 1 - acc.next ELSE 0), 0)

correlate_first_after(starts, ends, limit) ==
    FirstAfterOutcome(
        FoldLeft(LAMBDA acc, i : FirstAfterStep(acc, i,
                     SelectInSubSeq(ends, acc.next, Len(ends), LAMBDA e : e.ts >= starts[i].ts),
                     starts, ends, limit),
                 [pairs |-> <<>>, us |-> 0, ue |-> 0, next |-> 1, stop |-> FALSE],
                 [i \in DOMAIN starts |-> i]),
        ends, limit)

(* Mutant: only later ends are considered. *)
NearestAfter(starts, ends, limit) == correlate_first_after(starts, ends, limit)

(* Every start takes the nearest end left, the later of two equally near   *)
(* ones, and of ends with one timestamp the last.                          *)
NearestLeft(s, left) ==
    LET Distance(e) == IF e.ts > s.ts THEN e.ts - s.ts ELSE s.ts - e.ts
        Better(i, j) ==
          \/ Distance(left[i]) < Distance(left[j])
          \/ Distance(left[i]) = Distance(left[j]) /\ left[i].ts > left[j].ts
          \/ left[i].ts = left[j].ts /\ i > j
    IN  CHOOSE b \in DOMAIN left : \A j \in DOMAIN left \ {b} : Better(b, j)

NearestStep(acc, i, starts, limit) ==
    LET best == NearestLeft(starts[i], acc.left)
    IN  CASE acc.stop -> acc
          [] ~acc.stop /\ Len(acc.pairs) = limit -> [acc EXCEPT !.stop = TRUE, !.reached = TRUE]
          [] ~acc.stop /\ Len(acc.pairs) # limit /\ acc.left = <<>> ->
               [acc EXCEPT !.stop = TRUE, !.us = Len(starts) + 1 - i]
          [] OTHER -> [acc EXCEPT !.pairs = Append(@, Pair(starts[i], acc.left[best])),
                                  !.left = RemoveAt(@, best)]

NearestOutcome(acc) ==
    Outcome(acc.pairs, acc.us, IF acc.reached THEN 0 ELSE Len(acc.left), 0)

correlate_nearest(starts, ends, limit) ==
    NearestOutcome(
        FoldLeft(LAMBDA acc, i : NearestStep(acc, i, starts, limit),
                 [pairs |-> <<>>, us |-> 0, left |-> ends, stop |-> FALSE, reached |-> FALSE],
                 [i \in DOMAIN starts |-> i]))

(* Mutant: one open entry per thread, a nested one takes its place. *)
StackStepOneSlot(acc, entry, limit) ==
    LET e == entry.event
        top == Max({0} \cup {i \in DOMAIN acc.open : acc.open[i].thread = e.thread})
        others == SelectSeq(acc.open, LAMBDA o : o.thread # e.thread)
    IN  CASE entry.boundary = 0 -> [acc EXCEPT !.open = Append(others, e)]
          [] entry.boundary = 1 /\ top = 0 -> [acc EXCEPT !.ue = @ + 1]
          [] OTHER -> [acc EXCEPT !.open = others,
                         !.pairs = IF Len(@) < limit THEN Append(@, Pair(acc.open[top], e)) ELSE @]

\* A stack of open entries per thread; the limit counts in the order of the ends.
StackStep(acc, entry, limit) ==
    LET e == entry.event
        top == Max({0} \cup {i \in DOMAIN acc.open : acc.open[i].thread = e.thread})
    IN  CASE entry.boundary = 0 -> [acc EXCEPT !.open = Append(@, e)]
          [] entry.boundary = 1 /\ top = 0 -> [acc EXCEPT !.ue = @ + 1]
          [] OTHER -> [acc EXCEPT !.open = RemoveAt(@, top),
                         !.pairs = IF Len(@) < limit THEN Append(@, Pair(acc.open[top], e)) ELSE @]

StackOutcome(acc) == Outcome(ByStart(acc.pairs), Len(acc.open), acc.ue, 0)

correlate_stack_nested(starts, ends, limit) ==
    StackOutcome(FoldLeft(LAMBDA acc, entry : StackStep(acc, entry, limit),
                          [open |-> <<>>, pairs |-> <<>>, ue |-> 0], Timeline(starts, ends, FALSE)))

\* First-after within every stream.
Joined(a, b) ==
    Outcome(a.pairs \o b.pairs, a.unmatched_start + b.unmatched_start,
            a.unmatched_end + b.unmatched_end, 0)

correlate_stream_order(starts, ends, limit) ==
    Limited(FoldLeft(LAMBDA acc, k : Joined(acc, correlate_first_after(OfKey(starts, "stream", k),
                                                                     OfKey(ends, "stream", k), Unlimited)),
                     Unkeyed(starts, ends, "stream"), KeysOf(starts, ends, "stream")),
            limit)

-----------------------------------------------------------------------------
(* options: from, to (texts), policy, samples, duration, max_events and    *)
(* dropped_events.                                                         *)

validate_options(o) ==
    /\ o.samples # Unlimited \/ o.duration # Unlimited
    /\ o.samples # 0 /\ o.duration # 0 /\ o.max_events # 0

\* Host time and CUPTI time normalized to it are one group.
clock_group(clock) == IF clock = "Cupti" THEN 1 ELSE 0

common_clock_domain(starts, ends) ==
    LET clocks == {e.clock : e \in ToSet(starts \o ends)}
    IN  CASE clocks = {} -> Fails("NoMatchedSamples")
          [] Cardinality({clock_group(c) : c \in clocks}) > 1 -> Fails("ClockDomainsDiffer")
          [] clocks = {"Cupti"} -> [ok |-> TRUE, clock |-> "Cupti"]
          [] "CuptiNormalizedToHostMonotonic" \in clocks ->
               [ok |-> TRUE, clock |-> "CuptiNormalizedToHostMonotonic"]
          [] OTHER -> [ok |-> TRUE, clock |-> "HostMonotonic"]

(* Mutant: the ends get a window of their own. *)
OwnWindow(seq, starts, ends, duration) ==
    IF duration = Unlimited \/ seq = <<>> THEN seq
    ELSE SelectSeq(seq, LAMBDA e : e.ts <= seq[1].ts + duration)

\* From the first selected event, both boundaries included.
apply_duration_window(seq, starts, ends, duration) ==
    IF duration = Unlimited THEN seq
    ELSE LET first == Min({e.ts : e \in ToSet(starts \o ends)})
         IN  SelectSeq(seq, LAMBDA e : e.ts <= first + duration)

correlate_selected(starts, ends, policy, limit, from, to) ==
    CASE policy = "exact" /\ (is_syscall_lifecycle(from, to) \/ is_python_gc_lifecycle(from, to)) ->
           correlate_thread_lifecycle(starts, ends, limit)
      [] policy = "exact" /\ is_nvtx_lifecycle(from, to) -> correlate_nvtx_lifecycle(starts, ends, limit)
      [] policy = "exact" /\ ~is_syscall_lifecycle(from, to) /\ ~is_python_gc_lifecycle(from, to)
           /\ ~is_nvtx_lifecycle(from, to) -> correlate_exact(starts, ends, limit)
      [] policy = "first-after"  -> correlate_first_after(starts, ends, limit)
      [] policy = "nearest"      -> correlate_nearest(starts, ends, limit)
      [] policy = "stack-nested" -> correlate_stack_nested(starts, ends, limit)
      [] policy = "stream-order" -> correlate_stream_order(starts, ends, limit)

correlation_metadata(policy) ==
    CASE policy = "exact" -> "exact"
      [] policy \in {"first-after", "nearest"} -> "heuristic"
      [] policy \in {"stack-nested", "stream-order"} -> "high"

(* Mutant: the rank is rounded down. *)
percentileBelow(sorted, p) ==
    LET rank == (p * Len(sorted)) \div 100
    IN  sorted[IF rank = 0 THEN 1 ELSE rank]

\* Nearest rank over the sorted values.
percentile(sorted, p) ==
    LET rank == (p * Len(sorted) + 99) \div 100
    IN  sorted[IF rank = 0 THEN 1 ELSE rank]

OfSorted(sorted) ==
    [min |-> sorted[1], max |-> sorted[Len(sorted)],
     p50 |-> percentile(sorted, 50), p90 |-> percentile(sorted, 90),
     p95 |-> percentile(sorted, 95), p99 |-> percentile(sorted, 99)]

statistics(values) == OfSorted(StableSort(values, LAMBDA a, b : a < b))

Latency(pair) ==
    IF pair.end.ts > pair.start.ts THEN pair.end.ts - pair.start.ts ELSE pair.start.ts - pair.end.ts

\* Unknown as soon as one normalized timestamp comes without a bound.
maximum_timestamp_error(pairs) ==
    LET events == UNION {{pairs[i].start, pairs[i].end} : i \in DOMAIN pairs}
    IN  IF \E e \in events : e.clock = "CuptiNormalizedToHostMonotonic" /\ e.error = <<>>
        THEN <<>>
        ELSE <<Max({0} \cup UNION {ToSet(e.error) : e \in events})>>

\* measure, from its last step to its first.
Report(o, clock, outcome) ==
    IF ~clock.ok THEN clock
    ELSE IF outcome.pairs = <<>> THEN Fails("NoMatchedSamples")
    ELSE [ok |-> TRUE, outcome |-> outcome, clock |-> clock.clock,
          confidence |-> correlation_metadata(o.policy),
          latency |-> statistics([i \in DOMAIN outcome.pairs |-> Latency(outcome.pairs[i])]),
          error |-> maximum_timestamp_error(outcome.pairs)]

Correlated(o, from, to, starts, ends) ==
    Report(o, common_clock_domain(starts, ends),
           correlate_selected(apply_duration_window(starts, starts, ends, o.duration),
                              apply_duration_window(ends, starts, ends, o.duration),
                              o.policy, o.samples, from, to))

Selected(events, o, from, to) ==
    IF ~from.ok \/ ~to.ok THEN Invalid
    ELSE IF ~validate_policy(from, to, o.policy) THEN Fails("InvalidCorrelationPolicy")
    ELSE Correlated(o, from, to, ByTime(SelectSeq(events, LAMBDA e : matches(from, e))),
                                 ByTime(SelectSeq(events, LAMBDA e : matches(to, e))))

measure(events, o) ==
    CASE ~validate_options(o) -> Fails("InvalidLimit")
      [] validate_options(o) /\ Len(events) > o.max_events -> Fails("EventLimitExceeded")
      [] validate_options(o) /\ Len(events) <= o.max_events /\ o.dropped_events # 0 ->
           Fails("EventsDropped")
      [] OTHER -> Selected(events, o, parse(o.from), parse(o.to))

-----------------------------------------------------------------------------
(* Reference definitions.  A trace is a sequence of events as they         *)
(* happened; boundary tells starts (0) from ends (1) and call the call,    *)
(* range or activity that an event belongs to (0: it began or ended        *)
(* outside the capture).                                                   *)

Starts(trace) == ByTime(SelectSeq(trace, LAMBDA e : e.boundary = 0))
Ends(trace)   == ByTime(SelectSeq(trace, LAMBDA e : e.boundary = 1))

CallPairs(trace) ==
    LET Happened(b) == {e \in ToSet(trace) : e.boundary = b /\ e.call # 0}
    IN  {p \in [start : Happened(0), end : Happened(1)] : p.start.call = p.end.call}

\* No two events of a thread with one timestamp.
Strict(trace) ==
    \A i, j \in DOMAIN trace :
        i < j /\ trace[i].thread = trace[j].thread => trace[i].ts < trace[j].ts

\* No call of a thread begins inside another: system calls, collections.
Flat(trace) ==
    \A p \in CallPairs(trace), i \in DOMAIN trace :
        LET e == trace[i]
        IN  ~(/\ e.thread = p.start.thread
              /\ p.start.seq < e.seq /\ e.seq < p.end.seq)

(* The lifecycle and stack-nested policies report calls: the pairs they    *)
(* make are exactly the calls whose two ends were captured, whatever began *)
(* before or ended after the capture.  Lifecycles need calls that do not   *)
(* nest, and both need the events of a thread at different times: an exit  *)
(* and the next entry at one timestamp are taken in the wrong order.       *)
PairsAreCalls(trace) ==
    LET Made(o) == ToSet(o.pairs)
    IN  /\ Strict(trace) =>
             Made(correlate_stack_nested(Starts(trace), Ends(trace), Unlimited)) = CallPairs(trace)
        /\ (Strict(trace) /\ Flat(trace)) =>
             Made(correlate_thread_lifecycle(Starts(trace), Ends(trace), Unlimited)) = CallPairs(trace)

(* First-after pairs as many starts with a later end as any assignment     *)
(* could: the count is the number of starts less the largest excess of     *)
(* starts over ends from some time on.  Nearest leaves no start with an    *)
(* end farther away than one still free when its turn comes.               *)
HeuristicsAreGreedy(trace) ==
    LET starts == Starts(trace)
        ends == Ends(trace)
        From(seq, t) == Len(SelectSeq(seq, LAMBDA e : e.ts >= t))
        excess == Max({0} \cup {From(starts, s.ts) - From(ends, s.ts) : s \in ToSet(starts)})
        first == correlate_first_after(starts, ends, Unlimited).pairs
        near == correlate_nearest(starts, ends, Unlimited).pairs
        Taken(i) == {near[j].end : j \in 1..(i - 1)}
    IN  /\ Len(first) = Len(starts) - excess
        /\ \A i \in DOMAIN first : first[i].end.ts >= first[i].start.ts
        /\ Len(near) = Min({Len(starts), Len(ends)})
        /\ \A i \in DOMAIN near : \A e \in ToSet(ends) \ Taken(i) :
             Latency(near[i]) <= Latency(Pair(near[i].start, e))

Algorithms == {"lifecycle", "nvtx", "exact", "first-after", "nearest", "stack-nested", "stream-order"}

Correlate(algorithm, starts, ends, limit) ==
    CASE algorithm = "lifecycle"    -> correlate_thread_lifecycle(starts, ends, limit)
      [] algorithm = "nvtx"         -> correlate_nvtx_lifecycle(starts, ends, limit)
      [] algorithm = "exact"        -> correlate_exact(starts, ends, limit)
      [] algorithm = "first-after"  -> correlate_first_after(starts, ends, limit)
      [] algorithm = "nearest"      -> correlate_nearest(starts, ends, limit)
      [] algorithm = "stack-nested" -> correlate_stack_nested(starts, ends, limit)
      [] algorithm = "stream-order" -> correlate_stream_order(starts, ends, limit)

(* No algorithm uses an event twice, and without a limit each accounts for *)
(* every event: paired, unmatched or ambiguous (a displaced start; under   *)
(* "exact" the larger side of a group of unequal sizes).                   *)
EveryEventIsCounted(trace) ==
    LET Counted(a, o) ==
          LET n == Len(o.pairs)
          IN  /\ \A i, j \in 1..n : i # j =>
                   o.pairs[i].start # o.pairs[j].start /\ o.pairs[i].end # o.pairs[j].end
              /\ IF a = "exact"
                 THEN n + o.unmatched_start + o.ambiguous >= Len(Starts(trace))
                      /\ n + o.unmatched_end + o.ambiguous >= Len(Ends(trace))
                 ELSE n + o.unmatched_start + o.ambiguous = Len(Starts(trace))
                      /\ n + o.unmatched_end = Len(Ends(trace))
    IN  \A a \in Algorithms : Counted(a, Correlate(a, Starts(trace), Ends(trace), Unlimited))

(* A sample limit only cuts the list off: the pairs under a limit are the  *)
(* first of the pairs without one.  Stack-nested takes the calls that      *)
(* ended first instead (and with ends at one time, any of them).           *)
LimitTakesThePrefix(trace, limit) ==
    LET CutOff(a, all, cut) ==
          /\ Len(cut) = Min({limit, Len(all)})
          /\ IF a = "stack-nested"
             THEN /\ ToSet(cut) \subseteq ToSet(all)
                  /\ \A p \in ToSet(cut), q \in ToSet(all) \ ToSet(cut) : p.end.ts <= q.end.ts
             ELSE cut = Truncate(all, limit)
    IN  \A a \in Algorithms :
          CutOff(a, Correlate(a, Starts(trace), Ends(trace), Unlimited).pairs,
                    Correlate(a, Starts(trace), Ends(trace), limit).pairs)

(* The reported percentile is a value that was measured, at least p        *)
(* percent of the values are not above it, and fewer than p percent are    *)
(* below it: no rounding of the rank moves it past either boundary.        *)
PercentileIsNearestRank(values) ==
    LET s == statistics(values)
        Of(P(_)) == Cardinality({i \in DOMAIN values : P(values[i])})
        Is(value, p) == /\ value \in ToSet(values)
                        /\ 100 * Of(LAMBDA v : v <= value) >= p * Len(values)
                        /\ 100 * Of(LAMBDA v : v < value) < p * Len(values)
    IN  values # <<>> => /\ Is(s.p50, 50) /\ Is(s.p90, 90) /\ Is(s.p95, 95) /\ Is(s.p99, 99)
                         /\ s.min = Min(ToSet(values)) /\ s.max = Max(ToSet(values))

(* What happens after the measured duration has no influence: events later *)
(* than the window that the first selected event opens change nothing in   *)
(* the report but the name of its clock domain, which is settled (and      *)
(* events of incomparable clocks refused) before the window is applied.    *)
WindowEndsTheMeasurement(trace, o) ==
    LET Reported(m) == IF m.ok THEN <<m.outcome, m.latency, m.error>> ELSE <<m.code>>
    IN  \A n \in 1..Len(trace) :
          (\A i \in (n + 1)..Len(trace) : trace[i].ts > trace[1].ts + o.duration)
          => Reported(measure(SubSeq(trace, 1, n), o)) = Reported(measure(trace, o))
=============================================================================

------------------------------ MODULE Completed ------------------------------
(***************************************************************************)
(* collector/src/completed.rs and `measure --input` of cli/src/main.rs:    *)
(* finished captures are decoded, merged into one stream of events of one  *)
(* process, refused unless they are whole, and measured.  An input is      *)
(*   form "empty", "binary" (a CUPTI snapshot, field capture) or "json"    *)
(*   with its documents: host capture envelopes and single events          *)
(* Counters are u64: a sum above CounterLimit overflows.                   *)
(***************************************************************************)
EXTENDS Correlator

CONSTANT CounterLimit

ASSUME CounterLimitAssumption == CounterLimit \in Nat

Capture(dropped, unknown, limit, failed, cupti, events) ==
    [ok |-> TRUE, dropped |-> dropped, unknown |-> unknown, limit |-> limit,
     failed |-> failed, cupti |-> cupti, events |-> events]

\* A lone envelope is a host capture; single events make a bare stream.
decode_json(documents) ==
    LET first == documents[1]
    IN  IF first.envelope
        THEN IF Len(documents) > 1 THEN Fails("HostCaptureFollowedByAnotherDocument")
             ELSE Capture(first.dropped, 0,
                          IF first.record_limit_reached THEN <<Len(first.events)>> ELSE <<>>,
                          FALSE, <<>>, first.events)
        ELSE IF \E i \in DOMAIN documents : documents[i].envelope
             THEN Fails("HostCaptureInsideEventStream")
             ELSE Capture(0, 0, <<>>, FALSE, <<>>,
                          [i \in DOMAIN documents |-> documents[i].event])

decode(input) ==
    CASE input.form = "empty" -> Fails("EmptyInput")
      [] input.form = "json" -> decode_json(input.documents)
      [] input.form = "binary" ->
           LET c == input.capture
           IN  Capture(c.dropped, c.unknown,
                       IF c.state = "LimitReached" THEN <<c.capacity>> ELSE <<>>,
                       c.state \in {"Idle", "Failed"},
                       << [complete |-> c.state = "Stopped", capacity |-> c.capacity,
                           observed |-> c.observed, dropped |-> c.dropped] >>,
                       c.events)

\* Option<u64>: nothing is below every number.
LargerOption(a, b) == IF a = <<>> THEN b ELSE IF b = <<>> THEN a ELSE <<Max({a[1], b[1]})>>

(* Mutant: one complete capture makes the whole complete. *)
MergeCuptiEither(a, b) ==
    IF a = <<>> THEN b
    ELSE IF b = <<>> THEN a
    ELSE << [complete |-> a[1].complete \/ b[1].complete, capacity |-> a[1].capacity + b[1].capacity,
             observed |-> a[1].observed + b[1].observed, dropped |-> a[1].dropped + b[1].dropped] >>

MergeCupti(a, b) ==
    IF a = <<>> THEN b
    ELSE IF b = <<>> THEN a
    ELSE << [complete |-> a[1].complete /\ b[1].complete, capacity |-> a[1].capacity + b[1].capacity,
             observed |-> a[1].observed + b[1].observed, dropped |-> a[1].dropped + b[1].dropped] >>

Overflows(c) ==
    \/ c.dropped > CounterLimit \/ c.unknown > CounterLimit
    \/ /\ c.cupti # <<>>
       /\ Max({c.cupti[1].capacity, c.cupti[1].observed, c.cupti[1].dropped}) > CounterLimit

\* Counters add, states combine, and the events of one process are sorted by
\* time, ties in input order, and numbered anew.
Checked(sum) ==
    IF Overflows(sum) THEN Fails("CounterOverflow")
    ELSE IF Cardinality({e.pid : e \in ToSet(sum.events)}) > 1 THEN Fails("TargetMismatch")
    ELSE sum

MergeOne(acc, c) ==
    IF ~acc.ok THEN acc
    ELSE Checked(Capture(acc.dropped + c.dropped, acc.unknown + c.unknown,
                         LargerOption(acc.limit, c.limit), acc.failed \/ c.failed,
                         MergeCupti(acc.cupti, c.cupti), acc.events \o c.events))

Numbered(seq) == [i \in DOMAIN seq |-> [seq[i] EXCEPT !.seq = i - 1]]

InOrder(merged) == IF ~merged.ok THEN merged ELSE [merged EXCEPT !.events = Numbered(ByTime(@))]

merge(captures) == InOrder(FoldLeft(MergeOne, Capture(0, 0, <<>>, FALSE, <<>>, <<>>), captures))

\* live and require_complete of the code are FALSE and TRUE here.
reject_incomplete_capture(c) ==
    CASE c.failed -> Fails("CuptiNotAvailable")
      [] ~c.failed /\ c.limit # <<>> -> Fails("EventRateTooHigh")
      [] ~c.failed /\ c.limit = <<>> /\ c.cupti # <<>> /\ ~c.cupti[1].complete -> Fails("CuptiNotAvailable")
      [] OTHER -> [ok |-> TRUE]

OrExportFailed(c) == IF c.ok THEN c ELSE Fails("TraceExportFailed")
AllDecoded(captures) ==
    IF \E i \in DOMAIN captures : ~captures[i].ok THEN Fails("TraceExportFailed")
    ELSE OrExportFailed(merge(captures))

Decoded(inputs) == AllDecoded([i \in DOMAIN inputs |-> decode(inputs[i])])

\* `export`: every event is written, whatever the captures lost.
AllKnown(c) == IF c.ok /\ c.unknown # 0 THEN Fails("TraceExportFailed") ELSE c
load_completed_inputs(inputs) == AllKnown(Decoded(inputs))

\* A failure after the merge keeps the events for the artifact.
WithArtifact(m, result) ==
    IF result.ok THEN [ok |-> TRUE, events |-> m.events, result |-> result]
    ELSE [ok |-> FALSE, code |-> result.code, artifact |-> m.events]

MeasureMerged(m, o) ==
    IF ~m.ok THEN [ok |-> FALSE, code |-> m.code, artifact |-> <<>>]
    ELSE WithArtifact(m,
           IF ~reject_incomplete_capture(m).ok THEN reject_incomplete_capture(m)
           ELSE IF m.unknown # 0 THEN Fails("TraceExportFailed")
           ELSE measure(m.events, [o EXCEPT !.dropped_events = m.dropped]))

measure_completed_inputs(inputs, o) == MeasureMerged(Decoded(inputs), o)

-----------------------------------------------------------------------------
(* A measurement of several finished captures is reported only if each of  *)
(* them is whole by itself (nothing dropped, unknown, cut off, failed or   *)
(* still running in any), all are of one process, and no event got lost or *)
(* changed but for its number; it does not depend on the order of the      *)
(* inputs unless two events have one timestamp.                            *)
MeasuredInputsAreWhole(inputs, o) ==
    LET Unnumbered(seq) == [i \in DOMAIN seq |-> [seq[i] EXCEPT !.seq = 0]]
        Occurrences(seq, e) == Cardinality({i \in DOMAIN seq : seq[i] = e})
        all == FoldLeft(LAMBDA s, input : s \o decode(input).events, <<>>, inputs)
        distinct == Cardinality({all[i].ts : i \in DOMAIN all}) = Len(all)
    IN  \A m \in {measure_completed_inputs(inputs, o)} : m.ok =>
        /\ \A c \in {decode(inputs[i]) : i \in DOMAIN inputs} :
             /\ c.ok /\ c.dropped = 0 /\ c.unknown = 0 /\ c.limit = <<>> /\ ~c.failed
             /\ c.cupti # <<>> => c.cupti[1].complete
        /\ Cardinality({all[i].pid : i \in DOMAIN all}) = 1
        /\ Len(m.events) = Len(all)
        /\ \A e \in ToSet(Unnumbered(all)) : Occurrences(Unnumbered(all), e) = Occurrences(Unnumbered(m.events), e)
        /\ \A i, j \in DOMAIN m.events : i < j =>
             m.events[i].ts <= m.events[j].ts /\ m.events[i].seq < m.events[j].seq
        /\ distinct => measure_completed_inputs(Reverse(inputs), o) = m
=============================================================================

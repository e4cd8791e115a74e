--------------------------- MODULE AggregateTable ---------------------------
(***************************************************************************)
(* The CUPTI Agent in aggregate mode: activity_buffer_completed callbacks  *)
(* sum durations per group in a fixed open-addressed table without a lock  *)
(* (aggregate_activity, update_aggregate_slot), the control thread stops   *)
(* the capture and sends the table (write_aggregate_records), and the CLI  *)
(* decodes, checks and merges it (decode_aggregate_record,                 *)
(* validate_aggregate_capture, merge_aggregate_groups).                    *)
(*                                                                         *)
(* A thread that meets a slot another thread is still filling does not     *)
(* wait: it probes on, so one group may end up in several slots.  The byte *)
(* counter of transfers is summed exactly like the duration and left out.  *)
(* MaxValue stands for UINT64_MAX.                                         *)
(***************************************************************************)
EXTENDS CaptureControl, FiniteSets, Sequences, SequencesExt

CONSTANTS
    Threads,        \* the threads CUPTI completes buffers on
    Key,            \* groups: kind, device, direction and name
    Hash,           \* aggregate_hash; 0 and 1 mark free and claimed slots
    Duration,       \* end_ns - start_ns
    Capacity,       \* record_capacity
    MaxValue,       \* the largest value of a counter
    MaxActivities,  \* bound on the activities the target performs
    NoKey           \* the key of a slot nobody has written (calloc)

ASSUME TableAssumption ==
    /\ Capacity \in Nat \ {0}
    /\ MaxValue \in Nat
    /\ MaxActivities \in 0 .. MaxValue
    /\ Duration \subseteq 0 .. MaxValue
    /\ Hash \in [Key -> Nat \ {0, 1}]
    /\ NoKey \notin Key

VARIABLES
    slots,                   \* aggregate_slots
    committed_record_count,  \* groups published
    agent_dropped_records,
    pc,
    activity,                \* what a thread is aggregating
    probe,                   \* how far it has probed
    delivered,               \* history: activities accepted while active
    late,                    \* and those of them not done when CUPTI had shut down
    server,                  \* how far write_capture has got
    cursor,                  \* the slot it reads next
    available,               \* the group count it read first
    header,
    field,                   \* the counter of it that it reads next
    group,                   \* the record it is filling
    groups,                  \* the records it has sent
    verdict

tableVars == <<slots, committed_record_count, agent_dropped_records>>
threadVars == <<pc, activity, probe>>
replyVars == <<server, cursor, available, header, field, group, groups,
               verdict>>
historyVars == <<delivered, late>>
vars == <<controlVars, tableVars, threadVars, historyVars, replyVars>>

Indices == 0 .. Capacity - 1
Value == 0 .. MaxValue
FREE == 0
WRITING == 1

Counters == [count : Value, total : Value, min : Value, max : Value]
Zero == [count |-> 0, total |-> 0, min |-> MaxValue, max |-> 0]
EmptySlot == [state |-> FREE, key |-> NoKey, counters |-> [Zero EXCEPT !.min = 0]]
Slot == [state : {FREE, WRITING} \cup {Hash[k] : k \in Key},
         key : Key \cup {NoKey}, counters : Counters]
Activity == [key : Key, duration : Duration]
NoActivity == [key |-> NoKey, duration |-> 0]
Group == [key : Key \cup {NoKey}, counters : Counters]
Fields == <<"count", "total", "min", "max">>

TypeOK ==
    /\ ControlTypeOK
    /\ slots \in [Indices -> Slot]
    /\ committed_record_count \in 0 .. Capacity
    /\ agent_dropped_records \in 0 .. MaxActivities
    /\ activity \in [Threads -> Activity \cup {NoActivity}]
    /\ probe \in [Threads -> 0 .. Capacity]
    /\ delivered \in [Activity -> Nat]
    /\ late \in [Activity -> Nat]
    /\ cursor \in 0 .. Capacity
    /\ available \in 0 .. Capacity
    /\ group \in Group
    /\ groups \in Seq(Group)
    /\ Len(groups) =< Capacity
    /\ verdict \in {"open", "complete", "malformed", "rejected"}

Init ==
    /\ ControlInit
    /\ slots = [i \in Indices |-> EmptySlot]
    /\ committed_record_count = 0
    /\ agent_dropped_records = 0
    /\ pc = [t \in Threads |-> "idle"]
    /\ activity = [t \in Threads |-> NoActivity]
    /\ probe = [t \in Threads |-> 0]
    /\ delivered = [a \in Activity |-> 0]
    /\ late = [a \in Activity |-> 0]
    /\ server = "idle"
    /\ cursor = 0
    /\ available = 0
    /\ header = [observed |-> 0, state |-> "IDLE", reason |-> "NONE", dropped |-> 0]
    /\ field = 1
    /\ group = [key |-> NoKey, counters |-> Zero]
    /\ groups = <<>>
    /\ verdict = "open"

Goto(t, step) == pc' = [pc EXCEPT ![t] = step]

(* The callback returns; its locals are gone. *)
Return(t) ==
    /\ Goto(t, "idle")
    /\ activity' = [activity EXCEPT ![t] = NoActivity]
    /\ probe' = [probe EXCEPT ![t] = 0]
Quiet == \A t \in Threads : pc[t] = "idle"

Least(a, b) == IF a < b THEN a ELSE b
Greatest(a, b) == IF a > b THEN a ELSE b
Sum(f, S) == FoldSet(LAMBDA x, n : n + f[x], 0, S)

-----------------------------------------------------------------------------
(* aggregate_activity                                                      *)

(* An activity that passes the filter is completed while the capture is    *)
(* active.                                                                 *)
Enter(t, a) ==
    /\ pc[t] = "idle"
    /\ Delivering
    /\ capture_state = "ACTIVE"
    /\ Sum(delivered, Activity) < MaxActivities
    /\ activity' = [activity EXCEPT ![t] = a]
    /\ delivered' = [delivered EXCEPT ![a] = @ + 1]
    /\ late' = IF control \in {"serving", "shutdown"} THEN late ELSE [late EXCEPT ![a] = @ + 1]
    /\ Goto(t, "probe")
    /\ UNCHANGED <<controlVars, tableVars, probe, replyVars>>

Index(t) == (Hash[activity[t].key] + probe[t]) % Capacity

Holds(i, k) == slots[i].state = Hash[k] /\ slots[i].key = k

(* One round of the loop up to the load of the slot's state. *)
Probe(t) ==
    /\ pc[t] = "probe"
    /\ \/ /\ probe[t] = Capacity
          /\ Goto(t, "drop")
          /\ UNCHANGED probe
       \/ /\ probe[t] < Capacity
          /\ Holds(Index(t), activity[t].key)
          /\ Goto(t, "total")
          /\ UNCHANGED probe
       \/ /\ probe[t] < Capacity
          /\ slots[Index(t)].state = FREE
          /\ Goto(t, "claim")
          /\ UNCHANGED probe
       \/ /\ probe[t] < Capacity
          /\ ~Holds(Index(t), activity[t].key)
          /\ slots[Index(t)].state # FREE
          /\ probe' = [probe EXCEPT ![t] = @ + 1]
          /\ UNCHANGED pc
    /\ UNCHANGED <<controlVars, tableVars, activity, historyVars, replyVars>>

(* The compare-and-swap that claims a free slot; whoever loses it goes on  *)
(* to the next slot without looking at what the winner stores.             *)
Claim(t) ==
    /\ pc[t] = "claim"
    /\ IF slots[Index(t)].state = FREE
       THEN /\ slots' = [slots EXCEPT ![Index(t)].state = WRITING]
            /\ Goto(t, "publish")
            /\ UNCHANGED probe
       ELSE /\ probe' = [probe EXCEPT ![t] = @ + 1]
            /\ Goto(t, "probe")
            /\ UNCHANGED slots
    /\ UNCHANGED <<controlVars, committed_record_count, agent_dropped_records,
                   activity, historyVars, replyVars>>

(* The key and the zeroed counters become visible with the state. *)
Publish(t) ==
    /\ pc[t] = "publish"
    /\ slots' = [slots EXCEPT ![Index(t)] =
                    [state |-> Hash[activity[t].key], key |-> activity[t].key,
                     counters |-> Zero]]
    /\ Goto(t, "commit")
    /\ UNCHANGED <<controlVars, committed_record_count, agent_dropped_records,
                   activity, probe, historyVars, replyVars>>

(* Mutant: a new group is not counted. *)
CommitNothing(t) ==
    /\ pc[t] = "commit"
    /\ Goto(t, "total")
    /\ UNCHANGED <<controlVars, tableVars, activity, probe, historyVars, replyVars>>

Commit(t) ==
    /\ pc[t] = "commit"
    /\ committed_record_count' = committed_record_count + 1
    /\ Goto(t, "total")
    /\ UNCHANGED <<controlVars, slots, agent_dropped_records, activity, probe,
                   historyVars, replyVars>>

-----------------------------------------------------------------------------
(* update_aggregate_slot: four counters, one atomic operation each.  The   *)
(* compare-and-swap loops of atomic_min and atomic_max change the counter  *)
(* at one point only.                                                      *)

SetCounter(t, f, v) ==
    slots' = [slots EXCEPT ![Index(t)].counters[f] = v]

Counter(t, f) == slots[Index(t)].counters[f]

(* atomic_add_checked wraps and reports the overflow. *)
Add(t, step, f, v, next) ==
    /\ pc[t] = step
    /\ SetCounter(t, f, (Counter(t, f) + v) % (MaxValue + 1))
    /\ Goto(t, IF MaxValue - Counter(t, f) < v THEN "fail" ELSE next)
    /\ UNCHANGED <<controlVars, committed_record_count, agent_dropped_records,
                   activity, probe, historyVars, replyVars>>

AddTotal(t) == Add(t, "total", "total", activity[t].duration, "count")

AddCount(t) == Add(t, "count", "count", 1, "min")

AtomicMin(t) ==
    /\ pc[t] = "min"
    /\ SetCounter(t, "min", Least(activity[t].duration, Counter(t, "min")))
    /\ Goto(t, "max")
    /\ UNCHANGED <<controlVars, committed_record_count, agent_dropped_records,
                   activity, probe, historyVars, replyVars>>

AtomicMax(t) ==
    /\ pc[t] = "max"
    /\ SetCounter(t, "max", Greatest(activity[t].duration, Counter(t, "max")))
    /\ Return(t)
    /\ UNCHANGED <<controlVars, committed_record_count, agent_dropped_records,
                   historyVars, replyVars>>
-----------------------------------------------------------------------------
(* The table is full, or the callback fails.                               *)

Drop(t) ==
    /\ pc[t] = "drop"
    /\ agent_dropped_records' = agent_dropped_records + 1
    /\ Goto(t, "reason")
    /\ UNCHANGED <<controlVars, slots, committed_record_count, activity, probe,
                   historyVars, replyVars>>

Store(t, step, store, next) ==
    /\ pc[t] = step
    /\ store
    /\ Goto(t, next)
    /\ UNCHANGED <<tableVars, activity, probe, historyVars, replyVars>>

StoreAndReturn(t, step, store) ==
    /\ pc[t] = step
    /\ store
    /\ Return(t)
    /\ UNCHANGED <<tableVars, historyVars, replyVars>>

LimitReason(t) == Store(t, "reason", SetLimitReason, "limit")
LimitState(t) == StoreAndReturn(t, "limit", SetLimitState)
FailStatus(t) == Store(t, "fail", SetErrorStatus, "failing")
FailState(t) == Store(t, "failing", SetErrorState, "failed")
FailReason(t) == StoreAndReturn(t, "failed", SetErrorReason)

(* An activity with impossible timestamps, a malformed buffer, no memory.  *)
(* Later errors repeat the stores of the first, which is the one modelled; *)
(* one after CUPTI's shutdown can only have the reply rejected.            *)
BadActivity(t) ==
    /\ control \in {"serving", "shutdown"}
    /\ agent_status = "READY" /\ \A u \in Threads : pc[u] # "fail"
    /\ Store(t, "idle", UNCHANGED controlVars, "fail")

(* The reply of a stop that was abandoned for an error is not of a stopped *)
(* capture, whatever callbacks do beside it.                               *)
ThreadNext ==
    \E t \in Threads : control # "abandoned" /\ server # "done" /\
        \/ \E a \in Activity : Enter(t, a)
        \/ Probe(t) \/ Claim(t) \/ Publish(t) \/ Commit(t)
        \/ AddTotal(t) \/ AddCount(t) \/ AtomicMin(t) \/ AtomicMax(t)
        \/ Drop(t) \/ LimitReason(t) \/ LimitState(t)
        \/ BadActivity(t) \/ FailStatus(t) \/ FailState(t) \/ FailReason(t)

-----------------------------------------------------------------------------
(* STOP: stop_capture, then write_capture reads the group count, sums the  *)
(* counts of the slots (aggregate_observed_records), reads the state, and  *)
(* sends every published slot, one counter at a time.                      *)

StopCapture ==
    /\ StopStep(Quiet)
    /\ server' = IF StopReturned' THEN "available" ELSE server
    /\ late' = IF control = "shutdown" /\ control' = "check"
               THEN [a \in Activity |-> Cardinality({t \in Threads : activity[t] = a})] ELSE late
    /\ UNCHANGED <<tableVars, threadVars, delivered, cursor, available, header,
                   field, group, groups, verdict>>

ReadAvailable ==
    /\ server = "available"
    /\ available' = committed_record_count
    /\ server' = "sum"
    /\ UNCHANGED <<controlVars, tableVars, threadVars, historyVars, cursor,
                   header, field, group, groups, verdict>>

Published(i) == slots[i].state \notin {FREE, WRITING}

(* The counts add up to MaxActivities at most, so the code's overflow      *)
(* checks on sums of counts (here and in the CLI) have nothing to refuse.   *)
SumSlot ==
    /\ server = "sum"
    /\ cursor < Capacity
    /\ header' = [header EXCEPT !.observed =
                     @ + IF Published(cursor) THEN slots[cursor].counters.count ELSE 0]
    /\ cursor' = cursor + 1
    /\ UNCHANGED <<controlVars, tableVars, threadVars, historyVars, server,
                   available, field, group, groups, verdict>>

SumDropped ==
    /\ server = "sum"
    /\ cursor = Capacity
    /\ header' = [header EXCEPT !.observed = @ + agent_dropped_records]
    /\ server' = "state"
    /\ UNCHANGED <<controlVars, tableVars, threadVars, historyVars, cursor,
                   available, field, group, groups, verdict>>

ReadState ==
    /\ server = "state"
    /\ header' = [header EXCEPT !.state = capture_state, !.reason = stop_reason,
                                !.dropped = agent_dropped_records]
    /\ cursor' = 0
    /\ server' = "slot"
    /\ UNCHANGED <<controlVars, tableVars, threadVars, historyVars, available,
                   field, group, groups, verdict>>

ReadSlot ==
    /\ server = "slot"
    /\ cursor < Capacity
    /\ IF Published(cursor)
       THEN /\ group' = [group EXCEPT !.key = slots[cursor].key]
            /\ server' = "field"
            /\ UNCHANGED cursor
       ELSE cursor' = cursor + 1 /\ UNCHANGED <<server, group>>
    /\ UNCHANGED <<controlVars, tableVars, threadVars, historyVars, available,
                   header, field, groups, verdict>>

ReadField ==
    /\ server = "field"
    /\ group' = [group EXCEPT !.counters[Fields[field]] =
                    slots[cursor].counters[Fields[field]]]
    /\ IF field < Len(Fields)
       THEN field' = field + 1 /\ UNCHANGED <<server, cursor, groups>>
       ELSE /\ field' = 1
            /\ server' = "slot"
            /\ cursor' = cursor + 1
            /\ groups' = Append(groups, group')
    /\ UNCHANGED <<controlVars, tableVars, threadVars, historyVars, available,
                   header, verdict>>

-----------------------------------------------------------------------------
(* The CLI.                                                                *)

(* decode_capture and decode_aggregate_record. *)
Decodes ==
    /\ Len(groups) = available
    /\ header.observed >= available
    /\ \A n \in DOMAIN groups :
          LET c == groups[n].counters
          IN  /\ c.count # 0
              /\ c.min =< c.total \div c.count
              /\ c.total \div c.count =< c.max

(* validate_aggregate_capture. *)
Valid ==
    /\ header.state = "STOPPED"
    /\ header.reason = "REQUESTED"
    /\ header.dropped = 0

(* Mutant: the minimum of the last record wins. *)
MergedLastMinimum(k) ==
    FoldSeq(LAMBDA g, c :
                IF g.key # k THEN c
                ELSE [count |-> c.count + g.counters.count,
                      total |-> c.total + g.counters.total,
                      min |-> g.counters.min,
                      max |-> Greatest(g.counters.max, c.max)],
            Zero, groups)

(* merge_aggregate_groups: the counters of one group from all its records. *)
Merged(k) ==
    FoldSeq(LAMBDA g, c :
                IF g.key # k THEN c
                ELSE [count |-> c.count + g.counters.count,
                      total |-> c.total + g.counters.total,
                      min |-> Least(g.counters.min, c.min),
                      max |-> Greatest(g.counters.max, c.max)],
            Zero, groups)

(* aggregate_inventory_result; additions that overflow are errors. *)
ReceiveReply ==
    /\ server = "slot"
    /\ cursor = Capacity
    /\ verdict' =
          IF ~Decodes THEN "malformed"
          ELSE IF /\ Valid
                  /\ \A k \in Key : Merged(k).total =< MaxValue
                  /\ Sum([k \in Key |-> Merged(k).count], Key) = header.observed
          THEN "complete" ELSE "rejected"
    /\ server' = "done"
    /\ UNCHANGED <<controlVars, tableVars, threadVars, historyVars, cursor,
                   available, header, field, group, groups>>

Next ==
    \/ ThreadNext
    \/ StopCapture
    \/ ReadAvailable
    \/ SumSlot
    \/ SumDropped
    \/ ReadState
    \/ ReadSlot
    \/ ReadField
    \/ ReceiveReply

Spec == Init /\ [][Next]_vars

-----------------------------------------------------------------------------
(* What the counters of a group have to be if `seen` is how often each     *)
(* activity is in them.  A callback that overflows the total leaves it     *)
(* wrapped around.                                                         *)
Reference(k, seen) ==
    LET n(d) == seen[[key |-> k, duration |-> d]]
        some == {d \in Duration : n(d) > 0}
    IN  [count |-> FoldSet(LAMBDA d, s : s + n(d), 0, some),
         total |-> FoldSet(LAMBDA d, s : s + d * n(d), 0, some) % (MaxValue + 1),
         min |-> IF some = {} THEN MaxValue ELSE CHOOSE d \in some : \A e \in some : d =< e,
         max |-> IF some = {} THEN 0 ELSE CHOOSE d \in some : \A e \in some : d >= e]

(* delivered without some of the activities that were late. *)
Seen == {seen \in [Activity -> 0 .. MaxActivities] :
            \A a \in Activity : seen[a] \in (delivered[a] - late[a]) .. delivered[a]}

(* An inventory the CLI reports as complete is exact: whatever the         *)
(* interleaving, and however many slots a group was spread over, merging   *)
(* gives the count, total, minimum and maximum of the activities.  Of an   *)
(* activity whose callback still ran when CUPTI had shut down, or began    *)
(* later, each of the four may show or may not: the table is copied while  *)
(* the callback stores, and no check of the reader can tell.               *)
InventoryIsExact ==
    verdict = "complete" =>
        \A k \in Key : \A f \in ToSet(Fields) :
            \E seen \in Seen : Merged(k)[f] = Reference(k, seen)[f]

(* The CLI refuses to decode a reply only if the Agent had an error or a   *)
(* callback stored beside the copying: what the Agent counts as groups and *)
(* what it sends otherwise agree, and so do the counters.                  *)
MalformedOnlyOnError ==
    verdict = "malformed" => agent_status = "ERROR" \/ \E a \in Activity : late[a] > 0
=============================================================================

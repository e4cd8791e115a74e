------------------------------ MODULE RecordLog ------------------------------
(***************************************************************************)
(* The lock-free record store of the CUPTI Agent in exact mode             *)
(* (src/cupti/src/cupti_agent.c, enqueue_record): CUPTI callbacks run on   *)
(* any thread of the target, claim a slot with fetch_add, write the        *)
(* record, raise the slot's ready flag and then advance the commit         *)
(* watermark over every ready slot with compare-and-swap.                  *)
(*                                                                         *)
(* Each shared access is a step of its own.  The flag store is a release   *)
(* store and the loads after it are acquire loads, so on x86-64 (the only  *)
(* platform of the Agent) the flag may wait in the thread's store buffer   *)
(* while the thread already reads the watermark and the flags:             *)
(* StoreBuffering = TRUE models that, FALSE the sequentially consistent    *)
(* interleavings.  The record itself is stored before the flag and the     *)
(* buffer is first-in first-out, so it is in memory whenever the flag is.  *)
(***************************************************************************)
EXTENDS CaptureControl

CONSTANTS
    Threads,          \* the threads callbacks run on
    Record,           \* the records they store
    Capacity,         \* record_capacity
    StoreBuffering,   \* whether flag stores may be delayed
    NoRecord          \* the content of a slot nobody has written (calloc)

ASSUME CapacityAssumption == Capacity \in Nat \ {0}

ASSUME StoreBufferingAssumption == StoreBuffering \in BOOLEAN

ASSUME NoRecordAssumption == NoRecord \notin Record

VARIABLES
    record_count,             \* slots claimed, refused claims included
    records,
    record_ready,             \* the flags as memory holds them
    committed_record_count,   \* the watermark
    pc,                       \* where each thread is in enqueue_record
    record,                   \* the record a thread is storing
    index,                    \* the slot it claimed
    committed,                \* its local copy of the watermark
    buffered,                 \* its flag store is still in its store buffer
    missed                    \* history: slots whose flag a thread took for
                              \* unset while it was in another's store buffer

threadVars == <<pc, record, index, committed, buffered>>
logVars == <<record_count, records, record_ready, committed_record_count, missed>>
vars == <<controlVars, logVars, threadVars>>

Slots == 0 .. Capacity - 1

Steps == {"idle", "claim", "reason", "limit", "write", "ready", "load",
          "scan", "cas", "failing", "failed"}

TypeOK ==
    /\ ControlTypeOK
    /\ record_count \in Nat
    /\ records \in [Slots -> Record \cup {NoRecord}]
    /\ record_ready \in [Slots -> BOOLEAN]
    /\ committed_record_count \in 0 .. Capacity
    /\ pc \in [Threads -> Steps]
    /\ record \in [Threads -> Record \cup {NoRecord}]
    /\ index \in [Threads -> Nat]
    /\ committed \in [Threads -> 0 .. Capacity]
    /\ buffered \in [Threads -> BOOLEAN]
    /\ missed \subseteq Slots

(* A capture that has just been armed: storage reset, state ACTIVE. *)
Init ==
    /\ ControlInit
    /\ record_count = 0
    /\ records = [i \in Slots |-> NoRecord]
    /\ record_ready = [i \in Slots |-> FALSE]
    /\ committed_record_count = 0
    /\ pc = [t \in Threads |-> "idle"]
    /\ record = [t \in Threads |-> NoRecord]
    /\ index = [t \in Threads |-> 0]
    /\ committed = [t \in Threads |-> 0]
    /\ buffered = [t \in Threads |-> FALSE]
    /\ missed = {}

Goto(t, step) == pc' = [pc EXCEPT ![t] = step]

(* No thread is inside a callback and no store is on its way. *)
Quiet == \A t \in Threads : pc[t] = "idle" /\ ~buffered[t]

(* t is inside enqueue_record, past the check of the state. *)
Storing(t) == pc[t] \notin {"idle", "failing", "failed"}

-----------------------------------------------------------------------------
(* enqueue_record, one action per shared access.                           *)

(* A record that passes the filter arrives while the capture is active;    *)
(* in every other case enqueue_record returns at once.                     *)
Enter(t, r) ==
    /\ pc[t] = "idle"
    /\ Delivering
    /\ capture_state = "ACTIVE"
    /\ record' = [record EXCEPT ![t] = r]
    /\ Goto(t, "claim")
    /\ UNCHANGED <<stateVars, logVars, index, committed, buffered, control>>

(* fetch_add is a locked instruction: it empties the store buffer first.   *)
Claim(t) ==
    /\ pc[t] = "claim"
    /\ ~buffered[t]
    /\ index' = [index EXCEPT ![t] = record_count]
    /\ record_count' = record_count + 1
    /\ Goto(t, IF record_count >= Capacity THEN "reason" ELSE "write")
    /\ UNCHANGED <<stateVars, records, record_ready, committed_record_count,
                   record, committed, buffered, missed>>

LimitReason(t) ==
    /\ pc[t] = "reason"
    /\ SetLimitReason
    /\ Goto(t, "limit")
    /\ UNCHANGED <<logVars, record, index, committed, buffered>>

LimitState(t) ==
    /\ pc[t] = "limit"
    /\ SetLimitState
    /\ Goto(t, "idle")
    /\ UNCHANGED <<logVars, record, index, committed, buffered>>

(* Mutant: a callback waits for an active capture before it stores. *)
WriteWhileActive(t) ==
    /\ pc[t] = "write"
    /\ capture_state = "ACTIVE"
    /\ records' = [records EXCEPT ![index[t]] = record[t]]
    /\ Goto(t, "ready")
    /\ UNCHANGED <<stateVars, record_count, record_ready, committed_record_count,
                   record, index, committed, buffered, missed>>

WriteRecord(t) ==
    /\ pc[t] = "write"
    /\ records' = [records EXCEPT ![index[t]] = record[t]]
    /\ Goto(t, "ready")
    /\ UNCHANGED <<stateVars, record_count, record_ready, committed_record_count,
                   record, index, committed, buffered, missed>>

(* Mutant: the flag may be raised before the record is written. *)
SetReadyFirst(t) ==
    /\ pc[t] \in {"write", "ready"}
    /\ record_ready' = [record_ready EXCEPT ![index[t]] = TRUE]
    /\ Goto(t, IF pc[t] = "write" THEN "write" ELSE "load")
    /\ UNCHANGED <<stateVars, record_count, records, committed_record_count,
                   record, index, committed, buffered, missed>>

SetReady(t) ==
    /\ pc[t] = "ready"
    /\ IF StoreBuffering
       THEN /\ buffered' = [buffered EXCEPT ![t] = TRUE]
            /\ UNCHANGED record_ready
       ELSE /\ record_ready' = [record_ready EXCEPT ![index[t]] = TRUE]
            /\ UNCHANGED buffered
    /\ Goto(t, "load")
    /\ UNCHANGED <<stateVars, record_count, records, committed_record_count,
                   record, index, committed, missed>>

LoadCommitted(t) ==
    /\ pc[t] = "load"
    /\ committed' = [committed EXCEPT ![t] = committed_record_count]
    /\ Goto(t, "scan")
    /\ UNCHANGED <<stateVars, logVars, record, index, buffered>>

(* A thread reads its own delayed flag, the others' only from memory. *)
SeesReady(t, i) == record_ready[i] \/ (buffered[t] /\ index[t] = i)

(* Somebody has raised the flag, and memory does not show it yet. *)
OnItsWay(i) == \E u \in Threads : buffered[u] /\ index[u] = i

Scan(t) ==
    /\ pc[t] = "scan"
    /\ IF committed[t] < Capacity /\ SeesReady(t, committed[t])
       THEN Goto(t, "cas") /\ UNCHANGED missed
       ELSE /\ Goto(t, "idle")
            /\ missed' = missed \cup {i \in {committed[t]} : i < Capacity /\ OnItsWay(i)}
    /\ UNCHANGED <<stateVars, record_count, records, record_ready, committed_record_count,
                   record, index, committed, buffered>>

(* Mutant: one attempt to advance the watermark instead of a loop. *)
AdvanceOnce(t) ==
    /\ pc[t] = "cas"
    /\ ~buffered[t]
    /\ committed_record_count' = IF committed_record_count = committed[t]
                                 THEN committed[t] + 1 ELSE committed_record_count
    /\ Goto(t, "idle")
    /\ UNCHANGED <<stateVars, record_count, records, record_ready, record,
                   index, committed, buffered, missed>>

(* Mutant: the watermark is stored without a comparison. *)
AdvanceStoring(t) ==
    /\ pc[t] = "cas"
    /\ ~buffered[t]
    /\ committed_record_count' = committed[t] + 1
    /\ committed' = [committed EXCEPT ![t] = @ + 1]
    /\ Goto(t, "scan")
    /\ UNCHANGED <<stateVars, record_count, records, record_ready, record,
                   index, buffered, missed>>

(* Mutant: the local copy is incremented after a failed exchange too. *)
AdvanceSkipping(t) ==
    /\ pc[t] = "cas"
    /\ ~buffered[t]
    /\ committed_record_count' = IF committed_record_count = committed[t]
                                 THEN committed[t] + 1 ELSE committed_record_count
    /\ committed' = [committed EXCEPT ![t] = committed_record_count + 1]
    /\ Goto(t, "scan")
    /\ UNCHANGED <<stateVars, record_count, records, record_ready, record,
                   index, buffered, missed>>

(* compare_exchange is a locked instruction as well.  On failure it loads  *)
(* the current watermark, on success the loop adds one to the local copy;  *)
(* x86-64 has no spurious failure.                                         *)
Advance(t) ==
    /\ pc[t] = "cas"
    /\ ~buffered[t]
    /\ IF committed_record_count = committed[t]
       THEN /\ committed_record_count' = committed_record_count + 1
            /\ committed' = [committed EXCEPT ![t] = @ + 1]
       ELSE /\ committed' = [committed EXCEPT ![t] = committed_record_count]
            /\ UNCHANGED committed_record_count
    /\ Goto(t, "scan")
    /\ UNCHANGED <<stateVars, record_count, records, record_ready, record,
                   index, buffered, missed>>

(* The processor writes the delayed flag to memory. *)
Drain(t) ==
    /\ buffered[t]
    /\ record_ready' = [record_ready EXCEPT ![index[t]] = TRUE]
    /\ buffered' = [buffered EXCEPT ![t] = FALSE]
    /\ UNCHANGED <<stateVars, record_count, records, committed_record_count,
                   pc, record, index, committed, missed, control>>

-----------------------------------------------------------------------------
(* A callback that fails (no clock, no buffer memory, a malformed activity *)
(* buffer) calls remember_cupti_error or remember_output_error.            *)

FailStatus(t) ==
    /\ pc[t] = "idle"
    /\ Delivering
    /\ SetErrorStatus
    /\ Goto(t, "failing")
    /\ UNCHANGED <<logVars, record, index, committed, buffered>>

FailState(t) ==
    /\ pc[t] = "failing"
    /\ SetErrorState
    /\ Goto(t, "failed")
    /\ UNCHANGED <<logVars, record, index, committed, buffered>>

FailReason(t) ==
    /\ pc[t] = "failed"
    /\ SetErrorReason
    /\ Goto(t, "idle")
    /\ UNCHANGED <<logVars, record, index, committed, buffered>>

(* The steps a thread takes once it is inside a callback. *)
Continue(t) ==
    /\ \/ Claim(t)
       \/ LimitReason(t)
       \/ LimitState(t)
       \/ WriteRecord(t)
       \/ SetReady(t)
       \/ LoadCommitted(t)
       \/ Scan(t)
       \/ Advance(t)
       \/ FailState(t)
       \/ FailReason(t)
    /\ UNCHANGED control

ThreadNext ==
    \E t \in Threads :
        \/ \E r \in Record : Enter(t, r)
        \/ Continue(t)
        \/ Drain(t)
        \/ FailStatus(t)

-----------------------------------------------------------------------------
(* The control thread touches neither the log nor the callbacks.           *)

SnapshotFails == SnapshotFlushFails /\ UNCHANGED <<logVars, threadVars>>

StopNext == StopStep(Quiet) /\ UNCHANGED <<logVars, threadVars>>

Next == ThreadNext \/ SnapshotFails \/ StopNext

Spec == Init /\ [][Next]_vars

(* The operating system keeps running a thread that is inside a callback,  *)
(* and a store buffer empties by itself.  Nothing obliges the target to    *)
(* make further CUDA calls, or the client to stop the capture.             *)
FairSpec ==
    /\ Spec
    /\ \A t \in Threads : WF_vars(Continue(t)) /\ WF_vars(Drain(t))

-----------------------------------------------------------------------------
(* The watermark only covers slots whose record is completely written and  *)
(* whose flag is up, and it never runs past the claims: what write_capture *)
(* sends is made of whole records only.                                    *)
PublishedWritten ==
    /\ committed_record_count =< record_count
    /\ \A i \in Slots :
          i < committed_record_count =>
              record_ready[i] /\ records[i] \in Record

(* The records below the watermark, as a sequence. *)
Published == [i \in 1 .. committed_record_count |-> records[i - 1]]

Abstract == INSTANCE PrefixLog WITH published <- Published

(* The store implements the append-only log: whatever the interleaving of  *)
(* enqueue_record calls, a step publishes at most one record at the end    *)
(* and never changes a published one.                                      *)
ImplementsPrefixLog == Abstract!Spec

(* Whenever no callback is storing a record, the watermark has reached     *)
(* every slot claimed within the capacity, on one condition: no thread took*)
(* the flag of the slot at the watermark for unset while that flag was in  *)
(* another thread's store buffer.  Without the condition the property is   *)
(* false of the release store and acquire loads of enqueue_record on       *)
(* x86-64 (StopReturnsTheFinalDelta); with a fence between them, which is  *)
(* StoreBuffering = FALSE, the condition always holds.                     *)
QuietMeansCommitted ==
    (\A t \in Threads : ~Storing(t)) =>
        \/ committed_record_count = Capacity
        \/ committed_record_count = record_count
        \/ committed_record_count \in missed

(* Every claimed slot within the capacity is eventually published, on the  *)
(* same condition: the only other end is that the watermark stands for     *)
(* good at a slot whose delayed flag was missed, which it does until a     *)
(* further record arrives.                                                 *)
ClaimsArePublished ==
    \A i \in Slots :
        (record_count > i) ~> \/ committed_record_count > i
                              \/ [](committed_record_count \in missed)
=============================================================================

--------------------------- MODULE RecordLogProofs ---------------------------
(***************************************************************************)
(* Proofs about the record store, for every number of threads, every       *)
(* capacity and every set of records.                                      *)
(*                                                                         *)
(* PublishedWritten is not inductive: why a flag is only raised over a     *)
(* written record is known to the threads, not to the log.  WatermarkInv   *)
(* adds who owns which slot and what a thread has seen.                    *)
(***************************************************************************)
EXTENDS RecordLog, Sequences, TLAPS

(* t has claimed a slot and not yet raised its flag. *)
Owns(t) == pc[t] \in {"write", "ready"}

OwnersInv ==
    /\ \A t \in Threads :
          Owns(t) => /\ index[t] \in Slots
                     /\ index[t] < record_count
                     /\ ~record_ready[index[t]]
                     /\ ~buffered[t]
    /\ \A t, u \in Threads :
          t # u /\ Owns(t) /\ (Owns(u) \/ buffered[u]) => index[t] # index[u]

WrittenInv ==
    /\ \A t \in Threads :
          /\ pc[t] \in {"claim", "write", "ready"} => record[t] \in Record
          /\ pc[t] = "ready" => records[index[t]] \in Record
          /\ buffered[t] => /\ index[t] \in Slots
                            /\ index[t] < record_count
                            /\ records[index[t]] \in Record
    /\ \A i \in Slots :
          record_ready[i] => i < record_count /\ records[i] \in Record

CoveredInv ==
    /\ \A i \in Slots : i < committed_record_count => record_ready[i]
    /\ \A t \in Threads :
          pc[t] = "cas" => /\ committed[t] < Capacity
                           /\ SeesReady(t, committed[t])

WatermarkInv == TypeOK /\ OwnersInv /\ WrittenInv /\ CoveredInv

(* An armed capture starts with an empty log and no owners. *)
LEMMA WatermarkInit == Init => WatermarkInv
  BY CapacityAssumption, NoRecordAssumption
  DEF Init, ControlInit, WatermarkInv, TypeOK, ControlTypeOK, OwnersInv,
  WrittenInv, CoveredInv, Owns,
      Slots, CaptureStates, StopReasons, Steps

(* The control thread leaves the log and the callbacks alone. *)
LEMMA ControlStep ==
  ASSUME SnapshotFails \/ StopNext \/ UNCHANGED vars
  PROVE  UNCHANGED <<logVars, threadVars>>
  BY DEF SnapshotFails, SnapshotFlushFails, StopNext, StopStep, Flush,
         StopFails, RememberError, Shutdown,
         CheckState, StoreStopped, StoreRequested, vars, controlVars,
         logVars, threadVars

(* Every access of enqueue_record and of stop_capture keeps the ownership  *)
(* and visibility facts.                                                   *)
LEMMA WatermarkStep == WatermarkInv /\ [Next]_vars => WatermarkInv'
<1> SUFFICES ASSUME WatermarkInv, [Next]_vars PROVE WatermarkInv'
  OBVIOUS
<1> USE CapacityAssumption, NoRecordAssumption, StoreBufferingAssumption
    DEF Goto, Owns, SeesReady
<1>1. ASSUME NEW t \in Threads, NEW r \in Record, Enter(t, r)
      PROVE WatermarkInv'
  BY <1>1 DEF Enter, WatermarkInv, TypeOK, ControlTypeOK, OwnersInv,
              WrittenInv, CoveredInv,
              stateVars, logVars, Steps
<1>2. ASSUME NEW t \in Threads, Claim(t), UNCHANGED control
      PROVE WatermarkInv'
  BY <1>2 DEF Claim, WatermarkInv, TypeOK, ControlTypeOK, OwnersInv,
              WrittenInv, CoveredInv,
              stateVars, Steps, Slots
<1>3. ASSUME NEW t \in Threads, LimitReason(t), UNCHANGED control
      PROVE WatermarkInv'
  BY <1>3 DEF LimitReason, SetLimitReason, WatermarkInv, TypeOK,
              ControlTypeOK, OwnersInv, WrittenInv,
              CoveredInv, logVars, Steps, StopReasons
<1>4. ASSUME NEW t \in Threads, LimitState(t), UNCHANGED control
      PROVE WatermarkInv'
  BY <1>4 DEF LimitState, SetLimitState, WatermarkInv, TypeOK, ControlTypeOK,
              OwnersInv, WrittenInv,
              CoveredInv, logVars, Steps, CaptureStates
<1>5. ASSUME NEW t \in Threads, WriteRecord(t), UNCHANGED control
      PROVE WatermarkInv'
  BY <1>5 DEF WriteRecord, WatermarkInv, TypeOK, ControlTypeOK, OwnersInv,
              WrittenInv,
              CoveredInv, stateVars, Steps
<1>6. ASSUME NEW t \in Threads, SetReady(t), UNCHANGED control
      PROVE WatermarkInv'
  <2> USE <1>6 DEF SetReady, WatermarkInv, TypeOK, ControlTypeOK, stateVars
  <2>1. CASE StoreBuffering
    <3>1. TypeOK'
      BY <2>1, Zenon DEF Steps
    <3>2. OwnersInv'
      BY <2>1 DEF OwnersInv
    <3>3. WrittenInv'
      BY <2>1 DEF OwnersInv, WrittenInv
    <3>4. CoveredInv'
      BY <2>1 DEF CoveredInv
    <3> QED
      BY <3>1, <3>2, <3>3, <3>4
  <2>2. CASE ~StoreBuffering
    <3>1. TypeOK'
      BY <2>2, Zenon DEF Steps
    <3>2. OwnersInv'
      BY <2>2 DEF OwnersInv
    <3>3. WrittenInv'
      BY <2>2 DEF OwnersInv, WrittenInv
    <3>4. \A i \in Slots : record_ready[i] => record_ready'[i]
      BY <2>2
    <3>5. \A u \in Threads : pc'[u] = "cas" => pc[u] = "cas"
      BY <2>2
    <3>6. CoveredInv'
      BY <2>2, <3>4, <3>5 DEF CoveredInv, Slots
    <3> QED
      BY <3>1, <3>2, <3>3, <3>6
  <2> QED
    BY <2>1, <2>2
<1>7. ASSUME NEW t \in Threads, LoadCommitted(t), UNCHANGED control
      PROVE WatermarkInv'
  BY <1>7 DEF LoadCommitted, WatermarkInv, TypeOK, ControlTypeOK, OwnersInv,
              WrittenInv,
              CoveredInv, stateVars, logVars, Steps
<1>8. ASSUME NEW t \in Threads, Scan(t), UNCHANGED control
      PROVE WatermarkInv'
  <2>1. missed' \subseteq Slots
    <3>1. /\ committed[t] < Capacity => committed[t] \in Slots
          /\ missed \subseteq Slots
      BY DEF WatermarkInv, TypeOK, Slots
    <3>2. \/ missed' = missed
          \/ missed' = missed \cup {i \in {committed[t]} : i < Capacity /\ OnItsWay(i)}
      BY <1>8 DEF Scan
    <3>3. \A i \in missed' : i \in missed \/ (i = committed[t] /\ i < Capacity)
      BY <3>2
    <3> QED
      BY <3>1, <3>3, Zenon
  <2> QED
    BY <1>8, <2>1 DEF Scan, WatermarkInv, TypeOK, ControlTypeOK, OwnersInv, WrittenInv,
                      CoveredInv, stateVars, Steps
<1>9. ASSUME NEW t \in Threads, Advance(t), UNCHANGED control
      PROVE WatermarkInv'
  <2> USE <1>9 DEF WatermarkInv
  <2>1. /\ pc' \in [Threads -> Steps] /\ pc'[t] = "scan"
        /\ \A u \in Threads : u # t => pc'[u] = pc[u]
    BY DEF Advance, TypeOK, Steps
  <2>2. committed[t] \in Slots /\ record_ready[committed[t]]
    BY DEF Advance, TypeOK, CoveredInv, SeesReady, Slots
  <2>3. /\ committed_record_count' \in 0 .. Capacity
        /\ committed' \in [Threads -> 0 .. Capacity]
        /\ \A u \in Threads : u # t => committed'[u] = committed[u]
    <3>1. committed_record_count + 1 \in 0 .. Capacity
             \/ committed_record_count # committed[t]
      BY <2>2 DEF Slots
    <3>2. CASE committed_record_count = committed[t]
      BY <3>1, <3>2 DEF Advance, TypeOK
    <3>3. CASE committed_record_count # committed[t]
      BY <3>3 DEF Advance, TypeOK
    <3> QED
      BY <3>2, <3>3
  <2>4. TypeOK'
    BY <2>1, <2>3 DEF Advance, TypeOK, ControlTypeOK, stateVars
  <2>5. OwnersInv' /\ WrittenInv'
    BY <2>1 DEF Advance, TypeOK, OwnersInv, WrittenInv
  <2>6. \A i \in Slots : i < committed_record_count' => record_ready[i]
    BY <2>2 DEF Advance, TypeOK, CoveredInv, Slots
  <2>7. CoveredInv'
    BY <2>1, <2>3, <2>6 DEF Advance, CoveredInv, SeesReady
  <2> QED
    BY <2>4, <2>5, <2>7
<1>10. ASSUME NEW t \in Threads, FailReason(t), UNCHANGED control
       PROVE WatermarkInv'
  BY <1>10 DEF FailReason, SetErrorReason, WatermarkInv, TypeOK,
               ControlTypeOK, OwnersInv, WrittenInv,
               CoveredInv, logVars, Steps, StopReasons
<1>11. ASSUME NEW t \in Threads, Drain(t)
       PROVE WatermarkInv'
  BY <1>11 DEF Drain, WatermarkInv, TypeOK, ControlTypeOK, OwnersInv,
               WrittenInv,
               CoveredInv, stateVars
<1>12. ASSUME NEW t \in Threads,
              FailStatus(t) \/ (FailState(t) /\ UNCHANGED control)
       PROVE WatermarkInv'
  BY <1>12 DEF FailStatus, SetErrorStatus, FailState, SetErrorState,
               WatermarkInv, TypeOK, ControlTypeOK, OwnersInv,
               WrittenInv, CoveredInv, logVars, Steps, CaptureStates
<1>13. CASE SnapshotFails \/ StopNext
  <2>1. TypeOK'
    BY <1>13 DEF SnapshotFails, SnapshotFlushFails, StopNext, StopStep,
                 Flush, StopFails, RememberError,
                 Shutdown, CheckState, StoreStopped, StoreRequested,
                 WatermarkInv, TypeOK, ControlTypeOK, stateVars, logVars,
                 threadVars,
                 CaptureStates, StopReasons
  <2>2. UNCHANGED <<logVars, threadVars>>
    BY <1>13, ControlStep
  <2> QED
    BY <2>1, <2>2 DEF WatermarkInv, OwnersInv, WrittenInv, CoveredInv,
                      logVars, threadVars
<1>14. CASE UNCHANGED vars
  BY <1>14 DEF vars, controlVars, stateVars, logVars, threadVars,
               WatermarkInv, TypeOK, ControlTypeOK,
               OwnersInv, WrittenInv, CoveredInv
<1> QED
  BY <1>1, <1>2, <1>3, <1>4, <1>5, <1>6, <1>7, <1>8, <1>9, <1>10, <1>11,
     <1>12, <1>13, <1>14
  DEF Next, ThreadNext, Continue

(* The ownership and visibility facts hold in every reachable state. *)
LEMMA WatermarkAlways == Spec => []WatermarkInv
  BY WatermarkInit, WatermarkStep, PTL DEF Spec

(* Type correctness of the record store: the watermark never passes the    *)
(* capacity, whatever enqueue_record's loops race on.                      *)
THEOREM TypeCorrect == Spec => []TypeOK
  BY WatermarkAlways, PTL DEF WatermarkInv

(* They imply that the watermark of enqueue_record covers whole records. *)
LEMMA WatermarkImplies == WatermarkInv => PublishedWritten
  <1> SUFFICES ASSUME WatermarkInv PROVE PublishedWritten
    OBVIOUS
  <1>1. ASSUME committed_record_count > record_count PROVE FALSE
    <2>1. committed_record_count - 1 \in Slots
      BY <1>1, CapacityAssumption DEF WatermarkInv, TypeOK, Slots
    <2>2. record_ready[committed_record_count - 1]
      BY <2>1 DEF WatermarkInv, TypeOK, CoveredInv, Slots
    <2> QED
      BY <1>1, <2>1, <2>2 DEF WatermarkInv, TypeOK, WrittenInv
  <1> QED
    BY <1>1 DEF WatermarkInv, TypeOK, CoveredInv, WrittenInv, PublishedWritten

(* Readers only ever see whole records: with or without store buffering,   *)
(* the watermark covers written records with their flag up.                *)
THEOREM PublishedIsWritten == Spec => []PublishedWritten
  BY WatermarkAlways, WatermarkImplies, PTL

-----------------------------------------------------------------------------
(* The store implements the append-only log.                               *)

(* A step that leaves the watermark and the records below it alone is      *)
(* invisible to readers.                                                   *)
LEMMA InvisibleStep ==
  ASSUME TypeOK, committed_record_count' = committed_record_count,
         \A i \in Slots : i < committed_record_count => records'[i] = records[i]
  PROVE  Published' = Published
  BY CapacityAssumption DEF Published, TypeOK, Slots

(* A successful compare-and-swap appends the record it passes. *)
LEMMA VisibleStep ==
  ASSUME TypeOK, committed_record_count \in Slots,
         records[committed_record_count] \in Record,
         committed_record_count' = committed_record_count + 1,
         records' = records
  PROVE  Abstract!Next
<1> DEFINE n == committed_record_count
           r == records[committed_record_count]
<1>1. n \in Nat /\ n < Capacity /\ Capacity \in Nat
  BY CapacityAssumption DEF Slots
<1>2. Published \in Seq(Record \cup {NoRecord}) /\ Len(Published) = n
  <2>1. \A i \in 1 .. n : i - 1 \in Slots
    BY <1>1 DEF Slots
  <2>2. \A i \in 1 .. n : records[i - 1] \in Record \cup {NoRecord}
    BY <2>1 DEF TypeOK
  <2> QED
    BY <1>1, <2>2 DEF Published
<1>3. Published' = Append(Published, r)
  <2>1. Published' = [i \in 1 .. n + 1 |-> records[i - 1]]
    BY DEF Published
  <2>2. Append(Published, r)
          = [i \in 1 .. n + 1 |-> IF i = n + 1 THEN r ELSE Published[i]]
    BY <1>1, <1>2
  <2>3. \A i \in 1 .. n + 1 :
           records[i - 1] = IF i = n + 1 THEN r ELSE Published[i]
    BY <1>1 DEF Published
  <2> QED
    BY <2>1, <2>2, <2>3
<1>4. Abstract!Publish(r)
  BY <1>1, <1>2, <1>3 DEF Abstract!Publish
<1> QED
  BY <1>4 DEF Abstract!Next

(* Every step of the threads and of stop_capture is an append or invisible. *)
LEMMA RefinementStep ==
  WatermarkInv /\ [Next]_vars => [Abstract!Next]_Published
<1> SUFFICES ASSUME WatermarkInv, [Next]_vars
             PROVE  Abstract!Next \/ Published' = Published
  BY DEF WatermarkInv
<1>1. ASSUME NEW t \in Threads, WriteRecord(t)
      PROVE Published' = Published
  BY <1>1, InvisibleStep
  DEF WriteRecord, WatermarkInv, TypeOK, OwnersInv, CoveredInv, Owns
<1>2. ASSUME NEW t \in Threads, Advance(t)
      PROVE Abstract!Next \/ Published' = Published
  <2>1. CASE committed_record_count = committed[t]
    <3>1. /\ committed_record_count \in Slots
          /\ record_ready[committed_record_count]
      BY <1>2, <2>1, CapacityAssumption
      DEF Advance, WatermarkInv, TypeOK, CoveredInv, SeesReady, Slots
    <3>2. records[committed_record_count] \in Record
      BY <3>1 DEF WatermarkInv, WrittenInv
    <3> QED
      BY <1>2, <2>1, <3>1, <3>2, VisibleStep DEF Advance, WatermarkInv
  <2>2. CASE committed_record_count # committed[t]
    BY <1>2, <2>2, InvisibleStep DEF Advance, WatermarkInv
  <2> QED
    BY <2>1, <2>2
<1>3. ASSUME UNCHANGED <<records, committed_record_count>>
      PROVE Published' = Published
  BY <1>3, InvisibleStep DEF WatermarkInv
<1>4. ASSUME NEW t \in Threads, Continue(t), ~WriteRecord(t), ~Advance(t)
      PROVE UNCHANGED <<records, committed_record_count>>
  BY <1>4 DEF Continue, Claim, LimitReason, LimitState, SetReady,
              LoadCommitted, Scan, FailState, FailReason, logVars
<1>5. ASSUME NEW t \in Threads, (\E r \in Record : Enter(t, r)) \/ Drain(t) \/ FailStatus(t)
      PROVE UNCHANGED <<records, committed_record_count>>
  BY <1>5 DEF Enter, Drain, FailStatus, logVars
<1>6. ASSUME SnapshotFails \/ StopNext \/ UNCHANGED vars
      PROVE UNCHANGED <<records, committed_record_count>>
  BY <1>6, ControlStep DEF logVars
<1> QED
  BY <1>1, <1>2, <1>3, <1>4, <1>5, <1>6 DEF Next, ThreadNext

(* The lock-free store implements the append-only log, with and without    *)
(* store buffering: published records are never rewritten, reordered or    *)
(* withdrawn, which is what incremental SNAPSHOT offsets rely on.          *)
THEOREM Implementation == Spec => ImplementsPrefixLog
<1>1. Init => Abstract!Init
  BY DEF Init, Abstract!Init, Published
<1> QED
  BY <1>1, WatermarkAlways, RefinementStep, PTL
  DEF Spec, ImplementsPrefixLog, Abstract!Spec

-----------------------------------------------------------------------------
(* What a record may be stranded by.  The argument: a thread leaves the    *)
(* loop only when it does not see the flag of the slot at the watermark,   *)
(* and the thread that raises that flag still has to look.  So a flag at   *)
(* the watermark that nobody is going to look at was in a store buffer     *)
(* when the last thread looked.                                            *)

InLoop(t) == pc[t] \in {"load", "scan", "cas"}

\* The flag of slot i is up, in memory or on its way there.
Raised(i) == record_ready[i] \/ OnItsWay(i)

CommitInv ==
    /\ \A t \in Threads :
          pc[t] \in {"scan", "cas"} => committed[t] =< committed_record_count
    /\ \A i \in Slots :
          i < record_count /\ ~Raised(i) =>
              \E t \in Threads : Owns(t) /\ index[t] = i
    /\ \A i \in Slots :
          i = committed_record_count /\ Raised(i) =>
              i \in missed \/ \E t \in Threads : InLoop(t)

(* Every step keeps a thread responsible for each claimed or ready slot. *)
LEMMA CommitStep == WatermarkInv /\ CommitInv /\ [Next]_vars => CommitInv'
<1> SUFFICES ASSUME WatermarkInv, CommitInv, [Next]_vars PROVE CommitInv'
  OBVIOUS
<1> USE CapacityAssumption DEF Goto, Owns, InLoop, Raised, OnItsWay
<1>1. ASSUME NEW t \in Threads, NEW r \in Record, Enter(t, r)
      PROVE CommitInv'
  BY <1>1 DEF Enter, WatermarkInv, TypeOK, CommitInv, logVars
<1>2. ASSUME NEW t \in Threads, Claim(t)
      PROVE CommitInv'
  <2>1. /\ pc[t] = "claim" /\ ~buffered[t] /\ index'[t] = record_count
        /\ \A u \in Threads : u # t => index'[u] = index[u] /\ pc'[u] = pc[u]
        /\ pc'[t] = IF record_count >= Capacity THEN "reason" ELSE "write"
        /\ record_count \in Nat /\ record_count' = record_count + 1
        /\ UNCHANGED <<record_ready, committed_record_count, committed, buffered, missed>>
    BY <1>2 DEF Claim, WatermarkInv, TypeOK
  <2>2. \A i \in Slots : Raised(i)' <=> Raised(i)
    BY <2>1
  <2>3. \A i \in Slots : i < record_count' => i < record_count \/ (i = record_count /\ pc'[t] = "write")
    BY <2>1 DEF Slots
  <2>4. \A i \in Slots : i < record_count' /\ ~Raised(i)' => \E u \in Threads : Owns(u)' /\ index'[u] = i
    BY <2>1, <2>2, <2>3 DEF CommitInv
  <2>5. \A u \in Threads : InLoop(u) => InLoop(u)'
    BY <2>1
  <2> QED
    BY <2>1, <2>2, <2>4, <2>5 DEF CommitInv
<1>3. ASSUME NEW t \in Threads, 
             LimitReason(t) \/ LimitState(t) \/ FailStatus(t) \/ FailState(t) \/ FailReason(t)
      PROVE CommitInv'
  BY <1>3 DEF LimitReason, LimitState, FailStatus, FailState, FailReason,
              WatermarkInv, TypeOK, CommitInv, logVars
<1>4. ASSUME NEW t \in Threads, WriteRecord(t)
      PROVE CommitInv'
  BY <1>4 DEF WriteRecord, WatermarkInv, TypeOK, CommitInv
<1>5. ASSUME NEW t \in Threads, SetReady(t)
      PROVE CommitInv'
  BY <1>5 DEF SetReady, WatermarkInv, TypeOK, OwnersInv, CommitInv
<1>6. ASSUME NEW t \in Threads, LoadCommitted(t)
      PROVE CommitInv'
  BY <1>6 DEF LoadCommitted, WatermarkInv, TypeOK, CommitInv, logVars
<1>7. ASSUME NEW t \in Threads, Scan(t)
      PROVE CommitInv'
  <2>1. CASE committed[t] < Capacity /\ SeesReady(t, committed[t])
    BY <1>7, <2>1 DEF Scan, WatermarkInv, TypeOK, CommitInv
  <2>2. CASE ~(committed[t] < Capacity /\ SeesReady(t, committed[t]))
    <3>1. committed[t] \in 0 .. Capacity /\ committed[t] =< committed_record_count
      BY <1>7 DEF Scan, WatermarkInv, TypeOK, CommitInv
    <3>2. committed[t] \in Slots => ~record_ready[committed[t]]
      BY <2>2 DEF SeesReady, Slots
    <3>3. \A i \in Slots : i = committed_record_count =>
             /\ ~record_ready[i]
             /\ i = committed[t]
      BY <3>1, <3>2 DEF WatermarkInv, TypeOK, CoveredInv, Slots
    <3>4. \A i \in Slots : i = committed_record_count /\ OnItsWay(i) => i \in missed'
      BY <1>7, <2>2, <3>3 DEF Scan, Slots
    <3>5. /\ pc' \in [Threads -> Steps]
          /\ \A u \in Threads : pc'[u] = pc[u] \/ (u = t /\ pc[u] = "scan" /\ pc'[u] = "idle")
      BY <1>7, <2>2 DEF Scan, WatermarkInv, TypeOK, Steps
    <3>6. UNCHANGED <<record_count, record_ready, committed_record_count, index, committed, buffered>>
      BY <1>7 DEF Scan
    <3> QED
      BY <3>3, <3>4, <3>5, <3>6 DEF CommitInv
  <2> QED
    BY <2>1, <2>2
<1>8. ASSUME NEW t \in Threads, Advance(t)
      PROVE CommitInv'
  BY <1>8 DEF Advance, WatermarkInv, TypeOK, CommitInv
<1>9. ASSUME NEW t \in Threads, Drain(t)
      PROVE CommitInv'
  BY <1>9 DEF Drain, WatermarkInv, TypeOK, CommitInv
<1>10. CASE SnapshotFails \/ StopNext \/ UNCHANGED vars
  BY <1>10, ControlStep DEF logVars, threadVars, CommitInv
<1> QED
  BY <1>1, <1>2, <1>3, <1>4, <1>5, <1>6, <1>7, <1>8, <1>9, <1>10
  DEF Next, ThreadNext, Continue

(* With or without store buffering, when no callback is storing, the       *)
(* watermark of enqueue_record has passed every claimed slot within the    *)
(* capacity, unless it stands at a slot whose flag a thread missed because *)
(* the flag was still in another thread's store buffer: that race is the   *)
(* only way in which the final delta of STOP can lack a record.            *)
THEOREM NothingElseStrands == Spec => []QuietMeansCommitted
<1>1. Init => CommitInv
  BY CapacityAssumption DEF Init, CommitInv, Owns, InLoop, Raised, OnItsWay, Slots
<1>2. WatermarkInv /\ CommitInv => QuietMeansCommitted
  <2> SUFFICES ASSUME WatermarkInv, CommitInv, \A t \in Threads : ~Storing(t),
                      committed_record_count # Capacity,
                      committed_record_count # record_count
               PROVE committed_record_count \in missed
    BY DEF QuietMeansCommitted
  <2>1. committed_record_count \in Slots /\ committed_record_count < record_count
    BY WatermarkImplies, CapacityAssumption
    DEF PublishedWritten, WatermarkInv, TypeOK, Slots
  <2>2. Raised(committed_record_count)
    BY <2>1 DEF CommitInv, Storing, Owns
  <2> QED
    BY <2>1, <2>2 DEF CommitInv, Storing, InLoop
<1> QED
  BY <1>1, <1>2, WatermarkAlways, CommitStep, PTL DEF Spec

(* Without store buffering, as after a fence between the store of the flag *)
(* and the loads of the loop, no flag is ever missed.                      *)
LEMMA FencedMissesNothing ==
  ASSUME ~StoreBuffering
  PROVE  Spec => [](missed = {})
<1> DEFINE Fenced == missed = {} /\ \A t \in Threads : ~buffered[t]
<1>1. Init => Fenced
  BY DEF Init
<1>2. WatermarkInv /\ Fenced /\ [Next]_vars => Fenced'
  <2> SUFFICES ASSUME WatermarkInv, Fenced, [Next]_vars PROVE Fenced'
    OBVIOUS
  <2>1. ASSUME NEW t \in Threads, Continue(t) PROVE Fenced'
    BY <2>1 DEF Continue, Claim, LimitReason, LimitState, WriteRecord, SetReady, LoadCommitted,
                Scan, OnItsWay, Advance, FailState, FailReason, logVars
  <2>2. ASSUME NEW t \in Threads, (\E r \in Record : Enter(t, r)) \/ Drain(t) \/ FailStatus(t)
        PROVE Fenced'
    BY <2>2 DEF Enter, Drain, FailStatus, logVars
  <2>3. CASE SnapshotFails \/ StopNext \/ UNCHANGED vars
    BY <2>3, ControlStep DEF logVars, threadVars
  <2> QED
    BY <2>1, <2>2, <2>3 DEF Next, ThreadNext
<1> QED
  BY <1>1, <1>2, WatermarkAlways, PTL DEF Spec
=============================================================================

------------------------- MODULE ExactCaptureProofs -------------------------
(***************************************************************************)
(* Proofs about the capture end to end, for any number of threads and any  *)
(* capacity, with or without store buffering and however CUPTI treats      *)
(* callbacks that are running when it is told to stop.                     *)
(*                                                                         *)
(* The capture is a record store with a reader, so what RecordLogProofs    *)
(* shows of the store carries over; ReaderInv adds what the reader knows   *)
(* between its loads: both counters only grow.                             *)
(***************************************************************************)
EXTENDS ExactCapture, RecordLogProofs

(* What the control thread and the CLI do besides leaves the store alone. *)
LEMMA CaptureNextIsNext ==
  ASSUME [CaptureNext]_captureVars
  PROVE  [Next]_vars
  BY DEF CaptureNext, CallbackStep, captureVars, Next, RequestSnapshot, RequestStop,
         FlushForSnapshot, StopCapture, ReadAvailable, ReadObserved,
         ReadState, ReceiveReply

(* A capture takes only the steps of its record store. *)
LEMMA CaptureIsLog == CaptureSpec => Spec
<1>1. CaptureInit => Init
  BY DEF CaptureInit
<1>2. [CaptureNext]_captureVars => [Next]_vars
  BY CaptureNextIsNext
<1> QED
  BY <1>1, <1>2, PTL DEF CaptureSpec, Spec

ReaderTypeOK ==
    /\ command \in {"none", "SNAPSHOT", "STOP"}
    /\ server \in {"idle", "flush", "available", "observed", "state", "sent"}
    /\ available \in 0 .. Capacity
    /\ header \in Header
    /\ events \in Seq(Record \cup {NoRecord})
    /\ latest \in Header
    /\ verdict \in Verdicts

ReaderInv ==
    /\ latest.observed =< record_count
    /\ server \in {"observed", "state", "sent"} =>
          Offset =< available /\ available =< committed_record_count
    /\ server \in {"state", "sent"} =>
          /\ available =< header.observed
          /\ header.observed =< record_count
          /\ latest.observed =< header.observed

(* The control thread works on one request at a time, and writes the reply *)
(* to STOP only when stop_capture has returned.                            *)
TurnInv ==
    /\ command = "none" => server = "idle"
    /\ command = "STOP" /\ control \notin {"stopped", "abandoned"} => server = "idle"
    /\ server = "flush" => command = "SNAPSHOT"

CaptureInv == ReaderTypeOK /\ ReaderInv /\ DeliveredIsPrefix /\ NeverMalformed

(* Along a step of the store the counters grow and published records stay. *)
LEMMA LogGrows ==
  ASSUME WatermarkInv, [Next]_vars
  PROVE  /\ record_count =< record_count'
         /\ committed_record_count =< committed_record_count'
         /\ \A i \in Slots : i < committed_record_count => records'[i] = records[i]
<1>1. ASSUME NEW t \in Threads, Continue(t)
      PROVE  /\ record_count =< record_count'
             /\ committed_record_count =< committed_record_count'
             /\ \A i \in Slots : i < committed_record_count => records'[i] = records[i]
  BY <1>1 DEF Continue, Claim, LimitReason, SetLimitReason, LimitState,
              SetLimitState, WriteRecord, SetReady,
              LoadCommitted, Scan, Advance, FailState, SetErrorState,
              FailReason, SetErrorReason, logVars, WatermarkInv,
              TypeOK, OwnersInv, CoveredInv, Owns
<1>2. ASSUME NEW t \in Threads, (\E r \in Record : Enter(t, r)) \/ Drain(t) \/ FailStatus(t)
      PROVE  UNCHANGED <<record_count, committed_record_count, records>>
  BY <1>2 DEF Enter, Drain, FailStatus, SetErrorStatus, logVars
<1>3. ASSUME SnapshotFails \/ StopNext \/ UNCHANGED vars
      PROVE  UNCHANGED <<record_count, committed_record_count, records>>
  BY <1>3, ControlStep DEF logVars
<1>4. /\ record_count \in Nat /\ committed_record_count \in Nat
  BY CapacityAssumption DEF WatermarkInv, TypeOK
<1> QED
  BY <1>1, <1>2, <1>3, <1>4 DEF Next, ThreadNext

(* The reader starts level with an empty log. *)
LEMMA CaptureInvInit == CaptureInit => CaptureInv
  BY CapacityAssumption
  DEF CaptureInit, Init, ControlInit, CaptureInv, ReaderTypeOK, ReaderInv,
      DeliveredIsPrefix, NeverMalformed, Header, CaptureStates, Verdicts,
      Offset

(* A step that the reader and the CLI take no part in keeps what they know *)
(* of the log.                                                             *)
LEMMA QuietReader ==
  ASSUME WatermarkInv, WatermarkInv', [Next]_vars, CaptureInv,
         UNCHANGED <<available, header, clientVars>>,
         server' \in {"idle", "flush", "available", server},
         command' \in {"none", "SNAPSHOT", "STOP"},
         server \in {"observed", "state", "sent"} => server' = server
  PROVE  CaptureInv'
<1>1. ReaderTypeOK'
  BY DEF CaptureInv, ReaderTypeOK, clientVars
<1>2. /\ record_count \in Nat /\ record_count' \in Nat
      /\ committed_record_count \in Nat /\ committed_record_count' \in Nat
      /\ Len(events) \in Nat /\ available \in Nat
      /\ header.observed \in Nat /\ latest.observed \in Nat
      /\ committed_record_count =< Capacity
  BY CapacityAssumption
  DEF WatermarkInv, TypeOK, CaptureInv, ReaderTypeOK, Header
<1>3. ReaderInv'
  BY <1>2, LogGrows DEF CaptureInv, ReaderInv, clientVars, Offset
<1>4. DeliveredIsPrefix'
  <2>1. Len(events) =< committed_record_count'
    BY <1>2, LogGrows DEF CaptureInv, DeliveredIsPrefix
  <2>2. \A k \in 1 .. Len(events) : k - 1 \in Slots /\ k - 1 < committed_record_count
    BY <1>2, CapacityAssumption DEF CaptureInv, DeliveredIsPrefix, Slots
  <2>3. \A k \in 1 .. Len(events) : records'[k - 1] = records[k - 1]
    BY <2>2, LogGrows
  <2> QED
    BY <2>1, <2>3 DEF CaptureInv, DeliveredIsPrefix, clientVars
<1>5. NeverMalformed'
  BY DEF CaptureInv, NeverMalformed, clientVars
<1> QED
  BY <1>1, <1>3, <1>4, <1>5 DEF CaptureInv

(* A well-formed reply brings the CLI up to the watermark that was read. *)
LEMMA ReplyLength ==
  ASSUME WatermarkInv, CaptureInv, ReceiveReply, Accept
  PROVE  /\ Delta \in Seq(Record)
         /\ Len(Delta) = available - Offset
         /\ Len(events') = available
         /\ \A k \in 1 .. available - Offset : records[Offset + k - 1] \in Record
<1>1. /\ committed_record_count \in Nat /\ Len(events) \in Nat
      /\ available \in Nat /\ Capacity \in Nat
      /\ committed_record_count =< Capacity
  BY CapacityAssumption
  DEF WatermarkInv, TypeOK, CaptureInv, ReaderTypeOK
<1>2. /\ available - Offset \in Nat
      /\ Offset + (available - Offset) = available
      /\ available =< committed_record_count
  BY <1>1 DEF ReceiveReply, CaptureInv, ReaderInv, Offset
<1>3. \A k \in 1 .. available - Offset :
          Offset + k - 1 \in Slots /\ records[Offset + k - 1] \in Record
  BY <1>1, <1>2, WatermarkImplies DEF PublishedWritten, Slots, Offset
<1>4. Delta \in Seq(Record) /\ Len(Delta) = available - Offset
  BY <1>2, <1>3 DEF Delta
<1>5. Len(events') = Len(events) + Len(Delta)
  <2>1. events \in Seq(Record \cup {NoRecord}) /\ events' = events \o Delta
    BY DEF Accept, CaptureInv, ReaderTypeOK
  <2>2. Delta \in Seq(Record \cup {NoRecord})
    BY <1>4
  <2> QED
    BY <2>1, <2>2
<1> QED
  BY <1>1, <1>2, <1>3, <1>4, <1>5, Zenon DEF Offset

(* Appending a delta to what the CLI holds extends the prefix. *)
LEMMA ReplyExtendsPrefix ==
  ASSUME WatermarkInv, CaptureInv, ReceiveReply
  PROVE  CaptureInv'
<1> USE DEF ReceiveReply
<1>1. /\ record_count \in Nat /\ committed_record_count \in Nat
      /\ Len(events) \in Nat /\ available \in Nat
      /\ header.observed \in Nat /\ latest.observed \in Nat
      /\ committed_record_count =< Capacity /\ Capacity \in Nat
      /\ header \in Header
  BY CapacityAssumption
  DEF WatermarkInv, TypeOK, CaptureInv, ReaderTypeOK, Header
<1>2. WellFormed
  BY <1>1 DEF WellFormed, CaptureInv, ReaderInv
<1>3. Accept /\ UNCHANGED <<vars, available, header>>
  BY <1>2
<1>4. /\ available - Offset \in Nat
      /\ Offset + (available - Offset) = available
      /\ available =< committed_record_count
  BY <1>1 DEF CaptureInv, ReaderInv, Offset
<1>6. \A k \in 1 .. available - Offset : records[Offset + k - 1] \in Record
  BY <1>3, ReplyLength
<1>7. Delta \in Seq(Record) /\ Len(Delta) = available - Offset
  BY <1>3, ReplyLength
<1>8. Len(events') = available
  BY <1>3, ReplyLength
<1>9. ReaderTypeOK'
  <2>1. Delta \in Seq(Record \cup {NoRecord})
    BY <1>7
  <2>2. events' \in Seq(Record \cup {NoRecord})
    BY <1>3, <2>1 DEF Accept, CaptureInv, ReaderTypeOK
  <2>3. verdict' \in Verdicts /\ latest' \in Header
    BY <1>1, <1>3, Zenon DEF Accept, Judge, Verdicts, CaptureInv, ReaderTypeOK
  <2> QED
    BY <1>3, <2>2, <2>3 DEF CaptureInv, ReaderTypeOK
<1>10. ReaderInv'
  <2>1. latest' = header /\ record_count' = record_count
    BY <1>3 DEF Accept, vars, logVars
  <2> QED
    BY <2>1 DEF CaptureInv, ReaderInv
<1>11. DeliveredIsPrefix'
  <2>1. records' = records /\ committed_record_count' = committed_record_count
    BY <1>3 DEF vars, logVars
  <2>2. ASSUME NEW k \in 1 .. Len(events')
        PROVE  events'[k] = records[k - 1] /\ events'[k] \in Record
    <3>1. CASE k =< Len(events)
      <4>1. k \in 1 .. Len(events)
        BY <1>1, <1>8, <3>1
      <4>2. events'[k] = events[k]
        BY <1>3, <1>7, <4>1 DEF Accept, CaptureInv, ReaderTypeOK
      <4> QED
        BY <4>1, <4>2 DEF CaptureInv, DeliveredIsPrefix
    <3>2. CASE ~(k =< Len(events))
      <4>1. k - Len(events) \in 1 .. available - Offset
        BY <1>1, <1>4, <1>8, <3>2 DEF Offset
      <4>2. events'[k] = Delta[k - Len(events)]
        BY <1>1, <1>3, <1>7, <1>8, <3>2, <4>1 DEF Accept, CaptureInv,
                                                  ReaderTypeOK
      <4>3. Offset + (k - Len(events)) - 1 = k - 1
        BY <1>1, <1>8 DEF Offset
      <4> QED
        BY <1>6, <4>1, <4>2, <4>3 DEF Delta
    <3> QED
      BY <3>1, <3>2
  <2> QED
    BY <1>1, <1>4, <1>8, <2>1, <2>2 DEF DeliveredIsPrefix
<1>12. NeverMalformed'
  BY <1>3, Zenon DEF Accept, Judge, CaptureInv, NeverMalformed
<1> QED
  BY <1>9, <1>10, <1>11, <1>12 DEF CaptureInv
(* Every step of the control thread, the callbacks and the CLI keeps what  *)
(* the reader knows.                                                       *)
LEMMA CaptureInvStep ==
  ASSUME WatermarkInv, WatermarkInv', TurnInv, CaptureInv,
         [CaptureNext]_captureVars
  PROVE  CaptureInv'
<1>1. [Next]_vars
  BY CaptureNextIsNext
<1>2. CASE CallbackStep \/ UNCHANGED captureVars
  BY <1>1, <1>2, QuietReader
  DEF CallbackStep, readerVars, captureVars, CaptureInv, ReaderTypeOK
<1>3. CASE RequestSnapshot \/ RequestStop
  BY <1>1, <1>3, QuietReader
  DEF RequestSnapshot, RequestStop, TurnInv, CaptureInv, ReaderTypeOK
<1>4. CASE FlushForSnapshot
  BY <1>1, <1>4, QuietReader
  DEF FlushForSnapshot, CaptureInv, ReaderTypeOK
<1>5. CASE StopCapture
  <2>1. control \notin {"stopped", "abandoned"}
    BY <1>5 DEF StopCapture, StopNext, StopStep, Flush, StopFails, Shutdown,
                CheckState,
                StoreStopped, StoreRequested
  <2> QED
    BY <1>1, <1>5, <2>1, QuietReader
    DEF StopCapture, TurnInv, CaptureInv, ReaderTypeOK
<1>6. CASE ReadAvailable
  BY <1>6, CapacityAssumption
  DEF ReadAvailable, CaptureInv, ReaderTypeOK, ReaderInv, DeliveredIsPrefix,
      NeverMalformed, Offset, clientVars, vars, logVars, WatermarkInv, TypeOK
<1>7. CASE ReadObserved
  <2>1. PublishedWritten
    BY WatermarkImplies
  <2>2. /\ record_count \in Nat /\ committed_record_count \in Nat
        /\ available \in Nat /\ header \in Header
    BY CapacityAssumption DEF WatermarkInv, TypeOK, CaptureInv, ReaderTypeOK
  <2>3. header' \in Header /\ header'.observed = record_count
    BY <1>7, <2>2 DEF ReadObserved, Header
  <2> QED
    BY <1>7, <2>1, <2>2, <2>3
    DEF ReadObserved, CaptureInv, ReaderTypeOK, ReaderInv, DeliveredIsPrefix,
        NeverMalformed, Offset, clientVars, vars, logVars, PublishedWritten
<1>8. CASE ReadState
  <2>1. header' \in Header /\ header'.observed = header.observed
    BY <1>8, Zenon DEF ReadState, Header, CaptureInv, ReaderTypeOK, WatermarkInv,
                TypeOK,
                ControlTypeOK
  <2> QED
    BY <1>8, <2>1
    DEF ReadState, CaptureInv, ReaderTypeOK, ReaderInv, DeliveredIsPrefix,
        NeverMalformed, Offset, clientVars, vars, logVars
<1>9. CASE ReceiveReply
  BY <1>9, ReplyExtendsPrefix
<1> QED
  BY <1>2, <1>3, <1>4, <1>5, <1>6, <1>7, <1>8, <1>9 DEF CaptureNext

LateTyped == late \in BOOLEAN

(* Only callbacks and stop_capture can make a callback late. *)
LEMMA WatchOrKeep ==
  ASSUME [CaptureNext]_captureVars
  PROVE  (CallbackStep /\ Watch) \/ (StopCapture /\ Watch) \/ late' = late
  BY DEF CaptureNext, CallbackStep, captureVars, RequestSnapshot, RequestStop,
         FlushForSnapshot, StopCapture, ReadAvailable, ReadObserved,
         ReadState, ReceiveReply

(* Requests and replies alternate. *)
LEMMA TurnStep ==
  ASSUME TurnInv, [CaptureNext]_captureVars
  PROVE  TurnInv'
<1>1. CASE CallbackStep
  <2>1. control' = control
    BY <1>1 DEF CallbackStep, ThreadNext, Enter, Continue, Drain, FailStatus, SetErrorStatus
  <2> QED
    BY <1>1, <2>1 DEF CallbackStep, readerVars, TurnInv
<1>2. CASE FlushForSnapshot
  BY <1>2 DEF FlushForSnapshot, TurnInv
<1>3. CASE StopCapture
  BY <1>3 DEF StopCapture, StopNext, StopStep, Flush, StopFails, Shutdown,
              CheckState,
              StoreStopped, StoreRequested, StopReturned, TurnInv
<1>4. CASE UNCHANGED captureVars
  BY <1>4 DEF captureVars, vars, controlVars, readerVars, TurnInv
<1>5. CASE \/ RequestSnapshot \/ RequestStop \/ ReadAvailable \/ ReadObserved
           \/ ReadState \/ ReceiveReply
  BY <1>5 DEF RequestSnapshot, RequestStop, ReadAvailable, ReadObserved,
              ReadState, ReceiveReply, vars, controlVars, TurnInv
<1> QED
  BY <1>1, <1>2, <1>3, <1>4, <1>5 DEF CaptureNext

(* The invariants of the store and of the reader, together. *)
LEMMA CaptureAlways == CaptureSpec => [](WatermarkInv /\ TurnInv /\ CaptureInv)
<1>1. CaptureSpec => []WatermarkInv
  BY CaptureIsLog, WatermarkAlways
<1>2. CaptureInit => TurnInv
  BY DEF CaptureInit, TurnInv
<1> QED
  BY <1>1, <1>2, CaptureInvInit, CaptureInvStep, TurnStep, PTL DEF CaptureSpec

(* Every value the control thread and the CLI hold is one the code can     *)
(* hold.                                                                   *)
THEOREM CaptureTypeCorrect == CaptureSpec => []CaptureTypeOK
<1>1. WatermarkInv /\ CaptureInv /\ LateTyped => CaptureTypeOK
  BY DEF WatermarkInv, CaptureInv, ReaderTypeOK, LateTyped, CaptureTypeOK
<1>2. CaptureInit => LateTyped
  BY Zenon DEF CaptureInit, LateTyped
<1>3. LateTyped /\ [CaptureNext]_captureVars => LateTyped'
  BY WatchOrKeep, Zenon DEF Watch, LateTyped
<1> QED
  BY <1>1, <1>2, <1>3, CaptureAlways, PTL DEF CaptureSpec

(* Whatever callbacks store while SNAPSHOTs and the STOP are answered, the *)
(* CLI accumulates the beginning of the log: no gap, no repetition, no     *)
(* half-written record.                                                    *)
THEOREM DeliveryIsPrefix == CaptureSpec => []DeliveredIsPrefix
<1>1. CaptureInv => DeliveredIsPrefix
  BY DEF CaptureInv
<1> QED
  BY <1>1, CaptureAlways, PTL

(* The Agent never sends a reply whose counters the CLI refuses. *)
THEOREM RepliesAreAccepted == CaptureSpec => []NeverMalformed
<1>1. CaptureInv => NeverMalformed
  BY DEF CaptureInv
<1> QED
  BY <1>1, CaptureAlways, PTL
-----------------------------------------------------------------------------
-----------------------------------------------------------------------------
(* What a complete capture holds.  From shutdown_agent on, a callback that *)
(* is storing makes the capture late; while it is not, the log stands      *)
(* still and so do the counters that write_capture reads.                  *)

Ending == control \in {"check", "store", "reason", "stopped"}

AtLimit(t) == pc[t] \in {"reason", "limit"}

EndingInv ==
    /\ Ending => late \/ \A t \in Threads : ~Storing(t)
    /\ control = "store" => late \/ record_count =< Capacity
    /\ capture_state = "STOPPED" => control \in {"reason", "stopped"}
    /\ record_count > Capacity =>
          \/ late
          \/ capture_state \notin {"ACTIVE", "STOPPED"}
          \/ \E t \in Threads : AtLimit(t)

FinalReplyInv ==
    /\ command = "STOP" /\ control = "stopped" /\ ~late =>
          /\ server \in {"observed", "state", "sent"} => available = committed_record_count
          /\ server \in {"state", "sent"} => header.observed = record_count
    /\ command = "STOP" /\ server = "sent" /\ header.state = "STOPPED" =>
          control = "stopped" /\ (late \/ record_count =< Capacity)
    /\ verdict = "complete" =>
          /\ control = "stopped"
          /\ command = "none"
          /\ CompleteMeansEverything

(* A late capture stays late. *)
LEMMA LateStays ==
  ASSUME [CaptureNext]_captureVars
  PROVE  late => late'
  BY WatchOrKeep, Zenon DEF Watch

(* A flag that was missed stays so. *)
LEMMA MissedGrows ==
  ASSUME [Next]_vars
  PROVE  missed \subseteq missed'
<1>1. ASSUME NEW t \in Threads, Continue(t)
      PROVE missed \subseteq missed'
  <2>1. CASE Scan(t)
    <3>1. \/ missed' = missed
          \/ missed' = missed \cup {i \in {committed[t]} : i < Capacity /\ OnItsWay(i)}
      BY <2>1 DEF Scan
    <3> QED
      BY <3>1, Zenon
  <2>2. CASE ~Scan(t)
    BY <1>1, <2>2 DEF Continue, Claim, LimitReason, LimitState, WriteRecord, SetReady,
                      LoadCommitted, Advance, FailState, FailReason, logVars
  <2> QED
    BY <2>1, <2>2
<1>2. ASSUME NEW t \in Threads, (\E r \in Record : Enter(t, r)) \/ Drain(t) \/ FailStatus(t)
      PROVE missed' = missed
  BY <1>2 DEF Enter, Drain, FailStatus, logVars
<1>3. CASE SnapshotFails \/ StopNext \/ UNCHANGED vars
  BY <1>3, ControlStep DEF logVars
<1> QED
  BY <1>1, <1>2, <1>3 DEF Next, ThreadNext

(* A step of a thread either is one of enqueue_record, before or after     *)
(* which the thread is storing, or leaves the counters alone.              *)
LEMMA ThreadStepCounts ==
  ASSUME WatermarkInv, ThreadNext
  PROVE  \/ \E t \in Threads : Storing(t) \/ Storing(t)'
         \/ /\ UNCHANGED <<record_count, committed_record_count>>
            /\ \A t \in Threads : ~Storing(t)'
<1>1. PICK t \in Threads : \/ \E r \in Record : Enter(t, r)
                           \/ Continue(t) \/ Drain(t) \/ FailStatus(t)
  BY DEF ThreadNext
<1>2. CASE FailStatus(t) \/ Drain(t) \/ FailState(t) \/ FailReason(t)
  BY <1>2 DEF FailStatus, Drain, FailState, FailReason, logVars
<1>3. CASE \E r \in Record : Enter(t, r)
  BY <1>3 DEF Enter, Goto, Storing, WatermarkInv, TypeOK
<1>4. CASE Continue(t) /\ ~FailState(t) /\ ~FailReason(t)
  BY <1>4 DEF Continue, Claim, LimitReason, LimitState, WriteRecord, SetReady,
              LoadCommitted, Scan, Advance, Storing
<1> QED
  BY <1>1, <1>2, <1>3, <1>4

(* Past shutdown_agent, a capture that is not late stands still. *)
LEMMA EndingStands ==
  ASSUME WatermarkInv, EndingInv, CallbackStep, Ending
  PROVE  \/ late'
         \/ /\ UNCHANGED <<record_count, committed_record_count>>
            /\ \A t \in Threads : ~Storing(t)'
<1>1. control' = control
  BY DEF CallbackStep, ThreadNext, Enter, Continue, Drain, FailStatus, SetErrorStatus
<1>2. late' = (late \/ (Ending' /\ \E t \in Threads : Storing(t)'))
  BY DEF CallbackStep, Watch, Overrun, Ending
<1>3. Ending'
  BY <1>1 DEF Ending
<1>4. CASE late
  BY <1>2, <1>4, Zenon
<1>5. CASE ~late
  <2>1. \A t \in Threads : ~Storing(t)
    BY <1>5 DEF EndingInv
  <2> QED
    BY <1>2, <1>3, <2>1, ThreadStepCounts, Zenon DEF CallbackStep
<1> QED
  BY <1>4, <1>5

(* The state after a step of a thread: a callback stores no STOPPED. *)
LEMMA ThreadStepState ==
  ASSUME ThreadNext
  PROVE  control' = control /\ capture_state' \in {capture_state, "LIMIT_REACHED", "FAILED"}
  BY DEF ThreadNext, Enter, Continue, Drain, FailStatus, SetErrorStatus, Claim,
         LimitReason, SetLimitReason, LimitState, SetLimitState,
         WriteRecord, SetReady, LoadCommitted, Scan, Advance, FailState,
         SetErrorState, FailReason, SetErrorReason, stateVars

(* A callback that is turned away stores the limit before it returns. *)
LEMMA LimitIsTold ==
  ASSUME WatermarkInv, ThreadNext, record_count' > Capacity,
         capture_state' = capture_state,
         record_count > Capacity => \E t \in Threads : AtLimit(t)
  PROVE  (\E t \in Threads : AtLimit(t)') \/ capture_state = "LIMIT_REACHED"
<1>0. record_count \in Nat /\ Capacity \in Nat
  BY CapacityAssumption DEF WatermarkInv, TypeOK
<1>1. PICK t \in Threads : \/ \E r \in Record : Enter(t, r)
                           \/ Continue(t) \/ Drain(t) \/ FailStatus(t)
  BY DEF ThreadNext
<1>2. CASE Claim(t)
  BY <1>0, <1>2 DEF Claim, Goto, AtLimit, WatermarkInv, TypeOK
<1>3. CASE LimitState(t)
  BY <1>3 DEF LimitState, SetLimitState
<1>4. CASE ~Claim(t) /\ ~LimitState(t)
  <2>1. record_count' = record_count
    BY <1>1, <1>4 DEF Enter, Continue, Drain, FailStatus, LimitReason,
                      WriteRecord, SetReady, LoadCommitted, Scan,
                      Advance, FailState, FailReason, logVars
  <2>2. PICK u \in Threads : AtLimit(u)
    BY <2>1
  <2>3. pc'[u] = pc[u] \/ (u = t /\ LimitReason(t))
    BY <1>1, <1>4, <2>2
    DEF Enter, Continue, Drain, FailStatus, LimitReason, WriteRecord,
        SetReady, LoadCommitted, Scan, Advance, FailState, FailReason,
        Goto, AtLimit, WatermarkInv, TypeOK
  <2> QED
    BY <2>2, <2>3 DEF LimitReason, Goto, AtLimit, WatermarkInv, TypeOK
<1> QED
  BY <1>2, <1>3, <1>4

(* stop_capture finds the limit that a callback met unless one is late. *)
LEMMA EndingStep ==
  ASSUME WatermarkInv, EndingInv, [CaptureNext]_captureVars
  PROVE  EndingInv'
<1>0. record_count \in Nat /\ Capacity \in Nat
  BY CapacityAssumption DEF WatermarkInv, TypeOK
<1>1. CASE CallbackStep
  <2>0. ThreadNext
    BY <1>1 DEF CallbackStep
  <2>1. control' = control /\ (late => late')
    BY <2>0, ThreadStepState, LateStays
  <2>2. Ending' => late' \/ \A t \in Threads : ~Storing(t)'
    BY <1>1, Zenon DEF CallbackStep, Watch, Overrun, Ending
  <2>3. control' = "store" => late' \/ record_count' =< Capacity
    BY <1>1, <2>1, EndingStands DEF EndingInv, Ending
  <2>4. capture_state' = "STOPPED" => control' \in {"reason", "stopped"}
    BY <2>0, <2>1, ThreadStepState DEF EndingInv
  <2>5. ASSUME record_count' > Capacity, ~late', capture_state' \in {"ACTIVE", "STOPPED"}
        PROVE  \E t \in Threads : AtLimit(t)'
    <3>1. capture_state' = capture_state
      BY <2>0, <2>5, ThreadStepState
    <3>2. record_count > Capacity => \E t \in Threads : AtLimit(t)
      BY <2>1, <2>5, <3>1 DEF EndingInv
    <3> QED
      BY <2>0, <2>5, <3>1, <3>2, LimitIsTold
  <2> QED
    BY <2>1, <2>2, <2>3, <2>4, <2>5 DEF EndingInv, Ending
<1>2. CASE UNCHANGED <<vars, late>>
  BY <1>2 DEF vars, controlVars, stateVars, logVars, threadVars, EndingInv,
              Ending, Storing, AtLimit
<1>3. CASE SnapshotFails /\ late' = late
  BY <1>3 DEF SnapshotFails, SnapshotFlushFails, RememberError, EndingInv,
              Ending, Storing, AtLimit, logVars, threadVars
<1>4. CASE StopCapture
  <2>1. UNCHANGED <<logVars, threadVars>> /\ (late => late')
    BY <1>4, ControlStep, LateStays DEF StopCapture
  <2>2. Ending' => late' \/ \A t \in Threads : ~Storing(t)'
    BY <1>4, Zenon DEF StopCapture, Watch, Overrun, Ending
  <2>3. record_count' = record_count /\ \A t \in Threads : AtLimit(t)' <=> AtLimit(t)
    BY <2>1 DEF logVars, threadVars, AtLimit
  <2>4. CASE Flush \/ Shutdown(Quiet)
    BY <2>1, <2>2, <2>3, <2>4 DEF EndingInv, Ending, Flush, Shutdown, stateVars
  <2>5. CASE CheckState
    <3>1. late \/ \A t \in Threads : ~AtLimit(t)
      BY <2>5 DEF CheckState, EndingInv, Ending, Storing, AtLimit
    <3>2. control' = "store" => late' \/ record_count' =< Capacity
      BY <1>0, <2>1, <2>3, <2>5, <3>1 DEF CheckState, EndingInv
    <3> QED
      BY <2>1, <2>2, <2>3, <2>5, <3>2 DEF EndingInv, CheckState, stateVars
  <2>6. CASE StopFails
    BY <2>2, <2>6 DEF EndingInv, StopFails, RememberError
  <2>7. CASE StoreStopped
    <3>1. late' \/ ~(record_count' > Capacity)
      BY <1>0, <2>1, <2>3, <2>7 DEF StoreStopped, EndingInv
    <3> QED
      BY <2>2, <2>7, <3>1 DEF EndingInv, StoreStopped
  <2>8. CASE StoreRequested
    BY <2>1, <2>2, <2>3, <2>8 DEF EndingInv, StoreRequested
  <2> QED
    BY <1>4, <2>4, <2>5, <2>6, <2>7, <2>8 DEF StopCapture, StopNext, StopStep
<1> QED
  BY <1>1, <1>2, <1>3, <1>4
  DEF CaptureNext, captureVars, RequestSnapshot, RequestStop, FlushForSnapshot,
      ReadAvailable, ReadObserved, ReadState, ReceiveReply

(* What a capture was called complete for stays true of it. *)
LEMMA CompleteStays ==
  ASSUME FinalReplyInv, [CaptureNext]_captureVars, UNCHANGED <<events, latest, verdict>>,
         verdict = "complete"
  PROVE  CompleteMeansEverything'
<1>1. late => late'
  BY LateStays
<1>2. missed \subseteq missed'
  BY MissedGrows, CaptureNextIsNext
<1> QED
  BY <1>1, <1>2 DEF FinalReplyInv, CompleteMeansEverything

(* The reply to STOP is read from a store that has come to rest, unless a  *)
(* callback is late.                                                       *)
LEMMA FinalReplyStep ==
  ASSUME WatermarkInv, TurnInv, CaptureInv, EndingInv, QuietMeansCommitted,
         FinalReplyInv, [CaptureNext]_captureVars
  PROVE  FinalReplyInv'
<1>1. CASE CallbackStep
  <2>1. control' = control /\ (late => late')
    BY <1>1, ThreadStepState, LateStays DEF CallbackStep
  <2>2. UNCHANGED <<command, server, available, header, events, latest, verdict>>
    BY <1>1 DEF CallbackStep, readerVars, clientVars
  <2>3. control = "stopped" /\ ~late' =>
           ~late /\ UNCHANGED <<record_count, committed_record_count>>
    BY <1>1, <2>1, EndingStands DEF Ending
  <2>4. verdict = "complete" => CompleteMeansEverything'
    BY <2>2, CompleteStays
  <2> QED
    BY <2>1, <2>2, <2>3, <2>4 DEF FinalReplyInv
<1>2. CASE RequestSnapshot \/ RequestStop
  <2>1. verdict # "complete"
    BY <1>2 DEF RequestSnapshot, RequestStop, FinalReplyInv
  <2> QED
    BY <1>2, <2>1 DEF RequestSnapshot, RequestStop, TurnInv, clientVars, vars, controlVars,
                      FinalReplyInv
<1>3. CASE FlushForSnapshot
  <2>1. verdict # "complete" /\ command # "STOP"
    BY <1>3 DEF FlushForSnapshot, FinalReplyInv, TurnInv
  <2> QED
    BY <1>3, <2>1 DEF FlushForSnapshot, clientVars, FinalReplyInv
<1>4. CASE StopCapture
  <2>1. control \notin {"stopped", "abandoned"}
    BY <1>4 DEF StopCapture, StopNext, StopStep, Flush, StopFails, Shutdown,
                CheckState, StoreStopped, StoreRequested
  <2>2. server' \in {"idle", "available"}
    BY <1>4, <2>1 DEF StopCapture, TurnInv
  <2>3. verdict' # "complete"
    BY <1>4, <2>1 DEF StopCapture, clientVars, FinalReplyInv
  <2> QED
    BY <2>2, <2>3 DEF FinalReplyInv
<1>5. CASE ReadAvailable
  BY <1>5, CompleteStays
  DEF ReadAvailable, vars, controlVars, logVars, clientVars, FinalReplyInv
<1>6. CASE ReadObserved
  <2>1. header'.observed = record_count
    BY <1>6 DEF ReadObserved, CaptureInv, ReaderTypeOK, Header
  <2> QED
    BY <1>6, <2>1, CompleteStays
    DEF ReadObserved, vars, controlVars, logVars, clientVars, FinalReplyInv
<1>7. CASE ReadState
  <2>1. header'.observed = header.observed /\ header'.state = capture_state
    BY <1>7 DEF ReadState, CaptureInv, ReaderTypeOK, Header
  <2>2. UNCHANGED <<control, late, record_count, committed_record_count, command, available,
                    events, latest, verdict>>
    BY <1>7 DEF ReadState, vars, controlVars, logVars, clientVars
  <2>3. command = "STOP" => control \in {"stopped", "abandoned"}
    BY <1>7 DEF ReadState, TurnInv
  <2>4. ASSUME command = "STOP", capture_state = "STOPPED"
        PROVE  control = "stopped" /\ (late \/ record_count =< Capacity)
    <3>1. control = "stopped"
      BY <2>3, <2>4 DEF EndingInv
    <3>2. late \/ \A t \in Threads : ~AtLimit(t)
      BY <3>1 DEF EndingInv, Ending, Storing, AtLimit
    <3>3. record_count \in Nat /\ Capacity \in Nat
      BY CapacityAssumption DEF WatermarkInv, TypeOK
    <3> QED
      BY <2>4, <3>1, <3>2, <3>3 DEF EndingInv
  <2>5. verdict = "complete" => CompleteMeansEverything'
    BY <2>2, CompleteStays
  <2> QED
    BY <1>7, <2>1, <2>2, <2>4, <2>5 DEF ReadState, FinalReplyInv
<1>8. CASE ReceiveReply
  <2>0. UNCHANGED vars /\ command' = "none" /\ control' = control /\ late' = late /\ missed' = missed
    BY <1>8 DEF ReceiveReply, vars, controlVars, logVars
  <2>1. CASE verdict' # "complete"
    BY <2>0, <2>1 DEF FinalReplyInv
  <2>2. CASE verdict' = "complete"
    <3>0. command # "none"
      BY <1>8 DEF ReceiveReply, TurnInv
    <3>1. verdict # "complete"
      BY <3>0 DEF FinalReplyInv
    <3>2. WellFormed /\ Accept
      BY <1>8, <2>2 DEF ReceiveReply
    <3>3. command = "STOP" /\ header.state = "STOPPED" /\ server = "sent"
      BY <1>8, <2>2, <3>1, <3>2 DEF ReceiveReply, Accept, Judge
    <3>4. control = "stopped" /\ (late \/ record_count =< Capacity)
      BY <3>3 DEF FinalReplyInv
    <3>5. latest' = header /\ Len(events') = available
      BY <1>8, <3>2, ReplyLength DEF Accept
    <3>6. CASE late
      BY <2>0, <3>4, <3>6 DEF FinalReplyInv, CompleteMeansEverything
    <3>7. CASE ~late
      <4>1. available = committed_record_count /\ header.observed = record_count
        BY <3>3, <3>4, <3>7 DEF FinalReplyInv
      <4>2. record_count =< Capacity /\ \A t \in Threads : ~Storing(t)
        BY <3>4, <3>7 DEF EndingInv, Ending
      <4>3. committed_record_count = record_count \/ committed_record_count \in missed
        BY <4>2, WatermarkImplies, CapacityAssumption
        DEF QuietMeansCommitted, PublishedWritten, WatermarkInv, TypeOK
      <4>4. CompleteMeansEverything'
        BY <2>0, <3>5, <4>1, <4>2, <4>3 DEF CompleteMeansEverything
      <4> QED
        BY <2>0, <3>4, <4>4 DEF FinalReplyInv
    <3> QED
      BY <3>6, <3>7
  <2> QED
    BY <2>1, <2>2
<1>9. CASE UNCHANGED captureVars
  BY <1>9, CompleteStays
  DEF captureVars, vars, controlVars, logVars, readerVars, clientVars, FinalReplyInv
<1> QED
  BY <1>1, <1>2, <1>3, <1>4, <1>5, <1>6, <1>7, <1>8, <1>9 DEF CaptureNext

(* With or without store buffering, and whether or not CUPTI waits for     *)
(* callbacks when it is told to stop: a capture that the CLI calls         *)
(* complete holds every record any callback claimed a slot for, and no     *)
(* callback was turned away, except for what a callback that still runs    *)
(* after shutdown_agent does, and for the records behind a slot whose      *)
(* delayed flag enqueue_record missed.                                     *)
THEOREM CompleteIsEverything == CaptureSpec => []CompleteMeansEverything
<1>1. CaptureInit => EndingInv /\ FinalReplyInv
  BY CapacityAssumption DEF CaptureInit, Init, ControlInit, EndingInv,
                            Ending, FinalReplyInv
<1>2. CaptureSpec => []QuietMeansCommitted
  BY CaptureIsLog, NothingElseStrands
<1>3. /\ WatermarkInv /\ TurnInv /\ CaptureInv /\ QuietMeansCommitted
      /\ EndingInv /\ FinalReplyInv /\ [CaptureNext]_captureVars
      => EndingInv' /\ FinalReplyInv'
  BY EndingStep, FinalReplyStep
<1>4. FinalReplyInv => CompleteMeansEverything
  BY DEF FinalReplyInv, CompleteMeansEverything
<1> QED
  BY <1>1, <1>2, <1>3, <1>4, CaptureAlways, PTL DEF CaptureSpec

DrainedInv == ~late /\ (Ending => \A t \in Threads : pc[t] = "idle")

(* A callback can only be late if CUPTI reports callbacks as disabled      *)
(* while one is still running, which shutdown_agent does not prevent.      *)
LEMMA DrainedIsNeverLate ==
  ASSUME CallbacksDrained
  PROVE  CaptureSpec => []~late
<1>1. CaptureInit => DrainedInv
  BY DEF CaptureInit, Init, ControlInit, DrainedInv, Ending
<1>2. DrainedInv /\ [CaptureNext]_captureVars => DrainedInv'
  <2> SUFFICES ASSUME DrainedInv, [CaptureNext]_captureVars PROVE DrainedInv'
    OBVIOUS
  <2>1. ASSUME NEW t \in Threads, ThreadNext, Ending
        PROVE pc'[t] = "idle"
    <3>1. ~Delivering /\ \A u \in Threads : pc[u] = "idle"
      BY <2>1 DEF DrainedInv, Ending, Delivering
    <3> QED
      BY <2>1, <3>1 DEF ThreadNext, Enter, Continue, Drain, FailStatus, Claim, LimitReason,
                        LimitState, WriteRecord, SetReady, LoadCommitted, Scan, Advance,
                        FailState, FailReason
  <2>2. CASE CallbackStep
    <3>1. control' = control
      BY <2>2, ThreadStepState DEF CallbackStep
    <3>2. Ending' => \A t \in Threads : pc'[t] = "idle"
      BY <2>1, <2>2, <3>1 DEF CallbackStep, Ending
    <3> QED
      BY <2>2, <3>2, Zenon DEF CallbackStep, Watch, Overrun, Ending, Storing, DrainedInv
  <2>3. CASE StopCapture
    <3>1. pc' = pc
      BY <2>3, ControlStep DEF StopCapture, threadVars
    <3>2. Ending' => \A t \in Threads : pc'[t] = "idle"
      BY <2>3, <3>1 DEF StopCapture, StopNext, StopStep, Flush, StopFails, Shutdown, CheckState,
                        StoreStopped, StoreRequested, Quiet, Ending, DrainedInv
    <3> QED
      BY <2>3, <3>2, Zenon DEF StopCapture, Watch, Overrun, Ending, Storing, DrainedInv
  <2>4. CASE UNCHANGED <<control, pc, late>>
    BY <2>4 DEF DrainedInv, Ending
  <2>5. [CaptureNext]_captureVars => CallbackStep \/ StopCapture \/ UNCHANGED <<control, pc, late>>
    BY DEF CaptureNext, captureVars, RequestSnapshot, RequestStop, FlushForSnapshot, SnapshotFails,
           SnapshotFlushFails, ReadAvailable, ReadObserved, ReadState, ReceiveReply, vars,
           controlVars, threadVars
  <2> QED
    BY <2>2, <2>3, <2>4, <2>5
<1>3. DrainedInv => ~late
  BY DEF DrainedInv
<1> QED
  BY <1>1, <1>2, <1>3, PTL DEF CaptureSpec
=============================================================================

---------------------------- MODULE ExactCapture ----------------------------
(***************************************************************************)
(* One exact capture from end to end: the record store of RecordLog, the   *)
(* Agent's control thread that answers SNAPSHOT and STOP from it           *)
(* (serve_snapshots, write_capture, initialize_output_header), and the CLI *)
(* that accumulates the deltas (append_cuda_capture) and decides whether   *)
(* the capture is a success (completed_live_capture,                       *)
(* reject_incomplete_capture).                                             *)
(*                                                                         *)
(* The control thread reads the watermark, the counters and the state one  *)
(* after the other while callbacks go on storing records.                  *)
(***************************************************************************)
EXTENDS RecordLog, Sequences

VARIABLES
    command,    \* the request the control thread is serving, or "none"
    server,     \* how far write_capture has got
    available,  \* the watermark write_capture read
    header,     \* the counters and the state it read after that
    events,     \* the records the CLI has accumulated
    latest,     \* the header of the last reply the CLI accepted
    verdict,    \* what the CLI makes of the capture
    late        \* history: a callback was storing a record while CUPTI had
                \* reported callbacks as disabled

readerVars == <<command, server, available, header>>
clientVars == <<events, latest, verdict>>
captureVars == <<vars, readerVars, clientVars, late>>

Header == [observed : Nat, state : CaptureStates]

Verdicts == {"open", "complete", "limit", "failed", "not stopped", "malformed"}

CaptureTypeOK ==
    /\ TypeOK
    /\ command \in {"none", "SNAPSHOT", "STOP"}
    /\ server \in {"idle", "flush", "available", "observed", "state", "sent"}
    /\ available \in 0 .. Capacity
    /\ header \in Header
    /\ events \in Seq(Record \cup {NoRecord})
    /\ latest \in Header
    /\ verdict \in Verdicts
    /\ late \in BOOLEAN

(* The Agent has been armed and has answered ARM with state ACTIVE. *)
CaptureInit ==
    /\ Init
    /\ command = "none"
    /\ server = "idle"
    /\ available = 0
    /\ header = [observed |-> 0, state |-> "ACTIVE"]
    /\ events = <<>>
    /\ latest = header
    /\ verdict = "open"
    /\ late = FALSE

(* cuda_record_offset: where the next delta has to start. *)
Offset == Len(events)

(* shutdown_agent has returned, and a callback is inside enqueue_record. *)
Overrun ==
    /\ control \in {"check", "store", "reason", "stopped"}
    /\ \E t \in Threads : Storing(t)

Watch == late' = (late \/ Overrun')

-----------------------------------------------------------------------------
(* The requests of the CLI.  It polls while nothing has gone wrong, and    *)
(* ends every capture with STOP.                                           *)

RequestSnapshot ==
    /\ command = "none"
    /\ control = "serving"
    /\ verdict = "open"
    /\ command' = "SNAPSHOT"
    /\ server' = IF capture_state = "ACTIVE" THEN "flush" ELSE "available"
    /\ UNCHANGED <<vars, available, header, clientVars, late>>

RequestStop ==
    /\ command = "none"
    /\ control = "serving"
    /\ command' = "STOP"
    /\ UNCHANGED <<vars, server, available, header, clientVars, late>>

(* A SNAPSHOT of an active capture flushes the activity buffers first,     *)
(* which may fail; it is answered either way.                              *)
FlushForSnapshot ==
    /\ server = "flush"
    /\ SnapshotFails \/ UNCHANGED vars
    /\ server' = "available"
    /\ UNCHANGED <<command, available, header, clientVars, late>>

(* stop_capture; the reply is written once it has returned, whatever it    *)
(* returned.                                                               *)
StopCapture ==
    /\ command = "STOP"
    /\ StopNext
    /\ server' = IF StopReturned' THEN "available" ELSE server
    /\ Watch
    /\ UNCHANGED <<command, available, header, clientVars>>

-----------------------------------------------------------------------------
(* write_capture                                                           *)

(* Mutant: the number of claims is taken for the watermark. *)
ReadAvailableClaims ==
    /\ server = "available"
    /\ available' = record_count
    /\ server' = "observed"
    /\ UNCHANGED <<vars, command, header, clientVars, late>>

ReadAvailable ==
    /\ server = "available"
    /\ available' = committed_record_count
    /\ server' = "observed"
    /\ UNCHANGED <<vars, command, header, clientVars, late>>

ReadObserved ==
    /\ server = "observed"
    /\ header' = [header EXCEPT !.observed = record_count]
    /\ server' = "state"
    /\ UNCHANGED <<vars, command, available, clientVars, late>>

(* Mutant: the watermark is read again after the counter. *)
ReadStateAndAvailable ==
    /\ server = "state"
    /\ header' = [header EXCEPT !.state = capture_state]
    /\ available' = committed_record_count
    /\ server' = "sent"
    /\ UNCHANGED <<vars, command, clientVars, late>>

ReadState ==
    /\ server = "state"
    /\ header' = [header EXCEPT !.state = capture_state]
    /\ server' = "sent"
    /\ UNCHANGED <<vars, command, available, clientVars, late>>

(* Mutant: the offset of the request is ignored. *)
DeltaFromStart == [k \in 1 .. available |-> records[k - 1]]

(* The records from the requested offset up to the watermark that was      *)
(* read; the slots are read only now.                                      *)
Delta == [k \in 1 .. available - Offset |-> records[Offset + k - 1]]

-----------------------------------------------------------------------------
(* The CLI decodes the reply, appends the delta and judges the capture.    *)

(* Mutant: a capture at its limit passes. *)
JudgeIgnoringLimit(state, require_complete) ==
    CASE state \in {"IDLE", "FAILED"} -> "failed"
      [] require_complete /\ state = "ACTIVE" -> "not stopped"
      [] OTHER -> "complete"

(* reject_incomplete_capture; a capture may still be active unless it has  *)
(* to be complete.                                                         *)
Judge(state, require_complete) ==
    CASE state \in {"IDLE", "FAILED"} -> "failed"
      [] state = "LIMIT_REACHED" -> "limit"
      [] require_complete /\ state # "STOPPED" -> "not stopped"
      [] OTHER -> "complete"

(* decode_capture refuses a reply with fewer observed than retained        *)
(* records, append_cuda_capture one whose counters went backwards.         *)
WellFormed == header.observed >= available /\ header.observed >= latest.observed

Accept ==
    LET final == command = "STOP"
        judged == Judge(header.state, final)
    IN  /\ events' = events \o Delta
        /\ latest' = header
        /\ verdict' = IF judged # "complete" THEN judged
                      ELSE IF final /\ verdict = "open" THEN "complete"
                      ELSE verdict

ReceiveReply ==
    /\ server = "sent"
    /\ IF WellFormed
       THEN Accept
       ELSE verdict' = "malformed" /\ UNCHANGED <<events, latest>>
    /\ server' = "idle"
    /\ command' = "none"
    /\ UNCHANGED <<vars, available, header, late>>

CallbackStep == ThreadNext /\ Watch /\ UNCHANGED <<readerVars, clientVars>>

CaptureNext ==
    \/ CallbackStep
    \/ RequestSnapshot
    \/ RequestStop
    \/ FlushForSnapshot
    \/ StopCapture
    \/ ReadAvailable
    \/ ReadObserved
    \/ ReadState
    \/ ReceiveReply

CaptureSpec == CaptureInit /\ [][CaptureNext]_captureVars

-----------------------------------------------------------------------------
(* What the CLI has accumulated over any number of SNAPSHOTs and the STOP  *)
(* is the beginning of the log: no gap, no repetition, no half-written     *)
(* record, whatever was stored while the deltas were on their way.         *)
DeliveredIsPrefix ==
    /\ Len(events) =< committed_record_count
    /\ \A k \in 1 .. Len(events) :
          events[k] = records[k - 1] /\ events[k] \in Record

(* The watermark is read before the counter, so a consistent Agent never   *)
(* sends a reply that decode_capture or append_cuda_capture refuses.       *)
NeverMalformed == verdict # "malformed"

(* A capture the CLI calls complete holds every record that a callback     *)
(* claimed a slot for, and none was turned away.  Two exceptions are in    *)
(* the code: the last records are left out when the watermark stands at a  *)
(* slot whose delayed flag was missed; and stop_capture neither waits for  *)
(* a callback that still runs when CUPTI reports callbacks as disabled nor *)
(* compares and swaps the state, so such a callback's record, or the limit *)
(* it met, may be lost.  Nothing else is: not to the order in which        *)
(* write_capture reads its counters, and not to an earlier callback that   *)
(* was turned away or failed.                                              *)
CompleteMeansEverything ==
    verdict = "complete" =>
        \/ late
        \/ /\ latest.observed =< Capacity
           /\ Len(events) = latest.observed \/ Len(events) \in missed

(* docs/cupti-agent.md:47: "`STOP` returns the final delta".  Once no      *)
(* callback is running, what STOP returned completes the capture.          *)
StopReturnsTheFinalDelta ==
    verdict = "complete" => Len(events) = latest.observed
=============================================================================

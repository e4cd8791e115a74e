--------------------------- MODULE CaptureControl ---------------------------
(***************************************************************************)
(* The state of a capture (capture_state, stop_reason, agent_status) and   *)
(* how the Agent's control thread ends it: stop_capture and what it calls. *)
(* Callbacks read and write the same three variables without a lock; the   *)
(* modules that extend this one say when.                                  *)
(***************************************************************************)
EXTENDS Integers

CONSTANTS
    CallbacksDrained, \* whether CUPTI lets running callbacks end before it
                      \* reports callbacks and activities as disabled
    Activities        \* whether the capture has activities to flush
                      \* (enabled_activity_mask # 0)

ASSUME CallbacksDrainedAssumption == CallbacksDrained \in BOOLEAN

ASSUME ActivitiesAssumption == Activities \in BOOLEAN

VARIABLES
    capture_state,
    stop_reason,
    agent_status,
    control         \* where the control thread is in stop_capture

stateVars == <<capture_state, stop_reason, agent_status>>
controlVars == <<stateVars, control>>

CaptureStates == {"IDLE", "ACTIVE", "LIMIT_REACHED", "STOPPED", "FAILED"}
StopReasons == {"NONE", "REQUESTED", "RECORD_LIMIT", "CUPTI_ERROR", "OUTPUT_ERROR"}

ControlTypeOK ==
    /\ capture_state \in CaptureStates
    /\ stop_reason \in StopReasons
    /\ agent_status \in {"READY", "ERROR"}
    /\ control \in {"serving", "shutdown", "check", "store", "reason",
                   "stopped", "abandoned"}

(* A capture that has just been armed. *)
ControlInit ==
    /\ capture_state = "ACTIVE"
    /\ stop_reason = "NONE"
    /\ agent_status = "READY"
    /\ control = "serving"

(* CUPTI may still run callbacks. *)
Delivering ==
    control \in {"serving", "shutdown", "abandoned"} \/ ~CallbacksDrained

(* stop_capture has returned. *)
StopReturned == control \in {"stopped", "abandoned"}

-----------------------------------------------------------------------------
(* The stores of callbacks.  A full store or table sets the reason first   *)
(* and then the state, an error the status, the state and then the reason  *)
(* (remember_cupti_error, remember_output_error).                          *)

SetLimitReason ==
    /\ stop_reason' = "RECORD_LIMIT"
    /\ UNCHANGED <<capture_state, agent_status, control>>

SetLimitState ==
    /\ capture_state' = "LIMIT_REACHED"
    /\ UNCHANGED <<stop_reason, agent_status, control>>

SetErrorStatus ==
    /\ agent_status' = "ERROR"
    /\ UNCHANGED <<capture_state, stop_reason, control>>

SetErrorState ==
    /\ capture_state' = "FAILED"
    /\ UNCHANGED <<stop_reason, agent_status, control>>

SetErrorReason ==
    /\ stop_reason' \in {"CUPTI_ERROR", "OUTPUT_ERROR"}
    /\ UNCHANGED <<capture_state, agent_status, control>>

-----------------------------------------------------------------------------
(* A CUPTI call of the control thread fails.  The three stores are one     *)
(* step: all a callback can do in between is to store a state and a reason *)
(* of its own, which may as well come after.                               *)
RememberError ==
    /\ agent_status' = "ERROR"
    /\ capture_state' = "FAILED"
    /\ stop_reason' = "CUPTI_ERROR"

(* A SNAPSHOT flushes the activity buffers and the flush fails or times    *)
(* out.                                                                    *)
SnapshotFlushFails ==
    /\ control = "serving"
    /\ RememberError
    /\ UNCHANGED control

(* stop_capture flushes the activity buffers if there are activities; the  *)
(* flush ends by returning agent_status, which an earlier error of any     *)
(* callback has set, and on an error nothing is shut down.                 *)
Flush ==
    /\ control = "serving"
    /\ control' = IF Activities /\ agent_status # "READY"
                  THEN "abandoned"
                  ELSE "shutdown"
    /\ UNCHANGED stateVars

(* The flush, or disabling activities and callbacks, fails. *)
StopFails ==
    /\ control \in {"serving", "shutdown"}
    /\ RememberError
    /\ control' = "abandoned"

(* shutdown_agent disables activities and callbacks, then the state is     *)
(* read, and only then written.                                            *)
Shutdown(quiet) ==
    /\ control = "shutdown"
    /\ CallbacksDrained => quiet
    /\ control' = "check"
    /\ UNCHANGED stateVars

CheckState ==
    /\ control = "check"
    /\ control' = IF capture_state = "ACTIVE" THEN "store" ELSE "stopped"
    /\ UNCHANGED stateVars

StoreStopped ==
    /\ control = "store"
    /\ capture_state' = "STOPPED"
    /\ control' = "reason"
    /\ UNCHANGED <<stop_reason, agent_status>>

StoreRequested ==
    /\ control = "reason"
    /\ stop_reason' = "REQUESTED"
    /\ control' = "stopped"
    /\ UNCHANGED <<capture_state, agent_status>>

(* stop_capture, where quiet says that no callback is running. *)
StopStep(quiet) ==
    \/ Flush
    \/ StopFails
    \/ Shutdown(quiet)
    \/ CheckState
    \/ StoreStopped
    \/ StoreRequested
=============================================================================

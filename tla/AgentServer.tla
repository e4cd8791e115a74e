----------------------------- MODULE AgentServer -----------------------------
(***************************************************************************)
(* What each command of the CUPTI Agent's control socket does to the       *)
(* Agent: ARM (arm_capture, activate_capture), SNAPSHOT, STOP and CLOSE    *)
(* (stop_capture), and xprobe_cupti_agent_start, which an injecting xprobe *)
(* calls to move the Agent to a new socket.  The control thread serves one *)
(* command at a time under flush_mutex, so a command is one step here; how *)
(* callbacks interleave with it is the subject of RecordLog, ExactCapture  *)
(* and AggregateTable.                                                     *)
(*                                                                         *)
(* CUPTI calls may fail.  Each operator below maps a state of the Agent to *)
(* the set of states the code may leave it in.                             *)
(***************************************************************************)
EXTENDS Integers, Sequences

CONSTANTS
    Clients,         \* xprobe commands; a client names the capture it arms
    Nobody,          \* no capture has been armed
    Capacity,        \* records a capture may retain
    Nvtx,            \* nvtx_injection_active: the subscriber is never removed
    NeedsActivities, \* the selected endpoints need GPU activities
    NeedsCallbacks,  \* they need API or NVTX callbacks
    Errors           \* what may fail: "calls" of the control thread to CUPTI
                     \* and for memory, the work of "callbacks"

ASSUME AgentAssumption ==
    /\ Nobody \notin Clients
    /\ Capacity \in Nat \ {0}
    /\ {Nvtx, NeedsActivities, NeedsCallbacks} \subseteq BOOLEAN
    /\ Errors \subseteq {"calls", "callbacks"}

(* activities stands for enabled_activity_mask # 0, subscriber for         *)
(* subscriber_active, callbacks for CUPTI delivering callbacks, epoch for  *)
(* the client whose ARM allocated the records.                             *)
AgentState ==
    [activities : BOOLEAN, subscriber : BOOLEAN, callbacks : BOOLEAN,
     capture_state : {"IDLE", "ACTIVE", "LIMIT_REACHED", "STOPPED", "FAILED"},
     agent_status : {"READY", "ERROR"},
     epoch : Clients \cup {Nobody},
     committed : 0 .. Capacity]

(* A preloaded Agent after xprobe_cupti_agent_initialize. *)
LoadedAgent ==
    [activities |-> FALSE, subscriber |-> Nvtx, callbacks |-> FALSE,
     capture_state |-> "IDLE", agent_status |-> "READY",
     epoch |-> Nobody, committed |-> 0]

Fault == IF "calls" \in Errors THEN BOOLEAN ELSE {FALSE}

(* CUPTI is collecting in the target. *)
Collecting(a) == a.activities \/ a.callbacks

RememberError(a) == [a EXCEPT !.agent_status = "ERROR", !.capture_state = "FAILED"]

(* The outcomes of a call: the Agent afterwards, and whether it returned   *)
(* XPROBE_CUPTI_AGENT_READY.                                               *)
Ready(a) == [agent |-> a, ready |-> TRUE]
Failed(a) == [agent |-> RememberError(a), ready |-> FALSE]

-----------------------------------------------------------------------------
(* shutdown_agent: activities that cannot be disabled stay enabled; with   *)
(* NVTX routing the subscriber stays and its domains are disabled,         *)
(* otherwise it is given up whether or not cuptiUnsubscribe succeeded.     *)
Disabled(a, stuck, kept) ==
    [a EXCEPT !.activities = stuck,
              !.callbacks = @ /\ (kept \/ ~a.subscriber),
              !.subscriber = @ /\ Nvtx]

ShutdownAgent(a) ==
    {LET stuck == fault[1] /\ a.activities
         kept == fault[2] /\ a.subscriber
         b == Disabled(a, stuck, kept)
     IN  IF stuck \/ kept THEN Failed(b) ELSE Ready(b)
     : fault \in Fault \X Fault}

ShutdownIfActive(a) ==
    IF a.subscriber \/ a.activities THEN ShutdownAgent(a) ELSE {Ready(a)}

(* flush_activity_buffers returns agent_status, whoever has set it. *)
FlushActivityBuffers(a) ==
    {IF fault THEN Failed(a) ELSE [agent |-> a, ready |-> a.agent_status = "READY"]
     : fault \in Fault}

(* activate_capture fails before it has enabled anything, or part of the   *)
(* way, when it shuts down what it has enabled, or makes the capture       *)
(* active.                                                                 *)
Enabled(a, activities, callbacks) ==
    [a EXCEPT !.subscriber = @ \/ NeedsCallbacks,
              !.activities = activities /\ NeedsActivities,
              !.callbacks = @ \/ (callbacks /\ NeedsCallbacks)]

Activated(a) == [a EXCEPT !.agent_status = "READY", !.capture_state = "ACTIVE"]

ActivateCapture(a) ==
    LET partial == {Enabled(a, on[1], on[2]) : on \in BOOLEAN \X BOOLEAN}
        abandoned == {RememberError(s.agent) : s \in UNION {ShutdownAgent(b) : b \in partial}}
    IN  {Activated(Enabled(a, TRUE, TRUE))}
        \cup (IF "calls" \in Errors THEN {RememberError(a)} \cup abandoned ELSE {})

(* arm_capture: an earlier capture is shut down first; without memory its  *)
(* records are kept.                                                       *)
Allocated(a, c) == [a EXCEPT !.epoch = c, !.committed = 0, !.capture_state = "IDLE"]

ArmCapture(a, c) ==
    UNION {IF ~s.ready THEN {s.agent}
           ELSE UNION {IF fault THEN {RememberError(s.agent)}
                       ELSE ActivateCapture(Allocated(s.agent, c))
                       : fault \in Fault}
           : s \in ShutdownIfActive(a)}

(* A SNAPSHOT of an active capture flushes. *)
Snapshot(a) ==
    IF a.capture_state = "ACTIVE" THEN {f.agent : f \in FlushActivityBuffers(a)}
    ELSE {a}

(* stop_capture: the flush, if there are activities, then the shutdown,    *)
(* and only after both an active capture becomes stopped.                  *)
Stopped(a) == [a EXCEPT !.capture_state = IF @ = "ACTIVE" THEN "STOPPED" ELSE @]

StopCapture(a) ==
    LET flushed == IF a.activities THEN FlushActivityBuffers(a) ELSE {Ready(a)}
    IN  UNION {IF ~f.ready THEN {f.agent}
               ELSE {IF s.ready THEN Stopped(s.agent) ELSE s.agent
                     : s \in ShutdownIfActive(f.agent)}
               : f \in flushed}

(* xprobe_cupti_agent_start, after it has stopped the control thread.  The *)
(* new socket is there only if the call returns READY.                     *)
Restarted(a) ==
    [a EXCEPT !.agent_status = "READY", !.capture_state = "IDLE", !.epoch = Nobody, !.committed = 0]

AgentStart(a) ==
    UNION {IF ~s.ready THEN {s}
           ELSE {IF fault THEN Failed(s.agent) ELSE Ready(Restarted(s.agent)) : fault \in Fault}
           : s \in ShutdownAgent(a)}

-----------------------------------------------------------------------------
(* What callbacks and activity buffers do meanwhile: commit one more       *)
(* record, find the store full, or fail.                                   *)
Capture(a) ==
    IF ~Collecting(a) \/ a.capture_state # "ACTIVE" THEN {}
    ELSE {IF a.committed < Capacity THEN [a EXCEPT !.committed = @ + 1]
          ELSE [a EXCEPT !.capture_state = "LIMIT_REACHED"]}
         \cup (IF "callbacks" \in Errors THEN {RememberError(a)} ELSE {})
=============================================================================

------------------------------ MODULE FlushWait ------------------------------
(***************************************************************************)
(* The GPU activities of a capture reach the agent in buffers that CUPTI   *)
(* asks for and hands back on threads of its own, when it likes; a flush   *)
(* only urges it.  wait_for_activity_buffers therefore polls the count of  *)
(* the buffers handed back until it has been still for 100 ms (or none has *)
(* come for 100 ms), and gives up after 5 s.  A buffer of an earlier       *)
(* capture may be handed back during this one.  A buffer holds at most one *)
(* activity; its timestamp is "during" the capture or "before" it.  A STOP *)
(* without activities does not flush.                                      *)
(***************************************************************************)
EXTENDS Integers

CONSTANTS
    ActivityBuffers, \* the first may be left over from an earlier capture
    QuietPeriod,     \* 100 ms; the unit is the pause between two polls
    FlushDeadline    \* 5 s

VARIABLES
    activities,    \* the buffers
    agent,         \* capture_state, completed_buffers, the buffers whose
                   \* activity was recorded, when one was last completed
    flush          \* where the control thread is, its clock and its variables

flushVars == <<activities, agent, flush>>

NoBuffer == [stage |-> "none", holds |-> "nothing", early |-> FALSE]
IdleAgent == [capture_state |-> "IDLE", completed |-> 0, recorded |-> {}, last |-> 0]
NoFlush == [pc |-> "idle", clock |-> 0, before |-> 0, completed |-> 0, previous |-> 0, quiet_since |-> 0, result |-> "none"]

FlushInit == activities = [b \in ActivityBuffers |-> NoBuffer] /\ agent = IdleAgent /\ flush = NoFlush

FlushAt(pc) == [flush EXCEPT !.pc = pc]
Collecting == flush.pc \in {"arming", "active", "load", "check"}

\* After an error of the active capture nothing is recorded, no flush returns
\* READY, and the failure is all that is left.
FlushFails ==
    /\ agent' = [IdleAgent EXCEPT !.capture_state = "FAILED"] /\ activities' = [b \in ActivityBuffers |-> NoBuffer]
    /\ flush' = [NoFlush EXCEPT !.pc = "done", !.result = "ERROR"]

-----------------------------------------------------------------------------
(* CUPTI and the target.                                                   *)

activity_buffer_requested ==
    /\ Collecting
    /\ \E b \in ActivityBuffers :
         /\ activities[b].stage = "none" /\ \A c \in ActivityBuffers : c < b => activities[c].stage # "none"
         /\ activities' = [activities EXCEPT ![b].stage = "requested"]
    /\ UNCHANGED <<agent, flush>>

\* There is no memory for a buffer, or cuptiActivityGetNextRecord fails.
\* activate_capture overwrites what was remembered before it ended.
BufferFails == Collecting /\ flush.pc # "arming" /\ FlushFails

ActivityRuns ==
    /\ Collecting
    /\ \E b \in ActivityBuffers :
         /\ activities[b].stage = "requested" /\ activities[b].holds = "nothing"
         /\ activities' = [activities EXCEPT ![b].holds = "during"]
    /\ UNCHANGED <<agent, flush>>

\* activity_started_during_capture and, in enqueue_record, room for the record.
Recorded(b) ==
    IF activities[b].holds # "during" THEN {agent}
    ELSE {[agent EXCEPT !.recorded = @ \cup {b}], [agent EXCEPT !.capture_state = "LIMIT_REACHED"]}

(* Mutant: the start of an activity is not compared with the capture's. *)
activity_buffer_readUndated ==
    /\ Collecting
    /\ \E b \in ActivityBuffers :
         /\ activities[b].stage = "requested"
         /\ activities' = [activities EXCEPT ![b].stage = "read", ![b].early = flush.pc = "arming"]
         /\ agent' = IF agent.capture_state = "ACTIVE" THEN [agent EXCEPT !.recorded = @ \cup {b}] ELSE agent
    /\ UNCHANGED flush

\* activity_buffer_completed reads the activities, unless the capture is not
\* active, or not any more.
activity_buffer_read ==
    /\ Collecting
    /\ \E b \in ActivityBuffers :
         /\ activities[b].stage = "requested"
         /\ activities' = [activities EXCEPT ![b].stage = "read", ![b].early = flush.pc = "arming"]
         /\ agent' \in IF agent.capture_state = "ACTIVE" THEN Recorded(b) ELSE {agent}
    /\ UNCHANGED flush

\* Then it frees the buffer and counts it.
activity_buffer_completed ==
    /\ Collecting
    /\ \E b \in ActivityBuffers :
         /\ activities[b].stage = "read"
         /\ activities' = [activities EXCEPT ![b].stage = "completed"]
    /\ agent' = [agent EXCEPT !.completed = @ + 1, !.last = flush.clock]
    /\ UNCHANGED flush

\* The control thread may be kept from running.
Tick ==
    /\ flush.pc \in {"load", "check"} /\ flush.clock < FlushDeadline
    /\ flush' = [flush EXCEPT !.clock = @ + 1] /\ UNCHANGED <<activities, agent>>

CuptiStep ==
    \/ activity_buffer_requested \/ BufferFails \/ ActivityRuns
    \/ activity_buffer_read \/ activity_buffer_completed \/ Tick

-----------------------------------------------------------------------------
(* The control thread: ARM, then STOP or SNAPSHOT.                         *)

\* reset_capture, and activate_capture up to enable_activity: the buffers of
\* an earlier capture that are still out are no longer counted.
ArmActivities ==
    /\ flush.pc = "idle" /\ flush' = FlushAt("arming")
    /\ \E old \in {NoBuffer, [NoBuffer EXCEPT !.stage = "requested", !.holds = "before"]} :
         activities' = [activities EXCEPT ![1] = old]
    /\ UNCHANGED agent

\* activate_capture ends, or shuts down what it
\* has enabled.
ActivateActivities ==
    /\ flush.pc = "arming"
    /\ \/ /\ agent' = [agent EXCEPT !.capture_state = "ACTIVE"]
          /\ flush' = FlushAt("active") /\ UNCHANGED activities
       \/ FlushFails

\* flush_activity_buffers up to wait_for_activity_buffers.
FlushAll ==
    /\ flush.pc = "active"
    /\ \/ /\ flush' = [FlushAt("load") EXCEPT !.before = agent.completed]
          /\ UNCHANGED <<activities, agent>>
       \/ FlushFails

LoadCompleted ==
    /\ flush.pc = "load" /\ flush' = [FlushAt("check") EXCEPT !.completed = agent.completed]
    /\ UNCHANGED <<activities, agent>>

\* The time is read after the count; it has been still since quiet_since.
Still == flush.completed > flush.before /\ flush.completed = flush.previous /\ flush.clock - flush.quiet_since >= QuietPeriod
Empty == flush.completed = flush.before /\ flush.clock >= QuietPeriod

(* Mutant: the period is counted from the first buffer. *)
QuietSinceFirst ==
    IF flush.completed = flush.before THEN 0
    ELSE IF flush.previous <= flush.before THEN flush.clock ELSE flush.quiet_since

QuietSince ==
    IF flush.completed = flush.before THEN 0
    ELSE IF flush.completed # flush.previous THEN flush.clock ELSE flush.quiet_since

\* One round of wait_for_activity_buffers, and what follows it in
\* flush_activity_buffers.  The clock and the sleep may fail; a sleep takes at
\* least the pause.
CheckQuiet ==
    /\ flush.pc = "check"
    /\ \/ /\ Still \/ Empty
          /\ flush' = [FlushAt("done") EXCEPT !.result = "READY"]
          /\ UNCHANGED <<activities, agent>>
       \/ /\ ~Still /\ ~Empty /\ flush.clock < FlushDeadline
          /\ flush' = [FlushAt("load") EXCEPT !.quiet_since = QuietSince, !.previous = flush.completed,
                                            !.clock = @ + 1]
          /\ UNCHANGED <<activities, agent>>
       \/ FlushFails

FlushReset == activities' = [b \in ActivityBuffers |-> NoBuffer] /\ agent' = IdleAgent /\ flush' = NoFlush

FlushStep == ArmActivities \/ ActivateActivities \/ FlushAll \/ LoadCompleted \/ CheckQuiet

-----------------------------------------------------------------------------
(* A reply is not made up before CUPTI has been quiet for the whole        *)
(* period, however the buffers, the clock and the polls interleave: when   *)
(* the flush succeeds no buffer has been completed for that long, or one   *)
(* was in the instant between the last two reads of the control thread.    *)
FlushWaitsForQuiet ==
    flush.result = "READY" => flush.clock - agent.last >= QuietPeriod \/ agent.completed # flush.completed

(* A successful flush of an active capture leaves in the store exactly the *)
(* activities of this capture that were handed back after it became        *)
(* active: none of an earlier capture whose buffer comes late, and none    *)
(* was passed over because of an error that was forgotten.                 *)
FlushedIsOfTheCapture ==
    flush.result = "READY" /\ agent.capture_state = "ACTIVE" =>
        agent.recorded = {b \in ActivityBuffers : /\ activities[b].stage \in {"read", "completed"}
                                                  /\ activities[b].holds = "during" /\ ~activities[b].early}
=============================================================================

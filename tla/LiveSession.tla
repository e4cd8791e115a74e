----------------------------- MODULE LiveSession -----------------------------
(***************************************************************************)
(* `xprobe measure` against the CUPTI Agent of one target: each client     *)
(* runs collect_live_measurement (activation by injection if no socket was *)
(* given, ARM, host collectors, SNAPSHOTs until the collection ends, STOP  *)
(* or CLOSE, verdict) over the connections of collector::cupti.  Requests  *)
(* wait in the listener's backlog; a client whose read times out goes on   *)
(* while its request is still served.                                      *)
(***************************************************************************)
EXTENDS AgentServer

CONSTANTS
    Preloaded,    \* the socket of a preloaded Agent (--cupti-socket)
    NoSocket,
    Timeouts,     \* replies may come too late
    HostFailures  \* start_host_collectors and the host collectors may fail

ASSUME SessionAssumption ==
    /\ Preloaded \notin Clients
    /\ NoSocket \notin Clients \cup {Preloaded}
    /\ {Timeouts, HostFailures} \subseteq BOOLEAN

VARIABLES
    managed,      \* clients without --cupti-socket: they inject the Agent
                  \* and own a private socket
    overlapped,   \* history: clients that ran while another one did
    agent,
    socket,       \* the path the control thread listens on
    backlog,      \* connections it has not accepted yet
    pc,
    reply,        \* what a client reads from its open connection
    offset,       \* cuda_record_offset
    latest,       \* state and observed count of latest_cuda
    events,       \* its events: the captures they were recorded in
    outcome       \* of the command: pending, success or failure

serverVars == <<agent, socket, backlog>>
clientVars == <<pc, reply, offset, latest, events, outcome>>
commandVars == <<managed, overlapped>>
vars == <<commandVars, serverVars, clientVars>>

SocketOf(c) == IF c \in managed THEN c ELSE Preloaded

Request == [client : Clients, live : BOOLEAN, offset : 0 .. Capacity,
            command : {"ARM", "SNAPSHOT", "STOP", "CLOSE"}]
Waiting == {"arming", "snapshot", "stopping", "closing"}
Nothing == [kind |-> "nothing"]
Broken == [kind |-> "broken"]
NoCapture == [capture_state |-> "IDLE", observed |-> -1]
LatestCapture == [capture_state : {"IDLE", "ACTIVE", "LIMIT_REACHED", "STOPPED", "FAILED"},
                  observed : -1 .. Capacity]

TypeOK ==
    /\ agent \in AgentState
    /\ managed \subseteq Clients
    /\ overlapped \subseteq Clients
    /\ socket \in managed \cup {Preloaded, NoSocket}
    /\ \A i \in DOMAIN backlog : backlog[i] \in Request
    /\ pc \in [Clients -> {"new", "activated", "armed", "loop", "stop", "done"}
                          \cup Waiting]
    /\ \A c \in Clients : reply[c].kind \in {"nothing", "broken", "capture"}
    /\ offset \in [Clients -> 0 .. Capacity]
    /\ latest \in [Clients -> LatestCapture]
    /\ \A c \in Clients : \A i \in DOMAIN events[c] : events[c][i] \in Clients
    /\ outcome \in [Clients -> {"pending", "success", "failure"}]

Init ==
    /\ managed \in SUBSET Clients
    /\ overlapped = {}
    /\ agent = LoadedAgent
    /\ socket = Preloaded
    /\ backlog = <<>>
    /\ pc = [c \in Clients |-> "new"]
    /\ reply = [c \in Clients |-> Nothing]
    /\ offset = [c \in Clients |-> 0]
    /\ latest = [c \in Clients |-> NoCapture]
    /\ events = [c \in Clients |-> <<>>]
    /\ outcome = [c \in Clients |-> "pending"]

Running == {c \in Clients : pc[c] \notin {"new", "done"}}

Goto(c, step) == pc' = [pc EXCEPT ![c] = step]

Exit(c, result) ==
    /\ Goto(c, "done")
    /\ outcome' = [outcome EXCEPT ![c] = result]

-----------------------------------------------------------------------------
(* The target: callbacks, and the control thread (serve_snapshots).        *)

TargetRuns ==
    /\ agent' \in Capture(agent)
    /\ UNCHANGED <<socket, backlog, clientVars>>

(* Mutant: clients whose connections were never accepted are left waiting. *)
LeftWaiting == reply

(* The listener is closed: connections it has not accepted are reset. *)
HungUp ==
    [c \in Clients |->
        IF \E i \in DOMAIN backlog : backlog[i].client = c /\ backlog[i].live
        THEN Broken ELSE reply[c]]

(* write_capture: nothing is sent for an offset beyond what is committed. *)
CaptureReply(a, o) ==
    IF o > a.committed THEN Broken
    ELSE [kind |-> "capture", capture_state |-> a.capture_state,
          offset |-> o, observed |-> a.committed,
          records |-> [i \in 1 .. a.committed - o |-> a.epoch]]

Commanded(a, r) ==
    CASE r.command = "ARM" -> ArmCapture(a, r.client)
      [] r.command = "SNAPSHOT" -> Snapshot(a)
      [] OTHER -> StopCapture(a)

Answered(replies, r, a) ==
    IF r.live THEN [replies EXCEPT ![r.client] = CaptureReply(a, r.offset)]
    ELSE replies

Serve ==
    /\ backlog # <<>>
    /\ Head(backlog).command # "CLOSE"
    /\ agent' \in Commanded(agent, Head(backlog))
    /\ reply' = Answered(reply, Head(backlog), agent')
    /\ backlog' = Tail(backlog)
    /\ UNCHANGED <<socket, pc, offset, latest, events, outcome>>

(* CLOSE ends the control thread whether or not the stop succeeded. *)
ServeClose ==
    /\ backlog # <<>>
    /\ Head(backlog).command = "CLOSE"
    /\ agent' \in Commanded(agent, Head(backlog))
    /\ socket' = NoSocket
    /\ backlog' = <<>>
    /\ reply' = Answered(HungUp, Head(backlog), agent')
    /\ UNCHANGED <<pc, offset, latest, events, outcome>>

-----------------------------------------------------------------------------
(* collector::cupti::request: connect and send, or fail to connect.        *)
Send(c, command, o) ==
    IF socket = SocketOf(c)
    THEN /\ backlog' = Append(backlog, [client |-> c, live |-> TRUE,
                                        command |-> command, offset |-> o])
         /\ reply' = [reply EXCEPT ![c] = Nothing]
    ELSE /\ reply' = [reply EXCEPT ![c] = Broken]
         /\ UNCHANGED backlog

(* The read times out; the connection is closed, the request is not        *)
(* withdrawn.                                                              *)
Timeout(c) ==
    /\ Timeouts
    /\ pc[c] \in Waiting
    /\ reply[c] = Nothing
    /\ reply' = [reply EXCEPT ![c] = Broken]
    /\ backlog' = [i \in DOMAIN backlog |->
                      IF backlog[i].client = c THEN [backlog[i] EXCEPT !.live = FALSE]
                      ELSE backlog[i]]
    /\ UNCHANGED <<agent, socket, pc, offset, latest, events, outcome>>

(* prepare_cupti_activation: a client without a socket injects: the Agent  *)
(* leaves its old socket, and listens on the private one unless the call   *)
(* fails.                                                                  *)
Activate(c) ==
    /\ pc[c] = "new"
    /\ overlapped' = IF Running = {} THEN overlapped
                     ELSE overlapped \cup Running \cup {c}
    /\ IF c \in managed
       THEN \E s \in AgentStart(agent) :
                /\ agent' = s.agent
                /\ socket' = IF s.ready THEN c ELSE NoSocket
                /\ backlog' = <<>>
                /\ reply' = HungUp
                /\ IF s.ready THEN Goto(c, "activated") /\ UNCHANGED outcome
                   ELSE Exit(c, "failure")
       ELSE Goto(c, "activated") /\ UNCHANGED <<serverVars, reply, outcome>>
    /\ UNCHANGED <<managed, offset, latest, events>>

Arm(c) ==
    /\ pc[c] = "activated"
    /\ Send(c, "ARM", 0)
    /\ Goto(c, "arming")
    /\ UNCHANGED <<agent, socket, offset, latest, events, outcome>>

(* arm_cupti_capture, and cleanup_failed_arm: only a private socket is     *)
(* closed.                                                                 *)
Armed(c) ==
    /\ pc[c] = "arming"
    /\ reply[c] # Nothing
    /\ IF reply[c].kind = "capture" /\ reply[c].capture_state = "ACTIVE"
       THEN /\ Goto(c, "armed")
            /\ UNCHANGED <<backlog, reply, outcome>>
       ELSE IF c \in managed
       THEN /\ Send(c, "CLOSE", 0)
            /\ Goto(c, "closing")
            /\ UNCHANGED outcome
       ELSE /\ Exit(c, "failure")
            /\ UNCHANGED <<backlog, reply>>
    /\ UNCHANGED <<agent, socket, offset, latest, events>>

Closed(c) ==
    /\ pc[c] = "closing"
    /\ reply[c] # Nothing
    /\ Exit(c, "failure")
    /\ UNCHANGED <<serverVars, reply, offset, latest, events>>

(* start_host_collectors: when it fails the command ends here. *)
StartHostCollectors(c) ==
    /\ pc[c] = "armed"
    /\ \/ Goto(c, "loop") /\ UNCHANGED outcome
       \/ HostFailures /\ Exit(c, "failure")
    /\ UNCHANGED <<serverVars, reply, offset, latest, events>>

(* refresh_live_sources. *)
RequestSnapshot(c) ==
    /\ pc[c] = "loop"
    /\ Send(c, "SNAPSHOT", offset[c])
    /\ Goto(c, "snapshot")
    /\ UNCHANGED <<agent, socket, offset, latest, events, outcome>>

(* append_cuda_capture refuses gaps and counters that moved backwards. *)
Appendable(c) ==
    /\ reply[c].kind = "capture"
    /\ reply[c].offset = offset[c]
    /\ reply[c].observed >= latest[c].observed

(* Mutant: the record offset is not advanced. *)
AppendAgain(c) ==
    /\ events' = [events EXCEPT ![c] = @ \o reply[c].records]
    /\ latest' = [latest EXCEPT ![c] = [capture_state |-> reply[c].capture_state,
                                        observed |-> reply[c].observed]]
    /\ UNCHANGED offset

AppendCapture(c) ==
    /\ events' = [events EXCEPT ![c] = @ \o reply[c].records]
    /\ offset' = [offset EXCEPT ![c] = @ + Len(reply[c].records)]
    /\ latest' = [latest EXCEPT ![c] = [capture_state |-> reply[c].capture_state,
                                        observed |-> reply[c].observed]]

(* A snapshot that cannot be used ends the collection with an error. *)
ReceiveSnapshot(c) ==
    /\ pc[c] = "snapshot"
    /\ reply[c] # Nothing
    /\ IF Appendable(c)
       THEN AppendCapture(c) /\ Goto(c, "loop") /\ UNCHANGED outcome
       ELSE /\ Goto(c, "stop")
            /\ outcome' = [outcome EXCEPT ![c] = "failure"]
            /\ UNCHANGED <<events, offset, latest>>
    /\ UNCHANGED <<serverVars, reply>>

(* The collection ends: enough samples or time (evaluate_live_result,      *)
(* finish_live_timeout), or an error, among them a capture that failed or  *)
(* is full and a CUDA capture never seen.                                  *)
Conclude(c) ==
    /\ pc[c] = "loop"
    /\ Goto(c, "stop")
    /\ \/ outcome' = [outcome EXCEPT ![c] = "failure"]
       \/ /\ latest[c] # NoCapture
          /\ latest[c].capture_state \in {"ACTIVE", "STOPPED"}
          /\ UNCHANGED outcome
    /\ UNCHANGED <<serverVars, reply, offset, latest, events>>

(* stop_cupti_agent, on success and on error. *)
StopAgent(c) ==
    /\ pc[c] = "stop"
    /\ Send(c, IF c \in managed THEN "CLOSE" ELSE "STOP", offset[c])
    /\ Goto(c, "stopping")
    /\ UNCHANGED <<agent, socket, offset, latest, events, outcome>>

(* The final delta is appended and the whole capture judged again          *)
(* (measure_live_capture with require_complete).                           *)
Finish(c) ==
    /\ pc[c] = "stopping"
    /\ reply[c] # Nothing
    /\ IF Appendable(c)
       THEN /\ AppendCapture(c)
            /\ Exit(c, IF outcome[c] = "pending" /\ reply[c].capture_state = "STOPPED"
                       THEN "success" ELSE "failure")
       ELSE /\ Exit(c, "failure")
            /\ UNCHANGED <<events, offset, latest>>
    /\ UNCHANGED <<serverVars, reply>>

ClientNext(c) ==
    \/ Activate(c)
    \/ /\ \/ Arm(c) \/ Armed(c) \/ Closed(c) \/ StartHostCollectors(c)
          \/ RequestSnapshot(c) \/ ReceiveSnapshot(c) \/ Conclude(c)
          \/ StopAgent(c) \/ Finish(c)
       /\ UNCHANGED commandVars

AllDone ==
    /\ \A c \in Clients : pc[c] = "done"
    /\ UNCHANGED vars

Next ==
    \/ (TargetRuns \/ Serve \/ ServeClose) /\ UNCHANGED commandVars
    \/ \E c \in Clients : ClientNext(c) \/ (Timeout(c) /\ UNCHANGED commandVars)
    \/ AllDone

Spec == Init /\ [][Next]_vars

(* The control thread keeps serving, a running command keeps going, and    *)
(* its deadline ends the collection loop.                                  *)
FairSpec ==
    /\ Spec
    /\ WF_vars((Serve \/ ServeClose) /\ UNCHANGED commandVars)
    /\ \A c \in Clients : WF_vars(pc[c] # "new" /\ ClientNext(c)) /\ SF_vars(Conclude(c) /\ UNCHANGED commandVars)

-----------------------------------------------------------------------------
(* A measurement that had the Agent to itself and succeeds rests on its    *)
(* own capture and on all of it: it holds no record of a capture that      *)
(* another command armed, and none is missing, whatever requests of        *)
(* earlier commands (timed out, failed, abandoned) were still to be served *)
(* when it began.                                                          *)
SuccessIsOwnCapture ==
    \A c \in Clients \ overlapped :
        outcome[c] = "success" /\ pc[c] = "done" =>
            /\ \A i \in DOMAIN events[c] : events[c][i] = c
            /\ agent.epoch = c => Len(events[c]) = agent.committed

(* When no command is running and no request is left, CUPTI collects       *)
(* nothing in the target and no private socket is left: "Final stop        *)
(* disables CUPTI; automatic injection also removes its private socket".   *)
ExitLeavesAgentQuiet ==
    Running = {} /\ backlog = <<>> =>
        ~Collecting(agent) /\ socket \notin managed

(* Every command that was started returns, also when the control thread    *)
(* is closed or moved to another socket while its request waits.  A client *)
(* runs one command, so that none is running in the end says just that.    *)
CommandsReturn == Running # {} ~> Running = {}
=============================================================================

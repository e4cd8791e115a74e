-------------------------- MODULE LiveSessionProofs --------------------------
(***************************************************************************)
(* Proofs about a measurement over the control socket of the CUPTI Agent,  *)
(* for any number of commands and any capacity, with lost replies, failing *)
(* CUPTI calls, and requests of earlier commands that are still to be      *)
(* served.                                                                 *)
(*                                                                         *)
(* SuccessIsOwnCapture speaks of the end.  SessionInv says, for a command  *)
(* that has the Agent to itself, what is left in the backlog and whose     *)
(* capture the Agent has at every stage before: its ARM is the last        *)
(* request of the backlog, so once it is served no request of an earlier   *)
(* command is left.                                                        *)
(***************************************************************************)
EXTENDS LiveSession, TLAPS

AgentFields == {"activities", "subscriber", "callbacks", "capture_state", "agent_status", "epoch", "committed"}
IsAgent(a) == DOMAIN a = AgentFields /\ a.committed \in Nat

(* The Agent has the same capture, which did not become active again. *)
Keeps(a, b) ==
    /\ IsAgent(b) /\ b.epoch = a.epoch /\ b.committed = a.committed
    /\ b.capture_state = "ACTIVE" => a.capture_state = "ACTIVE"

AnyRequest == [client : Clients, live : BOOLEAN, command : {"ARM", "SNAPSHOT", "STOP", "CLOSE"}, offset : Nat]

Asks(c) == {i \in DOMAIN backlog : backlog[i].client = c}

(* The last request, and no other, is the one that c waits for. *)
AsksLast(c, commands) ==
    /\ Asks(c) = {Len(backlog)}
    /\ backlog[Len(backlog)].live
    /\ backlog[Len(backlog)].offset = offset[c]
    /\ backlog[Len(backlog)].command \in commands

HasRecords(c) == events[c] \in Seq({c}) /\ Len(events[c]) = offset[c] /\ agent.epoch = c /\ offset[c] <= agent.committed

RecordsOf(c, n) == [i \in 1 .. n |-> c]

(* What a reply to c says of its capture. *)
ReplyIsOwn(c) ==
    /\ reply[c].offset = offset[c]
    /\ reply[c].observed \in offset[c] .. agent.committed
    /\ reply[c].records = RecordsOf(c, reply[c].observed - offset[c])
    /\ reply[c].capture_state # "ACTIVE" => agent.capture_state # "ACTIVE" /\ agent.committed = reply[c].observed

(* A command that has not failed and has the Agent to itself. *)
OnCourse(c) ==
    /\ pc[c] \in {"activated", "arming"} => offset[c] = 0 /\ events[c] = <<>>
    /\ pc[c] = "activated" => Asks(c) = {}
    /\ pc[c] = "arming" /\ reply[c] = Nothing => AsksLast(c, {"ARM"})
    /\ pc[c] = "arming" /\ reply[c].kind = "capture" /\ reply[c].capture_state = "ACTIVE" =>
         backlog = <<>> /\ agent.epoch = c
    /\ pc[c] \in {"armed", "loop", "stop"} => backlog = <<>> /\ HasRecords(c)
    /\ pc[c] \in {"snapshot", "stopping"} /\ reply[c] = Nothing =>
         Len(backlog) = 1 /\ AsksLast(c, {"SNAPSHOT", "STOP", "CLOSE"}) /\ HasRecords(c)
    /\ pc[c] \in {"snapshot", "stopping"} /\ reply[c].kind = "capture" =>
         backlog = <<>> /\ HasRecords(c) /\ ReplyIsOwn(c)
    /\ pc[c] \in {"arming", "snapshot", "stopping"} /\ reply[c] # Nothing => \A i \in Asks(c) : ~backlog[i].live

(* A command that has succeeded. *)
Succeeded(c) ==
    /\ pc[c] = "done" /\ Asks(c) = {} /\ events[c] \in Seq({c})
    /\ agent.epoch = c => agent.capture_state # "ACTIVE" /\ Len(events[c]) = agent.committed

RepliesOK == DOMAIN reply = Clients /\ \A c \in Clients : reply[c].kind = "capture" => Len(reply[c].records) \in Nat

SessionTypeOK ==
    /\ IsAgent(agent) /\ backlog \in Seq(AnyRequest) /\ RepliesOK
    /\ DOMAIN pc = Clients /\ DOMAIN offset = Clients
    /\ DOMAIN events = Clients /\ DOMAIN outcome = Clients
    /\ \A c \in Clients : offset[c] \in Nat

ClientInv(c) ==
    /\ pc[c] = "new" => Asks(c) = {} /\ outcome[c] = "pending" /\ offset[c] = 0 /\ events[c] = <<>>
    /\ c \notin overlapped /\ outcome[c] = "pending" => OnCourse(c)
    /\ c \notin overlapped /\ outcome[c] = "success" => Succeeded(c)

OneAtATime == \A c \in Running \ overlapped : Running = {c}

SessionInv == SessionTypeOK /\ OneAtATime /\ \A c \in Clients : ClientInv(c)

-----------------------------------------------------------------------------
(* The Agent's commands.                                                   *)

(* Of the fields that a command sets with EXCEPT, the others keep their    *)
(* values.                                                                 *)
LEMMA AgentUpdates ==
    ASSUME NEW a, IsAgent(a)
    PROVE  /\ Keeps(a, RememberError(a)) /\ RememberError(a).capture_state = "FAILED"
           /\ \A stuck, kept : Keeps(a, Disabled(a, stuck, kept))
           /\ \A activities, callbacks : Keeps(a, Enabled(a, activities, callbacks))
           /\ IsAgent(Activated(a)) /\ Activated(a).epoch = a.epoch /\ Activated(a).committed = a.committed
           /\ \A c : IsAgent(Allocated(a, c)) /\ Allocated(a, c).epoch = c /\ Allocated(a, c).committed = 0
           /\ Keeps(a, Stopped(a))
           /\ IsAgent(Restarted(a)) /\ Restarted(a).epoch = Nobody
  <1>1. Keeps(a, RememberError(a)) /\ RememberError(a).capture_state = "FAILED"
    BY Zenon DEF IsAgent, AgentFields, Keeps, RememberError
  <1>2. ASSUME NEW stuck, NEW kept PROVE Keeps(a, Disabled(a, stuck, kept))
    BY Zenon DEF IsAgent, AgentFields, Keeps, Disabled
  <1>3. ASSUME NEW activities, NEW callbacks PROVE Keeps(a, Enabled(a, activities, callbacks))
    BY Zenon DEF IsAgent, AgentFields, Keeps, Enabled
  <1>4. IsAgent(Activated(a)) /\ Activated(a).epoch = a.epoch /\ Activated(a).committed = a.committed
    BY Zenon DEF IsAgent, AgentFields, Activated
  <1>5. ASSUME NEW c PROVE IsAgent(Allocated(a, c)) /\ Allocated(a, c).epoch = c /\ Allocated(a, c).committed = 0
    BY Zenon DEF IsAgent, AgentFields, Allocated
  <1>6. Keeps(a, Stopped(a))
    BY Zenon DEF IsAgent, AgentFields, Keeps, Stopped
  <1>7. IsAgent(Restarted(a)) /\ Restarted(a).epoch = Nobody
    BY Zenon DEF IsAgent, AgentFields, Restarted
  <1> QED
    BY <1>1, <1>2, <1>3, <1>4, <1>5, <1>6, <1>7, Zenon

(* Keeps is a preorder. *)
LEMMA KeepsIsTransitive ==
    ASSUME NEW a, NEW b, NEW c, Keeps(a, b), Keeps(b, c)
    PROVE  Keeps(a, c)
  BY Zenon DEF Keeps

(* shutdown_agent, with or without the test before it, keeps the capture,  *)
(* and when it does not return READY it has remembered an error.           *)
LEMMA ShutdownKeeps ==
    ASSUME NEW a, IsAgent(a), NEW s \in ShutdownAgent(a)
    PROVE  Keeps(a, s.agent) /\ (s.ready \/ s.agent.capture_state = "FAILED")
  <1>1. PICK stuck, kept : s = Ready(Disabled(a, stuck, kept)) \/ s = Failed(Disabled(a, stuck, kept))
    BY Zenon DEF ShutdownAgent
  <1> DEFINE b == Disabled(a, stuck, kept)
  <1>2. Keeps(a, b)
    BY AgentUpdates, Zenon
  <1>3. s = Ready(b) \/ s = Failed(b)
    BY <1>1, Zenon
  <1> HIDE DEF b
  <1>4. CASE s = Ready(b)
    BY <1>2, <1>4, Zenon DEF Ready
  <1>5. CASE s = Failed(b)
    <2>1. Keeps(b, RememberError(b)) /\ RememberError(b).capture_state = "FAILED"
      BY <1>2, AgentUpdates, Zenon DEF Keeps
    <2> QED
      BY <2>1, <1>2, <1>5, KeepsIsTransitive, Zenon DEF Failed
  <1> QED
    BY <1>3, <1>4, <1>5, Zenon

(* The same of the shutdown that arm_capture and stop_capture make only of *)
(* what is active.                                                         *)
LEMMA ShutdownIfActiveKeeps ==
    ASSUME NEW a, IsAgent(a), NEW s \in ShutdownIfActive(a)
    PROVE  Keeps(a, s.agent) /\ (s.ready \/ s.agent.capture_state = "FAILED")
  BY ShutdownKeeps DEF ShutdownIfActive, Ready, Keeps

(* flush_activity_buffers keeps the capture. *)
LEMMA FlushKeeps ==
    ASSUME NEW a, IsAgent(a), NEW f \in FlushActivityBuffers(a)
    PROVE  Keeps(a, f.agent)
  <1>1. f = Failed(a) \/ f.agent = a
    BY DEF FlushActivityBuffers
  <1> QED
    BY <1>1, AgentUpdates DEF Failed, Keeps

(* So do SNAPSHOT, STOP and CLOSE. *)
LEMMA SnapshotKeeps ==
    ASSUME NEW a, IsAgent(a), NEW b \in Snapshot(a)
    PROVE  Keeps(a, b)
  BY FlushKeeps, Zenon DEF Snapshot, Keeps

(* stop_capture keeps the capture, whether or not the flush and the        *)
(* shutdown succeed.                                                       *)
LEMMA StopKeeps ==
    ASSUME NEW a, IsAgent(a), NEW b \in StopCapture(a)
    PROVE  Keeps(a, b)
  <1>1. PICK f : /\ f \in FlushActivityBuffers(a) \/ f = Ready(a)
                 /\ \/ b = f.agent
                    \/ \E s \in ShutdownIfActive(f.agent) : b = s.agent \/ b = Stopped(s.agent)
    BY DEF StopCapture
  <1>2. Keeps(a, f.agent)
    BY <1>1, FlushKeeps DEF Ready, Keeps
  <1>3. \A s \in ShutdownIfActive(f.agent) : Keeps(f.agent, s.agent) /\ Keeps(s.agent, Stopped(s.agent))
    BY <1>2, ShutdownIfActiveKeeps, AgentUpdates DEF Keeps
  <1> QED
    BY <1>1, <1>2, <1>3, KeepsIsTransitive

(* ARM gives the Agent a new, empty capture, or keeps the old one without  *)
(* making it active.                                                       *)
LEMMA ActivateHasCapture ==
    ASSUME NEW a, IsAgent(a), NEW b \in ActivateCapture(a)
    PROVE  IsAgent(b) /\ b.epoch = a.epoch /\ b.committed = a.committed
  <1>1. \/ b = Activated(Enabled(a, TRUE, TRUE))
        \/ b = RememberError(a)
        \/ \E x, y : \E s \in ShutdownAgent(Enabled(a, x, y)) : b = RememberError(s.agent)
    <2> DEFINE partial == {Enabled(a, on[1], on[2]) : on \in BOOLEAN \X BOOLEAN}
    <2>1. \A e \in partial : \E x, y : e = Enabled(a, x, y)
      BY Zenon
    <2>2. \/ b = Activated(Enabled(a, TRUE, TRUE))
          \/ b = RememberError(a)
          \/ b \in {RememberError(s.agent) : s \in UNION {ShutdownAgent(e) : e \in partial}}
      BY Zenon DEF ActivateCapture
    <2> HIDE DEF partial
    <2>3. CASE b \in {RememberError(s.agent) : s \in UNION {ShutdownAgent(e) : e \in partial}}
      <3>1. PICK e \in partial : \E s \in ShutdownAgent(e) : b = RememberError(s.agent)
        BY <2>3, Zenon
      <3>2. PICK x, y : e = Enabled(a, x, y)
        BY <2>1, Zenon
      <3> QED
        BY <3>1, <3>2, Zenon
    <2> QED
      BY <2>2, <2>3, Zenon
  <1>2. CASE b = Activated(Enabled(a, TRUE, TRUE))
    <2>1. Keeps(a, Enabled(a, TRUE, TRUE))
      BY AgentUpdates, Zenon
    <2> QED
      BY <1>2, <2>1, AgentUpdates, Zenon DEF Keeps
  <1>3. CASE b = RememberError(a)
    BY <1>3, AgentUpdates, Zenon DEF Keeps
  <1>4. ASSUME NEW x, NEW y, NEW s \in ShutdownAgent(Enabled(a, x, y)), b = RememberError(s.agent)
        PROVE  IsAgent(b) /\ b.epoch = a.epoch /\ b.committed = a.committed
    <2>1. Keeps(a, Enabled(a, x, y))
      BY AgentUpdates, Zenon
    <2>2. Keeps(Enabled(a, x, y), s.agent)
      BY <2>1, ShutdownKeeps, Zenon DEF Keeps
    <2>3. Keeps(s.agent, b)
      BY <2>2, <1>4, AgentUpdates, Zenon DEF Keeps
    <2> QED
      BY <2>1, <2>2, <2>3, Zenon DEF Keeps
  <1> QED
    BY <1>1, <1>2, <1>3, <1>4, Zenon

(* arm_capture, whichever of its calls fails. *)
LEMMA ArmHasCapture ==
    ASSUME NEW a, IsAgent(a), NEW c, NEW b \in ArmCapture(a, c)
    PROVE  /\ IsAgent(b)
           /\ \/ b.epoch = c /\ b.committed = 0
              \/ Keeps(a, b) /\ b.capture_state # "ACTIVE"
  <1>1. PICK s \in ShutdownIfActive(a) :
          \/ ~s.ready /\ b = s.agent
          \/ b = RememberError(s.agent)
          \/ b \in ActivateCapture(Allocated(s.agent, c))
    BY DEF ArmCapture
  <1>2. Keeps(a, s.agent) /\ (s.ready \/ s.agent.capture_state = "FAILED")
    BY ShutdownIfActiveKeeps, Zenon
  <1>3. CASE ~s.ready /\ b = s.agent
    BY <1>2, <1>3, Zenon DEF Keeps
  <1>4. CASE b = RememberError(s.agent)
    BY <1>2, <1>4, AgentUpdates, KeepsIsTransitive, Zenon DEF Keeps
  <1>5. CASE b \in ActivateCapture(Allocated(s.agent, c))
    <2> DEFINE fresh == Allocated(s.agent, c)
    <2>1. IsAgent(fresh) /\ fresh.epoch = c /\ fresh.committed = 0
      BY <1>2, AgentUpdates DEF Keeps
    <2> HIDE DEF fresh
    <2>2. b \in ActivateCapture(fresh)
      BY <1>5, Zenon DEF fresh
    <2> QED
      BY <2>1, <2>2, ActivateHasCapture, Zenon
  <1> QED
    BY <1>1, <1>3, <1>4, <1>5, Zenon

(* xprobe_cupti_agent_start gives up the capture, or keeps it inactive. *)
LEMMA StartHasCapture ==
    ASSUME NEW a, IsAgent(a), NEW s \in AgentStart(a)
    PROVE  IsAgent(s.agent) /\ (s.agent.epoch = Nobody \/ Keeps(a, s.agent))
  <1>1. PICK t \in ShutdownAgent(a) :
          \/ s = t
          \/ s = Failed(t.agent)
          \/ s.agent = Restarted(t.agent)
    BY DEF AgentStart, Ready
  <1>2. Keeps(a, t.agent)
    BY ShutdownKeeps, Zenon
  <1> QED
    BY <1>1, <1>2, AgentUpdates, KeepsIsTransitive DEF Failed, Keeps

(* Callbacks add to an active capture only. *)
LEMMA CaptureAdds ==
    ASSUME NEW a, IsAgent(a), NEW b \in Capture(a)
    PROVE  IsAgent(b) /\ b.epoch = a.epoch /\ b.committed \in {a.committed, a.committed + 1} /\ a.capture_state = "ACTIVE"
  <1>1. /\ a.capture_state = "ACTIVE"
        /\ \/ b = [a EXCEPT !.committed = a.committed + 1]
           \/ b = [a EXCEPT !.capture_state = "LIMIT_REACHED"]
           \/ b = RememberError(a)
    BY Zenon DEF Capture
  <1>2. CASE b = [a EXCEPT !.committed = a.committed + 1]
    BY <1>1, <1>2 DEF IsAgent, AgentFields
  <1>3. CASE b = [a EXCEPT !.capture_state = "LIMIT_REACHED"]
    BY <1>1, <1>3, Zenon DEF IsAgent, AgentFields
  <1>4. CASE b = RememberError(a)
    BY <1>1, <1>4, AgentUpdates, Zenon DEF Keeps
  <1> QED
    BY <1>1, <1>2, <1>3, <1>4, Zenon

(* A request that is served gives the Agent a capture of its client, if it *)
(* is ARM, or keeps the one it has.                                        *)
LEMMA CommandHasCapture ==
    ASSUME NEW a, IsAgent(a), NEW r \in AnyRequest, NEW b \in Commanded(a, r)
    PROVE  /\ IsAgent(b)
           /\ r.command = "ARM" => \/ b.epoch = r.client
                                   \/ Keeps(a, b) /\ b.capture_state # "ACTIVE"
           /\ r.command # "ARM" => Keeps(a, b)
  <1>1. r.command \in {"ARM", "SNAPSHOT", "STOP", "CLOSE"}
    BY Zenon DEF AnyRequest
  <1>2. CASE r.command = "ARM"
    <2>1. b \in ArmCapture(a, r.client)
      BY <1>2, Zenon DEF Commanded
    <2> QED
      BY <1>2, <2>1, ArmHasCapture, Zenon
  <1>3. CASE r.command = "SNAPSHOT"
    <2>1. b \in Snapshot(a)
      BY <1>3, Zenon DEF Commanded
    <2> QED
      BY <1>3, <2>1, SnapshotKeeps, Zenon DEF Keeps
  <1>4. CASE r.command \in {"STOP", "CLOSE"}
    <2>1. b \in StopCapture(a)
      BY <1>4, Zenon DEF Commanded
    <2> QED
      BY <1>4, <2>1, StopKeeps, Zenon DEF Keeps
  <1> QED
    BY <1>1, <1>2, <1>3, <1>4, Zenon

(* The records of a reply are as many as it says, all of the capture. *)
LEMMA RecordsAppended ==
    ASSUME NEW c, NEW n \in Nat, NEW e \in Seq({c})
    PROVE  /\ RecordsOf(c, n) \in Seq({c}) /\ Len(RecordsOf(c, n)) = n
           /\ e \o RecordsOf(c, n) \in Seq({c}) /\ Len(e \o RecordsOf(c, n)) = Len(e) + n
  <1>1. RecordsOf(c, n) \in Seq({c}) /\ Len(RecordsOf(c, n)) = n
    BY DEF RecordsOf
  <1> QED
    BY <1>1

(* What write_capture sends. *)
LEMMA ReplyOfCapture ==
    ASSUME NEW a, IsAgent(a), NEW o \in Nat
    PROVE  LET r == CaptureReply(a, o)
           IN  /\ r # Nothing
               /\ r.kind = "capture" =>
                    /\ o <= a.committed
                    /\ r.offset = o /\ r.observed = a.committed /\ r.capture_state = a.capture_state
                    /\ r.records = RecordsOf(a.epoch, a.committed - o)
                    /\ Len(r.records) \in Nat
  <1>1. CASE o > a.committed
    <2>1. CaptureReply(a, o) = Broken
      BY <1>1, Zenon DEF CaptureReply
    <2> QED
      BY <2>1 DEF Broken, Nothing
  <1>2. CASE ~(o > a.committed)
    <2> DEFINE w == [kind |-> "capture", capture_state |-> a.capture_state, offset |-> o, observed |-> a.committed,
                     records |-> [i \in 1 .. a.committed - o |-> a.epoch]]
    <2>1. CaptureReply(a, o) = w
      BY <1>2, Zenon DEF CaptureReply
    <2>2. w.kind = "capture" /\ Nothing.kind = "nothing"
      BY Zenon DEF Nothing
    <2>3. w # Nothing
      BY <2>2, Zenon
    <2>4. w.offset = o /\ w.observed = a.committed /\ w.capture_state = a.capture_state
          /\ w.records = RecordsOf(a.epoch, a.committed - o)
      BY Zenon DEF RecordsOf
    <2>5. o <= a.committed /\ a.committed - o \in Nat
      BY <1>2 DEF IsAgent
    <2>6. Len(RecordsOf(a.epoch, a.committed - o)) \in Nat
      BY <2>5 DEF RecordsOf
    <2> HIDE DEF w
    <2> QED
      BY <2>1, <2>3, <2>4, <2>5, <2>6, Zenon
  <1> QED
    BY <1>1, <1>2, Zenon

-----------------------------------------------------------------------------
(* The steps of a session.                                                 *)

(* A client that is not running is affected by a step only through its     *)
(* requests in the backlog and through the capture of the Agent.           *)
LEMMA AtRest ==
    ASSUME NEW c \in Clients, ClientInv(c), c \notin Running,
           pc'[c] = pc[c], offset'[c] = offset[c], events'[c] = events[c], outcome'[c] = outcome[c],
           overlapped \subseteq overlapped',
           Asks(c) = {} => Asks(c)' = {},
           Asks(c) = {} /\ agent'.epoch = c => Keeps(agent, agent')
    PROVE  ClientInv(c)'
  <1>1. pc[c] \in {"new", "done"}
    BY Zenon DEF Running
  <1>2. OnCourse(c)'
    BY <1>1, Zenon DEF OnCourse
  <1>3. Succeeded(c) => Succeeded(c)'
    BY Zenon DEF Succeeded, Keeps
  <1> QED
    BY <1>2, <1>3, Zenon DEF ClientInv

(* The first request is taken off the backlog. *)
LEMMA Taking ==
    ASSUME backlog \in Seq(AnyRequest), backlog # <<>>, backlog' = Tail(backlog)
    PROVE  /\ Head(backlog) \in AnyRequest /\ Head(backlog) = backlog[1] /\ Len(backlog) \in Nat \ {0}
           /\ backlog' \in Seq(AnyRequest)
           /\ Len(backlog') = Len(backlog) - 1
           /\ Len(backlog) = 1 => backlog' = <<>>
           /\ \A i \in 1 .. Len(backlog) - 1 : backlog'[i] = backlog[i + 1]
           /\ \A c : Asks(c)' = {i \in 1 .. Len(backlog) - 1 : i + 1 \in Asks(c)}
           /\ \A c : Asks(c) = {} => Asks(c)' = {}
           /\ \A c : Head(backlog).client = c <=> 1 \in Asks(c)
  <1>1. /\ Head(backlog) \in AnyRequest /\ Head(backlog) = backlog[1] /\ Len(backlog) \in Nat \ {0}
        /\ backlog' \in Seq(AnyRequest)
        /\ Len(backlog') = Len(backlog) - 1
        /\ \A i \in 1 .. Len(backlog) - 1 : backlog'[i] = backlog[i + 1]
    OBVIOUS
  <1>2. Len(backlog) = 1 => backlog' = <<>>
    BY <1>1
  <1>3. DOMAIN backlog = 1 .. Len(backlog) /\ DOMAIN backlog' = 1 .. Len(backlog) - 1
    BY <1>1
  <1>4. ASSUME NEW c
        PROVE  /\ Asks(c)' = {i \in 1 .. Len(backlog) - 1 : i + 1 \in Asks(c)}
               /\ Head(backlog).client = c <=> 1 \in Asks(c)
    BY <1>1, <1>3 DEF Asks
  <1> QED
    BY <1>1, <1>2, <1>4, Zenon

(* A request is sent. *)
LEMMA Sending ==
    ASSUME backlog \in Seq(AnyRequest), NEW r \in AnyRequest, backlog' = Append(backlog, r)
    PROVE  /\ backlog' \in Seq(AnyRequest)
           /\ Len(backlog') = Len(backlog) + 1 /\ Len(backlog) \in Nat
           /\ backlog'[Len(backlog')] = r
           /\ \A c : Asks(c)' = IF r.client = c THEN Asks(c) \cup {Len(backlog')} ELSE Asks(c)
  <1>1. /\ backlog' \in Seq(AnyRequest)
        /\ Len(backlog') = Len(backlog) + 1 /\ Len(backlog) \in Nat
        /\ backlog'[Len(backlog) + 1] = r
        /\ \A i \in 1 .. Len(backlog) : backlog'[i] = backlog[i]
    OBVIOUS
  <1>2. DOMAIN backlog = 1 .. Len(backlog) /\ DOMAIN backlog' = 1 .. Len(backlog) + 1
    BY <1>1
  <1>3. ASSUME NEW c
        PROVE  Asks(c)' = IF r.client = c THEN Asks(c) \cup {Len(backlog')} ELSE Asks(c)
    BY <1>1, <1>2 DEF Asks
  <1> QED
    BY <1>1, <1>3, Zenon

(* An empty backlog asks nothing. *)
LEMMA Emptying ==
    /\ backlog = <<>> => \A c : Asks(c) = {}
    /\ backlog' = <<>> => \A c : Asks(c)' = {}
    /\ <<>> \in Seq(AnyRequest) /\ Len(<<>>) = 0
  BY DEF Asks

(* Callbacks and activity buffers add to the capture only. *)
LEMMA TargetRunsKeeps ==
    ASSUME SessionInv, TargetRuns, UNCHANGED commandVars
    PROVE  SessionInv'
  <1> USE DEF clientVars, commandVars
  <1>1. /\ UNCHANGED <<backlog, pc, reply, offset, events, outcome, overlapped>>
        /\ agent' \in Capture(agent)
    BY Zenon DEF TargetRuns
  <1>2. /\ IsAgent(agent) /\ IsAgent(agent') /\ agent'.epoch = agent.epoch
        /\ agent'.committed \in {agent.committed, agent.committed + 1} /\ agent.capture_state = "ACTIVE"
    BY <1>1, CaptureAdds, Zenon DEF SessionInv, SessionTypeOK
  <1>3. SessionTypeOK' /\ OneAtATime'
    BY <1>1, <1>2, Zenon DEF SessionInv, SessionTypeOK, OneAtATime, Running, RepliesOK
  <1>4. ASSUME NEW c \in Clients
        PROVE  ClientInv(c)'
    <2>1. Asks(c)' = Asks(c) /\ ClientInv(c) /\ offset[c] \in Nat
      BY <1>1, Zenon DEF Asks, SessionInv, SessionTypeOK
    <2>2. HasRecords(c) => HasRecords(c)'
      BY <1>1, <1>2, <2>1 DEF HasRecords, IsAgent
    <2>3. ReplyIsOwn(c) => ReplyIsOwn(c)'
      BY <1>1, <1>2, <2>1 DEF ReplyIsOwn, IsAgent
    <2>4. \A commands : AsksLast(c, commands)' <=> AsksLast(c, commands)
      BY <1>1, <2>1, Zenon DEF AsksLast
    <2>5. OnCourse(c) => OnCourse(c)'
      BY <1>1, <1>2, <2>1, <2>2, <2>3, <2>4, Zenon DEF OnCourse
    <2>6. Succeeded(c) => Succeeded(c)'
      BY <1>1, <1>2, <2>1, Zenon DEF Succeeded
    <2> QED
      BY <1>1, <2>1, <2>5, <2>6, Zenon DEF ClientInv
  <1> QED
    BY <1>3, <1>4, Zenon DEF SessionInv

(* The control thread serves a request, for a client that is on course:    *)
(* another one's is before its ARM, and its own leaves the backlog empty.  *)
LEMMA ServedOnCourse ==
    ASSUME SessionInv, NEW c \in Running \ overlapped, outcome[c] = "pending",
           backlog # <<>>,
           agent' \in Commanded(agent, Head(backlog)),
           UNCHANGED <<pc, offset, events, outcome>>,
           backlog' = Tail(backlog) \/ backlog' = <<>>,
           IF Head(backlog).client = c /\ Head(backlog).live
           THEN reply'[c] = CaptureReply(agent', Head(backlog).offset)
           ELSE \/ reply'[c] = reply[c] /\ (backlog' = Tail(backlog) \/ \A i \in Asks(c) : ~backlog[i].live)
                \/ reply'[c] = Broken /\ backlog' = <<>>
    PROVE  OnCourse(c)'
  <1> DEFINE r == Head(backlog)
  <1>1. c \in Clients /\ backlog \in Seq(AnyRequest) /\ OnCourse(c) /\ offset[c] \in Nat /\ IsAgent(agent)
    BY Zenon DEF SessionInv, SessionTypeOK, ClientInv, Running
  <1>2. r \in AnyRequest /\ r = backlog[1] /\ Len(backlog) \in Nat \ {0} /\ (r.client = c <=> 1 \in Asks(c))
    BY <1>1 DEF Asks
  <1>3. /\ IsAgent(agent')
        /\ r.command = "ARM" => agent'.epoch = r.client \/ (Keeps(agent, agent') /\ agent'.capture_state # "ACTIVE")
        /\ r.command # "ARM" => Keeps(agent, agent')
    BY <1>1, <1>2, CommandHasCapture, Zenon
  <1>4. pc[c] \notin {"armed", "loop", "stop"}
    BY <1>1, Zenon DEF OnCourse
  <1>5. Nothing.kind = "nothing" /\ Broken.kind = "broken" /\ Broken # Nothing
    BY Zenon DEF Nothing, Broken
  <1>6. Asks(c) = {} => Asks(c)' = {}
    BY <1>1, Taking, Emptying, Zenon
  <1>7. CASE pc[c] = "activated"
    BY <1>1, <1>6, <1>7, Zenon DEF OnCourse
  <1>8. CASE pc[c] \in {"arming", "snapshot", "stopping"} /\ reply[c] # Nothing
    <2>1. \A i \in Asks(c) : ~backlog[i].live
      BY <1>1, <1>8, Zenon DEF OnCourse
    <2>2. reply'[c] = reply[c] \/ reply'[c] = Broken
      BY <1>2, <2>1, Zenon
    <2>3. \A i \in Asks(c)' : ~backlog'[i].live
      BY <1>1, <1>2, <2>1, Taking, Emptying
    <2>4. ~(reply'[c].kind = "capture" /\ (pc[c] # "arming" \/ reply'[c].capture_state = "ACTIVE"))
      BY <1>1, <1>5, <1>8, <2>2, Zenon DEF OnCourse
    <2>5. reply'[c] # Nothing
      BY <1>5, <1>8, <2>2, Zenon
    <2> QED
      BY <1>1, <1>8, <2>3, <2>4, <2>5, Zenon DEF OnCourse
  <1>9. CASE pc[c] = "arming" /\ reply[c] = Nothing
    <2>1. AsksLast(c, {"ARM"}) /\ offset[c] = 0 /\ events[c] = <<>>
      BY <1>1, <1>9, Zenon DEF OnCourse
    <2>2. CASE r.client = c
      <3>1. Len(backlog) = 1 /\ r.live /\ r.command = "ARM" /\ r.offset = 0
        BY <1>2, <2>1, <2>2, Zenon DEF AsksLast
      <3>2. backlog' = <<>>
        BY <1>1, <3>1, Taking, Zenon
      <3>3. reply'[c] = CaptureReply(agent', 0)
        BY <2>2, <3>1, Zenon
      <3>4. reply'[c] # Nothing /\ (reply'[c].kind = "capture" => reply'[c].capture_state = agent'.capture_state)
        BY <1>3, <3>3, ReplyOfCapture
      <3>5. reply'[c].kind = "capture" /\ reply'[c].capture_state = "ACTIVE" => agent'.epoch = c
        BY <1>3, <2>2, <3>1, <3>4, Zenon
      <3> QED
        BY <1>9, <2>1, <3>2, <3>4, <3>5, Emptying, Zenon DEF OnCourse
    <2>3. CASE r.client # c /\ backlog' = Tail(backlog) /\ reply'[c] = reply[c]
      <3>1. Len(backlog) # 1
        BY <1>2, <2>1, <2>3, Zenon DEF AsksLast
      <3>2. /\ Len(backlog') = Len(backlog) - 1
            /\ backlog'[Len(backlog')] = backlog[Len(backlog)]
            /\ Asks(c)' = {i \in 1 .. Len(backlog) - 1 : i + 1 \in Asks(c)}
        BY <1>1, <1>2, <2>3, <3>1, Taking
      <3>3. Asks(c)' = {Len(backlog')}
        BY <1>2, <2>1, <3>1, <3>2 DEF AsksLast
      <3>4. AsksLast(c, {"ARM"})'
        BY <2>1, <3>2, <3>3, Zenon DEF AsksLast
      <3> QED
        BY <1>5, <1>9, <2>1, <2>3, <3>4, Zenon DEF OnCourse
    <2>4. CASE r.client # c /\ reply'[c] = Broken /\ backlog' = <<>>
      BY <1>5, <1>9, <2>1, <2>4, Emptying, Zenon DEF OnCourse
    <2>5. ~\A i \in Asks(c) : ~backlog[i].live
      BY <2>1, Zenon DEF AsksLast
    <2> QED
      BY <2>2, <2>3, <2>4, <2>5, Zenon
  <1>10. CASE pc[c] \in {"snapshot", "stopping"} /\ reply[c] = Nothing
    <2>1. Len(backlog) = 1 /\ AsksLast(c, {"SNAPSHOT", "STOP", "CLOSE"}) /\ HasRecords(c)
      BY <1>1, <1>10, Zenon DEF OnCourse
    <2>2. r.client = c /\ r.live /\ r.offset = offset[c] /\ r.command # "ARM"
      BY <1>2, <2>1, Zenon DEF AsksLast
    <2>3. backlog' = <<>> /\ Keeps(agent, agent')
      BY <1>1, <1>3, <2>1, <2>2, Taking, Zenon
    <2>4. HasRecords(c)'
      BY <2>1, <2>3, Zenon DEF HasRecords, Keeps
    <2>5. reply'[c] = CaptureReply(agent', offset[c])
      BY <2>2, Zenon
    <2>6. reply'[c] # Nothing
      BY <1>1, <1>3, <2>5, ReplyOfCapture
    <2>7. reply'[c].kind = "capture" =>
            /\ offset[c] <= agent'.committed
            /\ reply'[c].offset = offset[c] /\ reply'[c].observed = agent'.committed /\ reply'[c].capture_state = agent'.capture_state
            /\ reply'[c].records = RecordsOf(agent'.epoch, agent'.committed - offset[c])
      BY <1>1, <1>3, <2>5, ReplyOfCapture
    <2>8. reply'[c].kind = "capture" => ReplyIsOwn(c)'
      BY <1>1, <1>3, <2>4, <2>7 DEF ReplyIsOwn, HasRecords, IsAgent
    <2> QED
      BY <1>10, <2>3, <2>4, <2>6, <2>8, Emptying, Zenon DEF OnCourse
  <1>11. CASE pc[c] \notin {"activated", "arming", "armed", "loop", "snapshot", "stop", "stopping"}
    BY <1>11, Zenon DEF OnCourse
  <1> QED
    BY <1>4, <1>7, <1>8, <1>9, <1>10, <1>11, Zenon

(* A request that is served leaves every client as SessionInv says. *)
LEMMA ServedKeeps ==
    ASSUME SessionInv, Serve \/ ServeClose, UNCHANGED commandVars
    PROVE  SessionInv'
  <1> DEFINE r == Head(backlog)
  <1>1. /\ UNCHANGED <<pc, offset, events, outcome, overlapped>> /\ backlog # <<>>
        /\ agent' \in Commanded(agent, r)
    <2>1. UNCHANGED overlapped
      BY Zenon DEF commandVars
    <2>2. CASE Serve
      BY <2>1, <2>2, Zenon DEF Serve
    <2>3. CASE ServeClose
      BY <2>1, <2>3, Zenon DEF ServeClose
    <2> QED
      BY <2>2, <2>3, Zenon
  <1>2. SessionTypeOK /\ backlog \in Seq(AnyRequest) /\ IsAgent(agent) /\ DOMAIN reply = Clients /\ RepliesOK
    BY Zenon DEF SessionInv, SessionTypeOK, RepliesOK
  <1>3. r \in AnyRequest /\ r = backlog[1] /\ Len(backlog) \in Nat \ {0} /\ r.client \in Clients
    <2>1. r \in AnyRequest /\ r = backlog[1] /\ Len(backlog) \in Nat \ {0}
      BY <1>1, <1>2
    <2>2. r.client \in Clients
      BY <2>1, Zenon DEF AnyRequest
    <2> QED
      BY <2>1, <2>2, Zenon
  <1>4. \A c : r.client = c => Asks(c) # {}
    BY <1>1, <1>2, <1>3 DEF Asks
  <1>5. /\ IsAgent(agent')
        /\ agent'.epoch = r.client \/ Keeps(agent, agent')
    BY <1>1, <1>2, <1>3, CommandHasCapture, Zenon
  <1>6. /\ DOMAIN reply' = Clients /\ (backlog' = Tail(backlog) \/ backlog' = <<>>)
        /\ \A c \in Clients :
             IF r.client = c /\ r.live
             THEN reply'[c] = CaptureReply(agent', r.offset)
             ELSE \/ reply'[c] = reply[c] /\ (backlog' = Tail(backlog) \/ \A i \in Asks(c) : ~backlog[i].live)
                  \/ reply'[c] = Broken /\ backlog' = <<>>
    <2>1. CASE Serve
      BY <1>2, <1>3, <2>1, Zenon DEF Serve, Answered
    <2>2. CASE ServeClose
      <3>1. DOMAIN HungUp = Clients
        BY Zenon DEF HungUp
      <3>2. \A c \in Clients : HungUp[c] = Broken \/ (HungUp[c] = reply[c] /\ \A i \in Asks(c) : ~backlog[i].live)
        BY Zenon DEF HungUp, Asks
      <3>3. backlog' = <<>> /\ reply' = Answered(HungUp, r, agent')
        BY <2>2, Zenon DEF ServeClose
      <3> QED
        BY <1>3, <3>1, <3>2, <3>3, Zenon DEF Answered
    <2> QED
      BY <2>1, <2>2, Zenon
  <1>7. SessionTypeOK' /\ OneAtATime'
    <2>1. backlog' \in Seq(AnyRequest)
      BY <1>1, <1>2, <1>6, Taking, Emptying, Zenon
    <2>2. r.offset \in Nat
      BY <1>3, Zenon DEF AnyRequest
    <2>3. RepliesOK'
      <3>1. Broken.kind = "broken"
        BY Zenon DEF Broken
      <3> QED
        BY <1>2, <1>5, <1>6, <2>2, <3>1, ReplyOfCapture DEF RepliesOK
    <2> QED
      BY <1>1, <1>5, <1>6, <2>1, <2>3, Zenon DEF SessionInv, SessionTypeOK, OneAtATime, Running
  <1>8. ASSUME NEW c \in Clients
        PROVE  ClientInv(c)'
    <2>1. ClientInv(c)
      BY Zenon DEF SessionInv
    <2>2. CASE c \notin Running
      <3>1. Asks(c) = {} => Asks(c)' = {}
        BY <1>1, <1>2, <1>6, Taking, Emptying, Zenon
      <3>2. Asks(c) = {} /\ agent'.epoch = c => Keeps(agent, agent')
        BY <1>4, <1>5, Zenon
      <3> QED
        BY <1>1, <2>1, <2>2, <3>1, <3>2, AtRest, Zenon
    <2>3. CASE c \in Running
      <3>1. pc[c] \notin {"new", "done"}
        BY <2>3, Zenon DEF Running
      <3>2. c \notin overlapped /\ outcome[c] = "pending" => OnCourse(c)'
        BY <1>1, <1>6, <2>3, ServedOnCourse, Zenon
      <3>3. ~(c \notin overlapped /\ outcome[c] = "success")
        BY <2>1, <3>1, Zenon DEF ClientInv, Succeeded
      <3> QED
        BY <1>1, <3>1, <3>2, <3>3, Zenon DEF ClientInv
    <2> QED
      BY <2>2, <2>3, Zenon
  <1> QED
    BY <1>7, <1>8, Zenon DEF SessionInv

(* A step of a running command leaves the others as SessionInv says. *)
LEMMA ClientSteps ==
    ASSUME SessionInv, NEW c \in Running, UNCHANGED <<agent, overlapped>>,
           backlog' \in Seq(AnyRequest), RepliesOK',
           DOMAIN pc' = Clients, DOMAIN offset' = Clients, DOMAIN events' = Clients, DOMAIN outcome' = Clients,
           \A d \in Clients \ {c} : /\ pc'[d] = pc[d] /\ offset'[d] = offset[d]
                                    /\ events'[d] = events[d] /\ outcome'[d] = outcome[d]
                                    /\ Asks(d) = {} => Asks(d)' = {},
           pc'[c] # "new", offset'[c] \in Nat,
           c \notin overlapped /\ outcome'[c] = "pending" => OnCourse(c)',
           c \notin overlapped /\ outcome'[c] = "success" => Succeeded(c)'
    PROVE  SessionInv'
  <1>1. c \in Clients /\ Running' \subseteq Running
    BY Zenon DEF Running
  <1>2. OneAtATime'
    BY <1>1, Zenon DEF SessionInv, OneAtATime
  <1>3. SessionTypeOK'
    BY <1>1, Zenon DEF SessionInv, SessionTypeOK
  <1>4. ASSUME NEW d \in Clients \ {c}
        PROVE  ClientInv(d)'
    <2>1. ClientInv(d)
      BY Zenon DEF SessionInv
    <2>2. CASE d \in Running
      <3>1. d \in overlapped
        BY <2>2 DEF SessionInv, OneAtATime
      <3>2. pc[d] # "new"
        BY <2>2, Zenon DEF Running
      <3> QED
        BY <3>1, <3>2, Zenon DEF ClientInv
    <2>3. CASE d \notin Running
      <3>1. Keeps(agent, agent')
        BY Zenon DEF SessionInv, SessionTypeOK, Keeps
      <3> QED
        BY <2>1, <2>3, <3>1, AtRest, Zenon
    <2> QED
      BY <2>2, <2>3, Zenon
  <1>5. ClientInv(c)'
    BY Zenon DEF ClientInv
  <1> QED
    BY <1>2, <1>3, <1>4, <1>5, Zenon DEF SessionInv

(* collector::cupti::request connects, and its request is the last one, or *)
(* it fails to connect.                                                    *)
LEMMA SendSends ==
    ASSUME backlog \in Seq(AnyRequest), RepliesOK,
           NEW c \in Clients, NEW command \in {"ARM", "SNAPSHOT", "STOP", "CLOSE"}, NEW o \in Nat, Send(c, command, o)
    PROVE  /\ backlog' \in Seq(AnyRequest) /\ RepliesOK'
           /\ \A d \in Clients \ {c} : Asks(d)' = Asks(d)
           /\ \/ /\ reply'[c] = Nothing
                 /\ Len(backlog') = Len(backlog) + 1 /\ Len(backlog) \in Nat
                 /\ Asks(c)' = Asks(c) \cup {Len(backlog')}
                 /\ backlog'[Len(backlog')].live /\ backlog'[Len(backlog')].offset = o
                 /\ backlog'[Len(backlog')].command = command
              \/ reply'[c] = Broken /\ Asks(c)' = Asks(c) /\ UNCHANGED backlog
  <1>1. CASE socket = SocketOf(c)
    <2> DEFINE r == [client |-> c, live |-> TRUE, command |-> command, offset |-> o]
    <2>1. r \in AnyRequest /\ r.client = c /\ r.live /\ r.offset = o /\ r.command = command
      BY Zenon DEF AnyRequest
    <2>2. backlog' = Append(backlog, r) /\ reply' = [reply EXCEPT ![c] = Nothing]
      BY <1>1, Zenon DEF Send
    <2> HIDE DEF r
    <2>3. RepliesOK' /\ reply'[c] = Nothing
      BY <2>2, Zenon DEF RepliesOK, Nothing
    <2> QED
      BY <2>1, <2>2, <2>3, Sending, Zenon
  <1>2. CASE socket # SocketOf(c)
    <2>1. reply' = [reply EXCEPT ![c] = Broken] /\ UNCHANGED backlog
      BY <1>2, Zenon DEF Send
    <2>2. RepliesOK' /\ reply'[c] = Broken
      BY <2>1, Zenon DEF RepliesOK, Broken
    <2> QED
      BY <2>1, <2>2, Zenon DEF Asks
  <1> QED
    BY <1>1, <1>2, Zenon

(* The steps of one command, from its ARM to its end. *)
LEMMA ArmKeeps ==
    ASSUME SessionInv, NEW c \in Clients, Arm(c), UNCHANGED commandVars
    PROVE  SessionInv'
  <1>1. /\ pc[c] = "activated" /\ Send(c, "ARM", 0) /\ pc' = [pc EXCEPT ![c] = "arming"]
        /\ UNCHANGED <<agent, offset, events, outcome, overlapped>>
    BY Zenon DEF Arm, Goto, commandVars
  <1>2. SessionTypeOK /\ ClientInv(c) /\ c \in Running
    BY <1>1, Zenon DEF SessionInv, Running
  <1>3. /\ backlog' \in Seq(AnyRequest) /\ RepliesOK'
        /\ \A d \in Clients \ {c} : Asks(d)' = Asks(d)
        /\ \/ /\ reply'[c] = Nothing
              /\ Len(backlog') = Len(backlog) + 1 /\ Len(backlog) \in Nat
              /\ Asks(c)' = Asks(c) \cup {Len(backlog')}
              /\ backlog'[Len(backlog')].live /\ backlog'[Len(backlog')].offset = 0
              /\ backlog'[Len(backlog')].command = "ARM"
           \/ reply'[c] = Broken /\ Asks(c)' = Asks(c) /\ UNCHANGED backlog
    BY <1>1, <1>2, SendSends, Zenon DEF SessionTypeOK
  <1>4. pc'[c] = "arming" /\ DOMAIN pc' = Clients
    BY <1>1, <1>2, Zenon DEF SessionTypeOK
  <1>5. ASSUME c \notin overlapped, outcome[c] = "pending"
        PROVE  OnCourse(c)'
    <2>1. Asks(c) = {} /\ offset[c] = 0 /\ events[c] = <<>>
      BY <1>1, <1>2, <1>5, Zenon DEF ClientInv, OnCourse
    <2>2. Broken # Nothing /\ Broken.kind = "broken" /\ Nothing.kind = "nothing"
      BY Zenon DEF Broken, Nothing
    <2>3. reply'[c] = Nothing => AsksLast(c, {"ARM"})'
      BY <1>1, <1>3, <2>1, <2>2, Zenon DEF AsksLast
    <2> QED
      BY <1>1, <1>3, <1>4, <2>1, <2>2, <2>3, Zenon DEF OnCourse
  <1>6. c \notin overlapped => outcome[c] # "success"
    BY <1>1, <1>2, Zenon DEF ClientInv, Succeeded
  <1> QED
    BY <1>1, <1>2, <1>3, <1>4, <1>5, <1>6, ClientSteps, Zenon DEF SessionTypeOK

(* refresh_live_sources and stop_cupti_agent ask for what the command has  *)
(* not got yet.                                                            *)
LEMMA AskingKeeps ==
    ASSUME SessionInv, NEW c \in Clients, RequestSnapshot(c) \/ StopAgent(c), UNCHANGED commandVars
    PROVE  SessionInv'
  <1>1. PICK command \in {"SNAPSHOT", "STOP", "CLOSE"} :
          /\ pc[c] \in {"loop", "stop"} /\ Send(c, command, offset[c])
          /\ pc' = [pc EXCEPT ![c] = "snapshot"] \/ pc' = [pc EXCEPT ![c] = "stopping"]
    BY Zenon DEF RequestSnapshot, StopAgent, Goto
  <1>2. UNCHANGED <<agent, offset, events, outcome, overlapped>>
    BY Zenon DEF RequestSnapshot, StopAgent, commandVars
  <1>3. SessionTypeOK /\ ClientInv(c) /\ c \in Running /\ offset[c] \in Nat
    BY <1>1, Zenon DEF SessionInv, Running, SessionTypeOK
  <1>4. /\ backlog' \in Seq(AnyRequest) /\ RepliesOK'
        /\ \A d \in Clients \ {c} : Asks(d)' = Asks(d)
        /\ \/ /\ reply'[c] = Nothing
              /\ Len(backlog') = Len(backlog) + 1 /\ Len(backlog) \in Nat
              /\ Asks(c)' = Asks(c) \cup {Len(backlog')}
              /\ backlog'[Len(backlog')].live /\ backlog'[Len(backlog')].offset = offset[c]
              /\ backlog'[Len(backlog')].command = command
           \/ reply'[c] = Broken /\ Asks(c)' = Asks(c) /\ UNCHANGED backlog
    BY <1>1, <1>3, SendSends DEF SessionTypeOK
  <1>5. pc'[c] \in {"snapshot", "stopping"} /\ DOMAIN pc' = Clients /\ \A d \in Clients \ {c} : pc'[d] = pc[d]
    BY <1>1, <1>3, Zenon DEF SessionTypeOK
  <1>6. ASSUME c \notin overlapped, outcome[c] = "pending"
        PROVE  OnCourse(c)'
    <2>1. backlog = <<>> /\ HasRecords(c)
      BY <1>1, <1>3, <1>6, Zenon DEF ClientInv, OnCourse
    <2>2. Asks(c) = {} /\ Len(backlog) = 0
      BY <2>1, Emptying, Zenon
    <2>3. Broken # Nothing /\ Broken.kind = "broken" /\ Nothing.kind = "nothing"
      BY Zenon DEF Broken, Nothing
    <2>4. reply'[c] = Nothing => Len(backlog') = 1 /\ AsksLast(c, {"SNAPSHOT", "STOP", "CLOSE"})'
      <3> SUFFICES ASSUME reply'[c] = Nothing
                   PROVE  Len(backlog') = 1 /\ AsksLast(c, {"SNAPSHOT", "STOP", "CLOSE"})'
        BY Zenon
      <3>1. reply'[c] # Broken
        BY <2>3, Zenon
      <3>2. /\ Len(backlog') = Len(backlog) + 1
            /\ Asks(c)' = Asks(c) \cup {Len(backlog')}
            /\ backlog'[Len(backlog')].live /\ backlog'[Len(backlog')].offset = offset[c]
            /\ backlog'[Len(backlog')].command = command
        BY <1>4, <3>1, Zenon
      <3>3. Len(backlog') = 1 /\ Asks(c)' = {Len(backlog')}
        BY <2>2, <3>2
      <3> QED
        BY <1>2, <3>2, <3>3, Zenon DEF AsksLast
    <2>5. HasRecords(c)'
      BY <1>2, <2>1, Zenon DEF HasRecords
    <2> QED
      BY <1>4, <1>5, <2>2, <2>3, <2>4, <2>5, Zenon DEF OnCourse
  <1>7. c \notin overlapped => outcome[c] # "success"
    BY <1>1, <1>3, Zenon DEF ClientInv, Succeeded
  <1> QED
    BY <1>2, <1>3, <1>4, <1>5, <1>6, <1>7, ClientSteps, Zenon DEF SessionTypeOK

(* A reply of an active capture to ARM ends the arming. *)
LEMMA ArmedKeeps ==
    ASSUME SessionInv, NEW c \in Clients, Armed(c), UNCHANGED commandVars
    PROVE  SessionInv'
  <1> DEFINE active == reply[c].kind = "capture" /\ reply[c].capture_state = "ACTIVE"
  <1>1. pc[c] = "arming" /\ UNCHANGED <<agent, offset, events, overlapped>>
    BY Zenon DEF Armed, commandVars
  <1>2. SessionTypeOK /\ ClientInv(c) /\ c \in Running
    BY <1>1, Zenon DEF SessionInv, Running
  <1>3. c \notin overlapped => outcome[c] # "success"
    BY <1>1, <1>2, Zenon DEF ClientInv, Succeeded
  <1>4. CASE active
    <2>1. pc' = [pc EXCEPT ![c] = "armed"] /\ UNCHANGED <<backlog, reply, outcome>>
      BY <1>4, Zenon DEF Armed, Goto
    <2>2. RepliesOK' /\ \A d : Asks(d)' = Asks(d)
      BY <1>2, <2>1, Zenon DEF Asks, RepliesOK, SessionTypeOK
    <2>3. ASSUME c \notin overlapped, outcome[c] = "pending"
          PROVE  OnCourse(c)'
      <3>1. backlog = <<>> /\ agent.epoch = c /\ offset[c] = 0 /\ events[c] = <<>>
        BY <1>1, <1>2, <1>4, <2>3, Zenon DEF ClientInv, OnCourse
      <3>2. HasRecords(c)'
        BY <1>1, <1>2, <3>1 DEF HasRecords, SessionTypeOK, IsAgent
      <3>3. pc'[c] = "armed"
        BY <1>2, <2>1, Zenon DEF SessionTypeOK
      <3> QED
        BY <2>1, <3>1, <3>2, <3>3, Zenon DEF OnCourse
    <2> QED
      BY <1>1, <1>2, <1>3, <2>1, <2>2, <2>3, ClientSteps, Zenon DEF SessionTypeOK
  <1>5. CASE ~active /\ c \in managed
    <2>1. Send(c, "CLOSE", 0) /\ pc' = [pc EXCEPT ![c] = "closing"] /\ UNCHANGED outcome
      BY <1>5, Zenon DEF Armed, Goto
    <2>2. backlog' \in Seq(AnyRequest) /\ RepliesOK' /\ \A d \in Clients \ {c} : Asks(d)' = Asks(d)
      BY <1>2, <2>1, SendSends, Zenon DEF SessionTypeOK
    <2>3. pc'[c] = "closing"
      BY <1>2, <2>1, Zenon DEF SessionTypeOK
    <2>4. OnCourse(c)'
      BY <2>3, Zenon DEF OnCourse
    <2> QED
      BY <1>1, <1>2, <1>3, <2>1, <2>2, <2>3, <2>4, ClientSteps, Zenon DEF SessionTypeOK
  <1>6. CASE ~active /\ c \notin managed
    <2>1. pc' = [pc EXCEPT ![c] = "done"] /\ outcome' = [outcome EXCEPT ![c] = "failure"] /\ UNCHANGED <<backlog, reply>>
      BY <1>6, Zenon DEF Armed, Goto, Exit
    <2>2. RepliesOK' /\ \A d : Asks(d)' = Asks(d)
      BY <1>2, <2>1, Zenon DEF Asks, RepliesOK, SessionTypeOK
    <2> QED
      BY <1>1, <1>2, <2>1, <2>2, ClientSteps, Zenon DEF SessionTypeOK
  <1> QED
    BY <1>4, <1>5, <1>6, Zenon

(* Steps of a command that concern neither the Agent nor its events. *)
LEMMA MovingKeeps ==
    ASSUME SessionInv, NEW c \in Clients, Closed(c) \/ StartHostCollectors(c) \/ Conclude(c), UNCHANGED commandVars
    PROVE  SessionInv'
  <1>1. /\ UNCHANGED <<agent, backlog, reply, offset, events, overlapped>> /\ pc[c] \in {"closing", "armed", "loop"}
        /\ \/ /\ pc[c] \in {"armed", "loop"} /\ UNCHANGED outcome
              /\ pc' = [pc EXCEPT ![c] = "loop"] \/ pc' = [pc EXCEPT ![c] = "stop"]
           \/ /\ outcome' = [outcome EXCEPT ![c] = "failure"]
              /\ pc' = [pc EXCEPT ![c] = "done"] \/ pc' = [pc EXCEPT ![c] = "stop"]
    BY Zenon DEF Closed, StartHostCollectors, Conclude, Goto, Exit, serverVars, commandVars
  <1>2. SessionTypeOK /\ ClientInv(c) /\ c \in Running
    BY <1>1, Zenon DEF SessionInv, Running
  <1>3. RepliesOK' /\ \A d : Asks(d)' = Asks(d)
    BY <1>1, <1>2, Zenon DEF Asks, RepliesOK, SessionTypeOK
  <1>4. CASE outcome' = [outcome EXCEPT ![c] = "failure"]
    BY <1>1, <1>2, <1>3, <1>4, ClientSteps, Zenon DEF SessionTypeOK
  <1>5. CASE pc[c] \in {"armed", "loop"} /\ UNCHANGED outcome /\ (pc' = [pc EXCEPT ![c] = "loop"] \/ pc' = [pc EXCEPT ![c] = "stop"])
    <2>1. pc'[c] \in {"loop", "stop"} /\ DOMAIN pc' = Clients /\ \A d \in Clients \ {c} : pc'[d] = pc[d]
      BY <1>2, <1>5, Zenon DEF SessionTypeOK
    <2>2. ASSUME c \notin overlapped, outcome[c] = "pending"
          PROVE  OnCourse(c)'
      <3>1. backlog = <<>> /\ HasRecords(c)
        BY <1>2, <1>5, <2>2, Zenon DEF ClientInv, OnCourse
      <3>2. HasRecords(c)'
        BY <1>1, <3>1, Zenon DEF HasRecords
      <3> QED
        BY <1>1, <2>1, <3>1, <3>2, Zenon DEF OnCourse
    <2>3. c \notin overlapped => outcome[c] # "success"
      BY <1>2, <1>5, Zenon DEF ClientInv, Succeeded
    <2> QED
      BY <1>1, <1>2, <1>3, <1>5, <2>1, <2>2, <2>3, ClientSteps, Zenon DEF SessionTypeOK
  <1> QED
    BY <1>1, <1>4, <1>5, Zenon

(* append_cuda_capture: the events are those up to what was observed. *)
LEMMA Appending ==
    ASSUME SessionInv, NEW c \in Clients \ overlapped, outcome[c] = "pending", pc[c] \in {"snapshot", "stopping"},
           Appendable(c), AppendCapture(c)
    PROVE  /\ backlog = <<>> /\ agent.epoch = c
           /\ DOMAIN offset' = Clients /\ DOMAIN events' = Clients
           /\ events'[c] \in Seq({c}) /\ Len(events'[c]) = offset'[c]
           /\ offset'[c] = reply[c].observed /\ offset'[c] \in 0 .. agent.committed
           /\ reply[c].capture_state # "ACTIVE" => agent.capture_state # "ACTIVE" /\ agent.committed = reply[c].observed
           /\ \A d \in Clients \ {c} : offset'[d] = offset[d] /\ events'[d] = events[d]
  <1>1. SessionTypeOK /\ OnCourse(c) /\ offset[c] \in Nat /\ IsAgent(agent)
    BY Zenon DEF SessionInv, ClientInv, SessionTypeOK
  <1>2. backlog = <<>> /\ HasRecords(c) /\ ReplyIsOwn(c)
    BY <1>1, Zenon DEF OnCourse, Appendable
  <1> DEFINE n == reply[c].observed - offset[c]
  <1>3. n \in Nat /\ reply[c].observed = offset[c] + n /\ reply[c].observed \in 0 .. agent.committed
    BY <1>1, <1>2 DEF ReplyIsOwn, IsAgent
  <1>4. reply[c].records = RecordsOf(c, n)
    BY <1>2, Zenon DEF ReplyIsOwn
  <1> HIDE DEF n
  <1>5. events'[c] = events[c] \o RecordsOf(c, n) /\ offset'[c] = offset[c] + Len(RecordsOf(c, n))
    BY <1>1, <1>4, Zenon DEF AppendCapture, SessionTypeOK
  <1>6. /\ Len(RecordsOf(c, n)) = n /\ events'[c] \in Seq({c}) /\ Len(events'[c]) = Len(events[c]) + n
    <2>1. n \in Nat /\ events[c] \in Seq({c})
      BY <1>2, <1>3, Zenon DEF HasRecords
    <2>2. /\ Len(RecordsOf(c, n)) = n /\ events[c] \o RecordsOf(c, n) \in Seq({c})
          /\ Len(events[c] \o RecordsOf(c, n)) = Len(events[c]) + n
      BY <2>1, RecordsAppended, Zenon
    <2> QED
      BY <1>5, <2>2, Zenon
  <1>7. DOMAIN offset' = Clients /\ DOMAIN events' = Clients /\ \A d \in Clients \ {c} : offset'[d] = offset[d] /\ events'[d] = events[d]
    BY <1>1, Zenon DEF AppendCapture, SessionTypeOK
  <1>8. agent.epoch = c /\ Len(events[c]) = offset[c]
    BY <1>2, Zenon DEF HasRecords
  <1>9. reply[c].capture_state # "ACTIVE" => agent.capture_state # "ACTIVE" /\ agent.committed = reply[c].observed
    BY <1>2, Zenon DEF ReplyIsOwn
  <1> QED
    BY <1>2, <1>3, <1>5, <1>6, <1>7, <1>8, <1>9, Zenon

(* A reply is received, and a command that succeeds has received the last. *)
LEMMA ReceivingKeeps ==
    ASSUME SessionInv, NEW c \in Clients, ReceiveSnapshot(c) \/ Finish(c), UNCHANGED commandVars
    PROVE  SessionInv'
  <1>1. /\ UNCHANGED <<agent, backlog, reply, overlapped>> /\ pc[c] \in {"snapshot", "stopping"}
    BY Zenon DEF ReceiveSnapshot, Finish, serverVars, commandVars
  <1>2. SessionTypeOK /\ ClientInv(c) /\ c \in Running /\ offset[c] \in Nat
    BY <1>1, Zenon DEF SessionInv, Running, SessionTypeOK
  <1>3. backlog' \in Seq(AnyRequest) /\ RepliesOK' /\ \A d : Asks(d)' = Asks(d)
    BY <1>1, <1>2, Zenon DEF Asks, RepliesOK, SessionTypeOK
  <1>4. c \notin overlapped => outcome[c] # "success"
    BY <1>1, <1>2, Zenon DEF ClientInv, Succeeded
  <1>5. CASE ~Appendable(c)
    <2>1. /\ pc' = [pc EXCEPT ![c] = "stop"] \/ pc' = [pc EXCEPT ![c] = "done"]
          /\ outcome' = [outcome EXCEPT ![c] = "failure"] /\ UNCHANGED <<events, offset>>
      BY <1>5, Zenon DEF ReceiveSnapshot, Finish, Goto, Exit
    <2> QED
      BY <1>1, <1>2, <1>3, <2>1, ClientSteps, Zenon DEF SessionTypeOK
  <1>6. CASE Appendable(c)
    <2>1. /\ AppendCapture(c)
          /\ \/ pc' = [pc EXCEPT ![c] = "loop"] /\ UNCHANGED outcome
             \/ /\ pc' = [pc EXCEPT ![c] = "done"]
                /\ \/ outcome' = [outcome EXCEPT ![c] = "failure"]
                   \/ /\ outcome' = [outcome EXCEPT ![c] = "success"]
                      /\ outcome[c] = "pending" /\ reply[c].capture_state = "STOPPED"
      BY <1>6, Zenon DEF ReceiveSnapshot, Finish, Goto, Exit
    <2>2. /\ DOMAIN offset' = Clients /\ DOMAIN events' = Clients /\ offset'[c] \in Nat
          /\ \A d \in Clients \ {c} : offset'[d] = offset[d] /\ events'[d] = events[d]
      BY <1>2, <1>6, <2>1 DEF AppendCapture, Appendable, SessionTypeOK, RepliesOK
    <2>3. DOMAIN pc' = Clients /\ DOMAIN outcome' = Clients /\ \A d \in Clients \ {c} : pc'[d] = pc[d] /\ outcome'[d] = outcome[d]
      BY <1>2, <2>1, Zenon DEF SessionTypeOK
    <2>4. CASE pc' = [pc EXCEPT ![c] = "loop"] /\ UNCHANGED outcome
      <3>1. pc'[c] = "loop"
        BY <1>2, <2>4, Zenon DEF SessionTypeOK
      <3>2. ASSUME c \notin overlapped, outcome[c] = "pending"
            PROVE  OnCourse(c)'
        <4>1. backlog = <<>> /\ agent.epoch = c /\ events'[c] \in Seq({c}) /\ Len(events'[c]) = offset'[c]
              /\ offset'[c] <= agent.committed
          BY <1>1, <1>6, <2>1, <3>2, Appending
        <4>2. HasRecords(c)'
          BY <1>1, <4>1, Zenon DEF HasRecords
        <4> QED
          BY <1>1, <3>1, <4>1, <4>2, Zenon DEF OnCourse
      <3> QED
        BY <1>1, <1>2, <1>3, <1>4, <2>2, <2>3, <2>4, <3>1, <3>2, ClientSteps, Zenon
    <2>5. CASE pc' = [pc EXCEPT ![c] = "done"] /\ outcome' = [outcome EXCEPT ![c] = "failure"]
      <3>1. pc'[c] = "done" /\ outcome'[c] = "failure"
        BY <1>2, <2>5, Zenon DEF SessionTypeOK
      <3> QED
        BY <1>1, <1>2, <1>3, <2>2, <2>3, <3>1, ClientSteps, Zenon
    <2>6. CASE /\ pc' = [pc EXCEPT ![c] = "done"] /\ outcome' = [outcome EXCEPT ![c] = "success"]
               /\ outcome[c] = "pending" /\ reply[c].capture_state = "STOPPED"
      <3>1. pc'[c] = "done" /\ outcome'[c] = "success"
        BY <1>2, <2>6, Zenon DEF SessionTypeOK
      <3>2. ASSUME c \notin overlapped
            PROVE  Succeeded(c)'
        <4>1. /\ backlog = <<>> /\ events'[c] \in Seq({c})
              /\ Len(events'[c]) = agent.committed /\ agent.capture_state # "ACTIVE"
          BY <1>1, <1>6, <2>1, <2>6, <3>2, Appending, Zenon
        <4> QED
          BY <1>1, <3>1, <4>1, Emptying, Zenon DEF Succeeded
      <3> QED
        BY <1>1, <1>2, <1>3, <2>2, <2>3, <3>1, <3>2, ClientSteps, Zenon
    <2> QED
      BY <2>1, <2>4, <2>5, <2>6, Zenon
  <1> QED
    BY <1>5, <1>6, Zenon

(* A read that times out leaves the request behind, no longer live. *)
LEMMA TimeoutKeeps ==
    ASSUME SessionInv, NEW c \in Clients, Timeout(c), UNCHANGED commandVars
    PROVE  SessionInv'
  <1>1. /\ UNCHANGED <<agent, pc, offset, events, outcome, overlapped>>
        /\ pc[c] \in Waiting /\ reply' = [reply EXCEPT ![c] = Broken]
        /\ backlog' = [i \in DOMAIN backlog |-> IF backlog[i].client = c THEN [backlog[i] EXCEPT !.live = FALSE] ELSE backlog[i]]
    BY Zenon DEF Timeout, commandVars
  <1>2. SessionTypeOK /\ ClientInv(c) /\ c \in Running /\ backlog \in Seq(AnyRequest)
    BY <1>1, Zenon DEF SessionInv, Running, Waiting, SessionTypeOK
  <1>3. RepliesOK' /\ reply'[c] = Broken
    BY <1>1, <1>2, Zenon DEF SessionTypeOK, RepliesOK, Broken
  <1>4. \A r \in AnyRequest : /\ [r EXCEPT !.live = FALSE] \in AnyRequest
                              /\ [r EXCEPT !.live = FALSE].client = r.client /\ ~[r EXCEPT !.live = FALSE].live
    BY Zenon DEF AnyRequest
  <1>5. /\ Len(backlog) \in Nat /\ DOMAIN backlog = 1 .. Len(backlog) /\ DOMAIN backlog' = DOMAIN backlog
        /\ \A i \in DOMAIN backlog : backlog[i] \in AnyRequest
    BY <1>1, <1>2
  <1>6. \A i \in DOMAIN backlog : /\ backlog'[i] \in AnyRequest /\ backlog'[i].client = backlog[i].client
                                  /\ backlog[i].client = c => ~backlog'[i].live
    BY <1>1, <1>4, <1>5, Zenon
  <1>7. backlog' \in Seq(AnyRequest)
    <2>1. backlog' \in [1 .. Len(backlog) -> AnyRequest]
      BY <1>1, <1>5, <1>6, Zenon
    <2> QED
      BY <1>5, <2>1
  <1>8. \A d : Asks(d)' = Asks(d)
    BY <1>5, <1>6, Zenon DEF Asks
  <1>9. \A i \in Asks(c)' : ~backlog'[i].live
    BY <1>5, <1>6, Zenon DEF Asks
  <1>10. ASSUME c \notin overlapped, outcome[c] = "pending"
         PROVE  OnCourse(c)'
    <2>1. Broken # Nothing /\ Broken.kind = "broken"
      BY Zenon DEF Broken, Nothing
    <2>2. pc[c] \notin {"activated", "armed", "loop", "stop"}
      BY <1>1, Zenon DEF Waiting
    <2>3. pc[c] = "arming" => offset[c] = 0 /\ events[c] = <<>>
      BY <1>2, <1>10, Zenon DEF ClientInv, OnCourse
    <2> QED
      BY <1>1, <1>3, <1>9, <2>1, <2>2, <2>3, Zenon DEF OnCourse
  <1>11. (c \notin overlapped => outcome[c] # "success") /\ pc[c] # "new" /\ offset[c] \in Nat
    BY <1>1, <1>2, Zenon DEF ClientInv, Succeeded, Waiting, SessionTypeOK
  <1> QED
    BY <1>1, <1>2, <1>3, <1>7, <1>8, <1>10, <1>11, ClientSteps, Zenon DEF SessionTypeOK

(* A command that starts finds no request of its own, and makes those that *)
(* run, and itself, overlapped.                                            *)
LEMMA ActivateKeeps ==
    ASSUME SessionInv, NEW c \in Clients, Activate(c)
    PROVE  SessionInv'
  <1>1. /\ pc[c] = "new" /\ UNCHANGED <<offset, events>>
        /\ overlapped' = IF Running = {} THEN overlapped ELSE overlapped \cup Running \cup {c}
    BY Zenon DEF Activate
  <1>2. SessionTypeOK /\ backlog \in Seq(AnyRequest) /\ IsAgent(agent) /\ RepliesOK /\ DOMAIN reply = Clients
    BY Zenon DEF SessionInv, SessionTypeOK, RepliesOK
  <1>3. Nobody \notin Clients
    BY AgentAssumption, Zenon
  <1>4. /\ \/ pc' = [pc EXCEPT ![c] = "activated"] /\ UNCHANGED outcome
           \/ pc' = [pc EXCEPT ![c] = "done"] /\ outcome' = [outcome EXCEPT ![c] = "failure"]
        /\ IsAgent(agent') /\ RepliesOK' /\ backlog' \in Seq(AnyRequest)
        /\ \A d \in Clients : agent'.epoch = d => Keeps(agent, agent')
        /\ \A d : Asks(d) = {} => Asks(d)' = {}
    <2>1. CASE c \in managed
      <3>1. PICK s \in AgentStart(agent) :
              /\ agent' = s.agent /\ backlog' = <<>> /\ reply' = HungUp
              /\ \/ pc' = [pc EXCEPT ![c] = "activated"] /\ UNCHANGED outcome
                 \/ pc' = [pc EXCEPT ![c] = "done"] /\ outcome' = [outcome EXCEPT ![c] = "failure"]
        BY <2>1, Zenon DEF Activate, Goto, Exit
      <3>2. IsAgent(agent') /\ (agent'.epoch = Nobody \/ Keeps(agent, agent'))
        BY <1>2, <3>1, StartHasCapture, Zenon
      <3>3. RepliesOK'
        <4>1. Broken.kind = "broken"
          BY Zenon DEF Broken
        <4> QED
          BY <1>2, <3>1, <4>1, Zenon DEF RepliesOK, HungUp
      <3> QED
        BY <1>3, <3>1, <3>2, <3>3, Emptying, Zenon
    <2>2. CASE c \notin managed
      <3>1. pc' = [pc EXCEPT ![c] = "activated"] /\ UNCHANGED <<agent, backlog, reply, outcome>>
        BY <2>2, Zenon DEF Activate, Goto, serverVars
      <3> QED
        BY <1>2, <3>1, Zenon DEF RepliesOK, Keeps, Asks
    <2> QED
      BY <2>1, <2>2, Zenon
  <1>5. /\ DOMAIN pc' = Clients /\ DOMAIN outcome' = Clients /\ pc'[c] \in {"activated", "done"}
        /\ pc'[c] = "activated" => outcome'[c] = outcome[c]
        /\ pc'[c] = "done" => outcome'[c] = "failure"
        /\ \A d \in Clients \ {c} : pc'[d] = pc[d] /\ outcome'[d] = outcome[d]
    BY <1>2, <1>4, Zenon DEF SessionTypeOK
  <1>6. SessionTypeOK'
    BY <1>1, <1>2, <1>4, <1>5, Zenon DEF SessionTypeOK
  <1>7. Running' \subseteq Running \cup {c}
    BY <1>5, Zenon DEF Running
  <1>8. OneAtATime'
    BY <1>1, <1>7, Zenon DEF OneAtATime
  <1>9. ASSUME NEW d \in Clients \ {c}
        PROVE  ClientInv(d)'
    <2>1. ClientInv(d)
      BY Zenon DEF SessionInv
    <2>2. CASE d \in Running
      <3>1. d \in overlapped' /\ pc'[d] # "new"
        BY <1>1, <1>5, <2>2, Zenon DEF Running
      <3> QED
        BY <3>1, Zenon DEF ClientInv
    <2>3. CASE d \notin Running
      BY <1>1, <1>4, <1>5, <2>1, <2>3, AtRest, Zenon
    <2> QED
      BY <2>2, <2>3, Zenon
  <1>10. ClientInv(c)'
    <2>1. Asks(c) = {} /\ outcome[c] = "pending" /\ offset[c] = 0 /\ events[c] = <<>>
      BY <1>1, Zenon DEF SessionInv, ClientInv
    <2>2. pc'[c] = "activated" => OnCourse(c)'
      BY <1>1, <1>4, <2>1, Zenon DEF OnCourse
    <2> QED
      BY <1>5, <2>1, <2>2, Zenon DEF ClientInv
  <1> QED
    BY <1>6, <1>8, <1>9, <1>10, Zenon DEF SessionInv

-----------------------------------------------------------------------------
(* The session is safe: at every stage of a command that has the Agent to  *)
(* itself, the capture of the Agent and the backlog are as SessionInv says.*)
THEOREM SessionIsSafe == Spec => []SessionInv
  <1>1. Init => SessionInv
    <2> SUFFICES ASSUME Init PROVE SessionInv
      BY Zenon
    <2>1. IsAgent(agent) /\ agent.epoch = Nobody
      BY Zenon DEF Init, LoadedAgent, IsAgent, AgentFields
    <2>2. RepliesOK
      <3>1. Nothing.kind = "nothing"
        BY Zenon DEF Nothing
      <3> QED
        BY <3>1, Zenon DEF Init, RepliesOK
    <2>3. SessionTypeOK
      BY <2>1, <2>2, Emptying, Zenon DEF Init, SessionTypeOK
    <2>4. Running = {}
      BY Zenon DEF Init, Running
    <2>5. ASSUME NEW c \in Clients PROVE ClientInv(c)
      <3>1. pc[c] = "new" /\ outcome[c] = "pending" /\ offset[c] = 0 /\ events[c] = <<>> /\ Asks(c) = {}
        BY Emptying, Zenon DEF Init
      <3>2. OnCourse(c)
        BY <3>1, Zenon DEF OnCourse
      <3> QED
        BY <3>1, <3>2, Zenon DEF ClientInv
    <2> QED
      BY <2>3, <2>4, <2>5, Zenon DEF SessionInv, OneAtATime
  <1>2. SessionInv /\ [Next]_vars => SessionInv'
    <2> SUFFICES ASSUME SessionInv, [Next]_vars PROVE SessionInv'
      BY Zenon
    <2>1. CASE UNCHANGED vars
      <3>1. UNCHANGED <<agent, backlog, overlapped, pc, reply, offset, events, outcome>>
        BY <2>1, Zenon DEF vars, commandVars, serverVars, clientVars
      <3>2. SessionTypeOK' /\ OneAtATime'
        BY <3>1, Zenon DEF SessionInv, SessionTypeOK, RepliesOK, OneAtATime, Running
      <3>3. ASSUME NEW c \in Clients PROVE ClientInv(c)'
        <4>1. Asks(c)' = Asks(c)
          BY <3>1, Zenon DEF Asks
        <4>2. (HasRecords(c)' <=> HasRecords(c)) /\ (ReplyIsOwn(c)' <=> ReplyIsOwn(c))
          BY <3>1, Zenon DEF HasRecords, ReplyIsOwn
        <4>3. \A commands : AsksLast(c, commands)' <=> AsksLast(c, commands)
          BY <3>1, <4>1, Zenon DEF AsksLast
        <4>4. OnCourse(c) => OnCourse(c)'
          BY <3>1, <4>1, <4>2, <4>3, Zenon DEF OnCourse
        <4>5. Succeeded(c) => Succeeded(c)'
          BY <3>1, <4>1, Zenon DEF Succeeded
        <4> QED
          BY <3>1, <4>1, <4>4, <4>5, Zenon DEF SessionInv, ClientInv
      <3> QED
        BY <3>2, <3>3, Zenon DEF SessionInv
    <2>2. CASE AllDone
      BY <2>1, <2>2, Zenon DEF AllDone
    <2>3. CASE (TargetRuns \/ Serve \/ ServeClose) /\ UNCHANGED commandVars
      BY <2>3, TargetRunsKeeps, ServedKeeps, Zenon
    <2>4. ASSUME NEW c \in Clients, ClientNext(c) \/ (Timeout(c) /\ UNCHANGED commandVars)
          PROVE  SessionInv'
      BY <2>4, ActivateKeeps, ArmKeeps, ArmedKeeps, MovingKeeps, AskingKeeps, ReceivingKeeps, TimeoutKeeps, Zenon DEF ClientNext
    <2> QED
      BY <2>1, <2>2, <2>3, <2>4, Zenon DEF Next
  <1> QED
    BY <1>1, <1>2, PTL DEF Spec

(* A measurement that had the Agent to itself and succeeds holds the       *)
(* records of its own capture, and all of them (collect_live_measurement). *)
THEOREM SuccessIsComplete == Spec => []SuccessIsOwnCapture
  <1>1. SessionInv => SuccessIsOwnCapture
    <2> SUFFICES ASSUME SessionInv, NEW c \in Clients \ overlapped, outcome[c] = "success"
                 PROVE  /\ \A i \in DOMAIN events[c] : events[c][i] = c
                        /\ agent.epoch = c => Len(events[c]) = agent.committed
      BY Zenon DEF SuccessIsOwnCapture
    <2>1. Succeeded(c)
      BY Zenon DEF SessionInv, ClientInv
    <2> QED
      BY <2>1 DEF Succeeded
  <1> QED
    BY <1>1, SessionIsSafe, PTL
=============================================================================

----------------------------- MODULE RemoteCall -----------------------------
(***************************************************************************)
(* core/src/inject.rs: the agent is loaded and started by calls that the   *)
(* target makes under ptrace.  A call overwrites the registers and a word  *)
(* below the stack, lets the target run until it returns to address zero,  *)
(* and puts both back.  Every ptrace request, memory transfer and wait may *)
(* fail; an error returns at once and detaches what is still attached,     *)
(* which works only while the target is stopped.                           *)
(***************************************************************************)
EXTENDS Target, Sequences, SequencesExt

VARIABLES
    loaded,    \* the agent is mapped in the target already
    remote,    \* RemoteProcess and activate: where it is and the call's error
    tracee     \* what was done to the target

remVars == <<loaded, remote, tracee>>

NotTraced == [from |-> 0, attached |-> FALSE, stopped |-> FALSE, registers |-> "own", word |-> "own",
              allocated |-> 0, agent |-> FALSE]

\* The calls of activate.
RemoteCalls == IF loaded THEN <<"malloc", "start", "free">>
         ELSE <<"malloc", "malloc", "dlopen", "malloc", "dlsym", "start", "free", "free", "free">>

RemoteAt(pc) == [remote EXCEPT !.pc = pc]
RemoteKeeps == UNCHANGED <<loaded, process, report>>
TraceeStays == UNCHANGED tracee

\* The process that was seized is still there.
Traceable == process.runs /\ process.start = tracee.from

\* An error returns, and dropping RemoteProcess detaches a stopped target.
Abort(code) ==
    /\ remote' = [remote EXCEPT !.pc = "done", !.code = code]
    /\ tracee' = IF tracee.stopped THEN [tracee EXCEPT !.attached = FALSE, !.stopped = FALSE] ELSE tracee
    /\ RemoteKeeps

-----------------------------------------------------------------------------
\* verify_target, verify_mount_namespace, resolve_runtime_symbol, and whether
\* the agent is mapped already.
Seize ==
    /\ remote.pc = "idle" /\ report.stage = "done"
    /\ \E code \in {verify_target(report.start), "Refused"} :
         IF code = "ok" THEN loaded' \in BOOLEAN /\ remote' = RemoteAt("verified")
         ELSE UNCHANGED loaded /\ remote' = [remote EXCEPT !.pc = "done", !.code = code]
    /\ UNCHANGED <<process, report>> /\ TraceeStays

\* The PID may have changed hands since it was verified.
Interrupt ==
    /\ remote.pc = "verified"
    /\ \/ /\ process.runs
          /\ tracee' = [NotTraced EXCEPT !.from = process.start, !.attached = TRUE, !.stopped = TRUE]
          /\ remote' = [remote EXCEPT !.pc = "prepare", !.call = 1]
       \/ /\ process.runs  \* interrupt or the wait for the stop fails
          /\ tracee' = [NotTraced EXCEPT !.from = process.start, !.attached = TRUE]
          /\ remote' = [remote EXCEPT !.pc = "done", !.code = "Inject"]
       \/ TraceeStays /\ remote' = [remote EXCEPT !.pc = "done", !.code = "Inject"]
    /\ RemoteKeeps

\* call: save, and write the return address.
Prepare ==
    /\ remote.pc = "prepare"
    /\ \/ /\ Traceable /\ tracee' = [tracee EXCEPT !.word = "zero"]
          /\ remote' = RemoteAt("enter") /\ RemoteKeeps
       \/ Abort("Inject")

\* setregs and cont; when one fails the state is restored and the call fails.
EnterCall ==
    /\ remote.pc = "enter" /\ RemoteKeeps
    /\ \/ /\ Traceable
          /\ tracee' = [tracee EXCEPT !.registers = "call", !.stopped = FALSE]
          /\ remote' = RemoteAt("running")
       \/ /\ tracee' \in {tracee, [tracee EXCEPT !.registers = "call"]}
          /\ remote' = [RemoteAt("restore") EXCEPT !.error = "Inject"]

\* What a call does by itself.
Effect(f) ==
    CASE f = "malloc" -> [tracee EXCEPT !.allocated = @ + 1, !.stopped = TRUE]
      [] f = "free"   -> [tracee EXCEPT !.allocated = @ - 1, !.stopped = TRUE]
      [] f = "start"  -> [tracee EXCEPT !.agent = TRUE, !.stopped = TRUE]
      [] OTHER        -> [tracee EXCEPT !.stopped = TRUE]

(* Mutant: an unexpected stop returns without restoring. *)
WaitForCallHasty ==
    /\ remote.pc = "running"
    /\ \/ /\ Traceable /\ RemoteKeeps
          /\ tracee' = Effect(RemoteCalls[remote.call])
          /\ remote' = [RemoteAt("restore") EXCEPT !.error = "none"]
       \/ /\ remote' = [remote EXCEPT !.pc = "done", !.code = "Inject"]
          /\ tracee' = [tracee EXCEPT !.attached = FALSE, !.stopped = FALSE] /\ RemoteKeeps

\* wait_for_call: it returned; something else stopped it or the wait failed;
\* or it still runs at the deadline.
WaitForCall ==
    /\ remote.pc = "running" /\ RemoteKeeps
    /\ \/ /\ Traceable
          /\ tracee' = Effect(RemoteCalls[remote.call])
          /\ remote' = [RemoteAt("restore") EXCEPT !.error = "none"]
       \/ /\ tracee' \in {tracee, [tracee EXCEPT !.stopped = Traceable]}
          /\ remote' = [RemoteAt("restore") EXCEPT !.error = "Inject"]
       \/ TraceeStays /\ remote' = [RemoteAt("overdue") EXCEPT !.error = "TimedOut"]

\* ensure_stopped.  If it fails nothing is put back.
EnsureStopped ==
    /\ remote.pc = "overdue"
    /\ \/ Traceable /\ tracee' = [tracee EXCEPT !.stopped = TRUE] /\ remote' = RemoteAt("restore") /\ RemoteKeeps
       \/ Abort("Unstopped")

\* restore_call_state: the word, then the registers.  Then the call returns.
\* A null pointer from malloc, dlopen or dlsym is an error of activate.
Restore ==
    /\ remote.pc = "restore"
    /\ \/ /\ Traceable /\ tracee.stopped
          /\ tracee' = [tracee EXCEPT !.word = "own", !.registers = "own"]
          /\ IF remote.error # "none" THEN remote' = RemoteAt("failed")
             ELSE \/ remote' = IF remote.call < Len(RemoteCalls) THEN [RemoteAt("prepare") EXCEPT !.call = @ + 1] ELSE RemoteAt("detach")
                  \/ /\ RemoteCalls[remote.call] \in {"malloc", "dlopen", "dlsym"}
                     /\ remote' = [RemoteAt("failed") EXCEPT !.error = "RemoteCallFailed"]
          /\ RemoteKeeps
       \/ Abort("Unrestored")
       \/ /\ Traceable /\ tracee.stopped  \* setregs fails
          /\ tracee' = [tracee EXCEPT !.word = "own", !.attached = FALSE, !.stopped = FALSE]
          /\ remote' = [remote EXCEPT !.pc = "done", !.code = "Unrestored"] /\ RemoteKeeps

FailCall == remote.pc = "failed" /\ Abort(remote.error)

Detach ==
    /\ remote.pc = "detach"
    /\ \/ /\ Traceable /\ tracee' = [tracee EXCEPT !.attached = FALSE, !.stopped = FALSE]
          /\ remote' = RemoteAt("detached") /\ RemoteKeeps
       \/ Abort("Inject")

\* The target again, and the status that the agent's start returned.
Activated ==
    /\ remote.pc = "detached" /\ TraceeStays /\ RemoteKeeps
    /\ \/ remote' = [remote EXCEPT !.pc = "done", !.code = verify_target(report.start)]
       \/ /\ verify_target(report.start) = "ok"
          /\ remote' = [remote EXCEPT !.pc = "done", !.code = "RemoteCallFailed"]

RemoteStep ==
    \/ Seize \/ Interrupt \/ Prepare \/ EnterCall \/ WaitForCall \/ EnsureStopped
    \/ Restore \/ FailCall \/ Detach \/ Activated

RemInit ==
    /\ loaded = FALSE
    /\ remote = [pc |-> "idle", call |-> 0, error |-> "none", code |-> "none"]
    /\ tracee = NotTraced

-----------------------------------------------------------------------------
(* However an activation ends, a target that still runs goes on where it   *)
(* was interrupted: its registers and its stack are its own again.  Two    *)
(* exceptions are in the code: putting them back failed, or a call that    *)
(* overran its time could not be stopped (see EveryPathRestores).  A       *)
(* successful activation also left nothing allocated or attached and       *)
(* started the agent in the process that was inspected.                    *)
TargetIsLeftAsItWas ==
    remote.pc = "done" =>
        /\ Traceable /\ remote.code \notin {"Unrestored", "Unstopped"} =>
             tracee.registers = "own" /\ tracee.word = "own"
        /\ remote.code = "ok" =>
             /\ tracee.from = report.start
             /\ tracee.agent /\ tracee.allocated = 0 /\ ~tracee.attached
             /\ tracee.registers = "own" /\ tracee.word = "own"

(* docs/cupti-agent.md: every remote call restores the registers and the   *)
(* stack, "including failure paths".  Stated of the paths on which nothing *)
(* stops the restoring itself; `call` leaves by one without trying: when   *)
(* ensure_stopped fails after the deadline.                                *)
EveryPathRestores ==
    remote.pc = "done" /\ Traceable /\ remote.code # "Unrestored" =>
        tracee.registers = "own" /\ tracee.word = "own"
=============================================================================

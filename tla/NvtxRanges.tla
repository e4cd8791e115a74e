----------------------------- MODULE NvtxRanges -----------------------------
(***************************************************************************)
(* The table of open NVTX ranges in the CUPTI Agent (nvtx_callback,        *)
(* remember_nvtx_range, take_nvtx_range).  A range start stores its name   *)
(* and thread in an open-addressed table so that the range end, which      *)
(* carries only an id, can be recorded with them.  Threads insert and      *)
(* remove without a lock; a removed slot becomes a tombstone that later    *)
(* starts may reuse.                                                       *)
(*                                                                         *)
(* Ranges are of two kinds.  A push/pop range is keyed by its thread and   *)
(* level: only that thread starts and ends it, again and again.  A         *)
(* start/end range has a process-wide id that is used once, but any thread *)
(* may end it.  What a start stores is its generation: the name of this    *)
(* very range.                                                             *)
(***************************************************************************)
EXTENDS Integers, FiniteSets

CONSTANTS
    Threads,
    Key,             \* range kind and id
    Owner,           \* the thread of a push/pop range, or Process
    Process,
    Hash,            \* nvtx_range_hash; 0, 1 and 2 mark slots
    Capacity,        \* nvtx_range_capacity
    MaxGeneration,   \* bound on how often a range is started
    MaxUnknown       \* bound on malformed calls

ASSUME RangeAssumption ==
    /\ Capacity \in Nat \ {0}
    /\ MaxGeneration \in Nat \ {0}
    /\ MaxUnknown \in Nat
    /\ Key # {}
    /\ Process \notin Threads
    /\ Owner \in [Key -> Threads \cup {Process}]
    /\ Hash \in [Key -> Nat \ {0, 1, 2}]

VARIABLES
    active,      \* capture_state = ACTIVE; once it is not, it stays so
    slots,       \* nvtx_range_slots: state, key and generation
    agent_dropped_records,
    unknown_records,
    pc,
    key,         \* the range a thread works on
    probe,
    candidate,   \* the slot a start has picked
    seen,        \* the state it read there before its compare-and-swap
    taken,       \* the generation an end has copied out of its slot
    open,        \* the target's own view: which ranges are open
    generation,  \* how often each range has been started
    careless,    \* a thread has exited inside a range, so that its id may be
                 \* reused, or a start/end range was ended twice
    attempts,    \* selected starts and malformed calls while it was active
    accepted,    \* starts that got a slot
    emitted      \* records in the log: the range they name, and the range
                 \* that was in fact started or ended

counterVars == <<agent_dropped_records, unknown_records>>
threadVars == <<pc, key, probe, candidate, seen, taken>>
targetVars == <<open, generation, careless>>
historyVars == <<attempts, accepted, emitted>>
vars == <<active, slots, counterVars, threadVars, targetVars, historyVars>>

FREE == 0
WRITING == 1
TOMBSTONE == 2

Indices == 0 .. Capacity - 1
Generations == 0 .. MaxGeneration
States == {FREE, WRITING, TOMBSTONE} \cup {Hash[k] : k \in Key}
Record(b, k, g) == [boundary |-> b, key |-> k, names |-> g, range |-> generation[k]]
Slot == [state : States, key : Key, generation : Generations]
None == -1
Steps == {"idle", "probe", "choose", "swap", "fill", "dropped", "full",
          "find", "grab", "copy", "bury", "emit_start", "emit_end"}

TypeOK ==
    /\ active \in BOOLEAN
    /\ slots \in [Indices -> Slot]
    /\ agent_dropped_records \in Nat
    /\ unknown_records \in Nat
    /\ pc \in [Threads -> Steps]
    /\ key \in [Threads -> Key]
    /\ probe \in [Threads -> 0 .. Capacity]
    /\ candidate \in [Threads -> Indices \cup {None}]
    /\ seen \in [Threads -> States]
    /\ taken \in [Threads -> Generations]
    /\ open \in [Key -> BOOLEAN]
    /\ generation \in [Key -> Generations]
    /\ careless \in BOOLEAN
    /\ attempts \in Nat
    /\ accepted \in Nat
    /\ emitted \subseteq [boundary : {"start", "end"}, key : Key,
                           names : Generations, range : Generations]

AnyKey == CHOOSE k \in Key : TRUE

(* Some ranges may have been opened before the capture was armed. *)
Init ==
    /\ active = TRUE
    /\ slots = [i \in Indices |-> [state |-> FREE, key |-> AnyKey, generation |-> 0]]
    /\ agent_dropped_records = 0
    /\ unknown_records = 0
    /\ pc = [t \in Threads |-> "idle"]
    /\ key = [t \in Threads |-> AnyKey]
    /\ probe = [t \in Threads |-> 0]
    /\ candidate = [t \in Threads |-> None]
    /\ seen = [t \in Threads |-> FREE]
    /\ taken = [t \in Threads |-> 0]
    /\ open \in [Key -> BOOLEAN]
    /\ generation = [k \in Key |-> 0]
    /\ careless = FALSE
    /\ attempts = 0
    /\ accepted = 0
    /\ emitted = {}

Goto(t, step) == pc' = [pc EXCEPT ![t] = step]

(* A callback returns; its locals are gone. *)
Return(t) ==
    /\ Goto(t, "idle")
    /\ key' = [key EXCEPT ![t] = AnyKey]
    /\ probe' = [probe EXCEPT ![t] = 0]
    /\ candidate' = [candidate EXCEPT ![t] = None]
    /\ seen' = [seen EXCEPT ![t] = FREE]
    /\ taken' = [taken EXCEPT ![t] = 0]

Quiet == \A t \in Threads : pc[t] = "idle"

(* No callback for the range is running: NVTX returns to the caller after  *)
(* the callback, so a range is not ended before its start was handled.     *)
Settled(k) == \A t \in Threads : pc[t] # "idle" => key[t] # k

Ending(t) == pc[t] \in {"find", "grab", "copy", "bury", "emit_end"}

MayStart(t, k) == Owner[k] \in {t, Process} /\ Settled(k) /\ ~open[k]

MayEndOpen(t, k) == Owner[k] \in {t, Process} /\ Settled(k) /\ open[k]

(* Start/end ranges may be ended by any thread, and so ended twice. *)
MayEndTwice(t, k) ==
    /\ Owner[k] = Process
    /\ open[k] \/ generation[k] > 0
    /\ \A u \in Threads : pc[u] # "idle" /\ key[u] = k => Ending(u)

Index(t) == (Hash[key[t]] + probe[t]) % Capacity

Holds(i, k) == slots[i].state = Hash[k] /\ slots[i].key = k

-----------------------------------------------------------------------------
(* The target starts a range. *)
OpenRange(t, k) ==
    /\ pc[t] = "idle"
    /\ MayStart(t, k)
    /\ generation[k] < IF Owner[k] = Process THEN 1 ELSE MaxGeneration
    /\ open' = [open EXCEPT ![k] = TRUE]
    /\ generation' = [generation EXCEPT ![k] = @ + 1]
    /\ UNCHANGED careless

(* nvtx_callback passes over a start while the capture is inactive, and    *)
(* one whose name is not ASCII or not selected; a malformed one is         *)
(* counted, and one that gets no timestamp fails the capture.              *)
IgnoreStart(t, k) ==
    /\ OpenRange(t, k)
    /\ \/ UNCHANGED <<active, unknown_records, attempts>>
       \/ /\ active
          /\ unknown_records < MaxUnknown
          /\ unknown_records' = unknown_records + 1
          /\ attempts' = attempts + 1
          /\ UNCHANGED active
       \/ /\ active
          /\ active' = FALSE
          /\ UNCHANGED <<unknown_records, attempts>>
    /\ UNCHANGED <<slots, agent_dropped_records, threadVars, accepted, emitted>>

RangeStart(t, k) ==
    /\ OpenRange(t, k)
    /\ active
    /\ Goto(t, "probe")
    /\ key' = [key EXCEPT ![t] = k]
    /\ attempts' = attempts + 1
    /\ UNCHANGED <<active, slots, counterVars, probe, candidate, seen, taken,
                   accepted, emitted>>

(* remember_nvtx_range: a slot of the same range refuses the start, the    *)
(* first tombstone is the candidate, a free slot ends the search.          *)
Remember(t) ==
    LET i == Index(t)
        state == slots[i].state
        pick == IF candidate[t] = None THEN i ELSE candidate[t]
    IN  /\ pc[t] = "probe"
        /\ \/ /\ probe[t] = Capacity
              /\ Goto(t, IF candidate[t] = None THEN "full" ELSE "choose")
              /\ UNCHANGED <<probe, candidate>>
           \/ /\ probe[t] < Capacity /\ Holds(i, key[t])
              /\ Goto(t, "dropped")
              /\ UNCHANGED <<probe, candidate>>
           \/ /\ probe[t] < Capacity /\ state = FREE
              /\ candidate' = [candidate EXCEPT ![t] = pick]
              /\ Goto(t, "choose")
              /\ UNCHANGED probe
           \/ /\ probe[t] < Capacity /\ state # FREE /\ ~Holds(i, key[t])
              /\ candidate' = [candidate EXCEPT ![t] =
                                  IF state = TOMBSTONE THEN pick ELSE @]
              /\ probe' = [probe EXCEPT ![t] = @ + 1]
              /\ UNCHANGED pc
        /\ UNCHANGED <<active, slots, counterVars, key, seen, taken, targetVars,
                       historyVars>>

Choose(t) ==
    /\ pc[t] = "choose"
    /\ seen' = [seen EXCEPT ![t] = slots[candidate[t]].state]
    /\ Goto(t, IF slots[candidate[t]].state \in {FREE, TOMBSTONE} THEN "swap"
               ELSE "dropped")
    /\ UNCHANGED <<active, slots, counterVars, key, probe, candidate, taken,
                   targetVars, historyVars>>

Swap(t) ==
    /\ pc[t] = "swap"
    /\ IF slots[candidate[t]].state = seen[t]
       THEN /\ slots' = [slots EXCEPT ![candidate[t]].state = WRITING]
            /\ Goto(t, "fill")
       ELSE /\ Goto(t, "dropped")
            /\ UNCHANGED slots
    /\ UNCHANGED <<active, counterVars, key, probe, candidate, seen, taken,
                   targetVars, historyVars>>

(* The content is written while the slot is claimed and becomes visible    *)
(* with its state.                                                         *)
Fill(t) ==
    /\ pc[t] = "fill"
    /\ slots' = [slots EXCEPT ![candidate[t]] =
                    [state |-> Hash[key[t]], key |-> key[t],
                     generation |-> generation[key[t]]]]
    /\ accepted' = accepted + 1
    /\ Goto(t, "emit_start")
    /\ UNCHANGED <<active, counterVars, key, probe, candidate, seen, taken,
                   targetVars, attempts, emitted>>

(* Mutant: a lost race for a slot is not counted. *)
DroppedSilently(t) ==
    /\ pc[t] = "dropped"
    /\ Return(t)
    /\ UNCHANGED <<active, slots, counterVars, targetVars, historyVars>>

Dropped(t) ==
    /\ pc[t] = "dropped"
    /\ agent_dropped_records' = agent_dropped_records + 1
    /\ Return(t)
    /\ UNCHANGED <<active, slots, unknown_records, targetVars, historyVars>>

(* nvtx_range_capacity_reached. *)
Full(t) ==
    /\ pc[t] = "full"
    /\ agent_dropped_records' = agent_dropped_records + 1
    /\ active' = FALSE
    /\ Return(t)
    /\ UNCHANGED <<slots, unknown_records, targetVars, historyVars>>

(* enqueue_record: passed over if the capture has ended meanwhile; a full  *)
(* record log ends it.                                                     *)
Enqueue(record) ==
    \/ active /\ emitted' = emitted \cup {record} /\ UNCHANGED active
    \/ active' = FALSE /\ UNCHANGED emitted

EmitStart(t) ==
    /\ pc[t] = "emit_start"
    /\ Enqueue(Record("start", key[t], generation[key[t]]))
    /\ Return(t)
    /\ UNCHANGED <<slots, counterVars, targetVars, attempts, accepted>>

-----------------------------------------------------------------------------
(* The target ends a range; a callback that finds the capture inactive     *)
(* returns at once.                                                        *)
RangeEnd(t, k) ==
    /\ pc[t] = "idle"
    /\ \/ MayEndOpen(t, k) /\ UNCHANGED careless
       \/ ~MayEndOpen(t, k) /\ MayEndTwice(t, k) /\ careless' = TRUE
    /\ open' = [open EXCEPT ![k] = FALSE]
    /\ IF active
       THEN Goto(t, "find") /\ key' = [key EXCEPT ![t] = k]
       ELSE UNCHANGED <<pc, key>>
    /\ UNCHANGED <<active, slots, counterVars, probe, candidate, seen, taken,
                   generation, historyVars>>

(* nvtx_callback counts an end without an id or a level. *)
IgnoreEnd(t, k) ==
    /\ pc[t] = "idle"
    /\ active
    /\ MayEndOpen(t, k)
    /\ unknown_records < MaxUnknown
    /\ open' = [open EXCEPT ![k] = FALSE]
    /\ unknown_records' = unknown_records + 1
    /\ attempts' = attempts + 1
    /\ UNCHANGED <<active, slots, agent_dropped_records, threadVars, generation,
                   careless, accepted, emitted>>

(* take_nvtx_range: the search ends at a free slot. *)
Find(t) ==
    /\ pc[t] = "find"
    /\ \/ /\ probe[t] = Capacity \/ slots[Index(t)].state = FREE
          /\ Return(t)
       \/ /\ probe[t] < Capacity
          /\ Holds(Index(t), key[t])
          /\ Goto(t, "grab")
          /\ UNCHANGED <<key, probe, candidate, seen, taken>>
       \/ /\ probe[t] < Capacity
          /\ slots[Index(t)].state # FREE
          /\ ~Holds(Index(t), key[t])
          /\ probe' = [probe EXCEPT ![t] = @ + 1]
          /\ UNCHANGED <<pc, key, candidate, seen, taken>>
    /\ UNCHANGED <<active, slots, counterVars, targetVars, historyVars>>

Grab(t) ==
    /\ pc[t] = "grab"
    /\ IF slots[Index(t)].state = Hash[key[t]]
       THEN /\ slots' = [slots EXCEPT ![Index(t)].state = WRITING]
            /\ Goto(t, "copy")
            /\ UNCHANGED probe
       ELSE /\ probe' = [probe EXCEPT ![t] = @ + 1]
            /\ Goto(t, "find")
            /\ UNCHANGED slots
    /\ UNCHANGED <<active, counterVars, key, candidate, seen, taken, targetVars,
                   historyVars>>

(* Mutant: the slot becomes free instead of a tombstone. *)
CopyAndFree(t) ==
    /\ pc[t] = "copy"
    /\ taken' = [taken EXCEPT ![t] = slots[Index(t)].generation]
    /\ slots' = [slots EXCEPT ![Index(t)].state = FREE]
    /\ Goto(t, "emit_end")
    /\ UNCHANGED <<active, counterVars, key, probe, candidate, seen, targetVars,
                   historyVars>>

(* The name is copied, then the slot is given up. *)
Copy(t) ==
    /\ pc[t] = "copy"
    /\ taken' = [taken EXCEPT ![t] = slots[Index(t)].generation]
    /\ slots' = [slots EXCEPT ![Index(t)].state = TOMBSTONE]
    /\ Goto(t, "emit_end")
    /\ UNCHANGED <<active, counterVars, key, probe, candidate, seen, targetVars,
                   historyVars>>

(* Without a timestamp the capture fails, and the slot is given up too. *)
ClockFails(t) ==
    /\ pc[t] = "copy"
    /\ active' = FALSE
    /\ Goto(t, "bury")
    /\ UNCHANGED <<slots, counterVars, key, probe, candidate, seen, taken,
                   targetVars, historyVars>>

Bury(t) ==
    /\ pc[t] = "bury"
    /\ slots' = [slots EXCEPT ![Index(t)].state = TOMBSTONE]
    /\ Return(t)
    /\ UNCHANGED <<active, counterVars, targetVars, historyVars>>

(* Mutant: the name is copied after the slot was given up. *)
EmitEndFromSlot(t) ==
    /\ pc[t] = "emit_end"
    /\ Enqueue(Record("end", key[t], slots[Index(t)].generation))
    /\ Return(t)
    /\ UNCHANGED <<slots, counterVars, targetVars, attempts, accepted>>

EmitEnd(t) ==
    /\ pc[t] = "emit_end"
    /\ Enqueue(Record("end", key[t], taken[t]))
    /\ Return(t)
    /\ UNCHANGED <<slots, counterVars, targetVars, attempts, accepted>>

(* A thread exits inside its push/pop range; another thread with its id    *)
(* may push at the same level again.                                       *)
ThreadExit(t) ==
    /\ pc[t] = "idle"
    /\ \E k \in Key : Owner[k] = t /\ open[k]
    /\ open' = [k \in Key |-> open[k] /\ Owner[k] # t]
    /\ careless' = TRUE
    /\ UNCHANGED <<active, slots, counterVars, threadVars, generation, historyVars>>

ThreadNext(t) ==
    \/ ThreadExit(t)
    \/ \E k \in Key : \/ IgnoreStart(t, k) \/ RangeStart(t, k)
                     \/ IgnoreEnd(t, k) \/ RangeEnd(t, k)
    \/ Remember(t) \/ Choose(t) \/ Swap(t) \/ Fill(t) \/ Dropped(t) \/ Full(t)
    \/ EmitStart(t)
    \/ Find(t) \/ Grab(t) \/ Copy(t) \/ ClockFails(t) \/ Bury(t) \/ EmitEnd(t)

(* The capture ends for another reason: STOP, an error, the record limit. *)
Freeze ==
    /\ active
    /\ active' = FALSE
    /\ UNCHANGED <<slots, counterVars, threadVars, targetVars, historyVars>>

(* The target makes no further NVTX call. *)
Finished == Quiet /\ UNCHANGED vars

Next == Freeze \/ Finished \/ \E t \in Threads : ThreadNext(t)

Spec == Init /\ [][Next]_vars

-----------------------------------------------------------------------------
(* The records name the range that was started or ended, and an end is     *)
(* recorded only after its start.                                          *)
Paired ==
    \A e \in emitted :
        /\ e.names = e.range
        /\ e.boundary = "end" => [e EXCEPT !.boundary = "start"] \in emitted

(* Every range end that is recorded names the very range that ended, and   *)
(* that range's start was recorded too: what correlate_nvtx_lifecycle      *)
(* pairs up are ranges of the target, whatever slots their starts and ends *)
(* raced for and reused in remember_nvtx_range and take_nvtx_range, and    *)
(* also when some starts were dropped.  The target balances its ranges and *)
(* made no malformed call.                                                 *)
EndsArePaired == unknown_records = 0 /\ ~careless => Paired

(* The same of a capture that the CLI would accept, one without dropped    *)
(* and unknown records, when thread ids are reused: the table "retains     *)
(* matching starts until a thread pop or process range end recovers the    *)
(* same bounded name and start thread".                                    *)
AcceptedEndsArePaired == agent_dropped_records = 0 /\ unknown_records = 0 => Paired

(* While the capture is active, the target balances its ranges and no      *)
(* callback runs, the table holds exactly the ranges that were recorded    *)
(* and are still open, each once: no end misses the slot of its start      *)
(* behind tombstones and concurrent claims, and no slot is left claimed or *)
(* occupied by a closed range.                                             *)
TableHoldsOpenRanges ==
    active /\ Quiet /\ unknown_records = 0 /\ ~careless =>
        /\ \A i \in Indices : slots[i].state # WRITING
        /\ \A k \in Key :
              LET held == {i \in Indices : Holds(i, k)}
                  recorded == /\ open[k]
                              /\ Record("start", k, generation[k]) \in emitted
              IN  Cardinality(held) = IF recorded THEN 1 ELSE 0

(* A selected start that got no slot, and a malformed call, is never lost  *)
(* silently: it is counted as dropped or unknown, which the CLI turns into *)
(* a failed measurement.                                                   *)
LossesAreCounted ==
    Quiet => attempts = accepted + agent_dropped_records + unknown_records
=============================================================================

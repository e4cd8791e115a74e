-------------------------- MODULE NvtxRangesProofs ---------------------------
(***************************************************************************)
(* Proofs about the table of open NVTX ranges, for any number of threads,  *)
(* any ranges and hashes, and any capacity of the table.                   *)
(*                                                                         *)
(* That ends are paired is not inductive: it holds because of what the     *)
(* table has and of how far each callback has come.  ClaimInv says who     *)
(* owns a slot that is being written, ProbeInv what a search has passed    *)
(* by, and RangeInv, as long as the capture is active and the target       *)
(* balances its ranges, where each range stands.                           *)
(***************************************************************************)
EXTENDS NvtxRanges, FiniteSetTheorems, TLAPS

(* The slot that a search for k looks at after d others; all of these had  *)
(* been in use, and a slot in use never becomes free again.                *)
At(k, d) == (Hash[k] + d) % Capacity
Passed(k, d) == \A c \in 0 .. d - 1 : slots[At(k, c)].state # FREE
Reached(k, i) == \E d \in 0 .. Capacity - 1 : i = At(k, d) /\ Passed(k, d)

(* A slot that is being written belongs to one thread. *)
Claims(t, i) ==
    \/ pc[t] = "fill" /\ candidate[t] = i
    \/ pc[t] \in {"copy", "bury"} /\ Index(t) = i

ClaimInv ==
    /\ \A t \in Threads, i \in Indices : Claims(t, i) => slots[i].state = WRITING
    /\ \A t, u \in Threads, i \in Indices : Claims(t, i) /\ Claims(u, i) => t = u
    /\ \A i \in Indices : slots[i].state = WRITING => \E t \in Threads : Claims(t, i)

(* How far the search of a start or an end has come. *)
ProbeInv ==
    \A t \in Threads :
        /\ pc[t] = "idle" => probe[t] = 0 /\ candidate[t] = None
        /\ pc[t] = "probe" => Passed(key[t], probe[t])
        /\ pc[t] \in {"choose", "swap", "fill"} => candidate[t] # None
        /\ pc[t] \in {"probe", "choose", "swap", "fill"} /\ candidate[t] # None => Reached(key[t], candidate[t])
        /\ pc[t] = "swap" => seen[t] \in {FREE, TOMBSTONE}
        /\ pc[t] \in {"grab", "copy", "bury"} => probe[t] < Capacity

(* The capture is active and the target balances its ranges. *)
Balanced == unknown_records = 0 /\ ~careless
Sound == active /\ Balanced

Held(k) == \E i \in Indices : Holds(i, k)
Started(k) == Record("start", k, generation[k]) \in emitted
Starting(t) == pc[t] \in {"probe", "choose", "swap", "fill", "dropped", "full"}

(* One callback at a time works on a range. *)
OneAtATime ==
    \A t, u \in Threads : pc[t] # "idle" /\ pc[u] # "idle" /\ key[t] = key[u] => t = u

(* A range has at most one slot, which is its own and which its end finds. *)
HasOneSlot(k) ==
    \A i \in Indices :
        Holds(i, k) =>
            /\ slots[i].generation = generation[k]
            /\ Reached(k, i)
            /\ \A j \in Indices : Holds(j, k) => i = j

(* Between two callbacks a range is in the table if it is open and its     *)
(* start is recorded.                                                      *)
Rests(k) == Settled(k) => (Held(k) <=> open[k] /\ Started(k))

(* How the range of a callback stands. *)
Stands(t) ==
    /\ Starting(t) => open[key[t]] /\ ~Held(key[t]) /\ ~Started(key[t])
    /\ pc[t] = "emit_start" => open[key[t]] /\ Held(key[t]) /\ ~Started(key[t])
    /\ Ending(t) => ~open[key[t]]
    /\ pc[t] \in {"find", "grab"} => (Held(key[t]) <=> Started(key[t]))
    /\ pc[t] = "find" => \A c \in 0 .. probe[t] - 1 : ~Holds(At(key[t], c), key[t])
    /\ pc[t] = "grab" => Holds(Index(t), key[t])
    /\ pc[t] \in {"copy", "emit_end"} => ~Held(key[t]) /\ Started(key[t])
    /\ pc[t] = "copy" => slots[Index(t)].key = key[t] /\ slots[Index(t)].generation = generation[key[t]]
    /\ pc[t] = "emit_end" => taken[t] = generation[key[t]]
    /\ pc[t] # "bury"

RangeInv ==
    Sound => /\ OneAtATime
             /\ \A k \in Key : HasOneSlot(k) /\ Rests(k)
             /\ \A t \in Threads : Stands(t)

RecordInv ==
    /\ \A e \in emitted : e.range <= generation[e.key]
    /\ Balanced => Paired

(* The starts that are neither in the table nor counted yet. *)
Undecided == {t \in Threads : Starting(t)}

CountInv ==
    /\ IsFiniteSet(Undecided)
    /\ attempts = accepted + agent_dropped_records + unknown_records + Cardinality(Undecided)

-----------------------------------------------------------------------------
(* Types.                                                                  *)

(* The slots that a search looks at are slots of the table. *)
LEMMA SlotsAt == \A k \in Key, d \in Nat : At(k, d) \in Indices
  BY RangeAssumption DEF At, Indices

(* There is a range that an idle thread may be said to have. *)
LEMMA AnyKeyIsKey == AnyKey \in Key
  BY RangeAssumption, Zenon DEF AnyKey

(* TypeOK in two parts. *)
FlagsOK == active \in BOOLEAN /\ careless \in BOOLEAN /\ open \in [Key -> BOOLEAN]
DataOK ==
    /\ slots \in [Indices -> Slot]
    /\ agent_dropped_records \in Nat
    /\ unknown_records \in Nat
    /\ pc \in [Threads -> Steps]
    /\ key \in [Threads -> Key]
    /\ probe \in [Threads -> 0 .. Capacity]
    /\ candidate \in [Threads -> Indices \cup {None}]
    /\ seen \in [Threads -> States]
    /\ taken \in [Threads -> Generations]
    /\ generation \in [Key -> Generations]
    /\ attempts \in Nat
    /\ accepted \in Nat
    /\ emitted \subseteq [boundary : {"start", "end"}, key : Key, names : Generations, range : Generations]

(* The two parts are all of TypeOK. *)
LEMMA TypeOKIs == TypeOK <=> FlagsOK /\ DataOK
  BY Zenon DEF TypeOK, FlagsOK, DataOK

(* The slot that a callback looks at. *)
LEMMA IndexAt ==
  ASSUME DataOK, NEW t \in Threads
  PROVE  Index(t) = At(key[t], probe[t]) /\ Index(t) \in Indices
  <1>1. key[t] \in Key /\ probe[t] \in Nat
    BY DEF DataOK
  <1>2. Index(t) = At(key[t], probe[t])
    BY Zenon DEF Index, At
  <1> QED
    BY <1>1, <1>2, SlotsAt, Zenon

(* A callback of nvtx_callback that returns. *)
LEMMA ReturnKeepsTypes ==
  ASSUME DataOK, NEW t \in Threads, Return(t)
  PROVE  /\ pc' \in [Threads -> Steps] /\ key' \in [Threads -> Key]
         /\ probe' \in [Threads -> 0 .. Capacity] /\ candidate' \in [Threads -> Indices \cup {None}]
         /\ seen' \in [Threads -> States] /\ taken' \in [Threads -> Generations]
  BY AnyKeyIsKey, RangeAssumption DEF DataOK, Return, Goto, Steps, States, Generations

(* The marks of slots and the hashes, which mark slots too, are states. *)
LEMMA MarksAreStates ==
  /\ {FREE, WRITING, TOMBSTONE} \subseteq States
  /\ \A k \in Key : Hash[k] \in States \ {FREE, WRITING, TOMBSTONE}
  BY RangeAssumption, Zenon DEF States, FREE, WRITING, TOMBSTONE

(* Writing a slot, or its state alone. *)
LEMMA SlotsAreSlots ==
  ASSUME slots \in [Indices -> Slot], NEW i, NEW state \in States
  PROVE  /\ [slots EXCEPT ![i].state = state] \in [Indices -> Slot]
         /\ \A k \in Key, g \in Generations :
              [slots EXCEPT ![i] = [state |-> state, key |-> k, generation |-> g]] \in [Indices -> Slot]
  BY Zenon DEF Slot

(* Every step of the NVTX callbacks keeps the table, the counters and the  *)
(* threads within their types.                                             *)
LEMMA DataIsKept == DataOK /\ ProbeInv /\ [Next]_vars => DataOK'
  <1> SUFFICES ASSUME DataOK, ProbeInv, [Next]_vars PROVE DataOK'
    BY Zenon
  <1>1. CASE Freeze \/ UNCHANGED vars
    BY <1>1, Zenon DEF DataOK, Freeze, vars, counterVars, threadVars, targetVars, historyVars
  <1>2. ASSUME NEW t \in Threads, ThreadExit(t) PROVE DataOK'
    BY <1>2, Zenon DEF DataOK, ThreadExit, counterVars, threadVars, historyVars
  <1>3. ASSUME NEW t \in Threads, NEW k \in Key, IgnoreStart(t, k) PROVE DataOK'
    BY <1>3, RangeAssumption DEF DataOK, IgnoreStart, OpenRange, MayStart, threadVars, Generations
  <1>4. ASSUME NEW t \in Threads, NEW k \in Key, RangeStart(t, k) PROVE DataOK'
    BY <1>4, RangeAssumption DEF DataOK, RangeStart, OpenRange, MayStart, Goto, counterVars, Generations, Steps
  <1>5. ASSUME NEW t \in Threads, NEW k \in Key, IgnoreEnd(t, k) PROVE DataOK'
    BY <1>5 DEF DataOK, IgnoreEnd, threadVars
  <1>6. ASSUME NEW t \in Threads, NEW k \in Key, RangeEnd(t, k) PROVE DataOK'
    BY <1>6 DEF DataOK, RangeEnd, Goto, counterVars, historyVars, Steps
  <1>7. ASSUME NEW t \in Threads, Remember(t) PROVE DataOK'
    <2>1. pc' \in [Threads -> Steps]
      BY <1>7, Zenon DEF DataOK, Remember, Goto, Steps
    <2>2. probe' \in [Threads -> 0 .. Capacity]
      BY <1>7, RangeAssumption DEF DataOK, Remember
    <2>3. Index(t) \in Indices
      BY SlotsAt DEF DataOK, Index, At
    <2>4. candidate' \in [Threads -> Indices \cup {None}]
      BY <1>7, <2>3, Zenon DEF DataOK, Remember
    <2> QED
      BY <1>7, <2>1, <2>2, <2>4, Zenon DEF DataOK, Remember, counterVars, targetVars, historyVars
  <1>8. ASSUME NEW t \in Threads, Choose(t) \/ Swap(t) PROVE DataOK'
    <2>1. slots' \in [Indices -> Slot]
      BY <1>8, SlotsAreSlots, MarksAreStates DEF DataOK, Choose, Swap
    <2>2. seen' \in [Threads -> States]
      BY <1>8, Zenon DEF DataOK, ProbeInv, Choose, Swap, Slot
    <2> QED
      BY <1>8, <2>1, <2>2, Zenon DEF DataOK, Choose, Swap, Goto, counterVars, targetVars, historyVars, Steps
  <1>9. ASSUME NEW t \in Threads, Fill(t) PROVE DataOK'
    <2>1. slots' \in [Indices -> Slot]
      BY <1>9, SlotsAreSlots, MarksAreStates, Zenon DEF DataOK, Fill
    <2> QED
      BY <1>9, <2>1 DEF DataOK, Fill, Goto, counterVars, targetVars, historyVars, Steps
  <1>10. ASSUME NEW t \in Threads, Dropped(t) \/ Full(t) PROVE DataOK'
    BY <1>10, ReturnKeepsTypes DEF DataOK, Dropped, Full, targetVars, historyVars
  <1>11. ASSUME NEW t \in Threads, EmitStart(t) \/ EmitEnd(t) PROVE DataOK'
    BY <1>11, ReturnKeepsTypes DEF DataOK, EmitStart, EmitEnd, Enqueue, Record, counterVars, targetVars
  <1>12. ASSUME NEW t \in Threads, Find(t) PROVE DataOK'
    BY <1>12, ReturnKeepsTypes, RangeAssumption DEF DataOK, Find, Goto, Steps, counterVars, targetVars, historyVars
  <1>13. ASSUME NEW t \in Threads, Grab(t), probe[t] < Capacity PROVE DataOK'
    <2>1. slots' \in [Indices -> Slot]
      BY <1>13, SlotsAreSlots, MarksAreStates DEF DataOK, Grab
    <2> QED
      BY <1>13, <2>1, RangeAssumption DEF DataOK, Grab, Goto, Steps, counterVars, targetVars, historyVars
  <1>14. ASSUME NEW t \in Threads, Copy(t) \/ ClockFails(t) PROVE DataOK'
    <2>1. Index(t) \in Indices
      BY SlotsAt DEF DataOK, Index, At
    <2>2. slots[Index(t)].generation \in Generations
      BY <2>1, Zenon DEF DataOK, Slot
    <2>3. slots' \in [Indices -> Slot]
      BY <1>14, SlotsAreSlots, MarksAreStates DEF DataOK, Copy, ClockFails
    <2> QED
      BY <1>14, <2>2, <2>3, Zenon DEF DataOK, Copy, ClockFails, Goto, Steps, counterVars, targetVars, historyVars
  <1>15. ASSUME NEW t \in Threads, Bury(t) PROVE DataOK'
    BY <1>15, ReturnKeepsTypes, SlotsAreSlots, MarksAreStates, Zenon DEF DataOK, Bury, counterVars, targetVars, historyVars
  <1> QED
    BY <1>1, <1>2, <1>3, <1>4, <1>5, <1>6, <1>7, <1>8, <1>9, <1>10, <1>11, <1>12, <1>13, <1>14, <1>15, Zenon
       DEF Next, Finished, ThreadNext, ProbeInv, Grab

-----------------------------------------------------------------------------
(* Who owns a slot, and what a search has passed by.                       *)

(* The locals of a callback are its own. *)
LEMMA OtherThreads ==
  ASSUME DataOK, NEW t \in Threads, ThreadNext(t), NEW u \in Threads, u # t
  PROVE  UNCHANGED <<pc[u], key[u], probe[u], candidate[u], seen[u], taken[u]>>
  <1>1. CASE \E k \in Key : IgnoreStart(t, k) \/ RangeStart(t, k) \/ IgnoreEnd(t, k) \/ RangeEnd(t, k)
    BY <1>1, Zenon DEF DataOK, IgnoreStart, RangeStart, IgnoreEnd, RangeEnd, Goto, threadVars
  <1>2. CASE Remember(t)
    BY <1>2, Zenon DEF DataOK, Remember, Goto
  <1>3. CASE Choose(t) \/ Swap(t) \/ Fill(t)
    BY <1>3, Zenon DEF DataOK, Choose, Swap, Fill, Goto
  <1>4. CASE Return(t)
    BY <1>4, Zenon DEF DataOK, Return, Goto
  <1>5. CASE Find(t) \/ Grab(t)
    BY <1>4, <1>5, Zenon DEF DataOK, Find, Grab, Goto
  <1>6. CASE Copy(t) \/ ClockFails(t)
    BY <1>6, Zenon DEF DataOK, Copy, ClockFails, Goto
  <1> QED
    BY <1>1, <1>2, <1>3, <1>4, <1>5, <1>6, Zenon
       DEF ThreadNext, ThreadExit, threadVars, Dropped, Full, EmitStart, EmitEnd, Bury

(* A step of t leaves the slots and its claims alone, claims a slot by a   *)
(* compare-and-swap, or gives up the slot that it has claimed.             *)
Claiming(t, i) ==
    /\ slots[i].state # WRITING /\ slots' = [slots EXCEPT ![i].state = WRITING]
    /\ \A j \in Indices : ~Claims(t, j) /\ (Claims(t, j)' <=> j = i)
GivingUp(t, i) ==
    /\ Claims(t, i) /\ slots'[i].state \notin {FREE, WRITING}
    /\ \A j \in Indices : ~Claims(t, j)' /\ (j # i => slots'[j] = slots[j])

(* A step of a callback leaves the slots alone, claims one or gives one    *)
(* up.                                                                     *)
LEMMA StepsOfSlots ==
  ASSUME DataOK, ProbeInv, NEW t \in Threads, ThreadNext(t)
  PROVE  \/ UNCHANGED slots /\ \A i \in Indices : Claims(t, i)' <=> Claims(t, i)
         \/ \E i \in Indices : Claiming(t, i) \/ GivingUp(t, i)
  <1>0. Index(t) \in Indices /\ (pc[t] \in {"swap", "fill"} => candidate[t] \in Indices)
    BY SlotsAt DEF DataOK, ProbeInv, Index, At
  <1>1. CASE ThreadExit(t) \/ \E k \in Key : IgnoreStart(t, k) \/ IgnoreEnd(t, k)
    BY <1>1, Zenon DEF ThreadExit, IgnoreStart, IgnoreEnd, threadVars, Claims, Index
  <1>2. CASE \E k \in Key : RangeStart(t, k) \/ RangeEnd(t, k)
    BY <1>2 DEF DataOK, RangeStart, RangeEnd, OpenRange, Goto, Claims
  <1>3. CASE Remember(t) \/ Choose(t)
    BY <1>3, Zenon DEF DataOK, Remember, Choose, Goto, Claims
  <1>4. CASE Swap(t)
    <2>1. CASE slots[candidate[t]].state = seen[t]
      <3>1. slots[candidate[t]].state # WRITING
        BY <1>4, <2>1 DEF Swap, ProbeInv, FREE, WRITING, TOMBSTONE
      <3>2. \A j \in Indices : ~Claims(t, j) /\ (Claims(t, j)' <=> j = candidate[t])
        BY <1>4, <2>1, Zenon DEF DataOK, Swap, Goto, Claims
      <3> QED
        BY <1>0, <1>4, <2>1, <3>1, <3>2, Zenon DEF Swap, Claiming
    <2> QED
      BY <1>4, <2>1, Zenon DEF DataOK, Swap, Goto, Claims
  <1>5. CASE Fill(t)
    <2>1. slots'[candidate[t]].state = Hash[key[t]] /\ \A j \in Indices : j # candidate[t] => slots'[j] = slots[j]
      BY <1>0, <1>5, Zenon DEF DataOK, Fill
    <2>2. Hash[key[t]] \notin {FREE, WRITING}
      BY MarksAreStates, Zenon DEF DataOK
    <2>3. Claims(t, candidate[t]) /\ \A j \in Indices : ~Claims(t, j)'
      BY <1>5, Zenon DEF DataOK, Fill, Goto, Claims
    <2> QED
      BY <1>0, <1>5, <2>1, <2>2, <2>3, Zenon DEF Fill, GivingUp
  <1>6. CASE (Dropped(t) \/ Full(t) \/ EmitStart(t) \/ EmitEnd(t))
    BY <1>6, Zenon DEF DataOK, Dropped, Full, EmitStart, EmitEnd, Return, Goto, Claims
  <1>7. CASE Find(t)
    BY <1>7, Zenon DEF DataOK, Find, Return, Goto, Claims
  <1>8. CASE Grab(t)
    <2>1. CASE slots[Index(t)].state = Hash[key[t]]
      <3>1. slots[Index(t)].state # WRITING
        BY <2>1, MarksAreStates, Zenon DEF DataOK
      <3>2. Index(t)' = Index(t)
        BY <1>8, <2>1, Zenon DEF Grab, Index
      <3>3. \A j \in Indices : ~Claims(t, j) /\ (Claims(t, j)' <=> j = Index(t))
        BY <1>8, <2>1, <3>2, Zenon DEF DataOK, Grab, Goto, Claims
      <3> QED
        BY <1>0, <1>8, <2>1, <3>1, <3>3, Zenon DEF Grab, Claiming
    <2> QED
      BY <1>8, <2>1, Zenon DEF DataOK, Grab, Goto, Claims
  <1>9. CASE Copy(t) \/ Bury(t)
    <2>1. slots'[Index(t)].state = TOMBSTONE /\ \A j \in Indices : j # Index(t) => slots'[j] = slots[j]
      BY <1>0, <1>9 DEF DataOK, Slot, Copy, Bury
    <2>2. Claims(t, Index(t)) /\ \A j \in Indices : ~Claims(t, j)'
      BY <1>9, Zenon DEF DataOK, Copy, Bury, Return, Goto, Claims
    <2> QED
      BY <1>0, <2>1, <2>2 DEF GivingUp, FREE, WRITING, TOMBSTONE
  <1>10. CASE ClockFails(t)
    <2>1. Index(t)' = Index(t)
      BY <1>10, Zenon DEF ClockFails, Index
    <2> QED
      BY <1>10, <2>1, Zenon DEF DataOK, ClockFails, Goto, Claims
  <1> QED
    BY <1>1, <1>2, <1>3, <1>4, <1>5, <1>6, <1>7, <1>8, <1>9, <1>10, Zenon DEF ThreadNext

(* However the compare-and-swaps of several threads fall out. *)
LEMMA ClaimsAreKept == DataOK /\ ProbeInv /\ ClaimInv /\ [Next]_vars => ClaimInv'
  <1> SUFFICES ASSUME DataOK, ProbeInv, ClaimInv, [Next]_vars PROVE ClaimInv'
    BY Zenon
  <1>1. CASE Freeze \/ UNCHANGED vars
    BY <1>1 DEF ClaimInv, Claims, Index, Freeze, vars, threadVars
  <1>2. ASSUME NEW t \in Threads, ThreadNext(t) PROVE ClaimInv'
    <2>1. \A u \in Threads, i \in Indices : u # t => (Claims(u, i)' <=> Claims(u, i))
      BY <1>2, OtherThreads DEF Claims, Index
    <2>2. CASE UNCHANGED slots /\ \A i \in Indices : Claims(t, i)' <=> Claims(t, i)
      BY <2>1, <2>2 DEF ClaimInv
    <2>3. ASSUME NEW i \in Indices, Claiming(t, i) PROVE ClaimInv'
      <3>1. \A j \in Indices : slots'[j].state = WRITING <=> j = i \/ slots[j].state = WRITING
        BY <2>3, Zenon DEF Claiming, DataOK, Slot
      <3> QED
        BY <2>1, <2>3, <3>1 DEF ClaimInv, Claiming
    <2>4. ASSUME NEW i \in Indices, GivingUp(t, i) PROVE ClaimInv'
      <3>1. \A j \in Indices : Claims(t, j) => j = i
        BY <2>4, Zenon DEF GivingUp, Claims
      <3> QED
        BY <2>1, <2>4, <3>1 DEF ClaimInv, GivingUp
    <2> QED
      BY <1>2, <2>2, <2>3, <2>4, StepsOfSlots, Zenon
  <1> QED
    BY <1>1, <1>2, Zenon DEF Next, Finished

(* A slot in use becomes a tombstone, never free again: a search that has  *)
(* gone by it would still do so.                                           *)
LEMMA NeverFreeAgain ==
  ASSUME DataOK, ProbeInv, [Next]_vars
  PROVE  /\ \A i \in Indices : slots[i].state # FREE => slots'[i].state # FREE
         /\ \A k \in Key, d \in Nat : Passed(k, d) => Passed(k, d)'
         /\ \A k \in Key, i \in Indices : Reached(k, i) => Reached(k, i)'
  <1>1. \A i \in Indices : slots[i].state # FREE => slots'[i].state # FREE
    <2>1. CASE UNCHANGED slots
      BY <2>1, Zenon
    <2>2. ASSUME NEW t, NEW i \in Indices, Claiming(t, i) \/ GivingUp(t, i)
          PROVE  \A j \in Indices : slots[j].state # FREE => slots'[j].state # FREE
      BY <2>2 DEF Claiming, GivingUp, DataOK, Slot, FREE, WRITING
    <2> QED
      BY <2>1, <2>2, StepsOfSlots, Zenon DEF Next, Finished, Freeze, vars
  <1>2. ASSUME NEW k \in Key, NEW d \in Nat, Passed(k, d) PROVE Passed(k, d)'
    <2>1. \A c \in 0 .. d - 1 : At(k, c) \in Indices
      BY SlotsAt
    <2> QED
      BY <1>1, <1>2, <2>1, Zenon DEF Passed, At
  <1>3. ASSUME NEW k \in Key, NEW i \in Indices, Reached(k, i) PROVE Reached(k, i)'
    BY <1>2, <1>3, RangeAssumption DEF Reached, At
  <1> QED
    BY <1>1, <1>2, <1>3, Zenon

(* remember_nvtx_range and take_nvtx_range search from the hash of the     *)
(* range on.                                                               *)
LEMMA ProbesAreKept == DataOK /\ ProbeInv /\ [Next]_vars => ProbeInv'
  <1> SUFFICES ASSUME DataOK, ProbeInv, [Next]_vars PROVE ProbeInv'
    BY Zenon
  <1> DEFINE Good(t) ==
        /\ pc[t] = "idle" => probe[t] = 0 /\ candidate[t] = None
        /\ pc[t] = "probe" => Passed(key[t], probe[t])
        /\ pc[t] \in {"choose", "swap", "fill"} => candidate[t] # None
        /\ pc[t] \in {"probe", "choose", "swap", "fill"} /\ candidate[t] # None => Reached(key[t], candidate[t])
        /\ pc[t] = "swap" => seen[t] \in {FREE, TOMBSTONE}
        /\ pc[t] \in {"grab", "copy", "bury"} => probe[t] < Capacity
  <1>1. ASSUME NEW u \in Threads, UNCHANGED <<pc[u], key[u], probe[u], candidate[u], seen[u]>> PROVE Good(u)'
    <2>1. Passed(key[u], probe[u]) => Passed(key[u], probe[u])'
      BY <1>1, NeverFreeAgain DEF DataOK
    <2>2. candidate[u] # None /\ Reached(key[u], candidate[u]) => Reached(key[u], candidate[u])'
      BY <1>1, NeverFreeAgain, Zenon DEF DataOK
    <2> QED
      BY <1>1, <2>1, <2>2, Zenon DEF ProbeInv
  <1>2. ASSUME NEW t \in Threads, ThreadNext(t) PROVE Good(t)'
    <2>1. CASE ThreadExit(t) \/ \E k \in Key : IgnoreStart(t, k) \/ IgnoreEnd(t, k)
      BY <1>1, <2>1, Zenon DEF ThreadExit, IgnoreStart, IgnoreEnd, threadVars
    <2>2. CASE \E k \in Key : RangeStart(t, k) \/ RangeEnd(t, k)
      <3>1. probe'[t] = 0 /\ candidate'[t] = None /\ pc'[t] \in {"idle", "probe", "find"}
        BY <2>2 DEF DataOK, ProbeInv, RangeStart, RangeEnd, OpenRange, Goto
      <3> QED
        BY <3>1 DEF Passed
    <2>3. CASE Remember(t)
      <3>1. key'[t] = key[t] /\ Passed(key[t], probe[t])
        BY <2>3, Zenon DEF ProbeInv, Remember
      <3>2. UNCHANGED slots
        BY <2>3, Zenon DEF Remember
      <3>3. pc'[t] \in {"probe", "full", "choose", "dropped"} /\ (pc'[t] = "choose" => candidate'[t] # None)
        <4>1. Index(t) \in Indices /\ None \notin Indices
          BY SlotsAt DEF DataOK, Index, At, Indices, None
        <4> QED
          BY <2>3, <4>1, Zenon DEF DataOK, Remember, Goto
      <3>4. pc'[t] = "probe" => Passed(key[t], probe[t])'
        <4>1. pc'[t] = "probe" => probe'[t] = probe[t] + 1 /\ slots[At(key[t], probe[t])].state # FREE
          BY <2>3, Zenon DEF DataOK, Remember, Goto, Index, At
        <4> QED
          BY <3>1, <3>2, <4>1 DEF DataOK, Passed, At
      <3>5. candidate'[t] # candidate[t] => candidate'[t] = At(key[t], probe[t]) /\ probe[t] \in 0 .. Capacity - 1
        BY <2>3, RangeAssumption DEF DataOK, Remember, Index, At
      <3>6. candidate'[t] # None => Reached(key[t], candidate[t])'
        <4>1. CASE candidate'[t] = candidate[t]
          BY <2>3, <3>2, <4>1 DEF ProbeInv, Remember, Reached, Passed, At
        <4>2. CASE candidate'[t] # candidate[t]
          BY <3>1, <3>2, <3>5, <4>2, Zenon DEF Reached, Passed, At
        <4> QED
          BY <4>1, <4>2, Zenon
      <3> QED
        BY <3>1, <3>3, <3>4, <3>6, Zenon
    <2>4. CASE Choose(t) \/ Swap(t) \/ Fill(t)
      <3>1. key'[t] = key[t] /\ candidate'[t] = candidate[t] /\ candidate[t] # None /\ Reached(key[t], candidate[t])
        BY <2>4, Zenon DEF ProbeInv, Choose, Swap, Fill
      <3>2. Reached(key[t], candidate[t])'
        BY <3>1, NeverFreeAgain, Zenon DEF DataOK, ProbeInv
      <3>3. pc'[t] \in {"swap", "dropped", "fill", "emit_start"} /\ (pc'[t] = "swap" => seen'[t] \in {FREE, TOMBSTONE})
        BY <2>4, Zenon DEF DataOK, Choose, Swap, Fill, Goto
      <3> QED
        BY <3>1, <3>2, <3>3, Zenon
    <2>5. CASE Return(t)
      BY <2>5, Zenon DEF DataOK, Return, Goto
    <2>6. CASE Find(t) \/ Grab(t) \/ Copy(t) \/ ClockFails(t)
      BY <2>5, <2>6 DEF DataOK, ProbeInv, Find, Grab, Copy, ClockFails, Goto
    <2> QED
      BY <1>2, <2>1, <2>2, <2>3, <2>4, <2>5, <2>6, Zenon DEF ThreadNext, Dropped, Full, EmitStart, EmitEnd, Bury
  <1>3. \A u \in Threads : Good(u)'
    <2>1. CASE Freeze \/ UNCHANGED vars
      BY <1>1, <2>1, Zenon DEF Freeze, vars, threadVars
    <2>2. ASSUME NEW t \in Threads, ThreadNext(t) PROVE \A u \in Threads : Good(u)'
      BY <1>1, <1>2, <2>2, OtherThreads
    <2> QED
      BY <2>1, <2>2, Zenon DEF Next, Finished
  <1> QED
    BY <1>3, Zenon DEF ProbeInv

-----------------------------------------------------------------------------
(* What is lost is counted.                                                *)

(* A selected start is decided upon when it gets a slot or is counted.     *)
LEMMA StepsOfCounts ==
  ASSUME DataOK, NEW t \in Threads, ThreadNext(t)
  PROVE  \/ (Starting(t)' <=> Starting(t)) /\ UNCHANGED <<attempts, accepted, agent_dropped_records, unknown_records>>
         \/ /\ (Starting(t)' <=> Starting(t)) /\ UNCHANGED <<accepted, agent_dropped_records>>
            /\ attempts' = attempts + 1 /\ unknown_records' = unknown_records + 1
         \/ /\ ~Starting(t) /\ Starting(t)' /\ attempts' = attempts + 1
            /\ UNCHANGED <<accepted, agent_dropped_records, unknown_records>>
         \/ /\ Starting(t) /\ ~Starting(t)' /\ UNCHANGED <<attempts, unknown_records>>
            /\ \/ accepted' = accepted + 1 /\ UNCHANGED agent_dropped_records
               \/ agent_dropped_records' = agent_dropped_records + 1 /\ UNCHANGED accepted
  <1>1. CASE ThreadExit(t) \/ \E k \in Key : IgnoreStart(t, k) \/ IgnoreEnd(t, k)
    BY <1>1, Zenon DEF ThreadExit, IgnoreStart, IgnoreEnd, counterVars, threadVars, historyVars, Starting
  <1>2. CASE \E k \in Key : RangeStart(t, k) \/ RangeEnd(t, k)
    BY <1>2 DEF DataOK, RangeStart, RangeEnd, OpenRange, Goto, counterVars, historyVars, Starting
  <1>3. CASE Remember(t) \/ Choose(t) \/ Swap(t)
    BY <1>3, Zenon DEF DataOK, Remember, Choose, Swap, Goto, counterVars, historyVars, Starting
  <1>4. CASE Fill(t)
    BY <1>4, Zenon DEF DataOK, Fill, Goto, counterVars, Starting
  <1>5. CASE Dropped(t) \/ Full(t)
    BY <1>5, Zenon DEF DataOK, Dropped, Full, Return, Goto, historyVars, Starting
  <1>6. CASE EmitStart(t) \/ EmitEnd(t) \/ Bury(t)
    BY <1>6, Zenon DEF DataOK, EmitStart, EmitEnd, Bury, Return, Goto, counterVars, historyVars, Starting
  <1>7. CASE Find(t) \/ Grab(t) \/ Copy(t) \/ ClockFails(t)
    BY <1>7 DEF DataOK, Find, Grab, Copy, ClockFails, Return, Goto, counterVars, historyVars, Starting
  <1> QED
    BY <1>1, <1>2, <1>3, <1>4, <1>5, <1>6, <1>7, Zenon DEF ThreadNext

(* The counters of nvtx_callback and what is still under way add up. *)
LEMMA CountsAreKept == DataOK /\ CountInv /\ [Next]_vars => CountInv'
  <1> SUFFICES ASSUME DataOK, CountInv, [Next]_vars PROVE CountInv'
    BY Zenon
  <1>1. CASE Freeze \/ UNCHANGED vars
    <2>1. Undecided' = Undecided
      BY <1>1, Zenon DEF Undecided, Starting, Freeze, vars, threadVars
    <2> QED
      BY <1>1, <2>1, Zenon DEF CountInv, Freeze, vars, counterVars, historyVars
  <1>2. ASSUME NEW t \in Threads, ThreadNext(t) PROVE CountInv'
    <2> DEFINE n == Cardinality(Undecided)
    <2>0. n \in Nat /\ attempts = accepted + agent_dropped_records + unknown_records + n
      BY FS_CardinalityType, Zenon DEF CountInv
    <2>1. \A u \in Threads : u # t => (Starting(u)' <=> Starting(u))
      BY <1>2, OtherThreads, Zenon DEF Starting
    <2>2. CASE Starting(t)' <=> Starting(t)
      <3>1. Undecided' = Undecided
        BY <2>1, <2>2, Zenon DEF Undecided
      <3> QED
        BY <1>2, <2>0, <2>2, <3>1, StepsOfCounts DEF CountInv, DataOK
    <2>3. CASE ~Starting(t) /\ Starting(t)'
      <3>1. Undecided' = Undecided \cup {t} /\ t \notin Undecided
        BY <2>1, <2>3, Zenon DEF Undecided
      <3>2. IsFiniteSet(Undecided') /\ Cardinality(Undecided') = n + 1
        BY <3>1, FS_AddElement, Zenon DEF CountInv
      <3> QED
        BY <1>2, <2>0, <2>3, <3>2, StepsOfCounts DEF CountInv, DataOK
    <2>4. CASE Starting(t) /\ ~Starting(t)'
      <3>1. Undecided' = Undecided \ {t} /\ t \in Undecided
        BY <2>1, <2>4, Zenon DEF Undecided
      <3>2. IsFiniteSet(Undecided') /\ Cardinality(Undecided') = n - 1
        BY <3>1, FS_RemoveElement, Zenon DEF CountInv
      <3> QED
        BY <1>2, <2>0, <2>4, <3>2, StepsOfCounts DEF CountInv, DataOK
    <2> QED
      BY <2>2, <2>3, <2>4, Zenon
  <1> QED
    BY <1>1, <1>2, Zenon DEF Next, Finished

-----------------------------------------------------------------------------
(* Where each range stands.                                                *)

(* What is not balanced stays so, and an inactive capture stays inactive. *)
LEMMA SoundBefore ==
  ASSUME DataOK, [Next]_vars
  PROVE  (Sound' => Sound) /\ (Balanced' => Balanced)
  <1>1. CASE Freeze \/ UNCHANGED vars
    BY <1>1 DEF Sound, Balanced, Freeze, vars, counterVars, targetVars
  <1>2. ASSUME NEW t \in Threads, ThreadNext(t) PROVE (Sound' => Sound) /\ (Balanced' => Balanced)
    <2>1. CASE \E k \in Key : IgnoreStart(t, k) \/ RangeStart(t, k) \/ IgnoreEnd(t, k) \/ RangeEnd(t, k)
      BY <2>1 DEF DataOK, Sound, Balanced, IgnoreStart, RangeStart, IgnoreEnd, RangeEnd, OpenRange, counterVars
    <2>2. CASE ThreadExit(t)
      BY <2>2, Zenon DEF ThreadExit, Sound, Balanced
    <2>3. CASE Remember(t) \/ Choose(t) \/ Swap(t) \/ Fill(t) \/ Dropped(t) \/ Full(t) \/ EmitStart(t) \/ EmitEnd(t)
      BY <2>3 DEF Sound, Balanced, Remember, Choose, Swap, Fill, Dropped, Full, EmitStart, EmitEnd, Enqueue,
                  counterVars, targetVars
    <2>4. CASE Find(t) \/ Grab(t) \/ Copy(t) \/ ClockFails(t) \/ Bury(t)
      BY <2>4 DEF Sound, Balanced, Find, Grab, Copy, ClockFails, Bury, counterVars, targetVars
    <2> QED
      BY <1>2, <2>1, <2>2, <2>3, <2>4, Zenon DEF ThreadNext
  <1> QED
    BY <1>1, <1>2, Zenon DEF Next, Finished

(* A step of t that concerns the range k alone. *)
Concerns(t, k) ==
    /\ \A u \in Threads : u # t /\ pc[u] # "idle" => key[u] # k
    /\ pc[t] # "idle" => key[t] = k
    /\ pc'[t] # "idle" => key'[t] = k
    /\ \A l \in Key : l # k =>
          /\ open'[l] = open[l] /\ generation'[l] = generation[l] /\ (Started(l)' <=> Started(l))
          /\ \A i \in Indices : Holds(i, l)' <=> Holds(i, l)
    /\ \A i \in Indices : slots[i].state \notin {FREE, WRITING, TOMBSTONE} /\ slots[i].key # k => slots'[i] = slots[i]

(* A step that concerns one range leaves every other one where it stands.  *)
LEMMA OneRangeAtATime ==
  ASSUME DataOK, ProbeInv, ClaimInv, RangeInv, Sound, NEW t \in Threads, ThreadNext(t), NEW k \in Key, Concerns(t, k),
         HasOneSlot(k)', pc'[t] = "idle" => (Held(k)' <=> open'[k] /\ Started(k)'), Stands(t)'
  PROVE  RangeInv'
  <1>1. OneAtATime'
    <2>1. \A u \in Threads : u # t => pc'[u] = pc[u] /\ key'[u] = key[u]
      BY OtherThreads, Zenon
    <2>2. \A u \in Threads : u # t /\ pc'[u] # "idle" /\ pc'[t] # "idle" => key'[u] # key'[t]
      BY <2>1, Zenon DEF Concerns
    <2>3. OneAtATime
      BY Zenon DEF RangeInv
    <2> QED
      BY <2>1, <2>2, <2>3 DEF OneAtATime
  <1>2. \A l \in Key : l # k => (Held(l)' <=> Held(l))
    BY Zenon DEF Concerns, Held
  <1>3. \A l \in Key : HasOneSlot(l)'
    <2> SUFFICES ASSUME NEW l \in Key, l # k PROVE HasOneSlot(l)'
      BY Zenon
    <2>1. ASSUME NEW i \in Indices, Holds(i, l) PROVE slots'[i] = slots[i]
      <3>1. slots[i].state \notin {FREE, WRITING, TOMBSTONE} /\ slots[i].key # k
        BY <2>1, MarksAreStates, Zenon DEF Holds
      <3> QED
        BY <3>1, Zenon DEF Concerns
    <2>2. \A i \in Indices : Reached(l, i) => Reached(l, i)'
      BY NeverFreeAgain, Zenon DEF Next
    <2> QED
      BY <2>1, <2>2 DEF HasOneSlot, RangeInv, Concerns
  <1>4. \A l \in Key : Rests(l)'
    <2> SUFFICES ASSUME NEW l \in Key, Settled(l)' PROVE Held(l)' <=> open'[l] /\ Started(l)'
      BY Zenon DEF Rests
    <2>1. CASE l = k
      BY <2>1, Zenon DEF Settled, Concerns
    <2>2. CASE l # k
      <3>1. Settled(l)
        BY <2>2, OtherThreads DEF Settled, Concerns
      <3> QED
        BY <1>2, <2>2, <3>1, Zenon DEF RangeInv, Rests, Concerns
    <2> QED
      BY <2>1, <2>2, Zenon
  <1>5. ASSUME NEW u \in Threads, u # t PROVE Stands(u)'
    <2>1. UNCHANGED <<pc[u], key[u], probe[u], taken[u]>>
      BY <1>5, OtherThreads, Zenon
    <2>2. CASE pc[u] = "idle"
      BY <2>1, <2>2, Zenon DEF Stands, Starting, Ending
    <2>3. CASE pc[u] # "idle"
      <3>1. key[u] # k /\ key[u] \in Key
        BY <1>5, <2>3, Zenon DEF Concerns, DataOK
      <3>2. Index(u)' = Index(u) /\ Index(u) \in Indices
        <4>1. Index(u)' = Index(u)
          BY <2>1, Zenon DEF Index
        <4> QED
          BY <4>1, IndexAt, Zenon
      <3>3. pc[u] = "copy" => slots'[Index(u)] = slots[Index(u)]
        <4>1. pc[u] = "copy" => Claims(u, Index(u)) /\ ~Claims(t, Index(u)) /\ slots[Index(u)].state = WRITING
          BY <1>5, <3>2, Zenon DEF Claims, ClaimInv
        <4> QED
          BY <3>2, <4>1, StepsOfSlots, Zenon DEF Claiming, GivingUp, DataOK
      <3>4. open'[key[u]] = open[key[u]] /\ generation'[key[u]] = generation[key[u]]
            /\ (Started(key[u])' <=> Started(key[u])) /\ (Held(key[u])' <=> Held(key[u]))
            /\ \A i \in Indices : Holds(i, key[u])' <=> Holds(i, key[u])
        BY <1>2, <2>1, <3>1, Zenon DEF Concerns
      <3>5. \A c \in 0 .. probe[u] - 1 : At(key[u], c) \in Indices
        BY <3>1, SlotsAt DEF DataOK
      <3> QED
        BY <2>1, <3>2, <3>3, <3>4, <3>5, Zenon DEF RangeInv, Stands, Starting, Ending
    <2> QED
      BY <2>2, <2>3, Zenon
  <1> QED
    BY <1>1, <1>3, <1>4, <1>5, Zenon DEF RangeInv

(* A start of a range that is not open, recorded or not: nothing of the    *)
(* range is left in the table, and no record is of this generation.        *)
LEMMA StartStands ==
  ASSUME FlagsOK, DataOK, ProbeInv, ClaimInv, RangeInv, RecordInv, Sound, NEW t \in Threads, NEW k \in Key,
         IgnoreStart(t, k) \/ RangeStart(t, k)
  PROVE  RangeInv'
  <1>1. /\ pc[t] = "idle" /\ Settled(k) /\ ~open[k]
        /\ open' = [open EXCEPT ![k] = TRUE] /\ generation' = [generation EXCEPT ![k] = @ + 1]
        /\ UNCHANGED <<slots, emitted>>
        /\ pc'[t] = "idle" \/ (pc'[t] = "probe" /\ key'[t] = k)
    BY Zenon DEF DataOK, IgnoreStart, RangeStart, OpenRange, MayStart, Goto, threadVars
  <1>2. open'[k] = TRUE
    BY <1>1, Zenon DEF FlagsOK
  <1>3. ~Held(k)
    BY <1>1, Zenon DEF RangeInv, Rests
  <1>4. ~Held(k)' /\ HasOneSlot(k)'
    BY <1>1, <1>3, Zenon DEF Held, Holds, HasOneSlot
  <1>5. ~Started(k)'
    <2>1. generation[k] \in Nat /\ generation'[k] = generation[k] + 1
      BY <1>1, RangeAssumption DEF DataOK, Generations
    <2>2. Started(k)' => \E e \in emitted : e.key = k /\ e.range = generation'[k]
      BY <1>1 DEF Started, Record
    <2>3. \A e \in emitted : e.key = k => e.range <= generation[k]
      BY Zenon DEF RecordInv
    <2> QED
      BY <2>1, <2>2, <2>3
  <1>6. Concerns(t, k)
    BY <1>1, Zenon DEF FlagsOK, DataOK, Concerns, Settled, Started, Record, Holds
  <1> QED
    <2>1. Stands(t)'
      BY <1>1, <1>2, <1>4, <1>5, Zenon DEF Stands, Starting, Ending
    <2> QED
      BY <1>4, <1>5, <1>6, <2>1, OneRangeAtATime, Zenon DEF ThreadNext

(* An end of an open range: its start is in the table or was not recorded. *)
LEMMA EndStands ==
  ASSUME FlagsOK, DataOK, ProbeInv, ClaimInv, RangeInv, Sound, Sound', NEW t \in Threads, NEW k \in Key, RangeEnd(t, k)
  PROVE  RangeInv'
  <1>1. /\ pc[t] = "idle" /\ Settled(k) /\ open[k]
        /\ open' = [open EXCEPT ![k] = FALSE]
        /\ UNCHANGED <<slots, generation, emitted>>
        /\ pc'[t] = "find" /\ key'[t] = k /\ probe'[t] = 0
    BY Zenon DEF DataOK, ProbeInv, Sound, Balanced, RangeEnd, MayEndOpen, Goto, historyVars
  <1>2. open'[k] = FALSE
    BY <1>1, Zenon DEF FlagsOK
  <1>3. Held(k) <=> Started(k)
    BY <1>1, Zenon DEF RangeInv, Rests
  <1>4. (Held(k)' <=> Started(k)')
    BY <1>1, <1>3, Zenon DEF Held, Holds, Started, Record
  <1>5. HasOneSlot(k)'
    BY <1>1 DEF RangeInv, HasOneSlot, Holds, Reached, Passed
  <1>6. Concerns(t, k)
    BY <1>1, Zenon DEF FlagsOK, Concerns, Settled, Started, Record, Holds
  <1>7. Stands(t)'
    BY <1>1, <1>2, <1>4 DEF Stands, Starting, Ending
  <1> QED
    BY <1>1, <1>5, <1>6, <1>7, OneRangeAtATime, Zenon DEF ThreadNext

(* The steps of a callback leave all other ranges alone, if what they      *)
(* write was not in use by these.                                          *)
LEMMA OwnRange ==
  ASSUME DataOK, RangeInv, Sound, NEW t \in Threads, pc[t] # "idle", pc'[t] # "idle" => key'[t] = key[t],
         UNCHANGED <<open, generation>>,
         \A l \in Key : l # key[t] => (Started(l)' <=> Started(l)) /\ \A i \in Indices : Holds(i, l)' <=> Holds(i, l),
         \A i \in Indices :
            slots[i].state \notin {FREE, WRITING, TOMBSTONE} /\ slots[i].key # key[t] => slots'[i] = slots[i]
  PROVE  Concerns(t, key[t])
  BY Zenon DEF RangeInv, OneAtATime, Concerns

(* remember_nvtx_range, until it has claimed a slot or given up: the range *)
(* is not in the table.                                                    *)
LEMMA SearchStands ==
  ASSUME DataOK, ProbeInv, ClaimInv, RangeInv, Sound, NEW t \in Threads,
         Remember(t) \/ Choose(t) \/ Swap(t) \/ Dropped(t)
  PROVE  RangeInv'
  <1>0. PICK k \in Key : k = key[t]
    BY Zenon DEF DataOK
  <1>1. /\ Starting(t) /\ pc[t] # "idle"
        /\ (Starting(t)' /\ key'[t] = k) \/ pc'[t] = "idle"
        /\ UNCHANGED <<open, generation, emitted>>
    BY <1>0, Zenon DEF DataOK, Starting, Remember, Choose, Swap, Dropped, Return, Goto, targetVars, historyVars
  <1>2. \A i \in Indices : UNCHANGED slots[i] \/ (slots[i].state \in {FREE, TOMBSTONE} /\ slots'[i].state = WRITING)
    BY DEF DataOK, Slot, ProbeInv, Remember, Choose, Swap, Dropped
  <1>3. \A l \in Key, i \in Indices : Holds(i, l)' <=> Holds(i, l)
    BY <1>2, MarksAreStates, Zenon DEF Holds
  <1>4. \A l \in Key : Started(l)' <=> Started(l)
    BY <1>1, Zenon DEF Started, Record
  <1>5. Concerns(t, k)
    BY <1>0, <1>1, <1>2, <1>3, <1>4, OwnRange, Zenon
  <1>6. open[k] /\ ~Held(k) /\ ~Started(k)
    BY <1>0, <1>1, Zenon DEF RangeInv, Stands
  <1>7. ~Held(k)' /\ HasOneSlot(k)' /\ ~Started(k)'
    BY <1>1, <1>3, <1>4, <1>6, Zenon DEF Held, HasOneSlot
  <1>8. Stands(t)'
    BY <1>0, <1>1, <1>6, <1>7, Zenon DEF Stands, Starting, Ending
  <1> QED
    BY <1>1, <1>5, <1>7, <1>8, OneRangeAtATime, Zenon DEF ThreadNext

(* A start that has claimed a slot fills it: the range now has this slot,  *)
(* where its end will find it.                                             *)
LEMMA FillStands ==
  ASSUME DataOK, ProbeInv, ClaimInv, RangeInv, Sound, NEW t \in Threads, Fill(t)
  PROVE  RangeInv'
  <1>1. PICK k \in Key : k = key[t]
    BY Zenon DEF DataOK
  <1>2. PICK c \in Indices : c = candidate[t]
    BY Zenon DEF DataOK, ProbeInv, Fill
  <1>3. /\ pc[t] = "fill" /\ pc'[t] = "emit_start" /\ key'[t] = k
        /\ UNCHANGED <<open, generation, emitted>>
        /\ slots' = [slots EXCEPT ![c] = [state |-> Hash[k], key |-> k, generation |-> generation[k]]]
    BY <1>1, <1>2, Zenon DEF DataOK, Fill, Goto, targetVars
  <1>4. slots[c].state = WRITING
    BY <1>2, <1>3, Zenon DEF ClaimInv, Claims
  <1>5. /\ slots'[c].state = Hash[k] /\ slots'[c].key = k /\ slots'[c].generation = generation[k]
        /\ \A i \in Indices : i # c => slots'[i] = slots[i]
    BY <1>3, Zenon DEF DataOK
  <1>6. \A l \in Key, i \in Indices : Holds(i, l)' <=> Holds(i, l) \/ (i = c /\ l = k)
    BY <1>4, <1>5, MarksAreStates, Zenon DEF Holds
  <1>7. \A l \in Key : Started(l)' <=> Started(l)
    BY <1>3, Zenon DEF Started, Record
  <1>8. open[k] /\ ~Held(k) /\ ~Started(k)
    BY <1>1, <1>3, Zenon DEF RangeInv, Stands, Starting
  <1>9. Held(k)' /\ ~Started(k)'
    BY <1>6, <1>7, <1>8, Zenon DEF Held
  <1>10. HasOneSlot(k)'
    <2>1. Reached(k, c)
      BY <1>1, <1>2, <1>3, Zenon DEF ProbeInv
    <2>2. Reached(k, c)'
      BY <2>1, NeverFreeAgain, Zenon DEF Next, ThreadNext
    <2>3. \A i \in Indices : Holds(i, k)' => i = c
      BY <1>6, <1>8, Zenon DEF Held
    <2> QED
      BY <1>3, <1>5, <2>2, <2>3, Zenon DEF HasOneSlot
  <1>11. Concerns(t, k)
    BY <1>1, <1>3, <1>4, <1>5, <1>6, <1>7, OwnRange, Zenon
  <1>12. Stands(t)'
    BY <1>3, <1>8, <1>9, Zenon DEF Stands, Starting, Ending
  <1> QED
    BY <1>3, <1>10, <1>11, <1>12, OneRangeAtATime, Zenon DEF ThreadNext

(* The record of a start makes the range one that is open and recorded. *)
LEMMA EmitStartStands ==
  ASSUME DataOK, ProbeInv, ClaimInv, RangeInv, Sound, Sound', NEW t \in Threads, EmitStart(t)
  PROVE  RangeInv'
  <1>1. PICK k \in Key : k = key[t]
    BY Zenon DEF DataOK
  <1>2. /\ pc[t] = "emit_start" /\ pc'[t] = "idle"
        /\ UNCHANGED <<open, generation, slots>>
        /\ emitted' = emitted \cup {Record("start", k, generation[k])}
    BY <1>1, Zenon DEF DataOK, Sound, EmitStart, Enqueue, Return, Goto, targetVars
  <1>3. \A l \in Key, i \in Indices : Holds(i, l)' <=> Holds(i, l)
    BY <1>2, Zenon DEF Holds
  <1>4. \A l \in Key : l # k => (Started(l)' <=> Started(l))
    BY <1>2, Zenon DEF Started, Record
  <1>5. Started(k)'
    BY <1>2, Zenon DEF Started, Record
  <1>6. open[k] /\ Held(k)
    BY <1>1, <1>2, Zenon DEF RangeInv, Stands
  <1>7. Held(k)' /\ HasOneSlot(k)'
    <2>1. HasOneSlot(k)
      BY Zenon DEF RangeInv
    <2>2. \A i \in Indices : Reached(k, i) => Reached(k, i)'
      BY <1>2, Zenon DEF Reached, Passed
    <2> QED
      BY <1>2, <1>3, <1>6, <2>1, <2>2, Zenon DEF Held, HasOneSlot
  <1>8. Concerns(t, k)
    BY <1>1, <1>2, <1>3, <1>4, OwnRange, Zenon
  <1>9. Stands(t)'
    BY <1>2, Zenon DEF Stands, Starting, Ending
  <1> QED
    BY <1>2, <1>5, <1>6, <1>7, <1>8, <1>9, OneRangeAtATime, Zenon DEF ThreadNext

(* take_nvtx_range finds the slot of a range that has one: the slots that  *)
(* the start had passed by are in use still, so the search does not end    *)
(* before it.                                                              *)
LEMMA FindStands ==
  ASSUME DataOK, ProbeInv, ClaimInv, RangeInv, Sound, NEW t \in Threads, Find(t)
  PROVE  RangeInv'
  <1>1. PICK k \in Key : k = key[t]
    BY Zenon DEF DataOK
  <1>2. pc[t] = "find" /\ UNCHANGED <<open, generation, emitted, slots>> /\ probe[t] \in Nat
    BY DEF DataOK, Find, targetVars, historyVars
  <1>3. Index(t) = At(k, probe[t]) /\ Index(t) \in Indices
    BY <1>1, <1>2, SlotsAt, Zenon DEF Index, At
  <1>4. \A l \in Key : /\ Started(l)' <=> Started(l)
                       /\ Held(l)' <=> Held(l)
                       /\ \A i \in Indices : Holds(i, l)' <=> Holds(i, l)
    BY <1>2, Zenon DEF Holds, Held, Started, Record
  <1>5. ~open[k] /\ (Held(k) <=> Started(k)) /\ \A c \in 0 .. probe[t] - 1 : ~Holds(At(k, c), k)
    BY <1>1, <1>2, Zenon DEF RangeInv, Stands, Ending
  <1>6. HasOneSlot(k) /\ HasOneSlot(k)'
    <2>1. HasOneSlot(k)
      BY Zenon DEF RangeInv
    <2>2. \A i \in Indices : Reached(k, i) => Reached(k, i)'
      BY <1>2, Zenon DEF Reached, Passed
    <2> QED
      BY <1>2, <1>4, <2>1, <2>2, Zenon DEF HasOneSlot
  <1>7. CASE (probe[t] = Capacity \/ slots[Index(t)].state = FREE) /\ Return(t)
    <2>1. pc'[t] = "idle"
      BY <1>7, Zenon DEF DataOK, Return, Goto
    <2>2. ~Held(k)
      <3> SUFFICES ASSUME NEW i \in Indices, Holds(i, k) PROVE FALSE
        BY Zenon DEF Held
      <3>0. Reached(k, i)
        BY <1>6, Zenon DEF HasOneSlot
      <3>1. PICK d \in 0 .. Capacity - 1 : i = At(k, d) /\ Passed(k, d)
        BY <3>0, Zenon DEF Reached
      <3>2. d >= probe[t]
        BY <1>2, <1>5, <3>1
      <3>3. slots[At(k, probe[t])].state = FREE
        <4>1. probe[t] # Capacity
          BY <1>2, <3>1, <3>2, RangeAssumption
        <4> QED
          BY <1>3, <1>7, <4>1, Zenon
      <3>4. d = probe[t]
        BY <1>2, <3>1, <3>2, <3>3 DEF Passed
      <3> QED
        BY <3>1, <3>3, <3>4, MarksAreStates, Zenon DEF Holds
    <2>3. Concerns(t, k)
      BY <1>1, <1>2, <1>4, <2>1, OwnRange, Zenon
    <2>4. Stands(t)'
      BY <2>1, Zenon DEF Stands, Starting, Ending
    <2> QED
      BY <1>2, <1>4, <1>5, <1>6, <2>1, <2>2, <2>3, <2>4, OneRangeAtATime, Zenon DEF ThreadNext
  <1>8. CASE Holds(Index(t), k) /\ Goto(t, "grab") /\ UNCHANGED <<key, probe>>
    <2>1. pc'[t] = "grab" /\ key'[t] = k /\ Index(t)' = Index(t)
      BY <1>1, <1>8, Zenon DEF DataOK, Goto, Index
    <2>2. Concerns(t, k)
      BY <1>1, <1>2, <1>4, <2>1, OwnRange, Zenon
    <2>3. Holds(Index(t), k)'
      BY <1>2, <1>8, <2>1, Zenon DEF Holds
    <2>4. Stands(t)'
      BY <1>2, <1>4, <1>5, <2>1, <2>3, Zenon DEF Stands, Starting, Ending
    <2> QED
      BY <1>2, <1>6, <2>1, <2>2, <2>4, OneRangeAtATime, Zenon DEF ThreadNext
  <1>9. CASE ~Holds(Index(t), k) /\ probe' = [probe EXCEPT ![t] = @ + 1] /\ UNCHANGED <<pc, key>>
    <2>1. pc'[t] = "find" /\ key'[t] = k /\ probe'[t] = probe[t] + 1
      BY <1>1, <1>2, <1>9, Zenon DEF DataOK
    <2>2. Concerns(t, k)
      BY <1>1, <1>2, <1>4, <2>1, OwnRange, Zenon
    <2>3. \A c \in 0 .. probe[t] : ~Holds(At(k, c), k)
      BY <1>2, <1>3, <1>5, <1>9
    <2>4. \A c \in 0 .. probe[t] : ~Holds(At(k, c), k)'
      BY <1>2, <2>3, Zenon DEF Holds, At
    <2>5. Stands(t)'
      <3>1. ~open'[k] /\ (Held(k)' <=> Started(k)')
        BY <1>2, <1>4, <1>5, Zenon
      <3>2. \A c \in 0 .. (probe'[t] - 1) : ~Holds(At(k, c), k)'
        BY <1>2, <2>1, <2>4
      <3> QED
        BY <2>1, <3>1, <3>2, Zenon DEF Stands, Starting, Ending
    <2> QED
      BY <1>2, <1>6, <2>1, <2>2, <2>5, OneRangeAtATime, Zenon DEF ThreadNext
  <1> QED
    BY <1>1, <1>7, <1>8, <1>9, Zenon DEF Find

(* An end claims the slot that it has found: no other callback could have  *)
(* taken it, or put another range with the same hash into it.              *)
LEMMA GrabStands ==
  ASSUME DataOK, ProbeInv, ClaimInv, RangeInv, Sound, NEW t \in Threads, Grab(t)
  PROVE  RangeInv'
  <1>1. PICK k \in Key : k = key[t]
    BY Zenon DEF DataOK
  <1>2. PICK x \in Indices : x = Index(t)
    BY SlotsAt DEF DataOK, Index, At
  <1>3. pc[t] = "grab" /\ Holds(x, k) /\ ~open[k] /\ Held(k) /\ Started(k)
    BY <1>1, <1>2, Zenon DEF Grab, RangeInv, Stands, Ending, Held
  <1>4. /\ pc'[t] = "copy" /\ key'[t] = k /\ Index(t)' = x
        /\ UNCHANGED <<open, generation, emitted>>
        /\ slots' = [slots EXCEPT ![x].state = WRITING]
    BY <1>1, <1>2, <1>3, Zenon DEF DataOK, Grab, Holds, Goto, Index, targetVars, historyVars
  <1>5. /\ slots'[x].state = WRITING /\ slots'[x].key = slots[x].key /\ slots'[x].generation = slots[x].generation
        /\ \A i \in Indices : i # x => slots'[i] = slots[i]
    BY <1>4, Zenon DEF DataOK, Slot
  <1>6. slots[x].key = k /\ slots[x].generation = generation[k] /\ \A i \in Indices : Holds(i, k) => i = x
    BY <1>3, Zenon DEF RangeInv, HasOneSlot, Holds
  <1>7. \A l \in Key, i \in Indices : Holds(i, l)' <=> Holds(i, l) /\ l # k
    BY <1>3, <1>5, <1>6, MarksAreStates, Zenon DEF Holds
  <1>8. \A l \in Key : Started(l)' <=> Started(l)
    BY <1>4, Zenon DEF Started, Record
  <1>9. ~Held(k)' /\ HasOneSlot(k)'
    BY <1>7, Zenon DEF Held, HasOneSlot
  <1>10. Concerns(t, k)
    BY <1>1, <1>3, <1>4, <1>5, <1>6, <1>7, <1>8, OwnRange, Zenon
  <1>11. Stands(t)'
    BY <1>3, <1>4, <1>5, <1>6, <1>8, <1>9, Zenon DEF Stands, Starting, Ending
  <1> QED
    BY <1>4, <1>9, <1>10, <1>11, OneRangeAtATime, Zenon DEF ThreadNext

(* It copies the name before it gives the slot up. *)
LEMMA CopyStands ==
  ASSUME DataOK, ProbeInv, ClaimInv, RangeInv, Sound, NEW t \in Threads, Copy(t)
  PROVE  RangeInv'
  <1>1. PICK k \in Key : k = key[t]
    BY Zenon DEF DataOK
  <1>2. PICK x \in Indices : x = Index(t)
    BY SlotsAt DEF DataOK, Index, At
  <1>3. /\ pc[t] = "copy" /\ pc'[t] = "emit_end" /\ key'[t] = k
        /\ UNCHANGED <<open, generation, emitted>>
        /\ taken'[t] = slots[x].generation
        /\ slots' = [slots EXCEPT ![x].state = TOMBSTONE]
    BY <1>1, <1>2, Zenon DEF DataOK, Copy, Goto, targetVars, historyVars
  <1>4. ~open[k] /\ ~Held(k) /\ Started(k) /\ slots[x].generation = generation[k]
    BY <1>1, <1>2, <1>3, Zenon DEF RangeInv, Stands, Ending
  <1>5. slots[x].state = WRITING
    BY <1>2, <1>3, Zenon DEF ClaimInv, Claims
  <1>6. slots'[x].state = TOMBSTONE /\ \A i \in Indices : i # x => slots'[i] = slots[i]
    BY <1>3, Zenon DEF DataOK, Slot
  <1>7. \A l \in Key, i \in Indices : Holds(i, l)' <=> Holds(i, l)
    BY <1>5, <1>6, MarksAreStates, Zenon DEF Holds
  <1>8. \A l \in Key : Started(l)' <=> Started(l)
    BY <1>3, Zenon DEF Started, Record
  <1>9. ~Held(k)' /\ HasOneSlot(k)'
    BY <1>4, <1>7, Zenon DEF Held, HasOneSlot
  <1>10. Concerns(t, k)
    BY <1>1, <1>3, <1>5, <1>6, <1>7, <1>8, OwnRange, Zenon
  <1>11. Stands(t)'
    BY <1>3, <1>4, <1>8, <1>9, Zenon DEF Stands, Starting, Ending
  <1> QED
    BY <1>3, <1>9, <1>10, <1>11, OneRangeAtATime, Zenon DEF ThreadNext

(* The record of an end; nothing of the range is left in the table. *)
LEMMA EmitEndStands ==
  ASSUME DataOK, ProbeInv, ClaimInv, RangeInv, Sound, NEW t \in Threads, EmitEnd(t)
  PROVE  RangeInv'
  <1>1. PICK k \in Key : k = key[t]
    BY Zenon DEF DataOK
  <1>2. /\ pc[t] = "emit_end" /\ pc'[t] = "idle"
        /\ UNCHANGED <<open, generation, slots>>
        /\ emitted' = emitted \/ emitted' = emitted \cup {Record("end", k, taken[t])}
    BY <1>1, Zenon DEF DataOK, EmitEnd, Enqueue, Return, Goto, targetVars
  <1>3. \A l \in Key, i \in Indices : Holds(i, l)' <=> Holds(i, l)
    BY <1>2, Zenon DEF Holds
  <1>4. \A l \in Key : Started(l)' <=> Started(l)
    BY <1>2, Zenon DEF Started, Record
  <1>5. ~open[k] /\ ~Held(k)
    BY <1>1, <1>2, Zenon DEF RangeInv, Stands, Ending
  <1>6. ~Held(k)' /\ HasOneSlot(k)'
    BY <1>3, <1>5, Zenon DEF Held, HasOneSlot
  <1>7. Concerns(t, k)
    BY <1>1, <1>2, <1>3, <1>4, OwnRange, Zenon
  <1>8. Stands(t)'
    BY <1>2, Zenon DEF Stands, Starting, Ending
  <1> QED
    BY <1>2, <1>5, <1>6, <1>7, <1>8, OneRangeAtATime, Zenon DEF ThreadNext

(* Every step keeps every range where it should be. *)
LEMMA RangesAreKept ==
  FlagsOK /\ DataOK /\ ProbeInv /\ ClaimInv /\ RangeInv /\ RecordInv /\ [Next]_vars => RangeInv'
  <1> SUFFICES ASSUME FlagsOK, DataOK, ProbeInv, ClaimInv, RangeInv, RecordInv, [Next]_vars, Sound' PROVE RangeInv'
    BY Zenon DEF RangeInv
  <1>0. Sound
    BY SoundBefore, Zenon
  <1>1. CASE UNCHANGED vars
    <2>1. UNCHANGED <<active, slots, unknown_records, pc, key, probe, taken, open, generation, careless, emitted>>
      BY <1>1, Zenon DEF vars, counterVars, threadVars, targetVars, historyVars
    <2>2. \A k \in Key : HasOneSlot(k) => HasOneSlot(k)'
      BY <2>1, Zenon DEF HasOneSlot, Holds, Reached, Passed
    <2>3. \A k \in Key : Rests(k) => Rests(k)'
      BY <2>1, Zenon DEF Rests, Settled, Held, Holds, Started, Record
    <2>4. ASSUME NEW t \in Threads, Stands(t) PROVE Stands(t)'
      <3>1. (Held(key[t])' <=> Held(key[t])) /\ (Started(key[t])' <=> Started(key[t])) /\ Index(t)' = Index(t)
        BY <2>1, Zenon DEF Held, Holds, Started, Record, Index
      <3>2. \A i : Holds(i, key[t])' <=> Holds(i, key[t])
        BY <2>1, Zenon DEF Holds
      <3> QED
        BY <2>1, <2>4, <3>1, <3>2, Zenon DEF Stands, Starting, Ending
    <2> QED
      BY <1>0, <2>1, <2>2, <2>3, <2>4, Zenon DEF RangeInv, OneAtATime
  <1>2. ASSUME NEW t \in Threads, ThreadNext(t) PROVE RangeInv'
    <2>1. ~Full(t) /\ ~ClockFails(t) /\ ~ThreadExit(t)
      BY Zenon DEF Sound, Balanced, Full, ClockFails, ThreadExit
    <2>3. ~Bury(t)
      BY <1>0, Zenon DEF Bury, RangeInv, Stands
    <2>2. unknown_records \in Nat /\ unknown_records' = 0
      BY Zenon DEF DataOK, Sound, Balanced
    <2>4. \A k \in Key : ~IgnoreEnd(t, k)
      BY <2>2 DEF IgnoreEnd
    <2> QED
      BY <1>0, <1>2, <2>1, <2>3, <2>4, StartStands, EndStands, SearchStands, FillStands, EmitStartStands, FindStands,
         GrabStands, CopyStands, EmitEndStands, Zenon DEF ThreadNext
  <1> QED
    BY <1>1, <1>2, Zenon DEF Next, Finished, Freeze, Sound

-----------------------------------------------------------------------------
(* The records.                                                            *)

(* Only calls of the target open and close ranges, only the end of a       *)
(* callback records, and an inactive capture stays inactive.               *)
LEMMA StepsOfTarget ==
  ASSUME [Next]_vars
  PROVE  /\ active' \in {active, FALSE}
         /\ \/ UNCHANGED targetVars
            \/ \E t \in Threads : ThreadExit(t)
            \/ \E t \in Threads, k \in Key :
                  IgnoreStart(t, k) \/ RangeStart(t, k) \/ IgnoreEnd(t, k) \/ RangeEnd(t, k)
         /\ UNCHANGED emitted \/ \E t \in Threads : EmitStart(t) \/ EmitEnd(t)
  <1>1. CASE Freeze \/ UNCHANGED vars
    BY <1>1, Zenon DEF Freeze, vars, historyVars
  <1>2. ASSUME NEW t \in Threads, ThreadExit(t) PROVE UNCHANGED <<active, emitted>>
    BY <1>2, Zenon DEF ThreadExit, historyVars
  <1>3. ASSUME NEW t \in Threads, NEW k \in Key,
               IgnoreStart(t, k) \/ RangeStart(t, k) \/ IgnoreEnd(t, k) \/ RangeEnd(t, k)
        PROVE  active' \in {active, FALSE} /\ UNCHANGED emitted
    BY <1>3, Zenon DEF IgnoreStart, RangeStart, IgnoreEnd, RangeEnd, OpenRange, historyVars
  <1>4. ASSUME NEW t \in Threads, Remember(t) \/ Choose(t) \/ Swap(t) \/ Fill(t)
        PROVE  UNCHANGED <<active, targetVars, emitted>>
    BY <1>4, Zenon DEF Remember, Choose, Swap, Fill, historyVars
  <1>5. ASSUME NEW t \in Threads, Dropped(t) \/ Full(t) \/ Find(t) \/ Grab(t)
        PROVE  active' \in {active, FALSE} /\ UNCHANGED <<targetVars, emitted>>
    BY <1>5, Zenon DEF Dropped, Full, Find, Grab, historyVars
  <1>6. ASSUME NEW t \in Threads, Copy(t) \/ ClockFails(t) \/ Bury(t)
        PROVE  active' \in {active, FALSE} /\ UNCHANGED <<targetVars, emitted>>
    BY <1>6, Zenon DEF Copy, ClockFails, Bury, historyVars
  <1>7. ASSUME NEW t \in Threads, EmitStart(t) \/ EmitEnd(t)
        PROVE  active' \in {active, FALSE} /\ UNCHANGED targetVars
    BY <1>7, Zenon DEF EmitStart, EmitEnd, Enqueue
  <1>8. ASSUME NEW t \in Threads, ThreadNext(t)
        PROVE  /\ active' \in {active, FALSE}
               /\ \/ UNCHANGED targetVars
                  \/ ThreadExit(t)
                  \/ \E k \in Key : IgnoreStart(t, k) \/ RangeStart(t, k) \/ IgnoreEnd(t, k) \/ RangeEnd(t, k)
               /\ UNCHANGED emitted \/ EmitStart(t) \/ EmitEnd(t)
    BY <1>2, <1>3, <1>4, <1>5, <1>6, <1>7, <1>8, Zenon DEF ThreadNext
  <1> QED
    BY <1>1, <1>8, Zenon DEF Next, Finished

(* Every step keeps the flags Boolean. *)
LEMMA FlagsAreKept == FlagsOK /\ [Next]_vars => FlagsOK'
  <1> SUFFICES ASSUME FlagsOK, [Next]_vars PROVE FlagsOK'
    BY Zenon
  <1>1. active' \in {active, FALSE}
    BY StepsOfTarget, Zenon
  <1>2. careless' \in {careless, TRUE}
    BY StepsOfTarget, Zenon DEF ThreadExit, IgnoreStart, RangeStart, IgnoreEnd, RangeEnd, OpenRange, targetVars
  <1>3. \/ UNCHANGED open
        \/ \E k \in Key : open' = [open EXCEPT ![k] = TRUE] \/ open' = [open EXCEPT ![k] = FALSE]
        \/ \E t \in Threads : open' = [k \in Key |-> open[k] /\ Owner[k] # t]
    <2>1. CASE \E t \in Threads : ThreadExit(t)
      BY <2>1, Zenon DEF ThreadExit
    <2>2. CASE \E t \in Threads, k \in Key :
                 IgnoreStart(t, k) \/ RangeStart(t, k) \/ IgnoreEnd(t, k) \/ RangeEnd(t, k)
      BY <2>2 DEF IgnoreStart, RangeStart, IgnoreEnd, RangeEnd, OpenRange
    <2> QED
      BY <2>1, <2>2, StepsOfTarget, Zenon DEF targetVars
  <1>4. open' \in [Key -> BOOLEAN]
    BY <1>3, Zenon DEF FlagsOK
  <1> QED
    BY <1>1, <1>2, <1>4, Zenon DEF FlagsOK

(* A record is of a range that was started or ended at the time, and an    *)
(* end names the range that the table had for it, whose start is recorded. *)
LEMMA RecordsAreKept == DataOK /\ RangeInv /\ RecordInv /\ [Next]_vars => RecordInv'
  <1> SUFFICES ASSUME DataOK, RangeInv, RecordInv, [Next]_vars PROVE RecordInv'
    BY Zenon
  <1>1. \A k \in Key : generation[k] \in Nat /\ generation'[k] \in Nat /\ generation[k] <= generation'[k]
    <2>1. UNCHANGED generation \/ \E t \in Threads, k \in Key : OpenRange(t, k)
      BY StepsOfTarget, Zenon DEF ThreadExit, IgnoreStart, RangeStart, IgnoreEnd, RangeEnd, targetVars
    <2> QED
      BY <2>1 DEF DataOK, OpenRange, Generations
  <1>2. CASE UNCHANGED emitted
    <2>1. Balanced' => Paired'
      BY <1>2, SoundBefore, Zenon DEF RecordInv, Paired
    <2>2. \A e \in emitted' : e.range <= generation'[e.key]
      <3>1. \A e \in emitted : e.key \in Key /\ e.range \in Nat
        BY RangeAssumption DEF DataOK, Generations
      <3> QED
        BY <1>1, <1>2, <3>1 DEF RecordInv
    <2> QED
      BY <2>1, <2>2, Zenon DEF RecordInv
  <1>3. ASSUME NEW t \in Threads, EmitStart(t) \/ EmitEnd(t), ~UNCHANGED emitted PROVE RecordInv'
    <2>1. PICK k \in Key : k = key[t]
      BY Zenon DEF DataOK
    <2>2. PICK b \in {"start", "end"}, g \in Generations :
             /\ active /\ emitted' = emitted \cup {Record(b, k, g)} /\ UNCHANGED <<generation, unknown_records, careless>>
             /\ b = "start" => g = generation[k]
             /\ b = "end" => pc[t] = "emit_end" /\ g = taken[t]
      BY <1>3, <2>1, Zenon DEF DataOK, EmitStart, EmitEnd, Enqueue, counterVars, targetVars
    <2>3. Balanced => g = generation[k] /\ (b = "end" => Started(k))
      BY <2>1, <2>2, Zenon DEF RangeInv, Sound, Stands
    <2>4. Record(b, k, g).range = generation[k] /\ Record(b, k, g).key = k
          /\ Record(b, k, g).names = g /\ Record(b, k, g).boundary = b
      BY Zenon DEF Record
    <2>5. Balanced => ([Record(b, k, g) EXCEPT !.boundary = "start"] = Record("start", k, generation[k]))
      BY <2>3 DEF Record
    <2>6. Balanced' => Paired'
      <3> SUFFICES ASSUME Balanced PROVE Paired'
        BY <2>2, Zenon DEF Balanced
      <3>1. Paired
        BY Zenon DEF RecordInv
      <3> QED
        BY <2>2, <2>3, <2>4, <2>5, <3>1, Zenon DEF Paired, Started
    <2>7. \A e \in emitted' : e.range <= generation'[e.key]
      BY <2>2, <2>4 DEF DataOK, RecordInv, Generations
    <2> QED
      BY <2>6, <2>7, Zenon DEF RecordInv
  <1> QED
    BY <1>2, <1>3, StepsOfTarget, Zenon

-----------------------------------------------------------------------------
(* The theorems.                                                           *)

TableInv == FlagsOK /\ DataOK /\ ClaimInv /\ ProbeInv /\ RangeInv /\ RecordInv /\ CountInv

(* An empty table, whichever ranges the target has open already. *)
LEMMA TableStarts == Init => TableInv
  <1> SUFFICES ASSUME Init PROVE TableInv
    BY Zenon
  <1>1. FlagsOK
    BY Zenon DEF Init, FlagsOK
  <1>2. DataOK
    <2>1. [state |-> FREE, key |-> AnyKey, generation |-> 0] \in Slot
      BY AnyKeyIsKey, MarksAreStates, RangeAssumption DEF Slot, Generations
    <2> QED
      BY <2>1, AnyKeyIsKey, MarksAreStates, RangeAssumption DEF Init, DataOK, Generations, Steps
  <1>3. \A i \in Indices : slots[i].state = FREE
    BY Zenon DEF Init
  <1>4. ClaimInv
    BY <1>3 DEF Init, ClaimInv, Claims, FREE, WRITING
  <1>5. ProbeInv
    BY Zenon DEF Init, ProbeInv
  <1>6. RangeInv
    <2>1. \A k \in Key, i \in Indices : ~Holds(i, k)
      BY <1>3, MarksAreStates, Zenon DEF Holds
    <2> QED
      BY <2>1, Zenon DEF Init, RangeInv, OneAtATime, HasOneSlot, Rests, Held, Started, Stands, Starting, Ending
  <1>7. RecordInv
    BY Zenon DEF Init, RecordInv, Paired
  <1>8. CountInv
    <2>1. Undecided = {}
      BY Zenon DEF Init, Undecided, Starting
    <2> QED
      BY <2>1, FS_EmptySet DEF Init, CountInv
  <1> QED
    BY <1>1, <1>2, <1>4, <1>5, <1>6, <1>7, <1>8, Zenon DEF TableInv

(* The callbacks of nvtx_callback, in any interleaving, with or without    *)
(* lost races, full tables, malformed calls and threads that exit inside   *)
(* their ranges.                                                           *)
THEOREM TableIsSafe == Spec => []TableInv
  <1>1. TableInv /\ [Next]_vars => TableInv'
    BY FlagsAreKept, DataIsKept, ClaimsAreKept, ProbesAreKept, RangesAreKept, RecordsAreKept, CountsAreKept, Zenon DEF TableInv
  <1> QED
    BY <1>1, TableStarts, PTL DEF Spec

(* Type correctness of the range table: no search of remember_nvtx_range   *)
(* or take_nvtx_range leaves the table, whatever the callbacks race on.    *)
THEOREM TableHasItsTypes == Spec => []TypeOK
  <1>1. TableInv => TypeOK
    BY TypeOKIs, Zenon DEF TableInv
  <1> QED
    BY <1>1, TableIsSafe, PTL

(* Every recorded end names its own range, whose start is recorded too, as *)
(* long as the target balances its ranges and makes no malformed call:     *)
(* what correlate_nvtx_lifecycle pairs up are ranges of the target.        *)
THEOREM EndsHaveTheirStarts == Spec => []EndsArePaired
  <1>1. TableInv => EndsArePaired
    BY Zenon DEF TableInv, RecordInv, Balanced, EndsArePaired
  <1> QED
    BY <1>1, TableIsSafe, PTL

(* Between callbacks the table of an active capture has a slot for each    *)
(* range that is recorded and open, and nothing else: take_nvtx_range      *)
(* misses no slot behind tombstones, and leaves none behind.               *)
THEOREM TableIsExact == Spec => []TableHoldsOpenRanges
  <1>1. TableInv => TableHoldsOpenRanges
    <2> SUFFICES ASSUME TableInv, active, Quiet, unknown_records = 0, ~careless PROVE TableHoldsOpenRanges
      BY Zenon DEF TableHoldsOpenRanges
    <2>1. \A i \in Indices : slots[i].state # WRITING
      BY Zenon DEF TableInv, ClaimInv, Claims, Quiet
    <2>2. ASSUME NEW k \in Key
          PROVE  Cardinality({i \in Indices : Holds(i, k)}) =
                   IF open[k] /\ Record("start", k, generation[k]) \in emitted THEN 1 ELSE 0
      <3> DEFINE held == {i \in Indices : Holds(i, k)}
      <3>1. HasOneSlot(k) /\ (Held(k) <=> open[k] /\ Started(k))
        BY Zenon DEF TableInv, RangeInv, Sound, Balanced, Quiet, Rests, Settled
      <3>2. CASE Held(k)
        <4>1. PICK i \in Indices : held = {i}
          BY <3>1, <3>2, Zenon DEF Held, HasOneSlot
        <4> QED
          BY <3>1, <3>2, <4>1, FS_Singleton, Zenon DEF Started
      <3>3. CASE ~Held(k)
        <4>1. held = {}
          BY <3>3, Zenon DEF Held
        <4> QED
          BY <3>1, <3>3, <4>1, FS_EmptySet, Zenon DEF Started
      <3> QED
        BY <3>2, <3>3, Zenon
    <2> QED
      BY <2>1, <2>2, Zenon DEF TableHoldsOpenRanges
  <1> QED
    BY <1>1, TableIsSafe, PTL

(* No selected start is lost without being counted, whatever the target    *)
(* does.                                                                   *)
THEOREM NoLossIsSilent == Spec => []LossesAreCounted
  <1>1. TableInv => LossesAreCounted
    <2> SUFFICES ASSUME TableInv, Quiet PROVE attempts = accepted + agent_dropped_records + unknown_records
      BY Zenon DEF LossesAreCounted
    <2>1. Undecided = {}
      BY Zenon DEF Quiet, Undecided, Starting
    <2> QED
      BY <2>1, FS_EmptySet DEF TableInv, CountInv, DataOK
  <1> QED
    BY <1>1, TableIsSafe, PTL
=============================================================================

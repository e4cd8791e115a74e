-------------------------- MODULE MCAggregateTable --------------------------
(* Small instances of AggregateTable: two groups whose hashes collide in   *)
(* full, so that only the key tells them apart and both probe from the     *)
(* last slot, around the end of the table.                                 *)
EXTENDS AggregateTable

CONSTANTS t1, t2, k1, k2

MCHash == [k \in Key |-> 3]

(* The groups have the same hash, so they are interchangeable as well. *)
Symmetry == Permutations(Threads) \cup Permutations(Key)
=============================================================================

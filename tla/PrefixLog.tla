------------------------------ MODULE PrefixLog ------------------------------
(***************************************************************************)
(* What the exact-mode record store of the CUPTI Agent promises to its     *)
(* readers: a bounded log that only ever grows at its end.  A reader that  *)
(* has seen the first n records never has to look at them again, which is  *)
(* what lets SNAPSHOT and STOP send only the records from an offset on.    *)
(***************************************************************************)
EXTENDS Naturals, Sequences

CONSTANTS
    Record,     \* the records callbacks may store
    Capacity    \* record_capacity

VARIABLE published   \* the records a reader may see, in log order

Init == published = <<>>

(* One more record becomes visible to readers. *)
Publish(r) ==
    /\ Len(published) < Capacity
    /\ published' = Append(published, r)

Next == \E r \in Record : Publish(r)

Spec == Init /\ [][Next]_published
=============================================================================

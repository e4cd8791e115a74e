--------------------------- MODULE MCExactCapture ---------------------------
(* Two callback threads, a store of two records. *)
EXTENDS ExactCapture, TLC

CONSTANTS t1, t2, r1

Symmetry == Permutations(Threads)
=============================================================================

---------------------------- MODULE MCNvtxRanges ----------------------------
(***************************************************************************)
(* Two threads with a push/pop range each and one start/end range, in a    *)
(* table whose slots they contend for.                                     *)
(***************************************************************************)
EXTENDS NvtxRanges, TLC

CONSTANTS t1, t2, push1, push2, range1

MCThreads == {t1, t2}
MCKey == {push1, push2, range1}
MCOwner == (push1 :> t1) @@ (push2 :> t2) @@ (range1 :> Process)

(* push1 and range1 share their first slot in a table of three, push2 and  *)
(* range1 in a table of two.                                               *)
MCHash == (push1 :> 3) @@ (push2 :> 4) @@ (range1 :> 6)
=============================================================================

---------------------------- MODULE MCRecordLog ----------------------------
(***************************************************************************)
(* Two callback threads that fill a store of a few records.  Liveness is   *)
(* checked, so the threads are not symmetric.                              *)
(***************************************************************************)
EXTENDS RecordLog

CONSTANTS t1, t2, r1
=============================================================================

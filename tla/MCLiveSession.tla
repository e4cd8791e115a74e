---------------------------- MODULE MCLiveSession ----------------------------
(***************************************************************************)
(* Two measurements of one target, each with its own or the preloaded      *)
(* Agent's socket.                                                         *)
(***************************************************************************)
EXTENDS LiveSession

CONSTANTS c1, c2
=============================================================================

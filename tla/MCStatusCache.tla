---------------------------- MODULE MCStatusCache ----------------------------
(* Instances of StatusCache for TLC.                                       *)
EXTENDS StatusCache
=============================================================================

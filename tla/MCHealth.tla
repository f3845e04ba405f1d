------------------------------ MODULE MCHealth ------------------------------
(* The health checker with two websites. *)
EXTENDS Health
============================================================================

----------------------------- MODULE MCNamesys -----------------------------
(* An instance of Namesys for TLC.                                         *)
EXTENDS Namesys
=============================================================================

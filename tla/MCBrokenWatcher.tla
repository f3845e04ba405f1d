--------------------------- MODULE MCBrokenWatcher ---------------------------
(* An instance of BrokenWatcher for TLC.                                   *)
EXTENDS BrokenWatcher
=============================================================================

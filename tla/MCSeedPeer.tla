----------------------------- MODULE MCSeedPeer -----------------------------
(* An instance of SeedPeer for TLC.                                        *)
EXTENDS SeedPeer
=============================================================================

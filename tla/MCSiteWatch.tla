---------------------------- MODULE MCSiteWatch ----------------------------
(* An instance of SiteWatch for TLC.                                       *)
EXTENDS SiteWatch
=============================================================================

---------------------------- MODULE MCReconciler ----------------------------
(* Instances of Reconciler for TLC.                                        *)
EXTENDS Reconciler
=============================================================================

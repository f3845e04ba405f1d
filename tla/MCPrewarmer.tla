---------------------------- MODULE MCPrewarmer ----------------------------
(* An instance of Prewarmer for TLC: a site cr that links to the site cs,  *)
(* as a directory would, and to the block cx.                               *)
EXTENDS Prewarmer

CONSTANTS cr, cs, cx

MCLinks == [c \in {cr, cs, cx} |-> IF c = cr THEN {cs, cx} ELSE {}]
MCReach == [c \in {cr, cs, cx} |-> IF c = cr THEN {cr, cs, cx} ELSE {c}]
=============================================================================

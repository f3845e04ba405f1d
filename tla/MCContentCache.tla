--------------------------- MODULE MCContentCache ---------------------------
(* An instance of ContentCache for TLC.                                    *)
EXTENDS ContentCache

CONSTANTS c1, c2, c3, c4

\* Two bytes hold the first two blocks or the third one, for which both must go;
\* the fourth never fits.
Sizes == [c \in Cids |-> CASE c \in {c1, c2} -> 1 [] c = c3 -> 2 [] c = c4 -> 3]
=============================================================================

--------------------------- MODULE MCSssContexts ---------------------------
(* Values of the constants of SssContexts for TLC.                            *)
EXTENDS SssContexts

CONSTANTS c1, c2
MCContexts == {c1, c2}
MCSymmetry == Permutations(MCContexts)
=============================================================================

--------------------------- MODULE MCPDMCritSect ---------------------------
(* Finite instances of PDMCritSect for TLC.                                *)
EXTENDS PDMCritSect, TLC

CONSTANTS emt1, emt2, io

TwoEMTs == {emt1, emt2}
OneEMT  == {emt1}
EMTsAndIO == {emt1, emt2, io}
EMTAndIO == {emt1, io}

Symmetry == Permutations(EMTs)
=============================================================================

----------------------------- MODULE MCPDMQueue -----------------------------
(* Finite instances of PDMQueue for TLC.                                   *)
EXTENDS PDMQueue

CONSTANTS emt, emt2, io

OneEMT    == {emt}
TwoEMTs   == {emt, emt2}
EMTsAndIO == {emt, emt2, io}
EMTAndIO  == {emt, io}
R0Only    == {"R0"}
BothRZ    == {"RC", "R0"}
NoQueue   == {}
Q1        == {1}
Q2        == {2}
Q12       == {1, 2}
=============================================================================

----------------------------- MODULE MCTMTimer -----------------------------
(* Finite instances of TMTimer for TLC.                                    *)
EXTENDS TMTimer, TLC

CONSTANTS emt, emt2, io, io2, t1, t2, t3

OneEMT    == {emt}
TwoEMTs   == {emt, emt2}
EMTAndIO  == {emt, io}
EMTsAndIO == {emt, emt2, io}
EMTAndTwoIO == {emt, io, io2}
None      == {}
T1        == {t1}
T2        == {t2}
T12       == {t1, t2}
T123      == {t1, t2, t3}
=============================================================================

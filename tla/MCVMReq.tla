------------------------------ MODULE MCVMReq ------------------------------
(* Finite instances of VMReq for TLC.                                      *)
EXTENDS VMReq

CONSTANTS gui, io, emt0, emt1

NoThread  == {}
OneCaller == {gui}
TwoCallers == {gui, io}
OneEMT    == {emt0}
AnyOneAll == {ANY, emt0, ALL}
AnyOne    == {ANY, emt0}
OnlyOne   == {emt0}
AnyAll    == {ANY, ALL}
OnlyAny   == {ANY}
TwoEMTs   == {emt0, emt1}
=============================================================================

------------------------------ MODULE MCXRoads ------------------------------
(* A finite instance of XRoads for TLC.                                    *)
EXTENDS XRoads
=============================================================================

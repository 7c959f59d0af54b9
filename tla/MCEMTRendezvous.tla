-------------------------- MODULE MCEMTRendezvous --------------------------
(* A finite instance of EMTRendezvous for TLC.                             *)
EXTENDS EMTRendezvous

\* Two failures, success and an EM scheduling status.
FailuresAndInfo == {-2, -1, 0, 1}
=============================================================================

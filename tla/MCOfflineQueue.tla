--------------------------- MODULE MCOfflineQueue ---------------------------
(***************************************************************************)
(* Instances of OfflineQueue for TLC.                                      *)
(***************************************************************************)
EXTENDS OfflineQueue

CONSTANTS p1, p2
=============================================================================

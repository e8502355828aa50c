------------------------- MODULE MCShoppingSession -------------------------
(***************************************************************************)
(* Instances of ShoppingSession for TLC.                                   *)
(***************************************************************************)
EXTENDS ShoppingSession, TLC

CONSTANTS t1, t2

\* Which executor thread runs a put-away does not matter.
Interchangeable == Permutations(Threads)
=============================================================================

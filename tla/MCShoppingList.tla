--------------------------- MODULE MCShoppingList ---------------------------
(***************************************************************************)
(* Instances of ShoppingList for TLC.                                      *)
(***************************************************************************)
EXTENDS ShoppingList, TLC

CONSTANTS p1, p2

\* Which executor thread runs a pass does not matter.
Interchangeable == Permutations(Passes)
=============================================================================

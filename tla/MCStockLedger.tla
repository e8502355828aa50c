--------------------------- MODULE MCStockLedger ---------------------------
(***************************************************************************)
(* Instances of StockLedger for TLC.                                       *)
(***************************************************************************)
EXTENDS StockLedger, TLC

CONSTANTS p1, a1, a2, l1, l2

\* Two articles of one product: a consumption walks the batches of both.
OneProduct == [a \in Articles |-> p1]

\* Opened, the product keeps for no more than one day; or no rule at all.
KeepsADay == [p \in Products |-> 1]
KeepsAny  == [p \in Products |-> 0]

\* Articles of the same product, and places, are interchangeable.
Interchangeable == Permutations(Articles) \cup Permutations(Locations)
=============================================================================

--------------------------- MODULE MCGrocyStock ---------------------------
(***************************************************************************)
(* Instances of GrocyStock for TLC.                                        *)
(***************************************************************************)
EXTENDS GrocyStock, TLC

CONSTANTS p1, p2, s1, s2

TheRows      == s1 :> p1 @@ s2 :> p2
TheUnits     == p1 :> "kg" @@ p2 :> "pot"
\* The product stocked in kilograms is on the list in pots.
TheListUnits == p1 :> "pot" @@ p2 :> "pot"
TheTable     == "kg"  :> [base |-> "g", factor |-> 2] @@
                "pot" :> [base |-> "piece", factor |-> 1]
=============================================================================

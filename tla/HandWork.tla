------------------------------ MODULE HandWork ------------------------------
(***************************************************************************)
(* What the components say together of the work of hands: each of them has *)
(* a machine that passes again over what a person settled, and none may    *)
(* undo it.                                                                *)
(***************************************************************************)
EXTENDS Kitchen, Articles, GrocyRecipes, GrocyEquipment

(* What a hand settled outlives whatever machine passes afterwards: a line *)
(* of a recipe the next import of its card, an imported line or battery    *)
(* the next replay, a column of an article the next answer of Open Food    *)
(* Facts.                                                                  *)
HandWorkStays ==
    /\ ConfirmedLinesSurvive
    /\ SettledStaysSettled
    /\ DecidedStays
    /\ OnlyHandsErase
=============================================================================

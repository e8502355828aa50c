------------------------------ MODULE MCMeals ------------------------------
(***************************************************************************)
(* Instances of Meals for TLC.                                             *)
(***************************************************************************)
EXTENDS Meals, TLC

CONSTANTS t1, t2

\* Which executor thread runs a call does not matter.
Interchangeable == Permutations(Threads)
=============================================================================

----------------------------- MODULE WholeWrites -----------------------------
(***************************************************************************)
(* What the file promises to whoever writes it: a transaction is kept      *)
(* whole or is not there, once kept it stays, and the version of the       *)
(* schema is never taken back.                                             *)
(***************************************************************************)
EXTENDS Integers

VARIABLES
    begun,          \* how many transactions were begun: they are 1..begun
    kept,           \* those the file has kept
    level           \* the version of the schema

Init == begun = 0 /\ kept = {} /\ level = 0

Begin ==
    /\ begun' = begun + 1
    /\ UNCHANGED <<kept, level>>

\* A transaction may also never be kept: an exception, or a stop.
Keep(t) ==
    /\ kept' = kept \cup {t}
    /\ UNCHANGED <<begun, level>>

Raise ==
    /\ level' > level
    /\ UNCHANGED <<begun, kept>>

Next == Begin \/ Raise \/ \E t \in 1..begun : Keep(t)

Spec == Init /\ [][Next]_<<begun, kept, level>>
=============================================================================

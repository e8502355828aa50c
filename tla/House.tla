------------------------------- MODULE House -------------------------------
(***************************************************************************)
(* What the tables of the house share.  A table whose rows can be deleted  *)
(* is a function from ids to rows or Null.                                 *)
(***************************************************************************)
EXTENDS Integers, Sequences, FiniteSets

CONSTANT Null

Rows(table) == {id \in DOMAIN table : table[id] # Null}

\* INTEGER PRIMARY KEY without AUTOINCREMENT: the largest id in the table plus
\* one, so the id of a deleted last row comes back.
NextId(table) == 1 + CHOOSE m \in Rows(table) \cup {0} :
                        \A id \in Rows(table) : id <= m
=============================================================================

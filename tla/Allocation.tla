----------------------------- MODULE Allocation -----------------------------
(***************************************************************************)
(* Which batches a consumption is taken from, and how much from each:      *)
(* domain/stock.py.  This module says what `allocate` must return; the     *)
(* loop that computes it is module AllocateLoop.                           *)
(*                                                                         *)
(* A view is a record [remaining, opened, bestBefore, entered]: the part   *)
(* of a BatchView the rules look at.  The prices and rates it also carries *)
(* are copied through and are left out.  Quantities are whole numbers, so  *)
(* QUANTITY_EPSILON (0.001) is 0 and `is_empty(x)` is x = 0.               *)
(***************************************************************************)
EXTENDS House, Functions

\* Null is SQL's: no date, no price, no batch, no key.
ASSUME NullIsNoNumber == Null \notin Int

\* The rank of a date in the sort key `(best_before is None, best_before or date.max)`.
DateBefore(d, e) ==
    \/ d # Null /\ e = Null
    \/ d # Null /\ e # Null /\ d < e

\* Opened first, then closest expiry, then oldest entry.  A strict weak order:
\* two batches with the same key come in whatever order SQLite returned them.
Before(v, w) ==
    \/ v.opened /\ ~w.opened
    \/ /\ v.opened = w.opened
       /\ \/ DateBefore(v.bestBefore, w.bestBefore)
          \/ v.bestBefore = w.bestBefore /\ v.entered < w.entered

Available(view) == SumFunction([b \in DOMAIN view |-> view[b].remaining])

(***************************************************************************)
(* `order` lists the batches of `view` that are touched and `take` what is *)
(* taken from each: a prefix of the sorted batches, every one emptied but  *)
(* perhaps the last, the last one giving something, q taken in all.        *)
(***************************************************************************)
IsAllocation(order, take, view, q) ==
    LET touched == Range(order)
        last    == Len(order)
    IN  /\ IsInjective(order)
        /\ \A i, j \in DOMAIN order :
              i < j => ~Before(view[order[j]], view[order[i]])
        /\ \A b \in DOMAIN view \ touched, i \in DOMAIN order :
              ~Before(view[b], view[order[i]])
        /\ \A i \in DOMAIN order :
              /\ take[i] \in 0..view[order[i]].remaining
              /\ i # last => take[i] = view[order[i]].remaining
        /\ take[last] > 0
        /\ SumFunction(take) = q
=============================================================================

-------------------------------- MODULE Outbox --------------------------------
(***************************************************************************)
(* What file-attente.ts promises to whoever posts a write from a shop with *)
(* no signal: it is done at most once, and in the order it was posted in.  *)
(***************************************************************************)
EXTENDS Integers, Sequences

VARIABLES
    posted,         \* how many writes were posted: writes are 1..posted
    done            \* the writes that took effect, in the order they did

Init == posted = 0 /\ done = <<>>

Post ==
    /\ posted' = posted + 1
    /\ UNCHANGED done

\* A write may also never take effect: the server refuses it.
Do(n) ==
    /\ \A i \in DOMAIN done : done[i] < n
    /\ done' = Append(done, n)
    /\ UNCHANGED posted

Next == Post \/ \E n \in 1..posted : Do(n)

Spec == Init /\ [][Next]_<<posted, done>>
=============================================================================

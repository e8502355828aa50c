---------------------------- MODULE AllocateLoop ----------------------------
(***************************************************************************)
(* `allocate` of domain/stock.py, one step per turn of its loop, over      *)
(* every list of candidates an instance can build.  Pure and sequential:   *)
(* the interest is that the greedy loop returns what module Allocation     *)
(* says and that it never takes what is not there.                         *)
(***************************************************************************)
EXTENDS Allocation

CONSTANTS
    MaxCandidates,  \* bound: candidates in one call
    MaxAsked,       \* bound: the quantity asked, and held by one batch
    BestBefores,    \* best-before dates, as day numbers
    Entries,        \* entry moments
    Refused         \* the outcome of a call that raised

LoopConstants ==
    /\ MaxCandidates \in Nat /\ MaxAsked \in Nat
    /\ BestBefores \subseteq Int /\ Entries \subseteq Int
    /\ Refused \notin {"running", "done"}

VARIABLES
    view,           \* the candidates: position in the SQL result -> BatchView
    quantity,       \* what is asked
    sorted,         \* sort_batches(batches), or <<>> before it ran
    turn,           \* the next position of `sorted` the loop looks at
    left,           \* what is still to take
    allocations,    \* the list returned, one record per batch touched
    outcome         \* "running", "done" or Refused

allocateVars == <<view, quantity, sorted, turn, left, allocations, outcome>>

\* What the query returns is open: a batch that is emptied is closed.
Views == [remaining : 1..MaxAsked, opened : BOOLEAN,
          bestBefore : BestBefores \cup {Null}, entered : Entries]
CandidateLists == UNION {[1..n -> Views] : n \in 0..MaxCandidates}

AllocateTypeOK ==
    /\ view \in CandidateLists
    /\ quantity \in -1..MaxAsked
    /\ sorted \in Seq(1..MaxCandidates)
    /\ turn \in 1..(MaxCandidates + 1)
    /\ left \in 0..MaxAsked
    /\ allocations \in Seq([batch : 1..MaxCandidates, quantity : 0..MaxAsked,
                            remainingAfter : 0..MaxAsked, closes : BOOLEAN])
    /\ outcome \in {"running", "done", Refused}

AllocateInit ==
    /\ view \in CandidateLists
    /\ quantity \in -1..MaxAsked
    /\ sorted = <<>> /\ turn = 1 /\ left = 0 /\ allocations = <<>>
    /\ outcome = "running"

\* The two raises at the top: ValueError, then InsufficientStock.
Refuse ==
    /\ outcome = "running" /\ turn = 1 /\ left = 0
    /\ quantity <= 0 \/ quantity > Available(view)
    /\ outcome' = Refused
    /\ UNCHANGED <<view, quantity, sorted, turn, left, allocations>>

\* sorted(...) is stable: equal keys keep the order of the SQL result.
Comes(v, b, c) ==
    \/ Before(v[b], v[c])
    \/ ~Before(v[c], v[b]) /\ b < c

\* The positions of the candidates v, sorted.
Sorts(s, v) ==
    /\ IsInjective(s)
    /\ \A i, j \in DOMAIN v : i < j => Comes(v, s[i], s[j])
SortedCandidates(v) == CHOOSE s \in [DOMAIN v -> DOMAIN v] : Sorts(s, v)

\* mutant: the candidates are taken as the query returned them
SortBatchesNot ==
    /\ outcome = "running" /\ turn = 1 /\ left = 0
    /\ quantity > 0 /\ quantity <= Available(view)
    /\ left' = quantity
    /\ sorted' = [i \in DOMAIN view |-> i]
    /\ UNCHANGED <<view, quantity, turn, allocations, outcome>>

SortBatches ==
    /\ outcome = "running" /\ turn = 1 /\ left = 0
    /\ quantity > 0 /\ quantity <= Available(view)
    /\ left' = quantity
    /\ sorted' = SortedCandidates(view)
    /\ UNCHANGED <<view, quantity, turn, allocations, outcome>>

Give(taken, after) ==
    /\ allocations' = Append(allocations,
          [batch |-> sorted[turn], quantity |-> taken,
           remainingAfter |-> after, closes |-> after = 0])
    /\ left' = left - taken
    /\ turn' = turn + 1
    /\ UNCHANGED <<view, quantity, sorted, outcome>>

\* One turn of the loop: the candidate gives what it has, or what is missing.
TakeFromCandidate ==
    /\ outcome = "running" /\ turn <= Len(sorted) /\ left > 0
    /\ LET held  == view[sorted[turn]].remaining
           taken == IF held < left THEN held ELSE left
       IN  Give(taken, held - taken)

\* `break` on nothing left, or the candidates are exhausted.
Return ==
    /\ outcome = "running" /\ sorted # <<>>
    /\ left = 0 \/ turn > Len(sorted)
    /\ outcome' = "done"
    /\ UNCHANGED <<view, quantity, sorted, turn, left, allocations>>

AllocateNext == Refuse \/ SortBatches \/ TakeFromCandidate \/ Return

AllocateSpec == AllocateInit /\ [][AllocateNext]_allocateVars

OrderTaken == [i \in DOMAIN allocations |-> allocations[i].batch]
Taken      == [i \in DOMAIN allocations |-> allocations[i].quantity]

(***************************************************************************)
(* "Never partial": a call that returns has taken exactly what was asked,  *)
(* in the order of the rule, from what each batch held; the loop can not   *)
(* run out of candidates with something left to take.                      *)
(***************************************************************************)
ReturnsTheAllocation ==
    outcome = "done" => /\ left = 0
                        /\ IsAllocation(OrderTaken, Taken, view, quantity)

\* What `allocate` announces for each batch is what the batch will hold: the
\* ledger writes remaining_after and closed_at straight from it.
AnnouncesWhatIsLeft ==
    \A i \in DOMAIN allocations :
        LET a == allocations[i]
        IN  /\ a.remainingAfter = view[a.batch].remaining - a.quantity
            /\ a.closes <=> a.remainingAfter = 0

\* "Never negative": whatever was asked, a call refuses exactly when nothing
\* sensible is asked or the stock is short; it never returns a short allocation.
RefusesWhatIsShort ==
    /\ outcome = Refused => quantity <= 0 \/ quantity > Available(view)
    /\ outcome = "done"  => quantity > 0 /\ quantity <= Available(view)

\* What nobody may find wrong in a call of `allocate`.
AllocateSound ==
    AllocateTypeOK /\ ReturnsTheAllocation /\ AnnouncesWhatIsLeft /\ RefusesWhatIsShort
=============================================================================

----------------------------- MODULE StockLedger -----------------------------
(***************************************************************************)
(* The stock and its journal: StockManager of application.py over the      *)
(* tables `batch` and `movement`.                                          *)
(*                                                                         *)
(* Every operation runs inside one `Database.write()`: a single lock, one  *)
(* transaction, rolled back on any exception.  So each is one atomic       *)
(* action here, and a refusal (an exception) is a step not taken.  A call  *)
(* replayed with a key the journal already holds returns what the first    *)
(* call returned and writes nothing: it is a stuttering step.              *)
(*                                                                         *)
(* Quantities and prices are whole numbers; QUANTITY_EPSILON is 0.  Of the *)
(* values frozen on a movement `cost` is kept: kcal and the eight macros   *)
(* are computed and reversed by the same lines, and never repriced.        *)
(***************************************************************************)
EXTENDS Allocation, FiniteSets

CONSTANTS
    Products, Articles, Locations,
    ProductOf,      \* the product an article belongs to (never reassigned here)
    OpenedLife,     \* days_after_opening of a product, 0 when it has none
    EntryReasons,   \* reasons add_stock is called with
    OutReasons,     \* reasons a consumption is called with
    Prices,         \* prices per base unit
    Dates,          \* best-before dates read on a packet, as day numbers
    Moments,        \* days on which things are entered and opened
    Keys,           \* idempotency keys callers supply
    MaxQuantity,    \* bound: one entered or counted quantity
    MaxBatches,     \* bound: batches ever created
    MaxRows         \* bound: rows of the journal

Reasons == {"purchase", "consumption", "waste", "expired",
            "inventory", "transfer", "conversion", "cooked"}

ASSUME LedgerConstants ==
    /\ ProductOf \in [Articles -> Products]
    /\ OpenedLife \in [Products -> Nat]
    /\ EntryReasons \subseteq {"purchase", "cooked"}
    /\ OutReasons \subseteq {"consumption", "waste", "expired", "cooked"}
    /\ Prices \subseteq Nat
    /\ Dates \subseteq Nat
    /\ Moments \subseteq Nat
    /\ MaxQuantity \in Nat /\ MaxBatches \in Nat /\ MaxRows \in Nat

MaxStock == MaxQuantity * MaxBatches   \* all that can be in stock at once

ASSUME NullIsNoKey == Null \notin Keys

VARIABLES
    batches,        \* table batch: batches[id]; rows are never deleted
    journal,        \* table movement: append only, journal[id]
    observed        \* table price: <<article, price>> pairs observed by hand

vars == <<batches, journal, observed>>

Batch == [article : Articles, location : Locations, remaining : Int,
          closed : BOOLEAN, opened : BOOLEAN, bestBefore : Nat \cup {Null},
          entered : Nat, price : Nat \cup {Null}]

\* Caller keys are namespaced by operation; "key#i" is part i.  The correction
\* of row i has key `correction:i`, its rewriting at a new price `reprice:i`.
Key == [op : {"add_stock", "consume", "consume_batch"}, on : Keys, part : Nat]
         \cup [op : {"correction", "reprice"}, on : Nat, part : {0}]

ASSUME NullIsNoStoredKey == Null \notin Key

Movement == [article : Articles, batch : Nat \cup {Null}, quantity : Int,
             reason : Reasons, cost : Int \cup {Null},
             corrects : Nat \cup {Null}, key : Key \cup {Null}]

TypeOK ==
    /\ batches \in Seq(Batch)
    /\ journal \in Seq(Movement)
    /\ observed \in SUBSET (Articles \X Nat)

BatchIds    == DOMAIN batches
MovementIds == DOMAIN journal
OpenOf(S)   == {b \in BatchIds : ~batches[b].closed /\ batches[b].article \in S}

(***************************************************************************)
(* Values: domain/nutrition.py and domain/correction.py                    *)
(***************************************************************************)
Magnitude(q) == IF q < 0 THEN -q ELSE q

\* movement_values(): never rounds, and an unknown price is an unknown cost.
CostOf(q, price) == IF price = Null THEN Null ELSE Magnitude(q) * price

FlipForgotten(x) == x   \* mutant: the reversal costs what its target cost

Flip(x) == IF x = Null THEN Null ELSE -x

MovementRow(article, batch, q, reason, cost, key) ==
    [article |-> article, batch |-> batch, quantity |-> q, reason |-> reason,
     cost |-> cost, corrects |-> Null, key |-> key]

Reversal(id) ==
    [journal[id] EXCEPT !.quantity = -@, !.cost = Flip(@), !.corrects = id,
                        !.key = [op |-> "correction", on |-> id, part |-> 0]]

\* mutant: the rewritten row keeps the old cost
RepriceAtOldCost(id, price) ==
    [journal[id] EXCEPT !.corrects = Null,
                        !.key = [op |-> "reprice", on |-> id, part |-> 0]]

Reprice(id, price) ==
    [journal[id] EXCEPT !.cost = CostOf(journal[id].quantity, price),
                        !.corrects = Null,
                        !.key = [op |-> "reprice", on |-> id, part |-> 0]]

CorrectedForgotten(id) == FALSE   \* mutant: corrections_of() finds nothing

Corrected(id) == \E c \in MovementIds : journal[c].corrects = id

\* check_correctable(): transfers move nothing, conversions and cooked rows
\* come in pairs that mean nothing one at a time.
Correctable(id) ==
    /\ journal[id].corrects = Null
    /\ journal[id].reason \notin {"transfer", "conversion", "cooked"}

(***************************************************************************)
(* The operations                                                          *)
(***************************************************************************)
Write(rows) ==
    /\ Len(journal) + Len(rows) <= MaxRows
    /\ journal' = journal \o rows

CallerKeyBare(op, key, part) == key   \* mutant: no namespace, no part
UnusedUnasked(k) == TRUE              \* mutant: the journal is not asked first

\* `_namespaced_key` and the replay test that opens every keyed operation.
CallerKey(op, key, part) ==
    IF key = Null THEN Null ELSE [op |-> op, on |-> key, part |-> part]
Unused(k) == k = Null \/ \A i \in MovementIds : journal[i].key # k

\* mutant: closed_at is left alone
SetRemainingOpen(b, remaining) == [batches[b] EXCEPT !.remaining = remaining]

SetRemaining(b, remaining) ==
    [batches[b] EXCEPT !.remaining = remaining, !.closed = (remaining = 0)]

NewBatch(article, location, q, bestBefore, entered, price) ==
    [article |-> article, location |-> location, remaining |-> q,
     closed |-> FALSE, opened |-> FALSE, bestBefore |-> bestBefore,
     entered |-> entered, price |-> price]

Insert(batch) ==
    /\ Len(batches) < MaxBatches
    /\ batches' = Append(batches, batch)

\* add_stock accepts a quantity of zero: to_base_quantity refuses only negatives.
AddStock(article, location, q, bestBefore, price, moment, reason, key) ==
    LET k == CallerKey("add_stock", key, 0)
        b == Len(batches) + 1
    IN  /\ Unused(k)
        /\ Insert(NewBatch(article, location, q, bestBefore, moment, price))
        /\ Write(<<MovementRow(article, b, q, reason, CostOf(q, price), k)>>)
        /\ observed' = IF price = Null THEN observed
                                       ELSE observed \cup {<<article, price>>}

\* mutant: the batch the loop stops on is emptied like the others
TakenFromEmptied(order, take) ==
    [b \in BatchIds |-> IF b \in Range(order) THEN SetRemaining(b, 0) ELSE batches[b]]

\* The batches after `take` left them.
TakenFrom(order, take) ==
    [b \in BatchIds |->
        IF b \in Range(order)
        THEN LET i == CHOOSE i \in DOMAIN order : order[i] = b
             IN  SetRemaining(b, batches[b].remaining - take[i])
        ELSE batches[b]]

\* allocate() over the batches of S: what it may return for q.  The empty
\* allocation is no answer: q is positive or the call raises.
Orders(S)  == UNION {[1..n -> S] : n \in 1..Cardinality(S)}
Allocates(order, take, S, q) ==
    /\ q > 0
    /\ take \in [DOMAIN order -> 0..q]
    /\ IsAllocation(order, take, [b \in S |-> batches[b]], q)

Consume(product, q, reason, key) ==
    LET candidates == OpenOf({a \in Articles : ProductOf[a] = product})
    IN  /\ Unused(CallerKey("consume", key, 0))
        /\ \E order \in Orders(candidates) : \E take \in [DOMAIN order -> 0..q] :
              /\ Allocates(order, take, candidates, q)
              /\ batches' = TakenFrom(order, take)
              /\ Write([i \in DOMAIN order |->
                    MovementRow(batches[order[i]].article, order[i], -take[i], reason,
                                CostOf(take[i], batches[order[i]].price),
                                CallerKey("consume", key, i - 1))])
        /\ UNCHANGED observed

\* Without a quantity the batch is emptied: q is then its whole remaining.
ConsumeBatch(b, q, reason, key) ==
    LET k == CallerKey("consume_batch", key, 0)
    IN  /\ Unused(k)
        /\ ~batches[b].closed
        /\ q > 0 /\ q <= batches[b].remaining
        /\ batches' = [batches EXCEPT ![b] = SetRemaining(b, batches[b].remaining - q)]
        /\ Write(<<MovementRow(batches[b].article, b, -q, reason,
                               CostOf(q, batches[b].price), k)>>)
        /\ UNCHANGED observed

\* Opening shortens the date and never extends it; a closed batch may be opened,
\* and opening twice stamps it again.
OpenBatch(b, moment) ==
    LET life      == OpenedLife[ProductOf[batches[b].article]]
        shortened == moment + life
    IN  /\ batches' = [batches EXCEPT
              ![b].opened = TRUE,
              ![b].bestBefore = IF life > 0 /\ (@ = Null \/ shortened < @)
                                THEN shortened ELSE @]
        /\ UNCHANGED <<journal, observed>>

TransferBatch(b, location) ==
    /\ batches' = [batches EXCEPT ![b].location = location]
    /\ Write(<<MovementRow(batches[b].article, b, 0, "transfer", Null, Null)>>)
    /\ UNCHANGED observed

(***************************************************************************)
(* adjust_inventory: what was counted is the truth.  Less than expected    *)
(* empties the batches there in consumption order and books ONE row with   *)
(* no batch; more than expected is a batch of its own.                     *)
(***************************************************************************)
At(article, location) ==
    {b \in OpenOf({article}) : batches[b].location = location}

Current(article, location) ==
    Available([b \in At(article, location) |-> batches[b]])

AdjustDown(article, location, counted) ==
    LET there == At(article, location)
    IN  \E missing \in 1..MaxStock :
          /\ Current(article, location) = counted + missing
          /\ \E order \in Orders(there) : \E take \in [DOMAIN order -> 0..missing] :
                /\ Allocates(order, take, there, missing)
                /\ batches' = TakenFrom(order, take)
          /\ Write(<<MovementRow(article, Null, -missing, "inventory", Null, Null)>>)
          /\ UNCHANGED observed

AdjustUp(article, location, counted, moment) ==
    \E found \in 1..counted :
        /\ counted = Current(article, location) + found
        /\ Insert(NewBatch(article, location, found, Null, moment, Null))
        /\ Write(<<MovementRow(article, Len(batches) + 1, found, "inventory",
                               Null, Null)>>)
        /\ UNCHANGED observed

(***************************************************************************)
(* correct_movement: one more row, the mirror of the row it cancels.  A    *)
(* row already corrected answers with its correction and writes nothing.   *)
(***************************************************************************)
CorrectMovement(id) ==
    LET b     == journal[id].batch
        after == batches[b].remaining - journal[id].quantity
    IN  /\ ~Corrected(id)
        /\ Correctable(id)
        /\ IF b = Null THEN UNCHANGED batches
           ELSE /\ after >= 0
                /\ batches' = [batches EXCEPT ![b] = SetRemaining(b, after)]
        /\ Write(<<Reversal(id)>>)
        /\ UNCHANGED observed

\* _movements_to_reprice(): rows of the batch that neither cancel nor are cancelled.
ToReprice(b) == {id \in MovementIds : /\ journal[id].batch = b
                                      /\ journal[id].corrects = Null
                                      /\ ~Corrected(id)}

\* mutant: rewritten without being cancelled first
RepricedUncancelled(ids, price) == [k \in DOMAIN ids |-> Reprice(ids[k], price)]

\* The rows `correct_price` writes: each row of `ids`, cancelled then rewritten.
Repriced(ids, price) ==
    [k \in 1..(2 * Len(ids)) |->
        IF k % 2 = 1 THEN Reversal(ids[(k + 1) \div 2])
                     ELSE Reprice(ids[k \div 2], price)]

\* One row that may not be corrected raises and rolls the whole call back.
PriceCanBeCorrected(b) == \A id \in ToReprice(b) : Correctable(id)

InWritingOrder(ids, S) ==
    /\ ids \in [1..Cardinality(S) -> S]
    /\ \A i, j \in DOMAIN ids : i < j => ids[i] < ids[j]
    /\ S = Range(ids)

CorrectPrice(b, price) ==
    /\ PriceCanBeCorrected(b)
    /\ \E ids \in [1..Cardinality(ToReprice(b)) -> ToReprice(b)] :
          /\ InWritingOrder(ids, ToReprice(b))
          /\ Write(Repriced(ids, price))
    /\ batches' = [batches EXCEPT ![b].price = price]
    /\ observed' = IF price = Null THEN observed
                   ELSE observed \cup {<<batches[b].article, price>>}

Init == batches = <<>> /\ journal = <<>> /\ observed = {}

Next ==
    \/ \E a \in Articles, l \in Locations, q \in 0..MaxQuantity,
          d \in Dates \cup {Null}, p \in Prices \cup {Null}, m \in Moments,
          r \in EntryReasons, k \in Keys \cup {Null} : AddStock(a, l, q, d, p, m, r, k)
    \/ \E p \in Products, q \in 1..MaxStock, r \in OutReasons,
          k \in Keys \cup {Null} : Consume(p, q, r, k)
    \/ \E b \in BatchIds, r \in OutReasons, k \in Keys \cup {Null} :
          \E q \in 1..batches[b].remaining : ConsumeBatch(b, q, r, k)
    \/ \E b \in BatchIds, m \in Moments : OpenBatch(b, m)
    \/ \E b \in BatchIds, l \in Locations : TransferBatch(b, l)
    \/ \E a \in Articles, l \in Locations, c \in 0..MaxQuantity :
          AdjustDown(a, l, c)
    \/ \E a \in Articles, l \in Locations, c \in 0..MaxQuantity, m \in Moments :
          AdjustUp(a, l, c, m)
    \/ \E id \in MovementIds : CorrectMovement(id)
    \/ \E b \in BatchIds, p \in Prices \cup {Null} : CorrectPrice(b, p)

Spec == Init /\ [][Next]_vars

(***************************************************************************)
(* What must hold                                                          *)
(***************************************************************************)

(* Never negative, and open exactly while something is left.  A batch that
   was entered with nothing in it is open and empty until it is touched:
   every row written on it says zero. *)
BatchesSound ==
    \A b \in BatchIds :
        /\ batches[b].remaining >= 0
        /\ batches[b].closed => batches[b].remaining = 0
        /\ ~batches[b].closed /\ batches[b].remaining = 0 =>
              \A id \in MovementIds : journal[id].batch = b => journal[id].quantity = 0

(* A correction is the exact mirror of one earlier row that is not itself a
   correction, and no row is cancelled twice: whatever the order of single
   corrections and price corrections, every pair nets to zero. *)
CorrectionsMirror ==
    /\ \A c \in MovementIds : journal[c].corrects # Null =>
          LET t == journal[c].corrects
          IN  /\ t \in 1..(c - 1)
              /\ journal[t].corrects = Null
              /\ journal[c].batch = journal[t].batch
              /\ journal[c].article = journal[t].article
              /\ journal[c].reason = journal[t].reason
              /\ journal[c].quantity = -journal[t].quantity
              /\ journal[c].cost = Flip(journal[t].cost)
    /\ \A c, d \in MovementIds :
          journal[c].corrects # Null /\ journal[c].corrects = journal[d].corrects => c = d

(* The UNIQUE index on idempotency_key never has to refuse an insert: the
   replay test of each operation and the derived keys of corrections and
   rewritings are enough to keep keys apart. *)
KeysUnique ==
    \A i, j \in MovementIds :
        journal[i].key # Null /\ journal[i].key = journal[j].key => i = j

(* A row that still stands is valued at the price its batch has NOW, however
   often the price was corrected between the row and today. *)
StandingRowsPriced ==
    \A b \in BatchIds : \A id \in ToReprice(b) :
        journal[id].reason # "transfer" =>
            journal[id].cost = CostOf(journal[id].quantity, batches[b].price)

(* Sums over the journal, as totals_between makes them: NULL counts for 0. *)
Sum(f)      == SumFunction(f)
Worth(cost) == IF cost = Null THEN 0 ELSE cost
QuantityIn(S) == Sum([id \in S |-> journal[id].quantity])
CostIn(S)     == Sum([id \in S |-> Worth(journal[id].cost)])

(* The journal balances the stock, article by article.  The only row that
   moves the journal and not the stock is the correction of a row with no
   batch: an inventory that counted less. *)
JournalBalancesStock ==
    \A a \in Articles :
        LET rows  == {id \in MovementIds : journal[id].article = a}
            loose == {id \in rows : journal[id].batch = Null /\ journal[id].corrects # Null}
        IN  Sum([b \in {b \in BatchIds : batches[b].article = a} |-> batches[b].remaining])
              = QuantityIn(rows) - QuantityIn(loose)

(* What a batch's outings cost in all, reversals and rewritings included, is
   what went out at the price the batch has now: a wrong price leaves no
   trace in the totals once it is corrected.  (A reason that also enters
   stock, as "cooked" may, is no outing by itself.) *)
OutingsCostCurrentPrice ==
    \A b \in BatchIds :
        LET out == {id \in MovementIds : /\ journal[id].batch = b
                                         /\ journal[id].reason \in OutReasons \ EntryReasons}
        IN  CostIn(out) = -QuantityIn(out) * Worth(batches[b].price)

(* A price correction rewrites costs and nothing else: quantities per batch
   do not move, whatever was consumed, corrected or repriced before. *)
PriceCorrectionKeepsStock ==
    [][\A b \in BatchIds : batches'[b].price # batches[b].price =>
          /\ batches'[b].remaining = batches[b].remaining
          /\ QuantityIn({id \in MovementIds : journal[id].batch = b})
               = Sum([id \in {i \in DOMAIN journal' : journal'[i].batch = b}
                        |-> journal'[id].quantity])]_vars

(* export_journal: "It is enough to rebuild everything." *)
JournalRebuildsStock ==
    \A a \in Articles :
        Sum([b \in {b \in BatchIds : batches[b].article = a} |-> batches[b].remaining])
          = QuantityIn({id \in MovementIds : journal[id].article = a})

(* "Pour chaque mouvement deja pris sur ce lot : une contrepassation puis une
   reecriture": the price of any batch can be corrected. *)
AnyPriceCanBeCorrected == \A b \in BatchIds : PriceCanBeCorrected(b)
=============================================================================

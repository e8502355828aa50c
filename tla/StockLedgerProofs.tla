-------------------------- MODULE StockLedgerProofs --------------------------
(***************************************************************************)
(* Theorems about StockLedger, and about the loop of `allocate` that says  *)
(* what its consumptions take, for every value of the constants.           *)
(***************************************************************************)
EXTENDS StockLedger, AllocateLoop, SumProofs, SequenceTheorems

\* A function on 1..n with values in S is a sequence of length n over S.
LEMMA FunctionIsSeq ==
    ASSUME NEW S, NEW n \in Nat, NEW f \in [1..n -> S]
    PROVE  f \in Seq(S) /\ Len(f) = n /\ DOMAIN f = 1..n
<1>1. f \in Seq(S)
  BY SeqDef
<1>2. QED
  BY <1>1, LenProperties

\* A written row keeps its number, and a new one comes after them.
LEMMA WriteAppends ==
    ASSUME NEW rows \in Seq(Movement), journal \in Seq(Movement), Write(rows)
    PROVE  /\ journal' \in Seq(Movement)
           /\ Len(journal') = Len(journal) + Len(rows)
           /\ MovementIds' = 1..(Len(journal) + Len(rows))
           /\ MovementIds = 1..Len(journal)
           /\ \A i \in MovementIds : journal'[i] = journal[i]
           /\ \A k \in 1..Len(rows) : journal'[Len(journal) + k] = rows[k]
<1>1. journal' = journal \o rows
  BY DEF Write
<1>2. QED
  BY <1>1, ConcatProperties, LenProperties DEF MovementIds

\* The values frozen on a row are numbers or NULL.
LEMMA CostType ==
    ASSUME NEW q \in Int, NEW price \in Nat \cup {Null}
    PROVE  CostOf(q, price) \in Int \cup {Null}
<1>1. Magnitude(q) \in Int
  BY DEF Magnitude
<1>2. CASE price = Null
  BY <1>2 DEF CostOf
<1>3. CASE price # Null
  <2>1. Magnitude(q) * price \in Int
    BY <1>1, <1>3
  <2>2. QED
    BY <2>1, <1>3 DEF CostOf
<1>4. QED
  BY <1>2, <1>3

\* MovementRow builds a row of table movement.
LEMMA MovementRowType ==
    ASSUME NEW a \in Articles, NEW b \in Nat \cup {Null}, NEW q \in Int,
           NEW r \in Reasons, NEW c \in Int \cup {Null}, NEW k \in Key \cup {Null}
    PROVE  MovementRow(a, b, q, r, c, k) \in Movement
BY DEF MovementRow, Movement

\* A key a caller supplies, once namespaced, is a key of the journal.
LEMMA CallerKeyType ==
    ASSUME NEW op \in {"add_stock", "consume", "consume_batch"},
           NEW k \in Keys \cup {Null}, NEW part \in Nat
    PROVE  CallerKey(op, k, part) \in Key \cup {Null}
BY DEF CallerKey, Key

\* The correction of a row of the journal is a row.
LEMMA ReversalType ==
    ASSUME TypeOK, NEW id \in MovementIds
    PROVE  Reversal(id) \in Movement
<1>1. journal[id] \in Movement /\ id \in Nat
  BY LenProperties, ElementOfSeq DEF TypeOK, MovementIds
<1>2. /\ -journal[id].quantity \in Int
      /\ Flip(journal[id].cost) \in Int \cup {Null}
      /\ [op |-> "correction", on |-> id, part |-> 0] \in Key
  BY <1>1 DEF Movement, Flip, Key
<1>3. QED
  BY <1>1, <1>2 DEF Reversal, Movement

\* So is its rewriting at another price.
LEMMA RepriceType ==
    ASSUME TypeOK, NEW id \in MovementIds, NEW price \in Nat \cup {Null}
    PROVE  Reprice(id, price) \in Movement
<1>1. journal[id] \in Movement /\ id \in Nat
  BY LenProperties, ElementOfSeq DEF TypeOK, MovementIds
<1>2. /\ CostOf(journal[id].quantity, price) \in Int \cup {Null}
      /\ [op |-> "reprice", on |-> id, part |-> 0] \in Key
  BY <1>1, CostType DEF Movement, Key
<1>3. QED
  BY <1>1, <1>2 DEF Reprice, Movement

(***************************************************************************)
(* Type correctness                                                        *)
(***************************************************************************)
\* set_batch_remaining leaves a batch, whatever is written in it.
LEMMA SetRemainingType ==
    ASSUME TypeOK, NEW b \in BatchIds, NEW n \in Int
    PROVE  SetRemaining(b, n) \in Batch
<1>1. batches[b] \in Batch
  BY LenProperties, ElementOfSeq DEF TypeOK, BatchIds
<1>2. (n = 0) \in BOOLEAN
  OBVIOUS
<1>3. QED
  BY <1>1, <1>2 DEF SetRemaining, Batch

\* Replacing one batch, or every batch, by a batch leaves a table of batches.
LEMMA BatchReplaced ==
    ASSUME TypeOK, NEW b \in BatchIds, NEW v \in Batch
    PROVE  /\ [batches EXCEPT ![b] = v] \in Seq(Batch)
           /\ DOMAIN [batches EXCEPT ![b] = v] = BatchIds
<1>1. b \in 1..Len(batches)
  BY LenProperties DEF TypeOK, BatchIds
<1>2. QED
  BY <1>1, ExceptSeq, LenProperties DEF TypeOK, BatchIds

\* What an allocation takes from the batches leaves a table of batches.
LEMMA TakenFromType ==
    ASSUME TypeOK, NEW order, NEW take, NEW n \in Nat,
           order \in [1..n -> BatchIds], take \in [1..n -> Int]
    PROVE  /\ TakenFrom(order, take) \in Seq(Batch)
           /\ DOMAIN TakenFrom(order, take) = BatchIds
<1>1. /\ Len(batches) \in Nat /\ BatchIds = 1..Len(batches)
      /\ \A b \in BatchIds : batches[b] \in Batch
  BY LenProperties, ElementOfSeq DEF TypeOK, BatchIds
<1>2. ASSUME NEW b \in BatchIds, b \in Range(order)
      PROVE  LET i == CHOOSE i \in DOMAIN order : order[i] = b
             IN  SetRemaining(b, batches[b].remaining - take[i]) \in Batch
  <2> DEFINE i == CHOOSE i \in DOMAIN order : order[i] = b
  <2>1. \E j \in DOMAIN order : order[j] = b
    BY <1>2 DEF Range
  <2>2. i \in DOMAIN order
    BY <2>1
  <2>3. i \in 1..n
    BY <2>2
  <2>4. take[i] \in Int /\ batches[b].remaining \in Int
    BY <2>3, <1>1 DEF Batch
  <2>5. batches[b].remaining - take[i] \in Int
    BY <2>4
  <2>6. QED
    BY <2>5, SetRemainingType
<1>3. TakenFrom(order, take) \in [1..Len(batches) -> Batch]
  BY <1>1, <1>2 DEF TakenFrom
<1>4. QED
  BY <1>1, <1>3, FunctionIsSeq

\* A new batch extends the table.
LEMMA InsertType ==
    ASSUME TypeOK, NEW v \in Batch, Insert(v)
    PROVE  batches' \in Seq(Batch)
BY AppendProperties DEF TypeOK, Insert

\* A row of Write keeps the journal a journal.
LEMMA WriteOne ==
    ASSUME TypeOK, NEW row \in Movement, Write(<<row>>)
    PROVE  journal' \in Seq(Movement)
<1>1. <<row>> \in Seq(Movement)
  OBVIOUS
<1>2. QED
  BY <1>1, WriteAppends DEF TypeOK

\* add_stock keeps the tables well typed.
LEMMA AddStockType ==
    ASSUME LedgerConstants, NullIsNoNumber, TypeOK,
           NEW a \in Articles, NEW l \in Locations, NEW q \in 0..MaxQuantity,
           NEW d \in Dates \cup {Null}, NEW p \in Prices \cup {Null}, NEW m \in Moments,
           NEW r \in EntryReasons, NEW k \in Keys \cup {Null},
           AddStock(a, l, q, d, p, m, r, k)
    PROVE  TypeOK'
<1> DEFINE key == CallerKey("add_stock", k, 0)
           b   == Len(batches) + 1
<1>1. /\ q \in Int /\ p \in Nat \cup {Null} /\ r \in Reasons /\ b \in Nat
      /\ d \in Nat \cup {Null} /\ m \in Nat
  BY LenProperties DEF LedgerConstants, Reasons, TypeOK
<1>2. batches' \in Seq(Batch)
  <2>1. NewBatch(a, l, q, d, m, p) \in Batch
    BY <1>1 DEF NewBatch, Batch
  <2>2. QED
    BY <2>1, InsertType DEF AddStock
<1>3. journal' \in Seq(Movement)
  <2>1. CostOf(q, p) \in Int \cup {Null}
    BY <1>1, CostType
  <2>2. key \in Key \cup {Null}
    BY CallerKeyType
  <2>3. MovementRow(a, b, q, r, CostOf(q, p), key) \in Movement
    BY <1>1, <2>1, <2>2, MovementRowType
  <2>4. QED
    BY <2>3, WriteOne DEF AddStock
<1>4. observed' \in SUBSET (Articles \X Nat)
  BY <1>1 DEF AddStock, TypeOK
<1>5. QED
  BY <1>2, <1>3, <1>4 DEF TypeOK

\* The batches of an article, or open at a place, are batches.
LEMMA CandidatesAreBatches ==
    /\ \A S : OpenOf(S) \subseteq BatchIds
    /\ \A a, l : At(a, l) \subseteq BatchIds
BY DEF OpenOf, At

\* An order of allocation is a list of batches, no longer than there are.
LEMMA OrdersAreFunctions ==
    ASSUME NEW S, S \subseteq BatchIds, NEW order \in Orders(S)
    PROVE  \E n \in Nat : order \in [1..n -> BatchIds] /\ order \in [1..n -> S]
<1>1. PICK n \in 1..Cardinality(S) : order \in [1..n -> S]
  BY DEF Orders
<1>2. n \in Nat
  OBVIOUS
<1>3. QED
  BY <1>1, <1>2

\* What consume writes: one row for each of the n batches the allocation touches.
ConsumedAs(p, q, r, k, n, order, take, rows) ==
    LET S == OpenOf({a \in Articles : ProductOf[a] = p})
    IN  /\ n \in Nat \ {0}
        /\ order \in [1..n -> BatchIds] /\ order \in [1..n -> S]
        /\ take \in [1..n -> Int]
        /\ Allocates(order, take, S, q)
        /\ batches' = TakenFrom(order, take)
        /\ rows \in Seq(Movement) /\ Len(rows) = n /\ Write(rows)
        /\ \A i \in 1..n :
              rows[i] = MovementRow(batches[order[i]].article, order[i], -take[i], r,
                                    CostOf(take[i], batches[order[i]].price),
                                    CallerKey("consume", k, i - 1))

\* consume writes nothing else.
LEMMA ConsumeWrites ==
    ASSUME LedgerConstants, NullIsNoNumber, TypeOK, NEW p \in Products,
           NEW q \in Nat, NEW r \in OutReasons, NEW k \in Keys \cup {Null},
           Consume(p, q, r, k)
    PROVE  \E n, order, take, rows :
              ConsumedAs(p, q, r, k, n, order, take, rows)
<1> DEFINE S == OpenOf({a \in Articles : ProductOf[a] = p})
           row(order, take, i) ==
               MovementRow(batches[order[i]].article, order[i], -take[i], r,
                           CostOf(take[i], batches[order[i]].price),
                           CallerKey("consume", k, i - 1))
<1>1. PICK order \in Orders(S) : \E take \in [DOMAIN order -> 0..q] :
         /\ Allocates(order, take, S, q)
         /\ batches' = TakenFrom(order, take)
         /\ Write([i \in DOMAIN order |-> row(order, take, i)])
  BY DEF Consume
<1>2. PICK take \in [DOMAIN order -> 0..q] :
         /\ Allocates(order, take, S, q)
         /\ batches' = TakenFrom(order, take)
         /\ Write([i \in DOMAIN order |-> row(order, take, i)])
  BY <1>1
<1>3. S \subseteq BatchIds
  BY CandidatesAreBatches
<1>4. PICK n \in 1..Cardinality(S) : order \in [1..n -> S]
  BY DEF Orders
<1> DEFINE rows == [i \in 1..n |-> row(order, take, i)]
<1>5. ConsumedAs(p, q, r, k, n, order, take, rows) <=>
        /\ n \in Nat \ {0}
        /\ order \in [1..n -> BatchIds] /\ order \in [1..n -> S]
        /\ take \in [1..n -> Int]
        /\ Allocates(order, take, S, q)
        /\ batches' = TakenFrom(order, take)
        /\ rows \in Seq(Movement) /\ Len(rows) = n /\ Write(rows)
        /\ \A i \in 1..n : rows[i] = row(order, take, i)
  BY DEF ConsumedAs
<1> HIDE DEF S
<1>6. /\ n \in Nat \ {0} /\ DOMAIN order = 1..n /\ take \in [1..n -> Int]
      /\ order \in [1..n -> BatchIds]
  BY <1>3, <1>4
<1>7. ASSUME NEW i \in 1..n PROVE row(order, take, i) \in Movement
  <2>1. order[i] \in BatchIds /\ order[i] \in Nat /\ batches[order[i]] \in Batch
    BY <1>6, LenProperties, ElementOfSeq DEF TypeOK, BatchIds
  <2>2. /\ batches[order[i]].article \in Articles
        /\ batches[order[i]].price \in Nat \cup {Null}
    BY <2>1 DEF Batch
  <2>3. take[i] \in Int /\ -take[i] \in Int /\ i - 1 \in Nat
    BY <1>6
  <2>4. /\ CostOf(take[i], batches[order[i]].price) \in Int \cup {Null}
        /\ CallerKey("consume", k, i - 1) \in Key \cup {Null}
        /\ r \in Reasons
    BY <2>2, <2>3, CostType, CallerKeyType DEF LedgerConstants, Reasons
  <2>5. QED
    BY <2>1, <2>2, <2>3, <2>4, MovementRowType
<1>8. Write(rows)
  BY <1>2, <1>6
<1> HIDE DEF row
<1>9. rows \in Seq(Movement) /\ Len(rows) = n /\ \A i \in 1..n : rows[i] = row(order, take, i)
  BY <1>6, <1>7, FunctionIsSeq
<1> HIDE DEF rows
<1>10. QED
  BY <1>2, <1>4, <1>5, <1>6, <1>8, <1>9

\* consume keeps the tables well typed.
LEMMA ConsumeType ==
    ASSUME LedgerConstants, NullIsNoNumber, TypeOK, NEW p \in Products,
           NEW q \in Nat, NEW r \in OutReasons, NEW k \in Keys \cup {Null},
           Consume(p, q, r, k)
    PROVE  TypeOK'
<1>1. PICK n, order, take, rows : ConsumedAs(p, q, r, k, n, order, take, rows)
  BY ConsumeWrites
<1>2. /\ n \in Nat
      /\ order \in [1..n -> BatchIds] /\ take \in [1..n -> Int]
      /\ batches' = TakenFrom(order, take)
      /\ rows \in Seq(Movement) /\ Write(rows)
  BY <1>1 DEF ConsumedAs
<1>3. batches' \in Seq(Batch)
  BY <1>2, TakenFromType
<1>4. journal' \in Seq(Movement)
  BY <1>2, WriteAppends DEF TypeOK
<1>5. QED
  BY <1>3, <1>4 DEF TypeOK, Consume

\* consume_batch keeps the tables well typed.
LEMMA ConsumeBatchType ==
    ASSUME LedgerConstants, NullIsNoNumber, TypeOK, NEW b \in BatchIds,
           NEW q \in Nat, NEW r \in OutReasons, NEW k \in Keys \cup {Null},
           ConsumeBatch(b, q, r, k)
    PROVE  TypeOK'
<1> DEFINE key == CallerKey("consume_batch", k, 0)
<1>1. /\ batches[b] \in Batch /\ b \in Nat /\ q \in Int /\ -q \in Int
      /\ r \in Reasons
  BY LenProperties, ElementOfSeq DEF TypeOK, BatchIds, LedgerConstants, Reasons
<1>2. /\ batches[b].article \in Articles
      /\ batches[b].price \in Nat \cup {Null}
      /\ batches[b].remaining - q \in Int
  BY <1>1 DEF Batch
<1>3. batches' \in Seq(Batch)
  BY <1>2, SetRemainingType, BatchReplaced DEF ConsumeBatch
<1>4. MovementRow(batches[b].article, b, -q, r, CostOf(q, batches[b].price), key)
         \in Movement
  BY <1>1, <1>2, CostType, CallerKeyType, MovementRowType
<1>5. journal' \in Seq(Movement)
  BY <1>4, WriteOne DEF ConsumeBatch
<1>6. QED
  BY <1>3, <1>5 DEF TypeOK, ConsumeBatch

\* open_batch keeps the tables well typed, the shortened date included.
LEMMA OpenBatchType ==
    ASSUME LedgerConstants, TypeOK, NEW b \in BatchIds, NEW m \in Moments,
           OpenBatch(b, m)
    PROVE  TypeOK'
<1> DEFINE life == OpenedLife[ProductOf[batches[b].article]]
           date == IF life > 0 /\ (batches[b].bestBefore = Null \/ m + life < batches[b].bestBefore)
                   THEN m + life ELSE batches[b].bestBefore
           opened == [batches[b] EXCEPT !.opened = TRUE, !.bestBefore = date]
<1>1. batches[b] \in Batch
  BY ElementOfSeq, LenProperties DEF TypeOK, BatchIds
<1>2. life \in Nat /\ m \in Nat
  BY <1>1 DEF LedgerConstants, Batch
<1>3. date \in Nat \cup {Null}
  <2>1. m + life \in Nat
    BY <1>2
  <2>2. batches[b].bestBefore \in Nat \cup {Null}
    BY <1>1 DEF Batch
  <2>3. QED
    BY <2>1, <2>2
<1>4. opened \in Batch
  BY <1>1, <1>3 DEF Batch
<1>5. batches' = [batches EXCEPT ![b] = opened]
  BY DEF OpenBatch
<1> HIDE DEF opened
<1>6. batches' \in Seq(Batch)
  BY <1>4, <1>5, BatchReplaced
<1>7. QED
  BY <1>6 DEF OpenBatch, TypeOK

\* transfer_batch keeps the tables well typed.
LEMMA TransferBatchType ==
    ASSUME TypeOK, NEW b \in BatchIds, NEW l \in Locations, TransferBatch(b, l)
    PROVE  TypeOK'
<1>1. batches[b] \in Batch /\ b \in Nat
  BY ElementOfSeq, LenProperties DEF TypeOK, BatchIds
<1>2. [batches[b] EXCEPT !.location = l] \in Batch /\ batches[b].article \in Articles
  BY <1>1 DEF Batch
<1>3. batches' \in Seq(Batch)
  BY <1>2, BatchReplaced DEF TransferBatch
<1>4. MovementRow(batches[b].article, b, 0, "transfer", Null, Null) \in Movement
  BY <1>1, <1>2 DEF MovementRow, Movement, Reasons
<1>5. journal' \in Seq(Movement)
  BY <1>4, WriteOne DEF TransferBatch
<1>6. QED
  BY <1>3, <1>5 DEF TypeOK, TransferBatch

\* An inventory that counted less keeps the tables well typed.
LEMMA AdjustDownType ==
    ASSUME LedgerConstants, TypeOK, NEW a \in Articles, NEW l \in Locations,
           NEW c \in Nat, AdjustDown(a, l, c)
    PROVE  TypeOK'
<1> DEFINE S == At(a, l)
<1>1. PICK missing \in 1..MaxStock :
         /\ \E order \in Orders(S) : \E take \in [DOMAIN order -> 0..missing] :
               batches' = TakenFrom(order, take)
         /\ Write(<<MovementRow(a, Null, -missing, "inventory", Null, Null)>>)
         /\ UNCHANGED observed
  BY DEF AdjustDown
<1>2. PICK order \in Orders(S) : \E take \in [DOMAIN order -> 0..missing] :
               batches' = TakenFrom(order, take)
  BY <1>1
<1>3. PICK take \in [DOMAIN order -> 0..missing] : batches' = TakenFrom(order, take)
  BY <1>2
<1>4. PICK n \in Nat : order \in [1..n -> BatchIds]
  BY CandidatesAreBatches, OrdersAreFunctions
<1>5. take \in [1..n -> Int]
  BY <1>4
<1>6. batches' \in Seq(Batch)
  BY <1>3, <1>4, <1>5, TakenFromType
<1>7. MovementRow(a, Null, -missing, "inventory", Null, Null) \in Movement
  BY DEF MovementRow, Movement, Reasons
<1>8. journal' \in Seq(Movement)
  BY <1>1, <1>7, WriteOne
<1>9. QED
  BY <1>1, <1>6, <1>8 DEF TypeOK

\* An inventory that counted more keeps the tables well typed.
LEMMA AdjustUpType ==
    ASSUME LedgerConstants, TypeOK, NEW a \in Articles, NEW l \in Locations,
           NEW c \in Nat, NEW m \in Moments, AdjustUp(a, l, c, m)
    PROVE  TypeOK'
<1>1. PICK found \in 1..c :
         /\ Insert(NewBatch(a, l, found, Null, m, Null))
         /\ Write(<<MovementRow(a, Len(batches) + 1, found, "inventory", Null, Null)>>)
         /\ UNCHANGED observed
  BY DEF AdjustUp
<1>2. m \in Nat /\ Len(batches) + 1 \in Nat
  BY LenProperties DEF LedgerConstants, TypeOK
<1>3. NewBatch(a, l, found, Null, m, Null) \in Batch
  BY <1>2 DEF NewBatch, Batch
<1>4. MovementRow(a, Len(batches) + 1, found, "inventory", Null, Null) \in Movement
  BY <1>2 DEF MovementRow, Movement, Reasons
<1>5. QED
  BY <1>1, <1>3, <1>4, InsertType, WriteOne DEF TypeOK

\* correct_movement keeps the tables well typed, a row without batch included.
LEMMA CorrectMovementType ==
    ASSUME NullIsNoNumber, TypeOK, NEW id \in MovementIds, CorrectMovement(id)
    PROVE  TypeOK'
<1> DEFINE b     == journal[id].batch
           after == batches[b].remaining - journal[id].quantity
<1>1. Reversal(id) \in Movement
  BY ReversalType
<1>2. journal' \in Seq(Movement)
  BY <1>1, WriteOne DEF CorrectMovement
<1>3. CASE b = Null
  BY <1>2, <1>3 DEF CorrectMovement, TypeOK
<1>4. CASE b # Null
  <2>1. after >= 0 /\ batches' = [batches EXCEPT ![b] = SetRemaining(b, after)]
    BY <1>4 DEF CorrectMovement
  <2>2. batches' \in Seq(Batch)
    <3>1. CASE b \in BatchIds
      <4>1. batches[b] \in Batch /\ journal[id] \in Movement
        BY <3>1, ElementOfSeq, LenProperties DEF TypeOK, BatchIds, MovementIds
      <4>2. after \in Int
        BY <4>1 DEF Batch, Movement
      <4>3. QED
        BY <2>1, <3>1, <4>2, SetRemainingType, BatchReplaced
    <3>2. CASE b \notin BatchIds
      <4>1. batches' = batches
        BY <2>1, <3>2, LenProperties DEF TypeOK, BatchIds
      <4>2. QED
        BY <4>1 DEF TypeOK
    <3>3. QED
      BY <3>1, <3>2
  <2>3. QED
    BY <1>2, <2>2 DEF CorrectMovement, TypeOK
<1>5. QED
  BY <1>3, <1>4

\* The rows a price correction writes, two for each row it rewrites.
LEMMA RepricedRows ==
    ASSUME TypeOK, NEW n \in Nat, NEW ids \in [1..n -> MovementIds],
           NEW price \in Nat \cup {Null}
    PROVE  /\ Repriced(ids, price) \in Seq(Movement)
           /\ Len(Repriced(ids, price)) = 2 * n
           /\ \A i \in 1..n :
                 /\ Repriced(ids, price)[2 * i - 1] = Reversal(ids[i])
                 /\ Repriced(ids, price)[2 * i] = Reprice(ids[i], price)
<1> DEFINE row(k) == IF k % 2 = 1 THEN Reversal(ids[(k + 1) \div 2])
                                  ELSE Reprice(ids[k \div 2], price)
<1>1. Len(ids) = n /\ 2 * n \in Nat
  BY FunctionIsSeq
<1>2. Repriced(ids, price) = [k \in 1..(2 * n) |-> row(k)]
  BY <1>1 DEF Repriced
<1>3. ASSUME NEW k \in 1..(2 * n) PROVE row(k) \in Movement
  <2>1. CASE k % 2 = 1
    <3>1. (k + 1) \div 2 \in 1..n
      BY <2>1
    <3>2. QED
      BY <2>1, <3>1, ReversalType
  <2>2. CASE k % 2 # 1
    <3>1. k \div 2 \in 1..n
      BY <2>2
    <3>2. QED
      BY <2>2, <3>1, RepriceType
  <2>3. QED
    BY <2>1, <2>2
<1>4. [k \in 1..(2 * n) |-> row(k)] \in [1..(2 * n) -> Movement]
  BY <1>3
<1>5. ASSUME NEW i \in 1..n
      PROVE  row(2 * i - 1) = Reversal(ids[i]) /\ row(2 * i) = Reprice(ids[i], price)
  <2>1. /\ (2 * i - 1) % 2 = 1 /\ ((2 * i - 1) + 1) \div 2 = i
        /\ (2 * i) % 2 = 0 /\ (2 * i) \div 2 = i
    OBVIOUS
  <2>2. QED
    BY <2>1
<1>6. ASSUME NEW i \in 1..n PROVE 2 * i - 1 \in 1..(2 * n) /\ 2 * i \in 1..(2 * n)
  OBVIOUS
<1> HIDE DEF row
<1>7. QED
  BY <1>1, <1>2, <1>4, <1>5, <1>6, FunctionIsSeq

\* A set of rows of the journal is finite, and its cardinality a number.
LEMMA RowsAreFinite ==
    ASSUME TypeOK, NEW S, S \subseteq MovementIds
    PROVE  IsFiniteSet(S) /\ Cardinality(S) \in Nat
<1>1. MovementIds = 1..Len(journal) /\ Len(journal) \in Nat
  BY LenProperties DEF TypeOK, MovementIds
<1>2. IsFiniteSet(MovementIds)
  BY <1>1, FS_Interval
<1>3. QED
  BY <1>2, FS_Subset, FS_CardinalityType

\* correct_price keeps the tables well typed.
LEMMA CorrectPriceType ==
    ASSUME LedgerConstants, TypeOK, NEW b \in BatchIds,
           NEW price \in Prices \cup {Null}, CorrectPrice(b, price)
    PROVE  TypeOK'
<1>1. price \in Nat \cup {Null}
  BY DEF LedgerConstants
<1>2. batches[b] \in Batch
  BY ElementOfSeq, LenProperties DEF TypeOK, BatchIds
<1>3. batches' \in Seq(Batch)
  <2>1. [batches[b] EXCEPT !.price = price] \in Batch
    BY <1>1, <1>2 DEF Batch
  <2>2. QED
    BY <2>1, BatchReplaced DEF CorrectPrice
<1>4. journal' \in Seq(Movement)
  <2>1. PICK ids \in [1..Cardinality(ToReprice(b)) -> ToReprice(b)] :
           Write(Repriced(ids, price))
    BY DEF CorrectPrice
  <2>2. PICK n \in Nat : ids \in [1..n -> MovementIds]
    <3>1. ToReprice(b) \subseteq MovementIds
      BY DEF ToReprice
    <3>2. QED
      BY <3>1, RowsAreFinite
  <2>3. QED
    BY <1>1, <2>1, <2>2, RepricedRows, WriteAppends DEF TypeOK
<1>5. observed' \in SUBSET (Articles \X Nat)
  <2>1. batches[b].article \in Articles
    BY <1>2 DEF Batch
  <2>2. CASE price = Null
    BY <2>2 DEF CorrectPrice, TypeOK
  <2>3. CASE price # Null
    <3>1. observed' = observed \cup {<<batches[b].article, price>>} /\ price \in Nat
      BY <1>1, <2>3 DEF CorrectPrice
    <3>2. QED
      BY <2>1, <3>1 DEF TypeOK
  <2>4. QED
    BY <2>2, <2>3
<1>6. QED
  BY <1>3, <1>4, <1>5 DEF TypeOK

(* The tables stay well formed: every row a movement, every batch a batch,
   whatever the operations, their order and their arguments. *)
THEOREM TypeCorrect == Spec => []TypeOK
<1>1. Init => TypeOK
  BY EmptySeq DEF Init, TypeOK
<1>2. TypeOK /\ [Next]_vars => TypeOK'
  <2> SUFFICES ASSUME TypeOK, [Next]_vars PROVE TypeOK'
    OBVIOUS
  <2> USE LedgerConstants, NullIsNoNumber
  <2>1. ASSUME NEW a \in Articles, NEW l \in Locations, NEW q \in 0..MaxQuantity,
               NEW d \in Dates \cup {Null}, NEW p \in Prices \cup {Null},
               NEW m \in Moments, NEW r \in EntryReasons, NEW k \in Keys \cup {Null},
               AddStock(a, l, q, d, p, m, r, k)
        PROVE  TypeOK'
    BY <2>1, AddStockType
  <2>2. ASSUME NEW p \in Products, NEW q \in 1..MaxStock, NEW r \in OutReasons,
               NEW k \in Keys \cup {Null}, Consume(p, q, r, k)
        PROVE  TypeOK'
    BY <2>2, ConsumeType
  <2>3. ASSUME NEW b \in BatchIds, NEW r \in OutReasons, NEW k \in Keys \cup {Null},
               NEW q \in 1..batches[b].remaining, ConsumeBatch(b, q, r, k)
        PROVE  TypeOK'
    BY <2>3, ConsumeBatchType
  <2>4. ASSUME NEW b \in BatchIds, NEW m \in Moments, OpenBatch(b, m)
        PROVE  TypeOK'
    BY <2>4, OpenBatchType
  <2>5. ASSUME NEW b \in BatchIds, NEW l \in Locations, TransferBatch(b, l)
        PROVE  TypeOK'
    BY <2>5, TransferBatchType
  <2>6. ASSUME NEW a \in Articles, NEW l \in Locations, NEW c \in 0..MaxQuantity,
               AdjustDown(a, l, c)
        PROVE  TypeOK'
    BY <2>6, AdjustDownType
  <2>7. ASSUME NEW a \in Articles, NEW l \in Locations, NEW c \in 0..MaxQuantity,
               NEW m \in Moments, AdjustUp(a, l, c, m)
        PROVE  TypeOK'
    BY <2>7, AdjustUpType
  <2>8. ASSUME NEW id \in MovementIds, CorrectMovement(id)
        PROVE  TypeOK'
    BY <2>8, CorrectMovementType
  <2>9. ASSUME NEW b \in BatchIds, NEW p \in Prices \cup {Null}, CorrectPrice(b, p)
        PROVE  TypeOK'
    BY <2>9, CorrectPriceType
  <2>10. CASE UNCHANGED vars
    BY <2>10 DEF vars, TypeOK
  <2>11. QED
    BY <2>1, <2>2, <2>3, <2>4, <2>5, <2>6, <2>7, <2>8, <2>9, <2>10 DEF Next
<1>3. QED
  BY <1>1, <1>2, PTL DEF Spec

(***************************************************************************)
(* The journal: corrections mirror one row once, and keys stay apart, in   *)
(* whatever order operations, corrections and price corrections come.      *)
(*                                                                         *)
(* Neither is inductive alone: a key says what its row is (KeysTell), so a *)
(* row that was never corrected has no derived key in the journal, and a   *)
(* consumption whose first part is unknown has no other part there.        *)
(***************************************************************************)
CallerOps == {"add_stock", "consume", "consume_batch"}

FirstPart(key) == [key EXCEPT !.part = 0]

KeyTells(id) ==
    LET key == journal[id].key
    IN  /\ key.op = "correction" => journal[id].corrects = key.on
        /\ key.op = "reprice" => Corrected(key.on)
        /\ key.op \in CallerOps /\ key.part > 0 =>
              \E d \in MovementIds : journal[d].key = FirstPart(key)

KeysTell == \A id \in MovementIds : journal[id].key # Null => KeyTells(id)

\* What CorrectionsMirror says of one correction.
Mirrors(c) ==
    LET t == journal[c].corrects
    IN  /\ t \in 1..(c - 1)
        /\ journal[t].corrects = Null
        /\ journal[c].batch = journal[t].batch
        /\ journal[c].article = journal[t].article
        /\ journal[c].reason = journal[t].reason
        /\ journal[c].quantity = -journal[t].quantity
        /\ journal[c].cost = Flip(journal[t].cost)

JournalInv == TypeOK /\ CorrectionsMirror /\ KeysUnique /\ KeysTell

(***************************************************************************)
(* Rows that may follow the journal                                        *)
(***************************************************************************)
MirrorsOneRow(row) ==
    LET t == row.corrects
    IN  /\ t \in MovementIds /\ ~Corrected(t) /\ journal[t].corrects = Null
        /\ row = Reversal(t)

NewKeyTells(rows, k) ==
    LET key == rows[k].key
    IN  /\ \A id \in MovementIds : journal[id].key # key
        /\ \A l \in 1..Len(rows) : rows[l].key = key => l = k
        /\ key.op = "correction" => rows[k].corrects = key.on
        /\ key.op = "reprice" => \E l \in 1..Len(rows) : rows[l].corrects = key.on
        /\ key.op \in CallerOps /\ key.part > 0 =>
              \E l \in 1..Len(rows) : rows[l].key = FirstPart(key)

Fit(rows) ==
    \A k \in 1..Len(rows) :
        /\ rows[k].corrects # Null =>
              /\ MirrorsOneRow(rows[k])
              /\ \A l \in 1..Len(rows) : rows[l].corrects = rows[k].corrects => l = k
        /\ rows[k].key # Null => NewKeyTells(rows, k)

\* Rows that fit keep corrections mirrors and keys apart.
LEMMA FittingRows ==
    ASSUME JournalInv, TypeOK', NEW rows \in Seq(Movement), Write(rows), Fit(rows)
    PROVE  JournalInv'
<1>0. PICK n \in Nat : n = Len(journal)
  BY LenProperties DEF JournalInv, TypeOK
<1>1. /\ MovementIds = 1..n /\ n \in Nat /\ Len(rows) \in Nat
      /\ MovementIds' = 1..(n + Len(rows))
      /\ \A i \in MovementIds : journal'[i] = journal[i]
      /\ \A k \in 1..Len(rows) : journal'[n + k] = rows[k]
  BY <1>0, WriteAppends, LenProperties DEF JournalInv, TypeOK
<1>2. \A c \in MovementIds' : c \in MovementIds \/ \E k \in 1..Len(rows) : c = n + k
  <2>1. ASSUME NEW c \in MovementIds', c \notin MovementIds PROVE c - n \in 1..Len(rows)
    BY <1>1, <2>1
  <2>2. QED
    BY <1>1, <2>1
<1>3. \A i \in MovementIds : i \in MovementIds'
  BY <1>1
<1>4. \A k \in 1..Len(rows) : n + k \in MovementIds' /\ n + k \notin MovementIds
  BY <1>1
<1>5. \A t : Corrected(t) => Corrected(t)'
  BY <1>1, <1>3 DEF Corrected
<1>6. CorrectionsMirror'
  <2>1. ASSUME NEW c \in MovementIds', journal'[c].corrects # Null
        PROVE  Mirrors(c)'
    <3>1. CASE c \in MovementIds
      <4>1. journal[c].corrects # Null /\ journal'[c] = journal[c]
        BY <1>1, <2>1, <3>1
      <4>2. journal[c].corrects \in 1..(c - 1)
        BY <3>1, <4>1 DEF JournalInv, CorrectionsMirror
      <4>3. journal[c].corrects \in MovementIds
        BY <1>1, <3>1, <4>2
      <4>4. journal'[journal[c].corrects] = journal[journal[c].corrects]
        BY <1>1, <4>3
      <4>5. QED
        BY <3>1, <4>1, <4>2, <4>4 DEF JournalInv, CorrectionsMirror, Mirrors
    <3>2. ASSUME NEW k \in 1..Len(rows), c = n + k PROVE Mirrors(c)'
      <4> DEFINE t == rows[k].corrects
      <4>1. journal'[c] = rows[k] /\ rows[k].corrects # Null
        BY <1>1, <2>1, <3>2
      <4>2. t \in MovementIds /\ journal[t].corrects = Null /\ rows[k] = Reversal(t)
        BY <4>1 DEF Fit, MirrorsOneRow
      <4>3. t \in 1..(c - 1) /\ journal'[t] = journal[t]
        BY <1>1, <3>2, <4>2
      <4>4. journal[t] \in Movement
        BY <1>0, <1>1, <4>2, ElementOfSeq DEF JournalInv, TypeOK
      <4>5. /\ Reversal(t).batch = journal[t].batch
            /\ Reversal(t).article = journal[t].article
            /\ Reversal(t).reason = journal[t].reason
            /\ Reversal(t).quantity = -journal[t].quantity
            /\ Reversal(t).cost = Flip(journal[t].cost)
        BY <4>4 DEF Reversal, Movement
      <4>6. journal'[c] = Reversal(t) /\ journal'[c].corrects = t
        BY <4>1, <4>2
      <4> HIDE DEF t
      <4>7. QED
        BY <4>2, <4>3, <4>5, <4>6 DEF Mirrors
    <3>3. QED
      BY <1>2, <3>1, <3>2
  <2>2. ASSUME NEW c \in MovementIds', NEW d \in MovementIds',
               journal'[c].corrects # Null, journal'[c].corrects = journal'[d].corrects
        PROVE  c = d
    <3>1. CASE c \in MovementIds /\ d \in MovementIds
      BY <1>1, <2>2, <3>1 DEF JournalInv, CorrectionsMirror
    <3>2. ASSUME NEW k \in 1..Len(rows), NEW l \in 1..Len(rows), c = n + k, d = n + l
          PROVE  c = d
      BY <1>1, <2>2, <3>2 DEF Fit
    <3>3. ASSUME NEW k \in 1..Len(rows), NEW i \in MovementIds,
                 journal'[n + k].corrects # Null,
                 journal'[n + k].corrects = journal'[i].corrects
          PROVE  FALSE
      BY <1>1, <3>3 DEF Fit, MirrorsOneRow, Corrected
    <3>4. QED
      BY <1>2, <2>2, <3>1, <3>2, <3>3
  <2>3. QED
    BY <2>1, <2>2 DEF CorrectionsMirror, Mirrors
<1>7. KeysUnique'
  <2>1. SUFFICES ASSUME NEW c \in MovementIds', NEW d \in MovementIds',
                        journal'[c].key # Null, journal'[c].key = journal'[d].key
                 PROVE  c = d
    BY DEF KeysUnique
  <2>2. CASE c \in MovementIds /\ d \in MovementIds
    BY <1>1, <2>1, <2>2 DEF JournalInv, KeysUnique
  <2>3. ASSUME NEW k \in 1..Len(rows), NEW l \in 1..Len(rows), c = n + k, d = n + l
        PROVE  c = d
    BY <1>1, <2>1, <2>3 DEF Fit, NewKeyTells
  <2>4. ASSUME NEW k \in 1..Len(rows), NEW i \in MovementIds,
               journal'[n + k].key # Null, journal'[n + k].key = journal'[i].key
        PROVE  FALSE
    <3>1. rows[k].key # Null /\ rows[k].key = journal[i].key
      BY <1>1, <2>4
    <3>2. NewKeyTells(rows, k)
      BY <3>1 DEF Fit
    <3>3. QED
      BY <3>1, <3>2 DEF NewKeyTells
  <2>5. QED
    BY <1>2, <2>1, <2>2, <2>3, <2>4
<1>8. KeysTell'
  <2>1. ASSUME NEW i \in MovementIds, journal'[i].key # Null PROVE KeyTells(i)'
    <3>1. journal'[i] = journal[i] /\ KeyTells(i)
      BY <1>1, <2>1 DEF JournalInv, KeysTell
    <3>2. QED
      BY <1>1, <1>3, <1>5, <3>1 DEF KeyTells, Corrected
  <2>2. ASSUME NEW k \in 1..Len(rows), journal'[n + k].key # Null PROVE KeyTells(n + k)'
    <3>1. journal'[n + k] = rows[k] /\ NewKeyTells(rows, k)
      BY <1>1, <2>2 DEF Fit
    <3> DEFINE key == rows[k].key
    <3>2. key.op = "correction" => journal'[n + k].corrects = key.on
      BY <3>1 DEF NewKeyTells
    <3>3. key.op = "reprice" => Corrected(key.on)'
      <4> SUFFICES ASSUME key.op = "reprice" PROVE Corrected(key.on)'
        OBVIOUS
      <4>1. PICK l \in 1..Len(rows) : rows[l].corrects = key.on
        BY <3>1 DEF NewKeyTells
      <4>2. n + l \in MovementIds' /\ journal'[n + l].corrects = key.on
        BY <1>1, <1>4, <4>1
      <4>3. QED
        BY <4>2 DEF Corrected
    <3>4. key.op \in CallerOps /\ key.part > 0 =>
             \E d \in MovementIds' : journal'[d].key = FirstPart(key)
      <4> SUFFICES ASSUME key.op \in CallerOps, key.part > 0
                   PROVE  \E d \in MovementIds' : journal'[d].key = FirstPart(key)
        OBVIOUS
      <4>1. PICK l \in 1..Len(rows) : rows[l].key = FirstPart(key)
        BY <3>1 DEF NewKeyTells
      <4>2. n + l \in MovementIds' /\ journal'[n + l].key = FirstPart(key)
        BY <1>1, <1>4, <4>1
      <4>3. QED
        BY <4>2
    <3>5. QED
      BY <3>1, <3>2, <3>3, <3>4 DEF KeyTells, FirstPart
  <2>3. ASSUME NEW c \in MovementIds', journal'[c].key # Null PROVE KeyTells(c)'
    <3>1. CASE c \in MovementIds
      BY <2>1, <2>3, <3>1
    <3>2. ASSUME NEW k \in 1..Len(rows), c = n + k PROVE KeyTells(c)'
      <4>1. KeyTells(n + k)'
        BY <2>2, <2>3, <3>2
      <4>2. QED
        BY <4>1, <3>2 DEF KeyTells
    <3>3. QED
      BY <1>2, <3>1, <3>2
  <2>4. QED
    BY <2>3 DEF KeysTell
<1>9. QED
  BY <1>6, <1>7, <1>8 DEF JournalInv

(***************************************************************************)
(* What each operation writes fits                                         *)
(***************************************************************************)
\* One row that corrects nothing and has no key, or one nobody used.
LEMMA PlainRowFits ==
    ASSUME JournalInv, NEW row \in Movement, row.corrects = Null,
           row.key # Null => /\ row.key.op \in CallerOps /\ row.key.part = 0
                             /\ Unused(row.key)
    PROVE  Fit(<<row>>) /\ <<row>> \in Seq(Movement)
<1>1. <<row>> \in Seq(Movement) /\ 1..Len(<<row>>) = {1} /\ <<row>>[1] = row
  OBVIOUS
<1>2. row.key # Null => NewKeyTells(<<row>>, 1)
  BY <1>1 DEF NewKeyTells, Unused, CallerOps
<1>3. QED
  BY <1>1, <1>2 DEF Fit

\* One plain row written keeps the invariant.
LEMMA PlainStep ==
    ASSUME JournalInv, TypeOK', NEW row \in Movement, row.corrects = Null,
           row.key # Null => /\ row.key.op \in CallerOps /\ row.key.part = 0
                             /\ Unused(row.key),
           Write(<<row>>)
    PROVE  JournalInv'
BY PlainRowFits, FittingRows

\* A caller's key, as part 0 of an operation.
LEMMA FirstCallerKey ==
    ASSUME NEW op \in CallerOps, NEW k \in Keys \cup {Null}, NEW key, key # Null,
           key = CallerKey(op, k, 0)
    PROVE  key.op \in CallerOps /\ key.part = 0
BY DEF CallerKey

\* An entry writes one plain row, under a key nobody used.
LEMMA AddStockFits ==
    ASSUME LedgerConstants, NullIsNoNumber, JournalInv,
           NEW a \in Articles, NEW l \in Locations, NEW q \in 0..MaxQuantity,
           NEW d \in Dates \cup {Null}, NEW p \in Prices \cup {Null}, NEW m \in Moments,
           NEW r \in EntryReasons, NEW k \in Keys \cup {Null},
           AddStock(a, l, q, d, p, m, r, k)
    PROVE  JournalInv'
<1> DEFINE key == CallerKey("add_stock", k, 0)
           b   == Len(batches) + 1
           row == MovementRow(a, b, q, r, CostOf(q, p), key)
<1>1. TypeOK' /\ TypeOK
  BY AddStockType DEF JournalInv
<1>2. /\ q \in Int /\ p \in Nat \cup {Null} /\ r \in Reasons /\ b \in Nat
  BY <1>1, LenProperties DEF LedgerConstants, Reasons, TypeOK
<1>3. CostOf(q, p) \in Int \cup {Null} /\ key \in Key \cup {Null}
  BY <1>2, CostType, CallerKeyType
<1>4. row \in Movement
  BY <1>2, <1>3, MovementRowType
<1>5. Unused(key) /\ Write(<<row>>)
  BY DEF AddStock
<1>6. row.corrects = Null /\ row.key = key
  BY DEF MovementRow
<1>7. key # Null => key.op \in CallerOps /\ key.part = 0
  BY FirstCallerKey DEF CallerOps
<1> HIDE DEF row, key
<1>8. QED
  BY <1>1, <1>4, <1>5, <1>6, <1>7, PlainStep

\* So does a consumption of one batch.
LEMMA ConsumeBatchFits ==
    ASSUME LedgerConstants, NullIsNoNumber, JournalInv, NEW b \in BatchIds,
           NEW q \in Nat, NEW r \in OutReasons, NEW k \in Keys \cup {Null},
           ConsumeBatch(b, q, r, k)
    PROVE  JournalInv'
<1> DEFINE key == CallerKey("consume_batch", k, 0)
           row == MovementRow(batches[b].article, b, -q, r, CostOf(q, batches[b].price), key)
<1>1. TypeOK' /\ TypeOK
  BY ConsumeBatchType DEF JournalInv
<1>2. batches[b] \in Batch /\ b \in Nat /\ q \in Int /\ -q \in Int /\ r \in Reasons
  BY <1>1, LenProperties, ElementOfSeq DEF TypeOK, BatchIds, LedgerConstants, Reasons
<1>3. batches[b].article \in Articles /\ batches[b].price \in Nat \cup {Null}
  BY <1>2 DEF Batch
<1>4. row \in Movement
  BY <1>2, <1>3, CostType, CallerKeyType, MovementRowType
<1>5. Unused(key) /\ Write(<<row>>)
  BY DEF ConsumeBatch
<1>6. row.corrects = Null /\ row.key = key
  BY DEF MovementRow
<1>7. key # Null => key.op \in CallerOps /\ key.part = 0
  BY FirstCallerKey DEF CallerOps
<1> HIDE DEF row, key
<1>8. QED
  BY <1>1, <1>4, <1>5, <1>6, <1>7, PlainStep

\* A transfer writes one row without a key.
LEMMA TransferBatchFits ==
    ASSUME JournalInv, NEW b \in BatchIds, NEW l \in Locations, TransferBatch(b, l)
    PROVE  JournalInv'
<1> DEFINE row == MovementRow(batches[b].article, b, 0, "transfer", Null, Null)
<1>1. TypeOK' /\ TypeOK
  BY TransferBatchType DEF JournalInv
<1>2. batches[b] \in Batch /\ b \in Nat
  BY <1>1, LenProperties, ElementOfSeq DEF TypeOK, BatchIds
<1>3. row \in Movement
  BY <1>2 DEF MovementRow, Movement, Reasons, Batch
<1>4. Write(<<row>>)
  BY DEF TransferBatch
<1>5. row.corrects = Null /\ row.key = Null
  BY DEF MovementRow
<1> HIDE DEF row
<1>6. QED
  BY <1>1, <1>3, <1>4, <1>5, PlainStep

\* An inventory that counts less writes one row without a key or a batch.
LEMMA AdjustDownFits ==
    ASSUME LedgerConstants, JournalInv, NEW a \in Articles, NEW l \in Locations,
           NEW c \in Nat, AdjustDown(a, l, c)
    PROVE  JournalInv'
<1>1. TypeOK'
  BY AdjustDownType DEF JournalInv
<1>2. PICK missing \in 1..MaxStock :
         Write(<<MovementRow(a, Null, -missing, "inventory", Null, Null)>>)
  BY DEF AdjustDown
<1> DEFINE row == MovementRow(a, Null, -missing, "inventory", Null, Null)
<1>3. row \in Movement
  BY DEF MovementRow, Movement, Reasons
<1>4. row.corrects = Null /\ row.key = Null /\ Write(<<row>>)
  BY <1>2 DEF MovementRow
<1> HIDE DEF row
<1>5. QED
  BY <1>1, <1>3, <1>4, PlainStep

\* An inventory that counts more writes one row without a key.
LEMMA AdjustUpFits ==
    ASSUME LedgerConstants, JournalInv, NEW a \in Articles, NEW l \in Locations,
           NEW c \in Nat, NEW m \in Moments, AdjustUp(a, l, c, m)
    PROVE  JournalInv'
<1>1. TypeOK' /\ Len(batches) + 1 \in Nat
  BY AdjustUpType, LenProperties DEF JournalInv, TypeOK
<1>2. PICK found \in 1..c :
         Write(<<MovementRow(a, Len(batches) + 1, found, "inventory", Null, Null)>>)
  BY DEF AdjustUp
<1> DEFINE row == MovementRow(a, Len(batches) + 1, found, "inventory", Null, Null)
<1>3. row \in Movement
  BY <1>1 DEF MovementRow, Movement, Reasons
<1>4. row.corrects = Null /\ row.key = Null /\ Write(<<row>>)
  BY <1>2 DEF MovementRow
<1> HIDE DEF row
<1>5. QED
  BY <1>1, <1>3, <1>4, PlainStep

\* A step that writes no row.
LEMMA NoRow ==
    ASSUME JournalInv, TypeOK', journal' = journal
    PROVE  JournalInv'
BY DEF JournalInv, CorrectionsMirror, KeysUnique, KeysTell, KeyTells, MovementIds, Corrected

\* The parts of one consumption have keys of their own, new if the first is.
LEMMA PartsFit ==
    ASSUME NullIsNoStoredKey, JournalInv, NEW n \in Nat, n > 0, NEW k \in Keys \cup {Null},
           NEW rows \in Seq(Movement), Len(rows) = n,
           \A i \in 1..n : rows[i].corrects = Null /\ rows[i].key = CallerKey("consume", k, i - 1),
           Unused(CallerKey("consume", k, 0))
    PROVE  Fit(rows)
<1>1. CASE k = Null
  BY <1>1 DEF CallerKey, Fit
<1>2. CASE k # Null
  <2> DEFINE part(i) == [op |-> "consume", on |-> k, part |-> i - 1]
  <2>1. \A i \in 1..n : rows[i].key = part(i) /\ rows[i].corrects = Null
    BY <1>2 DEF CallerKey
  <2>2. ASSUME NEW i \in 1..n, rows[i].key # Null PROVE NewKeyTells(rows, i)
    <3>1. rows[i].key = part(i)
      BY <2>1
    <3>2. /\ part(i).op = "consume" /\ part(i).part = i - 1
          /\ FirstPart(part(i)) = part(1) /\ 1 \in 1..n
      BY DEF FirstPart
    <3>3. \A l \in 1..n : rows[l].key = part(i) => l = i
      <4>1. SUFFICES ASSUME NEW l \in 1..n, rows[l].key = part(i) PROVE l = i
        OBVIOUS
      <4>2. part(l).part = l - 1 /\ part(l) = part(i)
        BY <2>1, <4>1
      <4>3. l - 1 = i - 1
        BY <3>2, <4>2
      <4>4. QED
        BY <4>3
    <3>4. ASSUME NEW id \in MovementIds, journal[id].key = part(i) PROVE FALSE
      <4>1. KeyTells(id)
        BY <2>2, <3>1, <3>4 DEF JournalInv, KeysTell
      <4>2. \E d \in MovementIds : journal[d].key = part(1)
        <5>1. CASE i = 1
          BY <3>4, <5>1
        <5>2. CASE i # 1
          <6>1. part(i).part > 0
            BY <3>2, <5>2
          <6>2. QED
            BY <3>2, <3>4, <4>1, <6>1 DEF KeyTells, CallerOps
        <5>3. QED
          BY <5>1, <5>2
      <4>3. part(1) # Null
        <5>1. part(1) \in Key
          BY <1>2 DEF Key
        <5>2. QED
          BY <5>1 DEF NullIsNoStoredKey
      <4>4. CallerKey("consume", k, 0) = part(1)
        BY <1>2 DEF CallerKey
      <4>5. QED
        BY <4>2, <4>3, <4>4 DEF Unused
    <3>5. rows[1].key = part(1)
      BY <2>1, <3>2
    <3> HIDE DEF part
    <3>6. QED
      BY <3>1, <3>2, <3>3, <3>4, <3>5 DEF NewKeyTells
  <2>3. QED
    BY <2>1, <2>2 DEF Fit
<1>3. QED
  BY <1>1, <1>2

\* A consumption writes one row per batch it empties, part after part.
LEMMA ConsumeFits ==
    ASSUME LedgerConstants, NullIsNoNumber, NullIsNoStoredKey, JournalInv, NEW p \in Products,
           NEW q \in Nat, NEW r \in OutReasons, NEW k \in Keys \cup {Null},
           Consume(p, q, r, k)
    PROVE  JournalInv'
<1>1. TypeOK' /\ TypeOK /\ Unused(CallerKey("consume", k, 0))
  BY ConsumeType DEF JournalInv, Consume
<1>2. PICK n, order, take, rows : ConsumedAs(p, q, r, k, n, order, take, rows)
  BY <1>1, ConsumeWrites
<1>3. rows \in Seq(Movement) /\ Len(rows) = n /\ Write(rows) /\ n \in Nat /\ n > 0
  BY <1>2 DEF ConsumedAs
<1>4. \A i \in 1..n : rows[i].corrects = Null /\ rows[i].key = CallerKey("consume", k, i - 1)
  <2>1. \A i \in 1..n :
          rows[i] = MovementRow(batches[order[i]].article, order[i], -take[i], r,
                                CostOf(take[i], batches[order[i]].price),
                                CallerKey("consume", k, i - 1))
    BY <1>2 DEF ConsumedAs
  <2>2. ASSUME NEW a, NEW b, NEW m, NEW c, NEW key
        PROVE  LET row == MovementRow(a, b, m, r, c, key)
               IN  row.corrects = Null /\ row.key = key
    BY DEF MovementRow
  <2>3. QED
    BY <2>1, <2>2
<1>5. Fit(rows)
  BY <1>1, <1>3, <1>4, PartsFit
<1>6. QED
  BY <1>1, <1>3, <1>5, FittingRows

\* A row that was never corrected has no derived key in the journal.
LEMMA DerivedKeysNew ==
    ASSUME NullIsNoStoredKey, NullIsNoNumber, JournalInv, NEW id \in MovementIds, ~Corrected(id),
           NEW price \in Nat \cup {Null}
    PROVE  /\ id \in Nat /\ id # Null
           /\ Reversal(id) \in Movement /\ Reprice(id, price) \in Movement
           /\ Reversal(id).corrects = id /\ Reprice(id, price).corrects = Null
           /\ Reversal(id).key = [op |-> "correction", on |-> id, part |-> 0]
           /\ Reprice(id, price).key = [op |-> "reprice", on |-> id, part |-> 0]
           /\ \A i \in MovementIds : /\ journal[i].key # Reversal(id).key
                                     /\ journal[i].key # Reprice(id, price).key
<1>1. id \in Nat /\ id # Null /\ journal[id] \in Movement
  BY LenProperties, ElementOfSeq DEF JournalInv, TypeOK, MovementIds, NullIsNoNumber
<1>2. /\ Reversal(id).corrects = id /\ Reprice(id, price).corrects = Null
      /\ Reversal(id).key = [op |-> "correction", on |-> id, part |-> 0]
      /\ Reprice(id, price).key = [op |-> "reprice", on |-> id, part |-> 0]
  BY <1>1 DEF Reversal, Reprice, Movement
<1>3. ASSUME NEW i \in MovementIds, NEW op \in {"correction", "reprice"},
             journal[i].key = [op |-> op, on |-> id, part |-> 0]
      PROVE  FALSE
  <2>1. [op |-> op, on |-> id, part |-> 0] \in Key
    BY <1>1 DEF Key
  <2>2. KeyTells(i)
    BY <1>3, <2>1 DEF NullIsNoStoredKey, JournalInv, KeysTell
  <2>3. journal[i].key.op = op /\ journal[i].key.on = id
    BY <1>3
  <2>4. QED
    BY <2>2, <2>3 DEF KeyTells, Corrected
<1>4. QED
  BY <1>1, <1>2, <1>3, ReversalType, RepriceType DEF JournalInv

\* A correction cancels a row that no correction cancelled before.
LEMMA CorrectMovementFits ==
    ASSUME NullIsNoStoredKey, NullIsNoNumber, JournalInv, NEW id \in MovementIds,
           CorrectMovement(id)
    PROVE  JournalInv'
<1> DEFINE row == Reversal(id)
<1>1. TypeOK'
  BY CorrectMovementType DEF JournalInv
<1>2. ~Corrected(id) /\ journal[id].corrects = Null /\ Write(<<row>>)
  BY DEF CorrectMovement, Correctable
<1>3. /\ id \in Nat /\ id # Null /\ row \in Movement /\ row.corrects = id
      /\ row.key = [op |-> "correction", on |-> id, part |-> 0]
      /\ \A i \in MovementIds : journal[i].key # row.key
  BY <1>2, DerivedKeysNew
<1>4. MirrorsOneRow(row)
  BY <1>2, <1>3 DEF MirrorsOneRow
<1> HIDE DEF row
<1>5. <<row>> \in Seq(Movement) /\ 1..Len(<<row>>) = {1} /\ <<row>>[1] = row
  BY <1>3
<1>6. /\ row.key.op = "correction" /\ row.key.on = id
  BY <1>3
<1>7. NewKeyTells(<<row>>, 1)
  BY <1>3, <1>5, <1>6 DEF NewKeyTells, CallerOps
<1>8. Fit(<<row>>)
  BY <1>4, <1>5, <1>7 DEF Fit
<1>9. QED
  BY <1>1, <1>2, <1>5, <1>8, FittingRows

\* Rows 2i-1 and 2i rewrite one row of the journal: its mirror, then its copy.
RewritesAt(rows, i, id) ==
    /\ id # Null
    /\ MirrorsOneRow(rows[2 * i - 1]) /\ rows[2 * i - 1].corrects = id
    /\ rows[2 * i].corrects = Null
    /\ rows[2 * i - 1].key.op = "correction" /\ rows[2 * i - 1].key.on = id
    /\ rows[2 * i].key.op = "reprice" /\ rows[2 * i].key.on = id
    /\ \A m \in MovementIds : /\ journal[m].key # rows[2 * i - 1].key
                              /\ journal[m].key # rows[2 * i].key

\* What a row and its two new ones have to do with each other.
LEMMA OneRewriting ==
    ASSUME NullIsNoStoredKey, NullIsNoNumber, JournalInv, NEW id \in MovementIds,
           ~Corrected(id), journal[id].corrects = Null, NEW price \in Nat \cup {Null},
           NEW rows, NEW i,
           rows[2 * i - 1] = Reversal(id), rows[2 * i] = Reprice(id, price)
    PROVE  RewritesAt(rows, i, id)
<1> DEFINE mirror == rows[2 * i - 1]
           copy   == rows[2 * i]
<1>1. mirror = Reversal(id) /\ copy = Reprice(id, price)
  OBVIOUS
<1> HIDE DEF mirror, copy
<1>2. /\ id # Null /\ mirror.corrects = id /\ copy.corrects = Null
      /\ mirror.key = [op |-> "correction", on |-> id, part |-> 0]
      /\ copy.key = [op |-> "reprice", on |-> id, part |-> 0]
      /\ \A m \in MovementIds : journal[m].key # mirror.key /\ journal[m].key # copy.key
  <2>1. /\ id # Null /\ Reversal(id).corrects = id /\ Reprice(id, price).corrects = Null
        /\ Reversal(id).key = [op |-> "correction", on |-> id, part |-> 0]
        /\ Reprice(id, price).key = [op |-> "reprice", on |-> id, part |-> 0]
        /\ \A m \in MovementIds : /\ journal[m].key # Reversal(id).key
                                  /\ journal[m].key # Reprice(id, price).key
    BY DerivedKeysNew
  <2>2. QED
    BY <1>1, <2>1
<1>3. MirrorsOneRow(mirror)
  BY <1>1, <1>2 DEF MirrorsOneRow
<1>4. /\ mirror.key.op = "correction" /\ mirror.key.on = id
      /\ copy.key.op = "reprice" /\ copy.key.on = id
  BY <1>2
<1>5. QED
  BY <1>2, <1>3, <1>4 DEF RewritesAt, mirror, copy

\* Every row a price correction writes is half of one rewriting.
LEMMA RepricedRewrites ==
    ASSUME NullIsNoStoredKey, NullIsNoNumber, JournalInv, NEW b \in BatchIds,
           NEW price \in Nat \cup {Null}, NEW n \in Nat,
           NEW ids \in [1..n -> ToReprice(b)]
    PROVE  /\ Repriced(ids, price) \in Seq(Movement)
           /\ Len(Repriced(ids, price)) = 2 * n
           /\ \A i \in 1..n : RewritesAt(Repriced(ids, price), i, ids[i])
<1>1. ids \in [1..n -> MovementIds] /\ TypeOK
  BY DEF ToReprice, JournalInv
<1>2. /\ Repriced(ids, price) \in Seq(Movement)
      /\ Len(Repriced(ids, price)) = 2 * n
      /\ \A i \in 1..n : /\ Repriced(ids, price)[2 * i - 1] = Reversal(ids[i])
                         /\ Repriced(ids, price)[2 * i] = Reprice(ids[i], price)
  BY ONLY <1>1, RepricedRows, n \in Nat, price \in Nat \cup {Null}
<1>3. ASSUME NEW i \in 1..n PROVE RewritesAt(Repriced(ids, price), i, ids[i])
  <2>1. /\ ids[i] \in MovementIds /\ ~Corrected(ids[i])
        /\ journal[ids[i]].corrects = Null
    BY DEF ToReprice
  <2>2. /\ Repriced(ids, price)[2 * i - 1] = Reversal(ids[i])
        /\ Repriced(ids, price)[2 * i] = Reprice(ids[i], price)
    BY <1>2
  <2>3. QED
    BY <2>1, <2>2, OneRewriting
<1>4. QED
  BY <1>2, <1>3

\* Rewritings of different rows may follow the journal together.
LEMMA RewritingsFit ==
    ASSUME NEW n \in Nat, NEW rows, Len(rows) = 2 * n, NEW ids,
           \A i \in 1..n : RewritesAt(rows, i, ids[i]),
           \A i, j \in 1..n : ids[i] = ids[j] => i = j
    PROVE  Fit(rows)
<1>1. ASSUME NEW k \in 1..Len(rows) PROVE \E i \in 1..n : k = 2 * i - 1 \/ k = 2 * i
  <2>1. CASE k % 2 = 1
    <3>1. (k + 1) \div 2 \in 1..n /\ k = 2 * ((k + 1) \div 2) - 1
      BY <2>1
    <3>2. QED
      BY <3>1
  <2>2. CASE k % 2 # 1
    <3>1. k \div 2 \in 1..n /\ k = 2 * (k \div 2)
      BY <2>2
    <3>2. QED
      BY <3>1
  <2>3. QED
    BY <2>1, <2>2
<1>2. ASSUME NEW i \in 1..n
      PROVE  /\ MirrorsOneRow(rows[2 * i - 1])
             /\ \A l \in 1..Len(rows) :
                   rows[l].corrects = rows[2 * i - 1].corrects => l = 2 * i - 1
             /\ NewKeyTells(rows, 2 * i - 1)
  <2>1. RewritesAt(rows, i, ids[i])
    OBVIOUS
  <2>2. ASSUME NEW l \in 1..Len(rows),
               rows[l].corrects = ids[i] \/ rows[l].key = rows[2 * i - 1].key
        PROVE  l = 2 * i - 1
    <3>1. PICK j \in 1..n : l = 2 * j - 1 \/ l = 2 * j
      BY <1>1
    <3>2. RewritesAt(rows, j, ids[j])
      OBVIOUS
    <3>3. CASE l = 2 * j - 1
      <4>1. ids[j] = ids[i]
        BY <2>1, <2>2, <3>2, <3>3 DEF RewritesAt
      <4>2. QED
        BY <3>3, <4>1
    <3>4. CASE l = 2 * j
      BY <2>1, <2>2, <3>2, <3>4 DEF RewritesAt
    <3>5. QED
      BY <3>1, <3>3, <3>4
  <2>3. rows[2 * i - 1].key.op \notin CallerOps /\ rows[2 * i - 1].key.op # "reprice"
    BY <2>1 DEF RewritesAt, CallerOps
  <2>4. QED
    BY <2>1, <2>2, <2>3 DEF RewritesAt, NewKeyTells
<1>3. ASSUME NEW i \in 1..n PROVE rows[2 * i].corrects = Null /\ NewKeyTells(rows, 2 * i)
  <2>1. RewritesAt(rows, i, ids[i])
    OBVIOUS
  <2>2. ASSUME NEW l \in 1..Len(rows), rows[l].key = rows[2 * i].key
        PROVE  l = 2 * i
    <3>1. PICK j \in 1..n : l = 2 * j - 1 \/ l = 2 * j
      BY <1>1
    <3>2. RewritesAt(rows, j, ids[j])
      OBVIOUS
    <3>3. CASE l = 2 * j
      <4>1. ids[j] = ids[i]
        BY <2>1, <2>2, <3>2, <3>3 DEF RewritesAt
      <4>2. QED
        BY <3>3, <4>1
    <3>4. CASE l = 2 * j - 1
      BY <2>1, <2>2, <3>2, <3>4 DEF RewritesAt
    <3>5. QED
      BY <3>1, <3>3, <3>4
  <2>3. rows[2 * i].key.op \notin CallerOps /\ rows[2 * i].key.op # "correction"
    BY <2>1 DEF RewritesAt, CallerOps
  <2>4. 2 * i - 1 \in 1..Len(rows) /\ rows[2 * i - 1].corrects = rows[2 * i].key.on
    BY <2>1 DEF RewritesAt
  <2>5. QED
    BY <2>1, <2>2, <2>3, <2>4 DEF RewritesAt, NewKeyTells
<1>4. SUFFICES ASSUME NEW k \in 1..Len(rows)
               PROVE  /\ rows[k].corrects # Null =>
                            /\ MirrorsOneRow(rows[k])
                            /\ \A l \in 1..Len(rows) : rows[l].corrects = rows[k].corrects => l = k
                      /\ rows[k].key # Null => NewKeyTells(rows, k)
  BY DEF Fit
<1>5. PICK i \in 1..n : k = 2 * i - 1 \/ k = 2 * i
  BY <1>1
<1>6. CASE k = 2 * i - 1
  BY <1>2, <1>6
<1>7. CASE k = 2 * i
  BY <1>3, <1>7
<1>8. QED
  BY <1>5, <1>6, <1>7

\* A price correction cancels and rewrites different rows, each once.
LEMMA CorrectPriceFits ==
    ASSUME LedgerConstants, NullIsNoStoredKey, NullIsNoNumber, JournalInv, NEW b \in BatchIds,
           NEW price \in Prices \cup {Null}, CorrectPrice(b, price)
    PROVE  JournalInv'
<1> DEFINE n == Cardinality(ToReprice(b))
<1>1. TypeOK' /\ price \in Nat \cup {Null}
  BY CorrectPriceType DEF JournalInv, LedgerConstants
<1>2. PICK ids \in [1..n -> ToReprice(b)] :
        InWritingOrder(ids, ToReprice(b)) /\ Write(Repriced(ids, price))
  BY DEF CorrectPrice
<1>3. n \in Nat /\ ToReprice(b) \subseteq Nat
  <2>1. ToReprice(b) \subseteq MovementIds /\ MovementIds \subseteq Nat
    BY LenProperties DEF ToReprice, MovementIds, JournalInv, TypeOK
  <2>2. QED
    BY <2>1, RowsAreFinite DEF JournalInv
<1> HIDE DEF n
<1>4. ASSUME NEW i \in 1..n, NEW j \in 1..n, ids[i] = ids[j] PROVE i = j
  <2>1. ids[i] \in Nat /\ ids[j] \in Nat /\ DOMAIN ids = 1..n
    BY <1>2, <1>3
  <2>2. ~(i < j) /\ ~(j < i)
    BY <1>2, <1>4, <2>1 DEF InWritingOrder
  <2>3. QED
    BY <2>2
<1>5. /\ Repriced(ids, price) \in Seq(Movement)
      /\ Len(Repriced(ids, price)) = 2 * n
      /\ \A i \in 1..n : RewritesAt(Repriced(ids, price), i, ids[i])
  <2>1. ids \in [1..n -> ToReprice(b)]
    BY DEF n
  <2>2. QED
    BY <1>1, <1>3, <2>1, RepricedRewrites
<1>6. Fit(Repriced(ids, price))
  BY <1>3, <1>4, <1>5, RewritingsFit
<1>7. QED
  BY <1>1, <1>2, <1>5, <1>6, FittingRows

\* Opening a batch writes no row.
LEMMA OpenBatchFits ==
    ASSUME LedgerConstants, JournalInv, NEW b \in BatchIds, NEW m \in Moments,
           OpenBatch(b, m)
    PROVE  JournalInv'
BY OpenBatchType, NoRow DEF JournalInv, OpenBatch

(***************************************************************************)
(* The theorems                                                            *)
(***************************************************************************)
\* Every step keeps the invariant.
LEMMA NextFits ==
    ASSUME LedgerConstants, NullIsNoStoredKey, NullIsNoNumber, JournalInv, [Next]_vars
    PROVE  JournalInv'
<1>1. CASE UNCHANGED vars
  <2>1. TypeOK'
    BY <1>1 DEF vars, TypeOK, JournalInv
  <2>2. QED
    BY <1>1, <2>1, NoRow DEF vars
<1>2. ASSUME NEW p \in Products, NEW q \in 1..MaxStock, NEW r \in OutReasons,
             NEW k \in Keys \cup {Null}, Consume(p, q, r, k)
      PROVE  JournalInv'
  BY <1>2, ConsumeFits
<1>3. ASSUME NEW b \in BatchIds, NEW r \in OutReasons, NEW k \in Keys \cup {Null},
             NEW q \in 1..batches[b].remaining, ConsumeBatch(b, q, r, k)
      PROVE  JournalInv'
  BY <1>3, ConsumeBatchFits
<1>4. ASSUME NEW a \in Articles, NEW l \in Locations, NEW c \in 0..MaxQuantity,
             AdjustDown(a, l, c)
      PROVE  JournalInv'
  BY <1>4, AdjustDownFits
<1>5. ASSUME NEW a \in Articles, NEW l \in Locations, NEW c \in 0..MaxQuantity,
             NEW m \in Moments, AdjustUp(a, l, c, m)
      PROVE  JournalInv'
  BY <1>5, AdjustUpFits
<1>6. QED
  BY <1>1, <1>2, <1>3, <1>4, <1>5, AddStockFits, OpenBatchFits, TransferBatchFits,
     CorrectMovementFits, CorrectPriceFits DEF Next

\* Corrections, keys and what keys tell hold together in every state reached.
THEOREM JournalInvariance == Spec => []JournalInv
<1>1. Init => JournalInv
  <2> SUFFICES ASSUME Init PROVE JournalInv
    OBVIOUS
  <2>1. MovementIds = {}
    BY EmptySeq DEF Init, MovementIds
  <2>2. TypeOK
    BY EmptySeq DEF Init, TypeOK
  <2>3. QED
    BY <2>1, <2>2 DEF JournalInv, CorrectionsMirror, KeysUnique, KeysTell
<1>2. JournalInv /\ [Next]_vars => JournalInv'
  BY NextFits, LedgerConstants, NullIsNoStoredKey, NullIsNoNumber
<1>3. QED
  BY <1>1, <1>2, PTL DEF Spec

(* A correction is the exact mirror of one earlier row, and no row is
   cancelled twice, however corrections and price corrections are mixed. *)
THEOREM CorrectionsAreMirrors == Spec => []CorrectionsMirror
<1>1. JournalInv => CorrectionsMirror
  BY DEF JournalInv
<1>2. QED
  BY <1>1, JournalInvariance, PTL

(* The UNIQUE index on the keys of the journal never refuses an insert: the
   replay tests and the derived keys keep rows apart. *)
THEOREM KeysStayApart == Spec => []KeysUnique
<1>1. JournalInv => KeysUnique
  BY DEF JournalInv
<1>2. QED
  BY <1>1, JournalInvariance, PTL

(***************************************************************************)
(* The batches: never negative, open while something is left, and every row *)
(* that stands valued at the price its batch has now, however often that   *)
(* price was corrected.                                                    *)
(*                                                                         *)
(* Both need that a row names a batch that exists (RowsNameBatches): a new *)
(* batch then has no old rows, and a correction finds the batch it undoes. *)
(***************************************************************************)
RowsNameBatches ==
    \A id \in MovementIds : journal[id].batch = Null \/ journal[id].batch \in BatchIds

BatchInv == TypeOK /\ RowsNameBatches /\ BatchesSound /\ StandingRowsPriced

OpenAndEmpty(v) == ~v.closed /\ v.remaining = 0

(***************************************************************************)
(* What a step owes the invariant, for the rows it writes                  *)
(***************************************************************************)
\* The row names a batch; if it stands, it is valued at that batch's price.
PricedRow(row, table) ==
    /\ row.batch = Null \/ row.batch \in DOMAIN table
    /\ row.corrects = Null /\ row.batch # Null /\ row.reason # "transfer" =>
          row.cost = CostOf(row.quantity, table[row.batch].price)

\* A batch whose price moved has all its standing rows cancelled.
PricesKept(rows) ==
    \A b \in BatchIds :
        \/ batches'[b].price = batches[b].price
        \/ \A id \in ToReprice(b) : \E k \in 1..Len(rows) : rows[k].corrects = id

\* Batches stay sound, and only rows of zero name one that is open and empty.
StaysSound(rows) ==
    \A b \in BatchIds' :
        /\ batches'[b].remaining >= 0
        /\ batches'[b].closed => batches'[b].remaining = 0
        /\ OpenAndEmpty(batches'[b]) =>
              /\ b \in BatchIds => OpenAndEmpty(batches[b])
              /\ \A k \in 1..Len(rows) : rows[k].batch = b => rows[k].quantity = 0

\* Steps that owe nothing more keep the invariant.
LEMMA RowsKeepBatches ==
    ASSUME NullIsNoNumber, BatchInv, TypeOK', BatchIds \subseteq BatchIds',
           NEW rows \in Seq(Movement), Write(rows),
           \A k \in 1..Len(rows) : PricedRow(rows[k], batches'),
           PricesKept(rows), StaysSound(rows)
    PROVE  BatchInv'
<1>0. PICK n \in Nat : n = Len(journal)
  BY LenProperties DEF BatchInv, TypeOK
<1>1. /\ MovementIds = 1..n /\ Len(rows) \in Nat
      /\ MovementIds' = 1..(n + Len(rows))
      /\ \A i \in MovementIds : journal'[i] = journal[i]
      /\ \A k \in 1..Len(rows) : journal'[n + k] = rows[k]
  BY <1>0, WriteAppends, LenProperties DEF BatchInv, TypeOK
<1>2. ASSUME NEW id \in MovementIds'
      PROVE  \/ id \in MovementIds /\ journal'[id] = journal[id]
             \/ \E k \in 1..Len(rows) : journal'[id] = rows[k]
  <2>1. CASE id \in MovementIds
    BY <1>1, <2>1
  <2>2. CASE id \notin MovementIds
    <3>1. id - n \in 1..Len(rows) /\ n + (id - n) = id
      BY <1>1, <2>2
    <3>2. QED
      BY <1>1, <3>1
  <2>3. QED
    BY <2>1, <2>2
<1>3. RowsNameBatches'
  BY <1>2 DEF BatchInv, RowsNameBatches, PricedRow, BatchIds
<1>4. BatchesSound'
  <2>1. SUFFICES ASSUME NEW b \in BatchIds', OpenAndEmpty(batches'[b]),
                        NEW id \in MovementIds', journal'[id].batch = b
                 PROVE  journal'[id].quantity = 0
    BY DEF BatchesSound, StaysSound, OpenAndEmpty
  <2>2. CASE id \in MovementIds /\ journal'[id] = journal[id]
    <3>1. b # Null
      BY LenProperties DEF BatchIds, TypeOK, NullIsNoNumber
    <3>2. b \in BatchIds
      BY <2>1, <2>2, <3>1 DEF BatchInv, RowsNameBatches
    <3>3. QED
      BY <2>1, <2>2, <3>2 DEF BatchInv, BatchesSound, StaysSound, OpenAndEmpty
  <2>3. CASE \E k \in 1..Len(rows) : journal'[id] = rows[k]
    BY <2>1, <2>3 DEF StaysSound
  <2>4. QED
    BY <1>2, <2>2, <2>3
<1>5. StandingRowsPriced'
  <2>1. SUFFICES ASSUME NEW b \in BatchIds', NEW id \in MovementIds',
                        journal'[id].batch = b, journal'[id].corrects = Null,
                        \A c \in MovementIds' : journal'[c].corrects # id,
                        journal'[id].reason # "transfer"
                 PROVE  journal'[id].cost = CostOf(journal'[id].quantity, batches'[b].price)
    BY DEF StandingRowsPriced, ToReprice, Corrected
  <2>2. b # Null
    BY LenProperties DEF BatchIds, TypeOK, NullIsNoNumber
  <2>3. CASE id \in MovementIds /\ journal'[id] = journal[id]
    <3>1. b \in BatchIds
      BY <2>1, <2>2, <2>3 DEF BatchInv, RowsNameBatches
    <3>2. id \in ToReprice(b)
      <4>1. \A c \in MovementIds : c \in MovementIds' /\ journal'[c] = journal[c]
        BY <1>1
      <4>2. QED
        BY <2>1, <2>3, <4>1 DEF ToReprice, Corrected
    <3>3. journal[id].cost = CostOf(journal[id].quantity, batches[b].price)
      BY <2>1, <2>3, <3>1, <3>2 DEF BatchInv, StandingRowsPriced
    <3>4. \A k \in 1..Len(rows) : rows[k].corrects # id
      <4>1. \A k \in 1..Len(rows) : n + k \in MovementIds' /\ journal'[n + k] = rows[k]
        BY <1>1
      <4>2. QED
        BY <2>1, <4>1
    <3>5. batches'[b].price = batches[b].price
      BY <3>1, <3>2, <3>4 DEF PricesKept
    <3>6. QED
      BY <2>3, <3>3, <3>5
  <2>4. CASE \E k \in 1..Len(rows) : journal'[id] = rows[k]
    BY <2>1, <2>2, <2>4 DEF PricedRow
  <2>5. QED
    BY <1>2, <2>3, <2>4
<1>6. QED
  BY <1>3, <1>4, <1>5 DEF BatchInv

(***************************************************************************)
(* The operations                                                          *)
(***************************************************************************)
\* A value counts for its magnitude: what went in or out at a price.
LEMMA CostOfOuting ==
    ASSUME NEW q \in Nat, NEW price
    PROVE  CostOf(-q, price) = CostOf(q, price)
BY DEF CostOf, Magnitude

\* One row written.
LEMMA OneRow ==
    ASSUME NEW row \in Movement
    PROVE  <<row>> \in Seq(Movement) /\ Len(<<row>>) = 1 /\ 1..Len(<<row>>) = {1}
           /\ <<row>>[1] = row
OBVIOUS

\* A batch of the table is a batch.
LEMMA BatchIsBatch ==
    ASSUME TypeOK, NEW b \in BatchIds
    PROVE  /\ batches[b] \in Batch /\ b \in Nat /\ b # Len(batches) + 1
           /\ batches[b].remaining \in Int /\ batches[b].closed \in BOOLEAN
           /\ batches[b].price \in Nat \cup {Null}
<1>1. b \in 1..Len(batches) /\ Len(batches) \in Nat /\ batches[b] \in Batch
  BY LenProperties, ElementOfSeq DEF TypeOK, BatchIds
<1>2. b \in Nat /\ b # Len(batches) + 1
  BY <1>1
<1>3. QED
  BY <1>1, <1>2 DEF Batch

\* A new batch leaves the others as they were.
LEMMA Inserted ==
    ASSUME TypeOK, NEW v, Insert(v)
    PROVE  /\ BatchIds' = BatchIds \cup {Len(batches) + 1}
           /\ Len(batches) + 1 \notin BatchIds /\ Len(batches) + 1 \in Nat
           /\ \A b \in BatchIds : batches'[b] = batches[b]
           /\ batches'[Len(batches) + 1] = v
<1>1. batches' = Append(batches, v) /\ batches \in Seq(Batch)
  BY DEF Insert, TypeOK
<1>2. DOMAIN batches' = 1..(Len(batches) + 1) /\ BatchIds = 1..Len(batches)
      /\ Len(batches) \in Nat
  BY <1>1 DEF BatchIds
<1>3. QED
  BY <1>1, <1>2 DEF BatchIds

\* An entry is a batch of its own, open, with one row at its price.
LEMMA EntryKeeps ==
    ASSUME NullIsNoNumber, BatchInv, TypeOK', NEW v \in Batch, Insert(v),
           v.remaining >= 0, ~v.closed,
           NEW row \in Movement, Write(<<row>>), row.batch = Len(batches) + 1,
           row.quantity = v.remaining, row.cost = CostOf(row.quantity, v.price)
    PROVE  BatchInv'
<1> DEFINE new == Len(batches) + 1
           rows == <<row>>
<1>1. /\ rows \in Seq(Movement) /\ 1..Len(rows) = {1} /\ rows[1] = row
  BY OneRow
<1>2. /\ BatchIds' = BatchIds \cup {new} /\ new \notin BatchIds
      /\ \A b \in BatchIds : batches'[b] = batches[b]
      /\ batches'[new] = v
  BY Inserted DEF BatchInv
<1> HIDE DEF rows, new
<1>3. row.batch = new
  BY DEF new
<1>4. \A k \in 1..Len(rows) : PricedRow(rows[k], batches')
  BY <1>1, <1>2, <1>3 DEF PricedRow, BatchIds
<1>5. PricesKept(rows)
  BY <1>2 DEF PricesKept
<1>6. StaysSound(rows)
  <2>1. ASSUME NEW b \in BatchIds
        PROVE  /\ batches'[b].remaining >= 0
               /\ batches'[b].closed => batches'[b].remaining = 0
               /\ OpenAndEmpty(batches'[b]) =>
                     /\ OpenAndEmpty(batches[b])
                     /\ \A k \in 1..Len(rows) : rows[k].batch = b => rows[k].quantity = 0
    BY <1>1, <1>2, <1>3 DEF BatchInv, BatchesSound, OpenAndEmpty
  <2>2. OpenAndEmpty(batches'[new]) =>
            \A k \in 1..Len(rows) : rows[k].batch = new => rows[k].quantity = 0
    BY <1>1, <1>2 DEF OpenAndEmpty
  <2>3. QED
    BY <1>2, <2>1, <2>2 DEF StaysSound
<1>7. Write(rows)
  BY DEF rows
<1>8. QED
  BY <1>1, <1>2, <1>4, <1>5, <1>6, <1>7, RowsKeepBatches

\* add_stock: a batch that is entered with nothing in it has one row, of zero.
LEMMA AddStockKeeps ==
    ASSUME LedgerConstants, NullIsNoNumber, BatchInv,
           NEW a \in Articles, NEW l \in Locations, NEW q \in 0..MaxQuantity,
           NEW d \in Dates \cup {Null}, NEW p \in Prices \cup {Null}, NEW m \in Moments,
           NEW r \in EntryReasons, NEW k \in Keys \cup {Null},
           AddStock(a, l, q, d, p, m, r, k)
    PROVE  BatchInv'
<1> DEFINE key == CallerKey("add_stock", k, 0)
           v   == NewBatch(a, l, q, d, m, p)
           row == MovementRow(a, Len(batches) + 1, q, r, CostOf(q, p), key)
<1>1. TypeOK' /\ TypeOK
  BY AddStockType DEF BatchInv
<1>2. /\ q \in Int /\ q >= 0 /\ p \in Nat \cup {Null} /\ r \in Reasons
      /\ Len(batches) + 1 \in Nat /\ d \in Nat \cup {Null} /\ m \in Nat
  BY <1>1, LenProperties DEF LedgerConstants, Reasons, TypeOK
<1>3. v \in Batch /\ v.remaining = q /\ ~v.closed /\ v.price = p
  BY <1>2 DEF NewBatch, Batch
<1>4. CostOf(q, p) \in Int \cup {Null} /\ key \in Key \cup {Null}
  BY <1>2, CostType, CallerKeyType
<1>5. row \in Movement
  BY <1>2, <1>4, MovementRowType
<1>6. row.batch = Len(batches) + 1 /\ row.quantity = q /\ row.cost = CostOf(q, p)
  BY DEF MovementRow
<1>7. Insert(v) /\ Write(<<row>>)
  BY DEF AddStock
<1> HIDE DEF v, row
<1>8. QED
  BY <1>1, <1>2, <1>3, <1>5, <1>6, <1>7, EntryKeeps

\* An inventory that counted more: a batch of unknown price, valued at nothing.
LEMMA AdjustUpKeeps ==
    ASSUME LedgerConstants, NullIsNoNumber, BatchInv, NEW a \in Articles, NEW l \in Locations,
           NEW c \in Nat, NEW m \in Moments, AdjustUp(a, l, c, m)
    PROVE  BatchInv'
<1>1. TypeOK' /\ TypeOK
  BY AdjustUpType DEF BatchInv
<1>2. PICK found \in 1..c :
         /\ Insert(NewBatch(a, l, found, Null, m, Null))
         /\ Write(<<MovementRow(a, Len(batches) + 1, found, "inventory", Null, Null)>>)
  BY DEF AdjustUp
<1> DEFINE v   == NewBatch(a, l, found, Null, m, Null)
           row == MovementRow(a, Len(batches) + 1, found, "inventory", Null, Null)
<1>3. m \in Nat /\ Len(batches) + 1 \in Nat
  BY <1>1, LenProperties DEF LedgerConstants, TypeOK
<1>4. v \in Batch /\ v.remaining = found /\ found >= 0 /\ ~v.closed /\ v.price = Null
  BY <1>3 DEF NewBatch, Batch
<1>5. row \in Movement
  BY <1>3 DEF MovementRow, Movement, Reasons
<1>6. row.batch = Len(batches) + 1 /\ row.quantity = found /\ row.cost = CostOf(found, Null)
  BY DEF MovementRow, CostOf
<1>7. Insert(v) /\ Write(<<row>>)
  BY <1>2
<1> HIDE DEF v, row
<1>8. QED
  BY <1>1, <1>4, <1>5, <1>6, <1>7, EntryKeeps

\* Batches that are unchanged, or set to what remains in them and closed if
\* that is nothing, stay sound; rows on the latter may say anything.
LEMMA SetBatches ==
    ASSUME BatchInv, BatchIds' = BatchIds, NEW rows,
           NEW S \in SUBSET BatchIds,
           \A b \in BatchIds \ S : batches'[b] = batches[b],
           \A b \in S : \E n \in Nat : batches'[b] = SetRemaining(b, n),
           \A k \in 1..Len(rows) : rows[k].batch \in S \cup {Null}
    PROVE  PricesKept(rows) /\ (NullIsNoNumber => StaysSound(rows))
<1>1. ASSUME NEW b \in S, NEW n \in Nat, batches'[b] = SetRemaining(b, n)
      PROVE  /\ batches'[b].remaining = n /\ (batches'[b].closed <=> n = 0)
             /\ batches'[b].price = batches[b].price
  <2>1. batches[b] \in Batch
    BY BatchIsBatch DEF BatchInv
  <2>2. QED
    BY <1>1, <2>1 DEF SetRemaining, Batch
<1>2. PricesKept(rows)
  BY <1>1 DEF PricesKept
<1>3. ASSUME NullIsNoNumber, NEW b \in BatchIds
      PROVE  /\ batches'[b].remaining >= 0
             /\ batches'[b].closed => batches'[b].remaining = 0
             /\ OpenAndEmpty(batches'[b]) =>
                   /\ OpenAndEmpty(batches[b])
                   /\ \A k \in 1..Len(rows) : rows[k].batch = b => rows[k].quantity = 0
  <2>1. CASE b \in S
    <3>1. PICK n \in Nat : batches'[b] = SetRemaining(b, n)
      BY <2>1
    <3>2. batches'[b].remaining = n /\ (batches'[b].closed <=> n = 0)
      BY <1>1, <2>1, <3>1
    <3>3. ~OpenAndEmpty(batches'[b])
      BY <3>2 DEF OpenAndEmpty
    <3>4. QED
      BY <3>2, <3>3
  <2>2. CASE b \notin S
    <3>1. b # Null
      BY <1>3, BatchIsBatch DEF BatchInv, NullIsNoNumber
    <3>2. QED
      BY <2>2, <3>1 DEF BatchInv, BatchesSound, OpenAndEmpty
  <2>3. QED
    BY <2>1, <2>2
<1>4. QED
  BY <1>2, <1>3 DEF StaysSound

\* The n batches of `order`, and no other, are set to what remains in them.
OnlySets(order, n) ==
    /\ BatchIds' = BatchIds /\ Range(order) \in SUBSET BatchIds
    /\ \A i \in 1..n : order[i] \in Range(order)
    /\ \A b \in BatchIds \ Range(order) : batches'[b] = batches[b]
    /\ \A b \in Range(order) : \E m \in Nat : batches'[b] = SetRemaining(b, m)

\* What an allocation leaves in the batches it touches is not negative.
LEMMA TakenSets ==
    ASSUME TypeOK, NEW S \in SUBSET BatchIds, NEW q \in Nat, NEW n \in Nat,
           NEW order \in [1..n -> S], NEW take \in [1..n -> Int],
           Allocates(order, take, S, q), batches' = TakenFrom(order, take)
    PROVE  OnlySets(order, n)
<1>1. /\ BatchIds' = BatchIds
      /\ \A b \in BatchIds \ Range(order) : batches'[b] = batches[b]
  BY DEF TakenFrom, BatchIds
<1>2. DOMAIN order = 1..n /\ Range(order) \in SUBSET BatchIds
      /\ \A i \in 1..n : order[i] \in Range(order)
  BY DEF Range
<1>3. \A i \in 1..n : take[i] <= batches[order[i]].remaining
  <2>1. ASSUME NEW i \in 1..n PROVE take[i] <= batches[order[i]].remaining
    <3>1. take[i] \in 0..batches[order[i]].remaining
      BY <1>2 DEF Allocates, IsAllocation
    <3>2. batches[order[i]].remaining \in Int
      BY BatchIsBatch
    <3>3. QED
      BY <3>1, <3>2
  <2>2. QED
    BY <2>1
<1>4. ASSUME NEW b \in Range(order) PROVE \E m \in Nat : batches'[b] = SetRemaining(b, m)
  <2> DEFINE i == CHOOSE i \in DOMAIN order : order[i] = b
  <2>1. \E j \in DOMAIN order : order[j] = b
    BY DEF Range
  <2>2. i \in 1..n /\ order[i] = b
    BY <1>2, <2>1
  <2>3. batches'[b] = SetRemaining(b, batches[b].remaining - take[i])
    BY <1>2 DEF TakenFrom, BatchIds
  <2> HIDE DEF i
  <2>4. batches[b].remaining - take[i] \in Nat
    <3>1. batches[b].remaining \in Int /\ take[i] \in Int /\ take[i] <= batches[b].remaining
      BY <1>2, <1>3, <2>2, BatchIsBatch
    <3>2. QED
      BY <3>1
  <2>5. QED
    BY <2>3, <2>4
<1>5. QED
  BY <1>1, <1>2, <1>4 DEF OnlySets

\* consume: each row at the price of the batch it empties.
LEMMA ConsumeKeeps ==
    ASSUME LedgerConstants, NullIsNoNumber, BatchInv, NEW p \in Products,
           NEW q \in Nat, NEW r \in OutReasons, NEW k \in Keys \cup {Null},
           Consume(p, q, r, k)
    PROVE  BatchInv'
<1> DEFINE S == OpenOf({a \in Articles : ProductOf[a] = p})
<1>1. TypeOK' /\ TypeOK
  BY ConsumeType DEF BatchInv
<1>2. PICK n, order, take, rows : ConsumedAs(p, q, r, k, n, order, take, rows)
  BY <1>1, ConsumeWrites
<1>3. /\ n \in Nat /\ order \in [1..n -> S] /\ take \in [1..n -> Int]
      /\ Allocates(order, take, S, q) /\ batches' = TakenFrom(order, take)
  BY <1>2 DEF ConsumedAs
<1>4. S \in SUBSET BatchIds
  BY CandidatesAreBatches
<1>5. rows \in Seq(Movement) /\ Len(rows) = n /\ Write(rows)
  BY <1>2 DEF ConsumedAs
<1>6. \A i \in 1..n :
        rows[i] = MovementRow(batches[order[i]].article, order[i], -take[i], r,
                              CostOf(take[i], batches[order[i]].price),
                              CallerKey("consume", k, i - 1))
  BY <1>2 DEF ConsumedAs
<1> HIDE DEF S
<1>7. /\ BatchIds' = BatchIds /\ Range(order) \in SUBSET BatchIds
      /\ \A i \in 1..n : order[i] \in Range(order)
      /\ \A b \in BatchIds \ Range(order) : batches'[b] = batches[b]
      /\ \A b \in Range(order) : \E m \in Nat : batches'[b] = SetRemaining(b, m)
  <2>1. OnlySets(order, n)
    BY <1>1, <1>3, <1>4, TakenSets
  <2>2. QED
    BY <2>1 DEF OnlySets
<1>8. ASSUME NEW i \in 1..n
      PROVE  /\ rows[i].batch = order[i] /\ rows[i].quantity = -take[i]
             /\ rows[i].cost = CostOf(-take[i], batches[order[i]].price)
  <2>1. take[i] \in Nat
    <3>1. take[i] \in 0..batches[order[i]].remaining
      BY <1>3 DEF Allocates, IsAllocation
    <3>2. QED
      BY <3>1
  <2>2. CostOf(take[i], batches[order[i]].price) = CostOf(-take[i], batches[order[i]].price)
    BY <2>1, CostOfOuting
  <2>3. ASSUME NEW a, NEW b, NEW m, NEW c, NEW key
        PROVE  LET row == MovementRow(a, b, m, r, c, key)
               IN  row.batch = b /\ row.quantity = m /\ row.cost = c
    BY DEF MovementRow
  <2>4. rows[i] = MovementRow(batches[order[i]].article, order[i], -take[i], r,
                              CostOf(take[i], batches[order[i]].price),
                              CallerKey("consume", k, i - 1))
    BY <1>6
  <2>5. QED
    BY <2>2, <2>3, <2>4
<1>9. PricesKept(rows) /\ StaysSound(rows)
  <2>1. \A l \in 1..Len(rows) : rows[l].batch \in Range(order) \cup {Null}
    BY <1>5, <1>7, <1>8
  <2>2. QED
    BY <1>7, <2>1, SetBatches
<1>10. ASSUME NEW l \in 1..Len(rows) PROVE PricedRow(rows[l], batches')
  <2>1. order[l] \in BatchIds' /\ order[l] \in BatchIds
    BY <1>5, <1>7
  <2>2. batches'[order[l]].price = batches[order[l]].price
    <3>1. PICK m \in Nat : batches'[order[l]] = SetRemaining(order[l], m)
      BY <1>5, <1>7
    <3>2. batches[order[l]] \in Batch
      BY <1>1, <2>1, BatchIsBatch
    <3>3. QED
      BY <3>1, <3>2 DEF SetRemaining, Batch
  <2>3. QED
    BY <1>5, <1>8, <2>1, <2>2 DEF PricedRow, BatchIds
<1>11. QED
  BY <1>1, <1>5, <1>7, <1>9, <1>10, RowsKeepBatches

\* What a row built by MovementRow says.
LEMMA RowSays ==
    ASSUME NEW a, NEW b, NEW q, NEW r, NEW c, NEW key
    PROVE  LET row == MovementRow(a, b, q, r, c, key)
           IN  /\ row.batch = b /\ row.quantity = q /\ row.reason = r
               /\ row.cost = c /\ row.corrects = Null
BY DEF MovementRow

\* An inventory that counted less: batches are emptied, and the row names none.
LEMMA AdjustDownKeeps ==
    ASSUME LedgerConstants, NullIsNoNumber, BatchInv, NEW a \in Articles, NEW l \in Locations,
           NEW c \in Nat, AdjustDown(a, l, c)
    PROVE  BatchInv'
<1>1. TypeOK' /\ TypeOK /\ At(a, l) \in SUBSET BatchIds
  BY AdjustDownType, CandidatesAreBatches DEF BatchInv
<1>2. PICK missing \in 1..MaxStock :
         /\ \E order \in Orders(At(a, l)) : \E take \in [DOMAIN order -> 0..missing] :
               /\ Allocates(order, take, At(a, l), missing)
               /\ batches' = TakenFrom(order, take)
         /\ Write(<<MovementRow(a, Null, -missing, "inventory", Null, Null)>>)
  BY DEF AdjustDown
<1>3. PICK order \in Orders(At(a, l)) : \E take \in [DOMAIN order -> 0..missing] :
         /\ Allocates(order, take, At(a, l), missing)
         /\ batches' = TakenFrom(order, take)
  BY <1>2
<1>4. PICK take \in [DOMAIN order -> 0..missing] :
         /\ Allocates(order, take, At(a, l), missing)
         /\ batches' = TakenFrom(order, take)
  BY <1>3
<1>5. PICK n \in 1..Cardinality(At(a, l)) : order \in [1..n -> At(a, l)]
  BY DEF Orders
<1>6. n \in Nat /\ missing \in Nat /\ take \in [1..n -> Int]
  BY <1>5
<1>7. OnlySets(order, n)
  BY <1>1, <1>4, <1>5, <1>6, TakenSets
<1> DEFINE row  == MovementRow(a, Null, -missing, "inventory", Null, Null)
           rows == <<row>>
<1>8. row \in Movement /\ row.batch = Null
  BY DEF MovementRow, Movement, Reasons
<1>9. rows \in Seq(Movement) /\ 1..Len(rows) = {1} /\ rows[1] = row /\ Write(rows)
  BY <1>2, <1>8, OneRow
<1> HIDE DEF row, rows
<1>10. PricesKept(rows) /\ StaysSound(rows)
  BY <1>7, <1>8, <1>9, SetBatches DEF OnlySets
<1>11. \A k \in 1..Len(rows) : PricedRow(rows[k], batches')
  BY <1>8, <1>9 DEF PricedRow
<1>12. QED
  BY <1>1, <1>7, <1>9, <1>10, <1>11, RowsKeepBatches DEF OnlySets

\* One batch replaced by another of the same number.
LEMMA OneReplaced ==
    ASSUME TypeOK, NEW b \in BatchIds, NEW v, batches' = [batches EXCEPT ![b] = v]
    PROVE  /\ BatchIds' = BatchIds /\ batches'[b] = v
           /\ \A c \in BatchIds \ {b} : batches'[c] = batches[c]
BY DEF BatchIds

\* consume_batch: one batch, one row, at its price.
LEMMA ConsumeBatchKeeps ==
    ASSUME LedgerConstants, NullIsNoNumber, BatchInv, NEW b \in BatchIds,
           NEW q \in Nat, NEW r \in OutReasons, NEW k \in Keys \cup {Null},
           ConsumeBatch(b, q, r, k)
    PROVE  BatchInv'
<1> DEFINE key  == CallerKey("consume_batch", k, 0)
           cost == CostOf(q, batches[b].price)
           row  == MovementRow(batches[b].article, b, -q, r, cost, key)
           rows == <<row>>
           kept == batches[b].remaining - q
<1>1. TypeOK' /\ TypeOK
  BY ConsumeBatchType DEF BatchInv
<1>2. /\ batches[b] \in Batch /\ b \in Nat /\ batches[b].article \in Articles
      /\ batches[b].remaining \in Int /\ batches[b].price \in Nat \cup {Null}
  BY <1>1, BatchIsBatch DEF Batch
<1>3. kept \in Nat
  BY <1>2 DEF ConsumeBatch
<1>4. /\ cost \in Int \cup {Null}
      /\ key \in Key \cup {Null}
      /\ r \in Reasons
  <2>1. q \in Int
    OBVIOUS
  <2>2. CostOf(q, batches[b].price) \in Int \cup {Null}
    BY <1>2, <2>1, CostType
  <2>3. key \in Key \cup {Null}
    BY CallerKeyType
  <2>4. QED
    BY <2>2, <2>3 DEF LedgerConstants, Reasons
<1>5. row \in Movement
  <2> HIDE DEF cost, key
  <2>1. -q \in Int /\ b \in Nat \cup {Null}
    BY <1>2
  <2>2. QED
    BY <1>2, <1>4, <2>1, MovementRowType
<1>6. row.batch = b /\ row.quantity = -q /\ row.cost = CostOf(-q, batches[b].price)
  BY CostOfOuting, RowSays
<1>7. rows \in Seq(Movement) /\ 1..Len(rows) = {1} /\ rows[1] = row /\ Write(rows)
  BY <1>5, OneRow DEF ConsumeBatch
<1>8. batches' = [batches EXCEPT ![b] = SetRemaining(b, kept)]
  BY DEF ConsumeBatch
<1> HIDE DEF row, rows, kept
<1>9. /\ BatchIds' = BatchIds /\ batches'[b] = SetRemaining(b, kept)
      /\ \A c \in BatchIds \ {b} : batches'[c] = batches[c]
  BY <1>1, <1>8, OneReplaced
<1>10. PricesKept(rows) /\ StaysSound(rows)
  <2>1. \A c \in {b} : \E m \in Nat : batches'[c] = SetRemaining(c, m)
    BY <1>3, <1>9
  <2>2. {b} \in SUBSET BatchIds /\ \A l \in 1..Len(rows) : rows[l].batch \in {b} \cup {Null}
    BY <1>6, <1>7
  <2>3. QED
    BY <1>9, <2>1, <2>2, SetBatches
<1>11. \A l \in 1..Len(rows) : PricedRow(rows[l], batches')
  <2>1. batches'[b].price = batches[b].price
    BY <1>2, <1>9 DEF SetRemaining, Batch
  <2>2. b \in DOMAIN batches'
    BY <1>9 DEF BatchIds
  <2>3. QED
    BY <1>6, <1>7, <2>1, <2>2 DEF PricedRow
<1>12. QED
  BY <1>1, <1>7, <1>9, <1>10, <1>11, RowsKeepBatches

\* A step that leaves remaining, closed and price of every batch alone, and
\* writes rows of zero only.
LEMMA NothingMoves ==
    ASSUME NullIsNoNumber, BatchInv, TypeOK', BatchIds' = BatchIds,
           \A b \in BatchIds : /\ batches'[b].remaining = batches[b].remaining
                               /\ batches'[b].closed = batches[b].closed
                               /\ batches'[b].price = batches[b].price,
           NEW rows \in Seq(Movement), Write(rows),
           \A k \in 1..Len(rows) : /\ rows[k].quantity = 0
                                   /\ PricedRow(rows[k], batches')
    PROVE  BatchInv'
<1>1. PricesKept(rows)
  BY DEF PricesKept
<1>2. StaysSound(rows)
  BY DEF StaysSound, OpenAndEmpty, BatchInv, BatchesSound
<1>3. QED
  BY <1>1, <1>2, RowsKeepBatches

\* transfer_batch: a row of zero, valued at nothing.
LEMMA TransferBatchKeeps ==
    ASSUME NullIsNoNumber, BatchInv, NEW b \in BatchIds, NEW l \in Locations,
           TransferBatch(b, l)
    PROVE  BatchInv'
<1> DEFINE row  == MovementRow(batches[b].article, b, 0, "transfer", Null, Null)
           rows == <<row>>
<1>1. TypeOK' /\ TypeOK
  BY TransferBatchType DEF BatchInv
<1>2. batches[b] \in Batch /\ b \in Nat /\ batches[b].article \in Articles
  BY <1>1, BatchIsBatch DEF Batch
<1>3. row \in Movement
  BY <1>2 DEF MovementRow, Movement, Reasons
<1>4. row.batch = b /\ row.quantity = 0 /\ row.reason = "transfer"
  BY RowSays
<1>5. rows \in Seq(Movement) /\ 1..Len(rows) = {1} /\ rows[1] = row /\ Write(rows)
  BY <1>3, OneRow DEF TransferBatch
<1>6. batches' = [batches EXCEPT ![b] = [batches[b] EXCEPT !.location = l]]
  BY DEF TransferBatch
<1>7. /\ BatchIds' = BatchIds /\ batches'[b] = [batches[b] EXCEPT !.location = l]
      /\ \A c \in BatchIds \ {b} : batches'[c] = batches[c]
  BY <1>1, <1>6, OneReplaced
<1> HIDE DEF row, rows
<1>8. \A c \in BatchIds : /\ batches'[c].remaining = batches[c].remaining
                          /\ batches'[c].closed = batches[c].closed
                          /\ batches'[c].price = batches[c].price
  BY <1>2, <1>7 DEF Batch
<1>9. \A k \in 1..Len(rows) : rows[k].quantity = 0 /\ PricedRow(rows[k], batches')
  BY <1>4, <1>5, <1>7 DEF PricedRow, BatchIds
<1>10. QED
  BY <1>1, <1>5, <1>7, <1>8, <1>9, NothingMoves

\* open_batch: dates move, and nothing else.
LEMMA OpenBatchKeeps ==
    ASSUME LedgerConstants, NullIsNoNumber, BatchInv, NEW b \in BatchIds, NEW m \in Moments,
           OpenBatch(b, m)
    PROVE  BatchInv'
<1>1. TypeOK' /\ TypeOK /\ batches[b] \in Batch
  BY OpenBatchType, BatchIsBatch DEF BatchInv
<1>2. journal' = journal /\ BatchIds' = BatchIds
  BY DEF OpenBatch, BatchIds
<1>3. \A c \in BatchIds : /\ batches'[c].remaining = batches[c].remaining
                          /\ batches'[c].closed = batches[c].closed
                          /\ batches'[c].price = batches[c].price
  <2>1. PICK opened : /\ batches' = [batches EXCEPT ![b] = opened]
                      /\ opened.remaining = batches[b].remaining
                      /\ opened.closed = batches[b].closed
                      /\ opened.price = batches[b].price
    <3> DEFINE life == OpenedLife[ProductOf[batches[b].article]]
               date == IF life > 0 /\ (batches[b].bestBefore = Null \/ m + life < batches[b].bestBefore)
                       THEN m + life ELSE batches[b].bestBefore
               opened == [batches[b] EXCEPT !.opened = TRUE, !.bestBefore = date]
    <3>1. batches' = [batches EXCEPT ![b] = opened]
      BY DEF OpenBatch
    <3> HIDE DEF date
    <3>2. /\ opened.remaining = batches[b].remaining
          /\ opened.closed = batches[b].closed
          /\ opened.price = batches[b].price
      BY <1>1 DEF Batch
    <3> HIDE DEF opened
    <3>3. QED
      BY <3>1, <3>2
  <2>2. QED
    BY <1>1, <2>1, OneReplaced
<1>4. RowsNameBatches'
  BY <1>2 DEF BatchInv, RowsNameBatches, MovementIds
<1>5. BatchesSound'
  BY <1>2, <1>3 DEF BatchInv, BatchesSound, MovementIds
<1>6. StandingRowsPriced'
  BY <1>2, <1>3 DEF BatchInv, StandingRowsPriced, ToReprice, Corrected, MovementIds
<1>7. QED
  BY <1>1, <1>4, <1>5, <1>6 DEF BatchInv

\* correct_movement: the batch is put back, and its row stands no more.
LEMMA CorrectMovementKeeps ==
    ASSUME NullIsNoNumber, BatchInv, NEW id \in MovementIds, CorrectMovement(id)
    PROVE  BatchInv'
<1> DEFINE b    == journal[id].batch
           rows == <<Reversal(id)>>
<1>1. TypeOK' /\ TypeOK /\ journal[id] \in Movement /\ id # Null
  BY CorrectMovementType, LenProperties, ElementOfSeq
  DEF BatchInv, TypeOK, MovementIds, NullIsNoNumber
<1>2. Reversal(id) \in Movement
  BY <1>1, ReversalType
<1>3. Reversal(id).batch = b /\ Reversal(id).corrects = id
  BY <1>1 DEF Reversal, Movement
<1>4. rows \in Seq(Movement) /\ 1..Len(rows) = {1} /\ rows[1] = Reversal(id) /\ Write(rows)
  BY <1>2, OneRow DEF CorrectMovement
<1>5. b = Null \/ b \in BatchIds
  BY DEF BatchInv, RowsNameBatches
<1> DEFINE S == {b} \cap BatchIds
<1>6. /\ BatchIds' = BatchIds
      /\ \A c \in BatchIds \ S : batches'[c] = batches[c]
      /\ \A c \in S : \E n \in Nat : batches'[c] = SetRemaining(c, n)
  <2>1. CASE b = Null
    <3>1. b \notin BatchIds
      BY <1>1, <2>1, BatchIsBatch DEF NullIsNoNumber
    <3>2. batches' = batches
      BY <2>1 DEF CorrectMovement
    <3>3. QED
      BY <3>1, <3>2 DEF BatchIds
  <2>2. CASE b # Null
    <3> DEFINE after == batches[b].remaining - journal[id].quantity
    <3>1. b \in BatchIds
      BY <1>5, <2>2
    <3>2. after >= 0 /\ batches' = [batches EXCEPT ![b] = SetRemaining(b, after)]
      BY <2>2 DEF CorrectMovement
    <3>3. after \in Nat
      <4>1. batches[b].remaining \in Int /\ journal[id].quantity \in Int
        BY <1>1, <3>1, BatchIsBatch DEF Movement
      <4>2. QED
        BY <3>2, <4>1
    <3> HIDE DEF after, b
    <3>4. /\ BatchIds' = BatchIds /\ batches'[b] = SetRemaining(b, after)
          /\ \A c \in BatchIds \ {b} : batches'[c] = batches[c]
      BY <1>1, <3>1, <3>2, OneReplaced
    <3>5. QED
      BY <3>1, <3>3, <3>4
  <2>3. QED
    BY <2>1, <2>2
<1> HIDE DEF rows, b
<1>7. S \in SUBSET BatchIds /\ \A k \in 1..Len(rows) : rows[k].batch \in S \cup {Null}
  BY <1>3, <1>4, <1>5
<1> HIDE DEF S
<1>8. PricesKept(rows) /\ StaysSound(rows)
  BY <1>6, <1>7, SetBatches
<1>9. \A k \in 1..Len(rows) : PricedRow(rows[k], batches')
  BY <1>1, <1>3, <1>4, <1>5, <1>6 DEF PricedRow, BatchIds
<1>10. QED
  BY <1>1, <1>4, <1>6, <1>8, <1>9, RowsKeepBatches

\* The two rows that rewrite row id of batch b, as the batch sees them.
RewrittenFor(rows, i, id, b, price) ==
    LET mirror == rows[2 * i - 1]
        copy   == rows[2 * i]
    IN  /\ mirror.batch = b /\ mirror.corrects = id
        /\ mirror.quantity = -journal[id].quantity
        /\ copy.batch = b /\ copy.quantity = journal[id].quantity
        /\ copy.cost = CostOf(copy.quantity, price)

\* The rows of a price correction: n rewritings of rows of batch b.
AllRewritten(rows, n, ids, b, price) ==
    /\ rows \in Seq(Movement) /\ Len(rows) = 2 * n
    /\ \A i \in 1..n : RewrittenFor(rows, i, ids[i], b, price)

\* Every row of a price correction is half of one rewriting.
LEMMA RepricedFor ==
    ASSUME TypeOK, NEW b \in BatchIds, NEW price \in Nat \cup {Null}, NEW n \in Nat,
           NEW ids \in [1..n -> ToReprice(b)]
    PROVE  AllRewritten(Repriced(ids, price), n, ids, b, price)
<1>1. ids \in [1..n -> MovementIds]
  BY DEF ToReprice
<1>2. /\ Repriced(ids, price) \in Seq(Movement)
      /\ Len(Repriced(ids, price)) = 2 * n
      /\ \A i \in 1..n : /\ Repriced(ids, price)[2 * i - 1] = Reversal(ids[i])
                         /\ Repriced(ids, price)[2 * i] = Reprice(ids[i], price)
  BY ONLY <1>1, RepricedRows, TypeOK, n \in Nat, price \in Nat \cup {Null}
<1>3. ASSUME NEW i \in 1..n PROVE RewrittenFor(Repriced(ids, price), i, ids[i], b, price)
  <2>1. ids[i] \in MovementIds /\ journal[ids[i]].batch = b
    BY DEF ToReprice
  <2>2. journal[ids[i]] \in Movement
    BY <2>1, LenProperties, ElementOfSeq DEF TypeOK, MovementIds
  <2>3. /\ Reversal(ids[i]).batch = b /\ Reversal(ids[i]).corrects = ids[i]
        /\ Reversal(ids[i]).quantity = -journal[ids[i]].quantity
        /\ Reprice(ids[i], price).batch = b
        /\ Reprice(ids[i], price).quantity = journal[ids[i]].quantity
        /\ Reprice(ids[i], price).cost = CostOf(journal[ids[i]].quantity, price)
    BY <2>1, <2>2 DEF Reversal, Reprice, Movement
  <2>4. QED
    BY <1>2, <2>3 DEF RewrittenFor
<1>4. QED
  BY <1>2, <1>3 DEF AllRewritten

\* Rows 2i - 1 and 2i, for i in 1..n, are the rows 1..2n.
LEMMA TwoByTwo ==
    ASSUME NEW n \in Nat, NEW k \in 1..(2 * n)
    PROVE  \E i \in 1..n : k = 2 * i - 1 \/ k = 2 * i
<1>1. CASE k % 2 = 1
  <2>1. (k + 1) \div 2 \in 1..n /\ k = 2 * ((k + 1) \div 2) - 1
    BY <1>1
  <2>2. QED
    BY <2>1
<1>2. CASE k % 2 # 1
  <2>1. k \div 2 \in 1..n /\ k = 2 * (k \div 2)
    BY <1>2
  <2>2. QED
    BY <2>1
<1>3. QED
  BY <1>1, <1>2

\* correct_price: all the rows that stood are cancelled, and stand again at
\* the price the batch has now.
LEMMA CorrectPriceKeeps ==
    ASSUME LedgerConstants, NullIsNoNumber, BatchInv, NEW b \in BatchIds,
           NEW price \in Prices \cup {Null}, CorrectPrice(b, price)
    PROVE  BatchInv'
<1>1. TypeOK' /\ TypeOK /\ price \in Nat \cup {Null} /\ batches[b] \in Batch
  BY CorrectPriceType, BatchIsBatch DEF BatchInv, LedgerConstants
<1>2. PICK ids \in [1..Cardinality(ToReprice(b)) -> ToReprice(b)] :
        InWritingOrder(ids, ToReprice(b)) /\ Write(Repriced(ids, price))
  BY DEF CorrectPrice
<1>3. PICK n \in Nat : ids \in [1..n -> ToReprice(b)]
  <2>1. ToReprice(b) \subseteq MovementIds
    BY DEF ToReprice
  <2>2. QED
    BY <1>1, <2>1, RowsAreFinite
<1>4. \A id \in ToReprice(b) : \E i \in 1..n : id = ids[i]
  BY <1>2, <1>3 DEF InWritingOrder, Range
<1> DEFINE rows == Repriced(ids, price)
<1>5. /\ rows \in Seq(Movement) /\ Len(rows) = 2 * n /\ Write(rows)
      /\ \A i \in 1..n : RewrittenFor(rows, i, ids[i], b, price)
  <2>1. AllRewritten(rows, n, ids, b, price)
    BY <1>1, <1>3, RepricedFor
  <2>2. QED
    BY <1>2, <2>1 DEF AllRewritten
<1> HIDE DEF rows
<1>6. batches' = [batches EXCEPT ![b] = [batches[b] EXCEPT !.price = price]]
  BY DEF CorrectPrice
<1>7. /\ BatchIds' = BatchIds
      /\ batches'[b] = [batches[b] EXCEPT !.price = price]
      /\ \A c \in BatchIds \ {b} : batches'[c] = batches[c]
  BY <1>1, <1>6, OneReplaced
<1>8. /\ batches'[b].price = price
      /\ batches'[b].remaining = batches[b].remaining
      /\ batches'[b].closed = batches[b].closed
  BY <1>1, <1>7 DEF Batch
<1>9. \A c \in BatchIds : /\ batches'[c].remaining = batches[c].remaining
                          /\ batches'[c].closed = batches[c].closed
  BY <1>7, <1>8
<1>10. PricesKept(rows)
  <2>1. \A id \in ToReprice(b) : \E k \in 1..Len(rows) : rows[k].corrects = id
    <3>1. SUFFICES ASSUME NEW id \in ToReprice(b)
                   PROVE  \E k \in 1..Len(rows) : rows[k].corrects = id
      OBVIOUS
    <3>2. PICK i \in 1..n : id = ids[i]
      BY <1>4
    <3>3. 2 * i - 1 \in 1..Len(rows) /\ rows[2 * i - 1].corrects = id
      BY <1>5, <3>2 DEF RewrittenFor
    <3>4. QED
      BY <3>3
  <2>2. QED
    BY <1>7, <2>1 DEF PricesKept
<1>11. ASSUME NEW k \in 1..Len(rows)
       PROVE  /\ PricedRow(rows[k], batches') /\ rows[k].batch = b
              /\ OpenAndEmpty(batches[b]) => rows[k].quantity = 0
  <2>1. PICK i \in 1..n : k = 2 * i - 1 \/ k = 2 * i
    BY <1>5, TwoByTwo
  <2>2. RewrittenFor(rows, i, ids[i], b, price)
    BY <1>5
  <2>3. /\ ids[i] \in MovementIds /\ journal[ids[i]].batch = b /\ ids[i] # Null
    <3>1. ids[i] \in ToReprice(b)
      BY <1>3
    <3>2. ids[i] \in MovementIds /\ journal[ids[i]].batch = b
      BY <3>1 DEF ToReprice
    <3>3. ids[i] \in Nat
      BY <1>1, <3>2, LenProperties DEF TypeOK, MovementIds
    <3>4. QED
      BY <3>2, <3>3 DEF NullIsNoNumber
  <2>4. OpenAndEmpty(batches[b]) => journal[ids[i]].quantity = 0
    BY <2>3 DEF BatchInv, BatchesSound, OpenAndEmpty
  <2>5. b \in DOMAIN batches'
    BY <1>7 DEF BatchIds
  <2>6. CASE k = 2 * i - 1
    BY <2>2, <2>3, <2>4, <2>5, <2>6 DEF RewrittenFor, PricedRow
  <2>7. CASE k = 2 * i
    BY <1>8, <2>2, <2>3, <2>4, <2>5, <2>7 DEF RewrittenFor, PricedRow
  <2>8. QED
    BY <2>1, <2>6, <2>7
<1>12. StaysSound(rows)
  <2>1. ASSUME NEW c \in BatchIds, OpenAndEmpty(batches'[c])
        PROVE  /\ OpenAndEmpty(batches[c])
               /\ \A k \in 1..Len(rows) : rows[k].batch = c => rows[k].quantity = 0
    BY <1>9, <1>11, <2>1 DEF OpenAndEmpty
  <2>2. \A c \in BatchIds : /\ batches'[c].remaining >= 0
                            /\ batches'[c].closed => batches'[c].remaining = 0
    BY <1>9 DEF BatchInv, BatchesSound
  <2>3. QED
    BY <1>7, <2>1, <2>2 DEF StaysSound
<1>13. QED
  BY <1>1, <1>5, <1>7, <1>10, <1>11, <1>12, RowsKeepBatches

(***************************************************************************)
(* The theorems                                                            *)
(***************************************************************************)
\* Every step keeps the invariant.
LEMMA NextKeeps ==
    ASSUME LedgerConstants, NullIsNoNumber, BatchInv, [Next]_vars
    PROVE  BatchInv'
<1>1. CASE UNCHANGED vars
  BY <1>1 DEF vars, BatchInv, TypeOK, RowsNameBatches, BatchesSound, StandingRowsPriced,
     BatchIds, MovementIds, ToReprice, Corrected
<1>2. ASSUME NEW p \in Products, NEW q \in 1..MaxStock, NEW r \in OutReasons,
             NEW k \in Keys \cup {Null}, Consume(p, q, r, k)
      PROVE  BatchInv'
  BY <1>2, ConsumeKeeps
<1>3. ASSUME NEW b \in BatchIds, NEW r \in OutReasons, NEW k \in Keys \cup {Null},
             NEW q \in 1..batches[b].remaining, ConsumeBatch(b, q, r, k)
      PROVE  BatchInv'
  BY <1>3, ConsumeBatchKeeps
<1>4. ASSUME NEW a \in Articles, NEW l \in Locations, NEW c \in 0..MaxQuantity,
             AdjustDown(a, l, c)
      PROVE  BatchInv'
  BY <1>4, AdjustDownKeeps
<1>5. ASSUME NEW a \in Articles, NEW l \in Locations, NEW c \in 0..MaxQuantity,
             NEW m \in Moments, AdjustUp(a, l, c, m)
      PROVE  BatchInv'
  BY <1>5, AdjustUpKeeps
<1>6. QED
  BY <1>1, <1>2, <1>3, <1>4, <1>5, AddStockKeeps, OpenBatchKeeps, TransferBatchKeeps,
     CorrectMovementKeeps, CorrectPriceKeeps DEF Next

\* Rows name batches, batches are sound, and rows stand at current prices.
THEOREM BatchInvariance == Spec => []BatchInv
<1>1. Init => BatchInv
  <2> SUFFICES ASSUME Init PROVE BatchInv
    OBVIOUS
  <2>1. MovementIds = {} /\ BatchIds = {} /\ TypeOK
    BY EmptySeq DEF Init, MovementIds, BatchIds, TypeOK
  <2>2. QED
    BY <2>1 DEF BatchInv, RowsNameBatches, BatchesSound, StandingRowsPriced
<1>2. BatchInv /\ [Next]_vars => BatchInv'
  BY NextKeeps, LedgerConstants, NullIsNoNumber
<1>3. QED
  BY <1>1, <1>2, PTL DEF Spec

(* No batch ever holds less than nothing, and a batch is open exactly while
   something is left in it, whatever is consumed, counted and corrected; one
   that is open and empty was entered so, and its rows say zero. *)
THEOREM BatchesStaySound == Spec => []BatchesSound
<1>1. BatchInv => BatchesSound
  BY DEF BatchInv
<1>2. QED
  BY <1>1, BatchInvariance, PTL

(* Every row that stands is valued at the price its batch has now: however
   outings, corrections and price corrections are mixed, `correct_price` has
   missed none. *)
THEOREM RowsStandAtCurrentPrices == Spec => []StandingRowsPriced
<1>1. BatchInv => StandingRowsPriced
  BY DEF BatchInv
<1>2. QED
  BY <1>1, BatchInvariance, PTL

(***************************************************************************)
(* Sums over the journal: the stock of an article is what its rows say,    *)
(* and the outings of a batch cost what it costs now.                      *)
(*                                                                         *)
(* The balance needs that a row names the article of its batch (RowTells): *)
(* a correction then takes from an article what it gives back to it.       *)
(***************************************************************************)
OutingReasons == OutReasons \ EntryReasons

\* What a batch holds, and what a row counts, for one article.  The correction
\* of a row without batch counts for nothing.
Holding(v, a)  == IF v.article = a THEN v.remaining ELSE 0
Counts(row, a) ==
    IF row.article = a /\ (row.batch # Null \/ row.corrects = Null) THEN row.quantity ELSE 0

\* What the batches of a table hold of an article, what rows count for it.
Held(table, a)  == SumFunction([b \in DOMAIN table |-> Holding(table[b], a)])
Booked(rows, a) == SumFunction([k \in DOMAIN rows |-> Counts(rows[k], a)])

\* A row is about the article of its batch, and an outing takes out.
RowTells(row, table) ==
    /\ row.batch # Null =>
          row.batch \in DOMAIN table /\ row.article = table[row.batch].article
    /\ row.corrects = Null /\ row.reason \in OutingReasons => row.quantity <= 0

RowsTell == \A id \in MovementIds : RowTells(journal[id], batches)

StockIsBooked == \A a \in Articles : Held(batches, a) = Booked(journal, a)

BalanceInv == TypeOK /\ RowsTell /\ StockIsBooked

\* What a step owes the invariant for the rows it writes.
Balances(rows) ==
    /\ rows \in Seq(Movement) /\ Write(rows)
    /\ \A b \in BatchIds : b \in BatchIds' /\ batches'[b].article = batches[b].article
    /\ \A k \in 1..Len(rows) : RowTells(rows[k], batches')
    /\ \A a \in Articles : Held(batches', a) = Held(batches, a) + Booked(rows, a)

\* What the batches of a table hold can be added up.
LEMMA HoldingsAdd ==
    ASSUME NEW table \in Seq(Batch), NEW a
    PROVE  /\ Summable([b \in DOMAIN table |-> Holding(table[b], a)], DOMAIN table)
           /\ Held(table, a) \in Int
<1> DEFINE f == [b \in DOMAIN table |-> Holding(table[b], a)]
<1>1. DOMAIN table = 1..Len(table) /\ Len(table) \in Nat
      /\ \A b \in DOMAIN table : table[b] \in Batch
  BY LenProperties, ElementOfSeq
<1>2. \A b \in DOMAIN table : Holding(table[b], a) \in Int
  BY <1>1 DEF Holding, Batch
<1>3. IsFiniteSet(DOMAIN table)
  BY <1>1, FS_Interval
<1>4. Summable(f, DOMAIN table)
  BY <1>2, <1>3 DEF Summable
<1> HIDE DEF f
<1>5. SumFunction(f) \in Int
  BY <1>4, SummableSays
<1>6. QED
  BY <1>4, <1>5 DEF Held, f

\* What rows count can be added up.
LEMMA CountsAdd ==
    ASSUME NEW rows \in Seq(Movement), NEW a
    PROVE  /\ Summable([k \in DOMAIN rows |-> Counts(rows[k], a)], DOMAIN rows)
           /\ Booked(rows, a) \in Int
<1> DEFINE f == [k \in DOMAIN rows |-> Counts(rows[k], a)]
<1>1. DOMAIN rows = 1..Len(rows) /\ Len(rows) \in Nat
      /\ \A k \in DOMAIN rows : rows[k] \in Movement
  BY LenProperties, ElementOfSeq
<1>2. \A k \in DOMAIN rows : Counts(rows[k], a) \in Int
  BY <1>1 DEF Counts, Movement
<1>3. IsFiniteSet(DOMAIN rows)
  BY <1>1, FS_Interval
<1>4. Summable(f, DOMAIN rows)
  BY <1>2, <1>3 DEF Summable
<1> HIDE DEF f
<1>5. SumFunction(f) \in Int
  BY <1>4, SummableSays
<1>6. QED
  BY <1>4, <1>5 DEF Booked, f

\* A longer journal counts more by what its new rows count.
LEMMA BookedOfMore ==
    ASSUME NEW s \in Seq(Movement), NEW t \in Seq(Movement), NEW a
    PROVE  Booked(s \o t, a) = Booked(s, a) + Booked(t, a)
<1>1. PICK m \in Nat : m = Len(s)
  BY LenProperties
<1>2. PICK n \in Nat : n = Len(t)
  BY LenProperties
<1>3. /\ s \o t \in Seq(Movement) /\ DOMAIN (s \o t) = 1..(m + n)
      /\ DOMAIN s = 1..m /\ DOMAIN t = 1..n
      /\ \A i \in 1..m : (s \o t)[i] = s[i]
      /\ \A k \in 1..n : (s \o t)[m + k] = t[k]
  BY <1>1, <1>2, ConcatProperties, LenProperties
<1> DEFINE st == s \o t
           f == [i \in DOMAIN st |-> Counts(st[i], a)]
<1>4. Summable(f, 1..(m + n)) /\ Booked(st, a) = SumFunction(f)
  <2>1. st \in Seq(Movement) /\ DOMAIN st = 1..(m + n)
    BY <1>3
  <2> HIDE DEF st
  <2>2. Summable(f, DOMAIN st)
    BY <2>1, CountsAdd
  <2>3. QED
    BY <2>1, <2>2 DEF Booked
<1>5. [i \in 1..m |-> f[i]] = [i \in DOMAIN s |-> Counts(s[i], a)]
  BY <1>3
<1>6. [k \in 1..n |-> f[m + k]] = [k \in DOMAIN t |-> Counts(t[k], a)]
  BY <1>3
<1> HIDE DEF f
<1>7. SumFunction(f) = SumFunction([i \in 1..m |-> f[i]]) + SumFunction([k \in 1..n |-> f[m + k]])
  BY <1>4, SumOfTwoParts
<1>8. QED
  BY <1>4, <1>5, <1>6, <1>7 DEF Booked

\* What one row counts.
LEMMA BookedOfOne ==
    ASSUME NEW row \in Movement, NEW a
    PROVE  Booked(<<row>>, a) = Counts(row, a) /\ Counts(row, a) \in Int
<1>1. Counts(row, a) \in Int
  BY DEF Counts, Movement
<1>2. <<row>> \in Seq(Movement) /\ DOMAIN <<row>> = 1..1 /\ <<row>>[1] = row
  OBVIOUS
<1> DEFINE f == [k \in DOMAIN <<row>> |-> Counts(<<row>>[k], a)]
<1>3. Summable(f, 1..1) /\ f[1] = Counts(row, a)
  <2>1. Summable(f, DOMAIN <<row>>)
    BY <1>2, CountsAdd
  <2>2. 1 \in DOMAIN <<row>>
    BY <1>2
  <2>3. QED
    BY <1>2, <2>1, <2>2
<1>4. Booked(<<row>>, a) = SumFunction(f)
  BY DEF Booked
<1> HIDE DEF f
<1>5. SumFunction(f) = f[1]
  BY <1>3, SumOfOne
<1>6. QED
  BY <1>1, <1>3, <1>4, <1>5

\* The tables differ in one batch only.
OneMoved(table, other, b) ==
    /\ DOMAIN other = DOMAIN table /\ b \in DOMAIN table
    /\ \A c \in DOMAIN table \ {b} : other[c] = table[c]

\* A batch that is replaced moves what is held by the difference.
LEMMA HeldReplaced ==
    ASSUME NEW table \in Seq(Batch), NEW other \in Seq(Batch), NEW b,
           OneMoved(table, other, b), NEW a
    PROVE  Held(other, a) = Held(table, a) + (Holding(other[b], a) - Holding(table[b], a))
<1> USE DEF OneMoved
<1> DEFINE f == [c \in DOMAIN table |-> Holding(table[c], a)]
           g == [c \in DOMAIN other |-> Holding(other[c], a)]
<1>1. Summable(f, DOMAIN table)
  BY HoldingsAdd
<1>2. Summable(g, DOMAIN table)
  BY HoldingsAdd
<1>3. Held(table, a) = SumFunction(f) /\ Held(other, a) = SumFunction(g)
  BY DEF Held
<1>4. \A c \in DOMAIN table \ {b} : g[c] = f[c]
  OBVIOUS
<1>5. f[b] = Holding(table[b], a) /\ g[b] = Holding(other[b], a)
  OBVIOUS
<1> HIDE DEF f, g
<1>6. SumFunction(g) = SumFunction(f) + (g[b] - f[b])
  BY <1>1, <1>2, <1>4, SumChanged
<1>7. QED
  BY <1>3, <1>5, <1>6

\* A batch that is created brings what it holds.
LEMMA HeldInserted ==
    ASSUME NEW table \in Seq(Batch), NEW v \in Batch, NEW a
    PROVE  Held(Append(table, v), a) = Held(table, a) + Holding(v, a)
<1>1. PICK n \in Nat : n = Len(table)
  BY LenProperties
<1> DEFINE more == Append(table, v)
           f == [b \in DOMAIN more |-> Holding(more[b], a)]
<1>2. /\ more \in Seq(Batch) /\ DOMAIN more = 1..(n + 1) /\ DOMAIN table = 1..n
      /\ \A b \in 1..n : more[b] = table[b]
      /\ more[n + 1] = v
  BY <1>1, AppendProperties, LenProperties
<1>3. Summable(f, 1..(n + 1)) /\ Held(more, a) = SumFunction(f)
  <2> HIDE DEF more
  <2>1. QED
    BY <1>2, HoldingsAdd DEF Held
<1>4. [i \in 1..n |-> f[i]] = [b \in DOMAIN table |-> Holding(table[b], a)]
  BY <1>2
<1>5. f[n + 1] = Holding(v, a)
  BY <1>2
<1> HIDE DEF f, more
<1>6. SumFunction(f) = SumFunction([i \in 1..n |-> f[i]]) + f[n + 1]
  BY <1>3, SumOfOneMore
<1>7. QED
  BY <1>3, <1>4, <1>5, <1>6 DEF Held, more

\* A step that pays what it owes keeps the invariant.
LEMMA BalancedStep ==
    ASSUME BalanceInv, TypeOK', NEW rows, Balances(rows)
    PROVE  BalanceInv'
<1>1. rows \in Seq(Movement) /\ Write(rows) /\ TypeOK
  BY DEF Balances, BalanceInv
<1>2. StockIsBooked'
  <2>1. ASSUME NEW a \in Articles PROVE Held(batches', a) = Booked(journal', a)
    <3>1. journal' = journal \o rows /\ journal \in Seq(Movement)
      BY <1>1 DEF Write, TypeOK
    <3>2. Booked(journal', a) = Booked(journal, a) + Booked(rows, a)
      BY <1>1, <3>1, BookedOfMore
    <3>3. Held(batches', a) = Held(batches, a) + Booked(rows, a)
      BY DEF Balances
    <3>4. Held(batches, a) = Booked(journal, a)
      BY DEF BalanceInv, StockIsBooked
    <3>5. QED
      BY <3>2, <3>3, <3>4
  <2>2. QED
    BY <2>1 DEF StockIsBooked
<1>3. RowsTell'
  <2>0. PICK n \in Nat : n = Len(journal)
    BY <1>1, LenProperties DEF TypeOK
  <2>1. /\ MovementIds = 1..n /\ Len(rows) \in Nat
        /\ MovementIds' = 1..(n + Len(rows))
        /\ \A i \in MovementIds : journal'[i] = journal[i]
        /\ \A k \in 1..Len(rows) : journal'[n + k] = rows[k]
    BY <1>1, <2>0, WriteAppends, LenProperties DEF TypeOK
  <2>2. ASSUME NEW id \in MovementIds' PROVE RowTells(journal'[id], batches')
    <3>1. CASE id \in MovementIds
      <4>1. RowTells(journal[id], batches)
        BY <3>1 DEF BalanceInv, RowsTell
      <4>2. RowTells(journal[id], batches')
        BY <4>1 DEF RowTells, Balances, BatchIds
      <4>3. QED
        BY <2>1, <3>1, <4>2
    <3>2. CASE id \notin MovementIds
      <4>1. id - n \in 1..Len(rows) /\ n + (id - n) = id
        BY <2>1, <3>2
      <4>2. journal'[id] = rows[id - n]
        BY <2>1, <4>1
      <4>3. QED
        BY <4>1, <4>2 DEF Balances
    <3>3. QED
      BY <3>1, <3>2
  <2>3. QED
    BY <2>2 DEF RowsTell
<1>4. QED
  BY <1>2, <1>3 DEF BalanceInv

(***************************************************************************)
(* What each operation owes it                                             *)
(***************************************************************************)
\* What an allocation takes from the batches of an article.
TakenOf(order, take, n, a) ==
    [i \in 1..n |-> IF batches[order[i]].article = a THEN take[i] ELSE 0]

\* Each batch of the order is left with what is not taken, and no other moves.
TakesOnce(order, take, n) ==
    /\ BatchIds' = BatchIds
    /\ \A i, j \in 1..n : order[i] = order[j] => i = j
    /\ \A b \in BatchIds : (\A i \in 1..n : order[i] # b) => batches'[b] = batches[b]
    /\ \A i \in 1..n :
          batches'[order[i]] = SetRemaining(order[i], batches[order[i]].remaining - take[i])

\* An allocation takes from each batch it touches, once, and from no other.
LEMMA TakenOnce ==
    ASSUME TypeOK, NEW S \in SUBSET BatchIds, NEW q \in Nat, NEW n \in Nat,
           NEW order \in [1..n -> S], NEW take \in [1..n -> Int],
           Allocates(order, take, S, q), batches' = TakenFrom(order, take)
    PROVE  TakesOnce(order, take, n)
<1>1. BatchIds' = BatchIds
  BY DEF TakenFrom, BatchIds
<1>2. DOMAIN order = 1..n /\ \A i, j \in 1..n : order[i] = order[j] => i = j
  BY DEF Allocates, IsAllocation, IsInjective
<1>3. ASSUME NEW b \in BatchIds, \A i \in 1..n : order[i] # b
      PROVE  batches'[b] = batches[b]
  <2>1. b \notin Range(order)
    BY <1>2, <1>3 DEF Range
  <2>2. QED
    BY <2>1 DEF TakenFrom, BatchIds
<1>4. ASSUME NEW i \in 1..n
      PROVE  batches'[order[i]] = SetRemaining(order[i], batches[order[i]].remaining - take[i])
  <2> DEFINE j == CHOOSE j \in DOMAIN order : order[j] = order[i]
  <2>1. j \in 1..n /\ order[j] = order[i]
    BY <1>2
  <2>2. j = i
    BY <1>2, <2>1
  <2>3. order[i] \in Range(order) /\ order[i] \in BatchIds
    BY <1>2 DEF Range
  <2>4. batches'[order[i]] = SetRemaining(order[i], batches[order[i]].remaining - take[j])
    BY <2>3 DEF TakenFrom, BatchIds
  <2>5. QED
    BY <2>2, <2>4
<1>5. QED
  BY <1>1, <1>2, <1>3, <1>4 DEF TakesOnce

\* It moves the stock of each article by what it takes from its batches.
LEMMA HeldTaken ==
    ASSUME TypeOK, TypeOK', NEW S \in SUBSET BatchIds, NEW q \in Nat, NEW n \in Nat,
           NEW order \in [1..n -> S], NEW take \in [1..n -> Int],
           Allocates(order, take, S, q), batches' = TakenFrom(order, take), NEW a
    PROVE  /\ Held(batches', a) = Held(batches, a) - SumFunction(TakenOf(order, take, n, a))
           /\ Summable(TakenOf(order, take, n, a), 1..n)
           /\ \A b \in BatchIds : batches'[b].article = batches[b].article
<1> DEFINE f == [b \in DOMAIN batches |-> Holding(batches[b], a)]
           g == [b \in DOMAIN batches' |-> Holding(batches'[b], a)]
           t == TakenOf(order, take, n, a)
<1>1. Summable(f, BatchIds) /\ Held(batches, a) = SumFunction(f)
  BY HoldingsAdd DEF TypeOK, BatchIds, Held
<1>2. /\ DOMAIN batches' = BatchIds
      /\ \A i, j \in 1..n : order[i] = order[j] => i = j
      /\ \A b \in BatchIds : (\A i \in 1..n : order[i] # b) => batches'[b] = batches[b]
      /\ \A i \in 1..n :
            batches'[order[i]] = SetRemaining(order[i], batches[order[i]].remaining - take[i])
  <2>1. /\ BatchIds' = BatchIds
        /\ \A i, j \in 1..n : order[i] = order[j] => i = j
        /\ \A b \in BatchIds : (\A i \in 1..n : order[i] # b) => batches'[b] = batches[b]
        /\ \A i \in 1..n :
              batches'[order[i]] = SetRemaining(order[i], batches[order[i]].remaining - take[i])
    <3>1. TakesOnce(order, take, n)
      BY TakenOnce
    <3>2. QED
      BY <3>1 DEF TakesOnce
  <2>2. DOMAIN batches' = BatchIds
    BY <2>1 DEF BatchIds
  <2>3. QED
    BY <2>1, <2>2
<1>3. Summable(g, BatchIds) /\ Held(batches', a) = SumFunction(g)
  <2>1. Summable(g, DOMAIN batches')
    BY HoldingsAdd DEF TypeOK
  <2>2. QED
    BY <1>2, <2>1 DEF Held
<1>4. Summable(t, 1..n)
  <2>1. IsFiniteSet(1..n)
    BY FS_Interval
  <2>2. QED
    BY <2>1 DEF TakenOf, Summable
<1>5. ASSUME NEW i \in 1..n
      PROVE  /\ g[order[i]] = f[order[i]] - t[i]
             /\ batches'[order[i]].article = batches[order[i]].article
  <2>1. batches[order[i]] \in Batch /\ order[i] \in BatchIds /\ take[i] \in Int
    BY BatchIsBatch
  <2>2. batches[order[i]].remaining \in Int
    BY <2>1 DEF Batch
  <2>3. /\ batches'[order[i]].article = batches[order[i]].article
        /\ batches'[order[i]].remaining = batches[order[i]].remaining - take[i]
    BY <1>2, <2>1 DEF SetRemaining, Batch
  <2>4. /\ g[order[i]] = Holding(batches'[order[i]], a)
        /\ f[order[i]] = Holding(batches[order[i]], a)
        /\ t[i] = IF batches[order[i]].article = a THEN take[i] ELSE 0
    BY <1>2, <2>1 DEF BatchIds, TakenOf
  <2>5. QED
    BY <2>1, <2>2, <2>3, <2>4 DEF Holding
<1>6. \A b \in BatchIds : (\A i \in 1..n : order[i] # b) => g[b] = f[b]
  BY <1>2 DEF BatchIds
<1>7. ASSUME NEW b \in BatchIds PROVE batches'[b].article = batches[b].article
  <2>1. CASE \A i \in 1..n : order[i] # b
    <3>1. batches'[b] = batches[b]
      BY <1>2, <2>1
    <3>2. QED
      BY <3>1
  <2>2. CASE \E i \in 1..n : order[i] = b
    BY <1>5, <2>2
  <2>3. QED
    BY <2>1, <2>2
<1>8. order \in [1..n -> BatchIds]
  OBVIOUS
<1> HIDE DEF f, g, t
<1>9. SumFunction(g) = SumFunction(f) - SumFunction(t)
  <2>1. Summable(f, BatchIds) /\ Summable(g, BatchIds) /\ Summable(t, 1..n)
    BY <1>1, <1>3, <1>4
  <2>2. \A i, j \in 1..n : order[i] = order[j] => i = j
    BY <1>2
  <2>3. \A i \in 1..n : g[order[i]] = f[order[i]] - t[i]
    BY <1>5
  <2>4. QED
    <3>1. TakesAway(f, g, t, order, n, BatchIds)
      BY <1>6, <1>8, <2>2, <2>3 DEF TakesAway
    <3>2. QED
      BY <2>1, <3>1, SumTaken
<1>10. QED
  BY <1>1, <1>3, <1>4, <1>7, <1>9 DEF t

\* Batches that keep their article and what remains hold what they held.
LEMMA HeldSame ==
    ASSUME NEW table, NEW other, DOMAIN other = DOMAIN table,
           \A b \in DOMAIN table : /\ other[b].article = table[b].article
                                   /\ other[b].remaining = table[b].remaining,
           NEW a
    PROVE  Held(other, a) = Held(table, a)
<1>1. [b \in DOMAIN other |-> Holding(other[b], a)] = [b \in DOMAIN table |-> Holding(table[b], a)]
  BY DEF Holding
<1>2. QED
  BY <1>1 DEF Held

\* An entry: a batch of its own and the row that says what came in.
LEMMA EntryBalances ==
    ASSUME NullIsNoNumber, BalanceInv, NEW v \in Batch, Insert(v),
           NEW row \in Movement, Write(<<row>>), row.batch = Len(batches) + 1,
           row.article = v.article, row.quantity = v.remaining,
           row.reason \notin OutingReasons
    PROVE  Balances(<<row>>)
<1>1. <<row>> \in Seq(Movement) /\ 1..Len(<<row>>) = {1} /\ <<row>>[1] = row
  BY OneRow
<1>2. /\ TypeOK /\ BatchIds' = BatchIds \cup {Len(batches) + 1} /\ Len(batches) + 1 \in Nat
      /\ \A b \in BatchIds : batches'[b] = batches[b]
      /\ batches'[Len(batches) + 1] = v
  BY Inserted DEF BalanceInv
<1>3. row.batch # Null /\ row.batch \in DOMAIN batches' /\ batches'[row.batch] = v
  BY <1>2 DEF NullIsNoNumber, BatchIds
<1>4. RowTells(row, batches')
  BY <1>3 DEF RowTells
<1>5. ASSUME NEW a \in Articles
      PROVE  Held(batches', a) = Held(batches, a) + Booked(<<row>>, a)
  <2>1. batches' = Append(batches, v) /\ batches \in Seq(Batch)
    BY <1>2 DEF Insert, TypeOK
  <2>2. Held(batches', a) = Held(batches, a) + Holding(v, a)
    BY <2>1, HeldInserted
  <2>3. Booked(<<row>>, a) = Counts(row, a)
    BY BookedOfOne
  <2>4. Counts(row, a) = Holding(v, a)
    BY <1>3 DEF Counts, Holding
  <2>5. QED
    BY <2>2, <2>3, <2>4
<1>6. QED
  BY <1>1, <1>2, <1>4, <1>5 DEF Balances

\* One batch that moves, with the row that says by how much.
LEMMA MoveBalances ==
    ASSUME NullIsNoNumber, BalanceInv, TypeOK', NEW b \in BatchIds, NEW v \in Batch,
           batches' = [batches EXCEPT ![b] = v], v.article = batches[b].article,
           NEW row \in Movement, Write(<<row>>), row.batch = b,
           row.article = batches[b].article,
           v.remaining = batches[b].remaining + row.quantity,
           row.corrects = Null /\ row.reason \in OutingReasons => row.quantity <= 0
    PROVE  Balances(<<row>>)
<1>1. <<row>> \in Seq(Movement) /\ 1..Len(<<row>>) = {1} /\ <<row>>[1] = row
  BY OneRow
<1>2. /\ TypeOK /\ BatchIds' = BatchIds /\ batches'[b] = v
      /\ \A c \in BatchIds \ {b} : batches'[c] = batches[c]
  BY OneReplaced DEF BalanceInv
<1>3. /\ batches[b] \in Batch /\ b \in Nat /\ batches[b].remaining \in Int
      /\ row.quantity \in Int
  BY <1>2, BatchIsBatch DEF Movement
<1>4. b # Null
  BY <1>3 DEF NullIsNoNumber
<1>5. \A c \in BatchIds : c \in BatchIds' /\ batches'[c].article = batches[c].article
  BY <1>2
<1>6. RowTells(row, batches')
  BY <1>2, <1>5 DEF RowTells, BatchIds
<1>7. ASSUME NEW a \in Articles
      PROVE  Held(batches', a) = Held(batches, a) + Booked(<<row>>, a)
  <2>1. batches \in Seq(Batch) /\ batches' \in Seq(Batch) /\ OneMoved(batches, batches', b)
    BY <1>2 DEF TypeOK, BatchIds, OneMoved
  <2>2. Held(batches', a) = Held(batches, a) + (Holding(batches'[b], a) - Holding(batches[b], a))
    BY ONLY <2>1, HeldReplaced
  <2>3. Booked(<<row>>, a) = Counts(row, a)
    BY BookedOfOne
  <2>4. Counts(row, a) = Holding(batches'[b], a) - Holding(batches[b], a)
    BY <1>2, <1>3, <1>4 DEF Counts, Holding
  <2>5. QED
    BY <2>2, <2>3, <2>4
<1>8. QED
  BY <1>1, <1>5, <1>6, <1>7 DEF Balances

\* Batches that keep their article and what remains, with rows that add up to
\* nothing.
LEMMA StillBalances ==
    ASSUME BalanceInv, BatchIds' = BatchIds,
           \A b \in BatchIds : /\ batches'[b].article = batches[b].article
                               /\ batches'[b].remaining = batches[b].remaining,
           NEW rows \in Seq(Movement), Write(rows),
           \A k \in 1..Len(rows) : RowTells(rows[k], batches'),
           \A a \in Articles : Booked(rows, a) = 0
    PROVE  Balances(rows)
<1>1. ASSUME NEW a \in Articles PROVE Held(batches', a) = Held(batches, a) + Booked(rows, a)
  <2>1. Held(batches', a) = Held(batches, a)
    BY HeldSame DEF BatchIds
  <2>2. Held(batches, a) \in Int
    BY HoldingsAdd DEF BalanceInv, TypeOK
  <2>3. QED
    BY <2>1, <2>2
<1>2. QED
  BY <1>1 DEF Balances

\* add_stock: what enters is what the row says.
LEMMA AddStockBalances ==
    ASSUME LedgerConstants, NullIsNoNumber, BalanceInv,
           NEW a \in Articles, NEW l \in Locations, NEW q \in 0..MaxQuantity,
           NEW d \in Dates \cup {Null}, NEW p \in Prices \cup {Null}, NEW m \in Moments,
           NEW r \in EntryReasons, NEW k \in Keys \cup {Null},
           AddStock(a, l, q, d, p, m, r, k)
    PROVE  \E rows : Balances(rows)
<1> DEFINE key == CallerKey("add_stock", k, 0)
           v   == NewBatch(a, l, q, d, m, p)
           row == MovementRow(a, Len(batches) + 1, q, r, CostOf(q, p), key)
<1>1. TypeOK
  BY DEF BalanceInv
<1>2. /\ q \in Int /\ p \in Nat \cup {Null} /\ r \in Reasons
      /\ Len(batches) + 1 \in Nat /\ d \in Nat \cup {Null} /\ m \in Nat
  BY <1>1, LenProperties DEF LedgerConstants, Reasons, TypeOK
<1>3. v \in Batch /\ v.remaining = q /\ v.article = a
  BY <1>2 DEF NewBatch, Batch
<1>4. CostOf(q, p) \in Int \cup {Null} /\ key \in Key \cup {Null}
  BY <1>2, CostType, CallerKeyType
<1>5. row \in Movement
  BY <1>2, <1>4, MovementRowType
<1>6. /\ row.batch = Len(batches) + 1 /\ row.quantity = q /\ row.article = a
      /\ row.reason \notin OutingReasons
  BY DEF MovementRow, OutingReasons
<1>7. Insert(v) /\ Write(<<row>>)
  BY DEF AddStock
<1> HIDE DEF v, row
<1>8. Balances(<<row>>)
  BY <1>3, <1>5, <1>6, <1>7, EntryBalances
<1>9. QED
  BY <1>8

\* An inventory that counted more: what was found is what the row says.
LEMMA AdjustUpBalances ==
    ASSUME LedgerConstants, NullIsNoNumber, BalanceInv, NEW a \in Articles,
           NEW l \in Locations, NEW c \in Nat, NEW m \in Moments, AdjustUp(a, l, c, m)
    PROVE  \E rows : Balances(rows)
<1>1. TypeOK
  BY DEF BalanceInv
<1>2. PICK found \in 1..c :
         /\ Insert(NewBatch(a, l, found, Null, m, Null))
         /\ Write(<<MovementRow(a, Len(batches) + 1, found, "inventory", Null, Null)>>)
  BY DEF AdjustUp
<1> DEFINE v   == NewBatch(a, l, found, Null, m, Null)
           row == MovementRow(a, Len(batches) + 1, found, "inventory", Null, Null)
<1>3. m \in Nat /\ Len(batches) + 1 \in Nat
  BY <1>1, LenProperties DEF LedgerConstants, TypeOK
<1>4. v \in Batch /\ v.remaining = found /\ v.article = a
  BY <1>3 DEF NewBatch, Batch
<1>5. row \in Movement
  BY <1>3 DEF MovementRow, Movement, Reasons
<1>6. /\ row.batch = Len(batches) + 1 /\ row.quantity = found /\ row.article = a
      /\ row.reason \notin OutingReasons
  BY DEF MovementRow, OutingReasons, LedgerConstants
<1>7. Insert(v) /\ Write(<<row>>)
  BY <1>2
<1> HIDE DEF v, row
<1>8. Balances(<<row>>)
  BY <1>4, <1>5, <1>6, <1>7, EntryBalances
<1>9. QED
  BY <1>8

\* consume_batch: what the batch loses is what the row says.
LEMMA ConsumeBatchBalances ==
    ASSUME LedgerConstants, NullIsNoNumber, BalanceInv, NEW b \in BatchIds,
           NEW q \in Nat, NEW r \in OutReasons, NEW k \in Keys \cup {Null},
           ConsumeBatch(b, q, r, k)
    PROVE  \E rows : Balances(rows)
<1> DEFINE key  == CallerKey("consume_batch", k, 0)
           cost == CostOf(q, batches[b].price)
           row  == MovementRow(batches[b].article, b, -q, r, cost, key)
           kept == batches[b].remaining - q
           v    == SetRemaining(b, kept)
<1>1. TypeOK' /\ TypeOK
  BY ConsumeBatchType DEF BalanceInv
<1>2. /\ batches[b] \in Batch /\ b \in Nat /\ batches[b].article \in Articles
      /\ batches[b].remaining \in Int /\ batches[b].price \in Nat \cup {Null}
  BY <1>1, BatchIsBatch DEF Batch
<1>3. cost \in Int \cup {Null} /\ key \in Key \cup {Null} /\ r \in Reasons
  <2>1. q \in Int
    OBVIOUS
  <2>2. CostOf(q, batches[b].price) \in Int \cup {Null}
    BY <1>2, <2>1, CostType
  <2>3. key \in Key \cup {Null}
    BY CallerKeyType
  <2>4. QED
    BY <2>2, <2>3 DEF LedgerConstants, Reasons
<1>4. row \in Movement
  <2> HIDE DEF cost, key
  <2>1. -q \in Int /\ b \in Nat \cup {Null}
    BY <1>2
  <2>2. QED
    BY <1>2, <1>3, <2>1, MovementRowType
<1>5. row.batch = b /\ row.quantity = -q /\ row.article = batches[b].article
  BY DEF MovementRow
<1>6. /\ v \in Batch /\ v.article = batches[b].article
      /\ v.remaining = batches[b].remaining + row.quantity
  <2>1. kept \in Int /\ kept = batches[b].remaining + -q
    BY <1>2
  <2>2. v \in Batch
    BY <1>1, <2>1, SetRemainingType
  <2>3. v.article = batches[b].article /\ v.remaining = kept
    BY <1>2 DEF SetRemaining, Batch
  <2>4. QED
    BY <1>5, <2>1, <2>2, <2>3
<1>7. batches' = [batches EXCEPT ![b] = v] /\ Write(<<row>>)
  BY DEF ConsumeBatch
<1>8. row.quantity <= 0
  BY <1>5
<1> HIDE DEF v, row
<1>9. Balances(<<row>>)
  BY <1>1, <1>4, <1>5, <1>6, <1>7, <1>8, MoveBalances
<1>10. QED
  BY <1>9

\* transfer_batch moves a batch, and its row nothing.
LEMMA TransferBatchBalances ==
    ASSUME LedgerConstants, NullIsNoNumber, BalanceInv, NEW b \in BatchIds,
           NEW l \in Locations, TransferBatch(b, l)
    PROVE  \E rows : Balances(rows)
<1> DEFINE row == MovementRow(batches[b].article, b, 0, "transfer", Null, Null)
           v   == [batches[b] EXCEPT !.location = l]
<1>1. TypeOK' /\ TypeOK
  BY TransferBatchType DEF BalanceInv
<1>2. /\ batches[b] \in Batch /\ b \in Nat /\ batches[b].article \in Articles
      /\ batches[b].remaining \in Int
  BY <1>1, BatchIsBatch DEF Batch
<1>3. row \in Movement
  BY <1>2 DEF MovementRow, Movement, Reasons
<1>4. row.batch = b /\ row.quantity = 0 /\ row.article = batches[b].article
  BY DEF MovementRow
<1>5. v \in Batch /\ v.article = batches[b].article /\ v.remaining = batches[b].remaining
  BY <1>2 DEF Batch
<1>6. v.remaining = batches[b].remaining + row.quantity
  BY <1>2, <1>4, <1>5
<1>7. batches' = [batches EXCEPT ![b] = v] /\ Write(<<row>>)
  BY DEF TransferBatch
<1>8. row.quantity <= 0
  BY <1>4
<1> HIDE DEF v, row
<1>9. Balances(<<row>>)
  BY <1>1, <1>3, <1>4, <1>5, <1>6, <1>7, <1>8, MoveBalances
<1>10. QED
  BY <1>9

\* correct_movement gives back to the batch what its row took from it; where
\* the row names no batch, nothing moves and nothing counts.
LEMMA CorrectMovementBalances ==
    ASSUME NullIsNoNumber, BalanceInv, NEW id \in MovementIds, CorrectMovement(id)
    PROVE  \E rows : Balances(rows)
<1> DEFINE b   == journal[id].batch
           row == Reversal(id)
<1>1. TypeOK' /\ TypeOK /\ journal[id] \in Movement /\ id # Null
  BY CorrectMovementType, LenProperties, ElementOfSeq
  DEF BalanceInv, TypeOK, MovementIds, NullIsNoNumber
<1>2. row \in Movement /\ Write(<<row>>)
  BY <1>1, ReversalType DEF CorrectMovement
<1>3. /\ row.batch = b /\ row.corrects = id /\ row.article = journal[id].article
      /\ row.quantity = -journal[id].quantity /\ journal[id].quantity \in Int
  BY <1>1 DEF Reversal, Movement
<1>4. RowTells(journal[id], batches)
  BY DEF BalanceInv, RowsTell
<1>5. CASE b = Null
  <2>1. batches' = batches
    BY <1>5 DEF CorrectMovement
  <2>2. <<row>> \in Seq(Movement) /\ 1..Len(<<row>>) = {1} /\ <<row>>[1] = row
    BY <1>2, OneRow
  <2>3. RowTells(row, batches')
    BY <1>1, <1>3, <1>5 DEF RowTells
  <2>4. ASSUME NEW a \in Articles PROVE Booked(<<row>>, a) = 0
    <3>1. Counts(row, a) = 0
      BY <1>1, <1>3, <1>5 DEF Counts
    <3>2. QED
      BY <1>2, <3>1, BookedOfOne
  <2> HIDE DEF row
  <2>5. Balances(<<row>>)
    BY <1>2, <2>1, <2>2, <2>3, <2>4, StillBalances DEF BatchIds
  <2>6. QED
    BY <2>5
<1>6. CASE b # Null
  <2> DEFINE after == batches[b].remaining - journal[id].quantity
             v     == SetRemaining(b, after)
  <2>1. b \in BatchIds /\ row.article = batches[b].article
    BY <1>3, <1>4, <1>6 DEF RowTells, BatchIds
  <2>2. batches' = [batches EXCEPT ![b] = v]
    BY <1>6 DEF CorrectMovement
  <2>3. /\ batches[b] \in Batch /\ batches[b].remaining \in Int /\ after \in Int
        /\ after = batches[b].remaining + row.quantity
    BY <1>1, <1>3, <2>1, BatchIsBatch
  <2>4. v \in Batch
    <3> HIDE DEF after, b
    <3>1. QED
      BY <1>1, <2>1, <2>3, SetRemainingType
  <2>5. v.article = batches[b].article /\ v.remaining = after
    BY <2>3 DEF SetRemaining, Batch
  <2>6. row.corrects # Null
    BY <1>1, <1>3
  <2> HIDE DEF v, row, b, after
  <2>7. Balances(<<row>>)
    BY <1>1, <1>2, <1>3, <2>1, <2>2, <2>3, <2>4, <2>5, <2>6, MoveBalances
  <2>8. QED
    BY <2>7
<1>7. QED
  BY <1>5, <1>6

\* consume: what each batch loses is what its row says.
LEMMA ConsumeBalances ==
    ASSUME LedgerConstants, NullIsNoNumber, BalanceInv, NEW p \in Products,
           NEW q \in Nat, NEW r \in OutReasons, NEW k \in Keys \cup {Null},
           Consume(p, q, r, k)
    PROVE  \E rows : Balances(rows)
<1> DEFINE S == OpenOf({a \in Articles : ProductOf[a] = p})
<1>1. TypeOK' /\ TypeOK
  BY ConsumeType DEF BalanceInv
<1>2. PICK n, order, take, rows : ConsumedAs(p, q, r, k, n, order, take, rows)
  BY <1>1, ConsumeWrites
<1>3. /\ n \in Nat /\ order \in [1..n -> S] /\ take \in [1..n -> Int]
      /\ Allocates(order, take, S, q) /\ batches' = TakenFrom(order, take)
  BY <1>2 DEF ConsumedAs
<1>4. S \in SUBSET BatchIds
  BY CandidatesAreBatches
<1>5. rows \in Seq(Movement) /\ Len(rows) = n /\ DOMAIN rows = 1..n /\ Write(rows)
  BY <1>2, LenProperties DEF ConsumedAs
<1>6. ASSUME NEW i \in 1..n
      PROVE  /\ rows[i].batch = order[i] /\ rows[i].quantity = -take[i]
             /\ rows[i].article = batches[order[i]].article /\ take[i] >= 0
             /\ order[i] \in BatchIds /\ order[i] # Null
  <2>1. take[i] >= 0
    <3>1. take[i] \in 0..batches[order[i]].remaining
      BY <1>3 DEF Allocates, IsAllocation
    <3>2. QED
      BY <3>1
  <2>2. rows[i] = MovementRow(batches[order[i]].article, order[i], -take[i], r,
                              CostOf(take[i], batches[order[i]].price),
                              CallerKey("consume", k, i - 1))
    BY <1>2 DEF ConsumedAs
  <2>3. order[i] \in BatchIds
    BY <1>3, <1>4
  <2>4. order[i] \in Nat
    BY <1>1, <2>3, BatchIsBatch
  <2>5. order[i] # Null
    BY <2>4 DEF NullIsNoNumber
  <2>6. /\ rows[i].batch = order[i] /\ rows[i].quantity = -take[i]
        /\ rows[i].article = batches[order[i]].article
    BY <2>2 DEF MovementRow
  <2>7. QED
    BY <2>1, <2>3, <2>5, <2>6
<1> HIDE DEF S
<1>7. ASSUME NEW a
      PROVE  /\ Held(batches', a) = Held(batches, a) - SumFunction(TakenOf(order, take, n, a))
             /\ Summable(TakenOf(order, take, n, a), 1..n)
             /\ \A b \in BatchIds : batches'[b].article = batches[b].article
  BY <1>1, <1>3, <1>4, HeldTaken
<1>8. BatchIds' = BatchIds /\ \A b \in BatchIds : batches'[b].article = batches[b].article
  BY <1>3, <1>7 DEF TakenFrom, BatchIds
<1>9. ASSUME NEW i \in 1..Len(rows) PROVE RowTells(rows[i], batches')
  <2>1. /\ rows[i].batch \in DOMAIN batches' /\ rows[i].quantity <= 0
        /\ rows[i].article = batches'[rows[i].batch].article
    BY <1>3, <1>5, <1>6, <1>8 DEF BatchIds
  <2>2. QED
    BY <2>1 DEF RowTells
<1>10. ASSUME NEW a \in Articles PROVE Held(batches', a) = Held(batches, a) + Booked(rows, a)
  <2> DEFINE f == TakenOf(order, take, n, a)
             g == [i \in DOMAIN rows |-> Counts(rows[i], a)]
  <2>1. Summable(f, 1..n) /\ Held(batches', a) = Held(batches, a) - SumFunction(f)
    BY <1>7
  <2>2. Summable(g, DOMAIN rows)
    BY <1>5, CountsAdd
  <2>3. Booked(rows, a) = SumFunction(g)
    BY DEF Booked
  <2>4. ASSUME NEW i \in 1..n PROVE g[i] = -f[i]
    <3>1. g[i] = Counts(rows[i], a) /\ take[i] \in Int
      BY <1>3, <1>5
    <3>2. f[i] = IF batches[order[i]].article = a THEN take[i] ELSE 0
      BY DEF TakenOf
    <3>3. QED
      BY <1>6, <3>1, <3>2 DEF Counts
  <2> HIDE DEF f, g
  <2>5. SumFunction(g) = -SumFunction(f)
    BY <1>5, <2>1, <2>2, <2>4, SumNegated
  <2>6. SumFunction(f) \in Int /\ Held(batches, a) \in Int
    BY <1>1, <2>1, SummableSays, HoldingsAdd DEF TypeOK
  <2>7. QED
    BY <2>1, <2>3, <2>5, <2>6
<1>11. Balances(rows)
  BY <1>5, <1>8, <1>9, <1>10 DEF Balances
<1>12. QED
  BY <1>11

\* An inventory that counted less: what is missing from the article, in all, is
\* what the one row says.
LEMMA AdjustDownBalances ==
    ASSUME LedgerConstants, NullIsNoNumber, BalanceInv, NEW x \in Articles,
           NEW l \in Locations, NEW c \in Nat, AdjustDown(x, l, c)
    PROVE  \E rows : Balances(rows)
<1>1. TypeOK' /\ TypeOK /\ At(x, l) \in SUBSET BatchIds
  BY AdjustDownType, CandidatesAreBatches DEF BalanceInv
<1>2. PICK missing \in 1..MaxStock :
         /\ \E order \in Orders(At(x, l)) : \E take \in [DOMAIN order -> 0..missing] :
               /\ Allocates(order, take, At(x, l), missing)
               /\ batches' = TakenFrom(order, take)
         /\ Write(<<MovementRow(x, Null, -missing, "inventory", Null, Null)>>)
  BY DEF AdjustDown
<1>3. PICK order \in Orders(At(x, l)) : \E take \in [DOMAIN order -> 0..missing] :
         /\ Allocates(order, take, At(x, l), missing)
         /\ batches' = TakenFrom(order, take)
  BY <1>2
<1>4. PICK take \in [DOMAIN order -> 0..missing] :
         /\ Allocates(order, take, At(x, l), missing)
         /\ batches' = TakenFrom(order, take)
  BY <1>3
<1>5. PICK n \in 1..Cardinality(At(x, l)) : order \in [1..n -> At(x, l)]
  BY DEF Orders
<1>6. n \in Nat /\ missing \in Nat /\ take \in [1..n -> Int]
  BY <1>5
<1>7. SumFunction(take) = missing /\ \A i \in 1..n : batches[order[i]].article = x
  BY <1>4, <1>5 DEF Allocates, IsAllocation, At, OpenOf
<1> DEFINE row == MovementRow(x, Null, -missing, "inventory", Null, Null)
<1>8. /\ row \in Movement /\ row.batch = Null /\ row.corrects = Null
      /\ row.article = x /\ row.quantity = -missing /\ row.quantity <= 0
  BY DEF MovementRow, Movement, Reasons
<1>9. <<row>> \in Seq(Movement) /\ 1..Len(<<row>>) = {1} /\ <<row>>[1] = row /\ Write(<<row>>)
  BY <1>2, <1>8, OneRow
<1> HIDE DEF row
<1>10. ASSUME NEW a
      PROVE  /\ Held(batches', a) = Held(batches, a) - SumFunction(TakenOf(order, take, n, a))
             /\ Summable(TakenOf(order, take, n, a), 1..n)
             /\ \A b \in BatchIds : batches'[b].article = batches[b].article
  BY <1>1, <1>4, <1>5, <1>6, HeldTaken
<1>11. BatchIds' = BatchIds /\ \A b \in BatchIds : batches'[b].article = batches[b].article
  BY <1>4, <1>10 DEF TakenFrom, BatchIds
<1>12. RowTells(row, batches')
  BY <1>8 DEF RowTells
<1>13. ASSUME NEW a \in Articles PROVE Held(batches', a) = Held(batches, a) + Booked(<<row>>, a)
  <2> DEFINE f == TakenOf(order, take, n, a)
  <2>1. Summable(f, 1..n) /\ Held(batches', a) = Held(batches, a) - SumFunction(f)
    BY <1>10
  <2>2. Booked(<<row>>, a) = Counts(row, a)
    BY <1>8, BookedOfOne
  <2>3. Held(batches, a) \in Int
    BY <1>1, HoldingsAdd DEF TypeOK
  <2>4. CASE a = x
    <3>1. f = take
      BY <1>6, <1>7, <2>4 DEF TakenOf
    <3>2. Counts(row, a) = -missing
      BY <1>8, <2>4 DEF Counts
    <3>3. QED
      BY <1>6, <1>7, <2>1, <2>2, <2>3, <3>1, <3>2
  <2>5. CASE a # x
    <3>1. \A i \in 1..n : f[i] = 0
      BY <1>7, <2>5 DEF TakenOf
    <3> HIDE DEF f
    <3>2. SumFunction(f) = 0
      BY <2>1, <3>1, SumOfZeros
    <3>3. Counts(row, a) = 0
      BY <1>8, <2>5 DEF Counts
    <3>4. QED
      BY <2>1, <2>2, <2>3, <3>2, <3>3
  <2>6. QED
    BY <2>4, <2>5
<1>14. Balances(<<row>>)
  BY <1>9, <1>11, <1>12, <1>13 DEF Balances
<1>15. QED
  BY <1>14

\* What a price correction writes, pair by pair: what the first half takes
\* back, the second gives again.
PairedRows(rows, n, ids) ==
    /\ rows \in Seq(Movement) /\ Len(rows) = 2 * n /\ DOMAIN rows = 1..(2 * n)
    /\ \A i \in 1..n :
          LET mirror == rows[2 * i - 1]
              copy   == rows[2 * i]
              id     == ids[i]
          IN  /\ id \in MovementIds
              /\ mirror.batch = journal[id].batch /\ mirror.article = journal[id].article
              /\ mirror.quantity = -journal[id].quantity /\ mirror.corrects # Null
              /\ copy.batch = journal[id].batch /\ copy.article = journal[id].article
              /\ copy.quantity = journal[id].quantity /\ copy.corrects = Null
              /\ copy.reason = journal[id].reason
              /\ journal[id].quantity \in Int

\* That is what it writes.
LEMMA RepricedPairs ==
    ASSUME NullIsNoNumber, TypeOK, NEW price \in Nat \cup {Null}, NEW n \in Nat,
           NEW ids \in [1..n -> MovementIds]
    PROVE  PairedRows(Repriced(ids, price), n, ids)
<1> DEFINE rows == Repriced(ids, price)
<1>1. /\ rows \in Seq(Movement) /\ Len(rows) = 2 * n
      /\ \A i \in 1..n : rows[2 * i - 1] = Reversal(ids[i]) /\ rows[2 * i] = Reprice(ids[i], price)
  BY RepricedRows
<1> HIDE DEF rows
<1>2. DOMAIN rows = 1..(2 * n)
  BY <1>1, LenProperties
<1>3. ASSUME NEW id \in MovementIds
      PROVE  /\ Reversal(id).batch = journal[id].batch
             /\ Reversal(id).article = journal[id].article
             /\ Reversal(id).quantity = -journal[id].quantity /\ Reversal(id).corrects # Null
             /\ Reprice(id, price).batch = journal[id].batch
             /\ Reprice(id, price).article = journal[id].article
             /\ Reprice(id, price).quantity = journal[id].quantity
             /\ Reprice(id, price).corrects = Null
             /\ Reprice(id, price).reason = journal[id].reason
             /\ journal[id].quantity \in Int
  <2>1. journal[id] \in Movement /\ id \in Nat
    BY LenProperties, ElementOfSeq DEF TypeOK, MovementIds
  <2>2. id # Null
    BY <2>1 DEF NullIsNoNumber
  <2>3. QED
    BY <2>1, <2>2 DEF Reversal, Reprice, Movement
<1>4. PairedRows(rows, n, ids)
  BY <1>1, <1>2, <1>3 DEF PairedRows
<1>5. QED
  BY <1>4 DEF rows

\* correct_price moves no stock, and its rows add up to nothing.
LEMMA CorrectPriceBalances ==
    ASSUME LedgerConstants, NullIsNoNumber, BalanceInv, NEW b \in BatchIds,
           NEW price \in Prices \cup {Null}, CorrectPrice(b, price)
    PROVE  \E rows : Balances(rows)
<1>1. TypeOK' /\ TypeOK /\ price \in Nat \cup {Null} /\ batches[b] \in Batch /\ b \in Nat
  BY CorrectPriceType, BatchIsBatch DEF BalanceInv, LedgerConstants
<1>2. PICK ids \in [1..Cardinality(ToReprice(b)) -> ToReprice(b)] : Write(Repriced(ids, price))
  BY DEF CorrectPrice
<1>3. PICK n \in Nat : ids \in [1..n -> ToReprice(b)]
  <2>1. ToReprice(b) \subseteq MovementIds
    BY DEF ToReprice
  <2>2. QED
    BY <1>1, <2>1, RowsAreFinite
<1>4. /\ ids \in [1..n -> MovementIds]
      /\ \A i \in 1..n : journal[ids[i]].batch = b /\ journal[ids[i]].corrects = Null
  BY <1>3 DEF ToReprice
<1> DEFINE rows == Repriced(ids, price)
<1>5. PairedRows(rows, n, ids)
  BY <1>1, <1>4, RepricedPairs
<1>6. rows \in Seq(Movement) /\ Len(rows) = 2 * n /\ DOMAIN rows = 1..(2 * n) /\ Write(rows)
  BY <1>2, <1>5 DEF PairedRows
<1> HIDE DEF rows
<1>7. batches' = [batches EXCEPT ![b] = [batches[b] EXCEPT !.price = price]]
  BY DEF CorrectPrice
<1>8. /\ BatchIds' = BatchIds
      /\ batches'[b] = [batches[b] EXCEPT !.price = price]
      /\ \A c \in BatchIds \ {b} : batches'[c] = batches[c]
  BY <1>1, <1>7, OneReplaced
<1>9. \A c \in BatchIds : /\ batches'[c].article = batches[c].article
                          /\ batches'[c].remaining = batches[c].remaining
  BY <1>1, <1>8 DEF Batch
<1>10. b # Null
  BY <1>1 DEF NullIsNoNumber
<1>11. ASSUME NEW k \in 1..Len(rows) PROVE RowTells(rows[k], batches')
  <2>1. PICK i \in 1..n : k = 2 * i - 1 \/ k = 2 * i
    BY <1>6, TwoByTwo
  <2>2. ids[i] \in MovementIds /\ journal[ids[i]].batch = b /\ journal[ids[i]].corrects = Null
    BY <1>4
  <2>3. RowTells(journal[ids[i]], batches)
    BY <2>2 DEF BalanceInv, RowsTell
  <2>4. journal[ids[i]].article = batches'[b].article /\ b \in DOMAIN batches'
    BY <1>8, <1>9, <1>10, <2>2, <2>3 DEF RowTells, BatchIds
  <2>5. CASE k = 2 * i - 1
    <3>1. /\ rows[k].batch = b /\ rows[k].article = journal[ids[i]].article
          /\ rows[k].corrects # Null
      BY <1>5, <2>2, <2>5 DEF PairedRows
    <3>2. QED
      BY <2>4, <3>1 DEF RowTells
  <2>6. CASE k = 2 * i
    <3>1. /\ rows[k].batch = b /\ rows[k].article = journal[ids[i]].article
          /\ rows[k].reason = journal[ids[i]].reason
          /\ rows[k].quantity = journal[ids[i]].quantity
      BY <1>5, <2>2, <2>6 DEF PairedRows
    <3>2. QED
      BY <2>2, <2>3, <2>4, <3>1 DEF RowTells
  <2>7. QED
    BY <2>1, <2>5, <2>6
<1>12. ASSUME NEW a \in Articles PROVE Booked(rows, a) = 0
  <2> DEFINE f == [k \in DOMAIN rows |-> Counts(rows[k], a)]
  <2>1. Summable(f, 1..(2 * n))
    BY <1>6, CountsAdd
  <2>2. ASSUME NEW i \in 1..n PROVE f[2 * i] = -f[2 * i - 1]
    <3>1. 2 * i - 1 \in DOMAIN rows /\ 2 * i \in DOMAIN rows
      BY <1>6
    <3>2. f[2 * i] = Counts(rows[2 * i], a) /\ f[2 * i - 1] = Counts(rows[2 * i - 1], a)
      BY <3>1
    <3>3. /\ rows[2 * i - 1].batch = b /\ rows[2 * i].batch = b
          /\ rows[2 * i - 1].article = rows[2 * i].article
          /\ rows[2 * i - 1].quantity = -rows[2 * i].quantity
          /\ rows[2 * i].quantity \in Int
      BY <1>4, <1>5 DEF PairedRows
    <3>4. QED
      BY <1>10, <3>2, <3>3 DEF Counts
  <2>3. Booked(rows, a) = SumFunction(f)
    BY DEF Booked
  <2> HIDE DEF f
  <2>4. QED
    BY <2>1, <2>2, <2>3, SumOfPairs
<1>13. Balances(rows)
  BY <1>6, <1>8, <1>9, <1>11, <1>12, StillBalances
<1>14. QED
  BY <1>13

\* open_batch writes nothing, and moves nothing but dates.
LEMMA OpenBatchBalances ==
    ASSUME LedgerConstants, BalanceInv, NEW b \in BatchIds, NEW m \in Moments, OpenBatch(b, m)
    PROVE  BalanceInv'
<1>1. TypeOK' /\ TypeOK
  BY OpenBatchType DEF BalanceInv
<1>2. batches[b] \in Batch /\ journal' = journal
  BY <1>1, BatchIsBatch DEF OpenBatch
<1>3. BatchIds' = BatchIds
      /\ \A c \in BatchIds : /\ batches'[c].article = batches[c].article
                             /\ batches'[c].remaining = batches[c].remaining
  BY <1>2 DEF OpenBatch, BatchIds, Batch
<1>4. \A a : Held(batches', a) = Held(batches, a)
  BY <1>3, HeldSame DEF BatchIds
<1>5. RowsTell'
  BY <1>2, <1>3 DEF BalanceInv, RowsTell, RowTells, MovementIds, BatchIds
<1>6. StockIsBooked'
  BY <1>2, <1>4 DEF BalanceInv, StockIsBooked
<1>7. QED
  BY <1>1, <1>5, <1>6 DEF BalanceInv

\* Every step keeps the balance.
LEMMA NextBalances ==
    ASSUME LedgerConstants, NullIsNoNumber, BalanceInv, TypeOK', [Next]_vars
    PROVE  BalanceInv'
<1>1. CASE UNCHANGED vars
  BY <1>1 DEF vars, BalanceInv, TypeOK, RowsTell, StockIsBooked, MovementIds
<1>2. ASSUME NEW p \in Products, NEW q \in 1..MaxStock, NEW r \in OutReasons,
             NEW k \in Keys \cup {Null}, Consume(p, q, r, k)
      PROVE  BalanceInv'
  BY <1>2, ConsumeBalances, BalancedStep
<1>3. ASSUME NEW b \in BatchIds, NEW r \in OutReasons, NEW k \in Keys \cup {Null},
             NEW q \in 1..batches[b].remaining, ConsumeBatch(b, q, r, k)
      PROVE  BalanceInv'
  BY <1>3, ConsumeBatchBalances, BalancedStep
<1>4. ASSUME NEW a \in Articles, NEW l \in Locations, NEW c \in 0..MaxQuantity,
             AdjustDown(a, l, c)
      PROVE  BalanceInv'
  BY <1>4, AdjustDownBalances, BalancedStep
<1>5. ASSUME NEW a \in Articles, NEW l \in Locations, NEW c \in 0..MaxQuantity,
             NEW m \in Moments, AdjustUp(a, l, c, m)
      PROVE  BalanceInv'
  BY <1>5, AdjustUpBalances, BalancedStep
<1>6. ASSUME NEW a \in Articles, NEW l \in Locations, NEW q \in 0..MaxQuantity,
             NEW d \in Dates \cup {Null}, NEW p \in Prices \cup {Null},
             NEW m \in Moments, NEW r \in EntryReasons, NEW k \in Keys \cup {Null},
             AddStock(a, l, q, d, p, m, r, k)
      PROVE  BalanceInv'
  BY <1>6, AddStockBalances, BalancedStep
<1>7. ASSUME NEW b \in BatchIds, NEW l \in Locations, TransferBatch(b, l)
      PROVE  BalanceInv'
  BY <1>7, TransferBatchBalances, BalancedStep
<1>8. ASSUME NEW id \in MovementIds, CorrectMovement(id)
      PROVE  BalanceInv'
  BY <1>8, CorrectMovementBalances, BalancedStep
<1>9. ASSUME NEW b \in BatchIds, NEW p \in Prices \cup {Null}, CorrectPrice(b, p)
      PROVE  BalanceInv'
  BY <1>9, CorrectPriceBalances, BalancedStep
<1>10. QED
  BY <1>1, <1>2, <1>3, <1>4, <1>5, <1>6, <1>7, <1>8, <1>9, OpenBatchBalances DEF Next

\* The stock of an article is what its rows count, whatever happens.
THEOREM BalanceInvariance == Spec => []BalanceInv
<1>1. Init => BalanceInv
  <2> SUFFICES ASSUME Init PROVE BalanceInv
    OBVIOUS
  <2>1. MovementIds = {} /\ DOMAIN batches = {} /\ DOMAIN journal = {} /\ TypeOK
    BY EmptySeq DEF Init, MovementIds, TypeOK
  <2>2. ASSUME NEW a \in Articles PROVE Held(batches, a) = Booked(journal, a)
    <3>1. [b \in DOMAIN batches |-> Holding(batches[b], a)]
            = [k \in DOMAIN journal |-> Counts(journal[k], a)]
      BY <2>1
    <3>2. QED
      BY <3>1 DEF Held, Booked
  <2>3. QED
    BY <2>1, <2>2 DEF BalanceInv, RowsTell, StockIsBooked
<1>2. BalanceInv /\ TypeOK' /\ [Next]_vars => BalanceInv'
  BY NextBalances, LedgerConstants, NullIsNoNumber
<1>3. QED
  BY <1>1, <1>2, TypeCorrect, PTL DEF Spec

\* What the batches of an article hold, added up over them alone.
LEMMA HeldOverItsBatches ==
    ASSUME TypeOK, NEW a
    PROVE  Held(batches, a)
             = Sum([b \in {b \in BatchIds : batches[b].article = a} |-> batches[b].remaining])
<1> DEFINE f == [b \in DOMAIN batches |-> Holding(batches[b], a)]
           T == {b \in BatchIds : batches[b].article = a}
           g == [b \in T |-> batches[b].remaining]
<1>1. Summable(f, DOMAIN batches) /\ Held(batches, a) = SumFunction(f)
  BY HoldingsAdd DEF TypeOK, Held
<1>2. T \in SUBSET DOMAIN batches
  BY DEF BatchIds
<1>3. g = [b \in T |-> f[b]]
  BY DEF Holding, BatchIds
<1>4. \A b \in DOMAIN batches \ T : f[b] = 0
  BY DEF Holding, BatchIds
<1> HIDE DEF f, T, g
<1>5. SumFunction(f) = SumFunction(g)
  BY <1>1, <1>2, <1>3, <1>4, SumWhere
<1>6. QED
  BY <1>1, <1>5 DEF Sum, T, g

\* The quantities of a set of rows can be added up.
LEMMA QuantitiesAdd ==
    ASSUME TypeOK, NEW S \in SUBSET MovementIds
    PROVE  /\ Summable([id \in S |-> journal[id].quantity], S)
           /\ QuantityIn(S) \in Int
<1> DEFINE f == [id \in S |-> journal[id].quantity]
<1>1. IsFiniteSet(S)
  BY RowsAreFinite
<1>2. \A id \in S : journal[id].quantity \in Int
  <2>1. \A id \in S : journal[id] \in Movement
    BY LenProperties, ElementOfSeq DEF TypeOK, MovementIds
  <2>2. QED
    BY <2>1 DEF Movement
<1>3. Summable(f, S)
  BY <1>1, <1>2 DEF Summable
<1> HIDE DEF f
<1>4. SumFunction(f) \in Int
  BY <1>3, SummableSays
<1>5. QED
  BY <1>3, <1>4 DEF f, QuantityIn, Sum

\* The rows of an article, less the loose ones, are what counts for it.
LEMMA BookedOverItsRows ==
    ASSUME TypeOK, NEW a, NEW rows, NEW loose,
           rows = {id \in MovementIds : journal[id].article = a},
           loose = {id \in rows : journal[id].batch = Null /\ journal[id].corrects # Null}
    PROVE  Booked(journal, a) = QuantityIn(rows) - QuantityIn(loose)
<1> DEFINE f == [k \in DOMAIN journal |-> Counts(journal[k], a)]
           F == [id \in rows |-> journal[id].quantity]
           T == rows \ loose
           g == Restrict(F, T)
<1>1. Summable(f, DOMAIN journal) /\ Booked(journal, a) = SumFunction(f)
  BY CountsAdd DEF TypeOK, Booked
<1>2. rows \in SUBSET MovementIds /\ loose \in SUBSET rows
  OBVIOUS
<1>3. Summable(F, rows) /\ QuantityIn(rows) = SumFunction(F)
  <2>1. Summable(F, rows)
    BY <1>2, QuantitiesAdd
  <2>2. QED
    BY <2>1 DEF QuantityIn, Sum
<1>4. Restrict(F, loose) = [id \in loose |-> journal[id].quantity]
  BY <1>2 DEF Restrict
<1>5. QuantityIn(loose) = SumFunction(Restrict(F, loose)) /\ QuantityIn(loose) \in Int
  <2>1. loose \in SUBSET MovementIds
    BY <1>2
  <2>2. QuantityIn(loose) \in Int
    BY <2>1, QuantitiesAdd
  <2>3. QED
    BY <1>4, <2>2 DEF QuantityIn, Sum
<1>6. /\ T \in SUBSET DOMAIN journal /\ g = [id \in T |-> f[id]]
      /\ \A id \in DOMAIN journal \ T : f[id] = 0
  BY DEF Counts, MovementIds, Restrict
<1>7. Summable(g, T)
  <2> HIDE DEF F
  <2>1. T \in SUBSET rows
    OBVIOUS
  <2>2. QED
    BY <1>3, <2>1, SummablePart
<1> HIDE DEF f, F
<1>8. SumFunction(F) = SumFunction(Restrict(F, loose)) + SumFunction(g)
  BY <1>2, <1>3, SumOfParts
<1> HIDE DEF g, T
<1>9. SumFunction(f) = SumFunction(g)
  BY <1>1, <1>6, SumWhere
<1>10. SumFunction(g) \in Int
  BY <1>7, SummableSays
<1>11. QED
  BY <1>1, <1>3, <1>5, <1>8, <1>9, <1>10

(* The journal balances the stock, article by article, whatever is entered,
   consumed, counted, corrected and repriced: only the correction of a row
   that names no batch moves the one without the other. *)
THEOREM JournalBalances == Spec => []JournalBalancesStock
<1>1. BalanceInv => JournalBalancesStock
  <2> SUFFICES ASSUME BalanceInv, NEW a \in Articles,
                      NEW rows, rows = {id \in MovementIds : journal[id].article = a},
                      NEW loose, loose = {id \in rows : /\ journal[id].batch = Null
                                                        /\ journal[id].corrects # Null}
               PROVE  Sum([b \in {b \in BatchIds : batches[b].article = a}
                             |-> batches[b].remaining])
                        = QuantityIn(rows) - QuantityIn(loose)
    BY DEF JournalBalancesStock
  <2>1. TypeOK /\ Held(batches, a) = Booked(journal, a)
    BY DEF BalanceInv, StockIsBooked
  <2>2. QED
    BY <2>1, HeldOverItsBatches, BookedOverItsRows
<1>2. QED
  BY <1>1, BalanceInvariance, PTL

(***************************************************************************)
(* What outings cost: corrected rows and their corrections cancel out, and *)
(* the rows that stand are priced as their batch is.                       *)
(***************************************************************************)
\* The corrections and the corrected among the rows of a set.
CorrectionsIn(S) == {c \in S : journal[c].corrects # Null}
CorrectedIn(S)   == {d \in S : Corrected(d)}

\* The rows of batch b with a reason in R: each correction is there with the row
\* it corrects.
RowsOf(b, R) == {id \in MovementIds : journal[id].batch = b /\ journal[id].reason \in R}

LEMMA CorrectionsComeInPairs ==
    ASSUME NullIsNoNumber, JournalInv, NEW b, NEW R, NEW S, S = RowsOf(b, R)
    PROVE  /\ [c \in CorrectionsIn(S) |-> journal[c].corrects]
                 \in Bijection(CorrectionsIn(S), CorrectedIn(S))
           /\ CorrectionsIn(S) \cap CorrectedIn(S) = {}
           /\ CorrectionsIn(S) \in SUBSET S /\ CorrectedIn(S) \in SUBSET S
<1> DEFINE C == CorrectionsIn(S)
           D == CorrectedIn(S)
           h == [c \in C |-> journal[c].corrects]
<1>1. MovementIds \subseteq Nat /\ Null \notin MovementIds
      /\ \A c \in MovementIds : \A t \in 1..(c - 1) : t \in MovementIds
  <2>1. MovementIds = 1..Len(journal) /\ Len(journal) \in Nat
    BY LenProperties DEF JournalInv, TypeOK, MovementIds
  <2>2. QED
    BY <2>1 DEF NullIsNoNumber
<1>2. ASSUME NEW c \in MovementIds, journal[c].corrects # Null
      PROVE  /\ journal[c].corrects \in MovementIds
             /\ journal[journal[c].corrects].corrects = Null
             /\ journal[c].batch = journal[journal[c].corrects].batch
             /\ journal[c].reason = journal[journal[c].corrects].reason
  BY <1>1, <1>2 DEF JournalInv, CorrectionsMirror
<1>3. h \in [C -> D]
  BY <1>2 DEF CorrectionsIn, CorrectedIn, Corrected, RowsOf
<1>4. \A c, d \in C : h[c] = h[d] => c = d
  BY DEF JournalInv, CorrectionsMirror, CorrectionsIn, RowsOf
<1>5. ASSUME NEW d \in D PROVE \E c \in C : h[c] = d
  <2>1. d \in MovementIds /\ d \in S
    BY DEF CorrectedIn, RowsOf
  <2>2. PICK c \in MovementIds : journal[c].corrects = d
    BY DEF CorrectedIn, Corrected
  <2>3. journal[c].corrects # Null
    BY <1>1, <2>1, <2>2
  <2>4. c \in C
    BY <1>2, <2>1, <2>2, <2>3 DEF CorrectionsIn, RowsOf
  <2>5. QED
    BY <2>2, <2>4
<1>6. C \cap D = {}
  <2>1. ASSUME NEW d \in C \cap D PROVE FALSE
    <3>1. d \in MovementIds /\ journal[d].corrects # Null
      BY DEF CorrectionsIn, RowsOf
    <3>2. PICK c \in MovementIds : journal[c].corrects = d
      BY DEF CorrectedIn, Corrected
    <3>3. journal[c].corrects # Null
      BY <1>1, <3>1, <3>2
    <3>4. QED
      BY <1>2, <3>1, <3>2, <3>3
  <2>2. QED
    BY <2>1
<1>7. C \in SUBSET S /\ D \in SUBSET S
  BY DEF CorrectionsIn, CorrectedIn
<1> HIDE DEF C, D, h
<1>8. h \in Bijection(C, D)
  BY <1>3, <1>4, <1>5 DEF Bijection, Injection, Surjection, IsInjective
<1>9. QED
  BY <1>6, <1>7, <1>8 DEF C, D, h

\* What is worth nothing costs nothing; the reversal takes back the worth.
LEMMA WorthOfFlip ==
    ASSUME NullIsNoNumber, NEW x \in Int \cup {Null}
    PROVE  Worth(Flip(x)) = -Worth(x) /\ Worth(x) \in Int
<1>1. CASE x = Null
  BY <1>1 DEF Worth, Flip
<1>2. CASE x # Null
  <2>1. -x # Null
    BY <1>2 DEF NullIsNoNumber
  <2>2. QED
    BY <1>2, <2>1 DEF Worth, Flip
<1>3. QED
  BY <1>1, <1>2

\* What an outing is worth.
LEMMA WorthOfOuting ==
    ASSUME NullIsNoNumber, NEW q \in Int, q <= 0, NEW price \in Nat \cup {Null}
    PROVE  Worth(CostOf(q, price)) = (-Worth(price)) * q /\ Worth(price) \in Nat
<1>1. Magnitude(q) = -q
  BY DEF Magnitude
<1>2. CASE price = Null
  BY <1>2 DEF Worth, CostOf
<1>3. CASE price # Null
  <2>1. CostOf(q, price) = (-q) * price
    BY <1>1, <1>3 DEF CostOf
  <2>2. (-q) * price = (-price) * q /\ (-q) * price \in Int
    BY <1>3
  <2>3. CostOf(q, price) # Null
    BY <2>1, <2>2 DEF NullIsNoNumber
  <2>4. QED
    BY <1>3, <2>1, <2>2, <2>3 DEF Worth
<1>4. QED
  BY <1>2, <1>3

\* Sums over the rows of a batch are sums over the rows that stand.
LEMMA OnlyStandingCount ==
    ASSUME NullIsNoNumber, JournalInv, NEW b, NEW R, NEW S, S = RowsOf(b, R),
           NEW T, T = S \ (CorrectionsIn(S) \cup CorrectedIn(S))
    PROVE  /\ CostIn(S) = CostIn(T) /\ QuantityIn(S) = QuantityIn(T)
           /\ Summable([id \in T |-> Worth(journal[id].cost)], T)
<1> DEFINE C == CorrectionsIn(S)
           D == CorrectedIn(S)
           h == [c \in C |-> journal[c].corrects]
           F == [id \in S |-> Worth(journal[id].cost)]
           Q == [id \in S |-> journal[id].quantity]
<1>1. h \in Bijection(C, D) /\ C \cap D = {} /\ C \in SUBSET S /\ D \in SUBSET S
  BY CorrectionsComeInPairs
<1>2. S \in SUBSET MovementIds /\ TypeOK
  BY DEF RowsOf, JournalInv
<1>3. \A id \in MovementIds : journal[id] \in Movement
  BY <1>2, LenProperties, ElementOfSeq DEF TypeOK, MovementIds
<1>4. Summable(F, S)
  <2>1. IsFiniteSet(S)
    BY <1>2, RowsAreFinite
  <2>2. ASSUME NEW id \in S PROVE Worth(journal[id].cost) \in Int
    <3>1. journal[id].cost \in Int \cup {Null}
      BY <1>2, <1>3 DEF Movement
    <3>2. QED
      BY <3>1, WorthOfFlip
  <2>3. QED
    BY <2>1, <2>2 DEF Summable
<1>5. Summable(Q, S)
  BY <1>2, QuantitiesAdd
<1>6. ASSUME NEW c \in C PROVE F[c] = -F[h[c]] /\ Q[c] = -Q[h[c]]
  <2>1. c \in S /\ h[c] \in S /\ c \in MovementIds /\ h[c] \in MovementIds
    BY <1>1, <1>2 DEF Bijection, Injection
  <2>2. h[c] = journal[c].corrects /\ journal[c].corrects # Null
    BY DEF CorrectionsIn
  <2>3. /\ journal[c].quantity = -journal[h[c]].quantity
        /\ journal[c].cost = Flip(journal[h[c]].cost)
    BY <2>1, <2>2 DEF JournalInv, CorrectionsMirror
  <2>4. journal[h[c]].cost \in Int \cup {Null}
    BY <1>3, <2>1 DEF Movement
  <2>5. Worth(Flip(journal[h[c]].cost)) = -Worth(journal[h[c]].cost)
    BY <2>4, WorthOfFlip
  <2>6. QED
    BY <2>1, <2>3, <2>5
<1>7. T \in SUBSET S /\ T = S \ (C \cup D)
  OBVIOUS
<1>8. Restrict(F, T) = [id \in T |-> Worth(journal[id].cost)]
      /\ Restrict(Q, T) = [id \in T |-> journal[id].quantity]
  BY <1>7 DEF Restrict
<1>9. /\ CostIn(S) = SumFunction(F) /\ CostIn(T) = SumFunction(Restrict(F, T))
      /\ QuantityIn(S) = SumFunction(Q) /\ QuantityIn(T) = SumFunction(Restrict(Q, T))
  BY <1>8 DEF CostIn, QuantityIn, Sum
<1> HIDE DEF C, D, h, F, Q
<1>10. Mirrored(F, h, C, D) /\ Mirrored(Q, h, C, D)
  BY <1>1, <1>6 DEF Mirrored
<1>11. SumFunction(F) = SumFunction(Restrict(F, T))
  BY <1>1, <1>4, <1>7, <1>10, SumOfMirrors
<1>12. SumFunction(Q) = SumFunction(Restrict(Q, T))
  BY <1>1, <1>5, <1>7, <1>10, SumOfMirrors
<1>13. Summable(Restrict(F, T), T)
  BY <1>4, <1>7, SummablePart
<1>14. QED
  BY <1>8, <1>9, <1>11, <1>12, <1>13

(* What the outings of a batch cost in all, reversals and rewritings included,
   is what went out at the price it has now: however often a wrong price was
   used and corrected, it leaves no trace in the totals. *)
THEOREM OutingsAtCurrentPrice == Spec => []OutingsCostCurrentPrice
<1>1. JournalInv /\ BatchInv /\ BalanceInv => OutingsCostCurrentPrice
  <2> SUFFICES ASSUME JournalInv, BatchInv, BalanceInv, NEW b \in BatchIds,
                      NEW S, S = RowsOf(b, OutingReasons),
                      NEW T, T = S \ (CorrectionsIn(S) \cup CorrectedIn(S))
               PROVE  CostIn(S) = -QuantityIn(S) * Worth(batches[b].price)
    BY DEF OutingsCostCurrentPrice, RowsOf, OutingReasons
  <2> USE NullIsNoNumber
  <2> DEFINE F == [id \in T |-> Worth(journal[id].cost)]
             Q == [id \in T |-> journal[id].quantity]
             w == Worth(batches[b].price)
  <2>1. /\ CostIn(S) = CostIn(T) /\ QuantityIn(S) = QuantityIn(T) /\ Summable(F, T)
    BY OnlyStandingCount
  <2>2. batches[b].price \in Nat \cup {Null} /\ b \in Nat /\ b # Null
    <3>1. TypeOK
      BY DEF BatchInv
    <3>2. batches[b].price \in Nat \cup {Null} /\ b \in Nat
      BY <3>1, BatchIsBatch
    <3>3. QED
      BY <3>2 DEF NullIsNoNumber
  <2>3. ASSUME NEW id \in T
        PROVE  F[id] = (-w) * Q[id] /\ id \in MovementIds
    <3>1. /\ id \in MovementIds /\ journal[id].batch = b /\ journal[id].corrects = Null
          /\ journal[id].reason \in OutingReasons /\ ~Corrected(id)
      BY DEF RowsOf, CorrectionsIn, CorrectedIn
    <3>2. id \in ToReprice(b) /\ journal[id].reason # "transfer"
      BY <3>1, LedgerConstants DEF ToReprice, OutingReasons, LedgerConstants
    <3>3. journal[id].cost = CostOf(journal[id].quantity, batches[b].price)
      BY <3>2 DEF BatchInv, StandingRowsPriced
    <3>4. RowTells(journal[id], batches)
      BY <3>1 DEF BalanceInv, RowsTell
    <3>5. journal[id].quantity <= 0
      BY <3>1, <3>4 DEF RowTells
    <3>6. journal[id].quantity \in Int
      <4>1. journal[id] \in Movement
        BY <3>1, LenProperties, ElementOfSeq DEF BatchInv, TypeOK, MovementIds
      <4>2. QED
        BY <4>1 DEF Movement
    <3>7. Worth(CostOf(journal[id].quantity, batches[b].price)) = (-w) * journal[id].quantity
      BY <2>2, <3>5, <3>6, WorthOfOuting
    <3>8. QED
      BY <3>1, <3>3, <3>7
  <2>4. T \in SUBSET MovementIds /\ TypeOK
    BY <2>3 DEF BatchInv
  <2>5. Summable(Q, T) /\ QuantityIn(T) \in Int
    BY <2>4, QuantitiesAdd
  <2>6. CostIn(T) = SumFunction(F) /\ QuantityIn(T) = SumFunction(Q)
    BY DEF CostIn, QuantityIn, Sum
  <2>7. w \in Nat /\ -w \in Int
    <3>1. 0 \in Int /\ 0 <= 0
      OBVIOUS
    <3>2. w \in Nat
      BY <2>2, <3>1, WorthOfOuting
    <3>3. QED
      BY <3>2
  <2> HIDE DEF F, Q, w
  <2>8. SumFunction(F) = (-w) * SumFunction(Q)
    BY <2>1, <2>3, <2>5, <2>7, SumScaled
  <2>9. (-w) * QuantityIn(T) = -QuantityIn(T) * w
    BY <2>5, <2>7
  <2>10. QED
    BY <2>1, <2>6, <2>8, <2>9 DEF w
<1>2. QED
  BY <1>1, JournalInvariance, BatchInvariance, BalanceInvariance, PTL

(***************************************************************************)
(* What may move a price, and what that moves                              *)
(***************************************************************************)
PricesStay == \A b \in BatchIds : batches'[b].price = batches[b].price

\* set_batch_remaining leaves prices alone.
LEMMA SetKeepsPrice ==
    ASSUME TypeOK, NEW b \in BatchIds, NEW n
    PROVE  SetRemaining(b, n).price = batches[b].price
BY BatchIsBatch DEF SetRemaining, Batch

\* So does what an allocation does.
LEMMA TakenKeepsPrices ==
    ASSUME TypeOK, NEW S \in SUBSET BatchIds, NEW q \in Nat, NEW n \in Nat,
           NEW order \in [1..n -> S], NEW take \in [1..n -> Int],
           Allocates(order, take, S, q), batches' = TakenFrom(order, take)
    PROVE  PricesStay
<1>1. OnlySets(order, n)
  BY TakenSets
<1>2. QED
  BY <1>1, SetKeepsPrice DEF OnlySets, PricesStay

\* Only a price correction moves a price, and of its batch only.
LEMMA OnlyCorrectPriceMoves ==
    ASSUME LedgerConstants, NullIsNoNumber, TypeOK, [Next]_vars
    PROVE  \/ PricesStay
           \/ \E b \in BatchIds, p \in Prices \cup {Null} : CorrectPrice(b, p)
<1>1. CASE UNCHANGED vars
  BY <1>1 DEF vars, PricesStay
<1>2. ASSUME NEW a \in Articles, NEW l \in Locations, NEW q \in 0..MaxQuantity,
             NEW d \in Dates \cup {Null}, NEW p \in Prices \cup {Null},
             NEW m \in Moments, NEW r \in EntryReasons, NEW k \in Keys \cup {Null},
             AddStock(a, l, q, d, p, m, r, k)
      PROVE  PricesStay
  BY <1>2, Inserted DEF AddStock, PricesStay
<1>3. ASSUME NEW p \in Products, NEW q \in 1..MaxStock, NEW r \in OutReasons,
             NEW k \in Keys \cup {Null}, Consume(p, q, r, k)
      PROVE  PricesStay
  <2>1. q \in Nat
    OBVIOUS
  <2>2. PICK n, order, take, rows : ConsumedAs(p, q, r, k, n, order, take, rows)
    BY <1>3, <2>1, ConsumeWrites
  <2> DEFINE S == OpenOf({a \in Articles : ProductOf[a] = p})
  <2>3. /\ n \in Nat /\ order \in [1..n -> S] /\ take \in [1..n -> Int]
        /\ Allocates(order, take, S, q) /\ batches' = TakenFrom(order, take)
    BY <2>2 DEF ConsumedAs
  <2>4. S \in SUBSET BatchIds
    BY CandidatesAreBatches
  <2> HIDE DEF S
  <2>5. QED
    BY <2>1, <2>3, <2>4, TakenKeepsPrices
<1>4. ASSUME NEW b \in BatchIds, NEW r \in OutReasons, NEW k \in Keys \cup {Null},
             NEW q \in 1..batches[b].remaining, ConsumeBatch(b, q, r, k)
      PROVE  PricesStay
  <2>1. batches' = [batches EXCEPT ![b] = SetRemaining(b, batches[b].remaining - q)]
    BY <1>4 DEF ConsumeBatch
  <2>2. QED
    BY <2>1, SetKeepsPrice, OneReplaced DEF PricesStay
<1>5. ASSUME NEW b \in BatchIds, NEW m \in Moments, OpenBatch(b, m)
      PROVE  PricesStay
  <2>1. batches[b] \in Batch
    BY BatchIsBatch
  <2>2. QED
    BY <1>5, <2>1 DEF OpenBatch, PricesStay, BatchIds, Batch
<1>6. ASSUME NEW b \in BatchIds, NEW l \in Locations, TransferBatch(b, l)
      PROVE  PricesStay
  <2>1. batches[b] \in Batch
    BY BatchIsBatch
  <2>2. QED
    BY <1>6, <2>1 DEF TransferBatch, PricesStay, BatchIds, Batch
<1>7. ASSUME NEW a \in Articles, NEW l \in Locations, NEW c \in 0..MaxQuantity,
             AdjustDown(a, l, c)
      PROVE  PricesStay
  <2>1. At(a, l) \in SUBSET BatchIds
    BY CandidatesAreBatches
  <2>2. PICK missing \in 1..MaxStock :
           \E order \in Orders(At(a, l)) : \E take \in [DOMAIN order -> 0..missing] :
               /\ Allocates(order, take, At(a, l), missing)
               /\ batches' = TakenFrom(order, take)
    BY <1>7 DEF AdjustDown
  <2>3. PICK order \in Orders(At(a, l)) : \E take \in [DOMAIN order -> 0..missing] :
           /\ Allocates(order, take, At(a, l), missing)
           /\ batches' = TakenFrom(order, take)
    BY <2>2
  <2>4. PICK take \in [DOMAIN order -> 0..missing] :
           /\ Allocates(order, take, At(a, l), missing)
           /\ batches' = TakenFrom(order, take)
    BY <2>3
  <2>5. PICK n \in 1..Cardinality(At(a, l)) : order \in [1..n -> At(a, l)]
    BY DEF Orders
  <2>6. n \in Nat /\ missing \in Nat /\ take \in [1..n -> Int]
    BY <2>5
  <2>7. QED
    BY <2>1, <2>4, <2>5, <2>6, TakenKeepsPrices
<1>8. ASSUME NEW a \in Articles, NEW l \in Locations, NEW c \in 0..MaxQuantity,
             NEW m \in Moments, AdjustUp(a, l, c, m)
      PROVE  PricesStay
  BY <1>8, Inserted DEF AdjustUp, PricesStay
<1>9. ASSUME NEW id \in MovementIds, CorrectMovement(id)
      PROVE  PricesStay
  <2> DEFINE b == journal[id].batch
  <2>1. CASE b = Null
    BY <1>9, <2>1 DEF CorrectMovement, PricesStay
  <2>2. CASE b # Null
    <3>1. batches' = [batches EXCEPT ![b] = SetRemaining(b, batches[b].remaining
                                                            - journal[id].quantity)]
      BY <1>9, <2>2 DEF CorrectMovement
    <3>2. CASE b \in BatchIds
      BY <3>1, <3>2, SetKeepsPrice, OneReplaced DEF PricesStay
    <3>3. CASE b \notin BatchIds
      BY <3>1, <3>3 DEF PricesStay, BatchIds
    <3>4. QED
      BY <3>2, <3>3
  <2>3. QED
    BY <2>1, <2>2
<1>10. QED
  BY <1>1, <1>2, <1>3, <1>4, <1>5, <1>6, <1>7, <1>8, <1>9 DEF Next

\* Every row has a whole quantity.
LEMMA MovementsCount == Counted(Movement)
BY DEF Counted, Movement

\* The rows of a price correction add up to nothing on its batch.
LEMMA PairsAddNothing ==
    ASSUME NEW n \in Nat, NEW ids, NEW rows, PairedRows(rows, n, ids), NEW b
    PROVE  LotOf(rows, b) = 0
<1> DEFINE f == [k \in DOMAIN rows |-> OnLot(rows[k], b)]
<1>1. rows \in Seq(Movement) /\ DOMAIN rows = 1..(2 * n)
  BY DEF PairedRows
<1>2. Summable(f, 1..(2 * n)) /\ LotOf(rows, b) = SumFunction(f)
  BY <1>1, LotsAdd, MovementsCount DEF LotOf
<1>3. ASSUME NEW i \in 1..n PROVE f[2 * i] = -f[2 * i - 1]
  <2>1. 2 * i - 1 \in DOMAIN rows /\ 2 * i \in DOMAIN rows
    BY <1>1
  <2>2. f[2 * i] = OnLot(rows[2 * i], b) /\ f[2 * i - 1] = OnLot(rows[2 * i - 1], b)
    BY <2>1
  <2>3. /\ rows[2 * i - 1].batch = rows[2 * i].batch
        /\ rows[2 * i - 1].quantity = -rows[2 * i].quantity
        /\ rows[2 * i].quantity \in Int
    BY DEF PairedRows
  <2>4. QED
    BY <2>2, <2>3 DEF OnLot
<1> HIDE DEF f
<1>4. QED
  BY <1>2, <1>3, SumOfPairs

(* A price correction rewrites costs and nothing else: what each batch holds,
   and what its rows say came and went, is what it was before. *)
THEOREM PriceCorrectionsKeepStock == Spec => PriceCorrectionKeepsStock
<1> DEFINE Kept ==
        \A b \in BatchIds : batches'[b].price # batches[b].price =>
            /\ batches'[b].remaining = batches[b].remaining
            /\ QuantityIn({id \in MovementIds : journal[id].batch = b})
                 = Sum([id \in {i \in DOMAIN journal' : journal'[i].batch = b}
                          |-> journal'[id].quantity])
<1>1. TypeOK /\ TypeOK' /\ [Next]_vars => Kept
  <2> SUFFICES ASSUME TypeOK, TypeOK', [Next]_vars,
                      NEW b \in BatchIds, batches'[b].price # batches[b].price
               PROVE  /\ batches'[b].remaining = batches[b].remaining
                      /\ QuantityIn({id \in MovementIds : journal[id].batch = b})
                           = Sum([id \in {i \in DOMAIN journal' : journal'[i].batch = b}
                                    |-> journal'[id].quantity])
    OBVIOUS
  <2> USE LedgerConstants, NullIsNoNumber
  <2>1. PICK c \in BatchIds, p \in Prices \cup {Null} : CorrectPrice(c, p)
    BY OnlyCorrectPriceMoves DEF PricesStay
  <2>2. batches[c] \in Batch /\ p \in Nat \cup {Null}
    BY BatchIsBatch DEF LedgerConstants
  <2>3. batches'[b].remaining = batches[b].remaining
    <3>1. batches' = [batches EXCEPT ![c] = [batches[c] EXCEPT !.price = p]]
      BY <2>1 DEF CorrectPrice
    <3>2. batches'[c].remaining = batches[c].remaining
      BY <2>2, <3>1, OneReplaced DEF Batch
    <3>3. QED
      BY <3>1, <3>2, OneReplaced
  <2>4. PICK ids \in [1..Cardinality(ToReprice(c)) -> ToReprice(c)] : Write(Repriced(ids, p))
    BY <2>1 DEF CorrectPrice
  <2>5. PICK n \in Nat : ids \in [1..n -> MovementIds]
    <3>1. ToReprice(c) \subseteq MovementIds
      BY DEF ToReprice
    <3>2. QED
      BY <3>1, RowsAreFinite
  <2> DEFINE rows == Repriced(ids, p)
  <2>6. PairedRows(rows, n, ids)
    BY <2>2, <2>5, RepricedPairs
  <2>7. rows \in Seq(Movement) /\ journal' = journal \o rows
    BY <2>4, <2>6 DEF PairedRows, Write
  <2> HIDE DEF rows
  <2>8. journal \in Seq(Movement) /\ journal' \in Seq(Movement)
    BY DEF TypeOK
  <2>9. LotOf(journal', b) = LotOf(journal, b) + 0
    BY <2>6, <2>7, <2>8, LotOfMore, MovementsCount, PairsAddNothing
  <2>10. LotOf(journal, b) \in Int
    BY <2>8, LotsAdd, MovementsCount
  <2>11. LotOf(journal, b) = QuantityIn({id \in MovementIds : journal[id].batch = b})
    BY <2>8, LotOverItsRows, MovementsCount DEF QuantityIn, MovementIds, Sum
  <2>12. LotOf(journal', b) = Sum([id \in {i \in DOMAIN journal' : journal'[i].batch = b}
                                    |-> journal'[id].quantity])
    BY <2>8, LotOverItsRows, MovementsCount DEF Sum
  <2>13. QED
    BY <2>3, <2>9, <2>10, <2>11, <2>12
<1>2. QED
  BY <1>1, TypeCorrect, PTL DEF Spec, PriceCorrectionKeepsStock

(***************************************************************************)
(* `allocate`, for every list of candidates.                               *)
(*                                                                         *)
(* The order first: the key of sort_batches orders the candidates, ties    *)
(* broken by their place, so that there is a sorted list: each candidate   *)
(* stands after as many as come before it.                                 *)
(***************************************************************************)

\* What a candidate is looked at for.
LEMMA ViewsSay ==
    ASSUME LoopConstants, NEW u \in Views
    PROVE  /\ u.bestBefore \in Int \cup {Null} /\ u.entered \in Int
           /\ u.opened \in BOOLEAN /\ u.remaining \in 1..MaxAsked
BY DEF LoopConstants, Views

\* The key is a weak order: of two keys one comes first, or they are the same.
LEMMA BeforeIsWeakOrder ==
    ASSUME LoopConstants, NEW u \in Views, NEW v \in Views, NEW w \in Views
    PROVE  /\ ~Before(u, u)
           /\ Before(u, v) => ~Before(v, u)
           /\ Before(u, v) /\ ~Before(w, v) => Before(u, w)
           /\ ~Before(v, u) /\ Before(v, w) => Before(u, w)
           /\ ~Before(v, u) /\ ~Before(w, v) => ~Before(w, u)
<1>1. PICK c \in Int \cup {Null}, i \in Int, o \in BOOLEAN :
         u.opened = o /\ u.bestBefore = c /\ u.entered = i
  BY ViewsSay
<1>2. PICK d \in Int \cup {Null}, j \in Int, p \in BOOLEAN :
         v.opened = p /\ v.bestBefore = d /\ v.entered = j
  BY ViewsSay
<1>3. PICK e \in Int \cup {Null}, k \in Int, q \in BOOLEAN :
         w.opened = q /\ w.bestBefore = e /\ w.entered = k
  BY ViewsSay
<1>4. ~Before(u, u)
  BY <1>1, <1>2, <1>3, NullIsNoNumber DEF Before, DateBefore
<1>5. Before(u, v) => ~Before(v, u)
  BY <1>1, <1>2, <1>3, NullIsNoNumber DEF Before, DateBefore
<1>6. Before(u, v) /\ ~Before(w, v) => Before(u, w)
  BY <1>1, <1>2, <1>3, NullIsNoNumber DEF Before, DateBefore
<1>7. ~Before(v, u) /\ Before(v, w) => Before(u, w)
  BY <1>1, <1>2, <1>3, NullIsNoNumber DEF Before, DateBefore
<1>8. ~Before(v, u) /\ ~Before(w, v) => ~Before(w, u)
  BY <1>1, <1>2, <1>3, NullIsNoNumber DEF Before, DateBefore
<1>. QED
  BY <1>4, <1>5, <1>6, <1>7, <1>8

\* Ties broken by their place, two different candidates always come in order.
LEMMA ComesIsAnOrder ==
    ASSUME LoopConstants, NEW n \in Nat, NEW v \in [1..n -> Views],
           NEW b \in 1..n, NEW c \in 1..n, NEW d \in 1..n
    PROVE  /\ ~Comes(v, b, b)
           /\ Comes(v, b, c) => ~Comes(v, c, b)
           /\ b # c => Comes(v, b, c) \/ Comes(v, c, b)
           /\ Comes(v, b, c) /\ Comes(v, c, d) => Comes(v, b, d)
<1>1. v[b] \in Views /\ v[c] \in Views /\ v[d] \in Views
  OBVIOUS
<1>2. /\ ~Before(v[b], v[b])
      /\ Before(v[b], v[c]) => ~Before(v[c], v[b])
      /\ Before(v[b], v[c]) /\ ~Before(v[d], v[c]) => Before(v[b], v[d])
      /\ ~Before(v[c], v[b]) /\ Before(v[c], v[d]) => Before(v[b], v[d])
      /\ ~Before(v[c], v[b]) /\ ~Before(v[d], v[c]) => ~Before(v[d], v[b])
  BY <1>1, BeforeIsWeakOrder, Zenon
<1>3. Before(v[c], v[d]) => ~Before(v[d], v[c])
  BY <1>1, BeforeIsWeakOrder, Zenon
<1>. QED
  BY <1>2, <1>3 DEF Comes

\* There is a sorted list of the candidates.
LEMMA SortedListExists ==
    ASSUME LoopConstants, NEW n \in Nat, NEW v \in [1..n -> Views]
    PROVE  \E s \in [1..n -> 1..n] : Sorts(s, v)
<1> DEFINE D == 1..n
           earlier(b) == {c \in D : Comes(v, c, b)}
           rank == [b \in D |-> Cardinality(earlier(b)) + 1]
           place == [i \in D |-> CHOOSE b \in D : rank[b] = i]
<1>1. IsFiniteSet(D) /\ Cardinality(D) = n
  BY FS_Interval
<1>2. \A b \in D : earlier(b) \subseteq D /\ b \notin earlier(b)
  BY ComesIsAnOrder
<1>3. \A b \in D : IsFiniteSet(earlier(b)) /\ Cardinality(earlier(b)) \in Nat
  BY <1>1, <1>2, FS_Subset, FS_CardinalityType
<1>4. ASSUME NEW b \in D
      PROVE  Cardinality(earlier(b)) < n
  <2>1. /\ Cardinality(earlier(b)) <= Cardinality(D)
        /\ Cardinality(D) = Cardinality(earlier(b)) => D = earlier(b)
    BY <1>1, <1>2, FS_Subset
  <2>2. Cardinality(earlier(b)) # n
    BY <1>1, <1>2, <2>1
  <2>. QED
    BY <1>1, <1>3, <2>1, <2>2
<1>5. rank \in [D -> D]
  <2>1. ASSUME NEW b \in D
        PROVE  Cardinality(earlier(b)) + 1 \in D
    <3>1. PICK k : k = Cardinality(earlier(b))
      OBVIOUS
    <3>2. k \in Nat /\ k < n
      BY <1>3, <1>4, <3>1
    <3>3. k + 1 \in 1..n
      BY <3>2
    <3>. QED
      BY <3>1, <3>3
  <2>. HIDE DEF earlier, D
  <2>. QED
    BY <2>1
<1>6. ASSUME NEW b \in D, NEW c \in D, Comes(v, b, c)
      PROVE  rank[b] < rank[c]
  <2>1. earlier(b) \subseteq earlier(c) \ {b}
    BY <1>2, <1>6, ComesIsAnOrder
  <2>2. b \in earlier(c)
    BY <1>6
  <2>3. /\ IsFiniteSet(earlier(c) \ {b})
        /\ Cardinality(earlier(c) \ {b}) = Cardinality(earlier(c)) - 1
    BY <1>3, <2>2, FS_RemoveElement
  <2>4. Cardinality(earlier(b)) <= Cardinality(earlier(c)) - 1
    BY <2>1, <2>3, FS_Subset
  <2>. HIDE DEF earlier
  <2>. QED
    BY <1>3, <2>4
<1>. HIDE DEF rank, earlier
<1>7. ASSUME NEW b \in D, NEW c \in D, b # c
      PROVE  rank[b] # rank[c]
  <2>1. rank[b] < rank[c] \/ rank[c] < rank[b]
    BY <1>6, <1>7, ComesIsAnOrder
  <2>2. rank[b] \in D /\ rank[c] \in D
    BY <1>5
  <2>. QED
    BY <2>1, <2>2
<1>8. rank \in Injection(D, D)
  BY <1>5, <1>7 DEF Injection, IsInjective
<1>9. rank \in Surjection(D, D)
  BY <1>1, <1>8, FS_Injection
<1>10. ASSUME NEW i \in D
       PROVE  place[i] \in D /\ rank[place[i]] = i
  <2>1. \E b \in D : rank[b] = i
    BY <1>9 DEF Surjection
  <2>. QED
    BY <2>1
<1>11. place \in [D -> D]
  BY <1>10
<1>. HIDE DEF place
<1>12. IsInjective(place)
  BY <1>10, <1>11 DEF IsInjective
<1>13. ASSUME NEW i \in D, NEW j \in D, i < j
       PROVE  Comes(v, place[i], place[j])
  <2>1. /\ place[i] \in D /\ rank[place[i]] = i
        /\ place[j] \in D /\ rank[place[j]] = j
    BY <1>10
  <2>2. place[i] # place[j]
    BY <1>13, <2>1
  <2>3. ~Comes(v, place[j], place[i])
    BY <1>6, <1>13, <2>1
  <2>. QED
    BY <2>1, <2>2, <2>3, ComesIsAnOrder
<1>14. Sorts(place, v)
  BY <1>12, <1>13 DEF Sorts
<1>. QED
  BY <1>11, <1>14

\* sort_batches: every candidate once, in order.
LEMMA SortIsSorted ==
    ASSUME LoopConstants, NEW n \in Nat, NEW v \in [1..n -> Views]
    PROVE  /\ SortedCandidates(v) \in [1..n -> 1..n]
           /\ \A i, j \in 1..n : SortedCandidates(v)[i] = SortedCandidates(v)[j] => i = j
           /\ \A i, j \in 1..n : i < j => Comes(v, SortedCandidates(v)[i], SortedCandidates(v)[j])
           /\ \A b \in 1..n : \E i \in 1..n : SortedCandidates(v)[i] = b
<1>1. DOMAIN v = 1..n
  OBVIOUS
<1>2. SortedCandidates(v) \in [1..n -> 1..n] /\ Sorts(SortedCandidates(v), v)
  BY <1>1, SortedListExists DEF SortedCandidates
<1>3. PICK s : s = SortedCandidates(v)
  OBVIOUS
<1>4. s \in [1..n -> 1..n] /\ IsInjective(s)
  BY <1>2, <1>3 DEF Sorts
<1>5. \A i, j \in 1..n : i < j => Comes(v, s[i], s[j])
  BY <1>1, <1>2, <1>3 DEF Sorts
<1>6. s \in Injection(1..n, 1..n)
  BY <1>4 DEF Injection
<1>7. s \in Surjection(1..n, 1..n)
  BY <1>6, FS_Injection, FS_Interval
<1>. QED
  BY <1>3, <1>4, <1>5, <1>7 DEF Surjection, IsInjective

(***************************************************************************)
(* The loop.  What it gave is a prefix of the sorted list, all of each     *)
(* candidate but perhaps of the last, and makes with what is left what was *)
(* asked; so it can not come to the end of the list with something left.   *)
(***************************************************************************)
Positions == DOMAIN view

\* Nothing is computed before the candidates are sorted.
NotSorted == sorted = <<>> => turn = 1 /\ left = 0 /\ allocations = <<>> /\ outcome # "done"

\* What was asked is sensible and is there.
AskedIsThere == quantity > 0 /\ quantity <= Available(view)

\* The list is sorted and the loop has gone through the first of it.
SortedOnce ==
    /\ sorted \in [Positions -> Positions]
    /\ \A i, j \in Positions : sorted[i] = sorted[j] => i = j
    /\ \A i, j \in Positions : i < j => Comes(view, sorted[i], sorted[j])
    /\ \A b \in Positions : \E i \in Positions : sorted[i] = b
    /\ turn = Len(allocations) + 1 /\ Len(allocations) <= Len(sorted)

GivenInOrder ==
    \A i \in DOMAIN allocations :
        LET a == allocations[i]
            held == view[sorted[i]].remaining
        IN  /\ a.batch = sorted[i]
            /\ a.quantity \in 1..held
            /\ i < Len(allocations) \/ left > 0 => a.quantity = held
            /\ a.remainingAfter = held - a.quantity
            /\ a.closes <=> a.remainingAfter = 0

Running ==
    sorted # <<>> =>
        /\ AskedIsThere /\ SortedOnce /\ GivenInOrder
        /\ SumFunction(Taken) + left = quantity

AllocateInv ==
    /\ AllocateTypeOK
    /\ NotSorted /\ Running
    /\ outcome = Refused => ~AskedIsThere
    /\ outcome = "done" => left = 0

\* The candidates are a list of views, and what they hold can be summed.
LEMMA CandidatesAreViews ==
    ASSUME LoopConstants, AllocateTypeOK
    PROVE  \E n \in 0..MaxCandidates :
              /\ view \in [1..n -> Views] /\ Positions = 1..n
              /\ \A b \in 1..n : view[b] \in Views /\ view[b].remaining \in 1..MaxAsked
              /\ Summable([b \in 1..n |-> view[b].remaining], 1..n)
              /\ Available(view) = SumFunction([b \in 1..n |-> view[b].remaining])
              /\ Available(view) \in Int
<1>1. PICK n \in 0..MaxCandidates : view \in [1..n -> Views]
  BY DEF AllocateTypeOK, CandidateLists
<1>2. n \in Nat /\ IsFiniteSet(1..n) /\ MaxAsked \in Nat
  BY FS_Interval DEF LoopConstants
<1>3. \A b \in 1..n : view[b] \in Views /\ view[b].remaining \in 1..MaxAsked
  BY <1>1, ViewsSay
<1>4. Summable([b \in 1..n |-> view[b].remaining], 1..n)
  BY <1>2, <1>3 DEF Summable
<1>5. DOMAIN view = 1..n
  BY <1>1
<1>6. Available(view) = SumFunction([b \in 1..n |-> view[b].remaining])
  BY <1>5 DEF Available
<1>7. Available(view) \in Int
  BY <1>4, <1>6, SummableSays
<1>. QED
  BY <1>1, <1>3, <1>4, <1>5, <1>6, <1>7 DEF Positions

\* The quantities given are there to be summed.
LEMMA GivenIsSummable ==
    ASSUME LoopConstants, AllocateTypeOK
    PROVE  /\ Len(allocations) \in Nat /\ DOMAIN allocations = 1..Len(allocations)
           /\ \A i \in 1..Len(allocations) : Taken[i] = allocations[i].quantity
           /\ Taken = [i \in 1..Len(allocations) |-> allocations[i].quantity]
           /\ Summable(Taken, 1..Len(allocations)) /\ SumFunction(Taken) \in Int
<1>1. Len(allocations) \in Nat /\ DOMAIN allocations = 1..Len(allocations)
  BY LenProperties DEF AllocateTypeOK, CandidateLists
<1>2. \A i \in 1..Len(allocations) : allocations[i].quantity \in Int
  <2> DEFINE Given == [batch : 1..MaxCandidates, quantity : 0..MaxAsked,
                       remainingAfter : 0..MaxAsked, closes : BOOLEAN]
  <2>1. allocations \in Seq(Given)
    BY DEF AllocateTypeOK, CandidateLists
  <2>2. \A i \in 1..Len(allocations) : allocations[i] \in Given
    BY <2>1, ElementOfSeq
  <2>3. \A a \in Given : a.quantity \in Int
    BY DEF LoopConstants
  <2>. QED
    BY <2>2, <2>3
<1>3. Taken = [i \in 1..Len(allocations) |-> allocations[i].quantity]
  BY <1>1 DEF Taken
<1>4. Summable(Taken, 1..Len(allocations))
  <2>1. IsFiniteSet(1..Len(allocations))
    BY <1>1, FS_Interval
  <2>. QED
    BY <1>2, <1>3, <2>1 DEF Summable
<1>. QED
  BY <1>1, <1>3, <1>4, SummableSays

\* The first state: nothing is computed.
LEMMA AllocateStarts ==
    ASSUME LoopConstants, AllocateInit
    PROVE  AllocateInv
BY DEF LoopConstants, AllocateInit, AllocateInv, AllocateTypeOK, NotSorted, Running

\* A call is refused, or its candidates sorted, before anything is given.
LEMMA OnlyAtTheTop ==
    ASSUME LoopConstants, AllocateInv, turn = 1, left = 0, outcome = "running"
    PROVE  sorted = <<>> /\ allocations = <<>>
<1>1. SUFFICES ASSUME sorted # <<>> PROVE FALSE
  BY DEF AllocateInv, NotSorted
<1>2. AskedIsThere /\ turn = Len(allocations) + 1 /\ SumFunction(Taken) + left = quantity
  BY <1>1 DEF AllocateInv, Running, SortedOnce
<1>3. /\ Len(allocations) \in Nat
      /\ Taken = [i \in 1..Len(allocations) |-> allocations[i].quantity]
  BY GivenIsSummable DEF AllocateInv
<1>4. Len(allocations) = 0
  BY <1>2, <1>3
<1>5. DOMAIN Taken = {}
  BY <1>3, <1>4
<1>6. SumFunction(Taken) = 0
  BY <1>5, SumEmpty
<1>. QED
  BY <1>2, <1>6 DEF AskedIsThere, AllocateInv, AllocateTypeOK

LEMMA RefuseKeeps ==
    ASSUME LoopConstants, AllocateInv, Refuse
    PROVE  AllocateInv'
<1>1. sorted = <<>> /\ allocations = <<>>
  BY OnlyAtTheTop DEF Refuse
<1>2. sorted' = <<>> /\ allocations' = <<>> /\ turn' = 1 /\ left' = 0 /\ outcome' = Refused
  BY <1>1 DEF Refuse
<1>3. /\ view' = view /\ quantity' = quantity /\ sorted' = sorted
      /\ turn' = turn /\ left' = left /\ allocations' = allocations
  BY DEF Refuse
<1>4. AllocateTypeOK'
  BY <1>2, <1>3 DEF AllocateInv, AllocateTypeOK
<1>5. NotSorted' /\ Running'
  BY <1>2 DEF NotSorted, Running, LoopConstants
<1>6. quantity \in Int
  BY DEF LoopConstants, AllocateInv, AllocateTypeOK
<1>7. Available(view) \in Int
  BY CandidatesAreViews DEF AllocateInv
<1>8. PICK h : h = Available(view)
  OBVIOUS
<1>9. quantity <= 0 \/ quantity > h
  BY <1>8 DEF Refuse
<1>10. ~(quantity > 0 /\ quantity <= h)
  BY <1>6, <1>7, <1>8, <1>9
<1>11. ~AskedIsThere'
  BY <1>3, <1>8, <1>10 DEF AskedIsThere
<1>12. outcome' # "done"
  BY <1>2 DEF LoopConstants
<1>. QED
  BY <1>4, <1>5, <1>11, <1>12 DEF AllocateInv

LEMMA SortBatchesKeeps ==
    ASSUME LoopConstants, AllocateInv, SortBatches
    PROVE  AllocateInv'
<1>1. sorted = <<>> /\ allocations = <<>> /\ turn = 1
  BY OnlyAtTheTop DEF SortBatches
<1>2. PICK n \in 0..MaxCandidates :
         /\ view \in [1..n -> Views] /\ Positions = 1..n
         /\ Available(view) = SumFunction([b \in 1..n |-> view[b].remaining])
         /\ Available(view) \in Int
  BY CandidatesAreViews DEF AllocateInv
<1>3. /\ left' = quantity /\ sorted' = SortedCandidates(view) /\ view' = view /\ quantity' = quantity
      /\ turn' = 1 /\ allocations' = <<>> /\ outcome' = "running"
      /\ quantity > 0 /\ quantity <= Available(view)
  BY <1>1 DEF SortBatches
<1>4. n \in Nat /\ MaxCandidates \in Nat /\ quantity \in Int /\ quantity <= MaxAsked
  BY DEF LoopConstants, AllocateInv, AllocateTypeOK
<1>5. n # 0
  <2>1. SUFFICES ASSUME n = 0 PROVE FALSE
    OBVIOUS
  <2>2. DOMAIN [b \in 1..n |-> view[b].remaining] = {}
    BY <2>1
  <2>3. Available(view) = 0
    BY <1>2, <2>2, SumEmpty
  <2>. QED
    BY <1>3, <1>4, <2>3
<1>6. /\ sorted' \in [1..n -> 1..n]
      /\ \A i, j \in 1..n : sorted'[i] = sorted'[j] => i = j
      /\ \A i, j \in 1..n : i < j => Comes(view, sorted'[i], sorted'[j])
      /\ \A b \in 1..n : \E i \in 1..n : sorted'[i] = b
  <2>1. PICK v \in [1..n -> Views] : v = view
    BY <1>2
  <2>2. PICK s : s = SortedCandidates(v)
    OBVIOUS
  <2>3. /\ s \in [1..n -> 1..n]
        /\ \A i, j \in 1..n : s[i] = s[j] => i = j
        /\ \A i, j \in 1..n : i < j => Comes(v, s[i], s[j])
        /\ \A b \in 1..n : \E i \in 1..n : s[i] = b
    <3>1. /\ SortedCandidates(v) \in [1..n -> 1..n]
          /\ \A i, j \in 1..n : SortedCandidates(v)[i] = SortedCandidates(v)[j] => i = j
          /\ \A i, j \in 1..n : i < j => Comes(v, SortedCandidates(v)[i], SortedCandidates(v)[j])
          /\ \A b \in 1..n : \E i \in 1..n : SortedCandidates(v)[i] = b
      BY <1>4, SortIsSorted
    <3>. QED
      BY <2>2, <3>1
  <2>. QED
    BY <1>3, <2>1, <2>2, <2>3
<1>7. sorted' \in Seq(1..MaxCandidates) /\ Len(sorted') = n
  <2>1. sorted' \in Seq(1..n) /\ Len(sorted') = n
    BY <1>4, <1>6, SeqDef, LenProperties
  <2>. QED
    BY <1>2, <1>4, <1>6, <2>1, SeqDef
<1>8. AllocateTypeOK'
  <2>1. left' \in 0..MaxAsked /\ turn' \in 1..(MaxCandidates + 1)
    BY <1>3, <1>4
  <2>. QED
    BY <1>1, <1>3, <1>7, <2>1 DEF AllocateInv, AllocateTypeOK
<1>9. sorted' # <<>>
  BY <1>4, <1>5, <1>7
<1>10. AskedIsThere'
  BY <1>3 DEF AskedIsThere
<1>11. SortedOnce'
  <2>1. Positions' = 1..n
    BY <1>2, <1>3 DEF Positions
  <2>2. turn' = Len(allocations') + 1 /\ Len(allocations') <= Len(sorted')
    BY <1>3, <1>4, <1>7
  <2>3. \A i, j \in 1..n : i < j => Comes(view', sorted'[i], sorted'[j])
    BY <1>3, <1>6
  <2>. QED
    BY <1>6, <2>1, <2>2, <2>3 DEF SortedOnce
<1>12. GivenInOrder'
  BY <1>3 DEF GivenInOrder
<1>13. SumFunction(Taken') = 0
  <2>1. DOMAIN Taken' = {}
    BY <1>3 DEF Taken
  <2>. QED
    BY <2>1, SumEmpty
<1>14. Running'
  BY <1>3, <1>4, <1>10, <1>11, <1>12, <1>13 DEF Running
<1>. QED
  BY <1>3, <1>8, <1>9, <1>14 DEF AllocateInv, NotSorted, LoopConstants

LEMMA TakeFromCandidateKeeps ==
    ASSUME LoopConstants, AllocateInv, TakeFromCandidate
    PROVE  AllocateInv'
<1> DEFINE m == Len(allocations)
           Record == [batch : 1..MaxCandidates, quantity : 0..MaxAsked,
                      remainingAfter : 0..MaxAsked, closes : BOOLEAN]
<1>1. PICK n \in 0..MaxCandidates :
         /\ view \in [1..n -> Views] /\ Positions = 1..n
         /\ \A b \in 1..n : view[b] \in Views /\ view[b].remaining \in 1..MaxAsked
  BY CandidatesAreViews DEF AllocateInv
<1>2. n \in Nat /\ MaxAsked \in Nat /\ MaxCandidates \in Nat
  BY DEF LoopConstants
<1>3. /\ sorted \in Seq(1..MaxCandidates) /\ turn \in Nat /\ turn >= 1 /\ left \in Nat
      /\ allocations \in Seq(Record) /\ quantity \in Int
  BY <1>2 DEF AllocateInv, AllocateTypeOK
<1>4. turn <= Len(sorted) /\ left > 0 /\ outcome = "running"
  BY DEF TakeFromCandidate
<1>5. sorted # <<>>
  BY <1>3, <1>4
<1>6. /\ AskedIsThere /\ SortedOnce /\ GivenInOrder
      /\ SumFunction(Taken) + left = quantity
  BY <1>5 DEF AllocateInv, Running
<1>7. /\ sorted \in [1..n -> 1..n] /\ turn = m + 1
      /\ m \in Nat /\ DOMAIN allocations = 1..m
  BY <1>1, <1>3, <1>6, LenProperties DEF SortedOnce
<1>8. Len(sorted) = n
  BY <1>2, <1>3, <1>7, LenProperties
<1>9. turn \in 1..n /\ m + 1 \in 1..n
  BY <1>3, <1>4, <1>7, <1>8
<1>10. PICK b : b = sorted[turn]
  OBVIOUS
<1>11. b \in 1..n
  BY <1>7, <1>9, <1>10
<1>12. PICK held : held = view[b].remaining
  OBVIOUS
<1>13. held \in 1..MaxAsked
  BY <1>1, <1>11, <1>12
<1>14. PICK taken : taken = IF held < left THEN held ELSE left
  OBVIOUS
<1>15. /\ taken \in 1..held /\ taken <= left
       /\ left - taken > 0 => taken = held
       /\ held - taken \in 0..MaxAsked /\ left - taken \in 0..left
       /\ taken \in 0..MaxAsked
  BY <1>2, <1>3, <1>4, <1>13, <1>14
<1>16. PICK a : a = [batch |-> b, quantity |-> taken,
                     remainingAfter |-> held - taken, closes |-> held - taken = 0]
  OBVIOUS
<1>17. /\ allocations' = Append(allocations, a)
       /\ left' = left - taken /\ turn' = turn + 1
       /\ view' = view /\ quantity' = quantity /\ sorted' = sorted /\ outcome' = outcome
  BY <1>10, <1>12, <1>14, <1>16 DEF TakeFromCandidate, Give
<1>18. a \in Record
  BY <1>1, <1>2, <1>11, <1>15, <1>16
<1>19. /\ allocations' \in Seq(Record) /\ Len(allocations') = m + 1
       /\ DOMAIN allocations' = 1..(m + 1)
       /\ \A i \in 1..m : allocations'[i] = allocations[i]
       /\ allocations'[m + 1] = a
  BY <1>3, <1>7, <1>17, <1>18, AppendProperties, LenProperties
<1>20. AllocateTypeOK'
  <2>1. left' \in 0..MaxAsked
    BY <1>2, <1>3, <1>15, <1>17 DEF AllocateInv, AllocateTypeOK
  <2>2. turn' \in 1..(MaxCandidates + 1)
    BY <1>1, <1>2, <1>9, <1>17
  <2>. QED
    BY <1>17, <1>19, <2>1, <2>2 DEF AllocateInv, AllocateTypeOK
<1>21. NotSorted' /\ outcome' # "done"
  BY <1>4, <1>5, <1>17 DEF NotSorted
<1>22. outcome' # Refused
  BY <1>4, <1>17 DEF LoopConstants
<1>23. AskedIsThere'
  BY <1>6, <1>17 DEF AskedIsThere
<1>24. SortedOnce'
  <2>1. Positions' = Positions
    BY <1>17 DEF Positions
  <2>2. turn' = Len(allocations') + 1 /\ Len(allocations') <= Len(sorted')
    BY <1>7, <1>8, <1>9, <1>17, <1>19
  <2>. QED
    BY <1>6, <1>17, <2>1, <2>2 DEF SortedOnce
<1>25. GivenInOrder'
  <2>1. SUFFICES ASSUME NEW i \in 1..(m + 1)
                 PROVE  LET e == allocations'[i]
                            h == view[sorted[i]].remaining
                        IN  /\ e.batch = sorted[i]
                            /\ e.quantity \in 1..h
                            /\ i < m + 1 \/ left - taken > 0 => e.quantity = h
                            /\ e.remainingAfter = h - e.quantity
                            /\ e.closes <=> e.remainingAfter = 0
    BY <1>17, <1>19 DEF GivenInOrder
  <2>2. CASE i = m + 1
    <3>1. allocations'[i] = a /\ sorted[i] = b /\ ~(i < m + 1)
      BY <1>7, <1>10, <1>19, <2>2
    <3>2. /\ a.batch = b /\ a.quantity = taken /\ a.remainingAfter = held - taken
          /\ a.closes = (held - taken = 0)
      BY <1>16
    <3>3. a.closes <=> a.remainingAfter = 0
      BY <3>2
    <3>4. a.quantity \in 1..held /\ (left - taken > 0 => a.quantity = held)
      BY <1>15, <3>2
    <3>. QED
      BY <1>12, <3>1, <3>2, <3>3, <3>4
  <2>3. CASE i # m + 1
    <3>1. i \in 1..m
      BY <1>7, <2>3
    <3>2. allocations'[i] = allocations[i]
      BY <1>19, <3>1
    <3>. QED
      BY <1>4, <1>6, <1>7, <3>1, <3>2 DEF GivenInOrder
  <2>. QED
    BY <2>2, <2>3
<1>26. SumFunction(Taken') = SumFunction(Taken) + taken
  <2>1. Taken' = [i \in 1..(m + 1) |-> allocations'[i].quantity]
    BY <1>19 DEF Taken
  <2>2. Taken = [i \in 1..m |-> allocations[i].quantity]
    BY <1>7 DEF Taken
  <2>3. Summable(Taken', 1..(m + 1))
    <3>1. \A i \in 1..(m + 1) : allocations'[i] \in Record
      BY <1>19, ElementOfSeq
    <3>2. \A e \in Record : e.quantity \in Int
      BY <1>2
    <3>3. IsFiniteSet(1..(m + 1))
      BY <1>7, FS_Interval
    <3>. QED
      BY <2>1, <3>1, <3>2, <3>3 DEF Summable
  <2>4. SumFunction(Taken') = SumFunction([i \in 1..m |-> Taken'[i]]) + Taken'[m + 1]
    BY <1>7, <2>3, SumOfOneMore
  <2>5. [i \in 1..m |-> Taken'[i]] = Taken
    BY <1>7, <1>19, <2>1, <2>2
  <2>6. Taken'[m + 1] = taken
    BY <1>7, <1>16, <1>19, <2>1
  <2>. QED
    BY <2>4, <2>5, <2>6
<1>27. SumFunction(Taken') + left' = quantity'
  <2>1. SumFunction(Taken) \in Int
    BY GivenIsSummable DEF AllocateInv
  <2>. QED
    BY <1>3, <1>6, <1>15, <1>17, <1>26, <2>1
<1>28. Running'
  BY <1>23, <1>24, <1>25, <1>27 DEF Running
<1>. QED
  BY <1>20, <1>21, <1>22, <1>28 DEF AllocateInv

\* A sum in another order.
LEMMA SumReordered ==
    ASSUME NEW S, NEW d, Summable(d, S), NEW order \in [S -> S],
           \A i, j \in S : order[i] = order[j] => i = j,
           \A x \in S : \E i \in S : order[i] = x,
           NEW g, g = [i \in S |-> d[order[i]]]
    PROVE  SumFunction(g) = SumFunction(d)
<1>1. order \in Bijection(S, S)
  BY DEF Bijection, Injection, Surjection, IsInjective
<1>2. Summable(g, S) /\ \A i \in S : g[i] = d[order[i]]
  BY DEF Summable
<1>. QED
  BY <1>1, <1>2, SumRenamed

\* What is given when everything is given is all there is.
LEMMA AllGivenIsAll ==
    ASSUME LoopConstants, AllocateInv, sorted # <<>>, left > 0,
           turn > Len(sorted)
    PROVE  FALSE
<1> DEFINE m == Len(allocations)
           held == [b \in 1..m |-> view[b].remaining]
<1>1. PICK n \in 0..MaxCandidates :
         /\ view \in [1..n -> Views] /\ Positions = 1..n
         /\ Summable([b \in 1..n |-> view[b].remaining], 1..n)
         /\ Available(view) = SumFunction([b \in 1..n |-> view[b].remaining])
         /\ Available(view) \in Int
  BY CandidatesAreViews DEF AllocateInv
<1>2. n \in Nat /\ left \in Nat /\ quantity \in Int /\ sorted \in Seq(1..MaxCandidates)
  BY DEF LoopConstants, AllocateInv, AllocateTypeOK
<1>3. /\ AskedIsThere /\ SortedOnce /\ GivenInOrder
      /\ SumFunction(Taken) + left = quantity
  BY DEF AllocateInv, Running
<1>4. /\ sorted \in [1..n -> 1..n] /\ turn = m + 1 /\ m <= Len(sorted)
      /\ \A i, j \in 1..n : sorted[i] = sorted[j] => i = j
      /\ \A b \in 1..n : \E i \in 1..n : sorted[i] = b
  BY <1>1, <1>3 DEF SortedOnce
<1>5. /\ m \in Nat /\ DOMAIN allocations = 1..m
      /\ Taken = [i \in 1..m |-> allocations[i].quantity] /\ SumFunction(Taken) \in Int
  BY GivenIsSummable DEF AllocateInv
<1>6. Len(sorted) = n
  BY <1>2, <1>4, LenProperties
<1>7. m = n
  <2>1. PICK k : k = m
    OBVIOUS
  <2>2. k + 1 > n /\ k <= n /\ k \in Nat
    BY <1>4, <1>5, <1>6, <2>1
  <2>. QED
    BY <1>2, <2>1, <2>2
<1>8. Summable(held, 1..n) /\ Available(view) = SumFunction(held)
  BY <1>1, <1>7
<1>9. Taken = [i \in 1..n |-> held[sorted[i]]]
  <2>1. \A i \in 1..n : allocations[i].quantity = view[sorted[i]].remaining
    BY <1>3, <1>5, <1>7 DEF GivenInOrder
  <2>2. \A i \in 1..n : held[sorted[i]] = view[sorted[i]].remaining
    BY <1>4, <1>7
  <2>. QED
    BY <1>5, <1>7, <2>1, <2>2
<1>. HIDE DEF held
<1>10. SumFunction(Taken) = SumFunction(held)
  <2>1. PICK S : S = 1..n
    OBVIOUS
  <2>2. PICK g : g = Taken
    OBVIOUS
  <2>3. PICK d : d = held
    OBVIOUS
  <2>4. PICK order : order = sorted
    OBVIOUS
  <2>5. g = [i \in S |-> d[order[i]]]
    BY <1>9, <2>1, <2>2, <2>3, <2>4
  <2>6. /\ Summable(d, S) /\ order \in [S -> S]
        /\ \A i, j \in S : order[i] = order[j] => i = j
        /\ \A x \in S : \E i \in S : order[i] = x
    BY <1>4, <1>8, <2>1, <2>3, <2>4
  <2>7. SumFunction(g) = SumFunction(d)
    BY <2>5, <2>6, SumReordered
  <2>. QED
    BY <2>2, <2>3, <2>7
<1>11. SumFunction(Taken) = Available(view)
  BY <1>8, <1>10
<1>. QED
  BY <1>1, <1>2, <1>3, <1>5, <1>11 DEF AskedIsThere

LEMMA ReturnKeeps ==
    ASSUME LoopConstants, AllocateInv, Return
    PROVE  AllocateInv'
<1>1. /\ outcome' = "done" /\ view' = view /\ quantity' = quantity /\ sorted' = sorted
      /\ turn' = turn /\ left' = left /\ allocations' = allocations
      /\ sorted # <<>> /\ (left = 0 \/ turn > Len(sorted))
  BY DEF Return
<1>2. AllocateTypeOK'
  BY <1>1 DEF AllocateInv, AllocateTypeOK
<1>3. NotSorted'
  BY <1>1 DEF NotSorted
<1>4. Running'
  BY <1>1 DEF AllocateInv, Running, AskedIsThere, SortedOnce, GivenInOrder, Taken,
        Positions
<1>5. left = 0
  <2>1. left \in Nat
    BY DEF LoopConstants, AllocateInv, AllocateTypeOK
  <2>. QED
    BY <1>1, <2>1, AllGivenIsAll
<1>6. outcome' # Refused
  BY <1>1 DEF LoopConstants
<1>. QED
  BY <1>1, <1>2, <1>3, <1>4, <1>5, <1>6 DEF AllocateInv

LEMMA AllocateInvariant ==
    ASSUME LoopConstants
    PROVE  AllocateSpec => []AllocateInv
<1>1. AllocateInit => AllocateInv
  BY AllocateStarts
<1>2. AllocateInv /\ [AllocateNext]_allocateVars => AllocateInv'
  <2>1. SUFFICES ASSUME AllocateInv, [AllocateNext]_allocateVars
                 PROVE  AllocateInv'
    OBVIOUS
  <2>2. CASE UNCHANGED allocateVars
    BY <2>1, <2>2 DEF allocateVars, AllocateInv, AllocateTypeOK, NotSorted, Running,
          AskedIsThere, SortedOnce, GivenInOrder, Taken, Positions
  <2>. QED
    BY <2>1, <2>2, RefuseKeeps, SortBatchesKeeps, TakeFromCandidateKeeps, ReturnKeeps
       DEF AllocateNext
<1>. QED
  BY <1>1, <1>2, PTL DEF AllocateSpec

\* What a call that returns has given is an allocation of what was asked.
LEMMA WhatIsReturned ==
    ASSUME LoopConstants, AllocateInv, outcome = "done"
    PROVE  left = 0 /\ IsAllocation(OrderTaken, Taken, view, quantity)
<1> DEFINE m == Len(allocations)
<1>1. PICK n \in 0..MaxCandidates :
         /\ view \in [1..n -> Views] /\ Positions = 1..n
         /\ \A b \in 1..n : view[b] \in Views /\ view[b].remaining \in 1..MaxAsked
  BY CandidatesAreViews DEF AllocateInv
<1>2. n \in Nat /\ sorted \in Seq(1..MaxCandidates) /\ quantity \in Int
  BY DEF LoopConstants, AllocateInv, AllocateTypeOK
<1>3. left = 0 /\ sorted # <<>>
  BY DEF AllocateInv, NotSorted
<1>4. /\ AskedIsThere /\ SortedOnce /\ GivenInOrder
      /\ SumFunction(Taken) + left = quantity
  BY <1>3 DEF AllocateInv, Running
<1>5. /\ m \in Nat /\ DOMAIN allocations = 1..m
      /\ \A i \in 1..m : Taken[i] = allocations[i].quantity
      /\ Taken = [i \in 1..m |-> allocations[i].quantity] /\ SumFunction(Taken) \in Int
  BY GivenIsSummable DEF AllocateInv
<1>6. /\ sorted \in [1..n -> 1..n] /\ m <= Len(sorted)
      /\ \A i, j \in 1..n : sorted[i] = sorted[j] => i = j
      /\ \A i, j \in 1..n : i < j => Comes(view, sorted[i], sorted[j])
      /\ \A b \in 1..n : \E i \in 1..n : sorted[i] = b
  BY <1>1, <1>4 DEF SortedOnce
<1>7. m <= n
  BY <1>2, <1>6, LenProperties
<1>8. /\ DOMAIN OrderTaken = 1..m /\ Len(OrderTaken) = m
      /\ \A i \in 1..m : OrderTaken[i] = sorted[i]
  <2>1. OrderTaken = [i \in 1..m |-> allocations[i].batch]
    BY <1>5 DEF OrderTaken
  <2>2. \A i \in 1..m : allocations[i].batch = sorted[i]
    BY <1>4, <1>5 DEF GivenInOrder
  <2>3. OrderTaken \in Seq(1..n)
    <3>1. \A i \in 1..m : OrderTaken[i] \in 1..n
      <4>1. \A i \in 1..m : i \in 1..n
        BY <1>2, <1>5, <1>7
      <4>. QED
        BY <1>6, <2>1, <2>2, <4>1
    <3>2. OrderTaken \in [1..m -> 1..n]
      BY <2>1, <3>1
    <3>. QED
      BY <1>5, <3>2, SeqDef
  <2>4. DOMAIN OrderTaken = 1..m
    BY <2>1
  <2>. QED
    BY <1>5, <2>1, <2>2, <2>3, <2>4, LenProperties
<1>9. \A i \in 1..m : i \in 1..n
  BY <1>2, <1>5, <1>7
<1>10. IsInjective(OrderTaken)
  BY <1>6, <1>8, <1>9 DEF IsInjective
<1>11. ASSUME NEW i \in 1..n, NEW j \in 1..n, i < j
       PROVE  ~Before(view[sorted[j]], view[sorted[i]])
  <2>1. Comes(view, sorted[i], sorted[j])
    BY <1>6, <1>11
  <2>2. view[sorted[i]] \in Views /\ view[sorted[j]] \in Views
    BY <1>1, <1>6
  <2>3. Before(view[sorted[i]], view[sorted[j]]) => ~Before(view[sorted[j]], view[sorted[i]])
    BY <2>2, BeforeIsWeakOrder, Zenon
  <2>. QED
    BY <2>1, <2>3 DEF Comes
<1>12. \A i, j \in 1..m : i < j => ~Before(view[OrderTaken[j]], view[OrderTaken[i]])
  BY <1>8, <1>9, <1>11
<1>13. ASSUME NEW b \in 1..n, b \notin Range(OrderTaken), NEW i \in 1..m
       PROVE  ~Before(view[b], view[OrderTaken[i]])
  <2>1. PICK k \in 1..n : sorted[k] = b
    BY <1>6
  <2>2. k \notin 1..m
    BY <1>8, <1>13, <2>1 DEF Range
  <2>3. i < k
    BY <1>2, <1>5, <2>2
  <2>. QED
    BY <1>8, <1>9, <1>11, <2>1, <2>3
<1>14. ASSUME NEW i \in 1..m
       PROVE  /\ Taken[i] \in 1..view[OrderTaken[i]].remaining
              /\ i < m => Taken[i] = view[OrderTaken[i]].remaining
  BY <1>4, <1>5, <1>8 DEF GivenInOrder
<1>15. m # 0
  <2>1. SUFFICES ASSUME m = 0 PROVE FALSE
    OBVIOUS
  <2>2. DOMAIN Taken = {}
    BY <1>5, <2>1
  <2>3. SumFunction(Taken) = 0
    BY <2>2, SumEmpty
  <2>. QED
    BY <1>2, <1>3, <1>4, <2>3 DEF AskedIsThere
<1>16. ASSUME NEW i \in 1..m
       PROVE  view[OrderTaken[i]].remaining \in Int
  <2>1. OrderTaken[i] \in 1..n
    BY <1>6, <1>8, <1>9
  <2>. QED
    BY <1>1, <2>1
<1>17. /\ \A i \in 1..m : /\ Taken[i] \in 0..view[OrderTaken[i]].remaining
                          /\ i # m => Taken[i] = view[OrderTaken[i]].remaining
       /\ Taken[m] > 0
  <2>1. ASSUME NEW i \in 1..m
        PROVE  Taken[i] \in 0..view[OrderTaken[i]].remaining /\ Taken[i] > 0
    BY <1>14, <1>16
  <2>2. ASSUME NEW i \in 1..m, i # m
        PROVE  Taken[i] = view[OrderTaken[i]].remaining
    <3>1. i < m
      <4>1. PICK k \in Nat : k = m
        BY <1>5
      <4>2. i \in 1..k /\ i # k
        BY <2>2, <4>1
      <4>3. i < k
        BY <4>2
      <4>. QED
        BY <4>1, <4>3
    <3>. QED
      BY <1>14, <3>1
  <2>3. m \in 1..m
    BY <1>5, <1>15
  <2>. QED
    BY <2>1, <2>2, <2>3
<1>18. SumFunction(Taken) = quantity
  BY <1>2, <1>3, <1>4, <1>5
<1>. QED
  BY <1>1, <1>3, <1>8, <1>10, <1>12, <1>13, <1>17, <1>18 DEF IsAllocation, Positions

(* Whatever was asked of whatever candidates: a call that returns has taken  *)
(* what was asked, in the order of sort_batches, from what each candidate    *)
(* held, announces for each what will be left, and it refuses exactly what   *)
(* makes no sense or is not there (allocate).  What Consume of StockLedger   *)
(* takes in one step is what this loop returns.                              *)
THEOREM AllocationIsSound ==
    ASSUME LoopConstants
    PROVE  AllocateSpec => []AllocateSound
<1>1. ASSUME AllocateInv PROVE AllocateSound
  <2>1. ReturnsTheAllocation
    BY <1>1, WhatIsReturned DEF ReturnsTheAllocation
  <2>2. AnnouncesWhatIsLeft
    <3>1. CASE sorted = <<>>
      BY <1>1, <3>1 DEF AllocateInv, NotSorted, AnnouncesWhatIsLeft
    <3>2. CASE sorted # <<>>
      BY <1>1, <3>2 DEF AllocateInv, Running, GivenInOrder, AnnouncesWhatIsLeft
    <3>. QED
      BY <3>1, <3>2
  <2>3. RefusesWhatIsShort
    <3>1. outcome = Refused => quantity <= 0 \/ quantity > Available(view)
      <4>1. quantity \in Int
        BY <1>1 DEF LoopConstants, AllocateInv, AllocateTypeOK
      <4>2. Available(view) \in Int
        BY <1>1, CandidatesAreViews DEF AllocateInv
      <4>. QED
        BY <1>1, <4>1, <4>2 DEF AllocateInv, AskedIsThere
    <3>2. outcome = "done" => quantity > 0 /\ quantity <= Available(view)
      BY <1>1 DEF AllocateInv, NotSorted, Running, AskedIsThere
    <3>. QED
      BY <3>1, <3>2 DEF RefusesWhatIsShort
  <2>. QED
    BY <1>1, <2>1, <2>2, <2>3 DEF AllocateSound, AllocateInv
<1>. QED
  BY <1>1, AllocateInvariant, PTL
==============================================================================

------------------------------ MODULE Receipts ------------------------------
(***************************************************************************)
(* The photographed receipt of a shopping trip: recorded, read by a model  *)
(* that may take minutes, matched with the lines of the cart, and applied  *)
(* to prices the house already paid with.                                  *)
(*                                                                         *)
(* A reading is three pieces: the cart is read, the model works outside    *)
(* any transaction, the result is written in one.  Several may be under    *)
(* way for one receipt.  Which candidate the matching of labels prefers is *)
(* left open; a price stands for the price of a base unit, and the rows of *)
(* the journal follow the price of their batch (module StockLedger).       *)
(***************************************************************************)
EXTENDS House

CONSTANTS
    Readers,        \* readings that may be under way at once
    Photos,
    PaidPrices,     \* prices a hand types, a model reads
    MaxCart,        \* bound: cart lines at once
    MaxReceipts,    \* bound: rows of table receipt
    MaxReadings,    \* bound: readings ever written
    MaxSeen,        \* bound: price observations
    MaxUnit,        \* MAX_RECEIPT_LINE_PRICE
    MaxQuantity     \* MAX_RECEIPT_LINE_QUANTITY

ReceiptConstants ==
    /\ PaidPrices \subseteq Nat \ {0}
    /\ {MaxCart, MaxReceipts, MaxReadings, MaxSeen, MaxUnit, MaxQuantity} \subseteq Nat

VARIABLES
    cart,       \* table shopping_line: id -> row, or Null
    receipt,    \* table receipt, with the line read on it; never deleted
    seen,       \* price observations written by receipts
    reading,    \* reader -> the receipt it reads and the cart it has read
    readings    \* how many readings were ever written

receiptVars == <<cart, receipt, seen, reading, readings>>

CartIds  == 1..MaxCart
Prices   == PaidPrices \cup {Null}
NoBatch  == [price |-> Null, moved |-> FALSE]

\* moved: the batch has a row that refuses a correction, a transfer or a
\* cooking.
CartLine == [price : Prices, stored : BOOLEAN, batch : [price : Prices, moved : BOOLEAN]]
\* nth: the reading that brought the line.
ReadLine == [nth : Nat, line : CartIds \cup {Null}, price : Prices, applied : BOOLEAN,
             match : {"unmatched", "auto", "confirmed", "ignored"}]
Receipt  == [photo : Photos, state : {"pending", "read", "failed", "applied", "discarded"},
             read : ReadLine \cup {Null}]

ReceiptTypeOK ==
    /\ cart \in [CartIds -> CartLine \cup {Null}]
    /\ receipt \in Seq(Receipt)
    /\ seen \in Seq([nth : Nat, price : PaidPrices])
    /\ reading \in [Readers -> [receipt : 1..MaxReceipts, cart : SUBSET CartIds] \cup {Null}]
    /\ readings \in Nat

ReceiptInit ==
    /\ cart = [l \in CartIds |-> Null]
    /\ receipt = <<>> /\ seen = <<>>
    /\ reading = [t \in Readers |-> Null]
    /\ readings = 0

(***************************************************************************)
(* The cart, as module ShoppingSession has it                              *)
(***************************************************************************)
NamedByAReceipt(l) ==
    \E r \in DOMAIN receipt : receipt[r].read # Null /\ receipt[r].read.line = l

AddLine(price) ==
    /\ NextId(cart) \in CartIds
    /\ cart' = [cart EXCEPT ![NextId(cart)] = [price |-> price, stored |-> FALSE, batch |-> NoBatch]]
    /\ UNCHANGED <<receipt, seen, reading, readings>>

StoreLine(l) ==
    /\ l \in Rows(cart) /\ ~cart[l].stored
    /\ cart' = [cart EXCEPT ![l].stored = TRUE, ![l].batch.price = cart[l].price]
    /\ UNCHANGED <<receipt, seen, reading, readings>>

\* The foreign key of receipt_line refuses the removal of a matched line.
RemoveLine(l) ==
    /\ l \in Rows(cart) /\ ~cart[l].stored /\ ~NamedByAReceipt(l)
    /\ cart' = [cart EXCEPT ![l] = Null]
    /\ UNCHANGED <<receipt, seen, reading, readings>>

TransferBatch(l) ==
    /\ l \in Rows(cart) /\ cart[l].stored /\ ~cart[l].batch.moved
    /\ cart' = [cart EXCEPT ![l].batch.moved = TRUE]
    /\ UNCHANGED <<receipt, seen, reading, readings>>

(***************************************************************************)
(* Recording and reading                                                   *)
(***************************************************************************)
ReceiptsOf(photo) == {r \in DOMAIN receipt : receipt[r].photo = photo}

FailedIsForgotten(photo) ==   \* mutant: a photo whose reading failed is recorded again
    {r \in DOMAIN receipt : receipt[r].photo = photo /\ receipt[r].state # "failed"}

\* With a key, the photo is looked for, whatever became of its receipt.
RecordedAs(photo) == ReceiptsOf(photo)

StartReading(t, r) ==
    /\ reading[t] = Null
    /\ reading' = [reading EXCEPT ![t] = [receipt |-> r, cart |-> Rows(cart)]]

\* receipt/submit records first; a replay finds its receipt, and reads it again
\* when nothing came back yet.
Submit(t, photo) ==
    IF RecordedAs(photo) = {}
    THEN /\ Len(receipt) < MaxReceipts
         /\ receipt' = Append(receipt, [photo |-> photo, state |-> "pending", read |-> Null])
         /\ StartReading(t, Len(receipt) + 1)
         /\ UNCHANGED <<cart, seen, readings>>
    ELSE \E r \in RecordedAs(photo) :
         /\ receipt[r].state = "pending"
         /\ StartReading(t, r)
         /\ UNCHANGED <<cart, receipt, seen, readings>>

\* receipt/retry and the service ask nothing of the state.
Retry(t, r) ==
    /\ r \in DOMAIN receipt /\ StartReading(t, r)
    /\ UNCHANGED <<cart, receipt, seen, readings>>

\* What a model answers for one line, and the line parse keeps of it: a label,
\* a plausible quantity, plausible prices, and at least one of the two.
RawLine == [label : BOOLEAN, quantity : {Null, 0, 1, MaxQuantity + 1},
            unit : Prices \cup {MaxUnit + 1}, total : {Null, 1, MaxUnit + 1}]

Plausible(x, most) == x \in {Null} \cup (0..most)

ParseLine(raw) ==
    /\ raw.label
    /\ raw.quantity # 0 /\ Plausible(raw.quantity, MaxQuantity)
    /\ Plausible(raw.unit, MaxUnit) /\ Plausible(raw.total, MaxUnit)
    /\ raw.unit # Null \/ raw.total # Null

\* One line of a photo is followed: matched with a line of the cart that was
\* read, or with none.
ReadAs(raw, l) ==
    [nth |-> readings + 1, line |-> l, price |-> raw.unit, applied |-> FALSE,
     match |-> IF l = Null THEN "unmatched" ELSE "auto"]

\* The line replaces what was read before, whatever happened meanwhile; a line
\* that left the cart makes the whole write fail.
EndReading(t, raw, l) ==
    LET r == reading[t].receipt
    IN  /\ reading[t] # Null /\ reading' = [reading EXCEPT ![t] = Null]
        /\ ParseLine(raw) /\ (l \in reading[t].cart \/ l = Null)
        /\ IF l = Null \/ l \in Rows(cart)
           THEN /\ readings < MaxReadings /\ readings' = readings + 1
                /\ receipt' = [receipt EXCEPT ![r].read = ReadAs(raw, l), ![r].state = "read"]
           ELSE UNCHANGED <<receipt, readings>>
        /\ UNCHANGED <<cart, seen>>

\* No agent, a timeout, no readable line: the photo and the old line stay.
FailReading(t) ==
    /\ reading[t] # Null /\ reading' = [reading EXCEPT ![t] = Null]
    /\ receipt' = [receipt EXCEPT ![reading[t].receipt].state = "failed"]
    /\ UNCHANGED <<cart, seen, readings>>

\* Home Assistant stops: no reading survives, and none starts by itself.
StopReading ==
    /\ \E t \in Readers : reading[t] # Null
    /\ reading' = [t \in Readers |-> Null]
    /\ UNCHANGED <<cart, receipt, seen, readings>>

(***************************************************************************)
(* Matching and applying by hand                                           *)
(***************************************************************************)
Discard(r) ==
    /\ r \in DOMAIN receipt
    /\ receipt' = [receipt EXCEPT ![r].state = "discarded"]
    /\ UNCHANGED <<cart, seen, reading, readings>>

\* An applied line too may be given another cart line.
MatchLine(r, l, match) ==
    /\ r \in DOMAIN receipt /\ receipt[r].read # Null
    /\ l = Null \/ l \in Rows(cart)
    /\ receipt' = [receipt EXCEPT ![r].read.line = l, ![r].read.match = match]
    /\ UNCHANGED <<cart, seen, reading, readings>>

TargetsAgain(r) ==   \* mutant: what was applied is applied again
    /\ receipt[r].read.match # "ignored" /\ receipt[r].read.line # Null

\* The line an application corrects.
Targets(r) ==
    /\ ~receipt[r].read.applied
    /\ receipt[r].read.match # "ignored" /\ receipt[r].read.line # Null

LineOnly(row, price) ==   \* mutant: the batch keeps the price of the label
    [row EXCEPT !.price = IF price = Null THEN @ ELSE price]

\* The line keeps its price when none was read; the batch of a stored line
\* takes what was read.
PricedFromReceipt(row, price) ==
    [row EXCEPT !.price = IF price = Null THEN @ ELSE price,
                !.batch.price = IF row.stored THEN price ELSE @]

\* One transaction; a batch that refuses the correction refuses it all.
ApplyReceipt(r) ==
    LET read == receipt[r].read
    IN  /\ r \in DOMAIN receipt /\ receipt[r].state \in {"read", "applied"}
        /\ IF ~Targets(r)
           THEN /\ receipt' = [receipt EXCEPT ![r].state = "applied"]
                /\ UNCHANGED <<cart, seen>>
           ELSE /\ ~cart[read.line].batch.moved
                /\ cart' = [cart EXCEPT ![read.line] = PricedFromReceipt(@, read.price)]
                /\ IF read.price = Null THEN UNCHANGED seen
                   ELSE /\ Len(seen) < MaxSeen
                        /\ seen' = Append(seen, [nth |-> read.nth, price |-> read.price])
                /\ receipt' = [receipt EXCEPT ![r].state = "applied", ![r].read.applied = TRUE]
        /\ UNCHANGED <<reading, readings>>

ReceiptNext ==
    \/ \E p \in Prices : AddLine(p)
    \/ \E l \in CartIds : StoreLine(l)
    \/ \E l \in CartIds : RemoveLine(l)
    \/ \E l \in CartIds : TransferBatch(l)
    \/ \E t \in Readers, photo \in Photos : Submit(t, photo)
    \/ \E t \in Readers, r \in 1..MaxReceipts : Retry(t, r)
    \/ \E t \in Readers, raw \in RawLine, l \in CartIds \cup {Null} : EndReading(t, raw, l)
    \/ \E t \in Readers : FailReading(t)
    \/ StopReading
    \/ \E r \in 1..MaxReceipts : Discard(r)
    \/ \E r \in 1..MaxReceipts, l \in CartIds \cup {Null}, m \in {"confirmed", "ignored"} :
          MatchLine(r, l, m)
    \/ \E r \in 1..MaxReceipts : ApplyReceipt(r)

ReceiptSpec == ReceiptInit /\ [][ReceiptNext]_receiptVars

(***************************************************************************)
(* Properties                                                              *)
(***************************************************************************)
\* A photo taken once is one receipt, whatever becomes of its reading and
\* however often the phone submits it.
PhotoRecordedOnce ==
    \A r, s \in DOMAIN receipt : receipt[r].photo = receipt[s].photo => r = s

\* A reading is one observation of a price at most, however often its receipt
\* is applied, discarded or matched again.
AppliedOnce ==
    \A i, j \in DOMAIN seen : seen[i].nth = seen[j].nth => i = j

\* Once put away, a cart line and its batch say the same price, unless a
\* receipt has taken the price of the batch away.
LineAndBatchAgree ==
    \A l \in Rows(cart) :
        cart[l].stored => cart[l].batch.price \in {cart[l].price, Null}

\* What nobody may find wrong in the receipts and what they corrected.
ReceiptsSound ==
    ReceiptTypeOK /\ PhotoRecordedOnce /\ AppliedOnce /\ LineAndBatchAgree

\* A priced batch never loses its price to a receipt; of a line without any
\* price, receipt/parse.py:122 says it "ne peut rien corriger".
ForgetsNoPrice ==
    [][\A l \in Rows(cart) : cart[l].batch.price # Null =>
          cart'[l].batch.price # Null]_receiptVars
=============================================================================

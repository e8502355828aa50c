--------------------------- MODULE ShoppingSession ---------------------------
(***************************************************************************)
(* The shopping session: shopping.py, with the rows it writes through      *)
(* repositories.py.  Lines are scanned in the aisle, then each is put away *)
(* and becomes a batch.                                                    *)
(*                                                                         *)
(* Every write is one transaction under one lock, so it is one step.       *)
(* store_line is three: it reads the line on a connection no lock          *)
(* protects, lets add_stock run a transaction of its own, and marks the    *)
(* line in a third.  `calls` holds what such a call knows in between.      *)
(*                                                                         *)
(* Table shopping_line has no AUTOINCREMENT: the id of a removed line can  *)
(* come back, and the key of a put-away is made of that id.  `uid` names a *)
(* line for good.                                                          *)
(*                                                                         *)
(* One product, one article: lines of several products meet only in the    *)
(* count of pending lines, where the product plays no part.  A scan sent   *)
(* again with the key of a line that exists writes nothing; with the key   *)
(* of a line that was removed it is a new scan.                            *)
(***************************************************************************)
EXTENDS Integers, Sequences, FiniteSets

CONSTANTS
    Null,
    Threads,        \* executor threads that may be inside store_line
    Quantities,     \* what a scan or a correction may say
    MaxSessions,    \* bound: sessions ever opened
    MaxLines,       \* bound: rows of shopping_line at once
    MaxUids,        \* bound: lines ever scanned
    MaxItems        \* bound: lines ever put on the shopping list

ASSUME ShoppingConstants ==
    /\ Quantities \subseteq Nat
    /\ {MaxSessions, MaxLines, MaxUids, MaxItems} \subseteq Nat

ASSUME NullIsNoNumber == Null \notin Nat

VARIABLES
    sessions,       \* shopping_session, in order of id
    lines,          \* shopping_line: id -> row, or Null
    scanned,        \* how many lines were ever scanned: the last uid
    batches,        \* the batches put-aways have made
    items,          \* shopping_list_item, for this product
    calls           \* store_line calls in flight, one per thread

vars == <<sessions, lines, scanned, batches, items, calls>>

LineIds == 1..MaxLines
Line    == [uid : Nat, session : Nat, quantity : Quantities, batch : Nat \cup {Null}]

ASSUME NullIsNoLine == Null \notin Line

\* `closings` is no column: how many times closed_at was written, up to 2.
Session == [state : {"shopping", "to_store", "done"}, closings : 0..2]

\* `line` is the id in the key of the purchase, `of` the line that was read.
Batch == [line : LineIds, of : Nat, quantity : Quantities]

\* An item is open while neither checked nor removed; `line` checked it, and
\* `by` remembers which line had that id then.
Item == [open : BOOLEAN, line : LineIds \cup {Null}, by : Nat \cup {Null}]

Idle == [pc |-> "idle", line |-> Null, copy |-> Null, batch |-> Null]
Call == [pc : {"idle", "read", "added"}, line : LineIds \cup {Null},
         copy : Line \cup {Null}, batch : Nat \cup {Null}]

TypeOK ==
    /\ sessions \in Seq(Session)
    /\ lines \in [LineIds -> Line \cup {Null}]
    /\ scanned \in Nat
    /\ batches \in Seq(Batch)
    /\ items \in Seq(Item)
    /\ calls \in [Threads -> Call]

Live         == {id \in LineIds : lines[id] # Null}
LinesOf(s)   == {id \in Live : lines[id].session = s}
Stored(id)   == lines[id].batch # Null
Pending(s)   == {id \in LinesOf(s) : ~Stored(id)}
InProgress   == {s \in DOMAIN sessions : sessions[s].state # "done"}
OpenItems    == {i \in DOMAIN items : items[i].open}

Lowest(S) == CHOOSE n \in S : \A m \in S : n <= m

ShownOpenOnly ==   \* mutant: a trip to put away is no current session
    IF \E s \in InProgress : sessions[s].state = "shopping"
    THEN CHOOSE s \in InProgress : sessions[s].state = "shopping" ELSE Null

\* current_session: the open one, else the oldest still to put away.
Shown ==
    LET open == {s \in InProgress : sessions[s].state = "shopping"}
    IN  IF open # {} THEN CHOOSE s \in open : TRUE
        ELSE IF InProgress # {} THEN Lowest(InProgress)
        ELSE Null

CanScan == Shown # Null /\ sessions[Shown].state = "shopping"

Closing(s) == [sessions EXCEPT ![s] =
                  [state |-> "done", closings |-> IF @.closings = 2 THEN 2 ELSE @.closings + 1]]

(***************************************************************************)
(* The trip                                                                *)
(***************************************************************************)
Start ==
    /\ Shown = Null /\ Len(sessions) < MaxSessions
    /\ sessions' = Append(sessions, [state |-> "shopping", closings |-> 0])
    /\ UNCHANGED <<lines, scanned, batches, items, calls>>

Checkout ==
    /\ CanScan
    /\ sessions' = [sessions EXCEPT ![Shown].state = "to_store"]
    /\ UNCHANGED <<lines, scanned, batches, items, calls>>

\* Whatever is not put away is given up.
Close ==
    /\ Shown # Null
    /\ sessions' = Closing(Shown)
    /\ UNCHANGED <<lines, scanned, batches, items, calls>>

(***************************************************************************)
(* The lines                                                               *)
(***************************************************************************)
\* INTEGER PRIMARY KEY without AUTOINCREMENT.
NextId == 1 + CHOOSE m \in Live \cup {0} : \A id \in Live : id <= m

\* The scan checks the open item of the product, if there is one, in the same
\* transaction (_check_list_line).
AddLine(q) ==
    /\ CanScan /\ NextId \in LineIds /\ scanned < MaxUids
    /\ scanned' = scanned + 1
    /\ lines' = [lines EXCEPT ![NextId] =
                    [uid |-> scanned + 1, session |-> Shown, quantity |-> q, batch |-> Null]]
    /\ items' = [i \in DOMAIN items |->
                    IF items[i].open
                    THEN [open |-> FALSE, line |-> NextId, by |-> scanned + 1]
                    ELSE items[i]]
    /\ UNCHANGED <<sessions, batches, calls>>

CorrectedByAdding(id, q) == [lines[id] EXCEPT !.quantity = @ + q]   \* mutant
CorrectedLine(id, q) == [lines[id] EXCEPT !.quantity = q]

\* The field says what the line should be, not what to add: sent twice, it
\* writes the same.
UpdateLine(id, q) ==
    /\ id \in Live /\ ~Stored(id)
    /\ lines' = [lines EXCEPT ![id] = CorrectedLine(id, q)]
    /\ UNCHANGED <<sessions, scanned, batches, items, calls>>

\* The partial UNIQUE index allows one open item: unchecking is refused while
\* there is another, and _uncheck_list_line swallows the refusal.
CanUncheck(i) == OpenItems \subseteq {i}
CheckedBy(id) == {i \in DOMAIN items : items[i].line = id}

UncheckedKeepingLine(i) == [items[i] EXCEPT !.open = TRUE]   \* mutant
Unchecked(i) == [open |-> TRUE, line |-> Null, by |-> Null]

\* What the items become when the line is put back on the shelf.
ItemsWithout(id) ==
    [i \in DOMAIN items |->
        IF i \in CheckedBy(id) /\ CanUncheck(i) THEN Unchecked(i) ELSE items[i]]

\* shopping_list_item.line_id REFERENCES shopping_line(id): an item that still
\* names the line makes the DELETE fail, and the transaction with it.
NothingNames(id) == \A i \in CheckedBy(id) : CanUncheck(i)

CanRemoveStored(id) == NothingNames(id)   \* mutant
CanRemove(id) == ~Stored(id) /\ NothingNames(id)

RemoveLine(id) ==
    /\ id \in Live /\ CanRemove(id)
    /\ items' = ItemsWithout(id)
    /\ lines' = [lines EXCEPT ![id] = Null]
    /\ UNCHANGED <<sessions, scanned, batches, calls>>

(***************************************************************************)
(* store_line                                                              *)
(***************************************************************************)
StoreRead(t, id) ==
    /\ calls[t] = Idle /\ id \in Live /\ ~Stored(id)
    /\ calls' = [calls EXCEPT ![t] =
                    [pc |-> "read", line |-> id, copy |-> lines[id], batch |-> Null]]
    /\ UNCHANGED <<sessions, lines, scanned, batches, items>>

WithKeyOfThisCall(t) == {}   \* mutant: each call makes up a key of its own
WithKey(t) == {b \in DOMAIN batches : batches[b].line = calls[t].line}

\* add_stock, keyed `shopping_line:<id>`: a key the journal knows answers the
\* batch it made.
StoreAddStock(t) ==
    /\ calls[t].pc = "read"
    /\ IF WithKey(t) = {}
       THEN /\ batches' = Append(batches, [line |-> calls[t].line,
                                           of |-> calls[t].copy.uid,
                                           quantity |-> calls[t].copy.quantity])
            /\ calls' = [calls EXCEPT ![t].pc = "added", ![t].batch = Len(batches) + 1]
       ELSE /\ calls' = [calls EXCEPT ![t].pc = "added", ![t].batch = Lowest(WithKey(t))]
            /\ UNCHANGED batches
    /\ UNCHANGED <<sessions, lines, scanned, items>>

\* The UPDATE finds the row that has the id by now, or none.  The session the
\* line was read in closes itself when nothing of it is pending any more.
StoreMark(t) ==
    LET id == calls[t].line
        s  == calls[t].copy.session
    IN  /\ calls[t].pc = "added"
        /\ lines' = IF id \in Live THEN [lines EXCEPT ![id].batch = calls[t].batch]
                    ELSE lines
        /\ sessions' = IF Pending(s) \ {id} = {} /\ sessions[s].state # "shopping"
                       THEN Closing(s) ELSE sessions
        /\ calls' = [calls EXCEPT ![t] = Idle]
        /\ UNCHANGED <<scanned, batches, items>>

\* Home Assistant stops, or a transaction of the call fails.
StoreStops(t) ==
    /\ calls[t] # Idle
    /\ calls' = [calls EXCEPT ![t] = Idle]
    /\ UNCHANGED <<sessions, lines, scanned, batches, items>>

(***************************************************************************)
(* The shopping list, as far as lines see it: an item is added, checked by *)
(* hand, unchecked by hand.  Module ShoppingList says why.                 *)
(***************************************************************************)
ListItem ==
    /\ OpenItems = {} /\ Len(items) < MaxItems
    /\ items' = Append(items, [open |-> TRUE, line |-> Null, by |-> Null])
    /\ UNCHANGED <<sessions, lines, scanned, batches, calls>>

CheckItem(i) ==
    /\ items' = [items EXCEPT ![i] = [open |-> FALSE, line |-> Null, by |-> Null]]
    /\ UNCHANGED <<sessions, lines, scanned, batches, calls>>

UncheckItem(i) ==
    /\ CanUncheck(i)
    /\ items' = [items EXCEPT ![i] = Unchecked(i)]
    /\ UNCHANGED <<sessions, lines, scanned, batches, calls>>

Init ==
    /\ sessions = <<>> /\ scanned = 0 /\ batches = <<>> /\ items = <<>>
    /\ lines = [id \in LineIds |-> Null]
    /\ calls = [t \in Threads |-> Idle]

Next ==
    \/ Start \/ Checkout \/ Close
    \/ \E q \in Quantities : AddLine(q)
    \/ \E id \in LineIds, q \in Quantities : UpdateLine(id, q)
    \/ \E id \in LineIds : RemoveLine(id)
    \/ \E t \in Threads, id \in LineIds : StoreRead(t, id)
    \/ \E t \in Threads : StoreAddStock(t) \/ StoreMark(t) \/ StoreStops(t)
    \/ ListItem
    \/ \E i \in DOMAIN items : CheckItem(i) \/ UncheckItem(i)

Spec == Init /\ [][Next]_vars

(***************************************************************************)
(* What must hold                                                          *)
(***************************************************************************)
(* start refuses any trip that is not done: otherwise the pending lines of
   the older one are on no screen.  At most one trip is in progress. *)
OneTripAtATime == Cardinality(InProgress) <= 1

(* However many phones put one line away, and whatever stops in between, a
   line that was scanned once enters the stock at most once. *)
BatchedOnce ==
    \A b, c \in DOMAIN batches : batches[b].of = batches[c].of => b = c

(* Once a line is put away it stays what it is: neither a late put-away nor a
   correction nor a removal touches it. *)
StoredForGood ==
    [][\A id \in Live : Stored(id) => lines'[id] = lines[id]]_vars

(* An item checked by a scan names a line that exists and is the one that
   checked it: never another line that took over the id. *)
CheckedByItsLine ==
    \A i \in DOMAIN items : items[i].line # Null =>
        /\ ~items[i].open
        /\ items[i].line \in Live /\ lines[items[i].line].uid = items[i].by

(* store_line: "Known, harmless race".  A line that is put away says what
   entered the stock. *)
StoredAsBought ==
    \A id \in Live : Stored(id) => batches[lines[id].batch].quantity = lines[id].quantity

(* "Chaque ligne se range": the batch of a line was made for that line. *)
EachLineItsOwnBatch ==
    \A id \in Live : Stored(id) => batches[lines[id].batch].of = lines[id].uid

(* remove_line: "Safe because nothing entered the stock yet".  What entered
   the stock has its line. *)
RemovedLineLeftNoStock ==
    \A b \in DOMAIN batches : \E id \in Live : lines[id].uid = batches[b].of

(* "`done` quand toutes les lignes sont rangées": a trip at home whose lines
   are all put away is over once nobody is putting anything away. *)
AllStoredMeansDone ==
    (\A t \in Threads : calls[t] = Idle) =>
        \A s \in DOMAIN sessions :
            sessions[s].state = "to_store" /\ LinesOf(s) # {} => Pending(s) # {}

(* The lines of a trip that was given up "ne pourront jamais être ni rangées
   ni supprimées": conversions of units no longer count them. *)
AbandonedStaysOut ==
    [][\A id \in Live :
          sessions[lines[id].session].state = "done" /\ ~Stored(id) =>
              lines'[id] # Null /\ lines'[id].batch = Null]_vars

(* What is accessory never blocks what is essential: a line that is not put
   away can be removed, whatever the shopping list holds. *)
UnstoredCanBeRemoved == \A id \in Live : ~Stored(id) => CanRemove(id)

(* store_line: "the session-close check runs twice -- all idempotent in
   effect".  The time a trip closed is written once. *)
ClosedAtWrittenOnce == \A s \in DOMAIN sessions : sessions[s].closings <= 1
=============================================================================

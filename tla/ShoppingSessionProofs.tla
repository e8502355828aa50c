------------------------ MODULE ShoppingSessionProofs ------------------------
(***************************************************************************)
(* Theorems about ShoppingSession, for every number of threads, trips,     *)
(* lines and items: one trip at a time, a line enters the stock once and   *)
(* stays what it was, a checked item names the line that checked it.       *)
(*                                                                         *)
(* None of the four is inductive alone.  What carries them is that a line, *)
(* a call in flight and a batch never disagree on the id a scan was given, *)
(* and that the journal knows one batch per id, whoever has it by now.     *)
(***************************************************************************)
EXTENDS ShoppingSession, SequenceTheorems, FiniteSetTheorems,
        WellFoundedInduction, TLAPS

(***************************************************************************)
(* The inductive invariant                                                 *)
(***************************************************************************)
Busy == {t \in Threads : calls[t] # Idle}

\* Every pair of an id and the scan it was given to that something still knows.
Naming ==
    {<<id, lines[id].uid>> : id \in Live}
        \cup {<<calls[t].line, calls[t].copy.uid>> : t \in Busy}
        \cup {<<batches[b].line, batches[b].of>> : b \in DOMAIN batches}

ScansNamed   == \A n \in Naming : n[2] \in Nat /\ n[2] <= scanned
OneIdEach    == \A n, m \in Naming : n[2] = m[2] => n[1] = m[1]
OneBatchPerId ==
    \A b, c \in DOMAIN batches : batches[b].line = batches[c].line => b = c
BatchOfItsId ==
    \A id \in Live : Stored(id) =>
        lines[id].batch \in DOMAIN batches /\ batches[lines[id].batch].line = id
CallsKnow ==
    \A t \in Busy :
        /\ calls[t].line \in LineIds /\ calls[t].copy \in Line
        /\ calls[t].copy.session \in DOMAIN sessions
        /\ calls[t].pc = "read" \/
              (calls[t].pc = "added" /\ calls[t].batch \in DOMAIN batches
                 /\ batches[calls[t].batch].line = calls[t].line)
SessionsKnown == \A id \in Live : lines[id].session \in DOMAIN sessions
OneInProgress == \A s, r \in InProgress : s = r

IInv ==
    /\ TypeOK /\ ScansNamed /\ OneIdEach /\ OneBatchPerId /\ BatchOfItsId
    /\ CallsKnow /\ SessionsKnown /\ OneInProgress /\ CheckedByItsLine /\ BatchedOnce

(***************************************************************************)
(* Helpers                                                                 *)
(***************************************************************************)
\* A nonempty set of numbers has a smallest one.
LEMMA NatMinimum ==
    ASSUME NEW S \in SUBSET Nat, S # {}
    PROVE  \E m \in S : \A n \in S : m <= n
<1>1. IsWellFoundedOn(OpToRel(<, Nat), Nat)
  BY NatLessThanWellFounded
<1>2. PICK m \in S : \A k \in S : <<k, m>> \notin OpToRel(<, Nat)
  BY <1>1, WFMin
<1>3. \A k \in S : ~(k < m)
  BY <1>2 DEF OpToRel
<1>4. QED
  BY <1>3

\* A nonempty set of numbers below a bound has a greatest one.
LEMMA BoundedMaximum ==
    ASSUME NEW n \in Nat, NEW S \in SUBSET (0..n), S # {}
    PROVE  \E m \in S : \A k \in S : k <= m
<1> DEFINE T == {k \in 0..n : n - k \in S}
<1>1. T \in SUBSET Nat
  OBVIOUS
<1>2. PICK x : x \in S
  OBVIOUS
<1>3. n - x \in T
  <2>1. n - x \in 0..n /\ n - (n - x) = x
    BY <1>2
  <2>2. QED
    BY <2>1, <1>2
<1>4. PICK t \in T : \A u \in T : t <= u
  BY <1>1, <1>3, NatMinimum
<1>5. ASSUME NEW k \in S PROVE k <= n - t
  <2>1. n - k \in 0..n /\ n - (n - k) = k /\ k \in 0..n
    OBVIOUS
  <2>2. n - k \in T
    BY <2>1
  <2>3. t <= n - k
    BY <1>4, <2>2
  <2>4. QED
    BY <2>1, <2>3, <1>4
<1>6. QED
  BY <1>4, <1>5

\* The id of a new line is nobody's.
LEMMA NextIdIsFree ==
    ASSUME ShoppingConstants
    PROVE  NextId \notin Live
<1>1. Live \cup {0} \in SUBSET (0..MaxLines) /\ MaxLines \in Nat
  BY DEF ShoppingConstants, Live, LineIds
<1>2. \E m \in Live \cup {0} : \A k \in Live \cup {0} : k <= m
  BY <1>1, BoundedMaximum
<1> DEFINE m == CHOOSE m \in Live \cup {0} : \A id \in Live : id <= m
<1>3. m \in Live \cup {0} /\ \A id \in Live : id <= m
  BY <1>2
<1>4. m \in Nat
  BY <1>1, <1>3
<1>5. NextId = 1 + m
  BY DEF NextId
<1>6. QED
  BY <1>1, <1>3, <1>4, <1>5

\* Tables are sequences: their ids are the numbers from 1.
LEMMA Tables ==
    ASSUME TypeOK
    PROVE  /\ DOMAIN sessions = 1..Len(sessions) /\ Len(sessions) \in Nat
           /\ DOMAIN batches = 1..Len(batches) /\ Len(batches) \in Nat
           /\ DOMAIN items = 1..Len(items) /\ Len(items) \in Nat
           /\ \A s \in DOMAIN sessions : sessions[s] \in Session
           /\ \A b \in DOMAIN batches : batches[b] \in Batch
           /\ \A i \in DOMAIN items : items[i] \in Item
           /\ \A id \in Live : lines[id] \in Line /\ id \in LineIds
BY LenProperties, ElementOfSeq DEF TypeOK, Live

\* current_session shows a trip in progress, and nothing only when there is none.
LEMMA ShownInProgress ==
    ASSUME TypeOK, OneInProgress, NullIsNoNumber
    PROVE  /\ Shown # Null => Shown \in InProgress
           /\ Shown = Null => InProgress = {}
<1>1. InProgress \subseteq DOMAIN sessions /\ DOMAIN sessions \subseteq Nat
  BY Tables DEF InProgress
<1> DEFINE open == {s \in InProgress : sessions[s].state = "shopping"}
<1>2. CASE open # {}
  <2>1. Shown = CHOOSE s \in open : TRUE
    BY <1>2 DEF Shown
  <2>2. Shown \in open
    BY <2>1, <1>2
  <2>3. QED
    BY <2>2, <1>1 DEF NullIsNoNumber
<1>3. CASE open = {} /\ InProgress # {}
  <2>1. Shown = Lowest(InProgress)
    BY <1>3 DEF Shown
  <2>2. \E n \in InProgress : \A m \in InProgress : n <= m
    BY <1>1, <1>3, NatMinimum
  <2>3. Shown \in InProgress
    BY <2>1, <2>2 DEF Lowest
  <2>4. QED
    BY <2>3, <1>1 DEF NullIsNoNumber
<1>4. CASE open = {} /\ InProgress = {}
  BY <1>4 DEF Shown
<1>5. QED
  BY <1>2, <1>3, <1>4

\* Closing a trip ends it and leaves the others alone.
LEMMA ClosingEnds ==
    ASSUME TypeOK, NEW s \in DOMAIN sessions
    PROVE  /\ Closing(s) \in Seq(Session) /\ DOMAIN Closing(s) = DOMAIN sessions
           /\ Closing(s)[s].state = "done"
           /\ \A r \in DOMAIN sessions : r # s => Closing(s)[r] = sessions[r]
<1> DEFINE row == [state |-> "done",
                   closings |-> IF sessions[s].closings = 2 THEN 2
                                ELSE sessions[s].closings + 1]
<1>1. sessions[s] \in Session
  BY Tables
<1>2. row \in Session
  BY <1>1 DEF Session
<1>3. Closing(s) = [sessions EXCEPT ![s] = row]
  BY DEF Closing
<1>4. sessions \in Seq(Session) /\ s \in 1..Len(sessions)
  BY Tables DEF TypeOK
<1>5. [sessions EXCEPT ![s] = row] \in Seq(Session)
  BY <1>2, <1>4, ExceptSeq
<1>6. QED
  BY <1>3, <1>4, <1>5

\* As long as nothing new is named, names stay what they were.
LEMMA NamesKept ==
    ASSUME ScansNamed, OneIdEach, Naming' \subseteq Naming, scanned' = scanned
    PROVE  ScansNamed' /\ OneIdEach'
BY DEF ScansNamed, OneIdEach

(***************************************************************************)
(* The trip                                                                *)
(***************************************************************************)
\* A step that only moves trips, and opens no second one.
LEMMA TripStep ==
    ASSUME IInv, UNCHANGED <<lines, scanned, batches, items, calls>>,
           sessions' \in Seq(Session), DOMAIN sessions \subseteq DOMAIN sessions',
           OneInProgress'
    PROVE  IInv'
<1>1. TypeOK'
  BY DEF IInv, TypeOK
<1>2. Live' = Live /\ Busy' = Busy
  BY DEF Live, Busy
<1>3. ScansNamed' /\ OneIdEach'
  <2>1. Naming' = Naming
    BY <1>2 DEF Naming
  <2>2. QED
    BY <2>1, NamesKept DEF IInv
<1>4. OneBatchPerId' /\ BatchedOnce'
  BY DEF IInv, OneBatchPerId, BatchedOnce
<1>5. BatchOfItsId'
  BY <1>2 DEF IInv, BatchOfItsId, Stored
<1>6. CallsKnow'
  BY <1>2 DEF IInv, CallsKnow
<1>7. SessionsKnown'
  BY <1>2 DEF IInv, SessionsKnown
<1>8. CheckedByItsLine'
  BY <1>2 DEF IInv, CheckedByItsLine
<1>9. QED
  BY <1>1, <1>3, <1>4, <1>5, <1>6, <1>7, <1>8 DEF IInv

\* A trip that is closed, by hand or by its last line.
LEMMA ClosingStep ==
    ASSUME TypeOK, OneInProgress, NEW s \in DOMAIN sessions, sessions' = Closing(s)
    PROVE  /\ sessions' \in Seq(Session) /\ DOMAIN sessions' = DOMAIN sessions
           /\ OneInProgress'
<1>1. InProgress' \subseteq InProgress
  BY ClosingEnds DEF InProgress
<1>2. QED
  BY <1>1, ClosingEnds DEF OneInProgress

\* start keeps the invariant: it asks that nothing is in progress.
LEMMA StartKeeps ==
    ASSUME NullIsNoNumber, IInv, Start
    PROVE  IInv'
<1> DEFINE new == [state |-> "shopping", closings |-> 0]
<1>1. new \in Session /\ sessions \in Seq(Session) /\ sessions' = Append(sessions, new)
  BY DEF Start, Session, IInv, TypeOK
<1>2. /\ sessions' \in Seq(Session) /\ Len(sessions') = Len(sessions) + 1
      /\ DOMAIN sessions = 1..Len(sessions) /\ Len(sessions) \in Nat
      /\ DOMAIN sessions' = 1..Len(sessions) + 1
      /\ \A s \in DOMAIN sessions : sessions'[s] = sessions[s]
  BY <1>1, AppendProperties, LenProperties
<1>3. InProgress = {}
  BY ShownInProgress DEF Start, IInv
<1>4. InProgress' \subseteq {Len(sessions) + 1}
  BY <1>2, <1>3 DEF InProgress
<1>5. OneInProgress'
  BY <1>4 DEF OneInProgress
<1>6. QED
  BY <1>2, <1>5, TripStep DEF Start

\* checkout keeps it: the trip stays in progress, the same one.
LEMMA CheckoutKeeps ==
    ASSUME NullIsNoNumber, IInv, Checkout
    PROVE  IInv'
<1>1. Shown \in InProgress
  BY ShownInProgress DEF Checkout, CanScan, IInv
<1>2. Shown \in DOMAIN sessions /\ sessions[Shown] \in Session /\ sessions \in Seq(Session)
  BY <1>1, Tables DEF InProgress, IInv, TypeOK
<1>3. [sessions[Shown] EXCEPT !.state = "to_store"] \in Session
  BY <1>2 DEF Session
<1>4. sessions' = [sessions EXCEPT ![Shown] = [sessions[Shown] EXCEPT !.state = "to_store"]]
  BY DEF Checkout
<1>5. sessions' \in Seq(Session) /\ DOMAIN sessions' = DOMAIN sessions
  BY <1>2, <1>3, <1>4, ExceptSeq, Tables DEF IInv
<1>6. InProgress' \subseteq InProgress
  BY <1>1, <1>4, <1>5 DEF InProgress
<1>7. OneInProgress'
  BY <1>6 DEF OneInProgress, IInv
<1>8. QED
  BY <1>5, <1>7, TripStep DEF Checkout

\* close keeps it.
LEMMA CloseKeeps ==
    ASSUME NullIsNoNumber, IInv, Close
    PROVE  IInv'
<1>1. Shown \in DOMAIN sessions
  BY ShownInProgress DEF Close, IInv, InProgress
<1>2. sessions' = Closing(Shown)
  BY DEF Close
<1>3. QED
  BY <1>1, <1>2, ClosingStep, TripStep DEF Close, IInv

(***************************************************************************)
(* The shopping list                                                       *)
(***************************************************************************)
\* A step that only writes items, each naming the line that checked it.
LEMMA ItemsStep ==
    ASSUME IInv, UNCHANGED <<sessions, lines, scanned, batches, calls>>,
           items' \in Seq(Item), CheckedByItsLine'
    PROVE  IInv'
<1>1. TypeOK'
  BY DEF IInv, TypeOK
<1>2. Live' = Live /\ Busy' = Busy /\ InProgress' = InProgress
  BY DEF Live, Busy, InProgress
<1>3. ScansNamed' /\ OneIdEach'
  <2>1. Naming' = Naming
    BY <1>2 DEF Naming
  <2>2. QED
    BY <2>1, NamesKept DEF IInv
<1>4. OneBatchPerId' /\ BatchedOnce'
  BY DEF IInv, OneBatchPerId, BatchedOnce
<1>5. BatchOfItsId'
  BY <1>2 DEF IInv, BatchOfItsId, Stored
<1>6. CallsKnow'
  BY <1>2 DEF IInv, CallsKnow
<1>7. SessionsKnown' /\ OneInProgress'
  BY <1>2 DEF IInv, SessionsKnown, OneInProgress
<1>8. QED
  BY <1>1, <1>3, <1>4, <1>5, <1>6, <1>7 DEF IInv

\* One item replaced by one that no line checked.
LEMMA ItemReplaced ==
    ASSUME IInv, UNCHANGED <<sessions, lines, scanned, batches, calls>>,
           NEW i \in DOMAIN items, NEW it \in Item, it.line = Null,
           items' = [items EXCEPT ![i] = it]
    PROVE  IInv'
<1>1. items \in Seq(Item) /\ i \in 1..Len(items) /\ DOMAIN items = 1..Len(items)
  BY Tables DEF IInv, TypeOK
<1>2. items' \in Seq(Item) /\ DOMAIN items' = DOMAIN items
  BY <1>1, ExceptSeq
<1>3. CheckedByItsLine'
  <2>1. Live' = Live
    BY DEF Live
  <2>2. \A j \in DOMAIN items' : items'[j] = items[j] \/ items'[j] = it
    BY <1>2
  <2>3. QED
    BY <1>2, <2>1, <2>2 DEF CheckedByItsLine, IInv
<1>4. QED
  BY <1>2, <1>3, ItemsStep

\* Listing the product keeps the invariant.
LEMMA ListItemKeeps ==
    ASSUME IInv, ListItem
    PROVE  IInv'
<1> DEFINE it == [open |-> TRUE, line |-> Null, by |-> Null]
<1>1. it \in Item /\ items \in Seq(Item) /\ items' = Append(items, it)
  BY DEF ListItem, Item, IInv, TypeOK
<1>2. /\ items' \in Seq(Item) /\ Len(items') = Len(items) + 1
      /\ DOMAIN items' = 1..Len(items) + 1 /\ DOMAIN items = 1..Len(items)
      /\ Len(items) \in Nat
      /\ \A i \in 1..Len(items) : items'[i] = items[i]
      /\ items'[Len(items) + 1] = it
  BY <1>1, AppendProperties, LenProperties
<1>3. CheckedByItsLine'
  <2>1. Live' = Live /\ lines' = lines
    BY DEF Live, ListItem
  <2>2. \A i \in DOMAIN items' : i \in DOMAIN items \/ items'[i].line = Null
    BY <1>2
  <2>3. QED
    BY <1>2, <2>1, <2>2 DEF CheckedByItsLine, IInv
<1>4. QED
  BY <1>2, <1>3, ItemsStep DEF ListItem

\* Checking and unchecking an item by hand keep it.
LEMMA CheckItemKeeps ==
    ASSUME IInv, NEW i \in DOMAIN items, CheckItem(i)
    PROVE  IInv'
<1> DEFINE it == [open |-> FALSE, line |-> Null, by |-> Null]
<1>1. it \in Item /\ it.line = Null
  BY DEF Item
<1>2. items' = [items EXCEPT ![i] = it]
  BY DEF CheckItem
<1> HIDE DEF it
<1>3. QED
  BY <1>1, <1>2, ItemReplaced DEF CheckItem

\* Unchecking an item leaves trips and batches alone.
LEMMA UncheckItemKeeps ==
    ASSUME IInv, NEW i \in DOMAIN items, UncheckItem(i)
    PROVE  IInv'
<1> DEFINE it == [open |-> TRUE, line |-> Null, by |-> Null]
<1>1. it \in Item /\ it.line = Null
  BY DEF Item
<1>2. items' = [items EXCEPT ![i] = it]
  BY DEF UncheckItem, Unchecked
<1> HIDE DEF it
<1>3. QED
  BY <1>1, <1>2, ItemReplaced DEF UncheckItem

(***************************************************************************)
(* The lines                                                               *)
(***************************************************************************)
\* A scan keeps the invariant: its number is new, and so is its id among the
\* lines, though not among the calls and batches of lines removed before.
LEMMA AddLineKeeps ==
    ASSUME ShoppingConstants, NullIsNoNumber, NullIsNoLine, IInv, NEW q \in Quantities, AddLine(q)
    PROVE  IInv'
<1> DEFINE id  == NextId
           uid == scanned + 1
           new == [uid |-> uid, session |-> Shown, quantity |-> q, batch |-> Null]
           it  == [open |-> FALSE, line |-> id, by |-> uid]
<1>1. /\ id \in LineIds /\ id \notin Live /\ id # Null
      /\ uid \in Nat /\ scanned \in Nat /\ scanned' = uid
  BY NextIdIsFree DEF AddLine, IInv, TypeOK, NullIsNoNumber, LineIds
<1>2. Shown \in DOMAIN sessions /\ DOMAIN sessions \subseteq Nat
  BY ShownInProgress, Tables DEF AddLine, CanScan, InProgress, IInv
<1>3. new \in Line /\ it \in Item
  BY <1>1, <1>2 DEF Line, Item
<1>4. new # Null
  BY <1>3 DEF NullIsNoLine
<1>5. /\ lines' = [lines EXCEPT ![id] = new]
      /\ items' = [i \in DOMAIN items |-> IF items[i].open THEN it ELSE items[i]]
      /\ UNCHANGED <<sessions, batches, calls>>
  BY DEF AddLine
<1> HIDE DEF id, uid, new, it
<1>6. /\ new.uid = uid /\ new.session = Shown /\ new.batch = Null
      /\ ~it.open /\ it.line = id /\ it.by = uid
  BY DEF new, it
<1> HIDE DEF id, uid, new, it
<1>7. lines \in [LineIds -> Line \cup {Null}] /\ items \in Seq(Item)
  BY DEF IInv, TypeOK
<1>8. /\ Live' = Live \cup {id} /\ Busy' = Busy /\ InProgress' = InProgress
      /\ lines'[id] = new /\ \A j \in Live : lines'[j] = lines[j]
  BY <1>1, <1>4, <1>5, <1>7 DEF Live, Busy, InProgress
<1>9. TypeOK'
  <2>1. lines' \in [LineIds -> Line \cup {Null}]
    BY <1>3, <1>5, <1>7
  <2>2. items' \in [1..Len(items) -> Item]
    BY <1>3, <1>5, Tables DEF IInv
  <2>3. items' \in Seq(Item)
    BY <2>2, SeqDef, Tables DEF IInv
  <2>4. QED
    BY <2>1, <2>3, <1>1, <1>5 DEF IInv, TypeOK
<1>10. ScansNamed' /\ OneIdEach'
  <2>1. Naming' \subseteq Naming \cup {<<id, uid>>}
    BY <1>5, <1>6, <1>8 DEF Naming
  <2>2. \A n \in Naming : n[2] \in Nat /\ n[2] < uid
    BY <1>1 DEF IInv, ScansNamed, uid
  <2>3. ScansNamed'
    BY <2>1, <2>2, <1>1 DEF ScansNamed
  <2>4. OneIdEach'
    BY <2>1, <2>2, <1>1 DEF OneIdEach, IInv
  <2>5. QED
    BY <2>3, <2>4
<1>11. OneBatchPerId' /\ BatchedOnce'
  BY <1>5 DEF IInv, OneBatchPerId, BatchedOnce
<1>12. BatchOfItsId'
  BY <1>5, <1>6, <1>8 DEF IInv, BatchOfItsId, Stored
<1>13. CallsKnow'
  BY <1>5, <1>8 DEF IInv, CallsKnow
<1>14. SessionsKnown' /\ OneInProgress'
  BY <1>2, <1>5, <1>6, <1>8 DEF IInv, SessionsKnown, OneInProgress
<1>15. CheckedByItsLine'
  <2> SUFFICES ASSUME NEW i \in DOMAIN items', items'[i].line # Null
               PROVE  /\ ~items'[i].open
                      /\ items'[i].line \in Live'
                      /\ lines'[items'[i].line].uid = items'[i].by
    BY DEF CheckedByItsLine
  <2>1. i \in DOMAIN items
    BY <1>5
  <2>2. CASE items[i].open
    BY <2>1, <2>2, <1>5, <1>6, <1>8
  <2>3. CASE ~items[i].open
    <3>1. items'[i] = items[i]
      BY <2>1, <2>3, <1>5
    <3>2. items[i].line \in Live /\ lines[items[i].line].uid = items[i].by
      BY <2>1, <3>1 DEF IInv, CheckedByItsLine
    <3>3. QED
      BY <2>3, <3>1, <3>2, <1>8
  <2>4. QED
    BY <2>2, <2>3
<1>16. QED
  BY <1>9, <1>10, <1>11, <1>12, <1>13, <1>14, <1>15 DEF IInv

\* A correction keeps it: the line stays itself and is not put away yet.
LEMMA UpdateLineKeeps ==
    ASSUME NullIsNoLine, IInv, NEW id \in LineIds, NEW q \in Quantities, UpdateLine(id, q)
    PROVE  IInv'
<1> DEFINE new == [lines[id] EXCEPT !.quantity = q]
<1>1. /\ id \in Live /\ ~Stored(id) /\ lines[id] \in Line
      /\ lines' = [lines EXCEPT ![id] = new]
      /\ UNCHANGED <<sessions, scanned, batches, items, calls>>
  BY Tables DEF UpdateLine, CorrectedLine, IInv
<1>2. /\ new \in Line /\ new # Null /\ new.uid = lines[id].uid
      /\ new.session = lines[id].session /\ new.batch = lines[id].batch
  BY <1>1 DEF Line, NullIsNoLine
<1> HIDE DEF new
<1>3. lines \in [LineIds -> Line \cup {Null}]
  BY DEF IInv, TypeOK
<1>4. /\ Live' = Live /\ Busy' = Busy /\ InProgress' = InProgress
      /\ \A j \in Live : /\ lines'[j].uid = lines[j].uid
                         /\ lines'[j].session = lines[j].session
                         /\ lines'[j].batch = lines[j].batch
  BY <1>1, <1>2, <1>3 DEF Live, Busy, InProgress
<1>5. TypeOK'
  BY <1>1, <1>2, <1>3 DEF IInv, TypeOK
<1>6. ScansNamed' /\ OneIdEach'
  <2>1. Naming' \subseteq Naming
    BY <1>1, <1>4 DEF Naming
  <2>2. QED
    BY <2>1, <1>1, NamesKept DEF IInv
<1>7. OneBatchPerId' /\ BatchedOnce'
  BY <1>1 DEF IInv, OneBatchPerId, BatchedOnce
<1>8. BatchOfItsId'
  BY <1>1, <1>4 DEF IInv, BatchOfItsId, Stored
<1>9. CallsKnow'
  BY <1>1, <1>4 DEF IInv, CallsKnow
<1>10. SessionsKnown' /\ OneInProgress'
  BY <1>1, <1>4 DEF IInv, SessionsKnown, OneInProgress
<1>11. CheckedByItsLine'
  BY <1>1, <1>4 DEF IInv, CheckedByItsLine
<1>12. QED
  BY <1>5, <1>6, <1>7, <1>8, <1>9, <1>10, <1>11 DEF IInv

\* A removal keeps it: no item names the line any more.
LEMMA RemoveLineKeeps ==
    ASSUME NullIsNoNumber, IInv, NEW id \in LineIds, RemoveLine(id)
    PROVE  IInv'
<1>1. /\ id \in Live /\ CanRemove(id) /\ items' = ItemsWithout(id)
      /\ lines' = [lines EXCEPT ![id] = Null]
      /\ UNCHANGED <<sessions, scanned, batches, calls>>
  BY DEF RemoveLine
<1>2. lines \in [LineIds -> Line \cup {Null}]
  BY DEF IInv, TypeOK
<1>3. /\ Live' = Live \ {id} /\ Busy' = Busy /\ InProgress' = InProgress
      /\ \A j \in Live' : lines'[j] = lines[j]
  BY <1>1, <1>2 DEF Live, Busy, InProgress
<1>4. /\ DOMAIN items' = DOMAIN items
      /\ \A i \in DOMAIN items :
            IF i \in CheckedBy(id) THEN items'[i] = Unchecked(i) ELSE items'[i] = items[i]
  BY <1>1 DEF ItemsWithout, CanRemove, NothingNames
<1>5. \A i \in DOMAIN items : Unchecked(i) \in Item /\ Unchecked(i).line = Null
  BY DEF Unchecked, Item
<1>6. TypeOK'
  <2>1. items' \in [1..Len(items) -> Item]
    BY <1>1, <1>4, <1>5, Tables DEF IInv, ItemsWithout
  <2>2. items' \in Seq(Item)
    BY <2>1, SeqDef, Tables DEF IInv
  <2>3. QED
    BY <2>2, <1>1, <1>2 DEF IInv, TypeOK
<1>7. ScansNamed' /\ OneIdEach'
  <2>1. Naming' \subseteq Naming
    BY <1>1, <1>3 DEF Naming
  <2>2. QED
    BY <2>1, <1>1, NamesKept DEF IInv
<1>8. OneBatchPerId' /\ BatchedOnce'
  BY <1>1 DEF IInv, OneBatchPerId, BatchedOnce
<1>9. BatchOfItsId'
  BY <1>1, <1>3 DEF IInv, BatchOfItsId, Stored
<1>10. CallsKnow'
  BY <1>1, <1>3 DEF IInv, CallsKnow
<1>11. SessionsKnown' /\ OneInProgress'
  BY <1>1, <1>3 DEF IInv, SessionsKnown, OneInProgress
<1>12. CheckedByItsLine'
  <2> SUFFICES ASSUME NEW i \in DOMAIN items, items'[i].line # Null
               PROVE  /\ ~items'[i].open
                      /\ items'[i].line \in Live'
                      /\ lines'[items'[i].line].uid = items'[i].by
    BY <1>4 DEF CheckedByItsLine
  <2>1. i \notin CheckedBy(id) /\ items'[i] = items[i]
    BY <1>4, <1>5
  <2>2. items[i].line # id
    BY <2>1 DEF CheckedBy
  <2>3. QED
    BY <2>1, <2>2, <1>3 DEF IInv, CheckedByItsLine
<1>13. QED
  BY <1>6, <1>7, <1>8, <1>9, <1>10, <1>11, <1>12 DEF IInv

(***************************************************************************)
(* store_line                                                              *)
(***************************************************************************)
\* A step that only moves one call, which knows a line or is over.
LEMMA CallStep ==
    ASSUME IInv, UNCHANGED <<sessions, lines, scanned, batches, items>>,
           NEW t \in Threads, NEW c \in Call, calls' = [calls EXCEPT ![t] = c],
           c # Idle => /\ <<c.line, c.copy.uid>> \in Naming
                       /\ c.line \in LineIds /\ c.copy \in Line
                       /\ c.copy.session \in DOMAIN sessions
                       /\ c.pc = "read"
    PROVE  IInv'
<1>1. calls \in [Threads -> Call]
  BY DEF IInv, TypeOK
<1>2. /\ TypeOK'
      /\ \A r \in Threads : r # t => calls'[r] = calls[r]
      /\ calls'[t] = c
  BY <1>1 DEF IInv, TypeOK
<1>3. Live' = Live /\ InProgress' = InProgress
  BY DEF Live, InProgress
<1>4. ScansNamed' /\ OneIdEach'
  <2>1. \A r \in Busy' : <<calls'[r].line, calls'[r].copy.uid>> \in Naming
    BY <1>2 DEF Busy, Naming
  <2>2. Naming' \subseteq Naming
    BY <1>3, <2>1 DEF Naming
  <2>3. QED
    BY <2>2, NamesKept DEF IInv
<1>5. OneBatchPerId' /\ BatchedOnce'
  BY DEF IInv, OneBatchPerId, BatchedOnce
<1>6. BatchOfItsId'
  BY <1>3 DEF IInv, BatchOfItsId, Stored
<1>7. CallsKnow'
  BY <1>2 DEF IInv, CallsKnow, Busy
<1>8. SessionsKnown' /\ OneInProgress' /\ CheckedByItsLine'
  BY <1>3 DEF IInv, SessionsKnown, OneInProgress, CheckedByItsLine
<1>9. QED
  BY <1>2, <1>4, <1>5, <1>6, <1>7, <1>8 DEF IInv

\* Reading a line keeps the invariant: the call knows a line that is there.
LEMMA StoreReadKeeps ==
    ASSUME IInv, NEW t \in Threads, NEW id \in LineIds, StoreRead(t, id)
    PROVE  IInv'
<1> DEFINE c == [pc |-> "read", line |-> id, copy |-> lines[id], batch |-> Null]
<1>1. id \in Live /\ lines[id] \in Line /\ lines[id].session \in DOMAIN sessions
  BY Tables DEF StoreRead, IInv, SessionsKnown
<1>2. c \in Call /\ c.line = id /\ c.copy = lines[id] /\ c.pc = "read"
  BY <1>1 DEF Call
<1>3. calls' = [calls EXCEPT ![t] = c]
  BY DEF StoreRead
<1>4. <<id, lines[id].uid>> \in Naming
  BY <1>1 DEF Naming
<1> HIDE DEF c
<1>5. QED
  BY <1>1, <1>2, <1>3, <1>4, CallStep DEF StoreRead

\* A stop keeps it: the call is forgotten.
LEMMA StoreStopsKeeps ==
    ASSUME IInv, NEW t \in Threads, StoreStops(t)
    PROVE  IInv'
<1>1. Idle \in Call
  BY DEF Idle, Call
<1>2. QED
  BY <1>1, CallStep DEF StoreStops

\* A call that is under way knows the line it puts away.
LEMMA BusyCall ==
    ASSUME IInv, NEW t \in Threads, calls[t].pc # "idle"
    PROVE  /\ t \in Busy /\ calls[t] \in Call
           /\ calls[t].line \in LineIds /\ calls[t].copy \in Line
           /\ calls[t].copy.uid \in Nat
           /\ <<calls[t].line, calls[t].copy.uid>> \in Naming
BY DEF IInv, TypeOK, Busy, Idle, CallsKnow, Naming, Line

\* add_stock keeps it: the key knows one batch, made by whoever came first.
LEMMA StoreAddStockKeeps ==
    ASSUME IInv, NEW t \in Threads, StoreAddStock(t)
    PROVE  IInv'
<1> DEFINE id == calls[t].line
           new == [line |-> id, of |-> calls[t].copy.uid, quantity |-> calls[t].copy.quantity]
<1>1. /\ t \in Busy /\ calls[t] \in Call /\ id \in LineIds /\ calls[t].copy \in Line
      /\ <<id, calls[t].copy.uid>> \in Naming /\ calls[t].copy.session \in DOMAIN sessions
  BY BusyCall DEF StoreAddStock, IInv, CallsKnow
<1>2. UNCHANGED <<sessions, lines, scanned, items>>
  BY DEF StoreAddStock
<1>3. /\ batches \in Seq(Batch) /\ calls \in [Threads -> Call]
      /\ DOMAIN batches = 1..Len(batches) /\ Len(batches) \in Nat
  BY Tables DEF IInv, TypeOK
<1>4. PICK b \in Nat :
        /\ calls' = [calls EXCEPT ![t] = [calls[t] EXCEPT !.pc = "added", !.batch = b]]
        /\ b \in DOMAIN batches' /\ batches'[b].line = id
        /\ batches' \in Seq(Batch) /\ DOMAIN batches \subseteq DOMAIN batches'
        /\ \A k \in DOMAIN batches : batches'[k] = batches[k]
        /\ \A k \in DOMAIN batches' \ DOMAIN batches :
              k = b /\ batches'[k] = new /\ WithKey(t) = {}
  <2>1. CASE WithKey(t) = {}
    <3>1. new \in Batch
      BY <1>1 DEF Batch, Line
    <3>2. batches' = Append(batches, new)
      BY <2>1 DEF StoreAddStock
    <3>3. /\ batches' \in Seq(Batch) /\ DOMAIN batches' = 1..Len(batches) + 1
          /\ \A k \in DOMAIN batches : batches'[k] = batches[k]
          /\ batches'[Len(batches) + 1] = new
      BY <1>3, <3>1, <3>2, AppendProperties, LenProperties
    <3>4. calls' = [calls EXCEPT ![t] = [calls[t] EXCEPT !.pc = "added", !.batch = Len(batches) + 1]]
      BY <2>1, <1>3 DEF StoreAddStock
    <3>5. new.line = id
      OBVIOUS
    <3> HIDE DEF new
    <3>6. /\ Len(batches) + 1 \in DOMAIN batches' /\ DOMAIN batches \subseteq DOMAIN batches'
          /\ \A k \in DOMAIN batches' \ DOMAIN batches : k = Len(batches) + 1
      BY <3>3, <1>3
    <3> WITNESS Len(batches) + 1 \in Nat
    <3>7. QED
      BY <2>1, <3>3, <3>4, <3>5, <3>6
  <2>2. CASE WithKey(t) # {}
    <3>1. WithKey(t) \in SUBSET Nat
      BY <1>3 DEF WithKey
    <3>2. \E n \in WithKey(t) : \A m \in WithKey(t) : n <= m
      BY <2>2, <3>1, NatMinimum
    <3>3. Lowest(WithKey(t)) \in WithKey(t)
      BY <3>2 DEF Lowest
    <3>4. /\ calls' = [calls EXCEPT ![t] = [calls[t] EXCEPT !.pc = "added",
                                                            !.batch = Lowest(WithKey(t))]]
          /\ batches' = batches
      BY <2>2, <1>3 DEF StoreAddStock
    <3>5. QED
      BY <3>1, <3>3, <3>4, <1>3 DEF WithKey
  <2>3. QED
    BY <2>1, <2>2
<1> DEFINE c == [calls[t] EXCEPT !.pc = "added", !.batch = b]
<1>5. /\ c \in Call /\ c.line = id /\ c.copy = calls[t].copy /\ c.pc = "added"
      /\ c.batch = b
  BY <1>1 DEF Call
<1>6. new.line = id /\ new.of = calls[t].copy.uid
  OBVIOUS
<1> HIDE DEF c, new
<1>7. calls'[t] = c /\ \A r \in Threads : r # t => calls'[r] = calls[r]
  BY <1>3, <1>4 DEF c
<1>8. TypeOK'
  BY <1>2, <1>3, <1>4, <1>5 DEF IInv, TypeOK, c
<1>9. /\ Live' = Live /\ InProgress' = InProgress
      /\ Busy' = Busy
  BY <1>1, <1>2, <1>5, <1>7 DEF Live, InProgress, Busy, Idle
<1>10. ScansNamed' /\ OneIdEach'
  <2>1. ASSUME NEW r \in Busy'
        PROVE  <<calls'[r].line, calls'[r].copy.uid>> \in Naming
    <3>1. CASE r = t
      BY <1>1, <1>5, <1>7, <3>1
    <3>2. CASE r # t
      <4>1. r \in Busy /\ calls'[r] = calls[r]
        BY <1>7, <1>9, <3>2 DEF Busy
      <4>2. QED
        BY <4>1 DEF Naming
    <3>3. QED
      BY <3>1, <3>2
  <2>2. \A k \in DOMAIN batches' : <<batches'[k].line, batches'[k].of>> \in Naming
    BY <1>1, <1>4, <1>6 DEF Naming
  <2>3. \A j \in Live' : <<j, lines'[j].uid>> \in Naming
    BY <1>2, <1>9 DEF Naming
  <2>4. Naming' \subseteq Naming
    BY <2>1, <2>2, <2>3 DEF Naming
  <2>5. QED
    BY <2>4, <1>2, NamesKept DEF IInv
<1>11. OneBatchPerId'
  <2>1. \A k \in DOMAIN batches : WithKey(t) = {} => batches[k].line # id
    BY DEF WithKey
  <2>2. QED
    BY <1>4, <1>6, <2>1 DEF IInv, OneBatchPerId
<1>12. BatchedOnce'
  <2>1. ASSUME NEW k \in DOMAIN batches, WithKey(t) = {}
        PROVE  batches[k].of # calls[t].copy.uid
    <3>1. <<batches[k].line, batches[k].of>> \in Naming
      BY DEF Naming
    <3>2. batches[k].of = calls[t].copy.uid => batches[k].line = id
      BY <3>1, <1>1 DEF IInv, OneIdEach
    <3>3. QED
      BY <2>1, <3>2 DEF WithKey
  <2>2. QED
    BY <1>4, <1>6, <2>1 DEF IInv, BatchedOnce
<1>13. BatchOfItsId'
  BY <1>2, <1>4, <1>9 DEF IInv, BatchOfItsId, Stored
<1>14. CallsKnow'
  BY <1>1, <1>2, <1>4, <1>5, <1>7, <1>9 DEF IInv, CallsKnow
<1>15. SessionsKnown' /\ OneInProgress' /\ CheckedByItsLine'
  BY <1>2, <1>9 DEF IInv, SessionsKnown, OneInProgress, CheckedByItsLine
<1>16. QED
  BY <1>8, <1>10, <1>11, <1>12, <1>13, <1>14, <1>15 DEF IInv

\* What the mark leaves of the line it finds.
LEMMA MarkedLine ==
    ASSUME NullIsNoLine, IInv, NEW t \in Threads, StoreMark(t)
    PROVE  LET id == calls[t].line
           IN  /\ calls[t].batch \in DOMAIN batches
               /\ batches[calls[t].batch].line = id
               /\ lines' \in [LineIds -> Line \cup {Null}] /\ Live' = Live
               /\ \A j \in Live : j # id => lines'[j] = lines[j]
               /\ id \in Live => /\ lines'[id].uid = lines[id].uid
                                 /\ lines'[id].session = lines[id].session
                                 /\ lines'[id].batch = calls[t].batch
                                 /\ lines[id].batch = calls[t].batch => lines'[id] = lines[id]
<1> DEFINE id == calls[t].line
           new == [lines[id] EXCEPT !.batch = calls[t].batch]
<1>1. t \in Busy /\ calls[t].pc = "added" /\ id \in LineIds
  BY BusyCall DEF StoreMark
<1>2. calls[t].batch \in DOMAIN batches /\ batches[calls[t].batch].line = id
  BY <1>1 DEF IInv, CallsKnow
<1>3. lines \in [LineIds -> Line \cup {Null}] /\ calls[t].batch \in Nat
  BY <1>2, Tables DEF IInv, TypeOK
<1>4. CASE id \in Live
  <2>1. lines[id] \in Line /\ lines' = [lines EXCEPT ![id] = new]
    BY <1>4, Tables DEF StoreMark, IInv
  <2>2. /\ new \in Line /\ new # Null /\ new.uid = lines[id].uid
        /\ new.session = lines[id].session /\ new.batch = calls[t].batch
        /\ lines[id].batch = calls[t].batch => new = lines[id]
    BY <1>3, <2>1 DEF Line, NullIsNoLine
  <2> HIDE DEF new
  <2>3. QED
    BY <1>2, <1>3, <1>4, <2>1, <2>2 DEF Live
<1>5. CASE id \notin Live
  <2>1. lines' = lines
    BY <1>5 DEF StoreMark
  <2>2. QED
    BY <1>2, <1>3, <1>5, <2>1 DEF Live
<1>6. QED
  BY <1>4, <1>5

\* The mark keeps the invariant, whichever line has the id by now.
LEMMA StoreMarkKeeps ==
    ASSUME NullIsNoNumber, NullIsNoLine, IInv, NEW t \in Threads, StoreMark(t)
    PROVE  IInv'
<1> DEFINE id == calls[t].line
           s  == calls[t].copy.session
<1>1. t \in Busy /\ s \in DOMAIN sessions
  BY BusyCall DEF StoreMark, IInv, CallsKnow
<1>2. UNCHANGED <<scanned, batches, items>> /\ calls' = [calls EXCEPT ![t] = Idle]
  BY DEF StoreMark
<1>3. sessions' = Closing(s) \/ sessions' = sessions
  BY DEF StoreMark
<1>4. sessions' \in Seq(Session) /\ DOMAIN sessions' = DOMAIN sessions /\ OneInProgress'
  BY <1>1, <1>3, ClosingStep DEF IInv, TypeOK, OneInProgress, InProgress
<1>5. /\ Live' = Live /\ Busy' = Busy \ {t}
      /\ calls' \in [Threads -> Call] /\ \A r \in Busy' : calls'[r] = calls[r]
  <2>1. Idle \in Call /\ calls \in [Threads -> Call]
    BY DEF Idle, Call, IInv, TypeOK
  <2>2. QED
    BY <2>1, <1>2, MarkedLine DEF Busy
<1>6. \A j \in Live : lines'[j].uid = lines[j].uid /\ lines'[j].session = lines[j].session
  BY MarkedLine
<1>7. TypeOK'
  BY <1>2, <1>4, <1>5, MarkedLine DEF IInv, TypeOK
<1>8. ScansNamed' /\ OneIdEach'
  <2>1. Naming' \subseteq Naming
    BY <1>2, <1>5, <1>6 DEF Naming
  <2>2. QED
    BY <2>1, <1>2, NamesKept DEF IInv
<1>9. OneBatchPerId' /\ BatchedOnce'
  BY <1>2 DEF IInv, OneBatchPerId, BatchedOnce
<1>10. BatchOfItsId'
  BY <1>2, <1>5, MarkedLine DEF IInv, BatchOfItsId, Stored
<1>11. CallsKnow'
  BY <1>2, <1>4, <1>5 DEF IInv, CallsKnow
<1>12. SessionsKnown' /\ CheckedByItsLine'
  BY <1>2, <1>4, <1>5, <1>6 DEF IInv, SessionsKnown, CheckedByItsLine
<1>13. QED
  BY <1>4, <1>7, <1>8, <1>9, <1>10, <1>11, <1>12 DEF IInv

(***************************************************************************)
(* The theorems                                                            *)
(***************************************************************************)
\* Nothing is named, nothing is under way: the invariant holds at first.
LEMMA InitIInv ==
    ASSUME NullIsNoNumber, Init
    PROVE  IInv
<1>1. TypeOK
  <2>1. Idle \in Call
    BY DEF Idle, Call
  <2>2. QED
    BY <2>1, EmptySeq DEF Init, TypeOK
<1>2. Live = {} /\ Busy = {} /\ DOMAIN batches = {} /\ DOMAIN items = {}
      /\ DOMAIN sessions = {}
  BY EmptySeq DEF Init, Live, Busy
<1>3. Naming = {} /\ InProgress = {}
  BY <1>2 DEF Naming, InProgress
<1>4. QED
  BY <1>1, <1>2, <1>3 DEF IInv, ScansNamed, OneIdEach, OneBatchPerId, BatchOfItsId,
     CallsKnow, SessionsKnown, OneInProgress, CheckedByItsLine, BatchedOnce

\* Every step keeps it.
LEMMA NextIInv ==
    ASSUME ShoppingConstants, NullIsNoNumber, NullIsNoLine, IInv, [Next]_vars
    PROVE  IInv'
<1>1. CASE Start
  BY <1>1, StartKeeps
<1>2. CASE Checkout
  BY <1>2, CheckoutKeeps
<1>3. CASE Close
  BY <1>3, CloseKeeps
<1>4. ASSUME NEW q \in Quantities, AddLine(q) PROVE IInv'
  BY <1>4, AddLineKeeps
<1>5. ASSUME NEW id \in LineIds, NEW q \in Quantities, UpdateLine(id, q) PROVE IInv'
  BY <1>5, UpdateLineKeeps
<1>6. ASSUME NEW id \in LineIds, RemoveLine(id) PROVE IInv'
  BY <1>6, RemoveLineKeeps
<1>7. ASSUME NEW t \in Threads, NEW id \in LineIds, StoreRead(t, id) PROVE IInv'
  BY <1>7, StoreReadKeeps
<1>8. ASSUME NEW t \in Threads, StoreAddStock(t) PROVE IInv'
  BY <1>8, StoreAddStockKeeps
<1>9. ASSUME NEW t \in Threads, StoreMark(t) PROVE IInv'
  BY <1>9, StoreMarkKeeps
<1>10. ASSUME NEW t \in Threads, StoreStops(t) PROVE IInv'
  BY <1>10, StoreStopsKeeps
<1>11. CASE ListItem
  BY <1>11, ListItemKeeps
<1>12. ASSUME NEW i \in DOMAIN items, CheckItem(i) PROVE IInv'
  BY <1>12, CheckItemKeeps
<1>13. ASSUME NEW i \in DOMAIN items, UncheckItem(i) PROVE IInv'
  BY <1>13, UncheckItemKeeps
<1>14. CASE UNCHANGED vars
  <2>1. UNCHANGED <<sessions, lines, scanned, batches, calls>> /\ items' = items
    BY <1>14 DEF vars
  <2>2. items' \in Seq(Item)
    BY <2>1 DEF IInv, TypeOK
  <2>3. CheckedByItsLine'
    BY <2>1 DEF IInv, CheckedByItsLine, Live
  <2>4. QED
    BY <2>1, <2>2, <2>3, ItemsStep
<1>15. QED
  BY <1>1, <1>2, <1>3, <1>4, <1>5, <1>6, <1>7, <1>8, <1>9, <1>10, <1>11, <1>12, <1>13,
     <1>14 DEF Next

\* So it is an invariant of the specification.
THEOREM Invariance == Spec => []IInv
<1>1. Init => IInv
  BY InitIInv, NullIsNoNumber
<1>2. IInv /\ [Next]_vars => IInv'
  BY NextIInv, ShoppingConstants, NullIsNoNumber, NullIsNoLine
<1>3. QED
  BY <1>1, <1>2, PTL DEF Spec

(* The tables stay well formed, whatever calls cross. *)
THEOREM TypeCorrect == Spec => []TypeOK
<1>1. IInv => TypeOK
  BY DEF IInv
<1>2. QED
  BY <1>1, Invariance, PTL

(* At most one trip is in progress: no pending line is on a trip that no
   screen shows. *)
THEOREM OneTrip == Spec => []OneTripAtATime
<1>1. ASSUME IInv PROVE OneTripAtATime
  <2>1. CASE InProgress = {}
    BY <2>1, FS_EmptySet DEF OneTripAtATime
  <2>2. CASE InProgress # {}
    <3>1. PICK s : s \in InProgress
      BY <2>2
    <3>2. InProgress = {s}
      BY <3>1, <1>1 DEF IInv, OneInProgress
    <3>3. QED
      BY <3>2, FS_Singleton DEF OneTripAtATime
  <2>3. QED
    BY <2>1, <2>2
<1>2. QED
  BY <1>1, Invariance, PTL

(* However many phones put one line away, whatever stops in between and
   whoever takes its id over, a scan enters the stock at most once. *)
THEOREM EachBatchedOnce == Spec => []BatchedOnce
<1>1. IInv => BatchedOnce
  BY DEF IInv
<1>2. QED
  BY <1>1, Invariance, PTL

(* A checked item names a line that exists and is the one that checked it,
   though ids come back. *)
THEOREM CheckedItemsNameTheirLine == Spec => []CheckedByItsLine
<1>1. IInv => CheckedByItsLine
  BY DEF IInv
<1>2. QED
  BY <1>1, Invariance, PTL

\* A line that is put away is not touched by any step.
LEMMA StoredUntouched ==
    ASSUME ShoppingConstants, NullIsNoNumber, NullIsNoLine, IInv, [Next]_vars,
           NEW j \in Live, Stored(j)
    PROVE  lines'[j] = lines[j]
<1>1. lines \in [LineIds -> Line \cup {Null}] /\ j \in LineIds
  BY DEF IInv, TypeOK, Live
<1>2. ASSUME NEW q \in Quantities, AddLine(q) PROVE lines'[j] = lines[j]
  BY <1>1, <1>2, NextIdIsFree DEF AddLine
<1>3. ASSUME NEW id \in LineIds, NEW q \in Quantities, UpdateLine(id, q)
      PROVE  lines'[j] = lines[j]
  BY <1>1, <1>3 DEF UpdateLine
<1>4. ASSUME NEW id \in LineIds, RemoveLine(id) PROVE lines'[j] = lines[j]
  BY <1>1, <1>4 DEF RemoveLine, CanRemove
<1>5. ASSUME NEW t \in Threads, StoreMark(t) PROVE lines'[j] = lines[j]
  <2>1. CASE j = calls[t].line
    <3>1. lines[j].batch \in DOMAIN batches /\ batches[lines[j].batch].line = j
      BY DEF IInv, BatchOfItsId
    <3>2. lines[j].batch = calls[t].batch
      BY <1>5, <2>1, <3>1, MarkedLine DEF IInv, OneBatchPerId
    <3>3. QED
      BY <1>5, <2>1, <3>2, MarkedLine
  <2>2. CASE j # calls[t].line
    BY <1>5, <2>2, MarkedLine
  <2>3. QED
    BY <2>1, <2>2
<1>6. QED
  BY <1>2, <1>3, <1>4, <1>5
  DEF Next, vars, Start, Checkout, Close, StoreRead, StoreAddStock, StoreStops,
      ListItem, CheckItem, UncheckItem

(* Once a line is put away it stays what it is: neither a late put-away nor a
   correction nor a removal touches it. *)
THEOREM StoredIsForGood == Spec => StoredForGood
<1> DEFINE Untouched == \A id \in Live : Stored(id) => lines'[id] = lines[id]
<1>1. IInv /\ [Next]_vars => [Untouched]_vars
  BY StoredUntouched, ShoppingConstants, NullIsNoNumber, NullIsNoLine
<1>2. QED
  BY <1>1, Invariance, PTL DEF Spec, StoredForGood
=============================================================================

----------------------------- MODULE PanelProofs -----------------------------
(***************************************************************************)
(* Theorems about the two ends of a gesture: the queue a page keeps        *)
(* without a network, for every number of writes, and the handlers, the    *)
(* coordinator and the entry that answer it, for every number of calls,    *)
(* reloads and days.                                                       *)
(***************************************************************************)
EXTENDS OfflineQueue, Desk, SequenceTheorems, TLAPS

(***************************************************************************)
(* The queue.  While nothing makes the server forget a key, no write is    *)
(* done twice, whatever pages share the storage and whatever requests come *)
(* late.  One page whose requests die with their connection keeps the      *)
(* whole promise of Outbox, and loses nothing.                             *)
(***************************************************************************)
Values(s) == {s[i] : i \in DOMAIN s}

(***************************************************************************)
(* Nothing is done twice                                                   *)
(***************************************************************************)
\* The keys the server knows are those of what it has done.
KeysOfTheDone ==
    done \in Seq(Nat) /\ known = Values(done) /\ NothingDoubled

\* One more write done, at the end.
LEMMA OneMoreDone ==
    ASSUME NEW d \in Seq(Nat), NEW n \in Nat
    PROVE  LET e == Append(d, n)
           IN  /\ e \in Seq(Nat) /\ DOMAIN e = 1..Len(d) + 1
               /\ DOMAIN d = 1..Len(d) /\ Len(d) \in Nat
               /\ \A i \in DOMAIN d : e[i] = d[i]
               /\ e[Len(d) + 1] = n
               /\ Values(e) = Values(d) \cup {n}
<1> DEFINE e == Append(d, n)
<1>1. /\ e \in Seq(Nat) /\ Len(e) = Len(d) + 1
      /\ \A i \in 1..Len(d) : e[i] = d[i]
      /\ e[Len(d) + 1] = n
  BY AppendProperties
<1>2. DOMAIN e = 1..Len(d) + 1 /\ DOMAIN d = 1..Len(d) /\ Len(d) \in Nat
  BY <1>1, LenProperties
<1> HIDE DEF e
<1>3. Values(e) = Values(d) \cup {n}
  <2>1. ASSUME NEW x \in Values(e) PROVE x \in Values(d) \cup {n}
    BY <1>1, <1>2 DEF Values
  <2>2. ASSUME NEW x \in Values(d) PROVE x \in Values(e)
    <3>1. PICK i \in DOMAIN d : x = d[i]
      BY DEF Values
    <3>2. i \in DOMAIN e /\ e[i] = x
      BY <3>1, <1>1, <1>2
    <3>3. QED
      BY <3>2 DEF Values
  <2>3. n \in Values(e)
    <3>1. Len(d) + 1 \in DOMAIN e
      BY <1>2
    <3>2. QED
      BY <3>1, <1>1 DEF Values
  <2>4. QED
    BY <2>1, <2>2, <2>3
<1>4. QED
  BY <1>1, <1>2, <1>3 DEF e

\* Whatever the server answers, it does nothing it has done before.
LEMMA AnswersOnce ==
    ASSUME Removals = {}, KeysOfTheDone, NEW n \in Nat, NEW answer, Answers(n, answer)
    PROVE  KeysOfTheDone'
<1>1. CASE UNCHANGED <<known, done>>
  BY <1>1 DEF KeysOfTheDone, NothingDoubled, Values
<1>2. CASE CanDo(n) /\ Done(n)
  <2>1. /\ n \notin Values(done) /\ done \in Seq(Nat)
        /\ done' = Append(done, n) /\ known' = known \cup {n}
    BY <1>2 DEF CanDo, Repeats, Done, KeysOfTheDone
  <2>2. Values(done') = Values(done) \cup {n} /\ done' \in Seq(Nat)
    BY <2>1, OneMoreDone
  <2>3. NothingDoubled'
    <3>1. \A i \in DOMAIN done : done[i] # n
      BY <2>1 DEF Values
    <3>2. \A i, j \in DOMAIN done : done[i] = done[j] => i = j
      BY DEF KeysOfTheDone, NothingDoubled
    <3>3. QED
      BY <2>1, <3>1, <3>2, OneMoreDone DEF NothingDoubled
  <2>4. QED
    BY <2>1, <2>2, <2>3 DEF KeysOfTheDone
<1>3. QED
  BY <1>1, <1>2 DEF Answers

(***************************************************************************)
(* What pages and storage hold                                             *)
(***************************************************************************)
\* A queue of the first n writes, oldest first.
QueueOf(queue, n) ==
    /\ queue \in Seq(Writes) /\ InOrder(queue)
    /\ \A i \in DOMAIN queue : queue[i] <= n

\* What is out is the head, and only what is out has an answer.
PageOf(page, n) ==
    /\ page \in Page /\ QueueOf(page.queue, n)
    /\ page.sent # NoWrite => page.queue # <<>> /\ page.sent = Head(page.queue)
    /\ page.answer # "none" => page.sent # NoWrite

Shelved ==
    /\ TypeOK /\ QueueOf(stored, posted)
    /\ \A p \in Pages : PageOf(pages[p], posted)

\* A queue without its head is a queue.
LEMMA TailOfQueue ==
    ASSUME NEW n \in Nat, NEW queue, QueueOf(queue, n), queue # <<>>
    PROVE  /\ QueueOf(Tail(queue), n) /\ Head(queue) \in Writes /\ Head(queue) = queue[1]
           /\ DOMAIN Tail(queue) = 1..Len(queue) - 1 /\ DOMAIN queue = 1..Len(queue)
           /\ Len(queue) \in Nat /\ 1 \in DOMAIN queue
           /\ \A i \in DOMAIN Tail(queue) : i + 1 \in DOMAIN queue /\ Tail(queue)[i] = queue[i + 1]
<1>1. queue \in Seq(Writes)
  BY DEF QueueOf
<1>2. /\ Tail(queue) \in Seq(Writes) /\ Head(queue) \in Writes /\ Head(queue) = queue[1]
      /\ Len(Tail(queue)) = Len(queue) - 1
      /\ \A i \in 1..Len(Tail(queue)) : Tail(queue)[i] = queue[i + 1]
  BY <1>1, HeadTailProperties
<1>3. DOMAIN queue = 1..Len(queue) /\ Len(queue) \in Nat /\ Len(queue) # 0
  BY <1>1, LenProperties, EmptySeq
<1>4. DOMAIN Tail(queue) = 1..Len(queue) - 1
  BY <1>2, LenProperties
<1>5. \A i \in DOMAIN Tail(queue) : i + 1 \in DOMAIN queue /\ Tail(queue)[i] = queue[i + 1]
  BY <1>2, <1>3, <1>4
<1>6. InOrder(Tail(queue))
  BY <1>3, <1>4, <1>5 DEF QueueOf, InOrder
<1>7. QED
  BY <1>2, <1>3, <1>4, <1>5, <1>6 DEF QueueOf

\* The write that is posted comes after those before it.
LEMMA AppendToQueue ==
    ASSUME NEW n \in Nat, NEW queue, QueueOf(queue, n), n + 1 \in Writes
    PROVE  LET longer == Append(queue, n + 1)
           IN  /\ QueueOf(longer, n + 1) /\ longer # <<>>
               /\ DOMAIN longer = 1..Len(queue) + 1 /\ DOMAIN queue = 1..Len(queue)
               /\ Len(queue) \in Nat
               /\ \A i \in DOMAIN queue : longer[i] = queue[i]
               /\ longer[Len(queue) + 1] = n + 1
               /\ queue # <<>> => Head(longer) = Head(queue)
<1> DEFINE longer == Append(queue, n + 1)
<1>1. queue \in Seq(Writes) /\ \A i \in DOMAIN queue : queue[i] <= n /\ queue[i] \in Writes
  BY ElementOfSeq DEF QueueOf
<1>2. /\ longer \in Seq(Writes) /\ Len(longer) = Len(queue) + 1
      /\ \A i \in 1..Len(queue) : longer[i] = queue[i]
      /\ longer[Len(queue) + 1] = n + 1
  BY <1>1, AppendProperties
<1>3. /\ DOMAIN longer = 1..Len(queue) + 1 /\ DOMAIN queue = 1..Len(queue)
      /\ Len(queue) \in Nat
  BY <1>1, <1>2, LenProperties
<1> HIDE DEF longer
<1>4. longer # <<>>
  BY <1>2, <1>3, EmptySeq
<1>5. InOrder(longer)
  <2>1. InOrder(queue)
    BY DEF QueueOf
  <2>2. QED
    BY <1>1, <1>2, <1>3, <2>1 DEF InOrder, Writes
<1>6. \A i \in DOMAIN longer : longer[i] <= n + 1
  BY <1>1, <1>2, <1>3 DEF Writes
<1>7. queue # <<>> => Head(longer) = Head(queue)
  <2>1. Head(longer) = longer[1]
    BY <1>2, <1>4, HeadTailProperties
  <2>2. queue # <<>> => Head(queue) = queue[1] /\ 1 \in DOMAIN queue
    BY TailOfQueue
  <2>3. QED
    BY <1>2, <1>3, <2>1, <2>2
<1>8. QED
  BY <1>2, <1>3, <1>4, <1>5, <1>6, <1>7 DEF QueueOf, longer

\* A page that rests on a queue, and one that is gone.
LEMMA RestingPage ==
    ASSUME NEW n \in Nat, NEW queue, QueueOf(queue, n)
    PROVE  /\ PageOf(Rest(queue), n) /\ Rest(queue).queue = queue
           /\ Rest(queue).sent = NoWrite /\ Rest(queue).answer = "none"
           /\ PageOf(Gone, n) /\ Gone.queue = <<>> /\ Gone.sent = NoWrite /\ Gone.answer = "none"
<1>1. QueueOf(<<>>, n)
  BY EmptySeq DEF QueueOf, InOrder
<1>2. PageOf(Rest(queue), n) /\ Rest(queue).queue = queue
      /\ Rest(queue).sent = NoWrite /\ Rest(queue).answer = "none"
  BY DEF Rest, PageOf, Page, QueueOf
<1>3. PageOf(Gone, n) /\ Gone.queue = <<>> /\ Gone.sent = NoWrite /\ Gone.answer = "none"
  BY <1>1 DEF Gone, Rest, PageOf, Page, QueueOf
<1>4. QED
  BY <1>2, <1>3

\* One page replaced.
LEMMA OnePageMoves ==
    ASSUME Shelved, NEW p \in Pages, NEW g, PageOf(g, posted'), posted <= posted',
           posted' \in 0..MaxPosts, MaxPosts \in Nat,
           pages' = [pages EXCEPT ![p] = g]
    PROVE  /\ pages' \in [Pages -> Page]
           /\ \A q \in Pages : PageOf(pages'[q], posted')
           /\ \A q \in Pages : q # p => pages'[q] = pages[q]
           /\ pages'[p] = g
<1>1. pages \in [Pages -> Page] /\ g \in Page
  BY DEF Shelved, TypeOK, PageOf
<1>2. \A q \in Pages : PageOf(pages[q], posted')
  <2>1. posted \in Nat /\ posted' \in Nat
    BY DEF Shelved, TypeOK
  <2>2. ASSUME NEW q \in Pages PROVE QueueOf(pages[q].queue, posted')
    <3>1. QueueOf(pages[q].queue, posted) /\ pages[q].queue \in Seq(Writes)
      BY DEF Shelved, PageOf, QueueOf
    <3>2. \A i \in DOMAIN pages[q].queue : pages[q].queue[i] \in Nat
      BY <3>1, ElementOfSeq, LenProperties DEF Writes
    <3>3. QED
      BY <2>1, <3>1, <3>2 DEF QueueOf
  <2>3. QED
    BY <2>2 DEF Shelved, PageOf
<1>3. QED
  BY <1>1, <1>2

\* The same, when nothing is posted.
LEMMA OnePageMovesOn ==
    ASSUME QueueConstants, Shelved, NEW p \in Pages, NEW g, PageOf(g, posted),
           posted' = posted, pages' = [pages EXCEPT ![p] = g]
    PROVE  /\ pages' \in [Pages -> Page]
           /\ \A q \in Pages : PageOf(pages'[q], posted')
           /\ \A q \in Pages : q # p => pages'[q] = pages[q]
           /\ pages'[p] = g
<1>1. MaxPosts \in Nat /\ posted \in 0..MaxPosts
  BY DEF QueueConstants, Shelved, TypeOK
<1>2. PageOf(g, posted') /\ posted <= posted' /\ posted' \in 0..MaxPosts
  BY <1>1
<1>3. QED
  BY <1>1, <1>2, OnePageMoves

\* What is waited for is a write; so is what outlives its connection.
LEMMA RequestsAreWrites ==
    ASSUME QueueConstants, Shelved
    PROVE  /\ \A p \in Pages : pages[p].sent # NoWrite => pages[p].sent \in Writes
           /\ \A ps \in SUBSET Pages : \A left \in Outlives(ps) : left \subseteq Writes
           /\ Writes \subseteq Nat /\ posted \in Nat /\ MaxPosts \in Nat
           /\ posted \in 0..MaxPosts
<1>1. Writes \subseteq Nat /\ posted \in Nat /\ MaxPosts \in Nat /\ posted \in 0..MaxPosts
  BY DEF QueueConstants, Writes, Shelved, TypeOK
<1>2. \A p \in Pages : pages[p].sent # NoWrite => pages[p].sent \in Writes
  BY DEF Shelved, PageOf, Page
<1>3. ASSUME NEW ps \in SUBSET Pages, NEW left \in Outlives(ps)
      PROVE  left \subseteq Writes
  BY <1>2, <1>3 DEF Outlives
<1>4. QED
  BY <1>1, <1>2, <1>3

\* The server only knows, and only does, writes.
LEMMA AnswersWrites ==
    ASSUME TypeOK, NEW n \in Writes, NEW answer, Answers(n, answer)
    PROVE  done' \in Seq(Writes) /\ known' \subseteq Writes
<1>1. done \in Seq(Writes) /\ known \subseteq Writes
  BY DEF TypeOK
<1>2. Append(done, n) \in Seq(Writes)
  BY <1>1, AppendProperties
<1>3. QED
  BY <1>1, <1>2 DEF Answers, Done

\* The server leaves queues alone.
LEMMA ServeShelved ==
    ASSUME QueueConstants, Shelved, NEW p \in Pages, Serve(p)
    PROVE  Shelved'
<1>1. PICK answer \in {"ok", "refused"} :
         Answers(pages[p].sent, answer) /\ pages' = [pages EXCEPT ![p].answer = answer]
  BY DEF Serve
<1> DEFINE g == [pages[p] EXCEPT !.answer = answer]
<1>2. pages' = [pages EXCEPT ![p] = g] /\ pages[p].sent # NoWrite /\ PageOf(pages[p], posted)
  BY <1>1 DEF Serve, Shelved
<1>3. PageOf(g, posted)
  BY <1>2 DEF PageOf, Page
<1>4. done' \in Seq(Writes) /\ known' \subseteq Writes
  BY <1>1, <1>2, AnswersWrites, RequestsAreWrites DEF Shelved
<1> HIDE DEF g
<1>5. /\ pages' \in [Pages -> Page]
      /\ \A q \in Pages : PageOf(pages'[q], posted')
  BY <1>2, <1>3, OnePageMovesOn DEF Serve
<1>6. QED
  BY <1>4, <1>5 DEF Serve, Shelved, TypeOK, PageOf, QueueOf

\* So does a request it serves after its connection is gone.
LEMMA ServeLateShelved ==
    ASSUME QueueConstants, Shelved, NEW n \in late, ServeLate(n)
    PROVE  Shelved'
<1>1. n \in Writes
  BY DEF Shelved, TypeOK
<1>2. done' \in Seq(Writes) /\ known' \subseteq Writes
  BY <1>1, AnswersWrites DEF ServeLate, Shelved
<1>3. QED
  BY <1>2 DEF ServeLate, Shelved, TypeOK

\* A scan puts its write at the end of the page's queue and of the storage.
LEMMA PostShelved ==
    ASSUME QueueConstants, Shelved, Post
    PROVE  Shelved'
<1> DEFINE queue == Append(pages[current].queue, posted + 1)
           g == [pages[current] EXCEPT !.queue = queue]
<1>1. /\ current \in Pages /\ PageOf(pages[current], posted)
      /\ posted \in Nat /\ posted + 1 \in Writes /\ posted' = posted + 1
      /\ posted + 1 \in 0..MaxPosts
      /\ pages' = [pages EXCEPT ![current] = g] /\ stored' = queue
  BY RequestsAreWrites DEF Post, Shelved, TypeOK, Writes
<1>2. /\ QueueOf(queue, posted') /\ queue # <<>>
      /\ pages[current].queue # <<>> => Head(queue) = Head(pages[current].queue)
  BY <1>1, AppendToQueue DEF PageOf
<1>3. QueueOf(queue, posted') => queue \in Seq(Writes)
  BY DEF QueueOf
<1> HIDE DEF queue
<1>4. PageOf(g, posted')
  BY <1>1, <1>2, <1>3 DEF PageOf, Page
<1>5. g.queue = queue
  BY <1>1 DEF PageOf, Page
<1> HIDE DEF g
<1>6. /\ pages' \in [Pages -> Page]
      /\ \A q \in Pages : PageOf(pages'[q], posted')
  <2>1. MaxPosts \in Nat /\ posted <= posted' /\ posted' \in 0..MaxPosts
    BY <1>1, RequestsAreWrites
  <2>2. QED
    BY <1>1, <1>4, <2>1, OnePageMoves
<1>7. QED
  BY <1>1, <1>2, <1>6 DEF Post, server, Shelved, TypeOK, PageOf, QueueOf

\* A page sends the head of its queue.
LEMMA SendShelved ==
    ASSUME QueueConstants, Shelved, NEW p \in Pages, Send(p)
    PROVE  Shelved'
<1> DEFINE g == [pages[p] EXCEPT !.sent = Head(pages[p].queue), !.answer = "none"]
<1>1. /\ PageOf(pages[p], posted) /\ pages[p].queue # <<>>
      /\ pages' = [pages EXCEPT ![p] = g]
  BY DEF Send, Shelved
<1>2. Head(pages[p].queue) \in Writes
  BY <1>1, TailOfQueue, RequestsAreWrites DEF PageOf
<1>3. PageOf(g, posted)
  BY <1>1, <1>2 DEF PageOf, Page
<1> HIDE DEF g
<1>4. /\ pages' \in [Pages -> Page]
      /\ \A q \in Pages : PageOf(pages'[q], posted')
  BY <1>1, <1>3, OnePageMovesOn DEF Send
<1>5. QED
  BY <1>4 DEF Send, server, Shelved, TypeOK, PageOf, QueueOf

\* An answer takes the head off the page's queue, not off another page's.
LEMMA ReceiveShelved ==
    ASSUME QueueConstants, Shelved, NEW p \in Pages, Receive(p)
    PROVE  Shelved'
<1> DEFINE queue == Shifted(pages[p].queue, pages[p].answer)
           g == IF p # current /\ queue = <<>> THEN Gone ELSE Rest(queue)
<1>1. /\ PageOf(pages[p], posted) /\ pages[p].sent # NoWrite /\ pages[p].queue # <<>>
      /\ pages' = [pages EXCEPT ![p] = g] /\ stored' = queue
  BY DEF Receive, Shelved, PageOf
<1>2. QueueOf(queue, posted)
  BY <1>1, TailOfQueue, RequestsAreWrites DEF PageOf, Shifted
<1> HIDE DEF queue
<1>3. PageOf(g, posted)
  BY <1>2, RestingPage, RequestsAreWrites
<1>4. refused' \subseteq Writes
  BY <1>1, RequestsAreWrites DEF Receive, Shelved, TypeOK
<1> HIDE DEF g
<1>5. /\ pages' \in [Pages -> Page]
      /\ \A q \in Pages : PageOf(pages'[q], posted')
  BY <1>1, <1>3, OnePageMovesOn DEF Receive
<1>6. QED
  BY <1>1, <1>2, <1>4, <1>5 DEF Receive, server, Shelved, TypeOK, PageOf, QueueOf

\* A failure leaves the queue for later.
LEMMA FailShelved ==
    ASSUME QueueConstants, Shelved, NEW p \in Pages, Fail(p)
    PROVE  Shelved'
<1> DEFINE g == IF p = current THEN Rest(pages[p].queue) ELSE Gone
<1>1. PageOf(pages[p], posted) /\ pages' = [pages EXCEPT ![p] = g]
  BY DEF Fail, KeptByAFailure, Shelved
<1>2. PageOf(g, posted)
  BY <1>1, RestingPage, RequestsAreWrites DEF PageOf
<1>3. late' \subseteq Writes
  <2>1. {p} \in SUBSET Pages /\ late \subseteq Writes
    BY DEF Shelved, TypeOK
  <2>2. QED
    BY <2>1, RequestsAreWrites DEF Fail
<1>4. QueueOf(stored', posted)
  BY <1>1 DEF Fail, KeptByAFailure, Shelved, PageOf
<1> HIDE DEF g
<1>5. /\ pages' \in [Pages -> Page]
      /\ \A q \in Pages : PageOf(pages'[q], posted')
  BY <1>1, <1>2, OnePageMovesOn DEF Fail
<1>6. QED
  BY <1>3, <1>4, <1>5 DEF Fail, Shelved, TypeOK, PageOf, QueueOf

\* A reloaded page starts from the storage.
LEMMA ReloadShelved ==
    ASSUME QueueConstants, Shelved, ReloadPage
    PROVE  Shelved'
<1>1. \A p \in Pages : PageOf(pages'[p], posted)
  BY RestingPage, RequestsAreWrites DEF ReloadPage, Loaded, Shelved
<1>2. pages' \in [Pages -> Page]
  BY <1>1 DEF ReloadPage, PageOf
<1>3. late' \subseteq Writes
  <2>1. Pages \in SUBSET Pages /\ late \subseteq Writes
    BY DEF Shelved, TypeOK
  <2>2. QED
    BY <2>1, RequestsAreWrites DEF ReloadPage
<1>4. QED
  BY <1>1, <1>2, <1>3 DEF ReloadPage, Shelved, TypeOK, PageOf, QueueOf

\* So does a panel that is mounted again.
LEMMA RemountShelved ==
    ASSUME QueueConstants, Shelved, NEW p \in Pages, Remount(p)
    PROVE  Shelved'
<1>1. PageOf(Rest(stored), posted) /\ PageOf(Gone, posted)
  BY RestingPage, RequestsAreWrites DEF Shelved
<1>2. /\ pages \in [Pages -> Page] /\ \A q \in Pages : PageOf(pages[q], posted)
      /\ current \in Pages
  BY DEF Shelved, TypeOK
<1>3. \A q \in Pages : pages'[q] \in {pages[q], Rest(stored), Gone}
  BY <1>2 DEF Remount, Loaded
<1>4. \A q \in Pages : PageOf(pages'[q], posted)
  BY <1>1, <1>2, <1>3
<1>5. DOMAIN pages' = Pages
  BY <1>2 DEF Remount
<1>6. pages' \in [Pages -> Page]
  BY <1>2, <1>4, <1>5 DEF PageOf, Remount
<1>7. QED
  BY <1>4, <1>6 DEF Remount, server, Shelved, TypeOK, PageOf, QueueOf

\* The first page starts from empty storage.
LEMMA InitShelved ==
    ASSUME QueueConstants, Init
    PROVE  Shelved
<1>1. QueueOf(<<>>, posted) /\ posted \in Nat /\ posted \in 0..MaxPosts
  BY EmptySeq DEF Init, QueueOf, InOrder, QueueConstants
<1>2. \A p \in Pages : PageOf(pages[p], posted)
  BY <1>1, RestingPage DEF Init
<1>3. QED
  BY <1>1, <1>2, EmptySeq DEF Init, Shelved, TypeOK, PageOf, QueueOf

\* Every step keeps queues in the order of their posting.
LEMMA NextShelved ==
    ASSUME QueueConstants, Shelved, [Next]_vars
    PROVE  Shelved'
<1>1. CASE UNCHANGED vars
  BY <1>1 DEF vars, Shelved, TypeOK
<1>2. CASE Next
  BY <1>2, PostShelved, ReloadShelved, SendShelved, ServeShelved, ReceiveShelved,
     FailShelved, RemountShelved, ServeLateShelved DEF Next
<1>3. QED
  BY <1>1, <1>2

\* Queues hold writes in the order of their posting, on every page.
THEOREM ShelvedAlways == Spec => []Shelved
<1>1. Init => Shelved
  BY InitShelved, QueueConstants
<1>2. Shelved /\ [Next]_vars => Shelved'
  BY NextShelved, QueueConstants
<1>3. QED
  BY <1>1, <1>2, PTL DEF Spec

(* Queues, storage and server hold what they should, and every queue is in
   the order of the scans, whatever pages write over the same storage. *)
THEOREM TypeCorrect == Spec => []TypeOK
<1>1. Shelved => TypeOK
  BY DEF Shelved
<1>2. QED
  BY <1>1, ShelvedAlways, PTL

(* However many pages replay the same queue, and whatever requests come late,
   no write is done twice, as long as no removal makes the server forget. *)
THEOREM DoneOnce ==
    ASSUME Removals = {}
    PROVE  Spec => []NothingDoubled
<1>1. Init => KeysOfTheDone
  BY EmptySeq DEF Init, KeysOfTheDone, NothingDoubled, Values
<1>2. Shelved /\ KeysOfTheDone /\ [Next]_vars => KeysOfTheDone'
  <2> SUFFICES ASSUME Shelved, KeysOfTheDone, [Next]_vars PROVE KeysOfTheDone'
    OBVIOUS
  <2>1. ASSUME NEW p \in Pages, Serve(p) PROVE KeysOfTheDone'
    <3>1. pages[p].sent \in Nat
      BY <2>1, RequestsAreWrites, QueueConstants DEF Serve
    <3>2. QED
      BY <2>1, <3>1, AnswersOnce DEF Serve
  <2>2. ASSUME NEW n \in late, ServeLate(n) PROVE KeysOfTheDone'
    <3>1. n \in Nat
      BY RequestsAreWrites, QueueConstants DEF Shelved, TypeOK
    <3>2. QED
      BY <2>2, <3>1, AnswersOnce DEF ServeLate
  <2>3. CASE UNCHANGED <<known, done>>
    BY <2>3 DEF KeysOfTheDone, NothingDoubled, Values
  <2>4. QED
    BY <2>1, <2>2, <2>3
    DEF Next, vars, server, Post, ReloadPage, Send, Receive, Fail, Remount
<1>3. KeysOfTheDone => NothingDoubled
  BY DEF KeysOfTheDone
<1>4. QED
  BY <1>1, <1>2, <1>3, ShelvedAlways, PTL DEF Spec

(***************************************************************************)
(* One page, and requests that die with their connection                   *)
(***************************************************************************)
OnePage == Pages = {current} /\ Late = FALSE /\ Removals = {}

Queue == pages[current].queue

\* What was done comes before the queue, but for the head whose answer is out.
DoneBeforeTheQueue == Queue # <<>> => \A i \in DOMAIN done : done[i] <= Queue[1]

Alone ==
    /\ OnePage /\ Shelved /\ KeysOfTheDone
    /\ pages[current].alive /\ stored = Queue /\ late = {}
    /\ InOrder(done) /\ (\A i \in DOMAIN done : done[i] \in 1..posted)
    /\ DoneBeforeTheQueue
    /\ pages[current].answer = "ok" => pages[current].sent \in known
    /\ NothingLost

\* A write that is in the storage, or was done.
LEMMA LostNowhere ==
    NothingLost <=> 1..posted \subseteq refused \cup Values(done) \cup Values(stored)
BY DEF NothingLost, Values

\* The head of the queue, when it is out.
LEMMA HeadIsOut ==
    ASSUME QueueConstants, Alone, pages[current].sent # NoWrite
    PROVE  /\ current \in Pages /\ PageOf(pages[current], posted) /\ posted \in Nat
           /\ Queue # <<>> /\ QueueOf(Queue, posted)
           /\ pages[current].sent = Queue[1] /\ Queue[1] \in 1..posted
           /\ \A i \in DOMAIN done : done[i] <= Queue[1]
<1>1. current \in Pages /\ PageOf(pages[current], posted) /\ posted \in Nat
  BY DEF Alone, Shelved, TypeOK
<1>2. /\ Queue # <<>> /\ QueueOf(Queue, posted) /\ pages[current].sent = Head(Queue)
  BY <1>1 DEF PageOf, Queue
<1>3. Head(Queue) = Queue[1] /\ Head(Queue) \in Writes /\ 1 \in DOMAIN Queue
  BY <1>1, <1>2, TailOfQueue
<1>4. Queue[1] \in 1..posted
  BY <1>1, <1>2, <1>3 DEF QueueOf, Writes
<1>5. QED
  BY <1>1, <1>2, <1>3, <1>4 DEF Alone, DoneBeforeTheQueue

\* The server does the head: it comes after all that was done.
LEMMA ServesInOrder ==
    ASSUME QueueConstants, Alone, Serve(current)
    PROVE  Alone' /\ [Promise!Next]_<<posted, done>>
<1> DEFINE n == Queue[1]
<1>1. PICK answer \in {"ok", "refused"} :
         Answers(n, answer) /\ pages' = [pages EXCEPT ![current].answer = answer]
  BY HeadIsOut DEF Serve
<1>2. /\ current \in Pages /\ n \in 1..posted /\ posted \in Nat /\ Queue # <<>>
      /\ \A i \in DOMAIN done : done[i] <= n
      /\ pages[current].sent = n /\ QueueOf(Queue, posted)
  BY HeadIsOut DEF Serve
<1>3. UNCHANGED <<posted, current, stored, late, refused>>
  BY DEF Serve
<1>4. Shelved' /\ KeysOfTheDone' /\ OnePage'
  BY <1>1, <1>2, <1>3, ServeShelved, AnswersOnce DEF Alone, OnePage
<1>5. /\ Queue' = Queue /\ pages'[current].alive /\ pages'[current].sent = n
      /\ pages'[current].answer = answer
  <2>1. pages \in [Pages -> Page] /\ pages[current] \in Page
    BY <1>2 DEF Alone, Shelved, TypeOK
  <2>2. QED
    BY <1>1, <1>2, <1>3, <2>1 DEF Alone, Queue, Page
<1>6. CASE CanDo(n) /\ Done(n) /\ answer = "ok"
  <2>1. done \in Seq(Nat) /\ n \in Nat /\ n \notin Values(done) /\ done' = Append(done, n)
        /\ known' = Values(done')
    BY <1>2, <1>4, <1>6 DEF CanDo, Repeats, Done, Alone, KeysOfTheDone
  <2>2. /\ DOMAIN done' = 1..Len(done) + 1 /\ DOMAIN done = 1..Len(done)
        /\ Len(done) \in Nat /\ \A i \in DOMAIN done : done'[i] = done[i]
        /\ done'[Len(done) + 1] = n /\ Values(done') = Values(done) \cup {n}
    BY <2>1, OneMoreDone
  <2>3. \A i \in DOMAIN done : done[i] < n
    <3>1. \A i \in DOMAIN done : done[i] \in 1..posted /\ done[i] # n
      BY <2>1 DEF Alone, Values
    <3>2. QED
      BY <1>2, <3>1
  <2>4. InOrder(done')
    BY <2>2, <2>3 DEF InOrder, Alone
  <2>5. \A i \in DOMAIN done' : done'[i] \in 1..posted /\ done'[i] <= n
    BY <1>2, <2>2 DEF Alone
  <2>6. NothingLost'
    BY <1>3, <2>2, LostNowhere DEF Alone, NothingLost, Values
  <2>7. DoneBeforeTheQueue'
    BY <1>3, <1>5, <2>5 DEF DoneBeforeTheQueue
  <2>8. pages'[current].sent \in known'
    BY <1>5, <2>1, <2>2
  <2>9. Alone'
    BY <1>3, <1>4, <1>5, <2>4, <2>5, <2>6, <2>7, <2>8 DEF Alone
  <2>10. Promise!Do(n)
    BY <1>3, <2>1, <2>3 DEF Promise!Do
  <2>11. QED
    BY <1>2, <2>9, <2>10 DEF Promise!Next
<1>7. CASE UNCHANGED <<known, done>> /\ (answer = "ok" => Repeats(n))
  <2>1. NothingLost' /\ DoneBeforeTheQueue'
    BY <1>3, <1>5, <1>7 DEF Alone, NothingLost, DoneBeforeTheQueue
  <2>2. answer = "ok" => pages'[current].sent \in known'
    BY <1>5, <1>7 DEF Repeats
  <2>3. Alone'
    BY <1>3, <1>4, <1>5, <1>7, <2>1, <2>2 DEF Alone
  <2>4. QED
    BY <1>3, <1>7, <2>3
<1>8. QED
  BY <1>1, <1>6, <1>7 DEF Answers

\* The head goes once its answer is known, and with it nothing is lost.
LEMMA ReceivesLoseNothing ==
    ASSUME QueueConstants, Alone, Receive(current)
    PROVE  Alone'
<1>1. /\ pages[current].answer # "none" /\ stored' = Tail(Queue)
      /\ pages' = [pages EXCEPT ![current] = Rest(Tail(Queue))]
      /\ UNCHANGED <<posted, current, late, known, done>>
      /\ refused' = IF pages[current].answer = "refused"
                    THEN refused \cup {pages[current].sent} ELSE refused
  BY DEF Receive, Shifted, Queue, server
<1>2. /\ current \in Pages /\ posted \in Nat /\ Queue # <<>> /\ QueueOf(Queue, posted)
      /\ pages[current].sent = Queue[1] /\ Queue[1] \in 1..posted
      /\ \A i \in DOMAIN done : done[i] <= Queue[1]
  <2>1. pages[current].sent # NoWrite
    BY <1>1 DEF Alone, Shelved, PageOf, OnePage
  <2>2. QED
    BY <2>1, HeadIsOut
<1>3. Shelved'
  BY <1>2, ReceiveShelved DEF Alone
<1>4. KeysOfTheDone' /\ OnePage'
  BY <1>1 DEF Alone, KeysOfTheDone, OnePage, NothingDoubled, Values
<1>5. /\ Queue' = Tail(Queue) /\ pages'[current].alive /\ pages'[current].answer = "none"
  <2>1. pages'[current] = Rest(Tail(Queue))
    BY <1>1, <1>2 DEF Alone, Shelved, TypeOK
  <2>2. QED
    BY <1>1, <2>1 DEF Rest, Queue
<1>6. /\ DOMAIN Queue = 1..Len(Queue) /\ Len(Queue) \in Nat
      /\ DOMAIN Tail(Queue) = 1..Len(Queue) - 1
      /\ \A i \in DOMAIN Tail(Queue) : i + 1 \in DOMAIN Queue /\ Tail(Queue)[i] = Queue[i + 1]
      /\ 1 \in DOMAIN Queue /\ QueueOf(Tail(Queue), posted)
  BY <1>2, TailOfQueue
<1>7. DoneBeforeTheQueue'
  <2>1. SUFFICES ASSUME Tail(Queue) # <<>>, NEW i \in DOMAIN done
                 PROVE  done[i] <= Tail(Queue)[1]
    BY <1>1, <1>5 DEF DoneBeforeTheQueue
  <2>2. 1 \in DOMAIN Tail(Queue)
    BY <1>2, <1>6, <2>1, TailOfQueue
  <2>3. Tail(Queue)[1] = Queue[2] /\ 2 \in DOMAIN Queue
    BY <1>6, <2>2
  <2>4. Queue[1] < Queue[2]
    BY <1>2, <1>6, <2>3 DEF QueueOf, InOrder
  <2>5. Queue[1] \in Nat /\ Queue[2] \in Nat /\ done[i] \in Nat
    BY <1>2, <2>3, ElementOfSeq, LenProperties DEF QueueOf, Writes, Alone
  <2>6. QED
    BY <1>2, <2>3, <2>4, <2>5
<1>8. NothingLost'
  <2>1. Values(Queue) \subseteq Values(Tail(Queue)) \cup {Queue[1]}
    <3>1. \A i \in DOMAIN Queue : i = 1 \/ i - 1 \in DOMAIN Tail(Queue)
      BY <1>6
    <3>2. \A i \in DOMAIN Queue : i = 1 \/ Queue[i] = Tail(Queue)[i - 1]
      BY <1>6, <3>1
    <3>3. QED
      BY <3>1, <3>2 DEF Values
  <2>2. Queue[1] \in refused' \cup Values(done)
    <3>1. CASE pages[current].answer = "refused"
      BY <1>1, <1>2, <3>1
    <3>2. CASE pages[current].answer = "ok"
      BY <1>2, <3>2 DEF Alone, KeysOfTheDone
    <3>3. pages[current].answer \in {"ok", "refused"}
      BY <1>1, <1>2 DEF Alone, Shelved, TypeOK, Page
    <3>4. QED
      BY <3>1, <3>2, <3>3
  <2>3. 1..posted \subseteq refused \cup Values(done) \cup Values(Queue)
    BY LostNowhere DEF Alone
  <2>4. Values(done)' = Values(done) /\ Values(stored)' = Values(Tail(Queue))
    BY <1>1 DEF Values
  <2>5. refused \subseteq refused' /\ posted' = posted
    BY <1>1
  <2>6. (1..posted \subseteq refused \cup Values(done) \cup Values(stored))'
    BY <2>1, <2>2, <2>3, <2>4, <2>5
  <2>7. QED
    BY <2>6, LostNowhere DEF NothingLost, Values
<1>9. QED
  BY <1>1, <1>3, <1>4, <1>5, <1>7, <1>8 DEF Alone

\* A write that is posted comes last, and is in the storage.
LEMMA PostsLast ==
    ASSUME QueueConstants, Alone, Post
    PROVE  Alone' /\ Promise!Post
<1> DEFINE queue == Append(Queue, posted + 1)
<1>1. /\ posted' = posted + 1 /\ posted \in Nat /\ stored' = queue
      /\ pages' = [pages EXCEPT ![current].queue = queue]
      /\ UNCHANGED <<current, late, known, done, refused>>
      /\ current \in Pages /\ posted + 1 \in Writes
  BY RequestsAreWrites DEF Post, Queue, server, Alone, Shelved, TypeOK, Writes
<1>2. QueueOf(Queue, posted)
  BY <1>1 DEF Alone, Shelved, PageOf, Queue
<1>3. /\ QueueOf(queue, posted + 1) /\ queue # <<>>
      /\ DOMAIN queue = 1..Len(Queue) + 1 /\ DOMAIN Queue = 1..Len(Queue)
      /\ Len(Queue) \in Nat /\ \A i \in DOMAIN Queue : queue[i] = Queue[i]
      /\ queue[Len(Queue) + 1] = posted + 1
  BY <1>1, <1>2, AppendToQueue
<1> HIDE DEF queue
<1>4. Shelved'
  BY PostShelved DEF Alone
<1>5. KeysOfTheDone' /\ OnePage'
  BY <1>1 DEF Alone, KeysOfTheDone, OnePage, NothingDoubled, Values
<1>6. /\ Queue' = queue /\ pages'[current].alive
      /\ pages'[current].answer = pages[current].answer
      /\ pages'[current].sent = pages[current].sent
  <2>1. pages \in [Pages -> Page] /\ pages[current] \in Page
    BY <1>1 DEF Alone, Shelved, TypeOK
  <2>2. QED
    BY <1>1, <2>1 DEF Alone, Queue, Page
<1>7. DoneBeforeTheQueue'
  <2>1. SUFFICES ASSUME NEW i \in DOMAIN done PROVE done[i] <= queue[1]
    BY <1>1, <1>6 DEF DoneBeforeTheQueue
  <2>2. done[i] \in 1..posted
    BY DEF Alone
  <2>3. CASE Queue = <<>>
    <3>1. Len(Queue) = 0
      BY <2>3
    <3>2. QED
      BY <1>1, <1>3, <2>2, <3>1
  <2>4. CASE Queue # <<>>
    <3>1. 1 \in DOMAIN Queue
      BY <1>1, <1>2, <2>4, TailOfQueue
    <3>2. QED
      BY <1>3, <2>4, <3>1 DEF Alone, DoneBeforeTheQueue
  <2>5. QED
    BY <2>3, <2>4
<1>8. NothingLost'
  <2>1. Values(Queue) \subseteq Values(queue) /\ posted + 1 \in Values(queue)
    BY <1>3 DEF Values
  <2>2. 1..posted \subseteq refused \cup Values(done) \cup Values(Queue)
    BY LostNowhere DEF Alone
  <2>3. 1..(posted + 1) \subseteq refused \cup Values(done) \cup Values(queue)
    BY <1>1, <2>1, <2>2
  <2>4. QED
    BY <1>1, <2>3 DEF NothingLost, Values
<1>9. \A i \in DOMAIN done : done[i] \in 1..(posted + 1)
  BY <1>1 DEF Alone
<1>10. Alone'
  BY <1>1, <1>4, <1>5, <1>6, <1>7, <1>8, <1>9 DEF Alone
<1>11. QED
  BY <1>1, <1>10 DEF Promise!Post

\* Sending, failing, reloading: the queue stays, and so does what was done.
LEMMA QueueStays ==
    ASSUME Alone, Shelved', UNCHANGED <<posted, current, known, done, refused>>,
           stored' = Queue, late' = {},
           pages'[current].alive, pages'[current].queue = Queue,
           pages'[current].answer = "none"
    PROVE  Alone'
BY DEF Alone, OnePage, KeysOfTheDone, NothingDoubled, Values, DoneBeforeTheQueue,
       NothingLost, Queue

\* A page alone sends the oldest write that is not done.
LEMMA SendsTheHead ==
    ASSUME QueueConstants, Alone, Send(current)
    PROVE  Alone'
<1>1. current \in Pages /\ pages \in [Pages -> Page] /\ pages[current] \in Page
  BY DEF Alone, Shelved, TypeOK
<1>2. /\ pages'[current].alive /\ pages'[current].queue = Queue
      /\ pages'[current].answer = "none"
  BY <1>1 DEF Send, Alone, Queue, Page
<1>3. Shelved'
  BY <1>1, SendShelved DEF Alone
<1>4. QED
  BY <1>2, <1>3, QueueStays DEF Send, server, Alone

\* A failure loses nothing: the head is in the storage until it is answered.
LEMMA FailsKeepTheQueue ==
    ASSUME QueueConstants, Alone, Fail(current)
    PROVE  Alone'
<1>1. current \in Pages /\ pages \in [Pages -> Page]
  BY DEF Alone, Shelved, TypeOK
<1>2. pages'[current] = Rest(Queue) /\ stored' = Queue
  BY <1>1 DEF Fail, KeptByAFailure, Queue
<1>3. late' = {}
  BY DEF Fail, Outlives, Alone, OnePage
<1>4. Shelved'
  BY <1>1, FailShelved DEF Alone
<1>5. QED
  BY <1>2, <1>3, <1>4, QueueStays DEF Fail, Rest

\* A reload loses nothing: the page reads back the queue it wrote.
LEMMA ReloadsKeepTheQueue ==
    ASSUME QueueConstants, Alone, ReloadPage
    PROVE  Alone'
<1>1. current \in Pages
  BY DEF Alone, Shelved, TypeOK
<1>2. pages'[current] = Rest(Queue)
  BY <1>1 DEF ReloadPage, Loaded, Alone
<1>3. late' = {}
  BY DEF ReloadPage, Outlives, Alone, OnePage
<1>4. Shelved'
  BY ReloadShelved DEF Alone
<1>5. QED
  BY <1>2, <1>3, <1>4, QueueStays DEF ReloadPage, Rest, Alone

\* Every step of a page alone keeps the invariant and is a step of the promise.
LEMMA NextAlone ==
    ASSUME QueueConstants, Alone, [Next]_vars
    PROVE  Alone' /\ [Promise!Next]_<<posted, done>>
<1>1. CASE Post
  BY <1>1, PostsLast DEF Promise!Next
<1>2. CASE ReloadPage
  BY <1>2, ReloadsKeepTheQueue DEF ReloadPage
<1>3. ASSUME NEW p \in Pages, Send(p) \/ Serve(p) \/ Receive(p) \/ Fail(p) \/ Remount(p)
      PROVE  Alone' /\ [Promise!Next]_<<posted, done>>
  <2>1. p = current
    BY DEF Alone, OnePage
  <2>2. CASE Send(p)
    BY <2>1, <2>2, SendsTheHead DEF Send, server
  <2>3. CASE Serve(p)
    BY <2>1, <2>3, ServesInOrder
  <2>4. CASE Receive(p)
    BY <2>1, <2>4, ReceivesLoseNothing DEF Receive, server
  <2>5. CASE Fail(p)
    BY <2>1, <2>5, FailsKeepTheQueue DEF Fail
  <2>6. ~Remount(p)
    BY <2>1 DEF Remount, Alone
  <2>7. QED
    BY <1>3, <2>2, <2>3, <2>4, <2>5, <2>6
<1>4. ~\E n \in late : ServeLate(n)
  BY DEF Alone
<1>5. CASE UNCHANGED vars
  <2>1. Alone'
    BY <1>5 DEF vars, Alone, OnePage, Shelved, TypeOK, KeysOfTheDone, NothingDoubled,
       Values, DoneBeforeTheQueue, NothingLost, Queue
  <2>2. QED
    BY <1>5, <2>1 DEF vars
<1>6. QED
  BY <1>1, <1>2, <1>3, <1>4, <1>5 DEF Next

\* The first state is one of a page alone, and of the promise.
LEMMA InitAlone ==
    ASSUME QueueConstants, NEW p, Pages = {p}, Late = FALSE, Removals = {}, Init
    PROVE  Alone /\ Promise!Init
<1>1. Shelved /\ current = p
  BY InitShelved DEF Init
<1>2. pages[current] = Rest(<<>>)
  BY DEF Init
<1>3. Queue = <<>> /\ pages[current].alive /\ pages[current].answer = "none"
  BY <1>2 DEF Rest, Queue
<1>4. KeysOfTheDone /\ InOrder(done) /\ NothingLost
  BY EmptySeq DEF Init, KeysOfTheDone, NothingDoubled, Values, InOrder, NothingLost
<1>5. DoneBeforeTheQueue /\ \A i \in DOMAIN done : done[i] \in 1..posted
  BY <1>3, EmptySeq DEF Init, DoneBeforeTheQueue
<1>6. QED
  BY <1>1, <1>3, <1>4, <1>5 DEF Init, Alone, OnePage, Promise!Init

(* One page, however often it is reloaded and whatever answers are lost:
   nothing that was posted is lost, it is done, refused and said to be, or
   still in the storage. *)
THEOREM OnePageLosesNothing ==
    ASSUME NEW p, Pages = {p}, Late = FALSE, Removals = {}
    PROVE  Spec => []NothingLost
<1>1. Init => Alone
  BY InitAlone, QueueConstants
<1>2. Alone /\ [Next]_vars => Alone'
  BY NextAlone, QueueConstants
<1>3. Alone => NothingLost
  BY DEF Alone
<1>4. QED
  BY <1>1, <1>2, <1>3, PTL DEF Spec

(* And the queue implements the abstract outbox: each write is done at most
   once, in the order of the scans. *)
THEOREM OnePageKeepsThePromise ==
    ASSUME NEW p, Pages = {p}, Late = FALSE, Removals = {}
    PROVE  Spec => KeepsThePromise
<1>1. Init => Alone /\ Promise!Init
  BY InitAlone, QueueConstants
<1>2. Alone /\ [Next]_vars => Alone' /\ [Promise!Next]_<<posted, done>>
  BY NextAlone, QueueConstants
<1>3. QED
  BY <1>1, <1>2, PTL DEF Spec, KeepsThePromise, Promise!Spec

(***************************************************************************)
(* The handlers and the coordinator.  A call that wrote is past its last   *)
(* refusal, so only a reload can make it answer an error (`WritesKnown`),  *)
(* and a reload goes on to a loading whose calls are refused until its     *)
(* first refresh (`NotYetLoaded`).  Who refreshes at once waits for the    *)
(* refresh it began, and that refresh read after its write                 *)
(* (`RefreshesAwaited`).                                                   *)
(***************************************************************************)
\* What a handler may be: at least one place, each of them known.
Handler == Seq(Places) \ {<<>>}

\* Handlers follow one another.
LEMMA HandlersFollow ==
    ASSUME NEW s \in Handler, NEW t \in Handler
    PROVE  s \o t \in Handler
<1>1. /\ s \in Seq(Places) /\ t \in Seq(Places) /\ Len(s) \in Nat /\ Len(t) \in Nat
      /\ Len(s) # 0
  BY EmptySeq, LenProperties DEF Handler
<1>2. s \o t \in Seq(Places) /\ Len(s \o t) = Len(s) + Len(t)
  BY <1>1, ConcatProperties
<1>3. s \o t # <<>>
  BY <1>1, <1>2
<1>. QED
  BY <1>2, <1>3 DEF Handler

\* The shapes most handlers have.
LEMMA CommonHandlers ==
    /\ {Query, Pair, SilentWrite, Change, Looked, Told, Kept, AtOnce} \subseteq Handler
    /\ {<<"push">>, <<"answer">>, <<"refresh">>, <<"request", "answer">>, <<"request", "read">>}
         \subseteq Handler
BY DEF Query, Pair, SilentWrite, Change, Looked, Told, Kept, AtOnce, Handler, Places

\* The handlers made of others.
LEMMA ReadingHandlers ==
    PerformRead \subseteq Handler /\ ReadReceipt \subseteq Handler /\ PriceReads \subseteq Handler
<1>1. {Query, Pair, SilentWrite, <<"request", "read">>} \subseteq Handler
  BY CommonHandlers
<1>. HIDE DEF Handler
<1>2. PerformRead \subseteq Handler
  <2>1. Query \o SilentWrite \in Handler /\ Pair \o Query \in Handler
    BY <1>1, HandlersFollow
  <2>2. Pair \o Query \o SilentWrite \in Handler
    BY <1>1, <2>1, HandlersFollow
  <2>. QED
    BY <2>1, <2>2 DEF PerformRead
<1>3. ReadReceipt \subseteq Handler
  <2>1. ASSUME NEW reading \in PerformRead
        PROVE  Query \o reading \o <<"request", "read">> \in Handler
    <3>1. Query \o reading \in Handler
      BY <1>1, <1>2, HandlersFollow
    <3>. QED
      BY <1>1, <3>1, HandlersFollow
  <2>. QED
    BY <2>1 DEF ReadReceipt
<1>4. PriceReads \subseteq Handler
  BY <1>1, HandlersFollow DEF PriceReads
<1>. QED
  BY <1>2, <1>3, <1>4

\* Every handler of the tables is one.
LEMMA Handlers == Shapes \subseteq Handler
<1>. HIDE DEF Handler
<1>0. /\ {Query, Pair, SilentWrite, Change, Looked, Told, Kept, AtOnce} \subseteq Handler
      /\ {<<"push">>, <<"answer">>, <<"refresh">>, <<"request", "answer">>} \subseteq Handler
      /\ PerformRead \subseteq Handler /\ ReadReceipt \subseteq Handler
      /\ PriceReads \subseteq Handler
  BY CommonHandlers, ReadingHandlers
<1>1. ShapesOf(StockServices) \subseteq Handler
  BY <1>0, HandlersFollow DEF ShapesOf, StockServices
<1>2. ShapesOf(GrocyServices) \subseteq Handler
  BY <1>0, HandlersFollow DEF ShapesOf, GrocyServices
<1>3. ShapesOf(UpkeepServices) \subseteq Handler
  BY <1>0, HandlersFollow DEF ShapesOf, UpkeepServices
<1>4. ShapesOf(MealServices) \subseteq Handler
  BY <1>0, HandlersFollow DEF ShapesOf, MealServices
<1>5. ShapesOf(ListServices) \subseteq Handler
  <2>1. PICK S : S = {Query \o s : s \in ReadReceipt}
    OBVIOUS
  <2>2. ListServices =
          [add_to_shopping_list |-> {Change}, refresh_shopping_list |-> {Change},
           query_shopping_list |-> {Pair}, read_receipt |-> ReadReceipt \cup S,
           correct_movement |-> {Change}, correct_meal |-> {Change}]
    BY <2>1, Zenon DEF ListServices
  <2>3. \A s \in ReadReceipt : Query \o s \in Handler
    BY <1>0, HandlersFollow
  <2>4. S \subseteq Handler
    BY <2>1, <2>3
  <2>. QED
    BY <1>0, <2>2, <2>4 DEF ShapesOf
<1>6. ShapesOf(CatalogueReads) \subseteq Handler
  <2>1. PICK s : s = Pair \o Pair
    OBVIOUS
  <2>2. CatalogueReads =
          [products_list |-> {Query}, locations_list |-> {Query}, aisles_list |-> {Query},
           stores_list |-> {Query}, batches_list |-> {Query}, product_get |-> {s},
           movements_list |-> {Query}]
    BY <2>1, Zenon DEF CatalogueReads
  <2>3. s \in Handler
    BY <1>0, <2>1, HandlersFollow
  <2>. QED
    BY <1>0, <2>2, <2>3 DEF ShapesOf
<1>7. ShapesOf(Subscribe) \subseteq Handler
  BY <1>0, HandlersFollow DEF ShapesOf, Subscribe
<1>8. ShapesOf(LookupCommand) \subseteq Handler
  <2>1. PICK S : S = {Query, Pair} \cup {Pair \o reads : reads \in PriceReads}
    OBVIOUS
  <2>2. LookupCommand = [lookup |-> S]
    BY <2>1, Zenon DEF LookupCommand
  <2>3. \A reads \in PriceReads : Pair \o reads \in Handler
    BY <1>0, HandlersFollow
  <2>4. S \subseteq Handler
    BY <1>0, <2>1, <2>3
  <2>. QED
    BY <2>2, <2>4 DEF ShapesOf
<1>9. ShapesOf(ArticleCommands) \subseteq Handler
  BY <1>0, HandlersFollow DEF ShapesOf, ArticleCommands
<1>10. ShapesOf(ProductCommands) \subseteq Handler
  BY <1>0, HandlersFollow DEF ShapesOf, ProductCommands
<1>11. ShapesOf(JournalReads) \subseteq Handler
  BY <1>0, HandlersFollow DEF ShapesOf, JournalReads
<1>12. ShapesOf(AisleCommands) \subseteq Handler
  BY <1>0, HandlersFollow DEF ShapesOf, AisleCommands
<1>13. ShapesOf(TripCommands) \subseteq Handler
  BY <1>0, HandlersFollow DEF ShapesOf, TripCommands
<1>14. ShapesOf(CartCommands) \subseteq Handler
  BY <1>0, HandlersFollow DEF ShapesOf, CartCommands
<1>15. ShapesOf(MigrationCheck) \subseteq Handler
  BY <1>0, HandlersFollow DEF ShapesOf, MigrationCheck
<1>16. ShapesOf(ListCommands) \subseteq Handler
  BY <1>0, HandlersFollow DEF ShapesOf, ListCommands
<1>17. ShapesOf(RecurringCommands) \subseteq Handler
  BY <1>0, HandlersFollow DEF ShapesOf, RecurringCommands
<1>18. ShapesOf(StoreCommands) \subseteq Handler
  BY <1>0, HandlersFollow DEF ShapesOf, StoreCommands
<1>19. ShapesOf(CorrectionCommands) \subseteq Handler
  BY <1>0, HandlersFollow DEF ShapesOf, CorrectionCommands
<1>20. ShapesOf(StockCommands) \subseteq Handler
  BY <1>0, HandlersFollow DEF ShapesOf, StockCommands
<1>21. ShapesOf(RecipeCommands) \subseteq Handler
  BY <1>0, HandlersFollow DEF ShapesOf, RecipeCommands
<1>22. ShapesOf(RecipeSources) \subseteq Handler
  BY <1>0, HandlersFollow DEF ShapesOf, RecipeSources
<1>23. ShapesOf(MealCommands) \subseteq Handler
  BY <1>0, HandlersFollow DEF ShapesOf, MealCommands
<1>24. ShapesOf(BatteryCommands) \subseteq Handler
  BY <1>0, HandlersFollow DEF ShapesOf, BatteryCommands
<1>25. ShapesOf(EquipmentCommands) \subseteq Handler
  BY <1>0, HandlersFollow DEF ShapesOf, EquipmentCommands
<1>26. ShapesOf(ReceiptSubmit) \subseteq Handler
  <2>1. PICK S : S = {SilentWrite \o Query \o <<"request", "answer">>} \cup
              {SilentWrite \o Query \o reading \o <<"request", "answer">> : reading \in PerformRead}
    OBVIOUS
  <2>2. ReceiptSubmit = [receipt_submit |-> S]
    BY <2>1, Zenon DEF ReceiptSubmit
  <2>3. SilentWrite \o Query \in Handler
    BY <1>0, HandlersFollow
  <2>4. SilentWrite \o Query \o <<"request", "answer">> \in Handler
    BY <1>0, <2>3, HandlersFollow
  <2>5. \A reading \in PerformRead : SilentWrite \o Query \o reading \in Handler
    BY <1>0, <2>3, HandlersFollow
  <2>6. \A reading \in PerformRead :
           SilentWrite \o Query \o reading \o <<"request", "answer">> \in Handler
    BY <1>0, <2>5, HandlersFollow
  <2>7. S \subseteq Handler
    BY <2>1, <2>4, <2>6
  <2>. QED
    BY <2>2, <2>7 DEF ShapesOf
<1>27. ShapesOf(ReceiptCommands) \subseteq Handler
  <2>1. PICK S : S = {reading \o <<"request", "answer">> : reading \in PerformRead}
    OBVIOUS
  <2>2. PICK s : s = SilentWrite \o Query \o <<"answer">>
    OBVIOUS
  <2>3. ReceiptCommands =
          [receipt_get |-> {<<"answer">>}, receipt_list |-> {Query}, receipt_retry |-> S,
           receipt_discard |-> {Told}, receipt_line_match |-> {s}, receipt_apply |-> {Told}]
    BY <2>1, <2>2, Zenon DEF ReceiptCommands
  <2>4. SilentWrite \o Query \in Handler
    BY <1>0, HandlersFollow
  <2>5. s \in Handler
    BY <1>0, <2>2, <2>4, HandlersFollow
  <2>6. \A reading \in PerformRead : reading \o <<"request", "answer">> \in Handler
    BY <1>0, HandlersFollow
  <2>7. S \subseteq Handler
    BY <2>1, <2>6
  <2>. QED
    BY <1>0, <2>3, <2>5, <2>7 DEF ShapesOf
<1>28. ShapesOf(ProductServices) \subseteq Handler
  BY <1>0, HandlersFollow DEF ShapesOf, ProductServices
<1>29. ShapesOf(CorrectProduct) \subseteq Handler
  BY <1>0, HandlersFollow DEF ShapesOf, CorrectProduct
<1>30. ShapesOf(DeleteSurfaces) \subseteq Handler
  BY <1>0, HandlersFollow DEF ShapesOf, DeleteSurfaces
<1>31. ShapesOf(LineSurfaces) \subseteq Handler
  BY <1>0, HandlersFollow DEF ShapesOf, LineSurfaces
<1>32. ShapesOf(TodoExpirations) \subseteq Handler
  BY <1>0, HandlersFollow DEF ShapesOf, TodoExpirations
<1>33. ShapesOf(TodoSurfaces) \subseteq Handler
  <2>1. PICK s : s = Query \o AtOnce
    OBVIOUS
  <2>2. TodoSurfaces = [create_item |-> {s}, update_item |-> {AtOnce},
                        delete_items |-> {AtOnce}]
    BY <2>1, Zenon DEF TodoSurfaces
  <2>3. s \in Handler
    BY <1>0, <2>1, HandlersFollow
  <2>. QED
    BY <1>0, <2>2, <2>3 DEF ShapesOf
<1>. QED
  BY <1>1, <1>2, <1>3, <1>4, <1>5, <1>6, <1>7, <1>8, <1>9, <1>10, <1>11, <1>12, <1>13, <1>14,
     <1>15, <1>16, <1>17, <1>18, <1>19, <1>20, <1>21, <1>22, <1>23, <1>24, <1>25, <1>26, <1>27,
     <1>28, <1>29, <1>30, <1>31, <1>32, <1>33 DEF Shapes

\* The coordinator, and what the constants are.
DeskRow == [saw : SUBSET Calls, day : 0..MaxDay, cooling : BOOLEAN,
            again : BOOLEAN, rendezvous : 1..MaxDay + 1 \cup {Null}]

DeskAssumptions == DeskConstants /\ Null \notin Call /\ Null \notin Refresh

\* The shapes that refresh at once, and how far one of them is when its write
\* is, or is not, in the database.
AtOnceShapes == ShapesOf(LineSurfaces) \cup ShapesOf(TodoSurfaces)
OnItsWay(left, written) ==
    \/ ~written /\ left \in {<<"read", "write", "refresh">>, <<"write", "refresh">>, <<"read">>}
    \/ written /\ left \in {<<"refresh">>, <<"refreshing">>}

DeskTypes ==
    /\ entry \in {"up", "closing", "closed", "loading"}
    /\ load \in 1..MaxLoads /\ day \in 0..MaxDay /\ db \subseteq Calls
    /\ entry \in {"closing", "closed"} => load < MaxLoads
    /\ call \in [Calls -> Call \cup {Null}]
    /\ refreshes \in [Starters -> Refresh \cup {Null}] /\ desk \in DeskRow

\* A call knows the loading it began in, and has somewhere to go while it is open.
CallsUnderWay ==
    \A c \in Calls : call[c] # Null =>
        /\ call[c].load <= load
        /\ call[c].status = "open" => call[c].left # <<>>
        /\ (call[c].status = "open" /\ call[c].shape \in AtOnceShapes)
              => OnItsWay(call[c].left, c \in db)

\* Whoever began a refresh waits for it; if it had written, the refresh saw it.
RefreshesAwaited ==
    \A c \in Calls : refreshes[c] # Null =>
        /\ call[c] # Null /\ call[c].status = "open" /\ call[c].left = <<"refreshing">>
        /\ (refreshes[c].phase = "read" /\ c \in db) => c \in refreshes[c].saw

\* A call that wrote and answers an error was overtaken by a reload.
WritesKnown ==
    \A c \in db :
        /\ call[c] # Null
        /\ call[c].status = "error"
              => call[c].load # load \/ entry \in {"closing", "closed"}

\* While the entry is loading, the calls of that loading are refused.
NotYetLoaded ==
    entry = "loading" =>
        \A c \in Calls : (call[c] # Null /\ call[c].load = load)
                             => call[c].status = "error" /\ c \notin db

DeskInv == DeskTypes /\ CallsUnderWay /\ RefreshesAwaited /\ WritesKnown /\ NotYetLoaded

\* The shapes that refresh at once, one by one.
LEMMA AtOnceAre ==
    AtOnceShapes \subseteq {<<"write", "refresh">>, <<"read">>, <<"read", "write", "refresh">>}
<1>1. Query \o AtOnce = <<"read", "write", "refresh">>
  <2>. DEFINE s == <<"read">> \o <<"write", "refresh">>
              t == <<"read", "write", "refresh">>
  <2>1. /\ <<"read">> \in Seq(Places) /\ <<"write", "refresh">> \in Seq(Places)
        /\ t \in Seq(Places) /\ Len(t) = 3
        /\ t[1] = "read" /\ t[2] = "write" /\ t[3] = "refresh"
    BY DEF Places
  <2>2. /\ s \in Seq(Places) /\ Len(s) = 3
        /\ s[1] = "read" /\ s[2] = "write" /\ s[3] = "refresh"
    <3>1. PICK a, b : a = <<"read">> /\ b = <<"write", "refresh">>
      OBVIOUS
    <3>2. /\ a \in Seq(Places) /\ b \in Seq(Places) /\ Len(a) = 1 /\ Len(b) = 2
          /\ a[1] = "read" /\ b[1] = "write" /\ b[2] = "refresh"
      BY <2>1, <3>1
    <3>3. /\ a \o b \in Seq(Places) /\ Len(a \o b) = 3
          /\ \A i \in 1..3 : (a \o b)[i] = IF i <= 1 THEN a[i] ELSE b[i - 1]
      BY <3>2, ConcatProperties
    <3>4. (a \o b)[1] = "read" /\ (a \o b)[2] = "write" /\ (a \o b)[3] = "refresh"
      BY <3>2, <3>3
    <3>5. s = a \o b
      BY <3>1, Zenon
    <3>. QED
      BY <3>3, <3>4, <3>5
  <2>. HIDE DEF s, t
  <2>3. \A i \in 1..3 : i = 1 \/ i = 2 \/ i = 3
    OBVIOUS
  <2>4. \A i \in 1..Len(s) : s[i] = t[i]
    BY <2>1, <2>2, <2>3
  <2>5. s = t
    BY <2>1, <2>2, <2>4, SeqEqual
  <2>. QED
    BY <2>5, Zenon DEF s, t, Query, AtOnce
<1>2. PICK s : s = Query \o AtOnce
  OBVIOUS
<1>3. TodoSurfaces = [create_item |-> {s}, update_item |-> {AtOnce}, delete_items |-> {AtOnce}]
  BY <1>2, Zenon DEF TodoSurfaces
<1>4. ShapesOf(TodoSurfaces) \subseteq {s, AtOnce}
  BY <1>3 DEF ShapesOf
<1>5. ShapesOf(LineSurfaces) \subseteq {AtOnce, Query}
  BY DEF ShapesOf, LineSurfaces
<1>6. AtOnce = <<"write", "refresh">> /\ Query = <<"read">>
  BY DEF AtOnce, Query
<1>. QED
  BY <1>1, <1>2, <1>4, <1>5, <1>6 DEF AtOnceShapes

\* What a call is after the place it was at.
LEMMA AdvancedIs ==
    ASSUME DeskInv, NEW c \in Calls, call[c] # Null, call[c].left # <<>>
    PROVE  \E new \in Call :
             /\ Advanced(c) = [call EXCEPT ![c] = new]
             /\ new.shape = call[c].shape /\ new.load = call[c].load
             /\ new.left = Tail(call[c].left)
             /\ \/ Len(call[c].left) = 1 /\ new.status = "ok"
                \/ Len(call[c].left) # 1 /\ new.status = call[c].status /\ new.left # <<>>
<1>. DEFINE row == call[c]
            new == [row EXCEPT !.left = Tail(@), !.running = FALSE,
                               !.status = IF Len(row.left) = 1 THEN "ok" ELSE @]
<1>1. call \in [Calls -> Call \cup {Null}] /\ row \in Call
  BY DEF DeskInv, DeskTypes
<1>2. Advanced(c) = [call EXCEPT ![c] = new]
  BY <1>1 DEF Advanced
<1>3. row.left \in Seq(Places) /\ row.left # <<>>
  BY <1>1 DEF Call
<1>4. Tail(row.left) \in Seq(Places) /\ Len(Tail(row.left)) = Len(row.left) - 1
      /\ Len(row.left) \in Nat
  BY <1>3, HeadTailProperties, LenProperties
<1>5. /\ new \in Call /\ new.shape = row.shape /\ new.load = row.load
      /\ new.left = Tail(row.left)
      /\ new.status = IF Len(row.left) = 1 THEN "ok" ELSE row.status
  <2>. HIDE DEF Places, Shapes
  <2>. QED
    BY <1>1, <1>4 DEF Call
<1>6. Len(row.left) # 1 => Tail(row.left) # <<>>
  <2>. DEFINE rest == Tail(row.left)
              n    == Len(row.left)
  <2>1. Len(rest) = n - 1 /\ n \in Nat
    BY <1>4
  <2>. HIDE DEF rest, n
  <2>2. Len(<<>>) = 0
    OBVIOUS
  <2>3. n # 1 => rest # <<>>
    BY <2>1, <2>2
  <2>. QED
    BY <2>3 DEF rest, n
<1>. QED
  BY <1>2, <1>5, <1>6

\* A call that fails stays where it is.
LEMMA FailedIs ==
    ASSUME DeskInv, NEW c \in Calls, call[c] # Null
    PROVE  \E new \in Call :
             /\ Failed(c) = [call EXCEPT ![c] = new]
             /\ new.shape = call[c].shape /\ new.load = call[c].load
             /\ new.left = call[c].left /\ new.status = "error"
<1>. DEFINE row == call[c]
            new == [row EXCEPT !.status = "error", !.running = FALSE]
<1>1. call \in [Calls -> Call \cup {Null}] /\ row \in Call
  BY DEF DeskInv, DeskTypes
<1>2. Failed(c) = [call EXCEPT ![c] = new]
  BY <1>1 DEF Failed
<1>3. /\ new \in Call /\ new.shape = row.shape /\ new.load = row.load
      /\ new.left = row.left /\ new.status = "error"
  BY <1>1 DEF Call
<1>. QED
  BY <1>2, <1>3

\* A request for a refresh begins the one that was asked for, or none.
LEMMA AskingIs ==
    ASSUME DeskAssumptions, DeskInv, AskRefresh
    PROVE  /\ refreshes' \in [Starters -> Refresh \cup {Null}] /\ desk' \in DeskRow
           /\ \A c \in Calls : refreshes'[c] = refreshes[c]
<1>1. /\ refreshes \in [Starters -> Refresh \cup {Null}] /\ desk \in DeskRow
      /\ Due \in Refresh
  BY DEF DeskInv, DeskTypes, Due, Refresh, DeskAssumptions, DeskConstants
<1>2. desk' \in DeskRow
  BY <1>1 DEF AskRefresh, DeskRow
<1>3. refreshes' \in [Starters -> Refresh \cup {Null}]
  BY <1>1 DEF AskRefresh, Begun
<1>4. \A c \in Calls : c # "asked" /\ c \in Starters
  BY DEF DeskAssumptions, DeskConstants, Starters
<1>. QED
  BY <1>1, <1>2, <1>3, <1>4 DEF AskRefresh, Begun

\* One open call moves, with no refresh of its own.
LEMMA CallMoves ==
    ASSUME DeskAssumptions, DeskInv, NEW c \in Calls, NEW new \in Call,
           call[c] # Null, call[c].status = "open", refreshes[c] = Null,
           call' = [call EXCEPT ![c] = new],
           new.shape = call[c].shape, new.load = call[c].load,
           new.status = "open" => new.left # <<>>,
           (new.status = "open" /\ new.shape \in AtOnceShapes) => OnItsWay(new.left, c \in db'),
           db' = db \/ db' = db \cup {c},
           (c \in db' /\ new.status = "error") => new.load # load \/ entry \in {"closing", "closed"},
           refreshes' \in [Starters -> Refresh \cup {Null}], desk' \in DeskRow,
           \A d \in Calls \ {c} : refreshes'[d] = refreshes[d],
           refreshes'[c] # Null => /\ new.status = "open" /\ new.left = <<"refreshing">>
                                  /\ refreshes'[c].phase = "due",
           UNCHANGED <<entry, load, day>>
    PROVE  DeskInv'
<1>1. /\ call \in [Calls -> Call \cup {Null}] /\ db \subseteq Calls /\ new # Null
      /\ call' \in [Calls -> Call \cup {Null}] /\ call'[c] = new
      /\ \A d \in Calls \ {c} : call'[d] = call[d] /\ (d \in db' <=> d \in db)
  BY DEF DeskInv, DeskTypes, DeskAssumptions
<1>2. DeskTypes'
  BY <1>1 DEF DeskInv, DeskTypes
<1>3. CallsUnderWay'
  <2>1. call[c].load <= load
    BY DEF DeskInv, CallsUnderWay
  <2>2. SUFFICES ASSUME NEW d \in Calls, call'[d] # Null
                 PROVE  /\ call'[d].load <= load
                        /\ call'[d].status = "open" => call'[d].left # <<>>
                        /\ (call'[d].status = "open" /\ call'[d].shape \in AtOnceShapes)
                              => OnItsWay(call'[d].left, d \in db')
    BY DEF CallsUnderWay
  <2>3. CASE d = c
    BY <1>1, <2>1, <2>3
  <2>4. CASE d # c
    BY <1>1, <2>2, <2>4 DEF DeskInv, CallsUnderWay
  <2>. QED
    BY <2>3, <2>4
<1>4. RefreshesAwaited'
  BY <1>1 DEF DeskInv, RefreshesAwaited
<1>5. WritesKnown'
  BY <1>1 DEF DeskInv, WritesKnown
<1>6. NotYetLoaded'
  BY <1>1 DEF DeskInv, NotYetLoaded
<1>. QED
  BY <1>2, <1>3, <1>4, <1>5, <1>6 DEF DeskInv

\* What a call at a place is.
LEMMA AtPlace ==
    ASSUME DeskAssumptions, DeskInv, NEW c \in Calls, NEW place, place # "refreshing", At(c, place)
    PROVE  /\ call[c] \in Call /\ call[c] # Null /\ call[c].status = "open"
           /\ call[c].left # <<>> /\ Head(call[c].left) = place /\ refreshes[c] = Null
           /\ call[c].shape \in AtOnceShapes =>
                  \/ /\ c \notin db
                     /\ \/ place = "read" /\ call[c].left = <<"read", "write", "refresh">>
                        \/ place = "read" /\ call[c].left = <<"read">>
                        \/ place = "write" /\ call[c].left = <<"write", "refresh">>
                  \/ c \in db /\ place = "refresh" /\ call[c].left = <<"refresh">>
<1>1. /\ call[c] \in Call /\ call[c] # Null /\ call[c].status = "open"
      /\ call[c].left # <<>> /\ Head(call[c].left) = place
  BY DEF At, DeskInv, DeskTypes, CallsUnderWay
<1>2. Head(<<"refreshing">>) = "refreshing" /\ Head(<<"refresh">>) = "refresh"
      /\ Head(<<"read">>) = "read" /\ Head(<<"write", "refresh">>) = "write"
      /\ Head(<<"read", "write", "refresh">>) = "read"
  OBVIOUS
<1>3. refreshes[c] = Null
  BY <1>1, <1>2 DEF DeskInv, RefreshesAwaited
<1>4. call[c].shape \in AtOnceShapes => OnItsWay(call[c].left, c \in db)
  BY <1>1 DEF DeskInv, CallsUnderWay
<1>. QED
  BY <1>1, <1>2, <1>3, <1>4 DEF OnItsWay

\* A job that fails met a database that was closed, or has written nothing.
LEMMA FailureKeeps ==
    ASSUME DeskAssumptions, DeskInv, NEW c \in Calls,
           call[c] # Null, call[c].status = "open", refreshes[c] = Null, call' = Failed(c),
           ~DatabaseOpen(call[c].load) \/ c \notin db,
           refreshes' \in [Starters -> Refresh \cup {Null}], desk' \in DeskRow,
           UNCHANGED <<entry, load, day, db, refreshes, desk>>
    PROVE  DeskInv'
<1>1. PICK new \in Call :
        /\ call' = [call EXCEPT ![c] = new]
        /\ new.shape = call[c].shape /\ new.load = call[c].load
        /\ new.left = call[c].left /\ new.status = "error"
  BY FailedIs
<1>2. c \in db => new.load # load \/ entry \in {"closing", "closed"}
  BY <1>1 DEF DatabaseOpen
<1>. QED
  BY <1>1, <1>2, CallMoves

\* A job that reads.
LEMMA ReadKeeps ==
    ASSUME DeskAssumptions, DeskInv, NEW c \in Calls, Read(c)
    PROVE  DeskInv'
<1>1. /\ call[c] \in Call /\ call[c] # Null /\ call[c].status = "open"
      /\ call[c].left # <<>> /\ refreshes[c] = Null
      /\ call[c].shape \in AtOnceShapes =>
             c \notin db /\ call[c].left \in {<<"read", "write", "refresh">>, <<"read">>}
      /\ UNCHANGED <<entry, load, day, db, refreshes, desk>>
  BY AtPlace DEF Read
<1>2. refreshes' \in [Starters -> Refresh \cup {Null}] /\ desk' \in DeskRow
  BY <1>1 DEF DeskInv, DeskTypes
<1>3. CASE call' = Advanced(c)
  <2>1. PICK new \in Call :
          /\ call' = [call EXCEPT ![c] = new]
          /\ new.shape = call[c].shape /\ new.load = call[c].load
          /\ new.left = Tail(call[c].left)
          /\ \/ Len(call[c].left) = 1 /\ new.status = "ok"
             \/ Len(call[c].left) # 1 /\ new.status = call[c].status /\ new.left # <<>>
    BY <1>1, <1>3, AdvancedIs
  <2>2. /\ Tail(<<"read", "write", "refresh">>) = <<"write", "refresh">>
        /\ Len(<<"read">>) = 1
    OBVIOUS
  <2>3. (new.status = "open" /\ new.shape \in AtOnceShapes) => OnItsWay(new.left, c \in db')
    BY <1>1, <2>1, <2>2 DEF OnItsWay
  <2>. QED
    BY <1>1, <1>2, <2>1, <2>3, CallMoves
<1>4. ASSUME call' = Failed(c), ~DatabaseOpen(call[c].load) \/ c \notin db
      PROVE  DeskInv'
  BY <1>1, <1>2, <1>4, FailureKeeps
<1>. QED
  BY <1>3, <1>4 DEF Read, MayRefuse

\* A transaction begins, ends, or is rolled back.
LEMMA WriteKeeps ==
    ASSUME DeskAssumptions, DeskInv, NEW c \in Calls, BeginWrite(c) \/ Commit(c) \/ RuleRefuses(c)
    PROVE  DeskInv'
<1>1. /\ call[c] \in Call /\ call[c] # Null /\ call[c].status = "open"
      /\ call[c].left # <<>> /\ refreshes[c] = Null
      /\ call[c].shape \in AtOnceShapes => c \notin db /\ call[c].left = <<"write", "refresh">>
      /\ UNCHANGED <<entry, load, day, refreshes, desk>>
  BY AtPlace DEF BeginWrite, Commit, RuleRefuses
<1>2. refreshes' \in [Starters -> Refresh \cup {Null}] /\ desk' \in DeskRow
  BY <1>1 DEF DeskInv, DeskTypes
<1>3. CASE Commit(c)
  <2>1. call' = Advanced(c) /\ db' = db \cup {c}
    BY <1>3 DEF Commit
  <2>2. PICK new \in Call :
          /\ call' = [call EXCEPT ![c] = new]
          /\ new.shape = call[c].shape /\ new.load = call[c].load
          /\ new.left = Tail(call[c].left)
          /\ \/ Len(call[c].left) = 1 /\ new.status = "ok"
             \/ Len(call[c].left) # 1 /\ new.status = call[c].status /\ new.left # <<>>
    BY <1>1, <2>1, AdvancedIs
  <2>3. Tail(<<"write", "refresh">>) = <<"refresh">>
    OBVIOUS
  <2>4. (new.status = "open" /\ new.shape \in AtOnceShapes) => OnItsWay(new.left, c \in db')
    BY <1>1, <2>1, <2>2, <2>3 DEF OnItsWay
  <2>. QED
    BY <1>1, <1>2, <2>1, <2>2, <2>4, CallMoves
<1>4. CASE db' = db /\ call' = [call EXCEPT ![c].running = TRUE]
  <2>. DEFINE new == [call[c] EXCEPT !.running = TRUE]
  <2>1. /\ new \in Call /\ new.shape = call[c].shape /\ new.load = call[c].load
        /\ new.left = call[c].left /\ new.status = call[c].status
    BY <1>1 DEF Call
  <2>2. call' = [call EXCEPT ![c] = new]
    BY <1>4 DEF DeskInv, DeskTypes
  <2>. HIDE DEF new
  <2>3. (new.status = "open" /\ new.shape \in AtOnceShapes) => OnItsWay(new.left, c \in db')
    BY <1>1, <1>4, <2>1 DEF OnItsWay
  <2>. QED
    BY <1>1, <1>2, <1>4, <2>1, <2>2, <2>3, CallMoves
<1>5. ASSUME db' = db, call' = Failed(c), ~DatabaseOpen(call[c].load) \/ c \notin db
      PROVE  DeskInv'
  BY <1>1, <1>2, <1>5, FailureKeeps
<1>. QED
  BY <1>3, <1>4, <1>5 DEF BeginWrite, RuleRefuses

\* A request, awaited or not, and the wait for the refresh it began.
LEMMA RequestKeeps ==
    ASSUME DeskAssumptions, DeskInv, NEW c \in Calls, Request(c) \/ Waited(c) \/ Push(c)
    PROVE  DeskInv'
<1>1. /\ call[c] \in Call /\ call[c] # Null /\ call[c].status = "open"
      /\ call[c].left # <<>> /\ refreshes[c] = Null /\ call[c].shape \notin AtOnceShapes
      /\ UNCHANGED <<entry, load, day, db>>
  BY AtPlace DEF Request, Waited, Push
<1>2. /\ refreshes' \in [Starters -> Refresh \cup {Null}] /\ desk' \in DeskRow
      /\ \A d \in Calls : refreshes'[d] = refreshes[d]
  <2>1. CASE AskRefresh
    BY <2>1, AskingIs
  <2>2. CASE UNCHANGED <<refreshes, desk>>
    BY <2>2 DEF DeskInv, DeskTypes
  <2>. QED
    BY <2>1, <2>2 DEF Request, Waited, Push
<1>3. CASE call' = Advanced(c)
  <2>1. PICK new \in Call :
          /\ call' = [call EXCEPT ![c] = new]
          /\ new.shape = call[c].shape /\ new.load = call[c].load
          /\ new.left = Tail(call[c].left)
          /\ \/ Len(call[c].left) = 1 /\ new.status = "ok"
             \/ Len(call[c].left) # 1 /\ new.status = call[c].status /\ new.left # <<>>
    BY <1>1, <1>3, AdvancedIs
  <2>. QED
    BY <1>1, <1>2, <2>1, CallMoves
<1>4. CASE call' = [call EXCEPT ![c].left = <<"wait">> \o Tail(@)]
  <2>. DEFINE left == <<"wait">> \o Tail(call[c].left)
              new == [call[c] EXCEPT !.left = left]
  <2>1. left \in Handler
    <3>1. call[c].left \in Seq(Places) /\ <<"wait">> \in Seq(Places) /\ Len(<<"wait">>) = 1
      BY <1>1 DEF Call, Places
    <3>2. Tail(call[c].left) \in Seq(Places)
      BY <1>1, <3>1, HeadTailProperties
    <3>3. left \in Seq(Places) /\ Len(left) = 1 + Len(Tail(call[c].left))
      BY <3>1, <3>2, ConcatProperties
    <3>4. Len(Tail(call[c].left)) \in Nat
      BY <3>2, LenProperties
    <3>. HIDE DEF left
    <3>5. left # <<>>
      BY <3>3, <3>4
    <3>. QED
      BY <3>3, <3>5 DEF Handler
  <2>2. call' = [call EXCEPT ![c] = new]
    BY <1>4 DEF DeskInv, DeskTypes
  <2>. HIDE DEF left
  <2>3. /\ new \in Call /\ new.shape = call[c].shape /\ new.load = call[c].load
        /\ new.left # <<>> /\ new.status = call[c].status
    BY <1>1, <2>1 DEF Call, Handler
  <2>. HIDE DEF new
  <2>. QED
    BY <1>1, <1>2, <2>2, <2>3, CallMoves
<1>. QED
  BY <1>3, <1>4 DEF Request, Waited, Push

\* A handler that refreshes at once begins its refresh.
LEMMA RefreshAtOnceKeeps ==
    ASSUME DeskAssumptions, DeskInv, NEW c \in Calls, RefreshAtOnce(c)
    PROVE  DeskInv'
<1>1. /\ call[c] \in Call /\ call[c] # Null /\ call[c].status = "open"
      /\ call[c].left # <<>> /\ refreshes[c] = Null
      /\ call[c].shape \in AtOnceShapes => c \in db /\ call[c].left = <<"refresh">>
      /\ UNCHANGED <<entry, load, day, db>>
  BY AtPlace DEF RefreshAtOnce
<1>2. refreshes \in [Starters -> Refresh \cup {Null}] /\ desk \in DeskRow
  BY DEF DeskInv, DeskTypes
<1>3. CASE call[c].load = load
  <2>. DEFINE new == [call[c] EXCEPT !.left = <<"refreshing">>]
  <2>1. /\ refreshes' = [refreshes EXCEPT ![c] = Due]
        /\ desk' = [desk EXCEPT !.cooling = FALSE, !.again = FALSE]
        /\ call' = [call EXCEPT ![c] = new]
    BY <1>3 DEF RefreshAtOnce, Begun, TimerStopped, DeskInv, DeskTypes
  <2>2. /\ new \in Call /\ new.shape = call[c].shape /\ new.load = call[c].load
        /\ new.left = <<"refreshing">> /\ new.status = call[c].status
    <3>1. <<"refreshing">> \in Seq(Places)
      BY DEF Places
    <3>. QED
      BY <1>1, <3>1 DEF Call
  <2>. HIDE DEF new
  <2>3. Due \in Refresh /\ Due.phase = "due" /\ c \in Starters
    BY DEF Due, Refresh, Starters, DeskAssumptions, DeskConstants
  <2>4. refreshes' \in [Starters -> Refresh \cup {Null}] /\ refreshes'[c] = Due
        /\ \A d \in Calls \ {c} : refreshes'[d] = refreshes[d]
    BY <1>2, <2>1, <2>3 DEF Starters
  <2>5. desk' \in DeskRow
    BY <1>2, <2>1 DEF DeskRow
  <2>6. new.shape \in AtOnceShapes => OnItsWay(new.left, c \in db')
    BY <1>1, <2>2 DEF OnItsWay
  <2>7. <<"refreshing">> # <<>>
    OBVIOUS
  <2>. QED
    BY <1>1, <2>1, <2>2, <2>3, <2>4, <2>5, <2>6, <2>7, CallMoves
<1>4. CASE call' = Advanced(c) /\ UNCHANGED <<refreshes, desk>>
  <2>1. PICK new \in Call :
          /\ call' = [call EXCEPT ![c] = new]
          /\ new.shape = call[c].shape /\ new.load = call[c].load
          /\ new.left = Tail(call[c].left)
          /\ \/ Len(call[c].left) = 1 /\ new.status = "ok"
             \/ Len(call[c].left) # 1 /\ new.status = call[c].status /\ new.left # <<>>
    BY <1>1, <1>4, AdvancedIs
  <2>2. Len(<<"refresh">>) = 1
    OBVIOUS
  <2>3. ~(new.status = "open" /\ new.shape \in AtOnceShapes)
    BY <1>1, <2>1, <2>2
  <2>. QED
    BY <1>1, <1>2, <1>4, <2>1, <2>3, CallMoves
<1>. QED
  BY <1>3, <1>4 DEF RefreshAtOnce

\* An answer that is read again: when the entry is not up, a reload overtook it.
LEMMA ReadBackKeeps ==
    ASSUME DeskAssumptions, DeskInv, NEW c \in Calls, ReadBack(c)
    PROVE  DeskInv'
<1>1. /\ call[c] \in Call /\ call[c] # Null /\ call[c].status = "open"
      /\ call[c].left # <<>> /\ refreshes[c] = Null /\ call[c].shape \notin AtOnceShapes
      /\ UNCHANGED <<entry, load, day, db, refreshes, desk>>
  BY AtPlace DEF ReadBack
<1>2. /\ refreshes' \in [Starters -> Refresh \cup {Null}] /\ desk' \in DeskRow
  BY <1>1 DEF DeskInv, DeskTypes
<1>3. CASE call' = Advanced(c)
  <2>1. PICK new \in Call :
          /\ call' = [call EXCEPT ![c] = new]
          /\ new.shape = call[c].shape /\ new.load = call[c].load
          /\ new.left = Tail(call[c].left)
          /\ \/ Len(call[c].left) = 1 /\ new.status = "ok"
             \/ Len(call[c].left) # 1 /\ new.status = call[c].status /\ new.left # <<>>
    BY <1>1, <1>3, AdvancedIs
  <2>. QED
    BY <1>1, <1>2, <2>1, CallMoves
<1>4. CASE entry # "up" /\ call' = Failed(c)
  <2>1. entry = "loading" => call[c].load # load
    BY <1>1 DEF DeskInv, NotYetLoaded
  <2>2. call[c].load # load \/ entry \in {"closing", "closed"}
    BY <1>4, <2>1 DEF DeskInv, DeskTypes
  <2>3. PICK new \in Call :
          /\ call' = [call EXCEPT ![c] = new]
          /\ new.shape = call[c].shape /\ new.load = call[c].load
          /\ new.left = call[c].left /\ new.status = "error"
    BY <1>1, <1>4, FailedIs
  <2>. QED
    BY <1>1, <1>2, <2>2, <2>3, CallMoves
<1>. QED
  BY <1>3, <1>4 DEF ReadBack

\* A call begins with its whole handler before it, or is refused at once.
LEMMA BeginKeeps ==
    ASSUME DeskAssumptions, DeskInv, NEW c \in Calls, Begin(c)
    PROVE  DeskInv'
<1>1. PICK shape \in Shapes :
         call' = [call EXCEPT ![c] = [shape |-> shape, left |-> shape, load |-> load,
                                      running |-> FALSE,
                                      status |-> IF entry = "up" THEN "open" ELSE "error"]]
  BY DEF Begin
<1>. DEFINE new == [shape |-> shape, left |-> shape, load |-> load, running |-> FALSE,
                    status |-> IF entry = "up" THEN "open" ELSE "error"]
<1>2. call[c] = Null /\ UNCHANGED <<entry, load, day, db, refreshes, desk>>
  BY DEF Begin
<1>3. shape \in Seq(Places) /\ shape # <<>>
  BY Handlers DEF Handler
<1>4. load \in 1..MaxLoads /\ call \in [Calls -> Call \cup {Null}] /\ load <= load
  BY DEF DeskInv, DeskTypes, DeskAssumptions, DeskConstants
<1>5. /\ new \in Call /\ new.shape = shape /\ new.left = shape /\ new.load = load
      /\ new.status = IF entry = "up" THEN "open" ELSE "error"
  <2>. HIDE DEF Shapes, Places
  <2>. QED
    BY <1>3, <1>4 DEF Call
<1>. HIDE DEF new, Shapes
<1>6. /\ call' \in [Calls -> Call \cup {Null}] /\ call'[c] = new
      /\ \A d \in Calls \ {c} : call'[d] = call[d]
  BY <1>1, <1>4, <1>5 DEF new
<1>7. c \notin db /\ refreshes[c] = Null
  BY <1>2 DEF DeskInv, WritesKnown, RefreshesAwaited
<1>8. shape \in AtOnceShapes => OnItsWay(shape, c \in db)
  BY <1>7, AtOnceAre DEF OnItsWay
<1>9. DeskTypes'
  BY <1>2, <1>6 DEF DeskInv, DeskTypes
<1>10. CallsUnderWay'
  BY <1>2, <1>3, <1>4, <1>5, <1>6, <1>8 DEF DeskInv, CallsUnderWay
<1>11. RefreshesAwaited'
  BY <1>2, <1>6, <1>7 DEF DeskInv, RefreshesAwaited
<1>12. WritesKnown'
  BY <1>2, <1>6, <1>7 DEF DeskInv, WritesKnown, DeskTypes
<1>13. NotYetLoaded'
  BY <1>2, <1>5, <1>6, <1>7 DEF DeskInv, NotYetLoaded
<1>. QED
  BY <1>9, <1>10, <1>11, <1>12, <1>13 DEF DeskInv

\* What the coordinator begins or reads, no call having moved.
LEMMA RefreshesMove ==
    ASSUME DeskAssumptions, DeskInv,
           refreshes' \in [Starters -> Refresh \cup {Null}], desk' \in DeskRow,
           day' \in 0..MaxDay,
           \A c \in Calls : \/ refreshes'[c] = refreshes[c]
                            \/ refreshes[c] # Null /\ refreshes'[c].saw = db,
           UNCHANGED <<entry, load, db, call>>
    PROVE  DeskInv'
<1>1. DeskTypes'
  BY DEF DeskInv, DeskTypes
<1>2. RefreshesAwaited'
  BY DEF DeskInv, RefreshesAwaited
<1>. QED
  BY <1>1, <1>2 DEF DeskInv, CallsUnderWay, WritesKnown, NotYetLoaded

\* The timers of the coordinator, the days, and the first reads of a refresh.
LEMMA CoordinatorKeeps ==
    ASSUME DeskAssumptions, DeskInv,
           \/ CooldownEnds \/ Tick \/ Rollover \/ DayTurns
           \/ \E s \in Starters : ReadSummary(s)
    PROVE  DeskInv'
<1>0. /\ refreshes \in [Starters -> Refresh \cup {Null}] /\ desk \in DeskRow
      /\ day \in 0..MaxDay /\ MaxDay \in Nat /\ db \subseteq Calls
      /\ Due \in Refresh /\ TimerStopped \in DeskRow
      /\ \A c \in Calls : c \in Starters /\ c # "asked" /\ c # "tick"
  <2>1. /\ refreshes \in [Starters -> Refresh \cup {Null}] /\ desk \in DeskRow
        /\ day \in 0..MaxDay /\ MaxDay \in Nat /\ db \subseteq Calls
    BY DEF DeskInv, DeskTypes, DeskAssumptions, DeskConstants
  <2>2. Due \in Refresh
    BY <2>1 DEF Due, Refresh
  <2>3. TimerStopped \in DeskRow
    BY <2>1 DEF TimerStopped, DeskRow
  <2>4. \A c \in Calls : c \in Starters /\ c # "asked" /\ c # "tick"
    BY DEF DeskAssumptions, DeskConstants, Starters
  <2>. QED
    BY <2>1, <2>2, <2>3, <2>4
<1>1. CASE CooldownEnds \/ Tick \/ Rollover
  <2>1. refreshes' \in {refreshes, [refreshes EXCEPT !["asked"] = Due],
                        [refreshes EXCEPT !["tick"] = Due]}
        /\ UNCHANGED <<entry, load, day, db, call>>
    BY <1>1 DEF CooldownEnds, Tick, Rollover, Begun
  <2>2. desk' \in DeskRow
    BY <1>0, <1>1 DEF CooldownEnds, Tick, Rollover, DeskRow
  <2>3. /\ refreshes' \in [Starters -> Refresh \cup {Null}]
        /\ \A c \in Calls : refreshes'[c] = refreshes[c]
    BY <1>0, <2>1
  <2>. QED
    BY <1>0, <2>1, <2>2, <2>3, RefreshesMove
<1>2. CASE DayTurns
  <2>1. day' \in 0..MaxDay /\ UNCHANGED <<entry, load, db, call, refreshes, desk>>
    BY <1>0, <1>2 DEF DayTurns
  <2>. QED
    BY <1>0, <2>1, RefreshesMove
<1>3. ASSUME NEW s \in Starters, ReadSummary(s)
      PROVE  DeskInv'
  <2>. DEFINE row == [phase |-> "read", saw |-> db, day |-> day]
  <2>1. /\ refreshes' = [refreshes EXCEPT ![s] = row] /\ refreshes[s] # Null
        /\ UNCHANGED <<entry, load, day, db, call, desk>>
    BY <1>3 DEF ReadSummary
  <2>2. row \in Refresh /\ row.saw = db
    BY <1>0 DEF Refresh
  <2>. HIDE DEF row
  <2>. QED
    BY <1>0, <2>1, <2>2, RefreshesMove
<1>. QED
  BY <1>1, <1>2, <1>3

\* A refresh ends, well or not: who awaited it goes on.
LEMMA EndKeeps ==
    ASSUME DeskAssumptions, DeskInv, NEW s \in Starters, Publish(s) \/ RefreshFails(s)
    PROVE  DeskInv'
<1>1. /\ refreshes \in [Starters -> Refresh \cup {Null}] /\ desk \in DeskRow
      /\ refreshes[s] # Null /\ refreshes' = [refreshes EXCEPT ![s] = Null]
      /\ call' = GoesOn(s) /\ UNCHANGED <<load, day, db>>
      /\ entry' = IF entry = "loading" THEN "up" ELSE entry
      /\ call \in [Calls -> Call \cup {Null}] /\ day \in 0..MaxDay /\ MaxDay \in Nat
  BY DEF Publish, RefreshFails, Ended, DeskInv, DeskTypes, DeskAssumptions, DeskConstants
<1>2. refreshes[s] \in Refresh
  BY <1>1
<1>3. desk' \in DeskRow
  <2>1. /\ refreshes[s].saw \subseteq Calls /\ refreshes[s].day \in 0..MaxDay
        /\ day + 1 \in 1..MaxDay + 1
    BY <1>1, <1>2 DEF Refresh
  <2>. DEFINE seen == [desk EXCEPT !.saw = refreshes[s].saw, !.day = refreshes[s].day,
                                   !.rendezvous = day + 1]
  <2>2. seen \in DeskRow
    BY <1>1, <2>1 DEF DeskRow
  <2>3. \A d \in DeskRow : [d EXCEPT !.cooling = (s = "asked") \/ @] \in DeskRow
    BY DEF DeskRow
  <2>4. \/ desk' = [seen EXCEPT !.cooling = (s = "asked") \/ @]
        \/ desk' = [desk EXCEPT !.cooling = (s = "asked") \/ @]
    BY DEF Publish, RefreshFails, Ended
  <2>. HIDE DEF seen
  <2>. QED
    BY <1>1, <2>2, <2>3, <2>4
<1>4. /\ refreshes' \in [Starters -> Refresh \cup {Null}] /\ refreshes'[s] = Null
      /\ \A r \in Starters \ {s} : refreshes'[r] = refreshes[r]
  BY <1>1
<1>5. /\ \A c \in Calls :
            /\ call'[c] = Null <=> call[c] = Null
            /\ call[c] # Null => call'[c].load = call[c].load
            /\ \/ call'[c] = call[c]
               \/ c = s /\ call'[c].status = "ok"
      /\ call' \in [Calls -> Call \cup {Null}]
  <2>1. CASE s \in Calls
    <3>1. /\ call[s] # Null /\ call[s].left = <<"refreshing">>
          /\ <<"refreshing">> # <<>> /\ Len(<<"refreshing">>) = 1
      BY <1>1, <2>1 DEF DeskInv, RefreshesAwaited
    <3>2. PICK new \in Call :
            /\ Advanced(s) = [call EXCEPT ![s] = new]
            /\ new.load = call[s].load /\ new.status = "ok"
      BY <2>1, <3>1, AdvancedIs
    <3>3. new # Null
      BY DEF DeskAssumptions
    <3>4. call' = [call EXCEPT ![s] = new]
      BY <1>1, <2>1, <3>2 DEF GoesOn
    <3>. QED
      BY <1>1, <2>1, <3>1, <3>2, <3>3, <3>4
  <2>2. CASE s \notin Calls
    BY <1>1, <2>2 DEF GoesOn
  <2>. QED
    BY <2>1, <2>2
<1>6. \A c \in Calls : c # s => call'[c] = call[c] /\ refreshes'[c] = refreshes[c]
  <2>1. \A c \in Calls : c \in Starters
    BY DEF Starters
  <2>2. \A c \in Calls : c # s => call'[c] = call[c]
    BY <1>5
  <2>. QED
    BY <1>4, <2>1, <2>2
<1>7. DeskTypes'
  BY <1>1, <1>3, <1>4, <1>5 DEF DeskInv, DeskTypes
<1>8. CallsUnderWay'
  <2>. SUFFICES ASSUME NEW c \in Calls, call'[c] # Null
                PROVE  /\ call'[c].load <= load
                       /\ call'[c].status = "open" => call'[c].left # <<>>
                       /\ (call'[c].status = "open" /\ call'[c].shape \in AtOnceShapes)
                             => OnItsWay(call'[c].left, c \in db)
    BY <1>1 DEF CallsUnderWay
  <2>1. call[c] # Null /\ call'[c].load <= load
    BY <1>5 DEF DeskInv, CallsUnderWay
  <2>2. CASE call'[c] = call[c]
    BY <2>1, <2>2 DEF DeskInv, CallsUnderWay
  <2>3. CASE call'[c].status = "ok"
    BY <2>1, <2>3
  <2>. QED
    BY <1>5, <2>2, <2>3
<1>9. RefreshesAwaited'
  BY <1>1, <1>4, <1>6 DEF DeskInv, RefreshesAwaited
<1>10. WritesKnown'
  <2>1. \A c \in db : c \in Calls
    BY DEF DeskInv, DeskTypes
  <2>. QED
    BY <1>1, <1>5, <2>1 DEF DeskInv, WritesKnown
<1>11. NotYetLoaded'
  BY <1>1 DEF NotYetLoaded
<1>. QED
  BY <1>7, <1>8, <1>9, <1>10, <1>11 DEF DeskInv

\* The entry is unloaded, its database closed, and it is loaded again.
LEMMA EntryKeeps ==
    ASSUME DeskAssumptions, DeskInv, UnloadEntry \/ CloseDatabase \/ Load
    PROVE  DeskInv'
<1>1. CASE UnloadEntry \/ CloseDatabase
  <2>1. /\ entry' \in {"closing", "closed"} /\ UNCHANGED <<load, day, db, call, refreshes, desk>>
    BY <1>1 DEF UnloadEntry, CloseDatabase
  <2>2. load < MaxLoads
    BY <1>1 DEF UnloadEntry, CloseDatabase, DeskInv, DeskTypes
  <2>3. DeskTypes'
    BY <2>1, <2>2 DEF DeskInv, DeskTypes
  <2>. QED
    BY <2>1, <2>3 DEF DeskInv, CallsUnderWay, RefreshesAwaited, WritesKnown, NotYetLoaded
<1>2. CASE Load
  <2>0. /\ load \in 1..MaxLoads /\ MaxLoads \in Nat /\ call \in [Calls -> Call \cup {Null}]
        /\ MaxDay \in Nat /\ db \subseteq Calls
    BY DEF DeskInv, DeskTypes, DeskAssumptions, DeskConstants
  <2>1. /\ entry = "closed" /\ entry' = "loading" /\ load' = load + 1
        /\ desk' = NewDesk /\ refreshes' = [Nothing EXCEPT !["tick"] = Due]
        /\ call' = [c \in Calls |-> IF refreshes[c] # Null THEN Advanced(c)[c] ELSE call[c]]
        /\ UNCHANGED <<day, db>>
    BY <1>2 DEF Load
  <2>2. /\ Due \in Refresh /\ NewDesk \in DeskRow
        /\ \A c \in Calls : c \in Starters /\ c # "tick"
    BY <2>0 DEF Due, Refresh, NewDesk, DeskRow, DeskAssumptions, DeskConstants, Starters
  <2>3. /\ refreshes' \in [Starters -> Refresh \cup {Null}]
        /\ \A c \in Calls : refreshes'[c] = Null
    BY <2>1, <2>2 DEF Nothing
  <2>4. ASSUME NEW c \in Calls
        PROVE  /\ call'[c] \in Call \cup {Null}
               /\ call'[c] = Null <=> call[c] = Null
               /\ call[c] # Null => call'[c].load = call[c].load
               /\ call'[c] = call[c] \/ call'[c].status = "ok"
    <3>1. CASE refreshes[c] = Null
      BY <2>0, <2>1, <3>1
    <3>2. CASE refreshes[c] # Null
      <4>1. /\ call[c] # Null /\ call[c].left = <<"refreshing">>
            /\ <<"refreshing">> # <<>> /\ Len(<<"refreshing">>) = 1
        BY <3>2 DEF DeskInv, RefreshesAwaited
      <4>2. PICK new \in Call :
              /\ Advanced(c) = [call EXCEPT ![c] = new]
              /\ new.load = call[c].load /\ new.status = "ok"
        BY <4>1, AdvancedIs
      <4>3. new # Null
        BY DEF DeskAssumptions
      <4>4. call'[c] = new
        BY <2>0, <2>1, <3>2, <4>2
      <4>. QED
        BY <4>1, <4>2, <4>3, <4>4
    <3>. QED
      BY <3>1, <3>2
  <2>5. call' \in [Calls -> Call \cup {Null}]
    <3>1. /\ call' = [c \in Calls |-> call'[c]]
          /\ \A c \in Calls : call'[c] \in Call \cup {Null}
      BY <2>1, <2>4
    <3>. QED
      BY <3>1
  <2>6. load' \in 1..MaxLoads
    <3>1. load < MaxLoads
      BY <2>1 DEF DeskInv, DeskTypes
    <3>. QED
      BY <2>0, <2>1, <3>1
  <2>7. DeskTypes'
    BY <2>1, <2>2, <2>3, <2>5, <2>6 DEF DeskInv, DeskTypes
  <2>8. \A c \in Calls : call[c] # Null => call[c].load <= load /\ call[c].load \in Nat
    BY <2>0 DEF DeskInv, CallsUnderWay, Call
  <2>9. \A c \in Calls : call'[c] # Null => call'[c].load <= load /\ call'[c].load # load'
                                            /\ call'[c].load <= load'
    <3>1. load \in Nat /\ load' = load + 1
      BY <2>0, <2>1
    <3>. QED
      BY <2>4, <2>8, <3>1
  <2>10. CallsUnderWay'
    BY <2>1, <2>4, <2>9 DEF DeskInv, CallsUnderWay
  <2>11. RefreshesAwaited' /\ NotYetLoaded'
    BY <2>3, <2>9 DEF RefreshesAwaited, NotYetLoaded
  <2>12. WritesKnown'
    BY <2>0, <2>1, <2>4, <2>9 DEF DeskInv, WritesKnown
  <2>. QED
    BY <2>7, <2>10, <2>11, <2>12 DEF DeskInv
<1>. QED
  BY <1>1, <1>2

\* The inductive invariant holds in every state.
LEMMA DeskInvariant ==
    ASSUME DeskAssumptions
    PROVE  DeskSpec => []DeskInv
<1>1. DeskInit => DeskInv
  <2>. SUFFICES ASSUME DeskInit PROVE DeskInv
    OBVIOUS
  <2>0. MaxLoads \in Nat /\ MaxLoads > 0 /\ MaxDay \in Nat
    BY DEF DeskAssumptions, DeskConstants
  <2>1. desk \in DeskRow
    <3>1. 1 \in 1..MaxDay + 1 /\ 0 \in 0..MaxDay
      BY <2>0
    <3>2. NewDesk \in DeskRow
      BY <3>1 DEF NewDesk, DeskRow
    <3>3. \A d \in DeskRow : [d EXCEPT !.rendezvous = 1] \in DeskRow
      BY <3>1 DEF DeskRow
    <3>. QED
      BY <3>2, <3>3 DEF DeskInit
  <2>2. refreshes \in [Starters -> Refresh \cup {Null}] /\ \A c \in Calls : refreshes[c] = Null
    BY DEF DeskInit, Nothing, Starters
  <2>3. DeskTypes
    BY <2>0, <2>1, <2>2 DEF DeskInit, DeskTypes
  <2>. QED
    BY <2>2, <2>3 DEF DeskInit, DeskInv, CallsUnderWay, RefreshesAwaited, WritesKnown, NotYetLoaded
<1>2. DeskInv /\ [DeskNext]_deskVars => DeskInv'
  <2>. SUFFICES ASSUME DeskInv, [DeskNext]_deskVars PROVE DeskInv'
    OBVIOUS
  <2>1. CASE UNCHANGED deskVars
    BY <2>1 DEF deskVars, DeskInv, DeskTypes, CallsUnderWay, RefreshesAwaited, WritesKnown,
       NotYetLoaded
  <2>2. ASSUME NEW c \in Calls, Begin(c) \/ CallStep(c)
        PROVE  DeskInv'
    BY <2>2, BeginKeeps, ReadKeeps, WriteKeeps, RequestKeeps, RefreshAtOnceKeeps, ReadBackKeeps
       DEF CallStep
  <2>3. ASSUME NEW s \in Starters, RefreshStep(s)
        PROVE  DeskInv'
    BY <2>3, CoordinatorKeeps, EndKeeps DEF RefreshStep
  <2>4. CASE CooldownEnds \/ Tick \/ Rollover \/ DayTurns
    BY <2>4, CoordinatorKeeps
  <2>5. CASE UnloadEntry \/ EntryStep
    BY <2>5, EntryKeeps DEF EntryStep
  <2>. QED
    BY <2>1, <2>2, <2>3, <2>4, <2>5 DEF DeskNext
<1>. QED
  BY <1>1, <1>2, PTL DEF DeskSpec

(* Whatever is called, refused, refreshed and reloaded meanwhile: a call   *)
(* whose entry stays loaded and that answers an error has written nothing, *)
(* so whoever tries again doubles nothing (services.py, websocket_api.py,  *)
(* Database.write).                                                        *)
THEOREM DeskIsSound ==
    ASSUME DeskAssumptions
    PROVE  DeskSpec => []DeskSound
<1>1. DeskInv => DeskTypeOK
  BY DEF DeskInv, DeskTypes, DeskTypeOK, DeskRow
<1>2. DeskInv => ErrorsWroteNothing
  <2>. SUFFICES ASSUME DeskInv, NEW c \in db, call[c].status = "error"
                PROVE  call[c].load # load \/ entry # "up"
    BY DEF ErrorsWroteNothing
  <2>1. call[c].load # load \/ entry \in {"closing", "closed"}
    BY DEF DeskInv, WritesKnown
  <2>. QED
    BY <2>1
<1>. QED
  BY <1>1, <1>2, DeskInvariant, PTL DEF DeskSound

\* A call answers when it takes its last place, and for a handler that has
\* written and refreshes at once that is the end of its own refresh.
LEMMA AnswersAfterItsRefresh ==
    ASSUME DeskAssumptions, DeskInv, [DeskNext]_deskVars
    PROVE  ShownWhenAnsweredStep
<1>. SUFFICES ASSUME NEW c \in Calls, call[c] # Null, call[c].shape \in AtOnceShapes, c \in db,
                     call[c].status # "ok", call'[c].status = "ok",
                     entry = "up", call[c].load = load
              PROVE  c \in desk'.saw
  BY DEF ShownWhenAnsweredStep, AtOnceShapes
<1>0. call \in [Calls -> Call \cup {Null}] /\ call[c] \in Call
  BY DEF DeskInv, DeskTypes
<1>1. ASSUME NEW d \in Calls, Begin(d) \/ CallStep(d)
      PROVE  FALSE
  <2>1. CASE d # c
    <3>1. call'[c] = call[c]
      BY <1>0, <1>1, <2>1 DEF Begin, CallStep, Read, BeginWrite, Commit, RuleRefuses, Request,
         Waited, Push, RefreshAtOnce, ReadBack, Advanced, Failed
    <3>. QED
      BY <3>1
  <2>2. CASE d = c
    <3>1. ~Begin(c)
      BY DEF Begin
    <3>2. ~(Read(c) \/ BeginWrite(c) \/ Commit(c) \/ RuleRefuses(c) \/ Request(c) \/ Waited(c)
             \/ Push(c) \/ ReadBack(c))
      BY AtPlace DEF Read, BeginWrite, Commit, RuleRefuses, Request, Waited, Push, ReadBack
    <3>3. CASE RefreshAtOnce(c)
      <4>1. call' = [call EXCEPT ![c].left = <<"refreshing">>]
        BY <3>3 DEF RefreshAtOnce
      <4>2. call'[c].status = call[c].status
        BY <1>0, <4>1 DEF Call
      <4>. QED
        BY <4>2
    <3>. QED
      BY <1>1, <2>2, <3>1, <3>2, <3>3 DEF CallStep
  <2>. QED
    BY <2>1, <2>2
<1>2. ASSUME NEW s \in Starters, RefreshStep(s)
      PROVE  c \in desk'.saw
  <2>1. Publish(s) /\ s = c
    <3>1. ~RefreshFails(s)
      BY DEF RefreshFails
    <3>2. ~ReadSummary(s)
      BY DEF ReadSummary
    <3>3. call' = GoesOn(s)
      BY <1>2, <3>1, <3>2 DEF RefreshStep, Publish, Ended
    <3>4. s = c
      BY <1>0, <3>3 DEF GoesOn, Advanced
    <3>. QED
      BY <1>2, <3>1, <3>2, <3>4 DEF RefreshStep
  <2>2. refreshes[c] # Null /\ refreshes[c].phase = "read"
    BY <2>1 DEF Publish
  <2>3. c \in refreshes[c].saw
    BY <2>2 DEF DeskInv, RefreshesAwaited
  <2>4. desk'.saw = refreshes[c].saw
    <3>1. desk \in DeskRow
      BY DEF DeskInv, DeskTypes
    <3>. QED
      BY <2>1, <3>1 DEF Publish, Ended, DeskRow
  <2>. QED
    BY <2>3, <2>4
<1>. QED
  BY <1>1, <1>2 DEF DeskNext, CooldownEnds, Tick, Rollover, DayTurns, UnloadEntry, EntryStep,
     CloseDatabase, Load, deskVars

(* A handler that refreshes at once answers when its own write is          *)
(* published, unless the entry was reloaded under it                       *)
(* (recipe_line_surfaces._apply, the to-do lists).                         *)
THEOREM AnswersAreShown ==
    ASSUME DeskAssumptions
    PROVE  DeskSpec => ShownWhenAnswered
<1>1. DeskInv /\ [DeskNext]_deskVars => ShownWhenAnsweredStep
  BY AnswersAfterItsRefresh
<1>. QED
  BY <1>1, DeskInvariant, PTL DEF DeskSpec, ShownWhenAnswered

=============================================================================

----------------------------- MODULE OfflineQueue -----------------------------
(***************************************************************************)
(* The queue of writes the panel could not send: FileAttente in            *)
(* file-attente.ts, the panel that mounts it (panneau.ts) and the server   *)
(* that knows the keys of what it has done.                                *)
(*                                                                         *)
(* A page keeps its queue in memory and copies it to the local storage     *)
(* each time it changes.  It sends the head, waits for the answer, and     *)
(* only then drops the head.  A failure of the transport stops the replay; *)
(* the request may still be with the server, which handles it in a task of *)
(* its own and answers nobody.                                             *)
(*                                                                         *)
(* When the panel is taken out of the page and put back, connectedCallback *)
(* builds a second FileAttente on the same storage while the replay of the *)
(* first may still be waiting for its answer.                              *)
(***************************************************************************)
EXTENDS Integers, Sequences, FiniteSets

CONSTANTS
    NoWrite,        \* a page that waits for no answer
    Pages,          \* FileAttente objects that may be alive at once
    Removals,       \* n \in Removals removes the cart line that n - 1 added
    Refuses,        \* may the server refuse a write that nothing forces it to
    Late,           \* may a request outlive the connection it came by
    MaxPosts        \* bound: writes ever posted

ASSUME QueueConstants ==
    /\ MaxPosts \in Nat /\ Removals \subseteq 2..MaxPosts
    /\ {Refuses, Late} \subseteq BOOLEAN

VARIABLES
    posted,         \* how many writes were posted: writes are 1..posted
    pages,          \* what each FileAttente holds
    current,        \* the one the screens write to
    stored,         \* localStorage, key home_stock.file
    late,           \* requests with the server whose connection is gone
    known,          \* keys the server knows
    done,           \* the writes that took effect, in the order they did
    refused         \* writes whose refusal was told to the user

vars == <<posted, pages, current, stored, late, known, done, refused>>
server == <<late, known, done>>

Writes == 1..MaxPosts

\* `sent` is the head when its answer is awaited.
Page == [alive : BOOLEAN, queue : Seq(Writes), sent : Writes \cup {NoWrite},
         answer : {"none", "ok", "refused"}]

Rest(queue) == [alive |-> TRUE, queue |-> queue, sent |-> NoWrite, answer |-> "none"]
Gone == [Rest(<<>>) EXCEPT !.alive = FALSE]

InOrder(queue) == \A i, j \in DOMAIN queue : i < j => queue[i] < queue[j]

TypeOK ==
    /\ posted \in 0..MaxPosts
    /\ pages \in [Pages -> Page] /\ current \in Pages
    /\ stored \in Seq(Writes) /\ InOrder(stored)
    /\ \A p \in Pages : InOrder(pages[p].queue)
    /\ late \subseteq Writes /\ known \subseteq Writes
    /\ done \in Seq(Writes) /\ refused \subseteq Writes

(***************************************************************************)
(* The server                                                              *)
(***************************************************************************)
NeverRepeats(n) == FALSE   \* mutant: the server ignores the key
Repeats(n) == n \in known

\* The key of a cart line lives in its row and goes with it; the key of a
\* movement stays in the journal.
Done(n) ==
    /\ done' = Append(done, n)
    /\ known' = IF n \in Removals THEN known \ {n - 1} ELSE known \cup {n}

CanDo(n) == ~Repeats(n) /\ (n \in Removals => n - 1 \in known)

\* A key that is known is answered as the first time; anything else is done
\* or refused.
Answers(n, answer) ==
    \/ CanDo(n) /\ Done(n) /\ answer = "ok"
    \/ Repeats(n) /\ answer = "ok" /\ UNCHANGED <<known, done>>
    \/ /\ ~Repeats(n) /\ (CanDo(n) => Refuses)
       /\ answer = "refused" /\ UNCHANGED <<known, done>>

Serve(p) ==
    /\ pages[p].sent # NoWrite /\ pages[p].answer = "none"
    /\ \E answer \in {"ok", "refused"} :
          /\ Answers(pages[p].sent, answer)
          /\ pages' = [pages EXCEPT ![p].answer = answer]
    /\ UNCHANGED <<posted, current, stored, late, refused>>

ServeLate(n) ==
    /\ n \in late
    /\ late' = late \ {n}
    /\ \E answer \in {"ok", "refused"} : Answers(n, answer)
    /\ UNCHANGED <<posted, pages, current, stored, refused>>

(***************************************************************************)
(* The page                                                                *)
(***************************************************************************)
\* ajouter
Post ==
    LET queue == Append(pages[current].queue, posted + 1)
    IN  /\ posted < MaxPosts /\ pages[current].alive
        /\ posted' = posted + 1
        /\ pages' = [pages EXCEPT ![current].queue = queue]
        /\ stored' = queue
        /\ UNCHANGED <<current, server, refused>>

\* rejouer lets one boucle run at a time, so one request is out.
Send(p) ==
    /\ pages[p].alive /\ pages[p].sent = NoWrite /\ pages[p].queue # <<>>
    /\ pages' = [pages EXCEPT ![p].sent = Head(pages[p].queue), ![p].answer = "none"]
    /\ UNCHANGED <<posted, current, stored, server, refused>>

KeptAtHead(queue, answer) ==   \* mutant: a refusal is tried again
    IF answer = "refused" THEN queue ELSE Tail(queue)
Shifted(queue, answer) == Tail(queue)

\* The answer comes: the head goes, whether it was done or refused.  A page
\* the screens no longer use ends with its replay.
Receive(p) ==
    LET queue == Shifted(pages[p].queue, pages[p].answer)
    IN  /\ pages[p].answer # "none"
        /\ stored' = queue
        /\ pages' = [pages EXCEPT ![p] = IF p # current /\ queue = <<>> THEN Gone
                                         ELSE Rest(queue)]
        /\ refused' = IF pages[p].answer = "refused"
                      THEN refused \cup {pages[p].sent} ELSE refused
        /\ UNCHANGED <<posted, current, server>>

\* Requests of these pages that the server may still have.
Outlives(ps) ==
    LET waiting == {pages[p].sent : p \in {q \in ps : pages[q].sent # NoWrite
                                                      /\ pages[q].answer = "none"}}
    IN  IF Late THEN SUBSET waiting ELSE {{}}

DropTheHead(queue) == Tail(queue)   \* mutant: what failed is not kept
KeptByAFailure(queue) == queue

\* A failure of the transport, before or after the server did the work.
Fail(p) ==
    /\ pages[p].sent # NoWrite
    /\ pages' = [pages EXCEPT ![p] = IF p = current THEN Rest(KeptByAFailure(@.queue)) ELSE Gone]
    /\ \E left \in Outlives({p}) : late' = late \cup left
    /\ stored' = IF p = current THEN KeptByAFailure(pages[p].queue) ELSE stored
    /\ UNCHANGED <<posted, current, known, done, refused>>

LoadedTwice == stored \o pages[current].queue   \* mutant
Loaded == stored

\* The page is reloaded or the application closed: memory goes.
ReloadPage ==
    /\ pages' = [p \in Pages |-> IF p = current THEN Rest(Loaded) ELSE Gone]
    /\ \E left \in Outlives(Pages) : late' = late \cup left
    /\ UNCHANGED <<posted, current, stored, known, done, refused>>

\* disconnectedCallback stops no replay; connectedCallback starts another.
Remount(p) ==
    /\ ~pages[p].alive
    /\ current' = p
    /\ pages' = [pages EXCEPT ![p] = Rest(Loaded),
                              ![current] = IF @.sent = NoWrite THEN Gone ELSE @]
    /\ UNCHANGED <<posted, stored, server, refused>>

Init ==
    /\ posted = 0 /\ stored = <<>> /\ late = {} /\ known = {} /\ done = <<>>
    /\ refused = {}
    /\ current \in Pages
    /\ pages = [p \in Pages |-> IF p = current THEN Rest(<<>>) ELSE Gone]

Next ==
    \/ Post \/ ReloadPage
    \/ \E p \in Pages : Send(p) \/ Serve(p) \/ Receive(p) \/ Fail(p) \/ Remount(p)
    \/ \E n \in late : ServeLate(n)

Spec == Init /\ [][Next]_vars

\* The network comes back as often as needed for an answer to get through,
\* and then something replays: the mount, the `online` event or a new write.
FairSpec ==
    /\ Spec
    /\ \A p \in Pages : WF_vars(Send(p)) /\ SF_vars(Serve(p)) /\ SF_vars(Receive(p))

(***************************************************************************)
(* What must hold                                                          *)
(***************************************************************************)
(* However answers are lost, pages reloaded and requests repeated, a write is
   done at most once, and writes are done in the order of the scans. *)
Promise == INSTANCE Outbox WITH posted <- posted, done <- done
KeepsThePromise == Promise!Spec

(* A write that was posted is done, or refused and said to be, or still in
   the storage that a reload starts from. *)
NothingLost ==
    \A n \in 1..posted :
        \/ n \in refused
        \/ \E i \in DOMAIN done : done[i] = n
        \/ \E i \in DOMAIN stored : stored[i] = n

(* Nothing stays in the queue for ever, whatever the server refuses. *)
EverySettled ==
    \A n \in Writes :
        n <= posted ~> n \in refused \/ \E i \in DOMAIN done : done[i] = n

(* "Un refus du serveur [...] ne changera jamais d'avis": a write whose
   refusal was told takes no effect afterwards. *)
RefusedForGood ==
    [][\A n \in refused : done' = Append(done, n) => FALSE]_vars

(* "Le serveur reconnaît la clé et ne double rien": whatever pages replay the
   same queue and whatever requests come late, no write is done twice.  It
   holds while nothing makes the server forget a key. *)
NothingDoubled == \A i, j \in DOMAIN done : done[i] = done[j] => i = j
=============================================================================

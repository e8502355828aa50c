------------------------------ MODULE Articles ------------------------------
(***************************************************************************)
(* What the house knows of the packs it has scanned: the answer of Open    *)
(* Food Facts, what hands typed over it, and the service that asks Open    *)
(* Food Facts again for the whole catalogue, one pack every few seconds.   *)
(*                                                                         *)
(* The service reads the barcodes and answers; a background pass then      *)
(* walks them.  Meanwhile hands edit, erase and scan, the site changes,    *)
(* and a change of the options reloads the entry, which cancels the passes *)
(* but not the calls that are still reading their barcodes.                *)
(*                                                                         *)
(* `typed` is a history variable no action reads: what a hand last wrote   *)
(* in a column.                                                            *)
(***************************************************************************)
EXTENDS House

CONSTANTS
    Barcodes,       \* barcodes
    Columns,        \* the columns of a card that Open Food Facts fills
    Replies,        \* what Open Food Facts may say of a column
    Words,          \* what a hand may type
    Untouched,      \* no hand ever wrote this column
    Callers,        \* automations that call the service
    MaxLoaded,      \* bound: times the entry is loaded
    MaxId,          \* bound: ids of articles
    MaxEdits,       \* bound: changes at the site
    MaxHands        \* bound: gestures of hands

ArticleConstants ==
    /\ {MaxLoaded, MaxId, MaxEdits, MaxHands} \subseteq Nat /\ MaxLoaded > 0
    /\ Untouched \notin Replies \cup Words \cup {Null}

VARIABLES
    site,       \* the record Open Food Facts has for a code
    card,       \* table article, its barcode with it
    typed,
    resync,     \* what a call of resync_off, or the pass it started, holds
    claimed,    \* resync_in_progress of each loading of the entry
    loadings,   \* how many times the entry was loaded
    edits, hands

articleVars == <<site, card, typed, resync, claimed, loadings, edits, hands>>

Ids    == 1..MaxId
Loads  == 1..MaxLoaded
Record == [Columns -> Replies \cup {Null}]
Card   == [code : Barcodes, value : [Columns -> Replies \cup Words \cup {Null}],
           manual : SUBSET Columns, readable : BOOLEAN, raw : Barcodes \cup {Null}]
Pass   == [load : Loads, step : {"codes", "walk", "write"},
           todo : SUBSET (Barcodes \X Ids), record : Record \cup {Null}]

ArticleTypeOK ==
    /\ site \in [Barcodes -> Record]
    /\ card \in [Ids -> Card \cup {Null}]
    /\ typed \in [Ids -> [Columns -> Words \cup {Null, Untouched}]]
    /\ \A k \in Callers : resync[k] = Null \/ resync[k] \in Pass
    /\ claimed \in [Loads -> BOOLEAN] /\ loadings \in Loads
    /\ edits \in 0..MaxEdits /\ hands \in 0..MaxHands

ArticleInit ==
    /\ \E answer \in Replies : site = [code \in Barcodes |-> [c \in Columns |-> answer]]
    /\ card = [id \in Ids |-> Null]
    /\ typed = [id \in Ids |-> [c \in Columns |-> Untouched]]
    /\ resync = [k \in Callers |-> Null] /\ claimed = [l \in Loads |-> FALSE]
    /\ loadings = 1 /\ edits = 0 /\ hands = 0
-----------------------------------------------------------------------------
(* The site and the hands.                                                 *)

SiteEdits(code, column, answer) ==
    /\ edits < MaxEdits /\ edits' = edits + 1
    /\ site' = [site EXCEPT ![code][column] = answer]
    /\ UNCHANGED <<card, typed, resync, claimed, loadings, hands>>

Hand == /\ hands < MaxHands /\ hands' = hands + 1
        /\ UNCHANGED <<site, resync, claimed, loadings, edits>>

WholeAnswer(record, protected) == Columns \ protected   \* mutant: a gap is written too
\* build_article_values: what Open Food Facts did not answer is not written.
Answered(record, protected) == {c \in Columns : record[c] # Null} \ protected

NoneManual(row) == {}   \* mutant: manual_fields is not read
Manual(row) == row.manual

FromSite(row, code, record) ==
    [row EXCEPT !.value = [c \in Columns |-> IF c \in Answered(record, Manual(row))
                                             THEN record[c] ELSE @[c]],
                !.raw = code]

\* article/create, with or without an answer of Open Food Facts.  A code the
\* house knows is answered with its article, whatever came with it.
CreateArticle(code, asked, columns, word) ==
    LET id     == NextId(card)
        manual == [code |-> code, manual |-> columns, readable |-> TRUE, raw |-> Null,
                   value |-> [c \in Columns |-> IF c \in columns THEN word ELSE Null]]
    IN  /\ Hand /\ id \in Ids
        /\ \A i \in Rows(card) : card[i].code # code
        /\ card' = [card EXCEPT ![id] = IF asked THEN FromSite(manual, code, site[code])
                                        ELSE manual]
        /\ typed' = [typed EXCEPT ![id] = [c \in Columns |-> IF c \in columns THEN word
                                                             ELSE Untouched]]

\* article/update; a `manual_fields` that cannot be read raises.
UpdateArticle(id, column, word) ==
    /\ Hand /\ card[id] # Null /\ card[id].readable
    /\ card' = [card EXCEPT ![id].value[column] = word, ![id].manual = @ \cup {column}]
    /\ typed' = [typed EXCEPT ![id][column] = word]

EraseArticle(id) ==
    /\ Hand /\ card[id] # Null
    /\ card' = [card EXCEPT ![id] = Null]
    /\ typed' = [typed EXCEPT ![id] = [c \in Columns |-> Untouched]]

\* "A hand-edited row, a bug elsewhere."
SpoilManual(id) ==
    /\ Hand /\ card[id] # Null /\ card[id].readable
    /\ card' = [card EXCEPT ![id].readable = FALSE]
    /\ UNCHANGED typed
-----------------------------------------------------------------------------
(* The service and its pass.                                               *)

ClaimedLater == claimed   \* mutant: the slot is not claimed before the read
ClaimedNow   == [claimed EXCEPT ![loadings] = TRUE]

\* No await between the check and the claim.
ResyncOff(k) ==
    /\ resync[k] = Null /\ ~claimed[loadings]
    /\ claimed' = ClaimedNow
    /\ resync' = [resync EXCEPT ![k] = [load |-> loadings, step |-> "codes", todo |-> {},
                                    record |-> Null]]
    /\ UNCHANGED <<site, card, typed, loadings, edits, hands>>

\* All of them, those of a product, or one.
BarcodesToResync == {{<<card[id].code, id>> : id \in ids} : ids \in SUBSET Rows(card)}

\* entry.async_create_background_task
BarcodesRead(k) ==
    /\ resync[k] # Null /\ resync[k].step = "codes"
    /\ \E codes \in BarcodesToResync :
          resync' = [resync EXCEPT ![k].step = "walk", ![k].todo = codes]
    /\ UNCHANGED <<site, card, typed, claimed, loadings, edits, hands>>

Released(l) == [claimed EXCEPT ![l] = FALSE]
KeptClaimed(l) == claimed   \* mutant: a failed read keeps the slot
ReleasedAfterFailure(l) == Released(l)

BarcodesFail(k) ==
    /\ resync[k] # Null /\ resync[k].step = "codes"
    /\ claimed' = ReleasedAfterFailure(resync[k].load)
    /\ resync' = [resync EXCEPT ![k] = Null]
    /\ UNCHANGED <<site, card, typed, loadings, edits, hands>>

\* ORDER BY a.id
First(codes) == CHOOSE next \in codes : \A other \in codes : next[2] <= other[2]

\* lookup_with_retry never raises: it answers a record or nothing.
AskSite(k) ==
    /\ resync[k] # Null /\ resync[k].step = "walk" /\ resync[k].todo # {}
    /\ LET next == First(resync[k].todo) IN
          \/ resync' = [resync EXCEPT ![k].step = "write", ![k].record = site[next[1]]]
          \/ resync' = [resync EXCEPT ![k].todo = @ \ {next}]
    /\ UNCHANGED <<site, card, typed, claimed, loadings, edits, hands>>

\* _write_resync, by the id the barcodes were read with.  A database that was
\* closed since raises, and the pass goes on.
WriteResync(k) ==
    LET next == First(resync[k].todo)
        row  == card[next[2]]
    IN  /\ resync[k] # Null /\ resync[k].step = "write"
        /\ resync' = [resync EXCEPT ![k].step = "walk", ![k].record = Null,
                                ![k].todo = @ \ {next}]
        /\ card' = IF resync[k].load = loadings /\ row # Null /\ row.readable
                   THEN [card EXCEPT ![next[2]] = FromSite(row, next[1], resync[k].record)]
                   ELSE card
        /\ UNCHANGED <<site, typed, claimed, loadings, edits, hands>>

EndResync(k) ==
    /\ resync[k] # Null /\ resync[k].step = "walk" /\ resync[k].todo = {}
    /\ claimed' = Released(resync[k].load)
    /\ resync' = [resync EXCEPT ![k] = Null]
    /\ UNCHANGED <<site, card, typed, loadings, edits, hands>>

\* The options changed: the passes are cancelled, their `finally` runs, and
\* the new loading starts with its own slot.  A call that is reading its
\* barcodes is nobody's task of the entry.
Reload ==
    /\ loadings < MaxLoaded /\ loadings' = loadings + 1
    /\ resync' = [k \in Callers |-> IF resync[k] # Null /\ resync[k].step # "codes" THEN Null
                                  ELSE resync[k]]
    /\ claimed' = [claimed EXCEPT ![loadings] = \E k \in Callers : resync'[k] # Null
                                                               /\ resync[k].load = loadings]
    /\ UNCHANGED <<site, card, typed, edits, hands>>

Step(k) == BarcodesRead(k) \/ BarcodesFail(k) \/ AskSite(k) \/ WriteResync(k) \/ EndResync(k)

ArticleNext ==
    \/ Reload
    \/ \E code \in Barcodes, column \in Columns, answer \in Replies \cup {Null} :
          SiteEdits(code, column, answer)
    \/ \E code \in Barcodes, asked \in BOOLEAN, columns \in SUBSET Columns, word \in Words :
          CreateArticle(code, asked, columns, word)
    \/ \E id \in Ids, column \in Columns, word \in Words \cup {Null} :
          UpdateArticle(id, column, word)
    \/ \E id \in Ids : EraseArticle(id) \/ SpoilManual(id)
    \/ \E k \in Callers : ResyncOff(k) \/ Step(k)

ArticleSpec == ArticleInit /\ [][ArticleNext]_articleVars

\* The event loop and the executor run what they were given; the site answers
\* or times out.
ArticleFairness == \A k \in Callers : WF_articleVars(Step(k))
ArticleFairSpec == ArticleSpec /\ ArticleFairness
-----------------------------------------------------------------------------
(* A column a hand has written says what the hand wrote, however old the   *)
(* answer a pass comes back with ("a resync must never silently overwrite  *)
(* what a person already fixed by hand", _write_resync).                   *)
HandsAreKept ==
    \A id \in Rows(card), c \in Columns :
        typed[id][c] # Untouched => card[id].value[c] = typed[id][c]

(* Open Food Facts fills and corrects, it never empties: a column of an    *)
(* article that is lost is lost by a hand (build_article_values).          *)
OnlyHandsEraseStep ==
    \A id \in Ids, c \in Columns :
        (card[id] # Null /\ card'[id] # Null /\ card[id].code = card'[id].code
           /\ card[id].value[c] # Null /\ card'[id].value[c] = Null)
        => typed'[id][c] = Null
OnlyHandsErase == [][OnlyHandsEraseStep]_articleVars

(* The calls and passes of one loading of the entry are one at a time,     *)
(* whatever automations fire together: the limit of Open Food Facts is     *)
(* measured per client (resync_off).                                       *)
OneResyncPass ==
    \A j, k \in Callers :
        (j # k /\ resync[j] # Null /\ resync[k] # Null) => resync[j].load # resync[k].load

(* What nobody may find wrong in the articles and in the slot.             *)
ArticlesSound == ArticleTypeOK /\ HandsAreKept /\ OneResyncPass

(* The slot comes back, whatever fails: "the slot must never stay claimed  *)
(* after the pass that claimed it is actually gone" (resync_off).          *)
SlotComesBack == \A l \in Loads : claimed[l] ~> ~claimed[l]

(* One pass at a time for the whole house: a call that was reading when    *)
(* the entry was reloaded starts its pass beside the new one.              *)
OneClient == \A j, k \in Callers : resync[j] # Null /\ resync[k] # Null => j = k

(* What an article has from Open Food Facts was said of its own barcode:   *)
(* the id of an erased article comes back while a pass is walking.         *)
OwnAnswers == \A id \in Rows(card) : card[id].raw \in {Null, card[id].code}
=============================================================================

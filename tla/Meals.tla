-------------------------------- MODULE Meals --------------------------------
(***************************************************************************)
(* Meals and what they write: plan, validate, cancel, skip and correct, in *)
(* application.py and skip_meal.py, called from executor threads.          *)
(*                                                                         *)
(* Every write is one transaction under one lock (see StockLedger), so     *)
(* each is one step.  But validating and skipping a meal take SEVERAL      *)
(* steps: they read on a connection that no lock protects, and write       *)
(* later.  `calls` holds what such a call has read and not yet used.       *)
(*                                                                         *)
(* Table meal has no AUTOINCREMENT: a new row takes the largest id in the  *)
(* table plus one, so the id of a deleted meal can come back.  The journal *)
(* names a meal by that id; `uid` names it for good.                       *)
(*                                                                         *)
(* A recipe has one ingredient, taken from batch 0, the pantry, and makes  *)
(* a dish, a batch of its own.  Which batches an allocation would touch is *)
(* StockLedger's subject.                                                  *)
(***************************************************************************)
EXTENDS Integers, Sequences, Functions, FiniteSets

CONSTANTS
    Null,
    Threads,        \* executor threads that may be inside a call
    Kinds,          \* natures of a meal, out of AllKinds
    Need,           \* what the ingredient line takes from the pantry
    Parts,          \* parts the dish has
    Rates,          \* prices per unit the pantry may show
    MaxPantry,      \* bound: what is in the pantry at the start
    MaxMeals,       \* bound: rows of table meal at once
    MaxUids,        \* bound: meals ever planned
    MaxDishes,      \* bound: dishes ever cooked
    MaxRows         \* bound: rows of the journal

\* A recipe; one whose lines are all taken by hand; a product; a note.
AllKinds == {"recipe", "byhand", "product", "note"}

ASSUME MealsConstants ==
    /\ Kinds \subseteq AllKinds
    /\ Need \in Nat \ {0} /\ Parts \in Nat \ {0}
    /\ Rates \subseteq Nat
    /\ {MaxPantry, MaxMeals, MaxUids, MaxDishes, MaxRows} \subseteq Nat

ASSUME NullIsNoNumber == Null \notin Nat

VARIABLES
    meals,          \* table meal: id -> row, or Null
    planned,        \* how many meals were ever planned: the last uid
    pantry,         \* [remaining, rate] of the ingredient's batch
    dishes,         \* batches of the dishes: [remaining, worth]
    journal,        \* the movements these batches have seen
    calls           \* calls in flight, one per thread

vars == <<meals, planned, pantry, dishes, journal, calls>>

Takes(kind) == IF kind \in {"recipe", "product"} THEN Need ELSE 0
Makes(kind) == IF kind \in {"recipe", "byhand"} THEN Parts ELSE 0

MealIds == 1..MaxMeals
Meal    == [uid : Nat, kind : Kinds, state : {"planned", "done", "skipped"}]

ASSUME NullIsNoMeal == Null \notin Meal

\* `part` is the last word of the key `meal:<id>:ing`, `:dish` or `:eaten`;
\* "other" is a movement no meal wrote.  `owner` is no column: it remembers
\* the uid the id stood for when the row was written.
Row == [meal : MealIds \cup {Null}, part : {"ing", "dish", "eaten", "other"},
        batch : Nat, quantity : Int, cost : Nat, corrects : Nat \cup {Null},
        owner : Nat \cup {Null}]

Idle == [pc |-> "idle", meal |-> Null, kind |-> Null, rate |-> Null]
Call == [pc : {"idle", "looked", "replayed", "previewed", "skipping"},
         meal : MealIds \cup {Null}, kind : Kinds \cup {Null},
         rate : Nat \cup {Null}]

TypeOK ==
    /\ meals \in [MealIds -> Meal \cup {Null}]
    /\ planned \in Nat
    /\ pantry \in [remaining : Nat, rate : Nat]
    /\ dishes \in Seq([remaining : Nat, worth : Nat])
    /\ journal \in Seq(Row)
    /\ calls \in [Threads -> Call]

Live       == {id \in MealIds : meals[id] # Null}
Rows       == DOMAIN journal
Uid(id)    == IF id \in Live THEN meals[id].uid ELSE Null
RowsOf(id) == {i \in Rows : journal[i].meal = id}     \* movements_of_meal
OnBatch(b) == {i \in Rows : journal[i].batch = b}
Corrected(i) == \E c \in Rows : journal[c].corrects = i

NewRow(id, part, batch, q, cost) ==
    [meal |-> id, part |-> part, batch |-> batch, quantity |-> q, cost |-> cost,
     corrects |-> Null, owner |-> IF id = Null THEN Null ELSE Uid(id)]

ReversalUnsigned(i) ==   \* mutant: the quantity keeps its sign
    [journal[i] EXCEPT !.meal = Null, !.corrects = i]

\* The reversal copies the values and not ref_type/ref_id: it names no meal.
Reversal(i) ==
    [journal[i] EXCEPT !.meal = Null, !.quantity = -@, !.corrects = i]

Write(rows) ==
    /\ Len(journal) + Len(rows) <= MaxRows
    /\ journal' = journal \o rows

(***************************************************************************)
(* Planning, moving out of the way                                         *)
(***************************************************************************)
\* INTEGER PRIMARY KEY without AUTOINCREMENT.
NextId == 1 + CHOOSE m \in Live \cup {0} : \A id \in Live : id <= m

PlanMeal(kind) ==
    /\ planned < MaxUids /\ NextId \in MealIds
    /\ planned' = planned + 1
    /\ meals' = [meals EXCEPT ![NextId] =
                    [uid |-> planned + 1, kind |-> kind, state |-> "planned"]]
    /\ UNCHANGED <<pantry, dishes, journal, calls>>

SetState(id, state) == meals' = [meals EXCEPT ![id].state = state]

\* The body of cancel_meal: a done meal is skipped, any other row is deleted.
Cancelled(id) ==
    IF meals[id].state = "done" THEN SetState(id, "skipped")
    ELSE meals' = [meals EXCEPT ![id] = Null]

CancelMeal(id) ==
    /\ id \in Live
    /\ Cancelled(id)
    /\ UNCHANGED <<planned, pantry, dishes, journal, calls>>

\* skip_meal, first transaction.  A done meal is left to cancel_meal, which
\* takes a transaction of its own.
SkipMeal(t, id) ==
    /\ calls[t] = Idle /\ id \in Live
    /\ CASE meals[id].state = "planned" -> SetState(id, "skipped") /\ UNCHANGED calls
         [] meals[id].state = "done" ->
              /\ calls' = [calls EXCEPT ![t] = [Idle EXCEPT !.pc = "skipping", !.meal = id]]
              /\ UNCHANGED meals
         [] OTHER -> UNCHANGED <<meals, calls>>
    /\ UNCHANGED <<planned, pantry, dishes, journal>>

SkipDoneMeal(t) ==
    /\ calls[t].pc = "skipping"
    /\ IF calls[t].meal \in Live THEN Cancelled(calls[t].meal) ELSE UNCHANGED meals
    /\ calls' = [calls EXCEPT ![t] = Idle]
    /\ UNCHANGED <<planned, pantry, dishes, journal>>

(***************************************************************************)
(* validate_meal, dry_run=False: is it a replay, then the simulation, both *)
(* on the read connection, then one transaction.                           *)
(***************************************************************************)
LookForReplay(t, id) ==
    /\ calls[t] = Idle
    /\ calls' = [calls EXCEPT ![t] = [Idle EXCEPT !.meal = id,
                    !.pc = IF RowsOf(id) # {} THEN "replayed" ELSE "looked"]]
    /\ UNCHANGED <<meals, planned, pantry, dishes, journal>>

\* Refused when the meal is gone, done, or short of stock.  It keeps what the
\* transaction will use: the lines, and the value the dish will have.
PreviewMeal(t) ==
    /\ calls[t].pc = "looked"
    /\ LET id == calls[t].meal
       IN  calls' = [calls EXCEPT ![t] =
              IF /\ id \in Live
                 /\ meals[id].state # "done"
                 /\ pantry.remaining >= Takes(meals[id].kind)
              THEN [pc |-> "previewed", meal |-> id, kind |-> meals[id].kind,
                    rate |-> pantry.rate]
              ELSE Idle]
    /\ UNCHANGED <<meals, planned, pantry, dishes, journal>>

\* The three writes of a validation that ate `eaten` parts, in their order.
MealRows(id, kind, eaten) ==
    LET d == Len(dishes) + 1
    IN  (IF Takes(kind) = 0 THEN <<>>
         ELSE <<NewRow(id, "ing", 0, -Takes(kind), Takes(kind) * pantry.rate)>>)
        \o (IF Makes(kind) = 0 THEN <<>>
            ELSE <<NewRow(id, "dish", d, Makes(kind), 0)>>)
        \o (IF Makes(kind) = 0 \/ eaten = 0 THEN <<>>
            ELSE <<NewRow(id, "eaten", d, -eaten, 0)>>)

KeysNotUnique(rows) == TRUE   \* mutant: idempotency_key is a plain column

\* The UNIQUE index on idempotency_key, for the keys of these rows.
KeysFree(rows) ==
    \A i \in DOMAIN rows, j \in Rows :
        <<journal[j].meal, journal[j].part>> # <<rows[i].meal, rows[i].part>>

\* mutant: the stock is not checked again inside the transaction
CanWriteUnchecked(t, rows) == KeysFree(rows)

\* The state of the meal is not read again: UPDATE meal SET state = 'done'
\* finds whatever row has that id by now, or none.
CanWrite(t, rows) ==
    /\ pantry.remaining >= Takes(calls[t].kind)
    /\ KeysFree(rows)

WriteMeal(t, eaten) ==
    LET id   == calls[t].meal
        kind == calls[t].kind
        rows == MealRows(id, kind, eaten)
    IN  /\ calls[t].pc = "previewed"
        /\ eaten <= Makes(kind)
        /\ CanWrite(t, rows)
        /\ Write(rows)
        /\ pantry' = [pantry EXCEPT !.remaining = @ - Takes(kind)]
        /\ Len(dishes) < MaxDishes
        /\ dishes' = IF Makes(kind) = 0 THEN dishes
                     ELSE Append(dishes, [remaining |-> Makes(kind) - eaten,
                                          worth |-> Takes(kind) * calls[t].rate])
        /\ IF id \in Live THEN SetState(id, "done") ELSE UNCHANGED meals
        /\ calls' = [calls EXCEPT ![t] = Idle]
        /\ UNCHANGED planned

\* The transaction rolls back (short, or a key is taken), or the answer of a
\* replay is sent: nothing is written.
Return(t) ==
    /\ \/ calls[t].pc = "replayed"
       \/ /\ calls[t].pc = "previewed"
          /\ \E eaten \in 0..Makes(calls[t].kind) :
                ~CanWrite(t, MealRows(calls[t].meal, calls[t].kind, eaten))
    /\ calls' = [calls EXCEPT ![t] = Idle]
    /\ UNCHANGED <<meals, planned, pantry, dishes, journal>>

(***************************************************************************)
(* correct_meal: the whole block, in reverse order, in one transaction.    *)
(***************************************************************************)
DishesOf(id) == {journal[i].batch : i \in {j \in RowsOf(id) : journal[j].part = "dish"}}

\* Rows of the meal's dish that the meal did not write.
Foreign(id) == {i \in UNION {OnBatch(d) : d \in DishesOf(id)} : journal[i].meal # id}

QuantityOf(S) == SumFunction([i \in S |-> journal[i].quantity])

\* What dish d is left with: reversed last to first, what was eaten is back
\* before the dish is taken out, so only the end result can be negative.
DishAfter(d, S) == dishes[d].remaining - QuantityOf(S \cap OnBatch(d))

CanCorrectMeal(id) ==
    /\ id \in Live /\ meals[id].state = "done"
    /\ RowsOf(id) # {}
    /\ Foreign(id) = {}
    /\ \A i \in RowsOf(id) : ~Corrected(i)
    /\ \A d \in DishesOf(id) : DishAfter(d, RowsOf(id)) >= 0

\* mutant: only the `cooked` rows of the block are reversed
BlockCookedOnly(id) == {i \in RowsOf(id) : journal[i].part # "eaten"}

\* What a correction takes back: all that names the meal.
Block(id) == RowsOf(id)

\* The block, the last row written first.
LastFirst(S) ==
    {f \in Bijection(1..Cardinality(S), S) : \A i, j \in DOMAIN f : i < j => f[i] > f[j]}

CorrectMeal(id) ==
    LET block == Block(id)
    IN  /\ CanCorrectMeal(id)
        /\ \E order \in LastFirst(block) :
              Write([k \in 1..Cardinality(block) |-> Reversal(order[k])])
        /\ pantry' = [pantry EXCEPT !.remaining = @ - QuantityOf(block \cap OnBatch(0))]
        /\ dishes' = [d \in DOMAIN dishes |->
                         [dishes[d] EXCEPT !.remaining = DishAfter(d, block)]]
        /\ SetState(id, "planned")
        /\ UNCHANGED <<planned, calls>>

(***************************************************************************)
(* The rest of the house                                                   *)
(***************************************************************************)
\* consume_batch, one unit of the pantry or one part of a dish.
EatPantry ==
    /\ pantry.remaining > 0
    /\ pantry' = [pantry EXCEPT !.remaining = @ - 1]
    /\ Write(<<NewRow(Null, "other", 0, -1, pantry.rate)>>)
    /\ UNCHANGED <<meals, planned, dishes, calls>>

EatDish(d) ==
    /\ dishes[d].remaining > 0
    /\ dishes' = [dishes EXCEPT ![d].remaining = @ - 1]
    /\ Write(<<NewRow(Null, "other", d, -1, 0)>>)
    /\ UNCHANGED <<meals, planned, pantry, calls>>

Undo(i) ==
    LET b == journal[i].batch
    IN  /\ journal[i].corrects = Null /\ ~Corrected(i)
        /\ IF b = 0
           THEN /\ pantry' = [pantry EXCEPT !.remaining = @ - journal[i].quantity]
                /\ UNCHANGED dishes
           ELSE /\ dishes' = [dishes EXCEPT ![b].remaining = @ - journal[i].quantity]
                /\ UNCHANGED pantry
        /\ Write(<<Reversal(i)>>)
        /\ UNCHANGED <<meals, planned, calls>>

\* mutant: check_correctable lets a `cooked` outing through
CorrectAnyOuting(i) == journal[i].quantity < 0 /\ Undo(i)

\* correct_movement: a row with reason `cooked` is refused on its own.  What is
\* given back cannot make a batch negative.
CorrectMovement(i) == journal[i].part \in {"eaten", "other"} /\ Undo(i)

\* Another price is shown by the batch a cooking would take from: its price was
\* corrected, or a batch that goes first was bought.
PantryRepriced(rate) ==
    /\ pantry' = [pantry EXCEPT !.rate = rate]
    /\ UNCHANGED <<meals, planned, dishes, journal, calls>>

Init ==
    /\ meals = [id \in MealIds |-> Null] /\ planned = 0
    /\ pantry \in [remaining : {MaxPantry}, rate : Rates]
    /\ dishes = <<>> /\ journal = <<>>
    /\ calls = [t \in Threads |-> Idle]

Next ==
    \/ \E k \in Kinds : PlanMeal(k)
    \/ \E id \in MealIds : CancelMeal(id) \/ CorrectMeal(id)
    \/ \E t \in Threads, id \in MealIds : SkipMeal(t, id) \/ LookForReplay(t, id)
    \/ \E t \in Threads : SkipDoneMeal(t) \/ PreviewMeal(t) \/ Return(t)
    \/ \E t \in Threads, eaten \in 0..Parts : WriteMeal(t, eaten)
    \/ EatPantry
    \/ \E d \in DOMAIN dishes : EatDish(d)
    \/ \E i \in Rows : CorrectMovement(i)
    \/ \E r \in Rates : PantryRepriced(r)

Spec == Init /\ [][Next]_vars

(***************************************************************************)
(* What must hold                                                          *)
(***************************************************************************)
Stands(i)       == journal[i].corrects = Null /\ ~Corrected(i)
StandingOf(uid) == {i \in Rows : journal[i].owner = uid /\ Stands(i)}

(* However validations, single corrections, block corrections and leftovers
   interleave, a batch holds what the journal says came in and went out. *)
BatchesHoldWhatCameIn ==
    /\ pantry.remaining = MaxPantry + QuantityOf(OnBatch(0))
    /\ \A d \in DOMAIN dishes :
          /\ dishes[d].remaining = QuantityOf(OnBatch(d))
          /\ dishes[d].remaining \in 0..Parts

(* Two panels that validate one meal at once, or a retry that crosses its
   first answer, take its ingredients out once and cook one dish. *)
CookedOnce ==
    \A uid \in 1..planned, part \in {"ing", "dish", "eaten"} :
        Cardinality({i \in StandingOf(uid) : journal[i].part = part}) <= 1

(* A cooking is undone as a block or not at all: no dish is left in the
   fridge whose ingredients went back to the pantry, nor the reverse.  The
   rows of one cooking follow each other and name the same meal. *)
OneCooking(i, j) ==
    /\ j = i + 1 /\ journal[i].meal # Null /\ journal[i].meal = journal[j].meal
    /\ journal[i].part = "ing" /\ journal[j].part = "dish"

CookingIsOneBlock ==
    \A i, j \in Rows : OneCooking(i, j) => (Corrected(i) <=> Corrected(j))

(* A meal shown as planned has taken nothing that still counts: neither an
   ingredient, nor a dish, nor an eaten part. *)
PlannedTookNothing ==
    \A id \in Live : meals[id].state = "planned" => StandingOf(meals[id].uid) = {}

(* What nobody may find wrong in the meals, and in the batches they use. *)
MealsSound        == CookedOnce /\ PlannedTookNothing
StockIsTheJournal == TypeOK /\ BatchesHoldWhatCameIn

(* cancel_meal: deleting a done meal "would destroy the reference the journal
   already carries -- and the journal is append-only precisely so that cannot
   happen".  A standing row that was written for a meal still names it. *)
JournalNamesItsMeal ==
    \A i \in Rows : journal[i].owner # Null /\ Stands(i) =>
                        Uid(journal[i].meal) = journal[i].owner

(* _write_dish_within: "valued from what actually left it". *)
DishWorthWhatLeft ==
    \A i, j \in Rows :
        OneCooking(i, j) => dishes[journal[j].batch].worth = journal[i].cost

(* "corrigez la consommation fautive, ou finissez le plat avant d'annuler le
   repas": once every outing of the dish the meal did not write is corrected,
   the meal can be corrected. *)
AdviceHelps ==
    \A id \in Live :
        /\ meals[id].state = "done"
        /\ RowsOf(id) # {} /\ \A i \in RowsOf(id) : Stands(i)
        /\ \A i \in Foreign(id) : ~Stands(i)
        => CanCorrectMeal(id)

(* correct_meal puts the meal back to planned: a validation of a planned meal
   is never taken for the replay of one that was corrected. *)
ReplayOfADoneMeal ==
    [][\A t \in Threads :
          calls'[t].pc = "replayed" /\ calls[t].pc # "replayed" =>
              LET id == calls'[t].meal
              IN  id \in Live => meals[id].state # "planned"]_vars

(* skip_meal: "a second tap on the button is harmless": it deletes no meal. *)
SkipDeletesNothing ==
    [][\A t \in Threads : calls[t].pc = "skipping" /\ calls'[t].pc = "idle" =>
          \A id \in Live : meals'[id] # Null]_vars
=============================================================================

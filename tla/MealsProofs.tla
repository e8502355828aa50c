----------------------------- MODULE MealsProofs -----------------------------
(***************************************************************************)
(* Theorems about Meals, for every number of threads, meals and dishes: a  *)
(* meal is cooked once, a meal that is planned has taken nothing, a        *)
(* cooking is undone as a block, and batches hold what the journal says.   *)
(*                                                                         *)
(* A row names a meal by an id that may come back.  What carries the three *)
(* is that ids and meals never disagree about a row that stands: the rows  *)
(* written for one meal all name the id it has, if it is still there       *)
(* (`OwnersNamed`), and the keys keep two rows of one id apart.            *)
(*                                                                         *)
(* What a batch holds is a sum over the journal.  It stays between nothing *)
(* and the parts of the dish because rows come in mirrored pairs: what is  *)
(* left, once they are set aside, has one row that brings something.       *)
(***************************************************************************)
EXTENDS Meals, SumProofs, SequenceTheorems, FiniteSetTheorems, TLAPS

(***************************************************************************)
(* The inductive invariant                                                 *)
(***************************************************************************)
\* The part of TypeOK the rows depend on.  What batches hold is a sum over the
\* journal and is left out.
Shape ==
    /\ meals \in [MealIds -> Meal \cup {Null}]
    /\ planned \in Nat
    /\ pantry \in [remaining : {pantry.remaining}, rate : Nat]
    /\ \E S : dishes \in Seq(S)
    /\ journal \in Seq(Row)
    /\ calls \in [Threads -> Call]

KeysApart ==
    \A i, j \in Rows :
        /\ journal[i].meal # Null
        /\ journal[i].meal = journal[j].meal /\ journal[i].part = journal[j].part
        => i = j

OwnersNamed ==
    \A i \in Rows : journal[i].corrects = Null =>
        /\ journal[i].owner # Null =>
              journal[i].meal # Null /\ journal[i].owner <= planned
        /\ \A id \in Live : meals[id].uid = journal[i].owner => journal[i].meal = id
        /\ \A j \in Rows :
              /\ journal[j].corrects = Null /\ journal[i].owner # Null
              /\ journal[j].owner = journal[i].owner
              => journal[j].meal = journal[i].meal

UidsApart ==
    \A id \in Live :
        /\ meals[id].uid <= planned
        /\ \A other \in Live : meals[other].uid = meals[id].uid => other = id

\* A reversal comes after the row it takes back and names no meal.
BackRefs ==
    \A c \in Rows : journal[c].corrects # Null =>
        journal[c].meal = Null /\ journal[c].corrects < c

MealsInv ==
    /\ Shape /\ KeysApart /\ OwnersNamed /\ UidsApart /\ BackRefs
    /\ PlannedTookNothing /\ CookingIsOneBlock

(***************************************************************************)
(* Helpers                                                                 *)
(***************************************************************************)
LEMMA LiveMeals ==
    ASSUME Shape
    PROVE  \A id \in Live : id \in MealIds /\ id # Null /\ meals[id] \in Meal
                            /\ meals[id].uid \in Nat /\ meals[id].uid # Null
BY NullIsNoNumber, MealsConstants DEF Live, Shape, Meal, MealIds

\* Rows are appended; those that were there keep their numbers.
LEMMA Appended ==
    ASSUME journal \in Seq(Row), NEW rows \in Seq(Row), Write(rows)
    PROVE  /\ journal' \in Seq(Row)
           /\ \A i \in Rows : i \in Rows' /\ journal'[i] = journal[i]
           /\ \A i \in Rows' :
                 \/ i \in Rows
                 \/ \E k \in DOMAIN rows : /\ i = Len(journal) + k
                                           /\ journal'[i] = rows[k]
           /\ Rows = 1..Len(journal) /\ Len(journal) \in Nat
<1>1. journal' = journal \o rows
  BY DEF Write
<1>2. /\ Len(journal) \in Nat /\ Len(rows) \in Nat
      /\ DOMAIN journal = 1..Len(journal) /\ DOMAIN rows = 1..Len(rows)
  OBVIOUS
<1>3. /\ journal' \in Seq(Row) /\ Len(journal') = Len(journal) + Len(rows)
      /\ DOMAIN journal' = 1..(Len(journal) + Len(rows))
  BY <1>1, <1>2
<1>4. \A i \in 1..(Len(journal) + Len(rows)) :
         journal'[i] = IF i <= Len(journal) THEN journal[i] ELSE rows[i - Len(journal)]
  BY <1>1, <1>2
<1>5. \A i \in Rows' : i \notin Rows =>
         /\ i - Len(journal) \in DOMAIN rows
         /\ i = Len(journal) + (i - Len(journal))
         /\ journal'[i] = rows[i - Len(journal)]
  <2> SUFFICES ASSUME NEW i \in 1..(Len(journal) + Len(rows)), i \notin 1..Len(journal)
               PROVE  /\ i - Len(journal) \in 1..Len(rows)
                      /\ i = Len(journal) + (i - Len(journal))
                      /\ journal'[i] = rows[i - Len(journal)]
    BY <1>2, <1>3 DEF Rows
  <2>1. i > Len(journal)
    BY <1>2
  <2>2. QED
    BY <2>1, <1>2, <1>4
<1>6. \A i \in Rows : i \in Rows' /\ journal'[i] = journal[i]
  BY <1>2, <1>3, <1>4 DEF Rows
<1>7. QED
  BY <1>2, <1>3, <1>5, <1>6 DEF Rows

\* Each row that is written is in the journal.
LEMMA AppendedAll ==
    ASSUME journal \in Seq(Row), NEW rows \in Seq(Row), Write(rows), NEW k \in DOMAIN rows
    PROVE  \E i \in Rows' : journal'[i] = rows[k]
<1>1. journal' = journal \o rows
  BY DEF Write
<1>2. /\ Len(journal) \in Nat /\ Len(rows) \in Nat /\ k \in 1..Len(rows)
  OBVIOUS
<1>3. Len(journal) + k \in DOMAIN journal' /\ journal'[Len(journal) + k] = rows[k]
  BY <1>1, <1>2
<1>4. QED
  BY <1>3 DEF Rows

\* What the rows of a step owe the journal: each is about no meal, or takes an
\* earlier one back, or is the first of its id and part.
Joins(rows) ==
    /\ \A k \in DOMAIN rows :
          \/ rows[k].corrects = Null /\ rows[k].meal = Null /\ rows[k].owner = Null
          \/ \E i \in Rows : rows[k] = Reversal(i)
          \/ /\ rows[k].corrects = Null /\ rows[k].meal \in MealIds
             /\ rows[k].owner = Uid(rows[k].meal)
             /\ \A j \in Rows : journal[j].meal = rows[k].meal =>
                                    journal[j].part # rows[k].part
    /\ \A k, l \in DOMAIN rows :
          /\ rows[k].meal # Null
          /\ rows[k].meal = rows[l].meal /\ rows[k].part = rows[l].part
          => k = l

LEMMA ReversalFields ==
    ASSUME Shape, NEW i \in Rows
    PROVE  /\ Reversal(i) \in Row /\ Reversal(i).meal = Null
           /\ Reversal(i).corrects = i /\ i \in Nat /\ i # Null
           /\ Reversal(i).part = journal[i].part
<1> DEFINE r == journal[i]
<1>1. r \in Row /\ i \in Nat
  BY DEF Shape, Rows
<1>2. r.quantity \in Int /\ -r.quantity \in Int
  BY <1>1 DEF Row
<1>3. Reversal(i) = [r EXCEPT !.meal = Null, !.quantity = -r.quantity, !.corrects = i]
  BY DEF Reversal
<1>4. r.part = journal[i].part
  OBVIOUS
<1>5. QED
  <2> HIDE DEF r
  <2>1. Reversal(i) \in Row
    BY <1>1, <1>2, <1>3 DEF Row
  <2>2. QED
    BY <1>1, <1>3, <1>4, <2>1, NullIsNoNumber DEF Row

\* Rows that join keep ids and meals in agreement, if no meal changes its id.
LEMMA JoiningRows ==
    ASSUME Shape, KeysApart, OwnersNamed, UidsApart, BackRefs,
           NEW rows \in Seq(Row), Joins(rows), Write(rows),
           planned' = planned, Live' = Live,
           \A id \in Live : meals'[id].uid = meals[id].uid
    PROVE  KeysApart' /\ OwnersNamed' /\ UidsApart' /\ BackRefs'
<1> DEFINE n == Len(journal)
<1>1. /\ \A i \in Rows : i \in Rows' /\ journal'[i] = journal[i] /\ i \in Nat /\ i <= n
      /\ \A i \in Rows' : \/ i \in Rows
                          \/ \E k \in DOMAIN rows : i = n + k /\ journal'[i] = rows[k]
      /\ n \in Nat /\ DOMAIN rows \subseteq Nat \ {0}
  BY Appended DEF Shape
<1> HIDE DEF n
<1>2. \A k \in DOMAIN rows : rows[k].corrects # Null =>
         rows[k].meal = Null /\ rows[k].corrects \in Rows
  BY ReversalFields DEF Joins
<1>3. \A k \in DOMAIN rows : rows[k].meal # Null =>
         /\ rows[k].corrects = Null /\ rows[k].meal \in MealIds
         /\ rows[k].owner = Uid(rows[k].meal)
         /\ \A j \in Rows : journal[j].meal = rows[k].meal =>
                                journal[j].part # rows[k].part
  BY ReversalFields DEF Joins
<1>4. \A k \in DOMAIN rows : rows[k].corrects = Null /\ rows[k].owner # Null =>
         /\ rows[k].meal \in Live /\ rows[k].owner = meals[rows[k].meal].uid
         /\ rows[k].meal # Null
  BY ReversalFields, LiveMeals DEF Joins, Uid
<1>5. KeysApart'
  <2> SUFFICES ASSUME NEW i \in Rows', NEW j \in Rows',
                      journal'[i].meal # Null, journal'[i].meal = journal'[j].meal,
                      journal'[i].part = journal'[j].part
               PROVE  i = j
    BY DEF KeysApart
  <2>1. CASE i \in Rows /\ j \in Rows
    BY <2>1, <1>1 DEF KeysApart
  <2>2. CASE i \notin Rows /\ j \in Rows
    BY <2>2, <1>1, <1>3
  <2>3. CASE i \in Rows /\ j \notin Rows
    BY <2>3, <1>1, <1>3
  <2>4. CASE i \notin Rows /\ j \notin Rows
    BY <2>4, <1>1 DEF Joins
  <2>5. QED
    BY <2>1, <2>2, <2>3, <2>4
<1>6. OwnersNamed'
  <2> SUFFICES ASSUME NEW i \in Rows', journal'[i].corrects = Null
               PROVE  /\ journal'[i].owner # Null =>
                            journal'[i].meal # Null /\ journal'[i].owner <= planned
                      /\ \A id \in Live : meals[id].uid = journal'[i].owner =>
                                              journal'[i].meal = id
                      /\ \A j \in Rows' :
                            /\ journal'[j].corrects = Null /\ journal'[i].owner # Null
                            /\ journal'[j].owner = journal'[i].owner
                            => journal'[j].meal = journal'[i].meal
    BY DEF OwnersNamed
  <2>1. journal'[i].owner # Null =>
            journal'[i].meal # Null /\ journal'[i].owner <= planned
    <3>1. CASE i \in Rows
      BY <3>1, <1>1 DEF OwnersNamed
    <3>2. CASE i \notin Rows
      BY <3>2, <1>1, <1>4 DEF UidsApart
    <3>3. QED
      BY <3>1, <3>2
  <2>2. \A id \in Live : meals[id].uid = journal'[i].owner => journal'[i].meal = id
    <3>1. CASE i \in Rows
      BY <3>1, <1>1 DEF OwnersNamed
    <3>2. CASE i \notin Rows
      BY <3>2, <1>1, <1>4, LiveMeals DEF UidsApart
    <3>3. QED
      BY <3>1, <3>2
  <2>3. ASSUME NEW j \in Rows', journal'[j].corrects = Null, journal'[i].owner # Null,
               journal'[j].owner = journal'[i].owner
        PROVE  journal'[j].meal = journal'[i].meal
    <3>1. CASE i \in Rows /\ j \in Rows
      BY <2>3, <3>1, <1>1 DEF OwnersNamed
    <3>2. CASE i \in Rows /\ j \notin Rows
      BY <2>3, <3>2, <1>1, <1>4 DEF OwnersNamed
    <3>3. CASE i \notin Rows /\ j \in Rows
      BY <2>3, <3>3, <1>1, <1>4 DEF OwnersNamed
    <3>4. CASE i \notin Rows /\ j \notin Rows
      BY <2>3, <3>4, <1>1, <1>4 DEF UidsApart
    <3>5. QED
      BY <3>1, <3>2, <3>3, <3>4
  <2>4. QED
    BY <2>1, <2>2, <2>3
<1>7. UidsApart'
  BY DEF UidsApart
<1>8. BackRefs'
  <2> SUFFICES ASSUME NEW c \in Rows', journal'[c].corrects # Null
               PROVE  journal'[c].meal = Null /\ journal'[c].corrects < c
    BY DEF BackRefs
  <2>1. CASE c \in Rows
    BY <2>1, <1>1 DEF BackRefs
  <2>2. CASE c \notin Rows
    BY <2>2, <1>1, <1>2
  <2>3. QED
    BY <2>1, <2>2
<1>9. QED
  BY <1>5, <1>6, <1>7, <1>8

(***************************************************************************)
(* Steps that write no row                                                 *)
(***************************************************************************)
\* No row is written, and a meal keeps its id, or is new under an id and a uid
\* of its own; none becomes planned again.
MealsKept ==
    /\ journal' = journal /\ planned' \in Nat /\ planned <= planned'
    /\ \A id \in Live' :
          \/ /\ id \in Live /\ meals'[id].uid = meals[id].uid
             /\ meals'[id].state = "planned" => meals[id].state = "planned"
          \/ /\ meals'[id].uid = planned + 1 /\ planned' = planned + 1
             /\ \A other \in Live' : meals'[other].uid = planned + 1 => other = id

LEMMA QuietStep ==
    ASSUME MealsInv, MealsKept, Shape'
    PROVE  MealsInv'
<1>1. /\ Rows' = Rows /\ \A i \in Rows : journal'[i] = journal[i]
      /\ \A i : Corrected(i)' <=> Corrected(i)
      /\ \A i : Stands(i)' <=> Stands(i)
  BY DEF MealsKept, Rows, Corrected, Stands
<1>2. \A id \in Live : meals[id].uid \in Nat /\ meals[id].uid <= planned
  BY LiveMeals DEF MealsInv, UidsApart
<1>3. \A i \in Rows : journal[i].owner \in Nat \cup {Null}
  <2>1. \A i \in Rows : journal[i] \in Row
    BY DEF MealsInv, Shape, Rows
  <2>2. QED
    BY <2>1 DEF Row
<1>4. planned \in Nat
  BY DEF MealsInv, Shape
<1>5. KeysApart' /\ BackRefs'
  BY <1>1 DEF MealsInv, KeysApart, BackRefs
<1>6. UidsApart'
  BY <1>2, <1>4 DEF MealsKept, MealsInv, UidsApart
<1>7. \A i \in Rows, id \in Live' :
         /\ journal[i].corrects = Null /\ meals'[id].uid = journal[i].owner
         => id \in Live /\ meals'[id].uid = meals[id].uid
            /\ (meals'[id].state = "planned" => meals[id].state = "planned")
  <2> SUFFICES ASSUME NEW i \in Rows, NEW id \in Live', journal[i].corrects = Null,
                      meals'[id].uid = journal[i].owner, meals'[id].uid = planned + 1
               PROVE  FALSE
    BY DEF MealsKept
  <2>1. journal[i].owner \in Nat /\ journal[i].owner # Null
    BY <1>4, NullIsNoNumber
  <2>2. journal[i].owner <= planned
    BY <2>1 DEF MealsInv, OwnersNamed
  <2>3. QED
    BY <1>4, <2>1, <2>2
<1>8. OwnersNamed'
  <2> SUFFICES ASSUME NEW i \in Rows, journal[i].corrects = Null
               PROVE  /\ journal[i].owner # Null =>
                            journal[i].meal # Null /\ journal[i].owner <= planned'
                      /\ \A id \in Live' : meals'[id].uid = journal[i].owner =>
                                              journal[i].meal = id
                      /\ \A j \in Rows :
                            /\ journal[j].corrects = Null /\ journal[i].owner # Null
                            /\ journal[j].owner = journal[i].owner
                            => journal[j].meal = journal[i].meal
    BY <1>1 DEF OwnersNamed
  <2>1. journal[i].owner # Null => journal[i].meal # Null /\ journal[i].owner <= planned'
    BY <1>3, <1>4 DEF MealsInv, OwnersNamed, MealsKept
  <2>2. QED
    BY <1>7, <2>1 DEF MealsInv, OwnersNamed
<1>9. PlannedTookNothing'
  <2> SUFFICES ASSUME NEW id \in Live', meals'[id].state = "planned",
                      NEW i \in Rows, journal[i].owner = meals'[id].uid, Stands(i)
               PROVE  FALSE
    BY <1>1 DEF PlannedTookNothing, StandingOf
  <2>1. id \in Live /\ meals'[id].uid = meals[id].uid /\ meals[id].state = "planned"
    BY <1>7 DEF Stands
  <2>2. i \in StandingOf(meals[id].uid)
    BY <2>1 DEF StandingOf
  <2>3. QED
    BY <2>1, <2>2 DEF MealsInv, PlannedTookNothing
<1>10. CookingIsOneBlock'
  BY <1>1 DEF MealsInv, CookingIsOneBlock, OneCooking
<1>11. QED
  BY <1>5, <1>6, <1>8, <1>9, <1>10 DEF MealsInv

\* The state of one meal changes to a state that is not planned, or the meal
\* is deleted.
LEMMA OneMealEnds ==
    ASSUME Shape, NEW id \in Live, journal' = journal, planned' = planned,
           \/ \E state \in {"done", "skipped"} : SetState(id, state)
           \/ meals' = [meals EXCEPT ![id] = Null]
    PROVE  MealsKept /\ meals' \in [MealIds -> Meal \cup {Null}]
<1>1. /\ meals \in [MealIds -> Meal \cup {Null}] /\ id \in MealIds /\ meals[id] \in Meal
      /\ planned \in Nat /\ Live = {i \in MealIds : meals[i] # Null}
  BY LiveMeals DEF Shape, Live
<1>2. CASE meals' = [meals EXCEPT ![id] = Null]
  BY <1>1, <1>2 DEF MealsKept, Live
<1>3. ASSUME NEW state \in {"done", "skipped"}, SetState(id, state)
      PROVE  MealsKept /\ meals' \in [MealIds -> Meal \cup {Null}]
  <2> DEFINE new == [meals[id] EXCEPT !.state = state]
  <2>1. new \in Meal /\ new.uid = meals[id].uid /\ new.state = state
    BY <1>1 DEF Meal
  <2>2. meals' = [meals EXCEPT ![id] = new]
    BY <1>3 DEF SetState
  <2>3. meals'[id] = new /\ \A other \in MealIds \ {id} : meals'[other] = meals[other]
    BY <1>1, <2>2
  <2>4. QED
    <3> HIDE DEF new
    <3> QED BY <1>1, <2>1, <2>2, <2>3 DEF MealsKept, Live
<1>4. QED
  BY <1>2, <1>3

LEMMA PlanStep ==
    ASSUME MealsInv, NEW kind \in Kinds, PlanMeal(kind)
    PROVE  MealsInv'
<1> DEFINE row == [uid |-> planned + 1, kind |-> kind, state |-> "planned"]
<1>1. planned \in Nat /\ row \in Meal /\ row.uid = planned + 1
  BY DEF MealsInv, Shape, Meal
<1>2. NextId \in MealIds /\ meals' = [meals EXCEPT ![NextId] = row]
      /\ planned' = planned + 1 /\ journal' = journal
      /\ UNCHANGED <<pantry, dishes, calls>>
  BY DEF PlanMeal
<1>3. meals \in [MealIds -> Meal \cup {Null}]
  BY DEF MealsInv, Shape
<1>4. meals'[NextId] = row /\ \A id \in MealIds \ {NextId} : meals'[id] = meals[id]
  BY <1>2, <1>3
<1>5. \A id \in Live : meals[id].uid \in Nat /\ meals[id].uid <= planned
  BY LiveMeals DEF MealsInv, UidsApart
<1>6. MealsKept
  <2> HIDE DEF row
  <2> QED BY <1>1, <1>2, <1>4, <1>5 DEF MealsKept, Live
<1>7. meals' \in [MealIds -> Meal \cup {Null}]
  <2> HIDE DEF row
  <2> QED BY <1>1, <1>2, <1>3
<1>8. Shape'
  BY <1>1, <1>2, <1>7 DEF MealsInv, Shape
<1>9. QED
  BY <1>6, <1>8, QuietStep

\* Cancelling, skipping, looking and simulating, and what the pantry shows.
LEMMA QuietSteps ==
    ASSUME MealsInv,
           \/ \E id \in MealIds : CancelMeal(id)
           \/ \E t \in Threads, id \in MealIds : SkipMeal(t, id) \/ LookForReplay(t, id)
           \/ \E t \in Threads : SkipDoneMeal(t) \/ PreviewMeal(t) \/ Return(t)
           \/ \E r \in Rates : PantryRepriced(r)
           \/ UNCHANGED vars
    PROVE  MealsInv'
<1>1. journal' = journal /\ planned' = planned /\ dishes' = dishes
  BY DEF CancelMeal, SkipMeal, LookForReplay, SkipDoneMeal, PreviewMeal, Return,
         PantryRepriced, vars
<1>2. Idle \in Call
  BY DEF Idle, Call
<1>3. calls' \in [Threads -> Call]
  <2>1. calls \in [Threads -> Call] /\ pantry.rate \in Nat
    BY DEF MealsInv, Shape
  <2>2. ASSUME NEW t \in Threads, NEW id \in MealIds, SkipMeal(t, id)
        PROVE  calls' \in [Threads -> Call]
    <3>1. [Idle EXCEPT !.pc = "skipping", !.meal = id] \in Call
      BY <1>2 DEF Call
    <3>2. calls' = calls \/ calls' = [calls EXCEPT ![t] = [Idle EXCEPT !.pc = "skipping", !.meal = id]]
      BY <2>2 DEF SkipMeal
    <3>3. QED
      BY <2>1, <3>1, <3>2
  <2>3. ASSUME NEW t \in Threads, NEW id \in MealIds, LookForReplay(t, id)
        PROVE  calls' \in [Threads -> Call]
    <3>1. \A pc \in {"replayed", "looked"} : [Idle EXCEPT !.meal = id, !.pc = pc] \in Call
      BY <1>2 DEF Call
    <3>2. PICK pc \in {"replayed", "looked"} :
             calls' = [calls EXCEPT ![t] = [Idle EXCEPT !.meal = id, !.pc = pc]]
      BY <2>3 DEF LookForReplay
    <3>3. QED
      BY <2>1, <3>1, <3>2
  <2>4. ASSUME NEW t \in Threads, PreviewMeal(t)
        PROVE  calls' \in [Threads -> Call]
    <3> DEFINE id  == calls[t].meal
               new == [pc |-> "previewed", meal |-> id, kind |-> meals[id].kind,
                       rate |-> pantry.rate]
    <3>1. id \in Live => new \in Call
      <4> SUFFICES ASSUME id \in Live PROVE new \in Call
        OBVIOUS
      <4>1. id \in MealIds /\ meals[id].kind \in Kinds
        BY LiveMeals DEF MealsInv, Meal
      <4>2. QED
        BY <2>1, <4>1 DEF Call
    <3>2. calls' = [calls EXCEPT ![t] =
                       IF /\ id \in Live /\ meals[id].state # "done"
                          /\ pantry.remaining >= Takes(meals[id].kind)
                       THEN new ELSE Idle]
      BY <2>4 DEF PreviewMeal
    <3>3. QED
      <4> HIDE DEF new, id
      <4> QED BY <1>2, <2>1, <3>1, <3>2
  <2>5. ASSUME NEW t \in Threads, SkipDoneMeal(t) \/ Return(t)
        PROVE  calls' \in [Threads -> Call]
    BY <1>2, <2>1, <2>5 DEF SkipDoneMeal, Return
  <2>6. QED
    BY <2>1, <2>2, <2>3, <2>4, <2>5 DEF CancelMeal, PantryRepriced, vars
<1>4. pantry' \in [remaining : {pantry'.remaining}, rate : Nat]
  <2>1. pantry \in [remaining : {pantry.remaining}, rate : Nat]
    BY DEF MealsInv, Shape
  <2>2. ASSUME NEW r \in Rates, PantryRepriced(r)
        PROVE  pantry' \in [remaining : {pantry'.remaining}, rate : Nat]
    <3>1. r \in Nat
      BY MealsConstants
    <3>2. QED
      BY <2>1, <2>2, <3>1 DEF PantryRepriced
  <2>3. CASE pantry' = pantry
    BY <2>1, <2>3
  <2>4. QED
    BY <2>2, <2>3 DEF CancelMeal, SkipMeal, LookForReplay, SkipDoneMeal, PreviewMeal,
       Return, vars
<1>5. MealsKept /\ meals' \in [MealIds -> Meal \cup {Null}]
  <2>1. Shape
    BY DEF MealsInv
  <2>2. ASSUME NEW id \in Live, Cancelled(id)
        PROVE  MealsKept /\ meals' \in [MealIds -> Meal \cup {Null}]
    BY <1>1, <2>1, <2>2, OneMealEnds DEF Cancelled
  <2>3. CASE meals' = meals
    BY <1>1, <2>1, <2>3 DEF MealsKept, Live, Shape
  <2>4. ASSUME NEW id \in MealIds, NEW t \in Threads, SkipMeal(t, id)
        PROVE  meals' = meals \/ (id \in Live /\ SetState(id, "skipped"))
    BY <2>4 DEF SkipMeal
  <2>5. ASSUME NEW id \in Live, SetState(id, "skipped")
        PROVE  MealsKept /\ meals' \in [MealIds -> Meal \cup {Null}]
    BY <1>1, <2>1, <2>5, OneMealEnds
  <2>6. QED
    BY <2>2, <2>3, <2>4, <2>5 DEF CancelMeal, LookForReplay, SkipDoneMeal, PreviewMeal,
       Return, PantryRepriced, vars
<1>6. QED
  BY <1>1, <1>3, <1>4, <1>5, QuietStep DEF MealsInv, Shape

(***************************************************************************)
(* Steps that write rows                                                   *)
(***************************************************************************)
\* What is still standing, and what is corrected, once rows have joined.
LEMMA StandingAfter ==
    ASSUME Shape, BackRefs, NEW rows \in Seq(Row), Joins(rows), Write(rows)
    PROVE  /\ \A i \in Rows : i \in Rows' /\ journal'[i] = journal[i] /\ i \in Nat
           /\ \A i \in Rows : Corrected(i) => Corrected(i)'
           /\ \A i \in Rows : Stands(i)' => Stands(i)
           /\ \A i \in Rows' \ Rows : \E k \in DOMAIN rows :
                 i = Len(journal) + k /\ journal'[i] = rows[k]
           /\ \A i \in Rows' \ Rows : ~Corrected(i)'
           /\ \A i \in Rows : Corrected(i)' =>
                 Corrected(i) \/ \E k \in DOMAIN rows : rows[k] = Reversal(i)
<1>1. /\ journal' \in Seq(Row)
      /\ \A i \in Rows : i \in Rows' /\ journal'[i] = journal[i] /\ i \in Nat
      /\ \A i \in Rows' \ Rows : \E k \in DOMAIN rows :
            i = Len(journal) + k /\ journal'[i] = rows[k]
      /\ Rows = 1..Len(journal) /\ Len(journal) \in Nat
  BY Appended DEF Shape
<1>2. \A k \in DOMAIN rows : rows[k].corrects # Null =>
         rows[k].corrects \in Rows /\ rows[k] = Reversal(rows[k].corrects)
  BY ReversalFields DEF Joins
<1>3. \A c \in Rows' : journal'[c].corrects # Null =>
         journal'[c].corrects \in Rows \/ c \in Rows
  BY <1>1, <1>2
<1>4. \A c \in Rows : journal[c].corrects # Null => journal[c].corrects \in Int
  <2>1. \A c \in Rows : journal[c] \in Row
    BY DEF Shape, Rows
  <2>2. QED
    BY <2>1 DEF Row
<1>5. \A i \in Rows' \ Rows : ~Corrected(i)'
  <2> SUFFICES ASSUME NEW i \in Rows', i \notin Rows, NEW c \in Rows',
                      journal'[c].corrects = i
               PROVE  FALSE
    BY DEF Corrected
  <2>1. i \in Nat /\ i > Len(journal)
    BY <1>1 DEF Rows
  <2>2. journal'[c].corrects # Null
    BY <2>1, NullIsNoNumber
  <2>3. c \in Rows /\ journal[c].corrects = i
    BY <1>1, <1>2, <2>2
  <2>4. i < c
    BY <2>2, <2>3, <1>1 DEF BackRefs
  <2>5. QED
    BY <1>1, <2>1, <2>3, <2>4
<1>6. \A i \in Rows : Corrected(i) => Corrected(i)'
  BY <1>1 DEF Corrected
<1>7. \A i \in Rows : Stands(i)' => Stands(i)
  BY <1>1, <1>6 DEF Stands
<1>8. \A i \in Rows : Corrected(i)' =>
         Corrected(i) \/ \E k \in DOMAIN rows : rows[k] = Reversal(i)
  <2> SUFFICES ASSUME NEW i \in Rows, NEW c \in Rows', journal'[c].corrects = i, c \notin Rows
               PROVE  \E k \in DOMAIN rows : rows[k] = Reversal(i)
    BY <1>1 DEF Corrected
  <2>1. i # Null
    BY <1>1, NullIsNoNumber
  <2>2. QED
    BY <1>1, <1>2, <2>1
<1>9. QED
  BY <1>1, <1>5, <1>6, <1>7, <1>8

\* Nothing has corrected the last row yet.
LEMMA LastStands ==
    ASSUME journal \in Seq(Row), BackRefs, NEW i \in Rows, i + 1 \notin Rows
    PROVE  ~Corrected(i)
<1>1. i \in Nat /\ i # Null /\ \A c \in Rows : c \in Nat /\ ~(i < c)
  <2>1. Rows = 1..Len(journal) /\ Len(journal) \in Nat
    BY DEF Rows
  <2>2. QED
    BY <2>1, NullIsNoNumber
<1>2. QED
  BY <1>1 DEF Corrected, BackRefs

\* The rows of a validation name its meal, one for each part of the key.
LEMMA MealRowsFields ==
    ASSUME Shape, NEW id \in MealIds \cup {Null}, NEW kind, NEW eaten \in Nat
    PROVE  /\ MealRows(id, kind, eaten) \in Seq(Row)
           /\ \A k \in DOMAIN MealRows(id, kind, eaten) :
                 /\ MealRows(id, kind, eaten)[k].meal = id
                 /\ MealRows(id, kind, eaten)[k].corrects = Null
                 /\ MealRows(id, kind, eaten)[k].owner = IF id = Null THEN Null ELSE Uid(id)
           /\ \A k, l \in DOMAIN MealRows(id, kind, eaten) :
                 MealRows(id, kind, eaten)[k].part = MealRows(id, kind, eaten)[l].part
                 => k = l
<1> DEFINE owner == IF id = Null THEN Null ELSE Uid(id)
           d == Len(dishes) + 1
           of(part) == {r \in Row : r.meal = id /\ r.corrects = Null /\ r.owner = owner
                                      /\ r.part = part}
           ing   == IF Takes(kind) = 0 THEN <<>>
                    ELSE <<NewRow(id, "ing", 0, -Takes(kind), Takes(kind) * pantry.rate)>>
           dish  == IF Makes(kind) = 0 THEN <<>>
                    ELSE <<NewRow(id, "dish", d, Makes(kind), 0)>>
           taste == IF Makes(kind) = 0 \/ eaten = 0 THEN <<>>
                    ELSE <<NewRow(id, "eaten", d, -eaten, 0)>>
           rows  == MealRows(id, kind, eaten)
<1>1. Takes(kind) \in Nat /\ Makes(kind) \in Nat /\ d \in Nat /\ owner \in Nat \cup {Null}
  <2>1. Takes(kind) \in Nat /\ Makes(kind) \in Nat
    BY MealsConstants DEF Takes, Makes
  <2>2. d \in Nat
    BY DEF Shape
  <2>3. owner \in Nat \cup {Null}
    BY LiveMeals DEF Uid
  <2>4. QED
    BY <2>1, <2>2, <2>3
<1>2. Takes(kind) * pantry.rate \in Nat
  BY <1>1 DEF Shape
<1>3. ASSUME NEW part \in {"ing", "dish", "eaten"}, NEW b \in Nat, NEW q \in Int, NEW c \in Nat
      PROVE  NewRow(id, part, b, q, c) \in of(part)
  <2> HIDE DEF owner
  <2>1. NewRow(id, part, b, q, c) =
          [meal |-> id, part |-> part, batch |-> b, quantity |-> q, cost |-> c,
           corrects |-> Null, owner |-> owner]
    BY DEF NewRow, owner
  <2>2. QED
    BY <1>1, <2>1 DEF Row
<1> HIDE DEF of, d, owner
<1>0. -Takes(kind) \in Int /\ -eaten \in Int /\ 0 \in Nat /\ 0 \in Int /\ Makes(kind) \in Int
  BY <1>1
<1>4. /\ ing \in Seq(of("ing")) /\ Len(ing) \in 0..1
      /\ Len(ing) = 1 => ing[1] \in of("ing")
  <2>1. NewRow(id, "ing", 0, -Takes(kind), Takes(kind) * pantry.rate) \in of("ing")
    BY <1>1, <1>2, <1>3, <1>0
  <2>2. QED
    BY <2>1
<1>5. /\ dish \in Seq(of("dish")) /\ Len(dish) \in 0..1
      /\ Len(dish) = 1 => dish[1] \in of("dish")
  <2>1. NewRow(id, "dish", d, Makes(kind), 0) \in of("dish")
    BY <1>1, <1>2, <1>3, <1>0
  <2>2. QED
    BY <2>1
<1>6. /\ taste \in Seq(of("eaten")) /\ Len(taste) \in 0..1
      /\ Len(taste) = 1 => taste[1] \in of("eaten")
  <2>1. NewRow(id, "eaten", d, -eaten, 0) \in of("eaten")
    BY <1>1, <1>2, <1>3, <1>0
  <2>2. QED
    BY <2>1
<1>7. rows = ing \o dish \o taste
  BY DEF MealRows, d
<1> HIDE DEF ing, dish, taste, rows
<1> DEFINE any == of("ing") \cup of("dish") \cup of("eaten")
<1>8. /\ ing \in Seq(any) /\ dish \in Seq(any) /\ taste \in Seq(any)
      /\ ing \o dish \in Seq(any) /\ rows \in Seq(any)
  BY <1>4, <1>5, <1>6, <1>7
<1>9. any \subseteq Row
  BY DEF of
<1>10. \A k \in DOMAIN rows : rows[k] \in any
  BY <1>8
<1>11. \A k \in DOMAIN rows :
          /\ k \in Nat
          /\ rows[k].part = "ing"   => k = 1
          /\ rows[k].part = "dish"  => k = Len(ing) + 1
          /\ rows[k].part = "eaten" => k = Len(ing) + Len(dish) + 1
  <2> SUFFICES ASSUME NEW k \in DOMAIN rows
               PROVE  /\ k \in Nat
                      /\ rows[k].part = "ing"   => k = 1
                      /\ rows[k].part = "dish"  => k = Len(ing) + 1
                      /\ rows[k].part = "eaten" => k = Len(ing) + Len(dish) + 1
    OBVIOUS
  <2>1. /\ Len(ing \o dish) = Len(ing) + Len(dish)
        /\ \A m \in 1..(Len(ing) + Len(dish)) : (ing \o dish)[m] =
              IF m <= Len(ing) THEN ing[m] ELSE dish[m - Len(ing)]
        /\ k \in 1..(Len(ing) + Len(dish) + Len(taste))
        /\ rows[k] = IF k <= Len(ing) + Len(dish) THEN (ing \o dish)[k]
                                                 ELSE taste[k - (Len(ing) + Len(dish))]
    <3>1. /\ Len(ing) \in Nat /\ Len(dish) \in Nat /\ Len(taste) \in Nat
          /\ Len(ing \o dish) = Len(ing) + Len(dish)
          /\ \A m \in 1..(Len(ing) + Len(dish)) : (ing \o dish)[m] =
                IF m <= Len(ing) THEN ing[m] ELSE dish[m - Len(ing)]
      BY <1>8
    <3>2. QED
      BY <1>7, <1>8, <3>1
  <2>2. /\ Len(ing) \in 0..1 /\ Len(dish) \in 0..1 /\ Len(taste) \in 0..1
    BY <1>4, <1>5, <1>6
  <2>3. CASE k <= Len(ing)
    <3>1. k = 1 /\ Len(ing) = 1 /\ rows[k] = ing[1]
      BY <2>1, <2>2, <2>3
    <3>2. ing[1] \in of("ing")
      BY <1>4, <3>1
    <3>3. QED
      BY <3>1, <3>2 DEF of
  <2>4. CASE k > Len(ing) /\ k <= Len(ing) + Len(dish)
    <3>1. k = Len(ing) + 1 /\ Len(dish) = 1 /\ rows[k] = dish[1]
      BY <2>1, <2>2, <2>4
    <3>2. dish[1] \in of("dish")
      BY <1>5, <3>1
    <3>3. QED
      BY <2>1, <3>1, <3>2 DEF of
  <2>5. CASE k > Len(ing) + Len(dish)
    <3>1. k = Len(ing) + Len(dish) + 1 /\ Len(taste) = 1 /\ rows[k] = taste[1]
      BY <2>1, <2>2, <2>5
    <3>2. taste[1] \in of("eaten")
      BY <1>6, <3>1
    <3>3. QED
      BY <2>1, <3>1, <3>2 DEF of
  <2>6. QED
    BY <2>1, <2>2, <2>3, <2>4, <2>5
<1>12. rows \in Seq(Row)
  BY <1>8, <1>9
<1>13. \A k \in DOMAIN rows : /\ rows[k].meal = id /\ rows[k].corrects = Null
                               /\ rows[k].owner = owner
                               /\ rows[k].part \in {"ing", "dish", "eaten"}
  BY <1>10 DEF of
<1>14. \A k, l \in DOMAIN rows : rows[k].part = rows[l].part => k = l
  BY <1>11, <1>13
<1>15. QED
  BY <1>12, <1>13, <1>14 DEF rows, owner

LEMMA WriteStep ==
    ASSUME MealsInv, NEW t \in Threads, NEW eaten \in 0..Parts, WriteMeal(t, eaten)
    PROVE  MealsInv'
<1> DEFINE id   == calls[t].meal
           kind == calls[t].kind
           rows == MealRows(id, kind, eaten)
<1>1. id \in MealIds \cup {Null} /\ eaten \in Nat
  BY MealsConstants DEF MealsInv, Shape, Call
<1>2. /\ rows \in Seq(Row)
      /\ \A k \in DOMAIN rows : /\ rows[k].meal = id /\ rows[k].corrects = Null
                                /\ rows[k].owner = IF id = Null THEN Null ELSE Uid(id)
      /\ \A k, l \in DOMAIN rows : rows[k].part = rows[l].part => k = l
  <2> HIDE DEF id, kind
  <2>1. Shape
    BY DEF MealsInv
  <2>2. QED
    BY <1>1, <2>1, MealRowsFields
<1>3. Write(rows) /\ KeysFree(rows) /\ planned' = planned
  BY DEF WriteMeal, CanWrite
<1>4. meals' = IF id \in Live THEN [meals EXCEPT ![id].state = "done"] ELSE meals
  BY DEF WriteMeal, SetState
<1>5. /\ meals' \in [MealIds -> Meal \cup {Null}] /\ Live' = Live
      /\ \A other \in Live : /\ meals'[other].uid = meals[other].uid
                             /\ meals'[other].state = "planned" =>
                                    meals[other].state = "planned" /\ other # id
  <2>1. meals \in [MealIds -> Meal \cup {Null}]
    BY DEF MealsInv, Shape
  <2>2. CASE id \in Live
    <3> DEFINE new == [meals[id] EXCEPT !.state = "done"]
    <3>1. new \in Meal /\ new.uid = meals[id].uid /\ new.state = "done" /\ id \in MealIds
      BY <2>2, LiveMeals DEF MealsInv, Meal
    <3>2. meals' = [meals EXCEPT ![id] = new]
      BY <1>4, <2>2
    <3>3. new # Null
      BY <3>1, NullIsNoMeal
    <3>4. QED
      <4> HIDE DEF new, id
      <4> QED BY <2>1, <2>2, <3>1, <3>2, <3>3 DEF Live
  <2>3. CASE id \notin Live
    BY <1>4, <2>1, <2>3 DEF Live
  <2>4. QED
    BY <2>2, <2>3
<1> HIDE DEF rows, id, kind
<1>6. Joins(rows)
  <2>1. \A k \in DOMAIN rows, j \in Rows :
           journal[j].meal = rows[k].meal => journal[j].part # rows[k].part
    BY <1>3 DEF KeysFree
  <2>2. QED
    BY <1>1, <1>2, <2>1 DEF Joins
<1>7. KeysApart' /\ OwnersNamed' /\ UidsApart' /\ BackRefs'
  BY <1>2, <1>3, <1>5, <1>6, JoiningRows DEF MealsInv
<1>8. Shape'
  <2>1. journal' \in Seq(Row)
    BY <1>2, <1>3, Appended DEF MealsInv, Shape
  <2>2. Idle \in Call
    BY DEF Idle, Call
  <2>3. calls' \in [Threads -> Call]
    BY <2>2 DEF WriteMeal, MealsInv, Shape
  <2>4. pantry' \in [remaining : {pantry'.remaining}, rate : Nat]
    <3>1. pantry \in [remaining : {pantry.remaining}, rate : Nat]
      BY DEF MealsInv, Shape
    <3>2. pantry' = [pantry EXCEPT !.remaining = @ - Takes(kind)]
      BY DEF WriteMeal, kind
    <3>3. QED
      BY <3>1, <3>2
  <2>5. \E S : dishes' \in Seq(S)
    <3>1. PICK S : dishes \in Seq(S)
      BY DEF MealsInv, Shape
    <3>2. PICK new : dishes' = dishes \/ dishes' = Append(dishes, new)
      BY DEF WriteMeal
    <3>3. dishes \in Seq(S \cup {new}) /\ dishes' \in Seq(S \cup {new})
      BY <3>1, <3>2
    <3>4. QED
      BY <3>3
  <2>6. QED
    BY <1>3, <1>5, <2>1, <2>3, <2>4, <2>5 DEF MealsInv, Shape
<1>9. /\ \A i \in Rows : i \in Rows' /\ journal'[i] = journal[i] /\ i \in Nat
      /\ \A i \in Rows : Stands(i)' => Stands(i)
      /\ \A i \in Rows' \ Rows : \E k \in DOMAIN rows :
            i = Len(journal) + k /\ journal'[i] = rows[k]
      /\ \A i \in Rows' \ Rows : ~Corrected(i)'
      /\ \A i \in Rows : Corrected(i) => Corrected(i)'
      /\ \A i \in Rows : Corrected(i)' =>
            Corrected(i) \/ \E k \in DOMAIN rows : rows[k] = Reversal(i)
  BY <1>2, <1>3, <1>6, StandingAfter DEF MealsInv
<1>10. \A i \in Rows : Corrected(i)' <=> Corrected(i)
  BY <1>2, <1>9, ReversalFields DEF MealsInv
<1>11. PlannedTookNothing'
  <2> SUFFICES ASSUME NEW other \in Live, meals'[other].state = "planned",
                      NEW i \in Rows', journal'[i].owner = meals'[other].uid, Stands(i)'
               PROVE  FALSE
    BY <1>5 DEF PlannedTookNothing, StandingOf
  <2>1. meals[other].state = "planned" /\ other # id /\ meals'[other].uid = meals[other].uid
    BY <1>5
  <2>2. CASE i \in Rows
    <3>1. i \in StandingOf(meals[other].uid)
      BY <1>9, <2>1, <2>2 DEF StandingOf
    <3>2. QED
      BY <2>1, <3>1 DEF MealsInv, PlannedTookNothing
  <2>3. CASE i \notin Rows
    <3>1. meals[other].uid = IF id = Null THEN Null ELSE Uid(id)
      BY <1>2, <1>9, <2>1, <2>3
    <3>2. id \in Live /\ meals[other].uid = meals[id].uid
      BY <3>1, LiveMeals DEF MealsInv, Uid
    <3>3. QED
      BY <2>1, <3>2 DEF MealsInv, UidsApart
  <2>4. QED
    BY <2>2, <2>3
<1>12. CookingIsOneBlock'
  <2> SUFFICES ASSUME NEW i \in Rows', NEW j \in Rows', OneCooking(i, j)'
               PROVE  Corrected(i)' <=> Corrected(j)'
    BY DEF CookingIsOneBlock
  <2>1. CASE i \in Rows /\ j \in Rows
    BY <1>9, <1>10, <2>1 DEF MealsInv, CookingIsOneBlock, OneCooking
  <2>2. CASE i \notin Rows /\ j \notin Rows
    BY <1>9, <2>2
  <2>3. CASE i \in Rows /\ j \notin Rows
    BY <1>2, <1>3, <1>9, <1>10, <2>3, LastStands DEF OneCooking, MealsInv, Shape
  <2>4. CASE i \notin Rows /\ j \in Rows
    <3>1. j = i + 1 /\ Rows = 1..Len(journal) /\ Len(journal) \in Nat
      BY DEF OneCooking, MealsInv, Shape, Rows
    <3>2. PICK k \in Nat : i = Len(journal) + k
      BY <1>2, <1>9, <2>4
    <3>3. QED
      BY <2>4, <3>1, <3>2
  <2>5. QED
    BY <2>1, <2>2, <2>3, <2>4
<1>13. QED
  BY <1>7, <1>8, <1>11, <1>12 DEF MealsInv

\* One row that is no part of a cooking: eaten by nobody's meal, or taken back.
LEMMA OneRowStep ==
    ASSUME MealsInv, NEW row \in Row, Write(<<row>>), planned' = planned, meals' = meals,
           \/ row.corrects = Null /\ row.meal = Null /\ row.owner = Null
           \/ \E i \in Rows : row = Reversal(i) /\ journal[i].part \in {"eaten", "other"},
           Shape'
    PROVE  MealsInv'
<1> DEFINE rows == <<row>>
<1>1. rows \in Seq(Row) /\ DOMAIN rows = {1} /\ rows[1] = row
  OBVIOUS
<1> HIDE DEF rows
<1>2. Joins(rows)
  BY <1>1 DEF Joins
<1>3. Live' = Live /\ Shape /\ Write(rows)
  BY DEF Live, MealsInv, rows
<1>4. KeysApart' /\ OwnersNamed' /\ UidsApart' /\ BackRefs'
  BY <1>1, <1>2, <1>3, JoiningRows DEF MealsInv
<1>5. /\ \A i \in Rows : i \in Rows' /\ journal'[i] = journal[i] /\ i \in Nat
      /\ \A i \in Rows : Stands(i)' => Stands(i)
      /\ \A i \in Rows' \ Rows : \E k \in DOMAIN rows :
            i = Len(journal) + k /\ journal'[i] = rows[k]
      /\ \A i \in Rows : Corrected(i) => Corrected(i)'
      /\ \A i \in Rows : Corrected(i)' =>
            Corrected(i) \/ \E k \in DOMAIN rows : rows[k] = Reversal(i)
  BY <1>1, <1>2, <1>3, StandingAfter DEF MealsInv
<1>6. \A i \in Rows' \ Rows : journal'[i] = row /\ row.meal = Null
  BY <1>1, <1>3, <1>5, ReversalFields
<1>7. PlannedTookNothing'
  <2> SUFFICES ASSUME NEW id \in Live, meals[id].state = "planned",
                      NEW i \in Rows', journal'[i].owner = meals[id].uid, Stands(i)'
               PROVE  FALSE
    BY <1>3 DEF PlannedTookNothing, StandingOf
  <2>1. CASE i \in Rows
    <3>1. i \in StandingOf(meals[id].uid)
      BY <1>5, <2>1 DEF StandingOf
    <3>2. QED
      BY <3>1 DEF MealsInv, PlannedTookNothing
  <2>2. CASE i \notin Rows
    <3>1. row.corrects = Null /\ row.owner = meals[id].uid
      BY <1>6, <2>2 DEF Stands
    <3>2. row.owner = Null
      BY <1>3, <3>1, ReversalFields
    <3>3. QED
      BY <1>3, <3>1, <3>2, LiveMeals
  <2>3. QED
    BY <2>1, <2>2
<1>8. CookingIsOneBlock'
  <2> SUFFICES ASSUME NEW i \in Rows', NEW j \in Rows', OneCooking(i, j)'
               PROVE  Corrected(i)' <=> Corrected(j)'
    BY DEF CookingIsOneBlock
  <2>1. i \in Rows /\ j \in Rows
    BY <1>6 DEF OneCooking
  <2>2. OneCooking(i, j)
    BY <1>5, <2>1 DEF OneCooking
  <2>3. journal[i].part = "ing" /\ journal[j].part = "dish"
    BY <2>2 DEF OneCooking
  <2>4. \A k \in DOMAIN rows : rows[k] # Reversal(i) /\ rows[k] # Reversal(j)
    BY <1>1, <1>3, <2>1, <2>3, ReversalFields
  <2>5. QED
    BY <1>5, <2>1, <2>2, <2>4 DEF MealsInv, CookingIsOneBlock
<1>9. QED
  BY <1>4, <1>7, <1>8 DEF MealsInv

LEMMA SequenceKeeps ==
    ASSUME NEW S, NEW s \in Seq(S), NEW i \in DOMAIN s, NEW e, NEW r, r = [s EXCEPT ![i] = e]
    PROVE  \E T : r \in Seq(T)
<1>1. s \in Seq(S \cup {e})
  OBVIOUS
<1>2. r \in Seq(S \cup {e})
  BY <1>1
<1>3. QED
  BY <1>2

LEMMA HouseStep ==
    ASSUME MealsInv,
           EatPantry \/ (\E d \in DOMAIN dishes : EatDish(d))
                     \/ (\E i \in Rows : CorrectMovement(i))
    PROVE  MealsInv'
<1>1. /\ meals \in [MealIds -> Meal \cup {Null}] /\ planned \in Nat
      /\ pantry \in [remaining : {pantry.remaining}, rate : Nat]
      /\ journal \in Seq(Row) /\ calls \in [Threads -> Call]
      /\ \E S : dishes \in Seq(S)
      /\ \A d \in DOMAIN dishes : d \in Nat
  BY DEF MealsInv, Shape
<1>2. ASSUME NEW b \in Nat, NEW c \in Nat
      PROVE  /\ NewRow(Null, "other", b, -1, c) \in Row
             /\ NewRow(Null, "other", b, -1, c).corrects = Null
             /\ NewRow(Null, "other", b, -1, c).meal = Null
             /\ NewRow(Null, "other", b, -1, c).owner = Null
  BY DEF NewRow, Row
<1>3. CASE EatPantry
  <2> DEFINE row == NewRow(Null, "other", 0, -1, pantry.rate)
  <2>1. row \in Row /\ row.corrects = Null /\ row.meal = Null /\ row.owner = Null
    BY <1>1, <1>2
  <2>2. Write(<<row>>) /\ UNCHANGED <<meals, planned, dishes, calls>>
        /\ pantry' = [pantry EXCEPT !.remaining = @ - 1]
    BY <1>3 DEF EatPantry
  <2> HIDE DEF row
  <2>3. journal' \in Seq(Row)
    <3>1. <<row>> \in Seq(Row)
      BY <2>1
    <3>2. QED
      BY <1>1, <2>2, <3>1, Appended
  <2>4. Shape'
    BY <1>1, <2>2, <2>3 DEF Shape
  <2>5. QED
    BY <2>1, <2>2, <2>4, OneRowStep
<1>4. ASSUME NEW d \in DOMAIN dishes, EatDish(d) PROVE MealsInv'
  <2> DEFINE row == NewRow(Null, "other", d, -1, 0)
  <2>1. row \in Row /\ row.corrects = Null /\ row.meal = Null /\ row.owner = Null
    BY <1>1, <1>2
  <2>2. Write(<<row>>) /\ UNCHANGED <<meals, planned, pantry, calls>>
        /\ dishes' = [dishes EXCEPT ![d].remaining = @ - 1]
    BY <1>4 DEF EatDish
  <2> HIDE DEF row
  <2>3. journal' \in Seq(Row)
    <3>1. <<row>> \in Seq(Row)
      BY <2>1
    <3>2. QED
      BY <1>1, <2>2, <3>1, Appended
  <2>4. \E S : dishes' \in Seq(S)
    <3>1. PICK S : dishes \in Seq(S)
      BY <1>1
    <3>2. PICK e : dishes' = [dishes EXCEPT ![d] = e]
      BY <2>2
    <3>3. QED
      BY <3>1, <3>2, SequenceKeeps
  <2>5. Shape'
    BY <1>1, <2>2, <2>3, <2>4 DEF Shape
  <2>6. QED
    BY <2>1, <2>2, <2>5, OneRowStep
<1>5. ASSUME NEW i \in Rows, CorrectMovement(i) PROVE MealsInv'
  <2>1. Reversal(i) \in Row /\ journal[i].part \in {"eaten", "other"}
    BY <1>5, ReversalFields DEF CorrectMovement, MealsInv
  <2>2. Write(<<Reversal(i)>>) /\ UNCHANGED <<meals, planned, calls>>
    BY <1>5 DEF CorrectMovement, Undo
  <2>3. journal' \in Seq(Row)
    <3>1. <<Reversal(i)>> \in Seq(Row)
      BY <2>1
    <3>2. QED
      BY <1>1, <2>2, <3>1, Appended
  <2>4. \E S : dishes' \in Seq(S)
    <3>1. CASE dishes' = dishes
      BY <1>1, <3>1
    <3>2. CASE dishes' = [dishes EXCEPT ![journal[i].batch].remaining = @ - journal[i].quantity]
      <4>1. CASE journal[i].batch \in DOMAIN dishes
        <5>1. PICK S : dishes \in Seq(S)
          BY <1>1
        <5>2. PICK e : dishes' = [dishes EXCEPT ![journal[i].batch] = e]
          BY <3>2
        <5>3. QED
          BY <4>1, <5>1, <5>2, SequenceKeeps
      <4>2. CASE journal[i].batch \notin DOMAIN dishes
        <5>1. PICK S : dishes \in Seq(S)
          BY <1>1
        <5>2. dishes' = dishes
          BY <3>2, <4>2, <5>1
        <5>3. QED
          BY <5>1, <5>2
      <4>3. QED
        BY <4>1, <4>2
    <3>3. QED
      BY <1>5, <3>1, <3>2 DEF CorrectMovement, Undo
  <2>5. pantry' \in [remaining : {pantry'.remaining}, rate : Nat]
    <3>1. pantry' = pantry \/ pantry' = [pantry EXCEPT !.remaining = @ - journal[i].quantity]
      BY <1>5 DEF CorrectMovement, Undo
    <3>2. QED
      BY <1>1, <3>1
  <2>6. Shape'
    BY <1>1, <2>2, <2>3, <2>4, <2>5 DEF Shape
  <2>7. QED
    BY <2>1, <2>2, <2>6, OneRowStep
<1>6. QED
  BY <1>3, <1>4, <1>5

LEMMA CorrectMealStep ==
    ASSUME MealsInv, NEW id \in MealIds, CorrectMeal(id)
    PROVE  MealsInv'
<1> DEFINE block == RowsOf(id)
           n     == Cardinality(block)
<1>1. id \in Live /\ Shape /\ id # Null /\ meals[id] \in Meal
  BY LiveMeals DEF CorrectMeal, CanCorrectMeal, MealsInv
<1>2. PICK order \in LastFirst(block) : Write([k \in 1..n |-> Reversal(order[k])])
  BY DEF CorrectMeal, Block
<1> DEFINE rows == [k \in 1..n |-> Reversal(order[k])]
<1>3. IsFiniteSet(block) /\ n \in Nat
  <2>1. block \subseteq 1..Len(journal) /\ Len(journal) \in Nat
    BY <1>1 DEF RowsOf, Rows, Shape
  <2>2. IsFiniteSet(1..Len(journal))
    BY <2>1, FS_Interval
  <2>3. QED
    BY <2>1, <2>2, FS_Subset, FS_CardinalityType
<1>4. /\ order \in [1..n -> block]
      /\ \A i \in block : \E k \in 1..n : order[k] = i
  BY <1>2 DEF LastFirst, Bijection, Injection, Surjection
<1>5. block \subseteq Rows /\ \A i \in Rows : i \in block <=> journal[i].meal = id
  BY DEF RowsOf
<1> HIDE DEF block, n
<1>6. rows \in Seq(Row) /\ DOMAIN rows = 1..n
  <2>1. \A k \in 1..n : Reversal(order[k]) \in Row
    BY <1>1, <1>4, <1>5, ReversalFields
  <2>2. rows \in [1..n -> Row]
    BY <2>1
  <2>3. QED
    BY <1>3, <2>2, SeqDef
<1>7. \A k \in DOMAIN rows : /\ rows[k] = Reversal(order[k]) /\ order[k] \in block
                              /\ rows[k].meal = Null /\ rows[k].corrects # Null
  BY <1>1, <1>4, <1>5, <1>6, ReversalFields
<1>8. \A i \in block : \E k \in DOMAIN rows : rows[k] = Reversal(i)
  BY <1>4, <1>6
<1>9. Write(rows) /\ planned' = planned
  BY <1>2 DEF CorrectMeal
<1> HIDE DEF rows
<1>10. Joins(rows)
  BY <1>5, <1>7 DEF Joins
<1>11. /\ meals' \in [MealIds -> Meal \cup {Null}] /\ Live' = Live
       /\ \A other \in Live : /\ meals'[other].uid = meals[other].uid
                              /\ meals'[other].state = "planned" /\ other # id =>
                                     meals[other].state = "planned"
  <2> DEFINE new == [meals[id] EXCEPT !.state = "planned"]
  <2>1. new \in Meal /\ new.uid = meals[id].uid
    BY <1>1 DEF Meal
  <2>2. meals' = [meals EXCEPT ![id] = new] /\ new # Null
    BY <2>1, NullIsNoMeal DEF CorrectMeal, SetState
  <2>3. meals \in [MealIds -> Meal \cup {Null}]
    BY <1>1 DEF Shape
  <2>4. QED
    <3> HIDE DEF new
    <3> QED BY <1>1, <2>1, <2>2, <2>3 DEF Live
<1>12. KeysApart' /\ OwnersNamed' /\ UidsApart' /\ BackRefs'
  BY <1>6, <1>9, <1>10, <1>11, JoiningRows DEF MealsInv
<1>13. Shape'
  <2>1. journal' \in Seq(Row)
    BY <1>6, <1>9, Appended DEF MealsInv, Shape
  <2>2. pantry' \in [remaining : {pantry'.remaining}, rate : Nat]
    <3>1. PICK x : pantry' = [pantry EXCEPT !.remaining = x]
      BY DEF CorrectMeal
    <3>2. QED
      BY <1>1, <3>1 DEF Shape
  <2>3. \E S : dishes' \in Seq(S)
    <3>1. PICK S : dishes \in Seq(S)
      BY <1>1 DEF Shape
    <3>2. DOMAIN dishes' = 1..Len(dishes) /\ Len(dishes) \in Nat
      BY <3>1 DEF CorrectMeal
    <3>3. dishes' = [d \in DOMAIN dishes' |-> dishes'[d]]
      BY DEF CorrectMeal
    <3>4. dishes' \in [1..Len(dishes) -> {dishes'[d] : d \in 1..Len(dishes)}]
      BY <3>2, <3>3
    <3>5. QED
      BY <3>2, <3>4, SeqDef
  <2>4. QED
    BY <1>1, <1>9, <1>11, <2>1, <2>2, <2>3 DEF Shape, CorrectMeal
<1>14. /\ \A i \in Rows : i \in Rows' /\ journal'[i] = journal[i] /\ i \in Nat
       /\ \A i \in Rows : Stands(i)' => Stands(i)
       /\ \A i \in Rows' \ Rows : \E k \in DOMAIN rows :
             i = Len(journal) + k /\ journal'[i] = rows[k]
       /\ \A i \in Rows : Corrected(i) => Corrected(i)'
       /\ \A i \in Rows : Corrected(i)' =>
             Corrected(i) \/ \E k \in DOMAIN rows : rows[k] = Reversal(i)
  BY <1>6, <1>9, <1>10, StandingAfter DEF MealsInv
<1>15. \A i \in Rows' \ Rows : journal'[i].meal = Null /\ journal'[i].corrects # Null
  BY <1>7, <1>14
<1>16. \A i \in block : Corrected(i)'
  <2> TAKE i \in block
  <2>1. PICK k \in DOMAIN rows : rows[k] = Reversal(i)
    BY <1>8
  <2>2. Reversal(i).corrects = i
    BY <1>1, <1>5, ReversalFields
  <2>3. \E c \in Rows' : journal'[c] = rows[k]
    BY <1>6, <1>9, AppendedAll DEF MealsInv, Shape
  <2>4. QED
    BY <2>1, <2>2, <2>3 DEF Corrected
<1>17. PlannedTookNothing'
  <2> SUFFICES ASSUME NEW other \in Live, meals'[other].state = "planned",
                      NEW i \in Rows', journal'[i].owner = meals'[other].uid, Stands(i)'
               PROVE  FALSE
    BY <1>11 DEF PlannedTookNothing, StandingOf
  <2>1. i \in Rows /\ Stands(i) /\ journal[i].owner = meals[other].uid
    BY <1>11, <1>14, <1>15 DEF Stands
  <2>2. CASE other = id
    <3>1. journal[i].meal = id
      BY <2>1, <2>2 DEF Stands, MealsInv, OwnersNamed
    <3>2. QED
      BY <1>5, <1>16, <2>1, <3>1 DEF Stands
  <2>3. CASE other # id
    <3>1. meals[other].state = "planned" /\ i \in StandingOf(meals[other].uid)
      BY <1>11, <2>1, <2>3 DEF StandingOf
    <3>2. QED
      BY <3>1 DEF MealsInv, PlannedTookNothing
  <2>4. QED
    BY <2>2, <2>3
<1>18. CookingIsOneBlock'
  <2> SUFFICES ASSUME NEW i \in Rows', NEW j \in Rows', OneCooking(i, j)'
               PROVE  Corrected(i)' <=> Corrected(j)'
    BY DEF CookingIsOneBlock
  <2>1. i \in Rows /\ j \in Rows
    BY <1>15 DEF OneCooking
  <2>2. OneCooking(i, j)
    BY <1>14, <2>1 DEF OneCooking
  <2>3. i \in block <=> j \in block
    BY <1>5, <2>1, <2>2 DEF OneCooking
  <2>4. \A m \in Rows : Corrected(m)' => Corrected(m) \/ m \in block
    <3> SUFFICES ASSUME NEW m \in Rows, NEW k \in DOMAIN rows, rows[k] = Reversal(m)
                 PROVE  m \in block
      BY <1>14
    <3>1. order[k] = m
      BY <1>1, <1>5, <1>7, ReversalFields
    <3>2. QED
      BY <1>7, <3>1
  <2>5. QED
    BY <1>14, <1>16, <2>1, <2>2, <2>3, <2>4 DEF MealsInv, CookingIsOneBlock
<1>19. QED
  BY <1>12, <1>13, <1>17, <1>18 DEF MealsInv

(***************************************************************************)
(* The theorems                                                            *)
(***************************************************************************)
LEMMA MealsInvInit == Init => MealsInv
<1> SUFFICES ASSUME Init PROVE MealsInv
  OBVIOUS
<1>1. Idle \in Call
  BY DEF Idle, Call
<1>2. pantry \in [remaining : {pantry.remaining}, rate : Nat]
  BY MealsConstants DEF Init
<1>3. Shape
  <2>1. dishes \in Seq({}) /\ journal \in Seq(Row)
    BY DEF Init
  <2>2. QED
    BY <1>1, <1>2, <2>1 DEF Init, Shape
<1>4. Rows = {} /\ Live = {}
  BY DEF Init, Rows, Live
<1>5. QED
  BY <1>3, <1>4 DEF MealsInv, KeysApart, OwnersNamed, UidsApart, BackRefs,
     PlannedTookNothing, CookingIsOneBlock

LEMMA MealsInvNext == MealsInv /\ [Next]_vars => MealsInv'
BY PlanStep, QuietSteps, WriteStep, HouseStep, CorrectMealStep DEF Next

LEMMA MealsInvAlways == Spec => []MealsInv
BY MealsInvInit, MealsInvNext, PTL DEF Spec

\* Two rows that stand for one meal under one part are one row.
LEMMA CookedOnceHolds == MealsInv => CookedOnce
<1> SUFFICES ASSUME MealsInv, NEW uid \in 1..planned, NEW part \in {"ing", "dish", "eaten"}
             PROVE  Cardinality({i \in StandingOf(uid) : journal[i].part = part}) <= 1
  BY DEF CookedOnce
<1> DEFINE S == {i \in StandingOf(uid) : journal[i].part = part}
<1>1. uid # Null
  BY NullIsNoNumber DEF MealsInv, Shape
<1>2. \A i, j \in S : i = j
  BY <1>1 DEF StandingOf, Stands, MealsInv, OwnersNamed, KeysApart
<1>3. S = {} \/ \E i : S = {i}
  BY <1>2
<1>4. Cardinality(S) <= 1
  <2> HIDE DEF S
  <2>1. CASE S = {}
    BY <2>1, FS_EmptySet
  <2>2. ASSUME NEW i, S = {i} PROVE Cardinality(S) <= 1
    <3>1. Cardinality({i}) = 1
      BY FS_Singleton
    <3>2. QED
      BY <2>2, <3>1
  <2>3. QED
    BY <1>3, <2>1, <2>2
<1>5. QED
  BY <1>4

(* However validations, retries, cancellations and corrections of several
   threads interleave, and though the id of a deleted meal comes back: a meal
   is cooked once, and one that is planned has taken nothing. *)
THEOREM MealsStaySound == Spec => []MealsSound
<1>1. MealsInv => MealsSound
  BY CookedOnceHolds DEF MealsSound, MealsInv
<1>2. QED
  BY <1>1, MealsInvAlways, PTL

(* The ingredients and the dish of one cooking are taken back together or not
   at all, whatever corrections of single rows and of meals are mixed. *)
THEOREM CookingStaysOneBlock == Spec => []CookingIsOneBlock
<1>1. MealsInv => CookingIsOneBlock
  BY DEF MealsInv
<1>2. QED
  BY <1>1, MealsInvAlways, PTL

(***************************************************************************)
(* What the batches hold                                                   *)
(***************************************************************************)
\* What a row may say, of the pantry and of the dishes ds: only a dish that is
\* cooked brings something, and it brings its parts.
RowFits(row, ds) ==
    /\ row.part = "ing" => row.batch = 0
    /\ row.part \in {"dish", "eaten"} => row.batch \in ds
    /\ row.part = "other" => row.batch \in ds \cup {0}
    /\ row.corrects = Null =>
          IF row.part = "dish" THEN row.quantity = Parts ELSE row.quantity <= 0

RowsFit == \A i \in Rows : RowFits(journal[i], DOMAIN dishes)

\* A row of the table that takes back row i of it.
TakesBack(row, i, table) ==
    /\ i \in DOMAIN table /\ table[i].corrects = Null
    /\ row.batch = table[i].batch /\ row.part = table[i].part
    /\ row.quantity = -table[i].quantity

Takebacks ==
    \A c \in Rows : journal[c].corrects # Null => TakesBack(journal[c], journal[c].corrects, journal)

TakenBackOnce ==
    \A c, e \in Rows :
        journal[c].corrects # Null /\ journal[c].corrects = journal[e].corrects => c = e

\* A dish is cooked once.
OneDishEach ==
    \A i, j \in Rows :
        /\ journal[i].corrects = Null /\ journal[j].corrects = Null
        /\ journal[i].part = "dish" /\ journal[j].part = "dish"
        /\ journal[i].batch = journal[j].batch
        => i = j

\* The batches are what the whole journal says.
BatchesTold ==
    /\ pantry.remaining = MaxPantry + LotOf(journal, 0)
    /\ \A d \in DOMAIN dishes : dishes[d].remaining = LotOf(journal, d)

Dish == [remaining : Nat, worth : Nat]

NothingNegative == pantry.remaining \in Nat /\ dishes \in Seq(Dish)

\* A simulation that was made has seen a price.
PreviewsPriced ==
    \A t \in Threads : calls[t].pc = "previewed" => calls[t].rate \in Nat

RowsInv == RowsFit /\ Takebacks /\ TakenBackOnce /\ OneDishEach
HoldInv == MealsInv /\ RowsInv /\ BatchesTold /\ NothingNegative /\ PreviewsPriced

\* Every row has a whole quantity.
LEMMA RowsCount == Counted(Row)
BY DEF Counted, Row

\* What the tables hold.
LEMMA RowIsRow ==
    ASSUME Shape
    PROVE  /\ \A i \in Rows : i \in Nat /\ journal[i] \in Row
           /\ \A i \in Rows : i # Null /\ i # 0
           /\ journal \in Seq(Row) /\ 0 \notin DOMAIN dishes
           /\ \A i \in Rows : journal[i].quantity \in Int /\ journal[i].corrects \in Nat \cup {Null}
<1>1. journal \in Seq(Row) /\ Rows = 1..Len(journal) /\ Len(journal) \in Nat
  BY DEF Shape, Rows
<1>2. \A i \in Rows : i \in Nat /\ journal[i] \in Row
  BY <1>1
<1>3. 0 \notin DOMAIN dishes
  BY DEF Shape
<1>4. \A i \in Rows : i # Null /\ i # 0
  BY <1>1, NullIsNoNumber
<1>5. \A i \in Rows : journal[i].quantity \in Int /\ journal[i].corrects \in Nat \cup {Null}
  BY <1>2 DEF Row
<1>6. QED
  BY <1>1, <1>2, <1>3, <1>4, <1>5

\* What new rows owe: each is new and fits, a dish among them is one nobody
\* has seen, or it takes back, alone, a row that stands.
Fits(rows) ==
    /\ \A k \in DOMAIN rows :
          \/ /\ rows[k].corrects = Null /\ RowFits(rows[k], DOMAIN dishes')
             /\ rows[k].part = "dish" => rows[k].batch \notin DOMAIN dishes
          \/ \E i \in Rows : rows[k] = Reversal(i) /\ Stands(i)
    /\ \A k, l \in DOMAIN rows :
          rows[k].part = "dish" /\ rows[l].part = "dish" /\ rows[k].corrects = Null
             /\ rows[l].corrects = Null => k = l
    /\ \A k, l \in DOMAIN rows, i \in Rows : rows[k] = Reversal(i) /\ rows[l] = Reversal(i) => k = l
    /\ DOMAIN dishes \subseteq DOMAIN dishes'

\* Rows that fit leave a journal whose rows fit.
LEMMA RowsInvStep ==
    ASSUME Shape, RowsInv, BackRefs, NEW rows \in Seq(Row), Fits(rows), Write(rows)
    PROVE  RowsInv'
<1> DEFINE n == Len(journal)
<1>1. /\ \A i \in Rows : i \in Rows' /\ journal'[i] = journal[i]
      /\ \A i \in Rows' : \/ i \in Rows
                          \/ \E k \in DOMAIN rows : i = n + k /\ journal'[i] = rows[k]
  BY Appended DEF Shape
<1>2. \A i \in Rows : /\ i \in Nat /\ i # Null /\ journal[i].quantity \in Int
                      /\ Reversal(i).corrects = i /\ Reversal(i).part = journal[i].part
                      /\ Reversal(i).batch = journal[i].batch
                      /\ Reversal(i).quantity = -journal[i].quantity
  <2>1. \A i \in Rows : Reversal(i).corrects = i /\ Reversal(i).part = journal[i].part
    BY ReversalFields
  <2>2. ASSUME NEW i \in Rows
        PROVE  /\ Reversal(i).batch = journal[i].batch
               /\ Reversal(i).quantity = -journal[i].quantity
    <3>1. journal[i] \in Row
      BY RowIsRow
    <3>2. QED
      BY <3>1 DEF Reversal, Row
  <2>3. QED
    BY <2>1, <2>2, RowIsRow
<1> HIDE DEF n
\* A new row is one or the other.
<1>3. ASSUME NEW k \in DOMAIN rows, rows[k].corrects # Null
      PROVE  \E i \in Rows : rows[k] = Reversal(i) /\ Stands(i)
  BY <1>3 DEF Fits
<1>4. ASSUME NEW k \in DOMAIN rows, rows[k].corrects = Null
      PROVE  /\ RowFits(rows[k], DOMAIN dishes')
             /\ rows[k].part = "dish" => rows[k].batch \notin DOMAIN dishes
  BY <1>2, <1>4 DEF Fits
<1>5. RowsFit'
  <2>1. ASSUME NEW i \in Rows' PROVE RowFits(journal'[i], DOMAIN dishes')
    <3>0. DOMAIN dishes \subseteq DOMAIN dishes'
      BY DEF Fits
    <3>1. \A j \in Rows : RowFits(journal[j], DOMAIN dishes')
      BY <3>0 DEF RowsInv, RowsFit, RowFits
    <3>2. CASE i \in Rows
      BY <1>1, <3>1, <3>2
    <3>3. ASSUME NEW k \in DOMAIN rows PROVE RowFits(rows[k], DOMAIN dishes')
      <4>1. CASE rows[k].corrects = Null
        BY <1>4, <4>1
      <4>2. CASE rows[k].corrects # Null
        <5>1. PICK j \in Rows : rows[k] = Reversal(j)
          BY <1>3, <4>2
        <5>2. RowFits(journal[j], DOMAIN dishes')
          BY <3>1
        <5>3. QED
          BY <1>2, <4>2, <5>1, <5>2 DEF RowFits
      <4>3. QED
        BY <4>1, <4>2
    <3>4. QED
      BY <1>1, <3>2, <3>3
  <2>2. QED
    BY <2>1 DEF RowsFit
<1>6. Takebacks'
  <2> SUFFICES ASSUME NEW c \in Rows', journal'[c].corrects # Null
               PROVE  TakesBack(journal'[c], journal'[c].corrects, journal')
    BY DEF Takebacks
  <2>0. Rows = DOMAIN journal /\ Rows' = DOMAIN journal'
    BY DEF Rows
  <2>1. CASE c \in Rows
    BY <1>1, <2>0, <2>1 DEF RowsInv, Takebacks, TakesBack
  <2>2. CASE c \notin Rows
    <3>1. PICK k \in DOMAIN rows : journal'[c] = rows[k]
      BY <1>1, <2>2
    <3>2. PICK j \in Rows : rows[k] = Reversal(j) /\ Stands(j)
      BY <1>3, <3>1
    <3>3. QED
      BY <1>1, <1>2, <2>0, <3>1, <3>2 DEF TakesBack, Stands
  <2>3. QED
    BY <2>1, <2>2
<1>7. TakenBackOnce'
  <2> SUFFICES ASSUME NEW c \in Rows', NEW e \in Rows', journal'[c].corrects # Null,
                      journal'[c].corrects = journal'[e].corrects
               PROVE  c = e
    BY DEF TakenBackOnce
  <2>1. CASE c \in Rows /\ e \in Rows
    BY <1>1, <2>1 DEF RowsInv, TakenBackOnce
  <2>2. ASSUME NEW a \in Rows, NEW b \in Rows', b \notin Rows,
               journal[a].corrects = journal'[b].corrects, journal'[b].corrects # Null
        PROVE  FALSE
    <3>1. PICK k \in DOMAIN rows : journal'[b] = rows[k]
      BY <1>1, <2>2
    <3>2. PICK j \in Rows : rows[k] = Reversal(j) /\ Stands(j)
      BY <1>3, <2>2, <3>1
    <3>3. journal[a].corrects = j
      BY <1>2, <2>2, <3>1, <3>2
    <3>4. QED
      BY <3>2, <3>3 DEF Stands, Corrected
  <2>3. CASE c \notin Rows /\ e \notin Rows
    <3>1. PICK k \in DOMAIN rows : c = n + k /\ journal'[c] = rows[k]
      BY <1>1, <2>3
    <3>2. PICK l \in DOMAIN rows : e = n + l /\ journal'[e] = rows[l]
      BY <1>1, <2>3
    <3>3. PICK i \in Rows : rows[k] = Reversal(i)
      BY <1>3, <3>1
    <3>4. PICK j \in Rows : rows[l] = Reversal(j)
      BY <1>3, <3>2
    <3>5. i = j
      BY <1>2, <3>1, <3>2, <3>3, <3>4
    <3>6. QED
      BY <3>1, <3>2, <3>3, <3>4, <3>5 DEF Fits
  <2>4. QED
    BY <1>1, <2>1, <2>2, <2>3
<1>8. OneDishEach'
  <2> SUFFICES ASSUME NEW i \in Rows', NEW j \in Rows',
                      journal'[i].corrects = Null, journal'[j].corrects = Null,
                      journal'[i].part = "dish", journal'[j].part = "dish",
                      journal'[i].batch = journal'[j].batch
               PROVE  i = j
    BY DEF OneDishEach
  <2>1. CASE i \in Rows /\ j \in Rows
    BY <1>1, <2>1 DEF RowsInv, OneDishEach
  <2>2. ASSUME NEW a \in Rows, NEW b \in Rows', b \notin Rows,
               journal[a].part = "dish", journal'[b].part = "dish",
               journal'[b].corrects = Null, journal[a].batch = journal'[b].batch
        PROVE  FALSE
    <3>1. PICK k \in DOMAIN rows : journal'[b] = rows[k]
      BY <1>1, <2>2
    <3>2. rows[k].batch \notin DOMAIN dishes
      BY <1>4, <2>2, <3>1
    <3>3. journal[a].batch \in DOMAIN dishes
      BY <2>2 DEF RowsInv, RowsFit, RowFits
    <3>4. QED
      BY <2>2, <3>1, <3>2, <3>3
  <2>3. CASE i \notin Rows /\ j \notin Rows
    <3>1. PICK k \in DOMAIN rows : i = n + k /\ journal'[i] = rows[k]
      BY <1>1, <2>3
    <3>2. PICK l \in DOMAIN rows : j = n + l /\ journal'[j] = rows[l]
      BY <1>1, <2>3
    <3>3. QED
      BY <3>1, <3>2 DEF Fits
  <2>4. QED
    BY <1>1, <2>1, <2>2, <2>3
<1>9. QED
  BY <1>5, <1>6, <1>7, <1>8 DEF RowsInv

\* What the rows of a step bring to the batches and take from them.
Before(d) == IF d \in DOMAIN dishes THEN dishes[d].remaining ELSE 0

Settles(rows) ==
    /\ pantry'.remaining = pantry.remaining + LotOf(rows, 0)
    /\ \A d \in DOMAIN dishes' : dishes'[d].remaining = Before(d) + LotOf(rows, d)

\* No row names a dish before it is cooked.
LEMMA UnseenDish ==
    ASSUME Shape, RowsInv, NEW d, d # 0, d \notin DOMAIN dishes
    PROVE  LotOf(journal, d) = 0
<1> DEFINE f == [k \in DOMAIN journal |-> OnLot(journal[k], d)]
<1>1. Summable(f, DOMAIN journal)
  BY RowsCount, RowIsRow, LotsAdd
<1>2. ASSUME NEW k \in DOMAIN journal PROVE f[k] = 0
  <2>1. journal[k] \in Row /\ RowFits(journal[k], DOMAIN dishes)
    BY RowIsRow DEF RowsInv, RowsFit, Rows
  <2>2. journal[k].batch # d
    BY <2>1 DEF Row, RowFits
  <2>3. QED
    BY <2>2 DEF OnLot
<1>3. LotOf(journal, d) = SumFunction(f)
  BY DEF LotOf
<1> HIDE DEF f
<1>4. QED
  BY <1>1, <1>2, <1>3, SumOfZeros

\* Rows that are settled leave batches that hold what the journal says.
LEMMA BatchesToldStep ==
    ASSUME Shape, Shape', RowsInv, BatchesTold, pantry.remaining \in Int, MaxPantry \in Int,
           NEW rows \in Seq(Row), Write(rows), Settles(rows),
           DOMAIN dishes \subseteq DOMAIN dishes'
    PROVE  BatchesTold'
<1>1. journal \in Seq(Row) /\ journal' = journal \o rows
  BY DEF Shape, Write
<1>2. \A b : /\ LotOf(journal', b) = LotOf(journal, b) + LotOf(rows, b)
             /\ LotOf(journal, b) \in Int /\ LotOf(rows, b) \in Int
  BY <1>1, RowsCount, LotOfMore, LotsAdd
<1>3. pantry'.remaining = MaxPantry + LotOf(journal', 0)
  <2>1. /\ pantry'.remaining = pantry.remaining + LotOf(rows, 0)
        /\ pantry.remaining = MaxPantry + LotOf(journal, 0)
    BY DEF Settles, BatchesTold
  <2>2. QED
    BY <1>2, <2>1
<1>4. ASSUME NEW d \in DOMAIN dishes' PROVE dishes'[d].remaining = LotOf(journal', d)
  <2>1. d # 0
    BY DEF Shape
  <2>2. Before(d) = LotOf(journal, d)
    BY <2>1, UnseenDish DEF Before, BatchesTold
  <2>3. QED
    BY <1>2, <2>2 DEF Settles
<1>5. QED
  BY <1>3, <1>4 DEF BatchesTold

\* A row that takes another back says the contrary of the same batch.
LEMMA TakebacksMirror ==
    ASSUME Shape, RowsInv, NEW d
    PROVE  \E C \in SUBSET Rows, D \in SUBSET Rows : \E h :
              /\ C = {c \in Rows : journal[c].corrects # Null} /\ C \cap D = {}
              /\ Mirrored([k \in DOMAIN journal |-> OnLot(journal[k], d)], h, C, D)
<1> DEFINE f == [k \in DOMAIN journal |-> OnLot(journal[k], d)]
           C == {c \in Rows : journal[c].corrects # Null}
           D == {journal[c].corrects : c \in C}
           h == [c \in C |-> journal[c].corrects]
<1>1. \A c \in C : TakesBack(journal[c], journal[c].corrects, journal)
  BY DEF RowsInv, Takebacks
<1>2. D \in SUBSET Rows /\ C \cap D = {}
  BY <1>1 DEF TakesBack, Rows
<1>3. h \in Bijection(C, D)
  <2>1. \A c, e \in C : h[c] = h[e] => c = e
    BY DEF RowsInv, TakenBackOnce
  <2>2. h \in [C -> D] /\ \A x \in D : \E c \in C : h[c] = x
    OBVIOUS
  <2>3. QED
    <3> HIDE DEF h, C, D
    <3> QED BY <2>1, <2>2 DEF Bijection, Injection, Surjection, IsInjective
<1>4. ASSUME NEW c \in C PROVE f[c] = -f[h[c]]
  <2>1. TakesBack(journal[c], h[c], journal) /\ c \in DOMAIN journal
    BY <1>1 DEF Rows
  <2>2. /\ h[c] \in DOMAIN journal
        /\ journal[c].batch = journal[h[c]].batch
        /\ journal[c].quantity = -journal[h[c]].quantity
    BY <2>1 DEF TakesBack
  <2>3. f[c] = OnLot(journal[c], d) /\ f[h[c]] = OnLot(journal[h[c]], d)
    BY <2>1, <2>2
  <2>4. QED
    BY <2>2, <2>3 DEF OnLot
<1>5. Mirrored(f, h, C, D)
  BY <1>3, <1>4 DEF Mirrored
<1>6. QED
  BY <1>2, <1>5

\* A dish never holds more than it was cooked with: of its rows that are not
\* taken back, one alone brings something.
LEMMA NoMoreThanItsParts ==
    ASSUME Shape, RowsInv, NEW d \in DOMAIN dishes
    PROVE  LotOf(journal, d) <= Parts
<1> DEFINE f == [k \in DOMAIN journal |-> OnLot(journal[k], d)]
<1>1. Summable(f, DOMAIN journal) /\ LotOf(journal, d) = SumFunction(f)
  BY RowsCount, RowIsRow, LotsAdd DEF LotOf
<1>0. PICK C \in SUBSET Rows, D \in SUBSET Rows : \E h :
         /\ C = {c \in Rows : journal[c].corrects # Null} /\ C \cap D = {}
         /\ Mirrored(f, h, C, D)
  BY TakebacksMirror
<1>2. PICK h :
         /\ C = {c \in Rows : journal[c].corrects # Null} /\ C \cap D = {}
         /\ Mirrored(f, h, C, D)
  BY <1>0
<1> DEFINE E == Rows \ (C \cup D)
           r == Restrict(f, E)
<1>3. \A k \in E : f[k] = OnLot(journal[k], d) /\ journal[k].corrects = Null
  BY <1>2 DEF Rows
<1> HIDE DEF f
<1>4. SumFunction(f) = SumFunction(r)
  <2>1. Rows = DOMAIN journal
    BY DEF Rows
  <2>2. QED
    BY <1>1, <1>2, <2>1, SumOfMirrors
<1>5. Summable(r, E) /\ \A k \in E : r[k] = OnLot(journal[k], d)
  <2>1. Rows = DOMAIN journal
    BY DEF Rows
  <2>2. Summable(r, E) /\ \A k \in E : r[k] = f[k]
    BY <1>1, <2>1, SummablePart
  <2>3. QED
    BY <1>3, <2>2
<1>6. Parts \in Nat
  BY MealsConstants
<1>7. ASSUME NEW k \in E
      PROVE  /\ journal[k].batch = d /\ journal[k].part = "dish" => OnLot(journal[k], d) = Parts
             /\ ~(journal[k].batch = d /\ journal[k].part = "dish") => OnLot(journal[k], d) <= 0
  <2>1. RowFits(journal[k], DOMAIN dishes) /\ journal[k].corrects = Null
    BY <1>3 DEF RowsInv, RowsFit
  <2>2. QED
    BY <2>1 DEF RowFits, OnLot
<1> HIDE DEF E, r
<1>8. IsFiniteSet(E)
  BY <1>5 DEF Summable
<1>9. CASE \A k \in E : ~(journal[k].batch = d /\ journal[k].part = "dish")
  <2> DEFINE z == [k \in E |-> 0]
  <2>1. Summable(z, E) /\ \A k \in E : z[k] = 0
    BY <1>8 DEF Summable
  <2>2. \A k \in E : r[k] <= z[k]
    BY <1>5, <1>7, <1>9
  <2> HIDE DEF z
  <2>3. SumFunction(r) <= SumFunction(z) /\ SumFunction(z) = 0
    BY <1>5, <2>1, <2>2, SumBounded, SumOfZeros
  <2>4. SumFunction(r) \in Int
    BY <1>5, SummableSays
  <2>5. QED
    BY <1>1, <1>4, <1>6, <2>3, <2>4
<1>10. ASSUME NEW x \in E, journal[x].batch = d, journal[x].part = "dish"
       PROVE  SumFunction(r) <= Parts
  <2> DEFINE z == [k \in E |-> IF k = x THEN Parts ELSE 0]
  <2>1. Summable(z, E) /\ z[x] = Parts /\ \A k \in E \ {x} : z[k] = 0
    BY <1>6, <1>8 DEF Summable
  <2>2. \A k \in E : journal[k].batch = d /\ journal[k].part = "dish" => k = x
    BY <1>3, <1>10 DEF RowsInv, OneDishEach, E
  <2>3. \A k \in E : r[k] <= z[k]
    <3>1. \A k \in E : r[k] = OnLot(journal[k], d)
      BY <1>5
    <3>2. r[x] <= z[x]
      BY <1>6, <1>7, <1>10, <2>1, <3>1
    <3>3. \A k \in E \ {x} : r[k] <= z[k]
      BY <1>7, <2>1, <2>2, <3>1
    <3>4. QED
      BY <3>2, <3>3
  <2> HIDE DEF z
  <2>4. SumFunction(r) <= SumFunction(z)
    BY <1>5, <2>1, <2>3, SumBounded
  <2>5. SumFunction(z) = Parts
    BY <2>1, SumOfLonely
  <2>6. QED
    BY <2>4, <2>5
<1>11. QED
  BY <1>1, <1>4, <1>9, <1>10

\* A step whose rows fit and are settled keeps what the batches hold.
LEMMA HoldStep ==
    ASSUME HoldInv, MealsInv', NEW rows \in Seq(Row), Write(rows), Fits(rows), Settles(rows),
           NothingNegative', PreviewsPriced'
    PROVE  HoldInv'
<1>1. Shape /\ BackRefs /\ RowsInv /\ Shape' /\ BatchesTold
  BY DEF HoldInv, MealsInv
<1>2. RowsInv'
  BY <1>1, RowsInvStep
<1>3. pantry.remaining \in Int /\ MaxPantry \in Int /\ DOMAIN dishes \subseteq DOMAIN dishes'
  BY MealsConstants DEF HoldInv, NothingNegative, Fits
<1>4. BatchesTold'
  BY <1>1, <1>3, BatchesToldStep
<1>5. QED
  BY <1>2, <1>4 DEF HoldInv

\* A step that writes nothing and moves nothing.
LEMMA HoldQuiet ==
    ASSUME HoldInv, MealsInv', journal' = journal, dishes' = dishes,
           pantry'.remaining = pantry.remaining, PreviewsPriced'
    PROVE  HoldInv'
<1>1. Rows' = Rows /\ DOMAIN dishes' = DOMAIN dishes
  BY DEF Rows
<1>2. RowsInv'
  <2>1. RowsInv
    BY DEF HoldInv
  <2>2. RowsFit' /\ TakenBackOnce' /\ OneDishEach' /\ Takebacks'
    BY <1>1, <2>1 DEF RowsInv, RowsFit, TakenBackOnce, OneDishEach, Takebacks
  <2>3. QED
    BY <2>2 DEF RowsInv
<1>3. BatchesTold'
  BY DEF HoldInv, BatchesTold
<1>4. NothingNegative'
  BY DEF HoldInv, NothingNegative
<1>5. QED
  BY <1>2, <1>3, <1>4 DEF HoldInv

\* Only a simulation makes a call previewed, and it reads the price.
LEMMA PreviewsStep ==
    ASSUME HoldInv, [Next]_vars
    PROVE  PreviewsPriced'
<1>1. calls \in [Threads -> Call] /\ pantry.rate \in Nat /\ PreviewsPriced
  BY DEF HoldInv, MealsInv, Shape
<1>2. CASE calls' = calls
  BY <1>1, <1>2 DEF PreviewsPriced
<1>3. ASSUME NEW t \in Threads, NEW c, calls' = [calls EXCEPT ![t] = c],
             c.pc = "previewed" => c.rate \in Nat
      PROVE  PreviewsPriced'
  BY <1>1, <1>3 DEF PreviewsPriced
<1>4. ASSUME NEW t \in Threads, NEW id \in MealIds, SkipMeal(t, id) \/ LookForReplay(t, id)
      PROVE  PreviewsPriced'
  <2>1. \A pc \in {"skipping", "replayed", "looked"} :
           [Idle EXCEPT !.pc = pc, !.meal = id].pc = pc
    BY DEF Idle
  <2>2. CASE SkipMeal(t, id)
    <3>1. calls' = calls
          \/ calls' = [calls EXCEPT ![t] = [Idle EXCEPT !.pc = "skipping", !.meal = id]]
      BY <2>2 DEF SkipMeal
    <3>2. QED
      BY <1>2, <1>3, <2>1, <3>1
  <2>3. CASE LookForReplay(t, id)
    <3>1. PICK pc \in {"replayed", "looked"} :
             calls' = [calls EXCEPT ![t] = [Idle EXCEPT !.meal = id, !.pc = pc]]
      BY <2>3 DEF LookForReplay
    <3>2. [Idle EXCEPT !.meal = id, !.pc = pc].pc = pc
      BY DEF Idle
    <3>3. QED
      BY <1>3, <3>1, <3>2
  <2>4. QED
    BY <1>4, <2>2, <2>3
<1>5. ASSUME NEW t \in Threads, PreviewMeal(t) PROVE PreviewsPriced'
  <2> DEFINE id == calls[t].meal
             can == /\ id \in Live /\ meals[id].state # "done"
                    /\ pantry.remaining >= Takes(meals[id].kind)
             new == [pc |-> "previewed", meal |-> id, kind |-> meals[id].kind,
                     rate |-> pantry.rate]
             c   == IF can THEN new ELSE Idle
  <2>1. calls' = [calls EXCEPT ![t] = c]
    BY <1>5 DEF PreviewMeal
  <2>2. c.pc = "previewed" => c.rate \in Nat
    BY <1>1 DEF Idle
  <2> HIDE DEF c
  <2>3. QED
    BY <1>3, <2>1, <2>2
<1>6. ASSUME NEW t \in Threads, SkipDoneMeal(t) \/ Return(t) \/ \E eaten \in 0..Parts : WriteMeal(t, eaten)
      PROVE  PreviewsPriced'
  <2>1. calls' = [calls EXCEPT ![t] = Idle]
    BY <1>6 DEF SkipDoneMeal, Return, WriteMeal
  <2>2. Idle.pc # "previewed"
    BY DEF Idle
  <2>3. QED
    BY <1>3, <2>1, <2>2
<1>7. ASSUME \/ \E k \in Kinds : PlanMeal(k)
             \/ \E id \in MealIds : CancelMeal(id) \/ CorrectMeal(id)
             \/ EatPantry
             \/ \E d \in DOMAIN dishes : EatDish(d)
             \/ \E i \in Rows : CorrectMovement(i)
             \/ \E r \in Rates : PantryRepriced(r)
             \/ UNCHANGED vars
      PROVE  PreviewsPriced'
  BY <1>2, <1>7 DEF PlanMeal, CancelMeal, CorrectMeal, EatPantry, EatDish, CorrectMovement,
     Undo, PantryRepriced, vars
<1>8. QED
  BY <1>4, <1>5, <1>6, <1>7 DEF Next

(***************************************************************************)
(* One row                                                                 *)
(***************************************************************************)
\* One row, and the batch it names moves by what it says.
LEMMA OneRowHolds ==
    ASSUME HoldInv, MealsInv', PreviewsPriced', NEW row \in Row, Write(<<row>>),
           DOMAIN dishes' = DOMAIN dishes,
           \/ /\ row.corrects = Null /\ row.part = "other" /\ row.quantity <= 0
              /\ row.batch \in DOMAIN dishes \cup {0}
           \/ \E i \in Rows : row = Reversal(i) /\ Stands(i),
           IF row.batch = 0
           THEN pantry'.remaining = pantry.remaining + row.quantity /\ dishes' = dishes
           ELSE /\ pantry' = pantry
                /\ \A d \in DOMAIN dishes : dishes'[d].remaining =
                      dishes[d].remaining + IF d = row.batch THEN row.quantity ELSE 0,
           NothingNegative'
    PROVE  HoldInv'
<1> DEFINE rows == <<row>>
<1>1. rows \in Seq(Row) /\ DOMAIN rows = {1} /\ rows[1] = row /\ Write(rows)
  OBVIOUS
<1>2. \A b : LotOf(rows, b) = OnLot(row, b)
  BY RowsCount, LotOfOneRow
<1>3. Fits(rows)
  <2> HIDE DEF rows
  <2>1. ASSUME NEW k \in DOMAIN rows
        PROVE  \/ /\ rows[k].corrects = Null /\ RowFits(rows[k], DOMAIN dishes')
                  /\ rows[k].part = "dish" => rows[k].batch \notin DOMAIN dishes
               \/ \E i \in Rows : rows[k] = Reversal(i) /\ Stands(i)
    <3>1. rows[k] = row
      BY <1>1
    <3>2. QED
      BY <3>1 DEF RowFits
  <2>2. QED
    BY <1>1, <2>1 DEF Fits
<1>4. row.quantity \in Int /\ 0 \notin DOMAIN dishes /\ pantry.remaining \in Nat
      /\ \A d \in DOMAIN dishes : dishes[d].remaining \in Nat
  <2>1. Shape
    BY DEF HoldInv, MealsInv
  <2>2. dishes \in Seq(Dish)
    BY DEF HoldInv, NothingNegative
  <2>3. \A d \in DOMAIN dishes : dishes[d] \in Dish
    BY <2>2
  <2>4. QED
    BY <2>1, <2>3, RowIsRow DEF Row, Dish, HoldInv, NothingNegative
<1> HIDE DEF rows
<1>5. Settles(rows)
  <2>1. pantry'.remaining = pantry.remaining + LotOf(rows, 0)
    BY <1>2, <1>4 DEF OnLot
  <2>2. ASSUME NEW d \in DOMAIN dishes'
        PROVE  dishes'[d].remaining = Before(d) + LotOf(rows, d)
    <3>1. d \in DOMAIN dishes /\ d # 0 /\ Before(d) = dishes[d].remaining
      BY <1>4 DEF Before
    <3>2. QED
      BY <1>2, <1>4, <3>1 DEF OnLot
  <2>3. QED
    BY <2>1, <2>2 DEF Settles
<1>6. QED
  BY <1>1, <1>3, <1>5, HoldStep

\* A sequence with one element replaced.
LEMMA DishReplaced ==
    ASSUME dishes \in Seq(Dish), NEW d \in DOMAIN dishes, NEW x \in Nat,
           dishes' = [dishes EXCEPT ![d].remaining = x]
    PROVE  /\ dishes' \in Seq(Dish) /\ DOMAIN dishes' = DOMAIN dishes
           /\ dishes'[d].remaining = x
           /\ \A e \in DOMAIN dishes : e # d => dishes'[e] = dishes[e]
<1>1. dishes[d] \in Dish
  OBVIOUS
<1> DEFINE new == [dishes[d] EXCEPT !.remaining = x]
<1>2. new \in Dish /\ new.remaining = x
  BY <1>1 DEF Dish
<1>3. dishes' = [dishes EXCEPT ![d] = new]
  OBVIOUS
<1> HIDE DEF new
<1>4. QED
  BY <1>2, <1>3

LEMMA DishIsDish ==
    ASSUME HoldInv
    PROVE  /\ dishes \in Seq(Dish) /\ \A d \in DOMAIN dishes : dishes[d].remaining \in Nat
           /\ pantry.remaining \in Nat /\ 0 \notin DOMAIN dishes
           /\ pantry \in [remaining : Nat, rate : Nat] /\ Shape
<1>1. dishes \in Seq(Dish) /\ pantry.remaining \in Nat /\ Shape
  BY DEF HoldInv, NothingNegative, MealsInv
<1>2. \A d \in DOMAIN dishes : dishes[d] \in Dish
  BY <1>1
<1>3. pantry \in [remaining : Nat, rate : Nat]
  BY <1>1 DEF Shape
<1>4. QED
  BY <1>1, <1>2, <1>3, RowIsRow DEF Dish

LEMMA EatenHolds ==
    ASSUME HoldInv, MealsInv', PreviewsPriced',
           EatPantry \/ \E d \in DOMAIN dishes : EatDish(d)
    PROVE  HoldInv'
<1>1. ASSUME NEW b \in Nat, NEW c \in Nat
      PROVE  LET r == NewRow(Null, "other", b, -1, c)
             IN  /\ r \in Row /\ r.corrects = Null /\ r.part = "other" /\ r.quantity = -1
                 /\ r.batch = b
  BY DEF NewRow, Row
<1>2. CASE EatPantry
  <2> DEFINE row == NewRow(Null, "other", 0, -1, pantry.rate)
  <2>1. row \in Row /\ row.corrects = Null /\ row.part = "other" /\ row.quantity = -1
        /\ row.batch = 0
    BY <1>1, DishIsDish
  <2>2. Write(<<row>>) /\ dishes' = dishes
    BY <1>2 DEF EatPantry
  <2>3. pantry'.remaining = pantry.remaining - 1 /\ pantry'.remaining \in Nat
    BY <1>2, DishIsDish DEF EatPantry
  <2>4. NothingNegative'
    BY <2>2, <2>3 DEF HoldInv, NothingNegative
  <2> HIDE DEF row
  <2>5. QED
    BY <2>1, <2>2, <2>3, <2>4, OneRowHolds, DishIsDish
<1>3. ASSUME NEW d \in DOMAIN dishes, EatDish(d) PROVE HoldInv'
  <2> DEFINE row == NewRow(Null, "other", d, -1, 0)
  <2>1. row \in Row /\ row.corrects = Null /\ row.part = "other" /\ row.quantity = -1
        /\ row.batch = d
    <3>1. d \in Nat
      BY DishIsDish
    <3>2. QED
      BY <1>1, <3>1
  <2>2. Write(<<row>>) /\ pantry' = pantry
    BY <1>3 DEF EatDish
  <2>3. PICK x \in Nat : x = dishes[d].remaining - 1
    BY <1>3, DishIsDish DEF EatDish
  <2>4. dishes' = [dishes EXCEPT ![d].remaining = x]
    BY <1>3, <2>3 DEF EatDish
  <2>5. /\ dishes' \in Seq(Dish) /\ DOMAIN dishes' = DOMAIN dishes
        /\ dishes'[d].remaining = x
        /\ \A e \in DOMAIN dishes : e # d => dishes'[e] = dishes[e]
    BY <2>4, DishReplaced, DishIsDish
  <2>6. NothingNegative'
    BY <2>2, <2>5, DishIsDish DEF NothingNegative
  <2> HIDE DEF row
  <2>7. \A e \in DOMAIN dishes : dishes'[e].remaining =
           dishes[e].remaining + IF e = row.batch THEN row.quantity ELSE 0
    BY <2>1, <2>3, <2>5, DishIsDish
  <2>8. row.batch # 0
    BY <2>1, DishIsDish
  <2>9. QED
    BY <2>1, <2>2, <2>5, <2>6, <2>7, <2>8, OneRowHolds
<1>4. QED
  BY <1>2, <1>3

LEMMA CorrectedHolds ==
    ASSUME HoldInv, MealsInv', PreviewsPriced', NEW i \in Rows, CorrectMovement(i)
    PROVE  HoldInv'
<1> DEFINE b == journal[i].batch
           q == journal[i].quantity
           row == Reversal(i)
<1>1. Shape /\ journal[i] \in Row /\ q \in Int
  BY DishIsDish, RowIsRow
<1>2. row \in Row /\ row.batch = b /\ row.quantity = -q
  BY <1>1, ReversalFields DEF Reversal, Row
<1>3. Write(<<row>>) /\ Stands(i) /\ journal[i].part \in {"eaten", "other"}
  BY DEF CorrectMovement, Undo, Stands
<1>4. b \in DOMAIN dishes \cup {0} /\ q <= 0
  <2>1. RowFits(journal[i], DOMAIN dishes)
    BY DEF HoldInv, RowsInv, RowsFit
  <2>2. QED
    BY <1>3, <2>1 DEF RowFits, Stands
<1>5. CASE b = 0
  <2>1. pantry' = [pantry EXCEPT !.remaining = @ - q] /\ dishes' = dishes
    BY <1>5 DEF CorrectMovement, Undo
  <2> HIDE DEF q, row, b
  <2>2. pantry'.remaining = pantry.remaining + row.quantity /\ pantry'.remaining \in Nat
    BY <1>1, <1>2, <1>4, <2>1, DishIsDish
  <2>3. NothingNegative'
    BY <2>1, <2>2, DishIsDish DEF NothingNegative
  <2>4. \E j \in Rows : row = Reversal(j) /\ Stands(j)
    BY <1>3 DEF row
  <2>5. QED
    BY <1>2, <1>3, <1>5, <2>1, <2>2, <2>3, <2>4, OneRowHolds
<1>6. CASE b # 0
  <2>1. pantry' = pantry /\ dishes' = [dishes EXCEPT ![b].remaining = @ - q] /\ b \in DOMAIN dishes
    BY <1>4, <1>6 DEF CorrectMovement, Undo
  <2> HIDE DEF q, row, b
  <2>2. PICK x \in Nat : x = dishes[b].remaining - q
    BY <1>1, <1>4, <2>1, DishIsDish
  <2>3. dishes' = [dishes EXCEPT ![b].remaining = x]
    BY <2>1, <2>2
  <2>4. /\ dishes' \in Seq(Dish) /\ DOMAIN dishes' = DOMAIN dishes
        /\ dishes'[b].remaining = x
        /\ \A e \in DOMAIN dishes : e # b => dishes'[e] = dishes[e]
    BY <2>1, <2>3, DishReplaced, DishIsDish
  <2>5. NothingNegative'
    BY <2>1, <2>4, DishIsDish DEF NothingNegative
  <2>6. \A e \in DOMAIN dishes : dishes'[e].remaining =
           dishes[e].remaining + IF e = row.batch THEN row.quantity ELSE 0
    BY <1>1, <1>2, <2>1, <2>2, <2>4, DishIsDish
  <2>7. \E j \in Rows : row = Reversal(j) /\ Stands(j)
    BY <1>3 DEF row
  <2>8. QED
    BY <1>2, <1>3, <1>6, <2>1, <2>4, <2>5, <2>6, <2>7, OneRowHolds
<1>7. QED
  BY <1>5, <1>6

\* A row that is written only sometimes.
Maybe(none, row) == IF none THEN <<>> ELSE <<row>>

LEMMA LotOfMaybe ==
    ASSUME NEW none \in BOOLEAN, NEW row \in Row
    PROVE  /\ Maybe(none, row) \in Seq(Row)
           /\ \A b : LotOf(Maybe(none, row), b) = IF none THEN 0 ELSE OnLot(row, b)
           /\ \A k \in DOMAIN Maybe(none, row) : ~none /\ Maybe(none, row)[k] = row
<1>1. ASSUME NEW b PROVE LotOf(<<>>, b) = 0
  <2> DEFINE f == [k \in DOMAIN <<>> |-> OnLot(<<>>[k], b)]
  <2>1. DOMAIN f = {}
    OBVIOUS
  <2> HIDE DEF f
  <2>2. SumFunction(f) = 0
    BY <2>1, SumEmpty
  <2>3. QED
    BY <2>2 DEF LotOf, f
<1>2. \A b : LotOf(<<row>>, b) = OnLot(row, b)
  BY RowsCount, LotOfOneRow
<1>3. QED
  BY <1>1, <1>2 DEF Maybe

\* Three sequences in a row.
LEMMA LotOfThree ==
    ASSUME NEW r \in Seq(Row), NEW s \in Seq(Row), NEW t \in Seq(Row), NEW b
    PROVE  /\ LotOf(r \o s \o t, b) = LotOf(r, b) + LotOf(s, b) + LotOf(t, b)
           /\ r \o s \o t \in Seq(Row)
           /\ \A k \in DOMAIN (r \o s \o t) :
                 \/ \E l \in DOMAIN r : (r \o s \o t)[k] = r[l]
                 \/ \E l \in DOMAIN s : (r \o s \o t)[k] = s[l]
                 \/ \E l \in DOMAIN t : (r \o s \o t)[k] = t[l]
<1> DEFINE rs == r \o s
           all == rs \o t
<1>0. rs \in Seq(Row) /\ \A k \in DOMAIN rs :
         (\E l \in DOMAIN r : rs[k] = r[l]) \/ (\E l \in DOMAIN s : rs[k] = s[l])
  <2>1. /\ Len(r) \in Nat /\ Len(s) \in Nat /\ DOMAIN rs = 1..(Len(r) + Len(s))
        /\ DOMAIN r = 1..Len(r) /\ DOMAIN s = 1..Len(s)
    BY LenProperties, ConcatProperties
  <2>2. ASSUME NEW k \in 1..(Len(r) + Len(s))
        PROVE  (\E l \in DOMAIN r : rs[k] = r[l]) \/ (\E l \in DOMAIN s : rs[k] = s[l])
    <3>1. rs[k] = IF k <= Len(r) THEN r[k] ELSE s[k - Len(r)]
      BY <2>1, ConcatProperties
    <3>2. CASE k <= Len(r)
      BY <2>1, <3>1, <3>2
    <3>3. CASE k > Len(r)
      <4>1. k - Len(r) \in DOMAIN s
        BY <2>1, <3>3
      <4>2. rs[k] = s[k - Len(r)]
        BY <2>1, <3>1, <3>3
      <4>3. QED
        BY <4>1, <4>2
    <3>4. QED
      BY <2>1, <3>2, <3>3
  <2>3. rs \in Seq(Row)
    BY ConcatProperties
  <2>4. QED
    BY <2>1, <2>2, <2>3
<1>1. LotOf(rs, b) = LotOf(r, b) + LotOf(s, b)
  BY RowsCount, LotOfMore
<1> HIDE DEF rs
<1>2. LotOf(all, b) = LotOf(rs, b) + LotOf(t, b) /\ all \in Seq(Row)
  BY <1>0, RowsCount, LotOfMore, ConcatProperties
<1>3. \A k \in DOMAIN all :
         (\E l \in DOMAIN rs : all[k] = rs[l]) \/ (\E l \in DOMAIN t : all[k] = t[l])
  <2>1. /\ Len(rs) \in Nat /\ Len(t) \in Nat /\ DOMAIN all = 1..(Len(rs) + Len(t))
        /\ DOMAIN rs = 1..Len(rs) /\ DOMAIN t = 1..Len(t)
    BY <1>0, LenProperties, ConcatProperties
  <2>2. ASSUME NEW k \in 1..(Len(rs) + Len(t))
        PROVE  (\E l \in DOMAIN rs : all[k] = rs[l]) \/ (\E l \in DOMAIN t : all[k] = t[l])
    <3>1. all[k] = IF k <= Len(rs) THEN rs[k] ELSE t[k - Len(rs)]
      BY <1>0, <2>1, ConcatProperties
    <3>2. CASE k <= Len(rs)
      BY <2>1, <3>1, <3>2
    <3>3. CASE k > Len(rs)
      <4>1. k - Len(rs) \in DOMAIN t
        BY <2>1, <3>3
      <4>2. all[k] = t[k - Len(rs)]
        BY <2>1, <3>1, <3>3
      <4>3. QED
        BY <4>1, <4>2
    <3>4. QED
      BY <2>1, <3>2, <3>3
  <2>3. QED
    BY <2>1, <2>2
<1> HIDE DEF all
<1>4. LotOf(all, b) = LotOf(r, b) + LotOf(s, b) + LotOf(t, b)
  BY <1>1, <1>2
<1>5. ASSUME NEW k \in DOMAIN all
      PROVE  \/ \E l \in DOMAIN r : all[k] = r[l]
             \/ \E l \in DOMAIN s : all[k] = s[l]
             \/ \E l \in DOMAIN t : all[k] = t[l]
  BY <1>0, <1>3
<1>6. QED
  BY <1>2, <1>4, <1>5 DEF all, rs

\* What a validation writes: it takes the ingredient from the pantry and leaves
\* the dish, a new batch, with what was not eaten.
LEMMA MealRowsTell ==
    ASSUME Shape, NEW id \in MealIds \cup {Null}, NEW kind, NEW eaten \in Nat,
           eaten <= Makes(kind)
    PROVE  LET rows == MealRows(id, kind, eaten)
               d    == Len(dishes) + 1
           IN  /\ LotOf(rows, 0) = -Takes(kind)
               /\ LotOf(rows, d) = Makes(kind) - eaten
               /\ \A b : b # 0 /\ b # d => LotOf(rows, b) = 0
               /\ \A k \in DOMAIN rows :
                     \/ rows[k].part = "ing" /\ rows[k].batch = 0 /\ rows[k].quantity <= 0
                     \/ /\ rows[k].part = "dish" /\ rows[k].batch = d
                        /\ rows[k].quantity = Parts /\ Makes(kind) # 0
                     \/ /\ rows[k].part = "eaten" /\ rows[k].batch = d
                        /\ rows[k].quantity <= 0 /\ Makes(kind) # 0
<1> DEFINE d == Len(dishes) + 1
           w  == Takes(kind) * pantry.rate
           of(part, b, q) == {r \in Row : r.part = part /\ r.batch = b /\ r.quantity = q}
           i  == NewRow(id, "ing", 0, -Takes(kind), w)
           c  == NewRow(id, "dish", d, Makes(kind), 0)
           e  == NewRow(id, "eaten", d, -eaten, 0)
           noIng == Takes(kind) = 0
           noDish == Makes(kind) = 0
           noTaste == Makes(kind) = 0 \/ eaten = 0
           ing == Maybe(noIng, i)
           dish == Maybe(noDish, c)
           taste == Maybe(noTaste, e)
           rows  == MealRows(id, kind, eaten)
<1>1. /\ Takes(kind) \in Nat /\ Makes(kind) \in {0, Parts} /\ Makes(kind) \in Nat /\ Parts \in Nat
      /\ d \in Nat /\ d # 0
      /\ Takes(kind) * pantry.rate \in Nat
      /\ IF id = Null THEN TRUE ELSE Uid(id) \in Nat \cup {Null}
  <2>1. Takes(kind) \in Nat /\ Makes(kind) \in {0, Parts} /\ Makes(kind) \in Nat /\ Parts \in Nat
    BY MealsConstants DEF Takes, Makes
  <2>2. d \in Nat /\ d # 0 /\ pantry.rate \in Nat
    BY DEF Shape
  <2>3. Uid(id) \in Nat \cup {Null}
    BY LiveMeals DEF Uid
  <2>4. QED
    BY <2>1, <2>2, <2>3
<1>2. ASSUME NEW part \in {"ing", "dish", "eaten"}, NEW b \in Nat, NEW q \in Int, NEW v \in Nat
      PROVE  NewRow(id, part, b, q, v) \in of(part, b, q)
  BY <1>1 DEF NewRow, Row
<1>3. /\ i \in Row /\ i.part = "ing" /\ i.batch = 0 /\ i.quantity = -Takes(kind)
      /\ c \in Row /\ c.part = "dish" /\ c.batch = d /\ c.quantity = Makes(kind)
      /\ e \in Row /\ e.part = "eaten" /\ e.batch = d /\ e.quantity = -eaten
  <2>1. -Takes(kind) \in Int /\ -eaten \in Int /\ Makes(kind) \in Int /\ 0 \in Nat
    BY <1>1
  <2>2. w \in Nat
    BY <1>1
  <2> HIDE DEF d, w, of
  <2>3. i \in of("ing", 0, -Takes(kind))
    BY <1>2, <2>1, <2>2
  <2>4. c \in of("dish", d, Makes(kind))
    BY <1>1, <1>2, <2>1
  <2>5. e \in of("eaten", d, -eaten)
    BY <1>1, <1>2, <2>1
  <2>6. QED
    BY <2>3, <2>4, <2>5 DEF of
<1>4. rows = ing \o dish \o taste
  BY DEF MealRows, Maybe
<1>5. noIng \in BOOLEAN /\ noDish \in BOOLEAN /\ noTaste \in BOOLEAN
  OBVIOUS
<1> HIDE DEF i, c, e, d, w, noIng, noDish, noTaste
<1>6. /\ ing \in Seq(Row) /\ dish \in Seq(Row) /\ taste \in Seq(Row)
      /\ \A k \in DOMAIN ing : ~noIng /\ ing[k] = i
      /\ \A k \in DOMAIN dish : ~noDish /\ dish[k] = c
      /\ \A k \in DOMAIN taste : ~noTaste /\ taste[k] = e
      /\ \A b : /\ LotOf(ing, b) = IF noIng THEN 0 ELSE OnLot(i, b)
                /\ LotOf(dish, b) = IF noDish THEN 0 ELSE OnLot(c, b)
                /\ LotOf(taste, b) = IF noTaste THEN 0 ELSE OnLot(e, b)
  <2>1. /\ ing \in Seq(Row) /\ \A k \in DOMAIN ing : ~noIng /\ ing[k] = i
        /\ \A b : LotOf(ing, b) = IF noIng THEN 0 ELSE OnLot(i, b)
    BY <1>3, <1>5, LotOfMaybe
  <2>2. /\ dish \in Seq(Row) /\ \A k \in DOMAIN dish : ~noDish /\ dish[k] = c
        /\ \A b : LotOf(dish, b) = IF noDish THEN 0 ELSE OnLot(c, b)
    BY <1>3, <1>5, LotOfMaybe
  <2>3. /\ taste \in Seq(Row) /\ \A k \in DOMAIN taste : ~noTaste /\ taste[k] = e
        /\ \A b : LotOf(taste, b) = IF noTaste THEN 0 ELSE OnLot(e, b)
    BY <1>3, <1>5, LotOfMaybe
  <2>4. QED
    BY <2>1, <2>2, <2>3
<1> HIDE DEF ing, dish, taste
<1>7. /\ \A b : LotOf(rows, b) = LotOf(ing, b) + LotOf(dish, b) + LotOf(taste, b)
      /\ \A k \in DOMAIN rows : \/ \E l \in DOMAIN ing : rows[k] = ing[l]
                                \/ \E l \in DOMAIN dish : rows[k] = dish[l]
                                \/ \E l \in DOMAIN taste : rows[k] = taste[l]
  <2>1. ing \in Seq(Row) /\ dish \in Seq(Row) /\ taste \in Seq(Row)
    BY <1>6
  <2>2. ASSUME NEW b PROVE LotOf(rows, b) = LotOf(ing, b) + LotOf(dish, b) + LotOf(taste, b)
    <3> HIDE DEF rows
    <3> QED BY <1>4, <2>1, LotOfThree
  <2>3. \A k \in DOMAIN rows : \/ \E l \in DOMAIN ing : rows[k] = ing[l]
                               \/ \E l \in DOMAIN dish : rows[k] = dish[l]
                               \/ \E l \in DOMAIN taste : rows[k] = taste[l]
    <3> HIDE DEF rows
    <3> QED BY <1>4, <2>1, LotOfThree
  <2>4. QED
    BY <2>2, <2>3
<1> HIDE DEF rows
<1>8. LotOf(rows, 0) = -Takes(kind)
  <2>1. LotOf(ing, 0) = -Takes(kind) /\ LotOf(dish, 0) = 0 /\ LotOf(taste, 0) = 0
    BY <1>1, <1>3, <1>6 DEF OnLot, noIng
  <2>2. QED
    BY <1>1, <1>7, <2>1
<1>9. LotOf(rows, d) = Makes(kind) - eaten
  <2>1. LotOf(ing, d) = 0
    BY <1>1, <1>3, <1>6 DEF OnLot
  <2>2. LotOf(dish, d) = Makes(kind)
    BY <1>1, <1>3, <1>6 DEF OnLot, noDish
  <2>3. LotOf(taste, d) = -eaten
    BY <1>1, <1>3, <1>6 DEF OnLot, noTaste
  <2>4. QED
    BY <1>1, <1>7, <2>1, <2>2, <2>3
<1>10. ASSUME NEW b, b # 0, b # d PROVE LotOf(rows, b) = 0
  <2>1. LotOf(ing, b) = 0 /\ LotOf(dish, b) = 0 /\ LotOf(taste, b) = 0
    BY <1>3, <1>6, <1>10 DEF OnLot
  <2>2. QED
    BY <1>7, <2>1
<1>11. ASSUME NEW k \in DOMAIN rows
       PROVE  \/ rows[k].part = "ing" /\ rows[k].batch = 0 /\ rows[k].quantity <= 0
              \/ /\ rows[k].part = "dish" /\ rows[k].batch = d
                 /\ rows[k].quantity = Parts /\ Makes(kind) # 0
              \/ /\ rows[k].part = "eaten" /\ rows[k].batch = d
                 /\ rows[k].quantity <= 0 /\ Makes(kind) # 0
  <2>1. \/ rows[k] = i
        \/ ~noDish /\ rows[k] = c
        \/ ~noTaste /\ rows[k] = e
    BY <1>6, <1>7
  <2>2. -Takes(kind) <= 0 /\ -eaten <= 0
    BY <1>1
  <2>3. QED
    BY <1>1, <1>3, <2>1, <2>2 DEF noDish, noTaste
<1>12. QED
  BY <1>8, <1>9, <1>10, <1>11 DEF rows, d

LEMMA WriteHolds ==
    ASSUME HoldInv, MealsInv', PreviewsPriced', NEW t \in Threads, NEW eaten \in 0..Parts,
           WriteMeal(t, eaten)
    PROVE  HoldInv'
<1> DEFINE id   == calls[t].meal
           kind == calls[t].kind
           rows == MealRows(id, kind, eaten)
           d    == Len(dishes) + 1
           new  == [remaining |-> Makes(kind) - eaten, worth |-> Takes(kind) * calls[t].rate]
<1>1. Shape /\ id \in MealIds \cup {Null} /\ eaten \in Nat /\ eaten <= Makes(kind)
      /\ calls[t].rate \in Nat
  BY MealsConstants DEF HoldInv, MealsInv, Shape, Call, WriteMeal, PreviewsPriced
<1>2. /\ Write(rows) /\ Takes(kind) <= pantry.remaining
      /\ pantry' = [pantry EXCEPT !.remaining = @ - Takes(kind)]
      /\ dishes' = IF Makes(kind) = 0 THEN dishes ELSE Append(dishes, new)
  BY DEF WriteMeal, CanWrite
<1>3. Takes(kind) \in Nat /\ Makes(kind) \in Nat /\ Parts \in Nat
  BY MealsConstants DEF Takes, Makes
<1>4. new \in Dish /\ new.remaining = Makes(kind) - eaten
  BY <1>1, <1>3 DEF Dish
<1>5. dishes \in Seq(Dish) /\ Len(dishes) \in Nat /\ DOMAIN dishes = 1..Len(dishes)
      /\ d \in Nat /\ d # 0 /\ d \notin DOMAIN dishes
  BY DishIsDish
<1> HIDE DEF id, kind, new
<1>6. /\ dishes' \in Seq(Dish) /\ DOMAIN dishes \subseteq DOMAIN dishes'
      /\ \A b \in DOMAIN dishes : dishes'[b] = dishes[b]
      /\ \A b \in DOMAIN dishes' : b \in DOMAIN dishes \/ b = d
      /\ d \in DOMAIN dishes' <=> Makes(kind) # 0
      /\ d \in DOMAIN dishes' => dishes'[d].remaining = Makes(kind) - eaten
  <2>1. CASE Makes(kind) = 0
    BY <1>2, <1>5, <2>1
  <2>2. CASE Makes(kind) # 0
    <3>1. dishes' = Append(dishes, new)
      BY <1>2, <2>2
    <3>2. /\ dishes' \in Seq(Dish) /\ DOMAIN dishes' = 1..d /\ dishes'[d] = new
          /\ \A b \in DOMAIN dishes : dishes'[b] = dishes[b]
      BY <1>4, <1>5, <3>1
    <3>3. QED
      BY <1>4, <1>5, <2>2, <3>2
  <2>3. QED
    BY <2>1, <2>2
<1>7. /\ rows \in Seq(Row)
      /\ \A k \in DOMAIN rows : rows[k].corrects = Null
      /\ \A k, l \in DOMAIN rows : rows[k].part = rows[l].part => k = l
  BY <1>1, MealRowsFields
<1>8. /\ LotOf(rows, 0) = -Takes(kind)
      /\ LotOf(rows, d) = Makes(kind) - eaten
      /\ \A b : b # 0 /\ b # d => LotOf(rows, b) = 0
      /\ \A k \in DOMAIN rows :
            \/ rows[k].part = "ing" /\ rows[k].batch = 0 /\ rows[k].quantity <= 0
            \/ /\ rows[k].part = "dish" /\ rows[k].batch = d
               /\ rows[k].quantity = Parts /\ Makes(kind) # 0
            \/ /\ rows[k].part = "eaten" /\ rows[k].batch = d
               /\ rows[k].quantity <= 0 /\ Makes(kind) # 0
  BY <1>1, MealRowsTell
<1> HIDE DEF rows, d
<1>9. Fits(rows)
  <2>1. ASSUME NEW k \in DOMAIN rows
        PROVE  /\ rows[k].corrects = Null /\ RowFits(rows[k], DOMAIN dishes')
               /\ rows[k].part = "dish" => rows[k].batch \notin DOMAIN dishes
    <3>1. Makes(kind) # 0 => d \in DOMAIN dishes'
      BY <1>6
    <3>2. QED
      BY <1>5, <1>7, <1>8, <3>1 DEF RowFits
  <2>2. \A k \in DOMAIN rows, i \in Rows : rows[k] # Reversal(i)
    BY <1>1, <1>7, ReversalFields
  <2>3. QED
    BY <1>6, <1>7, <2>1, <2>2 DEF Fits
<1>10. pantry'.remaining = pantry.remaining - Takes(kind) /\ pantry'.remaining \in Nat
  BY <1>2, <1>3, DishIsDish
<1>11. Settles(rows)
  <2>1. pantry'.remaining = pantry.remaining + LotOf(rows, 0)
    BY <1>3, <1>8, <1>10, DishIsDish
  <2>2. ASSUME NEW b \in DOMAIN dishes' PROVE dishes'[b].remaining = Before(b) + LotOf(rows, b)
    <3>1. CASE b \in DOMAIN dishes
      BY <1>5, <1>6, <1>8, <3>1, DishIsDish DEF Before
    <3>2. CASE b = d
      BY <1>1, <1>3, <1>5, <1>6, <1>8, <3>2 DEF Before
    <3>3. QED
      BY <1>6, <3>1, <3>2
  <2>3. QED
    BY <2>1, <2>2 DEF Settles
<1>12. NothingNegative'
  BY <1>6, <1>10 DEF NothingNegative
<1>13. Write(rows)
  BY <1>2
<1>14. QED
  BY <1>7, <1>9, <1>11, <1>12, <1>13, HoldStep

\* What a block of rows brought to batch b, in the two forms.
LEMMA BlockOnBatch ==
    ASSUME Shape, NEW S \in SUBSET Rows, NEW b
    PROVE  /\ QuantityOf(S \cap OnBatch(b)) = LotWithin(journal, S, b)
           /\ Summable([i \in S |-> OnLot(journal[i], b)], S)
           /\ LotWithin(journal, S, b) \in Int
<1> DEFINE f == [k \in DOMAIN journal |-> OnLot(journal[k], b)]
           g == [i \in S |-> OnLot(journal[i], b)]
           T == S \cap OnBatch(b)
           q == [i \in T |-> journal[i].quantity]
<1>1. Summable(f, DOMAIN journal)
  BY RowsCount, RowIsRow, LotsAdd
<1>2. S \in SUBSET DOMAIN journal /\ g = Restrict(f, S)
  BY DEF Rows, Restrict
<1>3. Summable(g, S)
  <2> HIDE DEF f, g
  <2>1. QED
    BY <1>1, <1>2, SummablePart
<1>4. T \in SUBSET S /\ q = Restrict(g, T)
  BY DEF OnBatch, OnLot, Restrict
<1>5. \A i \in S \ T : g[i] = 0
  BY DEF OnBatch, OnLot
<1> HIDE DEF f, g, T, q
<1>6. SumFunction(g) = SumFunction(q)
  BY <1>3, <1>4, <1>5, SumOfTheRest
<1>7. SumFunction(g) \in Int
  BY <1>3, SummableSays
<1>8. QuantityOf(T) = SumFunction(q)
  BY DEF QuantityOf, q
<1>9. QED
  BY <1>3, <1>6, <1>7, <1>8 DEF LotWithin, g, T

\* Rows that brought nothing leave nothing to take away.
LEMMA BlockTook ==
    ASSUME Shape, NEW S \in SUBSET Rows, NEW b,
           \A i \in S : journal[i].batch = b => journal[i].quantity <= 0
    PROVE  LotWithin(journal, S, b) <= 0
<1> DEFINE g == [i \in S |-> OnLot(journal[i], b)]
           z == [i \in S |-> 0]
<1>1. Summable(g, S) /\ LotWithin(journal, S, b) = SumFunction(g)
  BY BlockOnBatch DEF LotWithin
<1>2. Summable(z, S) /\ \A i \in S : z[i] = 0
  BY <1>1 DEF Summable
<1>3. \A i \in S : g[i] <= z[i]
  BY DEF OnLot
<1> HIDE DEF g, z
<1>4. SumFunction(g) <= SumFunction(z) /\ SumFunction(z) = 0
  BY <1>1, <1>2, <1>3, SumBounded, SumOfZeros
<1>5. QED
  BY <1>1, <1>4

LEMMA CorrectMealHolds ==
    ASSUME HoldInv, MealsInv', PreviewsPriced', NEW id \in MealIds, CorrectMeal(id)
    PROVE  HoldInv'
<1> DEFINE block == RowsOf(id)
           n     == Cardinality(block)
<1>1. Shape /\ BackRefs /\ RowsInv /\ id # Null
  BY LiveMeals DEF CorrectMeal, CanCorrectMeal, HoldInv, MealsInv
<1>2. PICK order \in LastFirst(block) : Write([k \in 1..n |-> Reversal(order[k])])
  BY DEF CorrectMeal, Block
<1> DEFINE rows == [k \in 1..n |-> Reversal(order[k])]
<1>3. IsFiniteSet(block) /\ n \in Nat
  <2>1. block \subseteq 1..Len(journal) /\ Len(journal) \in Nat
    BY <1>1 DEF RowsOf, Rows, Shape
  <2>2. IsFiniteSet(1..Len(journal))
    BY <2>1, FS_Interval
  <2>3. QED
    BY <2>1, <2>2, FS_Subset, FS_CardinalityType
<1>4. order \in Bijection(1..n, block) /\ order \in [1..n -> block]
      /\ \A k, l \in 1..n : order[k] = order[l] => k = l
  BY <1>2 DEF LastFirst, Bijection, Injection, IsInjective
<1>5. block \in SUBSET Rows /\ \A i \in block : journal[i].meal = id
  BY DEF RowsOf
<1>6. \A i \in block : Stands(i) /\ journal[i].corrects = Null
  BY <1>1, <1>5 DEF CorrectMeal, CanCorrectMeal, Stands, BackRefs
<1>7. /\ pantry' = [pantry EXCEPT !.remaining = @ - QuantityOf(block \cap OnBatch(0))]
      /\ dishes' = [d \in DOMAIN dishes |->
                       [dishes[d] EXCEPT !.remaining = DishAfter(d, block)]]
      /\ \A d \in DishesOf(id) : DishAfter(d, block) >= 0
  BY DEF CorrectMeal, CanCorrectMeal, Block
<1>8. DishesOf(id) = {journal[i].batch : i \in {j \in block : journal[j].part = "dish"}}
  BY DEF DishesOf
<1> HIDE DEF block, n
<1>9. rows \in Seq(Row) /\ DOMAIN rows = 1..n
  <2>1. \A k \in 1..n : Reversal(order[k]) \in Row
    BY <1>1, <1>4, <1>5, ReversalFields
  <2>2. rows \in [1..n -> Row]
    BY <2>1
  <2>3. QED
    BY <1>3, <2>2, SeqDef
<1>10. ASSUME NEW i \in Rows
       PROVE  /\ Reversal(i).corrects = i /\ i # Null
              /\ Reversal(i).batch = journal[i].batch
              /\ Reversal(i).quantity = -journal[i].quantity
  <2>1. journal[i] \in Row
    BY <1>1, RowIsRow
  <2>2. QED
    BY <1>1, <2>1, ReversalFields DEF Reversal, Row
<1>11. \A k \in DOMAIN rows : rows[k] = Reversal(order[k]) /\ order[k] \in block
  BY <1>4, <1>9
<1>12. Write(rows)
  BY <1>2
<1> HIDE DEF rows
<1>13. DOMAIN dishes' = DOMAIN dishes
  BY <1>7
<1>14. Fits(rows)
  <2>1. \A k \in DOMAIN rows : \E i \in Rows : rows[k] = Reversal(i) /\ Stands(i)
    BY <1>5, <1>6, <1>11
  <2>2. \A k \in DOMAIN rows : rows[k].corrects # Null
    BY <1>5, <1>10, <1>11
  <2>3. ASSUME NEW k \in DOMAIN rows, NEW l \in DOMAIN rows, NEW i \in Rows,
               rows[k] = Reversal(i), rows[l] = Reversal(i)
        PROVE  k = l
    <3>1. order[k] = i /\ order[l] = i
      BY <1>5, <1>10, <1>11, <2>3
    <3>2. QED
      BY <1>4, <1>9, <3>1
  <2>4. QED
    BY <1>13, <2>1, <2>2, <2>3 DEF Fits
<1>15. \A b : LotOf(rows, b) = -LotWithin(journal, block, b)
  <2> TAKE b
  <2>1. \A k \in 1..n : /\ rows[k].batch = journal[order[k]].batch
                        /\ rows[k].quantity = -journal[order[k]].quantity
    BY <1>4, <1>5, <1>9, <1>10, <1>11
  <2>2. TakeBack(rows, n, order, journal, block)
    BY <1>4, <1>9, <2>1 DEF TakeBack
  <2>3. block \in SUBSET DOMAIN journal /\ journal \in Seq(Row)
    BY <1>1, <1>5 DEF Rows, Shape
  <2>4. QED
    BY <1>3, <1>9, <2>2, <2>3, RowsCount, LotTakenBack
<1>16. \A b : QuantityOf(block \cap OnBatch(b)) = LotWithin(journal, block, b) /\ LotWithin(journal, block, b) \in Int
  BY <1>1, <1>5, BlockOnBatch
<1>17. ASSUME NEW i \in block
       PROVE  /\ RowFits(journal[i], DOMAIN dishes) /\ journal[i].corrects = Null
              /\ journal[i].part # "dish" => journal[i].quantity <= 0
  BY <1>1, <1>5, <1>6 DEF RowsInv, RowsFit, RowFits
<1>18. pantry'.remaining = pantry.remaining + LotOf(rows, 0) /\ pantry'.remaining \in Nat
  <2>1. \A i \in block : journal[i].batch = 0 => journal[i].quantity <= 0
    BY <1>17, DishIsDish DEF RowFits
  <2>2. LotWithin(journal, block, 0) <= 0
    BY <1>1, <1>5, <2>1, BlockTook
  <2>3. pantry'.remaining = pantry.remaining - LotWithin(journal, block, 0)
    BY <1>7, <1>16, DishIsDish
  <2>4. QED
    BY <1>15, <1>16, <2>2, <2>3, DishIsDish
<1>19. ASSUME NEW d \in DOMAIN dishes
       PROVE  /\ dishes'[d].remaining = Before(d) + LotOf(rows, d)
              /\ dishes'[d] \in Dish
  <2>1. dishes[d] \in Dish /\ dishes[d].remaining \in Nat
    BY DishIsDish
  <2>2. /\ dishes'[d] = [dishes[d] EXCEPT !.remaining = DishAfter(d, block)]
        /\ DishAfter(d, block) = dishes[d].remaining - LotWithin(journal, block, d)
    BY <1>7, <1>16 DEF DishAfter
  <2>3. DishAfter(d, block) \in Nat
    <3>1. CASE d \in DishesOf(id)
      BY <1>7, <1>16, <2>1, <2>2, <3>1
    <3>2. CASE d \notin DishesOf(id)
      <4>1. \A i \in block : journal[i].batch = d => journal[i].quantity <= 0
        BY <1>8, <1>17, <3>2
      <4>2. LotWithin(journal, block, d) <= 0
        BY <1>1, <1>5, <4>1, BlockTook
      <4>3. QED
        BY <1>16, <2>1, <2>2, <4>2
    <3>3. QED
      BY <3>1, <3>2
  <2>4. PICK x \in Nat : x = DishAfter(d, block)
    BY <2>3
  <2>5. dishes'[d] \in Dish /\ dishes'[d].remaining = x
    BY <2>1, <2>2, <2>4 DEF Dish
  <2>6. x = Before(d) + LotOf(rows, d)
    BY <1>15, <1>16, <2>1, <2>2, <2>4 DEF Before
  <2>7. QED
    BY <2>5, <2>6
<1>20. Settles(rows)
  BY <1>13, <1>18, <1>19 DEF Settles
<1>21. NothingNegative'
  <2>1. DOMAIN dishes' = 1..Len(dishes) /\ Len(dishes) \in Nat
    BY <1>13, DishIsDish
  <2>2. dishes' = [d \in 1..Len(dishes) |-> dishes'[d]]
    BY <1>7, <2>1
  <2>3. dishes' \in [1..Len(dishes) -> Dish]
    BY <1>13, <1>19, <2>1, <2>2
  <2>4. dishes' \in Seq(Dish)
    BY <2>1, <2>3, SeqDef
  <2>5. QED
    BY <1>18, <2>4 DEF NothingNegative
<1>22. QED
  BY <1>9, <1>12, <1>14, <1>20, <1>21, HoldStep

(***************************************************************************)
(* The theorem                                                             *)
(***************************************************************************)
LEMMA HoldInvInit == Init => HoldInv
<1> SUFFICES ASSUME Init PROVE HoldInv
  OBVIOUS
<1>1. MealsInv
  BY MealsInvInit
<1>2. Rows = {} /\ DOMAIN dishes = {} /\ DOMAIN journal = {}
  BY DEF Init, Rows
<1>3. RowsInv
  BY <1>2 DEF RowsInv, RowsFit, Takebacks, TakenBackOnce, OneDishEach
<1>4. LotOf(journal, 0) = 0
  <2> DEFINE f == [k \in DOMAIN journal |-> OnLot(journal[k], 0)]
  <2>1. DOMAIN f = {}
    BY <1>2
  <2> HIDE DEF f
  <2>2. SumFunction(f) = 0
    BY <2>1, SumEmpty
  <2>3. QED
    BY <2>2 DEF LotOf, f
<1>5. pantry.remaining = MaxPantry /\ MaxPantry \in Nat /\ dishes \in Seq(Dish)
  BY MealsConstants DEF Init
<1>6. BatchesTold /\ NothingNegative
  BY <1>2, <1>4, <1>5 DEF BatchesTold, NothingNegative
<1>7. PreviewsPriced
  BY DEF Init, PreviewsPriced, Idle
<1>8. QED
  BY <1>1, <1>3, <1>6, <1>7 DEF HoldInv

LEMMA HoldInvNext == HoldInv /\ [Next]_vars => HoldInv'
<1> SUFFICES ASSUME HoldInv, [Next]_vars PROVE HoldInv'
  OBVIOUS
<1>1. MealsInv'
  BY MealsInvNext DEF HoldInv
<1>2. PreviewsPriced'
  BY PreviewsStep
<1>3. CASE /\ journal' = journal /\ dishes' = dishes
           /\ pantry' = pantry \/ \E r \in Rates : PantryRepriced(r)
  <2>1. pantry'.remaining = pantry.remaining
    BY <1>3, DishIsDish DEF PantryRepriced
  <2>2. QED
    BY <1>1, <1>2, <1>3, <2>1, HoldQuiet
<1>4. ASSUME \/ \E k \in Kinds : PlanMeal(k)
             \/ \E id \in MealIds : CancelMeal(id)
             \/ \E t \in Threads, id \in MealIds : SkipMeal(t, id) \/ LookForReplay(t, id)
             \/ \E t \in Threads : SkipDoneMeal(t) \/ PreviewMeal(t) \/ Return(t)
             \/ \E r \in Rates : PantryRepriced(r)
             \/ UNCHANGED vars
      PROVE  HoldInv'
  BY <1>3, <1>4 DEF PlanMeal, CancelMeal, SkipMeal, LookForReplay, SkipDoneMeal, PreviewMeal,
     Return, PantryRepriced, vars
<1>5. ASSUME NEW t \in Threads, NEW eaten \in 0..Parts, WriteMeal(t, eaten) PROVE HoldInv'
  BY <1>1, <1>2, <1>5, WriteHolds
<1>6. ASSUME NEW id \in MealIds, CorrectMeal(id) PROVE HoldInv'
  BY <1>1, <1>2, <1>6, CorrectMealHolds
<1>7. CASE EatPantry \/ \E d \in DOMAIN dishes : EatDish(d)
  BY <1>1, <1>2, <1>7, EatenHolds
<1>8. ASSUME NEW i \in Rows, CorrectMovement(i) PROVE HoldInv'
  BY <1>1, <1>2, <1>8, CorrectedHolds
<1>9. QED
  BY <1>4, <1>5, <1>6, <1>7, <1>8 DEF Next

LEMMA HoldInvAlways == Spec => []HoldInv
BY HoldInvInit, HoldInvNext, PTL DEF Spec

(* However validations, single corrections, block corrections and leftovers
   interleave, the pantry and every dish hold what the journal says came in
   and went out; none holds less than nothing, and no dish more than it was
   cooked with. *)
THEOREM StockStaysTheJournal == Spec => []StockIsTheJournal
<1>1. HoldInv => StockIsTheJournal
  <2> SUFFICES ASSUME HoldInv PROVE StockIsTheJournal
    OBVIOUS
  <2>1. /\ Shape /\ RowsInv /\ dishes \in Seq(Dish)
        /\ pantry \in [remaining : Nat, rate : Nat]
    BY DishIsDish DEF HoldInv
  <2>2. TypeOK
    BY <2>1 DEF TypeOK, Shape, Dish
  <2>3. ASSUME NEW b PROVE QuantityOf(OnBatch(b)) = LotOf(journal, b)
    <3>1. Rows \in SUBSET Rows /\ Rows \cap OnBatch(b) = OnBatch(b)
      BY DEF OnBatch
    <3>2. LotWithin(journal, Rows, b) = LotOf(journal, b)
      BY DEF LotWithin, LotOf, Rows
    <3>3. QED
      BY <2>1, <3>1, <3>2, BlockOnBatch
  <2>4. pantry.remaining = MaxPantry + QuantityOf(OnBatch(0))
    BY <2>3 DEF HoldInv, BatchesTold
  <2>5. ASSUME NEW d \in DOMAIN dishes
        PROVE  /\ dishes[d].remaining = QuantityOf(OnBatch(d))
               /\ dishes[d].remaining \in 0..Parts
    <3>1. dishes[d].remaining = LotOf(journal, d) /\ dishes[d].remaining \in Nat
      BY DishIsDish DEF HoldInv, BatchesTold
    <3>2. LotOf(journal, d) <= Parts /\ Parts \in Nat
      BY <2>1, NoMoreThanItsParts, MealsConstants
    <3>3. QED
      BY <2>3, <3>1, <3>2
  <2>6. QED
    BY <2>2, <2>4, <2>5 DEF StockIsTheJournal, BatchesHoldWhatCameIn
<1>2. QED
  BY <1>1, HoldInvAlways, PTL
=============================================================================

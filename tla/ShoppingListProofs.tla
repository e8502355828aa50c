------------------------- MODULE ShoppingListProofs -------------------------
(***************************************************************************)
(* Theorems about ShoppingList, for every number of slots and, but for the *)
(* second, of reconciliations at once: the list stays well formed, a line  *)
(* has a reason to be there, and a shortage leaves it on a measure only.   *)
(*                                                                         *)
(* A plan is applied to a list that hands have changed since it was read.  *)
(* What carries the second theorem is that hands take no claim away: with  *)
(* one pass at a time, a line the plan remembers still has the claims the  *)
(* plan is about (`Remembered`).  What carries the third is that a plan    *)
(* never drops a shortage without the measure that says so (`Measured`).   *)
(***************************************************************************)
EXTENDS ShoppingList, TLAPS

(***************************************************************************)
(* The list stays well formed                                              *)
(***************************************************************************)
\* Only a row that was open is open after the rows are rewritten.
LEMMA RewrittenRows ==
    ASSUME TypeOK, NEW p \in Passes
    PROVE  /\ Rewritten(passes[p]) \in [Slots -> Item \cup {Null}]
           /\ OpenOf(Rewritten(passes[p])) \subseteq OpenOf(items)
<1> DEFINE plan == passes[p]
           r    == Rewritten(plan)
<1>1. plan \in Pass
  BY DEF TypeOK
<1>2. \A s \in Slots : r[s] \in Item \cup {Null}
               /\ (r[s] # Null => items[s] # Null /\ r[s].checked = items[s].checked)
  <2> TAKE s \in Slots
  <2>1. CASE items[s] = Null \/ s \in ToPurge(plan) \cup Emptied(plan)
    BY <2>1 DEF Rewritten
  <2>2. CASE /\ items[s] # Null /\ s \notin ToPurge(plan) \cup Emptied(plan)
             /\ s \in Diffed(plan)
    <3>1. r[s] = [items[s] EXCEPT !.claims = (@ \ Dropped(plan, s)) \cup Added(plan, s)]
      BY <2>2 DEF Rewritten
    <3>2. items[s] \in Item
      BY <2>2 DEF TypeOK
    <3>3. Added(plan, s) \subseteq Origins
      BY <1>1 DEF Added, Pass
    <3>4. QED
      BY <2>2, <3>1, <3>2, <3>3 DEF Item
  <2>3. CASE /\ items[s] # Null /\ s \notin ToPurge(plan) \cup Emptied(plan)
             /\ s \notin Diffed(plan)
    BY <2>3 DEF Rewritten, TypeOK
  <2>4. QED
    BY <2>1, <2>2, <2>3
<1>3. r \in [Slots -> Item \cup {Null}]
  BY <1>2 DEF Rewritten
<1>4. QED
  BY <1>2, <1>3 DEF OpenOf, ItemsOf

\* Hands and the house keep the list well formed.
LEMMA HandsTypeOK ==
    ASSUME TypeOK,
           \/ AddByHand
           \/ \E s \in Slots : Check(s) \/ Uncheck(s) \/ RemoveByHand(s)
           \/ StartTrip \/ CloseTrip \/ HouseChanges
    PROVE  TypeOK'
<1>0. items \in [Slots -> Item \cup {Null}]
  BY DEF TypeOK
<1>1. CASE AddByHand
  <2>1. CASE OpenOf(items) # {}
    <3>1. PICK s \in OpenOf(items) :
             items' = [items EXCEPT ![s].claims = @ \cup {"manual"}]
      BY <1>1, <2>1 DEF AddByHand
    <3>2. s \in Slots /\ items[s] \in Item /\ items[s].checked = Null
      BY DEF OpenOf, ItemsOf, TypeOK
    <3>3. [items[s] EXCEPT !.claims = @ \cup {"manual"}] \in Item
      BY <3>2 DEF Item, Origins
    <3>4. items' = [items EXCEPT ![s] = [items[s] EXCEPT !.claims = @ \cup {"manual"}]]
      BY <3>1
    <3>5. items' \in [Slots -> Item \cup {Null}] /\ OpenOf(items') \subseteq OpenOf(items) \cup {s}
      BY <1>0, <3>2, <3>3, <3>4 DEF OpenOf, ItemsOf
    <3>6. QED
      BY <1>1, <3>5 DEF AddByHand, TypeOK
  <2>2. CASE OpenOf(items) = {}
    <3>1. PICK s \in Free :
             items' = [items EXCEPT ![s] = [claims |-> {"manual"}, checked |-> Null]]
      BY <1>1, <2>2 DEF AddByHand, Lowest
    <3>2. s \in Slots /\ [claims |-> {"manual"}, checked |-> Null] \in Item
      BY DEF Free, Item, Origins
    <3>3. items' \in [Slots -> Item \cup {Null}] /\ OpenOf(items') \subseteq {s}
      BY <1>0, <2>2, <3>1, <3>2 DEF OpenOf, ItemsOf
    <3>4. QED
      BY <1>1, <3>3 DEF AddByHand, TypeOK
  <2>3. QED
    BY <2>1, <2>2
<1>2. ASSUME NEW s \in Slots, Check(s) PROVE TypeOK'
  <2>1. items[s] \in Item /\ [items[s] EXCEPT !.checked = "now"] \in Item
    BY <1>2 DEF Check, TypeOK, ItemsOf, Item
  <2>2. items' = [items EXCEPT ![s] = [items[s] EXCEPT !.checked = "now"]]
    BY <1>2 DEF Check
  <2>3. [items[s] EXCEPT !.checked = "now"].checked # Null
    BY <2>1, NullIsNoItem DEF Item
  <2>4. items' \in [Slots -> Item \cup {Null}] /\ OpenOf(items') \subseteq OpenOf(items)
    BY <1>0, <2>1, <2>2, <2>3 DEF OpenOf, ItemsOf
  <2>5. QED
    BY <1>2, <2>4 DEF Check, TypeOK
<1>3. ASSUME NEW s \in Slots, Uncheck(s) PROVE TypeOK'
  <2>1. [items[s] EXCEPT !.checked = Null] \in Item
    BY <1>3 DEF Uncheck, TypeOK, ItemsOf, Item
  <2>2. items' = [items EXCEPT ![s] = [items[s] EXCEPT !.checked = Null]]
    BY <1>3 DEF Uncheck
  <2>3. items' \in [Slots -> Item \cup {Null}] /\ OpenOf(items') \subseteq OpenOf(items) \cup {s}
    BY <1>0, <2>1, <2>2 DEF OpenOf, ItemsOf
  <2>4. QED
    BY <1>3, <2>3 DEF Uncheck, TypeOK
<1>4. ASSUME NEW s \in Slots, RemoveByHand(s) PROVE TypeOK'
  <2>1. items' \in [Slots -> Item \cup {Null}] /\ OpenOf(items') \subseteq OpenOf(items)
    BY <1>0, <1>4 DEF RemoveByHand, OpenOf, ItemsOf
  <2>2. QED
    BY <1>4, <2>1 DEF RemoveByHand, TypeOK
<1>5. CASE StartTrip
  BY <1>5 DEF StartTrip, TypeOK, OpenOf, ItemsOf
<1>6. CASE CloseTrip
  <2>1. \A s \in ItemsOf(items) \ OpenOf(items) :
           [items[s] EXCEPT !.checked = "before"] \in Item
    BY DEF ItemsOf, TypeOK, Item
  <2>2. items' \in [Slots -> Item \cup {Null}]
    BY <1>6, <2>1 DEF CloseTrip, TypeOK
  <2>3. OpenOf(items') \subseteq OpenOf(items)
    BY <1>6, <2>1, NullIsNoItem DEF CloseTrip, OpenOf, ItemsOf, Item
  <2>4. QED
    BY <1>6, <2>2, <2>3 DEF CloseTrip, TypeOK
<1>7. CASE HouseChanges
  BY <1>7 DEF HouseChanges, TypeOK, OpenOf, ItemsOf
<1>8. QED
  BY <1>1, <1>2, <1>3, <1>4, <1>5, <1>6, <1>7

\* What a pass reads keeps the list well formed.
LEMMA ReadsTypeOK ==
    ASSUME TypeOK, NEW p \in Passes, ReadList(p) \/ ReadNeeds(p) \/ Abandon(p)
    PROVE  TypeOK'
<1>1. items' = items /\ barred' = barred /\ house' = house /\ trip' = trip
  BY DEF ReadList, ReadNeeds, Abandon
<1>2. Idle \in Pass
  BY DEF Idle, Pass
<1>3. CASE ReadList(p)
  <2> DEFINE new == [Idle EXCEPT !.pc = "listed", !.items = items,
                         !.blocked = (barred # {}), !.trip = trip]
  <2>1. new \in Pass
    BY <1>2 DEF TypeOK, Pass
  <2>2. passes' \in [Passes -> Pass]
    BY <1>3, <2>1 DEF ReadList, TypeOK
  <2>3. QED
    BY <1>1, <2>2 DEF TypeOK, OpenOf, ItemsOf
<1>4. CASE ReadNeeds(p)
  <2> DEFINE m == IF house.active /\ house.threshold THEN house.level ELSE Null
             d == house.due /\ house.active /\ ~passes[p].trip
             new == [passes[p] EXCEPT !.pc = "planned", !.wanted = Wanted(passes[p].items),
                                      !.measured = m, !.due = d]
  <2>1. Wanted(passes[p].items) \subseteq Origins /\ d \in BOOLEAN
    BY DEF Wanted
  <2>2. m \in {"under", "margin", "above", Null}
    BY DEF TypeOK, House
  <2>3. passes[p] \in Pass
    BY DEF TypeOK
  <2>4. new \in Pass
    <3> HIDE DEF m, d
    <3> QED BY <2>1, <2>2, <2>3 DEF Pass
  <2>5. passes' = [passes EXCEPT ![p] = new]
    BY <1>4 DEF ReadNeeds
  <2>6. passes' \in [Passes -> Pass]
    <3> HIDE DEF new
    <3> QED BY <2>4, <2>5 DEF TypeOK
  <2>7. QED
    BY <1>1, <2>6 DEF TypeOK, OpenOf, ItemsOf
<1>5. CASE Abandon(p)
  <2>1. passes' \in [Passes -> Pass]
    BY <1>2, <1>5 DEF Abandon, TypeOK
  <2>2. QED
    BY <1>1, <2>1 DEF TypeOK, OpenOf, ItemsOf
<1>6. QED
  BY <1>3, <1>4, <1>5

\* So does the application of a plan: the UNIQUE index refuses a second open
\* line before it is written.
LEMMA ApplyTypeOK ==
    ASSUME TypeOK, NEW p \in Passes, Apply(p)
    PROVE  TypeOK'
<1> DEFINE plan == passes[p]
           r    == Rewritten(plan)
<1>1. r \in [Slots -> Item \cup {Null}] /\ OpenOf(r) \subseteq OpenOf(items)
  BY RewrittenRows
<1>2. plan \in Pass
  BY DEF TypeOK
<1>3. /\ items' \in [Slots -> Item \cup {Null}]
      /\ \A s, u \in OpenOf(items') : s = u
  <2>1. CASE Creates(plan)
    <3>1. PICK s \in Slots :
             items' = [r EXCEPT ![s] = [claims |-> plan.wanted, checked |-> Null]]
      BY <2>1 DEF Apply, SlotsFor, Lowest
    <3>2. [claims |-> plan.wanted, checked |-> Null] \in Item
      BY <1>2 DEF Pass, Item
    <3>3. OpenOf(r) = {}
      BY <2>1 DEF Apply, CanApply
    <3>4. QED
      <4> HIDE DEF r
      <4> QED BY <1>1, <3>1, <3>2, <3>3 DEF OpenOf, ItemsOf
  <2>2. CASE ~Creates(plan)
    <3>1. items' = r
      BY <2>2 DEF Apply
    <3>2. QED
      BY <1>1, <3>1 DEF TypeOK
  <2>3. QED
    BY <2>1, <2>2
<1>4. passes' \in [Passes -> Pass] /\ house' \in House
  BY DEF Apply, TypeOK, Idle, Pass, House
<1>5. QED
  BY <1>3, <1>4 DEF Apply, TypeOK

\* TypeOK is inductive as it stands.
LEMMA NextTypeOK == TypeOK /\ [Next]_vars => TypeOK'
<1> SUFFICES ASSUME TypeOK, [Next]_vars PROVE TypeOK'
  OBVIOUS
<1>1. CASE UNCHANGED vars
  BY <1>1 DEF vars, TypeOK, OpenOf, ItemsOf
<1>2. CASE Next
  BY <1>2, HandsTypeOK, ReadsTypeOK, ApplyTypeOK DEF Next
<1>3. QED
  BY <1>1, <1>2

LEMMA InitTypeOK == Init => TypeOK
<1>1. Idle \in Pass
  BY DEF Idle, Pass
<1>2. Init => house \in House
  BY DEF Init, House
<1>3. QED
  BY <1>1, <1>2 DEF Init, TypeOK, OpenOf, ItemsOf

(* The list stays well formed, with one open line at most for the product,
   however many reconciliations and hands write it. *)
THEOREM TypeCorrect == Spec => []TypeOK
BY InitTypeOK, NextTypeOK, PTL DEF Spec

(***************************************************************************)
(* A line has a reason to be there                                         *)
(***************************************************************************)
\* What a pass remembers of a line is still among its claims.
Remembered ==
    \A p \in Passes : \A s \in ItemsOf(items) \cap ItemsOf(passes[p].items) :
        passes[p].items[s].claims \subseteq items[s].claims

\* A checked line has a reason too: it may be unchecked.
AllHaveAReason == \A s \in ItemsOf(items) : items[s].claims # {}

ReasonInv == TypeOK /\ Remembered /\ AllHaveAReason

\* A line that a plan rewrites keeps a reason, if it still has those the plan
\* has read.
LEMMA RewrittenKeepsAReason ==
    ASSUME ReasonInv, NEW p \in Passes
    PROVE  \A s \in ItemsOf(Rewritten(passes[p])) : Rewritten(passes[p])[s].claims # {}
<1> DEFINE plan == passes[p]
           r    == Rewritten(plan)
<1> SUFFICES ASSUME NEW s \in ItemsOf(r) PROVE r[s].claims # {}
  OBVIOUS
<1>1. s \in Slots /\ r[s] # Null
  BY DEF ItemsOf
<1>2. items[s] # Null /\ s \notin ToPurge(plan) \cup Emptied(plan)
  BY <1>1 DEF Rewritten
<1>3. CASE s \notin Diffed(plan)
  BY <1>1, <1>2, <1>3 DEF Rewritten, ReasonInv, AllHaveAReason, ItemsOf
<1>4. CASE s \in Diffed(plan)
  <2>1. r[s] = [items[s] EXCEPT !.claims = (@ \ Dropped(plan, s)) \cup Added(plan, s)]
    BY <1>1, <1>2, <1>4 DEF Rewritten
  <2>2. items[s] \in Item
    BY <1>1, <1>2 DEF ReasonInv, TypeOK
  <2>3. r[s].claims = (items[s].claims \ Dropped(plan, s)) \cup Added(plan, s)
    BY <2>1, <2>2 DEF Item
  <2>4. s \in ItemsOf(plan.items)
    BY <1>4 DEF Diffed, OpenOf
  <2>5. plan.items[s].claims \subseteq items[s].claims
    BY <1>1, <1>2, <2>4 DEF ReasonInv, Remembered, ItemsOf
  <2>6. plan.wanted # {} \/ "manual" \in plan.items[s].claims
    BY <1>2, <1>4 DEF Emptied
  <2>7. QED
    BY <2>3, <2>5, <2>6 DEF Dropped, Added
<1>5. QED
  BY <1>3, <1>4

\* Hands take no claim away, and give a remembered slot to no new line.
LEMMA HandsKeepReasons ==
    ASSUME ReasonInv,
           \/ AddByHand
           \/ \E s \in Slots : Check(s) \/ Uncheck(s) \/ RemoveByHand(s)
           \/ StartTrip \/ CloseTrip \/ HouseChanges
    PROVE  Remembered' /\ AllHaveAReason'
<1>1. passes' = passes /\ items \in [Slots -> Item \cup {Null}]
  BY DEF AddByHand, Check, Uncheck, RemoveByHand, StartTrip, CloseTrip, HouseChanges,
         ReasonInv, TypeOK
<1>2. \A s \in ItemsOf(items') :
         \/ s \in ItemsOf(items) /\ items[s].claims \subseteq items'[s].claims
         \/ s \in Free /\ items'[s].claims # {}
  <2>1. CASE AddByHand
    <3>1. CASE OpenOf(items) # {}
      <4>1. PICK s \in OpenOf(items) :
               items' = [items EXCEPT ![s].claims = @ \cup {"manual"}]
        BY <2>1, <3>1 DEF AddByHand
      <4>2. s \in ItemsOf(items) /\ items[s] \in Item
        BY <1>1 DEF OpenOf, ItemsOf
      <4>3. QED
        BY <1>1, <4>1, <4>2 DEF ItemsOf, Item
    <3>2. CASE OpenOf(items) = {}
      <4>1. PICK s \in Free :
               items' = [items EXCEPT ![s] = [claims |-> {"manual"}, checked |-> Null]]
        BY <2>1, <3>2 DEF AddByHand, Lowest
      <4>2. QED
        BY <1>1, <4>1 DEF ItemsOf, Free
    <3>3. QED
      BY <3>1, <3>2
  <2>2. ASSUME NEW s \in Slots, Check(s) \/ Uncheck(s) \/ RemoveByHand(s)
        PROVE  \A u \in ItemsOf(items') :
                  u \in ItemsOf(items) /\ items[u].claims \subseteq items'[u].claims
    <3>1. s \in ItemsOf(items) /\ items[s] \in Item
      BY <1>1, <2>2 DEF Check, Uncheck, RemoveByHand, ItemsOf
    <3>2. QED
      BY <1>1, <2>2, <3>1 DEF Check, Uncheck, RemoveByHand, ItemsOf, Item
  <2>3. CASE CloseTrip
    <3>1. \A s \in ItemsOf(items) : items[s] \in Item
      BY <1>1 DEF ItemsOf
    <3>2. QED
      BY <1>1, <2>3, <3>1 DEF CloseTrip, ItemsOf, OpenOf, Item
  <2>4. CASE StartTrip \/ HouseChanges
    BY <2>4 DEF StartTrip, HouseChanges
  <2>5. QED
    BY <2>1, <2>2, <2>3, <2>4
<1>3. QED
  BY <1>1, <1>2 DEF Remembered, AllHaveAReason, ReasonInv, ItemsOf, Free

\* One pass at a time remembers what it reads and forgets what it applies.
LEMMA PassKeepsReasons ==
    ASSUME ReasonInv, NEW p \in Passes, \A q \in Passes : q = p,
           ReadList(p) \/ ReadNeeds(p) \/ Apply(p) \/ Abandon(p)
    PROVE  Remembered' /\ AllHaveAReason'
<1>1. /\ passes \in [Passes -> Pass] /\ items \in [Slots -> Item \cup {Null}]
      /\ ItemsOf(Idle.items) = {}
  BY DEF ReasonInv, TypeOK, ItemsOf, Idle
<1>2. CASE ReadList(p)
  <2>1. items' = items /\ passes'[p].items = items
    BY <1>1, <1>2 DEF ReadList, Idle
  <2>2. QED
    BY <2>1 DEF Remembered, AllHaveAReason, ReasonInv, ItemsOf
<1>3. CASE ReadNeeds(p)
  <2>1. items' = items /\ passes'[p].items = passes[p].items
    BY <1>1, <1>3 DEF ReadNeeds, Pass
  <2>2. QED
    BY <2>1 DEF Remembered, AllHaveAReason, ReasonInv, ItemsOf
<1>4. CASE Abandon(p)
  <2>1. items' = items /\ passes'[p] = Idle
    BY <1>1, <1>4 DEF Abandon
  <2>2. QED
    BY <1>1, <2>1 DEF Remembered, AllHaveAReason, ReasonInv, ItemsOf
<1>5. CASE Apply(p)
  <2> DEFINE r == Rewritten(passes[p])
  <2>1. passes'[p] = Idle
    BY <1>1, <1>5 DEF Apply
  <2>2. \A s \in ItemsOf(r) : r[s].claims # {}
    BY RewrittenKeepsAReason
  <2>3. r \in [Slots -> Item \cup {Null}]
    BY RewrittenRows DEF ReasonInv
  <2>4. CASE Creates(passes[p])
    <3>1. PICK s \in Slots : items' = [r EXCEPT ![s] =
                                [claims |-> passes[p].wanted, checked |-> Null]]
      BY <1>5, <2>4 DEF Apply, SlotsFor, Lowest
    <3>2. passes[p].wanted # {}
      BY <2>4 DEF Creates
    <3>3. AllHaveAReason'
      <4> HIDE DEF r
      <4> QED BY <2>2, <2>3, <3>1, <3>2 DEF AllHaveAReason, ItemsOf
    <3>4. QED
      BY <1>1, <2>1, <3>3 DEF Remembered
  <2>5. CASE ~Creates(passes[p])
    <3>1. items' = r
      BY <1>5, <2>5 DEF Apply
    <3>2. QED
      BY <1>1, <2>1, <2>2, <3>1 DEF Remembered, AllHaveAReason
  <2>6. QED
    BY <2>4, <2>5
<1>6. QED
  BY <1>2, <1>3, <1>4, <1>5

(* With one pass at a time, whatever hands, trips and the house do while it is
   under way, the list stays well formed and an open line has a reason. *)
THEOREM ReasonsStay ==
    ASSUME \A p, q \in Passes : p = q
    PROVE  Spec => []ListSound
<1>1. Init => ReasonInv
  <2>1. Idle \in Pass /\ ItemsOf(Idle.items) = {}
    BY DEF Idle, Pass, ItemsOf
  <2>2. Init => house \in House
    BY DEF Init, House
  <2>3. QED
    BY <2>1, <2>2 DEF Init, ReasonInv, TypeOK, Remembered, AllHaveAReason, OpenOf, ItemsOf
<1>2. ReasonInv /\ [Next]_vars => ReasonInv'
  <2> SUFFICES ASSUME ReasonInv, [Next]_vars PROVE ReasonInv'
    OBVIOUS
  <2>1. TypeOK'
    BY NextTypeOK DEF ReasonInv
  <2>2. CASE UNCHANGED vars
    BY <2>2, <2>1 DEF vars, ReasonInv, Remembered, AllHaveAReason, ItemsOf
  <2>3. ASSUME NEW p \in Passes, ReadList(p) \/ ReadNeeds(p) \/ Apply(p) \/ Abandon(p)
        PROVE  Remembered' /\ AllHaveAReason'
    BY <2>3, PassKeepsReasons
  <2>4. QED
    BY <2>1, <2>2, <2>3, HandsKeepReasons DEF Next, ReasonInv
<1>3. ReasonInv => ListSound
  BY DEF ReasonInv, ListSound, OpenHasAReason, AllHaveAReason, OpenOf
<1>4. QED
  BY <1>1, <1>2, <1>3, PTL DEF Spec

(***************************************************************************)
(* A shortage leaves on a measure                                          *)
(***************************************************************************)
\* A plan that drops a shortage it has read was made on a level well above.
Measured ==
    \A p \in Passes :
        /\ passes[p].pc = "planned"
        /\ "shortage" \in Claimed(passes[p].items) \ passes[p].wanted
        => passes[p].measured = "above"

MeasureInv == TypeOK /\ house.active /\ Measured

LEMMA MeasureInductive ==
    ASSUME "active" \notin Varies, MeasureInv, [Next]_vars
    PROVE  MeasureInv'
<1>1. TypeOK'
  BY NextTypeOK DEF MeasureInv
<1>2. house'.active
  <2>1. CASE HouseChanges
    BY <2>1 DEF HouseChanges, Facts, MeasureInv
  <2>2. ASSUME NEW p \in Passes, Apply(p) PROVE house'.active
    BY <2>2 DEF Apply, MeasureInv, TypeOK, House
  <2>3. CASE UNCHANGED house
    BY <2>3 DEF MeasureInv
  <2>4. QED
    BY <2>1, <2>2, <2>3 DEF Next, vars, AddByHand, Check, Uncheck, RemoveByHand,
       StartTrip, CloseTrip, ReadList, ReadNeeds, Abandon
<1>3. Measured'
  <2>1. passes \in [Passes -> Pass] /\ Idle.pc = "idle"
    BY DEF MeasureInv, TypeOK, Idle
  <2>2. ASSUME NEW p \in Passes, ReadList(p) \/ Apply(p) \/ Abandon(p)
        PROVE  Measured'
    <3>1. passes'[p].pc # "planned" /\ \A q \in Passes : q # p => passes'[q] = passes[q]
      BY <2>1, <2>2 DEF ReadList, Apply, Abandon, Idle
    <3>2. QED
      BY <3>1 DEF MeasureInv, Measured
  <2>3. ASSUME NEW p \in Passes, ReadNeeds(p) PROVE Measured'
    <3> DEFINE list == passes[p].items
    <3>1. /\ passes'[p].items = list /\ passes'[p].wanted = Wanted(list)
          /\ passes'[p].measured = IF house.threshold THEN house.level ELSE Null
          /\ \A q \in Passes : q # p => passes'[q] = passes[q]
      BY <2>1, <2>3 DEF ReadNeeds, Pass, MeasureInv
    <3>2. ASSUME "shortage" \in Claimed(list) \ Wanted(list)
          PROVE  house.threshold /\ house.level = "above"
      <4>1. ~Shortage("shortage" \in Claimed(list))
        BY <3>2 DEF Wanted, Origins
      <4>2. QED
        BY <3>2, <4>1 DEF Shortage, MeasureInv
    <3>3. QED
      BY <3>1, <3>2 DEF MeasureInv, Measured
  <2>4. CASE UNCHANGED passes
    BY <2>4 DEF MeasureInv, Measured
  <2>5. QED
    BY <2>2, <2>3, <2>4 DEF Next, vars, AddByHand, Check, Uncheck, RemoveByHand,
       StartTrip, CloseTrip, HouseChanges
<1>4. QED
  BY <1>1, <1>2, <1>3 DEF MeasureInv

\* What the application of a plan leaves of a shortage it has read.
LEMMA ShortageRewritten ==
    ASSUME MeasureInv, NEW p \in Passes, Apply(p),
           NEW s \in OpenOf(items) \cap OpenOf(passes[p].items),
           "shortage" \in items[s].claims \cap passes[p].items[s].claims,
           passes[p].measured # "above"
    PROVE  items'[s] # Null /\ "shortage" \in items'[s].claims
<1> DEFINE plan == passes[p]
           r    == Rewritten(plan)
<1>1. s \in Slots /\ items[s] \in Item /\ s \in ItemsOf(plan.items)
      /\ plan.items[s].checked = Null /\ items[s] # Null
  BY DEF OpenOf, ItemsOf, MeasureInv, TypeOK
<1>2. "shortage" \in plan.wanted
  BY <1>1 DEF Claimed, Measured, MeasureInv, Apply
<1>3. s \notin ToPurge(plan) \cup Emptied(plan)
  BY <1>1, <1>2, NullIsNoItem DEF ToPurge, Emptied
<1>4. r[s] # Null /\ "shortage" \in r[s].claims
  <2>1. CASE s \in Diffed(plan)
    <3>1. r[s] = [items[s] EXCEPT !.claims = (@ \ Dropped(plan, s)) \cup Added(plan, s)]
      BY <1>1, <1>3, <2>1 DEF Rewritten
    <3>2. r[s].claims = (items[s].claims \ Dropped(plan, s)) \cup Added(plan, s)
      BY <1>1, <3>1 DEF Item
    <3>3. "shortage" \in r[s].claims
      BY <1>2, <3>2 DEF Dropped
    <3>4. r[s] \in Item \cup {Null}
      BY <1>1, RewrittenRows DEF MeasureInv
    <3>5. [items[s] EXCEPT !.claims = (@ \ Dropped(plan, s)) \cup Added(plan, s)] \in Item
      <4>1. Added(plan, s) \subseteq Origins
        BY DEF Added, MeasureInv, TypeOK, Pass
      <4>2. QED
        BY <1>1, <4>1 DEF Item
    <3>6. QED
      BY <3>1, <3>3, <3>5, NullIsNoItem
  <2>2. CASE s \notin Diffed(plan)
    <3>1. r[s] = items[s]
      BY <1>1, <1>3, <2>2 DEF Rewritten
    <3>2. QED
      BY <1>1, <3>1
  <2>3. QED
    BY <2>1, <2>2
<1>5. items'[s] = r[s]
  <2>1. CASE Creates(plan)
    <3>1. PICK u \in Slots : /\ r[u] = Null
                             /\ items' = [r EXCEPT ![u] = [claims |-> plan.wanted, checked |-> Null]]
      BY <2>1 DEF Apply, SlotsFor, Lowest
    <3>2. u # s
      BY <1>4, <3>1
    <3>3. r \in [Slots -> Item \cup {Null}]
      BY RewrittenRows DEF MeasureInv
    <3>4. QED
      <4> HIDE DEF r
      <4> QED BY <1>1, <3>1, <3>2, <3>3
  <2>2. CASE ~Creates(plan)
    BY <2>2 DEF Apply
  <2>3. QED
    BY <2>1, <2>2
<1>6. QED
  BY <1>4, <1>5

(* Hysteresis, however many reconciliations are under way and whatever comes
   between the reading and the writing of a plan: a shortage leaves the line
   it was read on only on a level well above the threshold, as long as the
   product stays active. *)
THEOREM ShortageLeavesMeasured ==
    ASSUME "active" \notin Varies
    PROVE  Spec => ShortageLeavesOnAMeasure
<1>1. Init => MeasureInv
  <2>1. Init => TypeOK
    BY InitTypeOK
  <2>2. Idle.pc # "planned"
    BY DEF Idle
  <2>3. QED
    BY <2>1, <2>2 DEF Init, MeasureInv, Measured
<1>2. MeasureInv /\ [Next]_vars => MeasureInv'
  BY MeasureInductive
<1>3. MeasureInv /\ [Next]_vars =>
        [\A p \in Passes : \A s \in OpenOf(items) \cap OpenOf(passes[p].items) :
            /\ Applies(p)
            /\ "shortage" \in items[s].claims \cap passes[p].items[s].claims
            =>
              \/ items'[s] # Null /\ "shortage" \in items'[s].claims
              \/ passes[p].measured = "above"]_vars
  <2> SUFFICES ASSUME MeasureInv, Next, NEW p \in Passes,
                      NEW s \in OpenOf(items) \cap OpenOf(passes[p].items), Applies(p),
                      "shortage" \in items[s].claims \cap passes[p].items[s].claims,
                      passes[p].measured # "above"
               PROVE  items'[s] # Null /\ "shortage" \in items'[s].claims
    OBVIOUS
  <2>1. CASE Apply(p)
    BY <2>1, ShortageRewritten
  <2>2. CASE items' = items
    BY <2>2 DEF OpenOf, ItemsOf
  <2>3. passes[p].pc = "planned" /\ passes'[p] = Idle /\ Idle.pc = "idle"
    BY DEF Applies, Idle
  <2>4. QED
    <3>1. passes \in [Passes -> Pass]
      BY DEF MeasureInv, TypeOK
    <3>2. CASE UNCHANGED passes
      BY <2>3, <3>2
    <3>3. ASSUME NEW q \in Passes, Apply(q), q # p PROVE FALSE
      BY <2>3, <3>1, <3>3 DEF Apply
    <3>4. QED
      BY <2>1, <2>2, <3>2, <3>3 DEF Next, AddByHand, Check, Uncheck, RemoveByHand,
         StartTrip, CloseTrip, HouseChanges, ReadList, ReadNeeds, Abandon
<1>4. QED
  BY <1>1, <1>2, <1>3, PTL DEF Spec, ShortageLeavesOnAMeasure
=============================================================================

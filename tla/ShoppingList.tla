----------------------------- MODULE ShoppingList -----------------------------
(***************************************************************************)
(* The shopping list and its reconciliation: reconcile_shopping_list and   *)
(* _wanted_items in application.py, reconcile and shortage_claim in        *)
(* domain/shoppinglist.py, the list rows of repositories.py.               *)
(*                                                                         *)
(* A pass reads the list, then what the house needs, on a connection no    *)
(* lock protects, and writes its plan in one transaction.  Passes are      *)
(* started by the coordinator's tick, by a service and by the panel, each  *)
(* on an executor thread: hands and other passes move in between.          *)
(*                                                                         *)
(* One product.  An item is an open line of the list, or one that is       *)
(* checked and not yet purged; its claims are the reasons to buy it.  A    *)
(* row whose removed_at is set acts in one way: unchecked, it bars the     *)
(* product (`barred`); checked, in none.  Quantities, aisles and lines of  *)
(* free text are left out.                                                 *)
(***************************************************************************)
EXTENDS Integers, FiniteSets

CONSTANTS
    Null,
    Passes,         \* reconciliations that may be under way at once
    Slots,          \* bound: items that count at once
    Varies          \* what the house may change, out of Facts

Facts   == {"level", "threshold", "active", "need", "due"}
Origins == {"shortage", "meal_plan", "recurring", "manual"}

ASSUME ListConstants == Slots \subseteq Nat /\ Varies \subseteq Facts

VARIABLES
    items,          \* slot -> the item, or Null
    barred,         \* who removed an unchecked row of the product
    house,          \* what the house holds and needs
    trip,           \* is a shopping session in progress
    passes          \* passes under way

vars == <<items, barred, house, trip, passes>>

\* `checked` is "now" until a session closes, and "before" from then on.
Item == [claims : SUBSET Origins, checked : {Null, "now", "before"}]

ASSUME NullIsNoItem == Null \notin Item /\ Null \notin {"now", "before"}

\* level: strictly under min_quantity; up to 1.15 times it; above.
House == [level : {"under", "margin", "above"}, threshold : BOOLEAN, active : BOOLEAN,
          need : BOOLEAN, due : BOOLEAN]

Pass == [pc : {"idle", "listed", "planned"}, items : [Slots -> Item \cup {Null}],
         blocked : BOOLEAN, trip : BOOLEAN, wanted : SUBSET Origins,
         measured : {"under", "margin", "above", Null}, due : BOOLEAN]

Idle == [pc |-> "idle", items |-> [s \in Slots |-> Null], blocked |-> FALSE,
         trip |-> FALSE, wanted |-> {}, measured |-> Null, due |-> FALSE]

ItemsOf(list) == {s \in Slots : list[s] # Null}
OpenOf(list)  == {s \in ItemsOf(list) : list[s].checked = Null}
Claimed(list) == UNION {list[s].claims : s \in ItemsOf(list)}

TypeOK ==
    /\ items \in [Slots -> Item \cup {Null}]
    /\ \A s, u \in OpenOf(items) : s = u       \* idx_list_open_product
    /\ barred \subseteq {"hand", "robot"}
    /\ house \in House /\ trip \in BOOLEAN
    /\ passes \in [Passes -> Pass]

Lowest(S) == {s \in S : \A u \in S : s <= u}

\* A slot is free once no pass remembers the item it held.
Free == {s \in Slots : items[s] = Null /\ \A p \in Passes : passes[p].items[s] = Null}

(***************************************************************************)
(* Hands: the panel, the todo entity, the voice, a scan                    *)
(***************************************************************************)
\* A bound and no guard of the code: during a pass the last free slot is the
\* robot's.
AddByHand ==
    /\ IF OpenOf(items) # {}
       THEN \E s \in OpenOf(items) : items' = [items EXCEPT ![s].claims = @ \cup {"manual"}]
       ELSE /\ Cardinality(Free) > IF \A p \in Passes : passes[p] = Idle THEN 0 ELSE 1
            /\ \E s \in Lowest(Free) :
                  items' = [items EXCEPT ![s] = [claims |-> {"manual"}, checked |-> Null]]
    /\ UNCHANGED <<barred, house, trip, passes>>

Check(s) ==
    /\ s \in ItemsOf(items)
    /\ items' = [items EXCEPT ![s].checked = "now"]
    /\ UNCHANGED <<barred, house, trip, passes>>

\* The partial UNIQUE index refuses a second open row of the product.
Uncheck(s) ==
    /\ s \in ItemsOf(items) /\ OpenOf(items) \subseteq {s}
    /\ items' = [items EXCEPT ![s].checked = Null]
    /\ UNCHANGED <<barred, house, trip, passes>>

RemoveByHand(s) ==
    /\ s \in ItemsOf(items)
    /\ items' = [items EXCEPT ![s] = Null]
    /\ barred' = IF s \in OpenOf(items) THEN barred \cup {"hand"} ELSE barred
    /\ UNCHANGED <<house, trip, passes>>

(***************************************************************************)
(* The house and its shopping trips                                        *)
(***************************************************************************)
StartTrip ==
    /\ ~trip /\ trip' = TRUE
    /\ UNCHANGED <<items, barred, house, passes>>

CloseTrip ==
    /\ trip /\ trip' = FALSE
    /\ items' = [s \in Slots |->
                    IF s \in ItemsOf(items) \ OpenOf(items)
                    THEN [items[s] EXCEPT !.checked = "before"] ELSE items[s]]
    /\ UNCHANGED <<barred, house, passes>>

\* A recurrence stops being due when a pass marks it, not by itself.
HouseChanges ==
    /\ house' \in House
    /\ \A f \in Facts \ Varies : house'[f] = house[f]
    /\ house.due => house'.due
    /\ UNCHANGED <<items, barred, trip, passes>>

(***************************************************************************)
(* A pass                                                                  *)
(***************************************************************************)
ReadList(p) ==
    /\ passes[p] = Idle
    /\ passes' = [passes EXCEPT ![p] = [Idle EXCEPT !.pc = "listed", !.items = items,
                     !.blocked = (barred # {}), !.trip = trip]]
    /\ UNCHANGED <<items, barred, house, trip>>

\* mutant: no hysteresis, a claim leaves as soon as the level is not under
ShortageNoMargin(claimed) == house.active /\ house.threshold /\ house.level = "under"

\* shortage_claim on the rows shortage_rows and levels_for_products return:
\* none for a product that is not active.
Shortage(claimed) ==
    /\ house.active
    /\ \/ house.threshold /\ house.level = "under"
       \/ claimed /\ (house.threshold => house.level # "above")

Wanted(list) ==
    {o \in Origins :
        \/ o = "shortage"  /\ Shortage("shortage" \in Claimed(list))
        \/ o = "meal_plan" /\ house.active /\ house.need
        \/ o = "recurring" /\ house.active /\ house.due
        \/ o = "manual"    /\ \E s \in OpenOf(list) : "manual" \in list[s].claims}

\* Several reads of the house, taken here as one.
ReadNeeds(p) ==
    /\ passes[p].pc = "listed"
    /\ passes' = [passes EXCEPT ![p].pc = "planned",
                     ![p].wanted = Wanted(passes[p].items),
                     ![p].measured = IF house.active /\ house.threshold THEN house.level
                                     ELSE Null,
                     ![p].due = house.due /\ house.active /\ ~passes[p].trip]
    /\ UNCHANGED <<items, barred, house, trip>>

NeverPurged(plan) == {}   \* mutant: a checked item waits for someone to uncheck it

\* reconcile: what the plan does with what the pass has read.
ToPurge(plan) ==
    {s \in ItemsOf(plan.items) : plan.items[s].checked = "before" /\ ~plan.trip}

Untouched(plan) == ItemsOf(plan.items) \ (OpenOf(plan.items) \cup ToPurge(plan))

LeftAlone(plan) == plan.wanted # {} /\ (plan.blocked \/ Untouched(plan) # {})

Diffed(plan) == IF LeftAlone(plan) THEN {} ELSE OpenOf(plan.items)

EmptiedNever(plan) == {}        \* mutant: an item without claims stays

Dropped(plan, s) == plan.items[s].claims \ (plan.wanted \cup {"manual"})
Emptied(plan) ==
    {s \in Diffed(plan) : plan.wanted = {} /\ "manual" \notin plan.items[s].claims}

Added(plan, s) == plan.wanted \ plan.items[s].claims

Creates(plan) == ~LeftAlone(plan) /\ plan.wanted # {} /\ OpenOf(plan.items) = {}

\* What the rows become: removals, then claims, whatever the item is by now.
Rewritten(plan) ==
    [s \in Slots |->
        IF items[s] = Null \/ s \in ToPurge(plan) \cup Emptied(plan) THEN Null
        ELSE IF s \in Diffed(plan)
        THEN [items[s] EXCEPT !.claims = (@ \ Dropped(plan, s)) \cup Added(plan, s)]
        ELSE items[s]]

CanApplyUnindexed(plan) == TRUE   \* mutant: no UNIQUE index

\* The INSERT of a second open row breaks the UNIQUE index.
CanApply(plan) == Creates(plan) => OpenOf(Rewritten(plan)) = {}

SlotsFor(p) ==
    Lowest({s \in Slots : /\ Rewritten(passes[p])[s] = Null
                          /\ \A q \in Passes \ {p} : passes[q].items[s] = Null})

Apply(p) ==
    LET plan == passes[p]
        gone == ToPurge(plan) \cup Emptied(plan)
    IN  /\ plan.pc = "planned" /\ CanApply(plan)
        /\ IF Creates(plan)
           THEN \E s \in SlotsFor(p) :
                    items' = [Rewritten(plan) EXCEPT ![s] =
                                 [claims |-> plan.wanted, checked |-> Null]]
           ELSE items' = Rewritten(plan)
        /\ barred' = IF gone \cap OpenOf(items) # {} THEN barred \cup {"robot"} ELSE barred
        /\ house' = IF plan.due THEN [house EXCEPT !.due = FALSE] ELSE house
        /\ passes' = [passes EXCEPT ![p] = Idle]
        /\ UNCHANGED trip

\* The transaction rolls back, or Home Assistant stops: the next tick comes.
Abandon(p) ==
    /\ passes[p].pc = "planned" /\ ~CanApply(passes[p])
    /\ passes' = [passes EXCEPT ![p] = Idle]
    /\ UNCHANGED <<items, barred, house, trip>>

Init ==
    /\ items = [s \in Slots |-> Null] /\ barred = {} /\ trip = FALSE
    /\ house = [level |-> "above", threshold |-> TRUE, active |-> TRUE,
                need |-> FALSE, due |-> FALSE]
    /\ passes = [p \in Passes |-> Idle]

Steps(p) == ReadList(p) \/ ReadNeeds(p) \/ Apply(p) \/ Abandon(p)

Next ==
    \/ AddByHand
    \/ \E s \in Slots : Check(s) \/ Uncheck(s) \/ RemoveByHand(s)
    \/ StartTrip \/ CloseTrip \/ HouseChanges
    \/ \E p \in Passes : ReadList(p) \/ ReadNeeds(p) \/ Apply(p) \/ Abandon(p)

Spec == Init /\ [][Next]_vars

\* The coordinator's tick comes back every fifteen minutes and a pass that was
\* started ends.  Nobody is bound to shop, to check or to remove anything.
FairSpec == Spec /\ \A p \in Passes : WF_vars(Steps(p))

(***************************************************************************)
(* What must hold                                                          *)
(***************************************************************************)
Applies(p) == passes[p].pc = "planned" /\ passes'[p] = Idle

(* Hysteresis: a shortage the pass found on an open line leaves it only on a
   measure well above the threshold, never because the level crossed it, the
   threshold went or another pass came between. *)
ShortageLeavesOnAMeasure ==
    [][\A p \in Passes : \A s \in OpenOf(items) \cap OpenOf(passes[p].items) :
          /\ Applies(p)
          /\ "shortage" \in items[s].claims \cap passes[p].items[s].claims
          =>
              \/ items'[s] # Null /\ "shortage" \in items'[s].claims
              \/ passes[p].measured = "above"]_vars

(* With one pass at a time, whatever hands do meanwhile, an open line always
   has a reason to be there. *)
OpenHasAReason == \A s \in OpenOf(items) : items[s].claims # {}

(* What nobody may find wrong in the list. *)
ListSound == TypeOK /\ OpenHasAReason

(* What is missing is on the list in the end, unless it is struck out, or was
   checked and the trip is not over: a line that was checked without buying
   comes back. *)
Missing      == house.active /\ house.threshold /\ house.level = "under"
CheckedNow   == \E s \in ItemsOf(items) : items[s].checked = "now"
ShouldBeListed == Missing /\ ~trip /\ ~CheckedNow
Listed       == OpenOf(items) # {}

MissingGetsListed ==
    ShouldBeListed /\ barred = {} ~> Listed \/ ~ShouldBeListed \/ barred # {}

(* A line nobody asked for by hand leaves the list in the end once the house
   has what it asked for. *)
Unfounded ==
    /\ house.level = "above" /\ house.threshold /\ ~house.need /\ ~house.due
    /\ \E s \in OpenOf(items) : "manual" \notin items[s].claims

UnfoundedLeaves == Unfounded ~> ~Unfounded

(* "La liste dit ce qui manque maintenant": the same as MissingGetsListed for
   a product no hand ever struck out. *)
ListSaysWhatIsMissing ==
    ShouldBeListed /\ "hand" \notin barred ~>
        Listed \/ ~ShouldBeListed \/ "hand" \in barred

(* "Une ligne posée à la main n'est jamais retirée par le robot." *)
HandLineStays ==
    [][\A p \in Passes, s \in OpenOf(items) :
          Applies(p) /\ "manual" \in items[s].claims => items'[s] # Null]_vars

(* "Jamais de fermeture sur une donnée absente. Seuil supprimé, produit
   désactivé [...] : la revendication est maintenue." *)
NeverClosedWithoutMeasure ==
    [][\A p \in Passes, s \in OpenOf(items) :
          Applies(p) /\ passes[p].measured = Null /\ "shortage" \in items[s].claims =>
              items'[s] # Null /\ "shortage" \in items'[s].claims]_vars

(* "marquer avant l'écriture perdrait le café pour trois semaines": what a
   recurrence put on the list stays there until it is checked or removed. *)
RecurringStays ==
    [][\A p \in Passes, s \in OpenOf(items) :
          Applies(p) /\ "recurring" \in items[s].claims =>
              items'[s] # Null /\ "recurring" \in items'[s].claims]_vars
=============================================================================

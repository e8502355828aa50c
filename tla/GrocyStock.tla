----------------------------- MODULE GrocyStock -----------------------------
(***************************************************************************)
(* The one-way, replayable import of Grocy's catalogue, stock and shopping *)
(* list, and the checks that say whether the switch-over may go on.        *)
(*                                                                         *)
(* Grocy keeps living: the imports and the checks read a copy of its       *)
(* database taken by hand.  The house lives too: what has been imported is *)
(* eaten, opened, converted, bought.  An import is one transaction, so one *)
(* step; without `apply` it changes nothing and is not a step.             *)
(***************************************************************************)
EXTENDS House, Functions

CONSTANTS
    GProducts,      \* products of Grocy
    GRows,          \* rows of Grocy's table stock
    ProductOf,      \* row -> product
    StockUnit,      \* product -> the unit Grocy stocks it in
    ListUnit,       \* product -> the unit its shopping-list line is in
    UnitTable,      \* unit -> base unit and factor; a dosage is not in it
    Impossible,     \* products with an impossible energy, or no name
    Coded,          \* products with a barcode in Grocy
    Packed,         \* products with a conversion typed in Grocy
    Undated,        \* rows that never expire
    Overpriced,     \* rows worth more than GROCY_MAX_BATCH_VALUE
    GAmounts,       \* amounts of a row; 0 is the dust Grocy leaves
    Weight,         \* of a piece, when the house converts to grams
    CopyMaxAge,     \* GROCY_COPY_MAX_AGE_HOURS
    Tolerance,      \* GROCY_FREEZE_TOLERANCE_HOURS
    MaxHours,       \* bound: the clock
    MaxWrites,      \* bound: changes made in Grocy
    MaxGestures     \* bound: changes made by hand in the house

GrocyConstants ==
    /\ ProductOf \in [GRows -> GProducts] /\ IsFiniteSet(GRows)
    /\ GAmounts \subseteq Nat
    /\ \A u \in DOMAIN UnitTable : /\ UnitTable[u].factor \in Nat \ {0}
                                    /\ UnitTable[u].base \in {"g", "ml", "piece"}
    /\ {Weight, CopyMaxAge, Tolerance, MaxHours, MaxWrites, MaxGestures} \subseteq Nat

VARIABLES
    live,       \* Grocy: products, stock, open list lines, last row created
    copy,       \* the copy of Grocy in config/, or Null
    hours,      \* the clock
    productUnit, \* product -> base unit of the house's product, or Null
    taken,      \* products whose name a hand-made product has
    code,       \* product -> whom its barcode names: nobody, it, another
    packaging,  \* product -> who typed its packaging, or Null
    batches,    \* table batch, by external_ref
    purchased,  \* movements of reason purchase, by idempotency_key
    eaten,      \* row -> what left its batch
    item,       \* product -> its last line of the shopping list, or Null
    fridge,     \* kind of location Frigo
    gestures    \* changes made by hand so far

grocyVars == <<live, copy, hours>>
homeVars  == <<productUnit, taken, code, packaging, batches, purchased, eaten, item, fridge>>
stockVars == <<grocyVars, homeVars, gestures>>

Grocy == [products : SUBSET GProducts, rows : [GRows -> GAmounts \cup {Null}],
          listed : SUBSET GProducts, created : Nat \cup {Null}, writes : Nat]

GrocyTypeOK ==
    /\ live \in Grocy
    /\ copy \in [grocy : Grocy, at : Nat] \cup {Null}
    /\ hours \in 0..MaxHours
    /\ productUnit \in [GProducts -> {"g", "ml", "piece", Null}]
    /\ taken \subseteq GProducts
    /\ code \in [GProducts -> {Null, "own", "other"}]
    /\ packaging \in [GProducts -> {Null, "grocy", "off"}]
    /\ batches \in [GRows -> [left : Nat, best : {"dated", "soon", Null},
                             priced : BOOLEAN] \cup {Null}]
    /\ purchased \in [GRows -> Nat \cup {Null}]
    /\ eaten \in [GRows -> Nat]
    /\ item \in [GProducts -> [open : BOOLEAN, quantity : Nat \cup {Null}] \cup {Null}]
    /\ fridge \in BOOLEAN
    /\ gestures \in Nat

GrocyInit ==
    /\ live = [products |-> {}, rows |-> [s \in GRows |-> Null],
               listed |-> {}, created |-> Null, writes |-> 0]
    /\ copy = Null /\ hours = 0 /\ gestures = 0 /\ fridge = FALSE
    /\ productUnit = [p \in GProducts |-> Null] /\ taken = {}
    /\ code = [p \in GProducts |-> Null]
    /\ packaging = [p \in GProducts |-> Null]
    /\ batches = [s \in GRows |-> Null] /\ purchased = [s \in GRows |-> Null]
    /\ eaten = [s \in GRows |-> 0]
    /\ item = [p \in GProducts |-> Null]
-----------------------------------------------------------------------------
(* Grocy, and the copy made of it.  Only the creation of a row leaves a    *)
(* stamp (row_created_timestamp).                                          *)

GrocyChanges(new) ==
    /\ live.writes < MaxWrites
    /\ live' = [new EXCEPT !.writes = live.writes + 1]
    /\ UNCHANGED <<copy, hours, homeVars, gestures>>

GrocyNewProduct(p) ==
    /\ p \notin live.products
    /\ GrocyChanges([live EXCEPT !.products = @ \cup {p}, !.created = hours])

GrocyBuys(s, a) ==
    /\ ProductOf[s] \in live.products /\ live.rows[s] = Null
    /\ GrocyChanges([live EXCEPT !.rows[s] = a, !.created = hours])

GrocyUses(s, left) ==
    /\ live.rows[s] # Null
    /\ left \in {Null} \cup {a \in GAmounts : a < live.rows[s]}
    /\ GrocyChanges([live EXCEPT !.rows[s] = left])

GrocyLists(p) ==
    /\ p \in live.products \ live.listed
    /\ GrocyChanges([live EXCEPT !.listed = @ \cup {p}])

Hour ==
    /\ hours < MaxHours /\ hours' = hours + 1
    /\ UNCHANGED <<live, copy, homeVars, gestures>>

TakeCopy ==
    /\ copy' = [grocy |-> live, at |-> hours]
    /\ UNCHANGED <<live, hours, homeVars, gestures>>
-----------------------------------------------------------------------------
(* The imports.                                                            *)

Known == {p \in GProducts : productUnit[p] # Null}

BaseUnit(u) == UnitTable[u].base
Usable(p)   == StockUnit[p] \in DOMAIN UnitTable /\ p \notin Impossible
Quantity(p, a) == a * UnitTable[StockUnit[p]].factor

\* A name the house has already is reported, never matched.
NewProducts == {p \in copy.grocy.products \ Known : Usable(p) /\ p \notin taken}

ImportCatalog ==
    /\ copy # Null
    /\ productUnit' = [p \in GProducts |-> IF p \in NewProducts THEN BaseUnit(StockUnit[p])
                                                            ELSE productUnit[p]]
    \* A barcode linked to another article is reported and left alone.
    /\ code' = [p \in GProducts |->
                  IF p \in (Known \cup NewProducts) \cap Coded /\ code[p] = Null
                  THEN "own" ELSE code[p]]
    /\ UNCHANGED <<grocyVars, taken, packaging, batches, purchased, eaten, item, fridge, gestures>>

CopiedRows == {s \in GRows : copy # Null /\ copy.grocy.rows[s] # Null}

\* plan_batches: a row whose unit is not the one the house keeps the product
\* in never enters.
Plannable(s) == BaseUnit(StockUnit[ProductOf[s]]) = productUnit[ProductOf[s]]

\* mutant: a replay puts back what Grocy says is left.
EnteredAgain == {s \in CopiedRows : Plannable(s)}
\* Never rewritten: it has been eaten from since.
Entered == {s \in CopiedRows : Plannable(s) /\ batches[s] = Null}

BatchFrom(s) == [left   |-> Quantity(ProductOf[s], copy.grocy.rows[s]),
                 best   |-> IF s \in Undated THEN Null ELSE "dated",
                 priced |-> s \notin Overpriced]

\* A product whose open line the house has already keeps it.  The second
\* branch is for units of another kind than the product's.
ListedQuantity(p) ==
    LET u == UnitTable[ListUnit[p]] IN
    IF ListUnit[p] \in DOMAIN UnitTable /\ (u.base = productUnit[p] \/ u.base = "piece")
    THEN u.factor ELSE Null

ListedNow == {p \in copy.grocy.listed \cap Known : item[p] = Null \/ ~item[p].open}

ImportStock ==
    /\ copy # Null
    \* Else StockImportError: one row of an unknown product stops it all.
    /\ \A s \in CopiedRows : ProductOf[s] \in Known
    /\ batches' = [s \in GRows |-> IF s \in Entered THEN BatchFrom(s) ELSE batches[s]]
    /\ purchased' = [s \in GRows |-> IF s \in Entered THEN BatchFrom(s).left ELSE purchased[s]]
    /\ fridge' = TRUE
    /\ packaging' = [p \in GProducts |-> IF p \in Packed \cap Known /\ packaging[p] = Null
                                         THEN "grocy" ELSE packaging[p]]
    /\ item' = [p \in GProducts |-> IF p \in ListedNow
                                    THEN [open |-> TRUE, quantity |-> ListedQuantity(p)]
                                    ELSE item[p]]
    /\ UNCHANGED <<grocyVars, productUnit, taken, code, eaten, gestures>>
-----------------------------------------------------------------------------
(* Meanwhile, the house.                                                   *)

Gesture ==
    /\ gestures < MaxGestures
    /\ gestures' = gestures + 1
    /\ UNCHANGED grocyVars

Eat(s) ==
    /\ Gesture
    /\ batches[s] # Null /\ batches[s].left > 0
    /\ batches' = [batches EXCEPT ![s].left = @ - 1]
    /\ eaten' = [eaten EXCEPT ![s] = @ + 1]
    /\ UNCHANGED <<productUnit, taken, code, packaging, purchased, item, fridge>>

\* Opening recomputes the date.
OpenPack(s) ==
    /\ Gesture
    /\ batches[s] # Null /\ batches[s].left > 0
    /\ batches' = [batches EXCEPT ![s].best = "soon"]
    /\ UNCHANGED <<productUnit, taken, code, packaging, purchased, eaten, item, fridge>>

\* Batches, journal and what left are restated together.
ConvertToGrams(p) ==
    /\ Gesture
    /\ productUnit[p] = "piece"
    /\ LET times(f) == [s \in GRows |-> IF ProductOf[s] = p /\ f[s] # Null
                                        THEN f[s] * Weight ELSE f[s]]
       IN purchased' = times(purchased) /\ eaten' = times(eaten)
    /\ productUnit' = [productUnit EXCEPT ![p] = "g"]
    /\ batches' = [s \in GRows |-> IF ProductOf[s] = p /\ batches[s] # Null
                                 THEN [batches[s] EXCEPT !.left = @ * Weight] ELSE batches[s]]
    /\ UNCHANGED <<taken, code, packaging, item, fridge>>

MakeByHand(p) ==
    /\ Gesture
    /\ productUnit[p] = Null /\ p \notin taken
    /\ taken' = taken \cup {p}
    /\ code' = IF p \in Coded THEN [code EXCEPT ![p] = "other"] ELSE code
    /\ UNCHANGED <<productUnit, packaging, batches, purchased, eaten, item, fridge>>

\* Only a product nothing ever happened to can be erased.
DropProduct(p) ==
    /\ Gesture
    /\ productUnit[p] # Null /\ item[p] = Null
    /\ \A s \in GRows : ProductOf[s] = p => purchased[s] = Null
    /\ productUnit' = [productUnit EXCEPT ![p] = Null]
    /\ code' = [code EXCEPT ![p] = IF @ = "own" THEN Null ELSE @]
    /\ packaging' = [packaging EXCEPT ![p] = Null]
    /\ UNCHANGED <<taken, batches, purchased, eaten, item, fridge>>

PackFromOff(p) ==
    /\ Gesture
    /\ p \in Known /\ packaging[p] = Null
    /\ packaging' = [packaging EXCEPT ![p] = "off"]
    /\ UNCHANGED <<productUnit, taken, code, batches, purchased, eaten, item, fridge>>

TickItem(p) ==
    /\ Gesture
    /\ item[p] # Null /\ item[p].open
    /\ item' = [item EXCEPT ![p].open = FALSE]
    /\ UNCHANGED <<productUnit, taken, code, packaging, batches, purchased, eaten, fridge>>

GrocyNext ==
    \/ Hour \/ TakeCopy \/ ImportCatalog \/ ImportStock
    \/ \E p \in GProducts :
          \/ GrocyNewProduct(p) \/ GrocyLists(p)
          \/ ConvertToGrams(p) \/ MakeByHand(p) \/ DropProduct(p)
          \/ PackFromOff(p) \/ TickItem(p)
    \/ \E s \in GRows :
          \/ \E a \in GAmounts : GrocyBuys(s, a)
          \/ \E left \in GAmounts \cup {Null} : GrocyUses(s, left)
          \/ Eat(s) \/ OpenPack(s)

GrocySpec == GrocyInit /\ [][GrocyNext]_stockVars
-----------------------------------------------------------------------------
(* The checks of the switch-over, each with the floor under which it has   *)
(* nothing to measure and is red.                                          *)

Present == {s \in GRows : batches[s] # Null}
Missing == CopiedRows \ Present
Stray   == Present \ CopiedRows
Both    == Present \cap CopiedRows

Distance(m, n) == IF m < n THEN n - m ELSE m - n

C0 ==
    /\ copy # Null /\ copy.grocy.created # Null
    /\ hours - copy.at <= CopyMaxAge
    /\ copy.grocy.created <= copy.at + Tolerance

RowsGap ==
    LET named == Cardinality(Missing \cup Stray)
        apart == Distance(Cardinality(CopiedRows), Cardinality(Present))
    IN apart + named - IF apart # 0 THEN named ELSE 0

C1 == CopiedRows # {} /\ Present # {} /\ RowsGap = 0

C2 == /\ CopiedRows # {} /\ Present # {}
      /\ \A s \in Both : batches[s].left = Quantity(ProductOf[s], copy.grocy.rows[s])

C3 == /\ Both \ Undated # {} /\ Missing = {}
      /\ \A s \in Both : batches[s].best = IF s \in Undated THEN Null ELSE "dated"

\* The dropped prices have to be acknowledged by name.
C4(acknowledged) == Present # {} /\ Both \cap Overpriced \subseteq acknowledged

\* mutant: one entry per batch is enough.
C5Counts == \E s \in GRows : purchased[s] # Null /\ \A t \in Present : purchased[t] # Null
C5 ==
    /\ \E s \in GRows : purchased[s] # Null
    /\ \A s \in Present : purchased[s] # Null
    /\ \A p \in Known :
          LET its     == {s \in GRows : ProductOf[s] = p}
              entered == [s \in its |-> IF purchased[s] = Null THEN 0 ELSE purchased[s]]
              left    == [s \in its |-> IF batches[s] = Null THEN 0 ELSE batches[s].left]
          IN SumFunction(entered) = SumFunction(left)

Green(acknowledged) == C0 /\ C1 /\ C2 /\ C3 /\ C4(acknowledged) /\ C5
-----------------------------------------------------------------------------
(* A batch that was imported holds what entered less what left, however    *)
(* often the import was replayed: "on a mangé depuis" (import_stock).      *)
EatenStaysEaten ==
    \A s \in GRows :
        /\ batches[s] = Null <=> purchased[s] = Null
        /\ batches[s] # Null => batches[s].left = purchased[s] - eaten[s]

(* Checks that are all green say that every row of the copy is in the      *)
(* house, whole and untouched, with nothing that is not in the copy, and   *)
(* that there was something to measure (check_migration, FLOORS).          *)
GreenMeansMoved ==
    Green(GRows) =>
        /\ CopiedRows # {} /\ Present = CopiedRows
        /\ \A s \in Present :
              /\ batches[s].left = Quantity(ProductOf[s], copy.grocy.rows[s])
              /\ purchased[s] = batches[s].left /\ eaten[s] = 0

(* What nobody may find wrong after any number of replays of the import.   *)
StockImportSound == GrocyTypeOK /\ EatenStaysEaten /\ GreenMeansMoved

(* "A write after the copy invalidates all ten other checks: C0 says so    *)
(* before they lie" (_measure_freeze): a product created since, for one.   *)
WriteAfterCopySeen == Green(GRows) => live.products = copy.grocy.products

(* What a line of the list asks for is in the unit of its product          *)
(* (_import_shopping_within: "Sachet contre Paquet : les deux sont des     *)
(* pièces").                                                               *)
ListedInItsUnit ==
    [][\A p \in GProducts :
         (item'[p] # item[p] /\ item'[p] # Null /\ item'[p].quantity # Null
            /\ (item[p] = Null \/ ~item[p].open))
         => BaseUnit(ListUnit[p]) = productUnit'[p]]_stockVars
=============================================================================

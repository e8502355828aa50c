------------------------------ MODULE MCHouse ------------------------------
(***************************************************************************)
(* Instances of the components that share no step, for TLC, in one run: a  *)
(* behaviour belongs to one part, chosen at the start; the others stay at  *)
(* one initial state of theirs.  The properties are those of the modules.  *)
(***************************************************************************)
EXTENDS HandWork, Storage, Receipts, Upkeep, Maintenance, Catalogue, GrocyStock,
        Desk, OfflineQueue, AllocateLoop, TLC

VARIABLE part

houseVars ==
    <<part, catalogueVars, upkeepVars, receiptVars, kitchenVars, stockVars, recipeVars,
      equipmentVars, storageVars, articleVars, maintenanceVars, deskVars, allocateVars, vars>>

\* Values of the constants that a .cfg can not write.
NetsGiven        == {Null, 2}
CardsThere       == {<<>>, <<[text |-> "t1", written |-> "mass"]>>}
UnitsAtFirst     == "g1" :> "g" @@ "g2" :> "piece"
TheRows          == "s1" :> "p1" @@ "s2" :> "p2"
TheUnits         == "p1" :> "kg" @@ "p2" :> "pot"
TheListUnits     == "p1" :> "pot" @@ "p2" :> "pot"
TheTable         == "kg"  :> [base |-> "g", factor |-> 2] @@
                    "pot" :> [base |-> "piece", factor |-> 1]
RecipeOfLine     == "l1" :> "r1" @@ "l2" :> "r2"
ProductOfLine    == "l1" :> "i1" @@ "l2" :> "i1"
RecipeOfMeal     == "m1" :> "r1" @@ "m2" :> Null
DayOfMeal        == "m1" :> 1 @@ "m2" :> 0
NamesInside      == {<<"AA", "AA">>, <<"AAA", "AAA">>, <<"AA", "AAA">>}
TwoMigrations    == <<2, 1>>

ASSUME PartConstants ==
    /\ CatalogueConstants /\ UpkeepConstants /\ ReceiptConstants /\ KitchenConstants
    /\ GrocyConstants /\ GrocyRecipeConstants /\ EquipmentConstants /\ StorageConstants
    /\ ArticleConstants /\ MaintenanceConstants /\ DeskConstants /\ LoopConstants

Parts == {"catalogue", "upkeep", "receipts", "kitchen", "grocyStock", "grocyRecipes",
          "grocyEquipment", "storage", "articles", "maintenance", "desk", "allocate",
          "queue"}

\* The parts that may begin in several states begin in this one when another
\* part is chosen.
Resting ==
    /\ part # "kitchen" => source = [r \in Refs |-> <<>>]
    /\ part # "grocyRecipes" => cards = [r \in GRecipes |-> Null] /\ catalogued = {}
    /\ part # "grocyEquipment" =>
          /\ described = CHOOSE d \in [BatteryRows -> GrocyRow] : TRUE
          /\ sensors = CHOOSE s \in [Sensors -> Sensor] : TRUE
    /\ part # "maintenance" =>
          place = [b \in Batteries |-> [watched |-> TRUE, low |-> 25, keep |-> 25,
                                        percent |-> Null, readAt |-> Null]]
    /\ part # "allocate" => view = <<>> /\ quantity = 0
    /\ part # "queue" => current = CHOOSE p \in Pages : TRUE

HouseInit ==
    /\ part \in Parts
    /\ Resting
    /\ CatalogueInit /\ UpkeepInit /\ ReceiptInit /\ KitchenInit
    /\ GrocyInit /\ GrocyRecipeInit /\ EquipmentInit /\ StorageInit
    /\ ArticleInit /\ MaintenanceInit /\ DeskInit /\ AllocateInit /\ Init

OthersStay ==
    /\ UNCHANGED part
    /\ part # "catalogue" => UNCHANGED catalogueVars
    /\ part # "upkeep" => UNCHANGED upkeepVars
    /\ part # "receipts" => UNCHANGED receiptVars
    /\ part # "kitchen" => UNCHANGED kitchenVars
    /\ part # "grocyStock" => UNCHANGED stockVars
    /\ part # "grocyRecipes" => UNCHANGED recipeVars
    /\ part # "grocyEquipment" => UNCHANGED equipmentVars
    /\ part # "storage" => UNCHANGED storageVars
    /\ part # "articles" => UNCHANGED articleVars
    /\ part # "maintenance" => UNCHANGED maintenanceVars
    /\ part # "desk" => UNCHANGED deskVars
    /\ part # "allocate" => UNCHANGED allocateVars
    /\ part # "queue" => UNCHANGED vars

HouseNext ==
    \/ part = "catalogue" /\ OthersStay /\ CatalogueNext
    \/ part = "upkeep" /\ OthersStay /\ UpkeepNext
    \/ part = "receipts" /\ OthersStay /\ ReceiptNext
    \/ part = "kitchen" /\ OthersStay /\ KitchenNext
    \/ part = "grocyStock" /\ OthersStay /\ GrocyNext
    \/ part = "grocyRecipes" /\ OthersStay /\ GrocyRecipeNext
    \/ part = "grocyEquipment" /\ OthersStay /\ EquipmentNext
    \/ part = "storage" /\ OthersStay /\ StorageNext
    \/ part = "articles" /\ OthersStay /\ ArticleNext
    \/ part = "maintenance" /\ OthersStay /\ MaintenanceNext
    \/ part = "desk" /\ OthersStay /\ DeskNext
    \/ part = "allocate" /\ OthersStay /\ AllocateNext
    \/ part = "queue" /\ OthersStay /\ Next

HouseSpec == HouseInit /\ [][HouseNext]_houseVars
=============================================================================

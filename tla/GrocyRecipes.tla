---------------------------- MODULE GrocyRecipes ----------------------------
(***************************************************************************)
(* The one-way, replayable import of Grocy's recipes, their pictures and   *)
(* the meal plan.                                                          *)
(*                                                                         *)
(* The rows are one transaction, the pictures are not: they are written to *)
(* the disk while it runs, and stay when it is rolled back.  So a pass is  *)
(* several steps here, one per recipe, then one that commits.  The write   *)
(* lock is held throughout: no hand changes the tables meanwhile, but      *)
(* Grocy, the disk and the clock go on.                                    *)
(***************************************************************************)
EXTENDS House

CONSTANTS
    GRecipes,       \* recipes of Grocy, of the two types that are real
    GLines,         \* rows of recipes_pos
    LineOf,         \* line -> recipe
    LineProduct,    \* line -> product of Grocy
    SameUnit,       \* lines in the unit their product is stocked in
    GMeals,         \* entries of the meal plan, in the order of their ids
    MealRecipe,     \* entry -> recipe, or Null: a note
    MealDay,        \* entry -> day
    Ingredients,    \* products of Grocy the lines may name
    MaxPicture,     \* bound: versions of an inline picture
    LastDay,        \* bound: the calendar
    MaxPasses,      \* bound: imports begun
    MaxTouches      \* bound: changes made by hand

GrocyRecipeConstants ==
    /\ LineOf \in [GLines -> GRecipes] /\ LineProduct \in [GLines -> Ingredients]
    /\ MealRecipe \in [GMeals -> GRecipes \cup {Null}] /\ MealDay \in [GMeals -> Nat]
    /\ {MaxPicture, LastDay, MaxPasses, MaxTouches} \subseteq Nat /\ MaxPicture > 0

VARIABLES
    cards,      \* the copy of Grocy: recipe -> version of its inline picture, or Null
    catalogued, \* products the catalogue of the house has, by external_ref
    recipes,    \* table recipe: source_ref -> version of the picture, or Null
    lines,      \* table recipe_ingredient, by external_ref
    meals,      \* table meal: uid -> state, or Null
    disk,       \* picture files: name -> content
    pass,       \* the import under way: recipes seen, recipes staged
    today,
    passes,
    touches

recipeVars == <<cards, catalogued, recipes, lines, meals, disk, pass, today, passes, touches>>

Line == [match : {"unmatched", "confirmed"}, product : Ingredients \cup {Null},
         filled : BOOLEAN, byHand : BOOLEAN, times : 1..2]

GrocyRecipeTypeOK ==
    /\ cards \in [GRecipes -> 1..MaxPicture \cup {Null}]
    /\ catalogued \subseteq Ingredients
    /\ recipes \in [GRecipes -> 1..MaxPicture \cup {Null}]
    /\ lines \in [GLines -> Line \cup {Null}]
    /\ meals \in [GMeals -> {"planned", "done", "skipped", Null}]
    /\ \A f \in DOMAIN disk : disk[f] \in 1..MaxPicture
    /\ pass = Null \/ (pass.staged \subseteq pass.seen /\ pass.seen \subseteq GRecipes)
    /\ today \in 0..LastDay /\ {passes, touches} \subseteq Nat

GrocyRecipeInit ==
    /\ cards \in [GRecipes -> {1, Null}]
    /\ catalogued \in SUBSET Ingredients
    /\ recipes = [r \in GRecipes |-> Null]
    /\ lines = [l \in GLines |-> Null]
    /\ meals = [m \in GMeals |-> Null]
    /\ disk = <<>> /\ pass = Null /\ today = 0 /\ passes = 0 /\ touches = 0
-----------------------------------------------------------------------------
(* Newer copies of Grocy, the calendar and hands.                          *)

NewerCopy(r) ==
    /\ pass = Null
    /\ cards' = [cards EXCEPT ![r] = IF @ = Null THEN 1 ELSE @ + 1]
    /\ cards'[r] <= MaxPicture
    /\ UNCHANGED <<catalogued, recipes, lines, meals, disk, pass, today, passes, touches>>

NextDay ==
    /\ today < LastDay /\ today' = today + 1
    /\ UNCHANGED <<cards, catalogued, recipes, lines, meals, disk, pass, passes, touches>>

ByHand ==
    /\ pass = Null /\ touches < MaxTouches /\ touches' = touches + 1
    /\ UNCHANGED <<cards, disk, pass, today, passes>>

CatalogueLearns(p) ==
    /\ ByHand /\ p \notin catalogued /\ catalogued' = catalogued \cup {p}
    /\ UNCHANGED <<recipes, lines, meals>>

SettleLine(l, p) ==
    /\ ByHand /\ lines[l] # Null /\ p \in catalogued
    /\ lines' = [lines EXCEPT ![l] = [@ EXCEPT !.match = "confirmed", !.product = p,
                                               !.filled = TRUE, !.byHand = TRUE]]
    /\ UNCHANGED <<catalogued, recipes, meals>>

\* Refused while a meal is made of it.
EraseRecipe(r) ==
    /\ ByHand /\ recipes[r] # Null
    /\ \A m \in GMeals : MealRecipe[m] = r => meals[m] = Null
    /\ recipes' = [recipes EXCEPT ![r] = Null]
    /\ lines' = [l \in GLines |-> IF LineOf[l] = r THEN Null ELSE lines[l]]
    /\ UNCHANGED <<catalogued, meals>>

CookMeal(m) ==
    /\ ByHand /\ meals[m] = "planned"
    /\ meals' = [meals EXCEPT ![m] = "done"]
    /\ UNCHANGED <<catalogued, recipes, lines>>

CancelMeal(m) ==
    /\ ByHand /\ meals[m] \in {"planned", "done"}
    /\ meals' = [meals EXCEPT ![m] = IF @ = "done" THEN "skipped" ELSE Null]
    /\ UNCHANGED <<catalogued, recipes, lines>>
-----------------------------------------------------------------------------
(* The import.                                                             *)

Imported == {r \in GRecipes : recipes[r] # Null}
CardsOfGrocy    == {r \in GRecipes : cards[r] # Null}

BeginPass ==
    /\ pass = Null /\ passes < MaxPasses
    /\ passes' = passes + 1
    /\ pass' = [seen |-> {}, staged |-> {}]
    /\ UNCHANGED <<cards, catalogued, recipes, lines, meals, disk, today, touches>>

\* mutant: a name every recipe shares.
SharedName(r) == <<0>>
\* nom_inline: the id of the recipe and the rank of the picture in it.
PictureName(r) == <<r, 0>>

\* A recipe the house has is skipped, its ingredients with it.
ImportCard(r) ==
    /\ pass # Null /\ r \in CardsOfGrocy \ pass.seen
    /\ IF r \in Imported
       THEN /\ pass' = [pass EXCEPT !.seen = @ \cup {r}]
            /\ UNCHANGED disk
       ELSE /\ pass' = [pass EXCEPT !.seen = @ \cup {r}, !.staged = @ \cup {r}]
            /\ disk' = [f \in DOMAIN disk \cup {PictureName(r)} |->
                          IF f = PictureName(r) THEN cards[r] ELSE disk[f]]
    /\ UNCHANGED <<cards, catalogued, recipes, lines, meals, today, passes, touches>>

\* The product by its Grocy id, the quantity only when the line is in the
\* unit the product is stocked in.
LineFromGrocy(l) ==
    LET p == LineProduct[l] IN
    [match   |-> IF p \in catalogued /\ l \in SameUnit THEN "confirmed" ELSE "unmatched",
     product |-> IF p \in catalogued THEN p ELSE Null,
     filled  |-> p \in catalogued /\ l \in SameUnit,
     byHand  |-> FALSE,
     times   |-> 1]

Ahead == {m \in GMeals : MealDay[m] >= today}

\* mutant: an entry whose recipe is missing goes through.
NothingOrphaned == FALSE
\* An entry ahead names a recipe nobody has seen: RecipeImportError.
Orphaned == \E m \in Ahead : MealRecipe[m] \notin Imported \cup pass.seen \cup {Null}

\* mutant: the lines of every recipe that was seen.
LinesOfSeen == {l \in GLines : LineOf[l] \in pass.seen}
NewLines    == {l \in GLines : LineOf[l] \in pass.staged}

EndPass ==
    /\ pass # Null /\ pass.seen = CardsOfGrocy /\ ~Orphaned
    /\ recipes' = [r \in GRecipes |-> IF r \in pass.staged THEN cards[r] ELSE recipes[r]]
    /\ lines' = [l \in GLines |->
                   IF l \notin NewLines THEN lines[l]
                   ELSE IF lines[l] = Null THEN LineFromGrocy(l)
                   ELSE [LineFromGrocy(l) EXCEPT !.times = 2]]
    /\ meals' = [m \in GMeals |-> IF m \in Ahead /\ meals[m] = Null THEN "planned" ELSE meals[m]]
    /\ pass' = Null
    /\ UNCHANGED <<cards, catalogued, disk, today, passes, touches>>

\* RecipeImportError, a full disk, a crash: the rows go, the pictures stay.
PassFails ==
    /\ pass # Null /\ pass' = Null
    /\ UNCHANGED <<cards, catalogued, recipes, lines, meals, disk, today, passes, touches>>

GrocyRecipeNext ==
    \/ NextDay \/ BeginPass \/ EndPass \/ PassFails
    \/ \E r \in GRecipes : NewerCopy(r) \/ ImportCard(r) \/ EraseRecipe(r)
    \/ \E m \in GMeals : CookMeal(m) \/ CancelMeal(m)
    \/ \E p \in Ingredients : CatalogueLearns(p) \/ \E l \in GLines : SettleLine(l, p)

GrocyRecipeSpec == GrocyRecipeInit /\ [][GrocyRecipeNext]_recipeVars
-----------------------------------------------------------------------------
(* The checks that read these tables.                                      *)

\* The unmatched lines have to be acknowledged by name; nothing is compared
\* with Grocy.
C8(acknowledged) ==
    /\ Imported # {}
    /\ {l \in GLines : lines[l] # Null /\ lines[l].match = "unmatched"} \subseteq acknowledged

\* A recipe refers to its own file, and to no other.
C9 == /\ Imported # {}
      /\ \A r \in Imported : PictureName(r) \in DOMAIN disk

C10 == /\ \E m \in GMeals : meals[m] # Null
       /\ \A m \in GMeals : meals[m] # Null => MealRecipe[m] \in Imported \cup {Null}
-----------------------------------------------------------------------------
(* Every imported recipe has its own picture on the disk, as it was when   *)
(* the recipe came, whatever passes failed half-way (_write_pictures).     *)
PictureIsItsOwn ==
    \A r \in Imported :
        PictureName(r) \in DOMAIN disk /\ disk[PictureName(r)] = recipes[r]

(* A line is written once, and one a hand has settled stays as the hand    *)
(* left it (_import_recipe_within: "une ligne arbitrée à la main [...] ne  *)
(* se fait pas effacer par un second passage").                            *)
SettledStaysSettledStep ==
    \A l \in GLines :
        /\ lines'[l] # Null => lines'[l].times = 1
        /\ (lines[l] # Null /\ lines[l].byHand /\ recipes'[LineOf[l]] # Null)
             => lines'[l] # Null /\ lines'[l].byHand
SettledStaysSettled == [][SettledStaysSettledStep]_recipeVars

(* A meal whose recipe is gone would be discovered at dinner               *)
(* (_import_meal_plan_within).                                             *)
PlannedMealsHaveTheirRecipe ==
    \A m \in GMeals : meals[m] # Null => MealRecipe[m] \in Imported \cup {Null}

(* What nobody may find wrong in the recipes, the plan and the pictures.   *)
RecipeImportSound ==
    GrocyRecipeTypeOK /\ PictureIsItsOwn /\ PlannedMealsHaveTheirRecipe

(* Green checks say that every recipe of Grocy is in the house ("Blocking  *)
(* on the counts", _c8).                                                   *)
GreenMeansCooked == (C8(GLines) /\ C9 /\ C10 /\ passes > 0) => CardsOfGrocy \subseteq Imported
=============================================================================

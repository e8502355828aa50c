---------------------------- MODULE GrocyProofs ----------------------------
(***************************************************************************)
(* Theorems about the imports of Grocy, for every copy of Grocy's tables   *)
(* and every bound: recipes with their pictures and lines, batteries with  *)
(* their spares, and the stock with its list and the check of the          *)
(* migration.                                                              *)
(***************************************************************************)
EXTENDS HandWork, GrocyStock, HouseProofs

(***************************************************************************)
(* Recipes of Grocy.  Between the copy of a picture and the transaction    *)
(* that names it, only the pass knows which files are owed to which recipe *)
(* (`PassSound`).                                                          *)
(***************************************************************************)
\* What an import under way holds.
RecipePass == [seen : SUBSET GRecipes, staged : SUBSET GRecipes]

\* What the constants are, and that Null is no line and no import.
RecipeAssumptions ==
    /\ GrocyRecipeConstants
    /\ Null \notin Line /\ Null \notin RecipePass /\ Null \notin {"planned", "done", "skipped"}

\* The variables one by one.
RecipeTypes ==
    /\ cards \in [GRecipes -> 1..MaxPicture \cup {Null}]
    /\ catalogued \subseteq Ingredients
    /\ recipes \in [GRecipes -> 1..MaxPicture \cup {Null}]
    /\ lines \in [GLines -> Line \cup {Null}]
    /\ meals \in [GMeals -> {"planned", "done", "skipped", Null}]
    /\ \A f \in DOMAIN disk : disk[f] \in 1..MaxPicture
    /\ pass = Null \/ pass \in RecipePass
    /\ today \in 0..LastDay /\ passes \in Nat /\ touches \in Nat

\* What a pass has staged is not in the house yet, and its picture is on the
\* disk as the copy of Grocy has it; the other recipes it has seen are there.
PassSound ==
    pass # Null =>
        /\ pass.staged \subseteq pass.seen /\ pass.seen \ pass.staged \subseteq Imported
        /\ \A r \in pass.staged :
              /\ recipes[r] = Null /\ cards[r] # Null
              /\ PictureName(r) \in DOMAIN disk /\ disk[PictureName(r)] = cards[r]

\* A line belongs to a recipe that is there, and was written once.
LinesOfRecipes ==
    \A l \in GLines : lines[l] # Null => lines[l].times = 1 /\ recipes[LineOf[l]] # Null

RecipeInv ==
    RecipeTypes /\ PassSound /\ LinesOfRecipes /\ PictureIsItsOwn /\ PlannedMealsHaveTheirRecipe

\* The variables one by one make the types.
LEMMA TypesOfRecipes ==
    ASSUME RecipeTypes, PassSound
    PROVE  GrocyRecipeTypeOK
  BY DEF RecipeTypes, PassSound, GrocyRecipeTypeOK, RecipePass

(***************************************************************************)
(* Recipes: Grocy, the calendar and the hands                              *)
(***************************************************************************)
\* Grocy changes a recipe or its picture between two imports.
LEMMA NewerCopyKeeps ==
    ASSUME RecipeAssumptions, RecipeInv, NEW r \in GRecipes, NewerCopy(r)
    PROVE  RecipeInv'
<1>0. MaxPicture \in Nat
  BY DEF RecipeAssumptions, GrocyRecipeConstants
<1>1. /\ cards' = [cards EXCEPT ![r] = IF cards[r] = Null THEN 1 ELSE cards[r] + 1]
      /\ cards'[r] <= MaxPicture /\ pass = Null
      /\ UNCHANGED <<catalogued, recipes, lines, meals, disk, pass, today, passes, touches>>
  BY DEF NewerCopy
<1>2. cards' \in [GRecipes -> 1..MaxPicture \cup {Null}]
  <2>1. cards \in [GRecipes -> 1..MaxPicture \cup {Null}]
    BY DEF RecipeInv, RecipeTypes
  <2>2. cards'[r] \in 1..MaxPicture
    BY <1>0, <1>1, <2>1
  <2>. QED
    BY <1>1, <2>1, <2>2
<1>3. RecipeTypes'
  BY <1>1, <1>2 DEF RecipeInv, RecipeTypes
<1>4. PassSound'
  BY <1>1 DEF PassSound
<1>. QED
  BY <1>1, <1>3, <1>4 DEF RecipeInv, LinesOfRecipes, PictureIsItsOwn, PictureName,
     PlannedMealsHaveTheirRecipe, Imported

\* A day passes, an ingredient becomes known, a meal is cooked or cancelled.
LEMMA HandsKeep ==
    ASSUME RecipeAssumptions, RecipeInv,
           \/ NextDay
           \/ \E p \in Ingredients : CatalogueLearns(p)
           \/ \E m \in GMeals : CookMeal(m) \/ CancelMeal(m)
    PROVE  RecipeInv'
<1>0. LastDay \in Nat /\ RecipeTypes
  BY DEF RecipeAssumptions, GrocyRecipeConstants, RecipeInv
<1>1. UNCHANGED <<cards, recipes, lines, disk, pass, passes>>
  BY DEF NextDay, CatalogueLearns, CookMeal, CancelMeal, ByHand
<1>2. catalogued' \subseteq Ingredients /\ today' \in 0..LastDay /\ touches' \in Nat
  <2>1. CASE NextDay
    BY <1>0, <2>1 DEF NextDay, RecipeTypes
  <2>2. ASSUME NEW p \in Ingredients, CatalogueLearns(p)
        PROVE  catalogued' \subseteq Ingredients /\ today' \in 0..LastDay /\ touches' \in Nat
    BY <1>0, <2>2 DEF CatalogueLearns, ByHand, RecipeTypes
  <2>3. ASSUME NEW m \in GMeals, CookMeal(m) \/ CancelMeal(m)
        PROVE  catalogued' \subseteq Ingredients /\ today' \in 0..LastDay /\ touches' \in Nat
    BY <1>0, <2>3 DEF CookMeal, CancelMeal, ByHand, RecipeTypes
  <2>. QED
    BY <2>1, <2>2, <2>3
<1>3. /\ meals' \in [GMeals -> {"planned", "done", "skipped", Null}]
      /\ \A m \in GMeals : meals'[m] # Null => meals[m] # Null
  <2>0. meals \in [GMeals -> {"planned", "done", "skipped", Null}]
    BY <1>0 DEF RecipeTypes
  <2>1. CASE NextDay \/ \E p \in Ingredients : CatalogueLearns(p)
    BY <2>0, <2>1 DEF NextDay, CatalogueLearns
  <2>2. ASSUME NEW m \in GMeals, CookMeal(m)
        PROVE  /\ meals' \in [GMeals -> {"planned", "done", "skipped", Null}]
               /\ \A n \in GMeals : meals'[n] # Null => meals[n] # Null
    <3>1. meals[m] = "planned" /\ meals' = [meals EXCEPT ![m] = "done"]
      BY <2>2 DEF CookMeal
    <3>. QED
      BY <2>0, <3>1 DEF RecipeAssumptions
  <2>3. ASSUME NEW m \in GMeals, CancelMeal(m)
        PROVE  /\ meals' \in [GMeals -> {"planned", "done", "skipped", Null}]
               /\ \A n \in GMeals : meals'[n] # Null => meals[n] # Null
    <3>1. /\ meals[m] \in {"planned", "done"}
          /\ meals' = [meals EXCEPT ![m] = IF meals[m] = "done" THEN "skipped" ELSE Null]
      BY <2>3 DEF CancelMeal
    <3>. QED
      BY <2>0, <3>1 DEF RecipeAssumptions
  <2>. QED
    BY <2>1, <2>2, <2>3
<1>4. RecipeTypes'
  BY <1>0, <1>1, <1>2, <1>3 DEF RecipeTypes
<1>5. PassSound' /\ LinesOfRecipes' /\ PictureIsItsOwn'
  BY <1>1 DEF RecipeInv, PassSound, LinesOfRecipes, PictureIsItsOwn, PictureName, Imported
<1>6. PlannedMealsHaveTheirRecipe'
  BY <1>1, <1>3 DEF RecipeInv, PlannedMealsHaveTheirRecipe, Imported
<1>. QED
  BY <1>4, <1>5, <1>6 DEF RecipeInv

\* A hand settles a line: it stays one line.
LEMMA SettleLineKeeps ==
    ASSUME RecipeAssumptions, RecipeInv, NEW l \in GLines, NEW p \in Ingredients, SettleLine(l, p)
    PROVE  /\ RecipeInv'
           /\ lines'[l] # Null /\ lines'[l].byHand
           /\ \A k \in GLines : k # l => lines'[k] = lines[k]
<1>. DEFINE row == [lines[l] EXCEPT !.match = "confirmed", !.product = p,
                                    !.filled = TRUE, !.byHand = TRUE]
<1>0. RecipeTypes /\ lines \in [GLines -> Line \cup {Null}]
  BY DEF RecipeInv, RecipeTypes
<1>1. /\ lines[l] # Null /\ lines' = [lines EXCEPT ![l] = row]
      /\ touches' = touches + 1
      /\ UNCHANGED <<cards, catalogued, recipes, meals, disk, pass, today, passes>>
  BY DEF SettleLine, ByHand
<1>2. row \in Line /\ row.times = lines[l].times /\ row.byHand
  BY <1>0, <1>1 DEF Line
<1>3. row # Null
  BY <1>2 DEF RecipeAssumptions
<1>. HIDE DEF row
<1>4. /\ lines' \in [GLines -> Line \cup {Null}] /\ lines'[l] = row
      /\ \A k \in GLines : k # l => lines'[k] = lines[k]
  BY <1>0, <1>1, <1>2
<1>5. touches' \in Nat
  BY <1>0, <1>1 DEF RecipeTypes
<1>6. RecipeTypes'
  BY <1>0, <1>1, <1>4, <1>5 DEF RecipeTypes
<1>7. LinesOfRecipes'
  BY <1>1, <1>2, <1>4 DEF RecipeInv, LinesOfRecipes
<1>8. PassSound' /\ PictureIsItsOwn' /\ PlannedMealsHaveTheirRecipe'
  BY <1>1 DEF RecipeInv, PassSound, PictureIsItsOwn, PictureName, Imported,
     PlannedMealsHaveTheirRecipe
<1>. QED
  BY <1>2, <1>3, <1>4, <1>6, <1>7, <1>8 DEF RecipeInv

\* A recipe is erased with its lines, and no planned meal needs it.
LEMMA EraseRecipeKeeps ==
    ASSUME RecipeInv, NEW r \in GRecipes, EraseRecipe(r)
    PROVE  RecipeInv'
<1>0. /\ RecipeTypes /\ lines \in [GLines -> Line \cup {Null}]
      /\ recipes \in [GRecipes -> 1..MaxPicture \cup {Null}]
  BY DEF RecipeInv, RecipeTypes
<1>1. /\ \A m \in GMeals : MealRecipe[m] = r => meals[m] = Null
      /\ recipes' = [recipes EXCEPT ![r] = Null]
      /\ lines' = [l \in GLines |-> IF LineOf[l] = r THEN Null ELSE lines[l]]
      /\ pass = Null /\ touches' = touches + 1
      /\ UNCHANGED <<cards, catalogued, meals, disk, pass, today, passes>>
  BY DEF EraseRecipe, ByHand
<1>2. /\ recipes' \in [GRecipes -> 1..MaxPicture \cup {Null}]
      /\ \A s \in GRecipes : s # r => recipes'[s] = recipes[s]
      /\ recipes'[r] = Null
  BY <1>0, <1>1
<1>3. lines' \in [GLines -> Line \cup {Null}]
  BY <1>0, <1>1
<1>4. touches' \in Nat
  BY <1>0, <1>1 DEF RecipeTypes
<1>5. RecipeTypes'
  BY <1>0, <1>1, <1>2, <1>3, <1>4 DEF RecipeTypes
<1>6. LinesOfRecipes'
  BY <1>0, <1>1 DEF RecipeInv, LinesOfRecipes
<1>7. PassSound'
  BY <1>1 DEF PassSound
<1>8. PictureIsItsOwn'
  BY <1>1, <1>2 DEF RecipeInv, PictureIsItsOwn, PictureName, Imported
<1>9. PlannedMealsHaveTheirRecipe'
  BY <1>1, <1>2 DEF RecipeInv, PlannedMealsHaveTheirRecipe, Imported
<1>. QED
  BY <1>5, <1>6, <1>7, <1>8, <1>9 DEF RecipeInv

(***************************************************************************)
(* Recipes: the import                                                     *)
(***************************************************************************)
\* A pass begins.
LEMMA BeginPassKeeps ==
    ASSUME RecipeInv, BeginPass
    PROVE  RecipeInv'
<1>1. /\ passes' = passes + 1 /\ pass' = [seen |-> {}, staged |-> {}]
      /\ UNCHANGED <<cards, catalogued, recipes, lines, meals, disk, today, touches>>
  BY DEF BeginPass
<1>2. pass' \in RecipePass /\ pass'.staged = {} /\ pass'.seen = {}
  BY <1>1 DEF RecipePass
<1>3. passes' \in Nat
  BY <1>1 DEF RecipeInv, RecipeTypes
<1>4. RecipeTypes'
  BY <1>1, <1>2, <1>3 DEF RecipeInv, RecipeTypes
<1>5. PassSound'
  BY <1>2 DEF PassSound
<1>. QED
  BY <1>1, <1>4, <1>5 DEF RecipeInv, LinesOfRecipes, PictureIsItsOwn, PictureName,
     PlannedMealsHaveTheirRecipe, Imported

\* A pass fails: what it wrote on the disk stays.
LEMMA PassFailsKeeps ==
    ASSUME RecipeInv, PassFails
    PROVE  RecipeInv'
<1>1. /\ pass' = Null
      /\ UNCHANGED <<cards, catalogued, recipes, lines, meals, disk, today, passes, touches>>
  BY DEF PassFails
<1>2. RecipeTypes' /\ PassSound'
  BY <1>1 DEF RecipeInv, RecipeTypes, PassSound
<1>. QED
  BY <1>1, <1>2 DEF RecipeInv, LinesOfRecipes, PictureIsItsOwn, PictureName,
     PlannedMealsHaveTheirRecipe, Imported

\* A pass sees a card: its picture goes to the disk before the recipe is in
\* the house.
LEMMA ImportCardKeeps ==
    ASSUME RecipeInv, NEW r \in GRecipes, ImportCard(r)
    PROVE  RecipeInv'
<1>0. /\ RecipeTypes /\ pass \in RecipePass /\ pass # Null /\ r \in CardsOfGrocy /\ r \notin pass.seen
      /\ cards[r] \in 1..MaxPicture
      /\ UNCHANGED <<cards, catalogued, recipes, lines, meals, today, passes, touches>>
  BY DEF RecipeInv, RecipeTypes, ImportCard, CardsOfGrocy
<1>1. LinesOfRecipes' /\ PlannedMealsHaveTheirRecipe'
  BY <1>0 DEF RecipeInv, LinesOfRecipes, PlannedMealsHaveTheirRecipe, Imported
<1>2. CASE r \in Imported
  <2>1. pass' = [pass EXCEPT !.seen = pass.seen \cup {r}] /\ disk' = disk
    BY <1>2 DEF ImportCard
  <2>2. pass' \in RecipePass /\ pass'.seen = pass.seen \cup {r} /\ pass'.staged = pass.staged
    BY <1>0, <2>1 DEF RecipePass
  <2>3. RecipeTypes'
    BY <1>0, <2>1, <2>2 DEF RecipeTypes
  <2>4. PassSound'
    BY <1>0, <1>2, <2>1, <2>2 DEF RecipeInv, PassSound, Imported, PictureName
  <2>5. PictureIsItsOwn'
    BY <1>0, <2>1 DEF RecipeInv, PictureIsItsOwn, Imported, PictureName
  <2>. QED
    BY <1>1, <2>3, <2>4, <2>5 DEF RecipeInv
<1>3. CASE r \notin Imported
  <2>1. /\ pass' = [pass EXCEPT !.seen = pass.seen \cup {r}, !.staged = pass.staged \cup {r}]
        /\ disk' = [f \in DOMAIN disk \cup {PictureName(r)} |->
                      IF f = PictureName(r) THEN cards[r] ELSE disk[f]]
    BY <1>3 DEF ImportCard
  <2>2. /\ pass' \in RecipePass /\ pass'.seen = pass.seen \cup {r}
        /\ pass'.staged = pass.staged \cup {r}
    BY <1>0, <2>1 DEF RecipePass
  <2>3. /\ PictureName(r) \in DOMAIN disk' /\ disk'[PictureName(r)] = cards[r]
        /\ \A s \in GRecipes : s # r /\ PictureName(s) \in DOMAIN disk =>
              PictureName(s) \in DOMAIN disk' /\ disk'[PictureName(s)] = disk[PictureName(s)]
        /\ \A f \in DOMAIN disk' : disk'[f] \in 1..MaxPicture
    <3>1. \A s \in GRecipes : s # r => PictureName(s) # PictureName(r)
      BY DEF PictureName
    <3>2. \A f \in DOMAIN disk : disk[f] \in 1..MaxPicture
      BY <1>0 DEF RecipeTypes
    <3>. QED
      BY <1>0, <2>1, <3>1, <3>2
  <2>4. RecipeTypes'
    BY <1>0, <2>2, <2>3 DEF RecipeTypes
  <2>5. r \notin pass.staged /\ recipes[r] = Null /\ cards[r] # Null
    BY <1>0, <1>3 DEF RecipeInv, PassSound, Imported, CardsOfGrocy
  <2>6. /\ pass.staged \subseteq pass.seen /\ pass.seen \ pass.staged \subseteq Imported
        /\ pass.staged \subseteq GRecipes
        /\ \A s \in pass.staged :
              /\ recipes[s] = Null /\ cards[s] # Null
              /\ PictureName(s) \in DOMAIN disk /\ disk[PictureName(s)] = cards[s]
    BY <1>0 DEF RecipeInv, PassSound, RecipePass
  <2>7. PassSound'
    <3>1. /\ pass'.staged \subseteq pass'.seen /\ pass'.seen \ pass'.staged \subseteq Imported'
      BY <1>0, <2>2, <2>6 DEF Imported
    <3>2. \A s \in pass'.staged :
              /\ recipes'[s] = Null /\ cards'[s] # Null
              /\ PictureName(s) \in DOMAIN disk' /\ disk'[PictureName(s)] = cards'[s]
      <4>1. \A s \in pass'.staged : s = r \/ (s # r /\ s \in pass.staged)
        BY <2>2
      <4>. QED
        BY <1>0, <2>3, <2>5, <2>6, <4>1
    <3>. QED
      BY <3>1, <3>2 DEF PassSound, PictureName
  <2>8. PictureIsItsOwn'
    BY <1>0, <2>3, <2>5 DEF RecipeInv, PictureIsItsOwn, PictureName, Imported
  <2>. QED
    BY <1>1, <2>4, <2>7, <2>8 DEF RecipeInv
<1>. QED
  BY <1>2, <1>3

\* A line of Grocy, as it is written.
LEMMA WrittenLine ==
    ASSUME RecipeAssumptions, NEW l \in GLines
    PROVE  LineFromGrocy(l) \in Line /\ LineFromGrocy(l).times = 1
           /\ [LineFromGrocy(l) EXCEPT !.times = 2] \in Line
<1>1. LineProduct[l] \in Ingredients
  BY DEF RecipeAssumptions, GrocyRecipeConstants
<1>2. (LineProduct[l] \in catalogued /\ l \in SameUnit) \in BOOLEAN
  OBVIOUS
<1>3. LineFromGrocy(l) \in Line /\ LineFromGrocy(l).times = 1
  BY <1>1, <1>2 DEF LineFromGrocy, Line
<1>. QED
  BY <1>3 DEF Line

\* A pass ends: recipes, lines and meals in one transaction.
LEMMA EndPassKeeps ==
    ASSUME RecipeAssumptions, RecipeInv, EndPass
    PROVE  /\ RecipeInv'
           /\ \A l \in GLines : lines[l] # Null => lines'[l] = lines[l]
<1>0. /\ RecipeTypes /\ pass \in RecipePass /\ pass # Null /\ ~Orphaned
      /\ recipes' = [r \in GRecipes |-> IF r \in pass.staged THEN cards[r] ELSE recipes[r]]
      /\ meals' = [m \in GMeals |-> IF m \in Ahead /\ meals[m] = Null THEN "planned" ELSE meals[m]]
      /\ pass' = Null
      /\ UNCHANGED <<cards, catalogued, disk, today, passes, touches>>
  BY DEF RecipeInv, RecipeTypes, EndPass
<1>1. lines' = [l \in GLines |->
                   IF l \notin NewLines THEN lines[l]
                   ELSE IF lines[l] = Null THEN LineFromGrocy(l)
                   ELSE [LineFromGrocy(l) EXCEPT !.times = 2]]
  BY DEF EndPass
<1>2. /\ pass.staged \subseteq pass.seen /\ pass.seen \ pass.staged \subseteq Imported
      /\ pass.staged \subseteq GRecipes
      /\ \A s \in pass.staged :
            /\ recipes[s] = Null /\ cards[s] # Null
            /\ PictureName(s) \in DOMAIN disk /\ disk[PictureName(s)] = cards[s]
  BY <1>0 DEF RecipeInv, PassSound, RecipePass
<1>3. \A l \in NewLines : lines[l] = Null /\ LineOf[l] \in pass.staged
  BY <1>2 DEF RecipeInv, LinesOfRecipes, NewLines
<1>4. \A l \in GLines : \/ l \notin NewLines /\ lines'[l] = lines[l]
                        \/ l \in NewLines /\ lines'[l] = LineFromGrocy(l)
  BY <1>1, <1>3
<1>5. lines' \in [GLines -> Line \cup {Null}]
  <2>1. \A l \in GLines : lines'[l] \in Line \cup {Null}
    BY <1>0, <1>4, WrittenLine DEF RecipeTypes
  <2>. QED
    BY <1>1, <2>1
<1>6. recipes' \in [GRecipes -> 1..MaxPicture \cup {Null}]
      /\ meals' \in [GMeals -> {"planned", "done", "skipped", Null}]
  BY <1>0 DEF RecipeTypes
<1>7. RecipeTypes' /\ PassSound'
  BY <1>0, <1>5, <1>6 DEF RecipeTypes, PassSound
<1>8. \A r \in GRecipes : recipes[r] # Null => recipes'[r] = recipes[r]
  BY <1>0, <1>2
<1>9. \A r \in GRecipes : r \in Imported \cup pass.seen => recipes'[r] # Null
  BY <1>0, <1>2, <1>8 DEF Imported
<1>10. LinesOfRecipes'
  <2>1. LineOf \in [GLines -> GRecipes]
    BY DEF RecipeAssumptions, GrocyRecipeConstants
  <2>2. \A l \in NewLines : recipes'[LineOf[l]] # Null
    BY <1>2, <1>3, <1>9
  <2>. QED
    BY <1>4, <1>8, <2>1, <2>2, WrittenLine DEF RecipeInv, LinesOfRecipes
<1>11. PictureIsItsOwn'
  BY <1>0, <1>2 DEF RecipeInv, PictureIsItsOwn, PictureName, Imported
<1>12. PlannedMealsHaveTheirRecipe'
  <2>1. SUFFICES ASSUME NEW m \in GMeals, meals'[m] # Null
                 PROVE  MealRecipe[m] \in Imported' \cup {Null}
    BY DEF PlannedMealsHaveTheirRecipe
  <2>2. MealRecipe[m] \in GRecipes \cup {Null}
    BY DEF RecipeAssumptions, GrocyRecipeConstants
  <2>3. CASE m \in Ahead /\ meals[m] = Null
    BY <1>0, <1>9, <2>2, <2>3 DEF Orphaned, Imported
  <2>4. CASE meals[m] # Null
    BY <1>8, <2>2, <2>4 DEF RecipeInv, PlannedMealsHaveTheirRecipe, Imported
  <2>. QED
    BY <1>0, <2>1, <2>3, <2>4
<1>. QED
  BY <1>3, <1>4, <1>7, <1>10, <1>11, <1>12 DEF RecipeInv

\* The inductive invariant holds in every state.
LEMMA RecipeInvariant ==
    ASSUME RecipeAssumptions
    PROVE  GrocyRecipeSpec => []RecipeInv
<1>1. GrocyRecipeInit => RecipeInv
  <2>. SUFFICES ASSUME GrocyRecipeInit PROVE RecipeInv
    OBVIOUS
  <2>0. 1 \in 1..MaxPicture /\ 0 \in 0..LastDay
    BY DEF RecipeAssumptions, GrocyRecipeConstants
  <2>1. RecipeTypes
    BY <2>0 DEF GrocyRecipeInit, RecipeTypes
  <2>2. PassSound /\ LinesOfRecipes /\ PictureIsItsOwn /\ PlannedMealsHaveTheirRecipe
    BY DEF GrocyRecipeInit, PassSound, LinesOfRecipes, PictureIsItsOwn, Imported,
       PlannedMealsHaveTheirRecipe
  <2>. QED
    BY <2>1, <2>2 DEF RecipeInv
<1>2. RecipeInv /\ [GrocyRecipeNext]_recipeVars => RecipeInv'
  <2>. SUFFICES ASSUME RecipeInv, [GrocyRecipeNext]_recipeVars PROVE RecipeInv'
    OBVIOUS
  <2>1. CASE \/ NextDay
             \/ \E p \in Ingredients : CatalogueLearns(p)
             \/ \E m \in GMeals : CookMeal(m) \/ CancelMeal(m)
    BY <2>1, HandsKeep
  <2>2. CASE BeginPass
    BY <2>2, BeginPassKeeps
  <2>3. CASE EndPass
    BY <2>3, EndPassKeeps
  <2>4. CASE PassFails
    BY <2>4, PassFailsKeeps
  <2>5. ASSUME NEW r \in GRecipes, NewerCopy(r) \/ ImportCard(r) \/ EraseRecipe(r)
        PROVE  RecipeInv'
    BY <2>5, NewerCopyKeeps, ImportCardKeeps, EraseRecipeKeeps
  <2>6. ASSUME NEW l \in GLines, NEW p \in Ingredients, SettleLine(l, p)
        PROVE  RecipeInv'
    BY <2>6, SettleLineKeeps
  <2>7. CASE UNCHANGED recipeVars
    BY <2>7 DEF recipeVars, RecipeInv, RecipeTypes, PassSound, LinesOfRecipes,
       PictureIsItsOwn, PictureName, PlannedMealsHaveTheirRecipe, Imported
  <2>. QED
    BY <2>1, <2>2, <2>3, <2>4, <2>5, <2>6, <2>7 DEF GrocyRecipeNext
<1>. QED
  BY <1>1, <1>2, PTL DEF GrocyRecipeSpec

(* However imports fail, are replayed and cross changes of Grocy and of    *)
(* the house: a recipe that is in the house has its own picture on the     *)
(* disk, and a meal that is planned has its recipe                         *)
(* (import_grocy_recipes.py).                                              *)
THEOREM RecipeImportIsSound ==
    ASSUME RecipeAssumptions
    PROVE  GrocyRecipeSpec => []RecipeImportSound
<1>1. RecipeInv => RecipeImportSound
  BY TypesOfRecipes DEF RecipeInv, RecipeImportSound
<1>. QED
  BY <1>1, RecipeInvariant, PTL

(* A replay writes no line twice and takes back none a hand settled,       *)
(* unless its recipe is erased (import_grocy_recipes.py).                  *)
THEOREM SettledLinesStaySettled ==
    ASSUME RecipeAssumptions
    PROVE  GrocyRecipeSpec => SettledStaysSettled
<1>1. RecipeInv /\ RecipeInv' /\ [GrocyRecipeNext]_recipeVars => [SettledStaysSettledStep]_recipeVars
  <2>. SUFFICES ASSUME RecipeInv, RecipeInv', GrocyRecipeNext, NEW l \in GLines
                PROVE  /\ lines'[l] # Null => lines'[l].times = 1
                       /\ (lines[l] # Null /\ lines[l].byHand /\ recipes'[LineOf[l]] # Null)
                            => lines'[l] # Null /\ lines'[l].byHand
    BY DEF SettledStaysSettledStep
  <2>1. lines'[l] # Null => lines'[l].times = 1
    BY DEF RecipeInv, LinesOfRecipes
  <2>2. ASSUME lines[l] # Null, lines[l].byHand, recipes'[LineOf[l]] # Null
        PROVE  lines'[l] # Null /\ lines'[l].byHand
    <3>1. CASE lines' = lines
      BY <2>2, <3>1
    <3>2. CASE EndPass
      BY <2>2, <3>2, EndPassKeeps
    <3>3. ASSUME NEW k \in GLines, NEW p \in Ingredients, SettleLine(k, p)
          PROVE  lines'[l] # Null /\ lines'[l].byHand
      BY <2>2, <3>3, SettleLineKeeps
    <3>4. ASSUME NEW r \in GRecipes, EraseRecipe(r)
          PROVE  lines'[l] # Null /\ lines'[l].byHand
      <4>1. /\ recipes' = [recipes EXCEPT ![r] = Null]
            /\ lines' = [k \in GLines |-> IF LineOf[k] = r THEN Null ELSE lines[k]]
        BY <3>4 DEF EraseRecipe
      <4>2. recipes'[r] = Null
        BY <4>1 DEF RecipeInv, RecipeTypes
      <4>. QED
        BY <2>2, <4>1, <4>2
    <3>5. /\ NextDay \/ BeginPass \/ PassFails => lines' = lines
          /\ \A r \in GRecipes : NewerCopy(r) \/ ImportCard(r) => lines' = lines
          /\ \A m \in GMeals : CookMeal(m) \/ CancelMeal(m) => lines' = lines
          /\ \A p \in Ingredients : CatalogueLearns(p) => lines' = lines
      BY DEF NextDay, BeginPass, PassFails, NewerCopy, ImportCard, CookMeal, CancelMeal,
         CatalogueLearns
    <3>. QED
      BY <3>1, <3>2, <3>3, <3>4, <3>5 DEF GrocyRecipeNext
  <2>. QED
    BY <2>1, <2>2
<1>. QED
  BY <1>1, RecipeInvariant, PTL DEF GrocyRecipeSpec, SettledStaysSettled

(***************************************************************************)
(* Batteries of Grocy.  The two lists of tasks agree by arithmetic on the  *)
(* level alone, so the types are the inductive invariant.                  *)
(***************************************************************************)
\* The rows of batteries and spares.
EquipmentRow == [tracked : BOOLEAN, byHand : BOOLEAN, spare : Families \cup {Null}]
SpareRow     == [left : Nat, entered : Nat, used : Nat]

\* What the constants are, and that Null is no row.
EquipmentAssumptions == EquipmentConstants /\ Null \notin EquipmentRow

\* The spare chosen for a battery is one of Grocy's, or none: of the rows
\* that fit, one comes first.
LEMMA SpareForIsASpare ==
    ASSUME EquipmentConstants, NEW x
    PROVE  SpareFor(x) \in Families \cup {Null}
<1>. DEFINE fits == {f \in Spares : <<FormatOf(x), f>> \in Inside}
<1>1. CASE sensors[x].usb \/ fits = {}
  BY <1>1 DEF SpareFor
<1>2. CASE ~sensors[x].usb /\ fits # {}
  <2>1. \A f \in fits : SpareRows(f) # {} /\ SpareRows(f) \subseteq Nat /\ f \in Families
    BY DEF Spares, SpareRows, EquipmentConstants
  <2>2. \A f \in fits : FirstRow(f) \in Nat
    <3>1. SUFFICES ASSUME NEW f \in fits PROVE FirstRow(f) \in Nat
      OBVIOUS
    <3>2. \E r \in SpareRows(f) : \A q \in SpareRows(f) : r <= q
      BY <2>1, LeastOf
    <3>3. FirstRow(f) \in SpareRows(f)
      BY <3>2 DEF FirstRow
    <3>. QED
      BY <2>1, <3>3
  <2>. DEFINE firsts == {FirstRow(f) : f \in fits}
  <2>3. firsts \subseteq Nat /\ firsts # {}
    BY <1>2, <2>2
  <2>4. PICK n \in firsts : \A m \in firsts : n <= m
    BY <2>3, LeastOf
  <2>5. PICK f \in fits : FirstRow(f) = n
    BY <2>4
  <2>6. \A g \in fits : FirstRow(f) <= FirstRow(g)
    BY <2>4, <2>5
  <2>. HIDE DEF fits
  <2>7. (CHOOSE f1 \in fits : \A g \in fits : FirstRow(f1) <= FirstRow(g)) \in fits
    BY <2>6
  <2>8. SpareFor(x) \in fits
    BY <1>2, <2>7 DEF SpareFor, fits
  <2>. QED
    BY <2>1, <2>8
<1>. QED
  BY <1>1, <1>2

(***************************************************************************)
(* Batteries: the two ways to say which tasks are kept                     *)
(***************************************************************************)
\* In tenths of a percent, comparing the level and comparing what int()
\* leaves of it agree, below zero as well.
LEMMA WholeOfALevel ==
    ASSUME EquipmentConstants, NEW v \in Int
    PROVE  (Whole(v) < 0 \/ Whole(v) < 25) <=> v < 250
<1>0. v # Junk
  BY DEF EquipmentConstants
<1>1. CASE v >= 0
  <2>1. PICK q \in Int : q = v \div 10
    BY <1>1
  <2>2. 10 * q <= v /\ v < 10 * q + 10
    BY <1>1, <2>1
  <2>3. Whole(v) = q
    BY <1>0, <1>1, <2>1 DEF Whole
  <2>. QED
    BY <1>1, <2>2, <2>3
<1>2. CASE v < 0
  <2>1. PICK q \in Int : q = (-v) \div 10
    BY <1>2
  <2>2. 10 * q <= -v /\ -v < 10 * q + 10
    BY <1>2, <2>1
  <2>3. Whole(v) = -q
    BY <1>0, <1>2, <2>1 DEF Whole
  <2>. QED
    BY <1>2, <2>2, <2>3
<1>. QED
  BY <1>1, <1>2

\* Whatever a sensor shows, the plan and the macro keep the same tasks.
LEMMA NeutralByArithmetic ==
    ASSUME EquipmentConstants, EquipmentTypeOK
    PROVE  SwitchIsNeutral
<1>. SUFFICES ASSUME NEW x \in Sensors, sensors[x].shows # NoValue
              PROVE  PlanKeeps(x) = MacroKeeps(x)
  BY DEF SwitchIsNeutral
<1>. DEFINE v == sensors[x].shows
<1>1. v \in Tenths \cup {Offline, NoValue, Junk} /\ v # NoValue /\ Tenths \subseteq Int
  BY DEF EquipmentTypeOK, Sensor, EquipmentConstants
<1>2. CASE sensors[x].excluded
  BY <1>2 DEF PlanKeeps, MacroKeeps
<1>3. CASE ~sensors[x].excluded /\ v = Offline
  <2>1. v \notin Tenths
    BY <1>1, <1>3 DEF EquipmentConstants
  <2>. QED
    BY <1>3, <2>1 DEF PlanKeeps, MacroKeeps
<1>4. CASE ~sensors[x].excluded /\ v = Junk /\ v # Offline
  <2>1. v \notin Tenths
    BY <1>1, <1>4 DEF EquipmentConstants
  <2>2. Whole(v) = -1
    BY <1>4 DEF Whole
  <2>3. PlanKeeps(x) = {"level"}
    BY <1>4, <2>1 DEF PlanKeeps
  <2>4. MacroKeeps(x) = {"level"}
    BY <1>1, <1>4, <2>2 DEF MacroKeeps
  <2>. QED
    BY <2>3, <2>4
<1>5. CASE ~sensors[x].excluded /\ v \in Tenths
  <2>1. v \in Int /\ v # Offline
    BY <1>1, <1>5 DEF EquipmentConstants
  <2>2. (Whole(v) < 0 \/ Whole(v) < 25) <=> v < 250
    BY <2>1, WholeOfALevel
  <2>3. MacroKeeps(x) = IF v < 250 THEN {"level"} ELSE {}
    BY <1>1, <1>5, <2>1, <2>2 DEF MacroKeeps
  <2>4. PlanKeeps(x) = IF v < 250 THEN {"level"} ELSE {}
    <3>1. v >= 250 <=> ~(v < 250)
      BY <2>1
    <3>. QED
      BY <1>5, <2>1, <3>1 DEF PlanKeeps
  <2>. QED
    BY <2>3, <2>4
<1>. QED
  BY <1>1, <1>2, <1>3, <1>4, <1>5

(***************************************************************************)
(* Batteries: the types                                                    *)
(***************************************************************************)
\* Every step keeps the types.
LEMMA EquipmentStepKeepsTypes ==
    ASSUME EquipmentConstants, EquipmentTypeOK, EquipmentNext
    PROVE  EquipmentTypeOK'
<1>0. /\ described \in [BatteryRows -> GrocyRow] /\ sensors \in [Sensors -> Sensor]
      /\ named \subseteq Families \cup {"purifier"}
      /\ spare \in [Families -> SpareRow \cup {Null}]
      /\ batteries \in [Sensors -> EquipmentRow \cup {Null}]
      /\ equipment \in BOOLEAN /\ blocked \in BOOLEAN /\ happened \in Nat
  BY DEF EquipmentTypeOK, SpareRow, EquipmentRow
<1>1. SUFFICES /\ described' \in [BatteryRows -> GrocyRow] /\ sensors' \in [Sensors -> Sensor]
               /\ named' \subseteq Families \cup {"purifier"}
               /\ spare' \in [Families -> SpareRow \cup {Null}]
               /\ batteries' \in [Sensors -> EquipmentRow \cup {Null}]
               /\ equipment' \in BOOLEAN /\ blocked' \in BOOLEAN /\ happened' \in Nat
  BY DEF EquipmentTypeOK, SpareRow, EquipmentRow
<1>2. CASE ImportEquipment
  <2>1. spare' \in [Families -> SpareRow \cup {Null}]
    <3>1. spare' = [f \in Families |->
                     IF f \in Spares \ named /\ spare[f] = Null
                     THEN [left |-> Cardinality(SpareRows(f)), entered |-> 0, used |-> 0]
                     ELSE spare[f]]
      BY <1>2 DEF ImportEquipment
    <3>2. \A f : Cardinality(SpareRows(f)) \in Nat
      <4>1. \A f : IsFiniteSet(SpareRows(f))
        BY FS_Subset DEF SpareRows, EquipmentConstants
      <4>. QED
        BY <4>1, FS_CardinalityType
    <3>3. \A f : [left |-> Cardinality(SpareRows(f)), entered |-> 0, used |-> 0] \in SpareRow
      BY <3>2 DEF SpareRow
    <3>. QED
      BY <1>0, <3>1, <3>3
  <2>2. batteries' \in [Sensors -> EquipmentRow \cup {Null}]
    <3>1. batteries' = [x \in Sensors |->
                       IF x \in NewBatteries
                       THEN [tracked |-> ~sensors[x].excluded, byHand |-> FALSE,
                             spare |-> SpareFor(x)]
                       ELSE batteries[x]]
      BY <1>2 DEF ImportEquipment
    <3>2. \A x \in Sensors : [tracked |-> ~sensors[x].excluded, byHand |-> FALSE,
                              spare |-> SpareFor(x)] \in EquipmentRow
      BY SpareForIsASpare DEF EquipmentRow
    <3>. QED
      BY <1>0, <3>1, <3>2
  <2>. QED
    BY <1>0, <1>2, <2>1, <2>2 DEF ImportEquipment
<1>3. ASSUME NEW x \in Sensors, NEW t \in BOOLEAN, Decide(x, t)
      PROVE  EquipmentTypeOK'
  <2>1. [batteries[x] EXCEPT !.tracked = t, !.byHand = TRUE] \in EquipmentRow
    BY <1>0, <1>3 DEF Decide, EquipmentRow
  <2>2. batteries' = [batteries EXCEPT ![x] = [batteries[x] EXCEPT !.tracked = t, !.byHand = TRUE]]
    BY <1>0, <1>3 DEF Decide, EquipmentRow
  <2>3. batteries' \in [Sensors -> EquipmentRow \cup {Null}]
    BY <1>0, <2>1, <2>2
  <2>4. happened' \in Nat
    BY <1>0, <1>3 DEF Decide, Happens
  <2>. QED
    BY <1>0, <1>3, <2>3, <2>4 DEF Decide, EquipmentTypeOK, SpareRow, EquipmentRow
<1>4. ASSUME NEW x \in Sensors, NEW v \in Tenths \cup {Offline, NoValue, Junk}, Show(x, v)
      PROVE  EquipmentTypeOK'
  <2>1. sensors' = [sensors EXCEPT ![x].shows = v] /\ happened' = happened + 1
        /\ UNCHANGED <<described, named, spare, batteries, equipment, blocked>>
    BY <1>4 DEF Show, Happens
  <2>2. sensors' \in [Sensors -> Sensor] /\ happened' \in Nat
    BY <1>0, <2>1 DEF Sensor
  <2>. QED
    BY <1>0, <2>1, <2>2 DEF EquipmentTypeOK, SpareRow, EquipmentRow
<1>5. ASSUME NEW f \in Families, UseCell(f)
      PROVE  EquipmentTypeOK'
  <2>1. /\ spare[f] # Null /\ spare[f].left > 0 /\ happened' = happened + 1
        /\ spare' = [spare EXCEPT ![f].left = spare[f].left - 1, ![f].used = spare[f].used + 1]
        /\ UNCHANGED <<described, sensors, named, batteries, equipment, blocked>>
    BY <1>5 DEF UseCell, Happens
  <2>2. spare[f] \in SpareRow
    BY <1>0, <2>1
  <2>3. spare[f].left - 1 \in Nat /\ spare[f].used + 1 \in Nat
    BY <2>1, <2>2 DEF SpareRow
  <2>4. [spare[f] EXCEPT !.left = spare[f].left - 1, !.used = spare[f].used + 1] \in SpareRow
    BY <2>2, <2>3 DEF SpareRow
  <2>5. spare' = [spare EXCEPT ![f] =
            [spare[f] EXCEPT !.left = spare[f].left - 1, !.used = spare[f].used + 1]]
    BY <1>0, <2>1, <2>2 DEF SpareRow
  <2>6. spare' \in [Families -> SpareRow \cup {Null}] /\ happened' \in Nat
    BY <1>0, <2>1, <2>4, <2>5
  <2>. QED
    BY <1>0, <2>1, <2>6 DEF EquipmentTypeOK, SpareRow, EquipmentRow
<1>6. ASSUME NEW n \in Families \cup {"purifier"}, NameByHand(n)
      PROVE  EquipmentTypeOK'
  <2>1. named' = named \cup {n} /\ happened' = happened + 1
        /\ UNCHANGED <<described, sensors, spare, batteries, equipment, blocked>>
    BY <1>6 DEF NameByHand, Happens
  <2>2. named' \subseteq Families \cup {"purifier"} /\ happened' \in Nat
    BY <1>0, <2>1
  <2>. QED
    BY <1>0, <2>1, <2>2 DEF EquipmentTypeOK, SpareRow, EquipmentRow
<1>. QED
  BY <1>2, <1>3, <1>4, <1>5, <1>6 DEF EquipmentNext, EquipmentTypeOK, SpareRow, EquipmentRow

\* The types hold in every state.
LEMMA EquipmentTypes ==
    ASSUME EquipmentConstants
    PROVE  EquipmentSpec => []EquipmentTypeOK
<1>1. EquipmentInit => EquipmentTypeOK
  <2>. SUFFICES ASSUME EquipmentInit PROVE EquipmentTypeOK
    OBVIOUS
  <2>1. spare \in [Families -> [left : Nat, entered : Nat, used : Nat] \cup {Null}]
    BY DEF EquipmentInit
  <2>2. batteries \in [Sensors -> [tracked : BOOLEAN, byHand : BOOLEAN,
                                 spare : Families \cup {Null}] \cup {Null}]
    BY DEF EquipmentInit
  <2>3. /\ described \in [BatteryRows -> GrocyRow] /\ sensors \in [Sensors -> Sensor]
        /\ named \subseteq Families \cup {"purifier"}
        /\ equipment \in BOOLEAN /\ blocked \in BOOLEAN /\ happened \in Nat
    BY DEF EquipmentInit
  <2>. QED
    BY <2>1, <2>2, <2>3 DEF EquipmentTypeOK
<1>2. EquipmentTypeOK /\ [EquipmentNext]_equipmentVars => EquipmentTypeOK'
  <2>1. EquipmentTypeOK /\ UNCHANGED equipmentVars => EquipmentTypeOK'
    BY DEF equipmentVars, EquipmentTypeOK
  <2>. QED
    BY <2>1, EquipmentStepKeepsTypes
<1>. QED
  BY <1>1, <1>2, PTL DEF EquipmentSpec

(* Whatever the sensors show and Grocy holds, the first synchronisation    *)
(* after the switch from the macro to the plan opens and closes nothing    *)
(* (import_grocy_equipment.py, domain/maintenance.py).                     *)
THEOREM EquipmentImportIsSound ==
    ASSUME EquipmentConstants
    PROVE  EquipmentSpec => []EquipmentImportSound
<1>1. EquipmentTypeOK => EquipmentImportSound
  BY NeutralByArithmetic DEF EquipmentImportSound
<1>. QED
  BY <1>1, EquipmentTypes, PTL

(* What a hand decided of a battery outlives every replay of the import    *)
(* (import_grocy_equipment.py).                                            *)
THEOREM WhatIsDecidedStays ==
    ASSUME EquipmentAssumptions
    PROVE  EquipmentSpec => DecidedStays
<1>1. EquipmentTypeOK /\ [EquipmentNext]_equipmentVars => [DecidedStaysStep]_equipmentVars
  <2>. SUFFICES ASSUME EquipmentTypeOK, EquipmentNext, NEW x \in Sensors,
                       batteries[x] # Null, batteries[x].byHand
                PROVE  batteries'[x] # Null /\ batteries'[x].byHand
    BY DEF DecidedStaysStep
  <2>0. batteries \in [Sensors -> EquipmentRow \cup {Null}]
    BY DEF EquipmentTypeOK, EquipmentRow
  <2>1. CASE ImportEquipment
    BY <2>1 DEF ImportEquipment, NewBatteries
  <2>2. ASSUME NEW y \in Sensors, NEW t \in BOOLEAN, Decide(y, t)
        PROVE  batteries'[x] # Null /\ batteries'[x].byHand
    <3>. DEFINE row == [batteries[y] EXCEPT !.tracked = t, !.byHand = TRUE]
    <3>1. batteries[y] \in EquipmentRow
      BY <2>0, <2>2 DEF Decide
    <3>2. row \in EquipmentRow /\ row.byHand
      BY <3>1 DEF EquipmentRow
    <3>3. row # Null
      BY <3>2 DEF EquipmentAssumptions, EquipmentRow
    <3>4. batteries' = [batteries EXCEPT ![y] = row]
      BY <2>2 DEF Decide
    <3>. HIDE DEF row
    <3>5. \/ batteries'[x] = row
          \/ batteries'[x] = batteries[x]
      BY <2>0, <3>4
    <3>. QED
      BY <3>2, <3>3, <3>5
  <2>3. /\ \A y, v : Show(y, v) => batteries' = batteries
        /\ \A f : UseCell(f) => batteries' = batteries
        /\ \A n : NameByHand(n) => batteries' = batteries
    BY DEF Show, UseCell, NameByHand
  <2>. QED
    BY <2>1, <2>2, <2>3 DEF EquipmentNext
<1>. QED
  BY <1>1, EquipmentTypes, PTL DEF EquipmentSpec, DecidedStays, EquipmentAssumptions

(***************************************************************************)
(* Stock of Grocy.  What was eaten is told from what was never moved by    *)
(* the row the import wrote when a batch entered (`purchased`); the check      *)
(* compares sums, and sums that agree while no term exceeds its own entry  *)
(* agree term by term (`SumTight`).                                        *)
(***************************************************************************)
\* The rows of batches and of the list, and a copy.
GrocyBatch == [left : Nat, best : {"dated", "soon", Null}, priced : BOOLEAN]
GrocyItem  == [open : BOOLEAN, quantity : Nat \cup {Null}]
GrocyCopy  == [grocy : Grocy, at : Nat]

\* What the constants are, and that Null is no number, no unit and no row.
StockAssumptions ==
    /\ GrocyConstants
    /\ Null \notin Nat \cup {"g", "ml", "piece"}
    /\ Null \notin GrocyBatch \cup GrocyItem \cup GrocyCopy

\* A product is made of one Grocy counts in a unit the house has.
KnownAreUsable == \A p \in Known : StockUnit[p] \in DOMAIN UnitTable

\* A batch is of a product, and what leaves leaves a batch.
BatchesHaveTheirProduct ==
    \A s \in GRows : /\ batches[s] # Null => productUnit[ProductOf[s]] # Null
                     /\ batches[s] = Null => eaten[s] = 0

StockInv == GrocyTypeOK /\ KnownAreUsable /\ BatchesHaveTheirProduct /\ EatenStaysEaten

\* What concerns neither products nor batches leaves what binds them.
LEMMA BindingStays ==
    ASSUME StockInv, UNCHANGED <<productUnit, batches, purchased, eaten>>
    PROVE  KnownAreUsable' /\ BatchesHaveTheirProduct' /\ EatenStaysEaten'
BY DEF StockInv, KnownAreUsable, Known, BatchesHaveTheirProduct, EatenStaysEaten

\* Grocy lives, an hour passes, a copy is taken.
LEMMA GrocyKeeps ==
    ASSUME StockAssumptions, StockInv,
           \/ Hour \/ TakeCopy
           \/ \E p \in GProducts : GrocyNewProduct(p) \/ GrocyLists(p)
           \/ \E s \in GRows : \E a \in GAmounts : GrocyBuys(s, a)
           \/ \E s \in GRows : \E left \in GAmounts \cup {Null} : GrocyUses(s, left)
    PROVE  StockInv'
<1>0. /\ live \in Grocy /\ hours \in 0..MaxHours /\ MaxHours \in Nat
      /\ copy \in GrocyCopy \cup {Null}
      /\ hours \in Nat
  BY DEF StockInv, GrocyTypeOK, StockAssumptions, GrocyConstants, GrocyCopy
<1>. SUFFICES /\ live' \in Grocy /\ copy' \in GrocyCopy \cup {Null} /\ hours' \in 0..MaxHours
              /\ UNCHANGED <<homeVars, gestures>>
  BY BindingStays DEF homeVars, StockInv, GrocyTypeOK, GrocyCopy
<1>1. ASSUME NEW new \in Grocy, GrocyChanges(new)
      PROVE  /\ live' \in Grocy /\ copy' = copy /\ hours' = hours
             /\ UNCHANGED <<homeVars, gestures>>
  <2>1. live' = [new EXCEPT !.writes = live.writes + 1] /\ live.writes \in Nat
    BY <1>0, <1>1 DEF GrocyChanges, Grocy
  <2>2. live' \in Grocy
    BY <2>1 DEF Grocy
  <2>. QED
    BY <1>1, <2>2 DEF GrocyChanges
<1>2. CASE Hour \/ TakeCopy
  BY <1>0, <1>2 DEF Hour, TakeCopy, GrocyCopy
<1>3. ASSUME NEW p \in GProducts, GrocyNewProduct(p)
      PROVE  live' \in Grocy /\ copy' = copy /\ hours' = hours /\ UNCHANGED <<homeVars, gestures>>
  <2>. DEFINE new == [live EXCEPT !.products = @ \cup {p}, !.created = hours]
  <2>1. new \in Grocy
    BY <1>0 DEF Grocy
  <2>. QED
    BY <1>1, <1>3, <2>1 DEF GrocyNewProduct
<1>4. ASSUME NEW p \in GProducts, GrocyLists(p)
      PROVE  live' \in Grocy /\ copy' = copy /\ hours' = hours /\ UNCHANGED <<homeVars, gestures>>
  <2>. DEFINE new == [live EXCEPT !.listed = @ \cup {p}]
  <2>1. new \in Grocy
    BY <1>0 DEF Grocy
  <2>. QED
    BY <1>1, <1>4, <2>1 DEF GrocyLists
<1>5. ASSUME NEW s \in GRows, NEW a \in GAmounts, GrocyBuys(s, a)
      PROVE  live' \in Grocy /\ copy' = copy /\ hours' = hours /\ UNCHANGED <<homeVars, gestures>>
  <2>. DEFINE new == [live EXCEPT !.rows[s] = a, !.created = hours]
  <2>1. new \in Grocy
    BY <1>0 DEF Grocy
  <2>. QED
    BY <1>1, <1>5, <2>1 DEF GrocyBuys
<1>6. ASSUME NEW s \in GRows, NEW left \in GAmounts \cup {Null}, GrocyUses(s, left)
      PROVE  live' \in Grocy /\ copy' = copy /\ hours' = hours /\ UNCHANGED <<homeVars, gestures>>
  <2>. DEFINE new == [live EXCEPT !.rows[s] = left]
  <2>1. new \in Grocy
    BY <1>0 DEF Grocy
  <2>. QED
    BY <1>1, <1>6, <2>1 DEF GrocyUses
<1>. QED
  BY <1>0, <1>2, <1>3, <1>4, <1>5, <1>6

\* A replay of the catalogue adds products, and barcodes nobody has.
LEMMA ImportCatalogKeeps ==
    ASSUME StockAssumptions, StockInv, ImportCatalog
    PROVE  StockInv'
<1>1. /\ productUnit \in [GProducts -> {"g", "ml", "piece", Null}]
      /\ code \in [GProducts -> {Null, "own", "other"}]
      /\ productUnit' = [p \in GProducts |-> IF p \in NewProducts THEN BaseUnit(StockUnit[p])
                                                              ELSE productUnit[p]]
      /\ code' = [p \in GProducts |->
                    IF p \in (Known \cup NewProducts) \cap Coded /\ code[p] = Null
                    THEN "own" ELSE code[p]]
      /\ UNCHANGED <<grocyVars, taken, packaging, batches, purchased, eaten, item, fridge, gestures>>
  BY DEF ImportCatalog, StockInv, GrocyTypeOK
<1>2. \A p \in NewProducts : /\ p \notin Known /\ StockUnit[p] \in DOMAIN UnitTable
                             /\ BaseUnit(StockUnit[p]) \in {"g", "ml", "piece"}
  BY DEF NewProducts, Usable, BaseUnit, StockAssumptions, GrocyConstants
<1>3. productUnit' \in [GProducts -> {"g", "ml", "piece", Null}]
  BY <1>1, <1>2
<1>4. code' \in [GProducts -> {Null, "own", "other"}]
  BY <1>1
<1>5. GrocyTypeOK'
  BY <1>1, <1>3, <1>4 DEF StockInv, GrocyTypeOK, grocyVars
<1>6. KnownAreUsable'
  BY <1>1, <1>2 DEF StockInv, KnownAreUsable, Known
<1>7. \A p \in GProducts : productUnit[p] # Null => productUnit'[p] # Null
  BY <1>1, <1>2 DEF Known
<1>8. BatchesHaveTheirProduct'
  <2>1. \A s \in GRows : ProductOf[s] \in GProducts
    BY DEF StockAssumptions, GrocyConstants
  <2>. QED
    BY <1>1, <1>7, <2>1 DEF StockInv, BatchesHaveTheirProduct
<1>9. EatenStaysEaten'
  BY <1>1 DEF StockInv, EatenStaysEaten
<1>. QED
  BY <1>5, <1>6, <1>8, <1>9 DEF StockInv

\* A row that enters is whole, and of a product.
LEMMA EnteredRow ==
    ASSUME StockAssumptions, StockInv, ImportStock, NEW s \in Entered
    PROVE  /\ s \in GRows /\ batches[s] = Null /\ BatchFrom(s) \in GrocyBatch
           /\ productUnit[ProductOf[s]] # Null
<1>1. /\ s \in GRows /\ copy # Null /\ copy.grocy.rows[s] # Null /\ batches[s] = Null
      /\ ProductOf[s] \in Known
  BY DEF Entered, CopiedRows, ImportStock
<1>2. copy.grocy.rows[s] \in Nat
  <2>1. copy \in GrocyCopy
    BY <1>1 DEF StockInv, GrocyTypeOK, GrocyCopy
  <2>2. copy.grocy.rows[s] \in GAmounts
    BY <1>1, <2>1 DEF GrocyCopy, Grocy
  <2>. QED
    BY <2>2 DEF StockAssumptions, GrocyConstants
<1>3. UnitTable[StockUnit[ProductOf[s]]].factor \in Nat
  BY <1>1 DEF StockInv, KnownAreUsable, StockAssumptions, GrocyConstants
<1>4. Quantity(ProductOf[s], copy.grocy.rows[s]) \in Nat
  BY <1>2, <1>3 DEF Quantity
<1>5. BatchFrom(s) \in GrocyBatch
  BY <1>4 DEF BatchFrom, GrocyBatch
<1>. QED
  BY <1>1, <1>5 DEF Known

\* A replay of the stock enters the rows no batch has, and rewrites none.
LEMMA ImportStockKeeps ==
    ASSUME StockAssumptions, StockInv, ImportStock
    PROVE  StockInv'
<1>1. /\ batches \in [GRows -> GrocyBatch \cup {Null}] /\ purchased \in [GRows -> Nat \cup {Null}]
      /\ packaging \in [GProducts -> {Null, "grocy", "off"}]
      /\ item \in [GProducts -> GrocyItem \cup {Null}] /\ eaten \in [GRows -> Nat]
      /\ batches' = [s \in GRows |-> IF s \in Entered THEN BatchFrom(s) ELSE batches[s]]
      /\ purchased' = [s \in GRows |-> IF s \in Entered THEN BatchFrom(s).left ELSE purchased[s]]
      /\ fridge' = TRUE
      /\ packaging' = [p \in GProducts |-> IF p \in Packed \cap Known /\ packaging[p] = Null
                                           THEN "grocy" ELSE packaging[p]]
      /\ item' = [p \in GProducts |-> IF p \in ListedNow
                                      THEN [open |-> TRUE, quantity |-> ListedQuantity(p)]
                                      ELSE item[p]]
      /\ UNCHANGED <<grocyVars, productUnit, taken, code, eaten, gestures>>
  BY DEF ImportStock, StockInv, GrocyTypeOK, GrocyBatch, GrocyItem
<1>2. \A s \in Entered : /\ BatchFrom(s) \in GrocyBatch /\ batches[s] = Null
                         /\ productUnit[ProductOf[s]] # Null
  BY EnteredRow
<1>3. \A s \in Entered : BatchFrom(s).left \in Nat
  BY <1>2 DEF GrocyBatch
<1>4. \A s \in Entered : BatchFrom(s) # Null /\ BatchFrom(s).left # Null
  BY <1>2, <1>3 DEF StockAssumptions
<1>5. batches' \in [GRows -> GrocyBatch \cup {Null}] /\ purchased' \in [GRows -> Nat \cup {Null}]
  BY <1>1, <1>2, <1>3
<1>6. packaging' \in [GProducts -> {Null, "grocy", "off"}]
  BY <1>1
<1>7. item' \in [GProducts -> GrocyItem \cup {Null}]
  <2>1. \A p \in GProducts : ListedQuantity(p) \in Nat \cup {Null}
    BY DEF ListedQuantity, StockAssumptions, GrocyConstants
  <2>. QED
    BY <1>1, <2>1 DEF GrocyItem
<1>8. GrocyTypeOK'
  <2>1. fridge' \in BOOLEAN
    BY <1>1
  <2>. QED
    BY <1>1, <1>5, <1>6, <1>7, <2>1
       DEF StockInv, GrocyTypeOK, GrocyBatch, GrocyItem, grocyVars
<1>9. KnownAreUsable'
  BY <1>1 DEF StockInv, KnownAreUsable, Known
<1>10. BatchesHaveTheirProduct'
  BY <1>1, <1>2, <1>4 DEF StockInv, BatchesHaveTheirProduct
<1>11. EatenStaysEaten'
  <2>1. SUFFICES ASSUME NEW s \in GRows
                 PROVE  /\ batches'[s] = Null <=> purchased'[s] = Null
                        /\ batches'[s] # Null => batches'[s].left = purchased'[s] - eaten'[s]
    BY DEF EatenStaysEaten
  <2>2. CASE s \in Entered
    <3>1. /\ batches'[s] = BatchFrom(s) /\ purchased'[s] = BatchFrom(s).left /\ eaten'[s] = eaten[s]
      BY <1>1, <2>2
    <3>2. eaten[s] = 0
      BY <1>2, <2>2 DEF StockInv, BatchesHaveTheirProduct
    <3>. QED
      BY <1>3, <1>4, <2>2, <3>1, <3>2
  <2>3. CASE s \notin Entered
    BY <1>1, <2>3 DEF StockInv, EatenStaysEaten
  <2>. QED
    BY <2>2, <2>3
<1>. QED
  BY <1>8, <1>9, <1>10, <1>11 DEF StockInv

\* A batch is eaten from or opened.
LEMMA EatKeeps ==
    ASSUME StockAssumptions, StockInv, NEW s \in GRows, Eat(s) \/ OpenPack(s)
    PROVE  StockInv'
<1>1. /\ batches \in [GRows -> GrocyBatch \cup {Null}] /\ batches[s] # Null /\ batches[s].left > 0
      /\ purchased \in [GRows -> Nat \cup {Null}] /\ eaten \in [GRows -> Nat] /\ gestures \in Nat
      /\ UNCHANGED <<grocyVars, productUnit, taken, code, packaging, purchased, item, fridge>>
      /\ gestures' = gestures + 1
  BY DEF Eat, OpenPack, Gesture, StockInv, GrocyTypeOK, GrocyBatch
<1>2. batches[s] \in GrocyBatch
  BY <1>1
<1>3. purchased[s] # Null /\ batches[s].left = purchased[s] - eaten[s]
  BY <1>1 DEF StockInv, EatenStaysEaten
<1>4. KnownAreUsable'
  BY <1>1 DEF StockInv, KnownAreUsable, Known
<1>5. CASE Eat(s)
  <2>. DEFINE row == [batches[s] EXCEPT !.left = @ - 1]
  <2>1. batches' = [batches EXCEPT ![s] = row] /\ eaten' = [eaten EXCEPT ![s] = @ + 1]
    BY <1>5 DEF Eat
  <2>2. row \in GrocyBatch /\ row.left = batches[s].left - 1
    BY <1>1, <1>2 DEF GrocyBatch
  <2>3. row # Null
    BY <2>2 DEF StockAssumptions
  <2>. HIDE DEF row
  <2>4. batches' \in [GRows -> GrocyBatch \cup {Null}] /\ eaten' \in [GRows -> Nat]
    BY <1>1, <2>1, <2>2
  <2>5. batches'[s] = row /\ eaten'[s] = eaten[s] + 1
        /\ \A t \in GRows \ {s} : batches'[t] = batches[t] /\ eaten'[t] = eaten[t]
    BY <1>1, <2>1
  <2>6. BatchesHaveTheirProduct'
    BY <1>1, <2>3, <2>5 DEF StockInv, BatchesHaveTheirProduct
  <2>7. row.left = purchased[s] - (eaten[s] + 1)
    BY <1>1, <1>3, <2>2
  <2>8. EatenStaysEaten'
    BY <1>1, <1>3, <2>3, <2>5, <2>7 DEF StockInv, EatenStaysEaten
  <2>. QED
    BY <1>1, <1>4, <2>4, <2>6, <2>8 DEF StockInv, GrocyTypeOK, GrocyBatch, grocyVars
<1>6. CASE OpenPack(s)
  <2>. DEFINE row == [batches[s] EXCEPT !.best = "soon"]
  <2>1. batches' = [batches EXCEPT ![s] = row] /\ eaten' = eaten
    BY <1>6 DEF OpenPack
  <2>2. row \in GrocyBatch /\ row.left = batches[s].left
    BY <1>1, <1>2 DEF GrocyBatch
  <2>3. row # Null
    BY <2>2 DEF StockAssumptions
  <2>. HIDE DEF row
  <2>4. batches' \in [GRows -> GrocyBatch \cup {Null}]
    BY <1>1, <2>1, <2>2
  <2>5. batches'[s] = row /\ \A t \in GRows \ {s} : batches'[t] = batches[t]
    BY <1>1, <2>1
  <2>6. BatchesHaveTheirProduct'
    BY <1>1, <2>1, <2>3, <2>5 DEF StockInv, BatchesHaveTheirProduct
  <2>7. EatenStaysEaten'
    BY <1>1, <1>3, <2>1, <2>2, <2>3, <2>5 DEF StockInv, EatenStaysEaten
  <2>. QED
    BY <1>1, <1>4, <2>1, <2>4, <2>6, <2>7 DEF StockInv, GrocyTypeOK, GrocyBatch, grocyVars
<1>. QED
  BY <1>5, <1>6

\* What entered, what left and what is there are restated by one factor.
LEMMA ConvertToGramsKeeps ==
    ASSUME StockAssumptions, StockInv, NEW p \in GProducts, ConvertToGrams(p)
    PROVE  StockInv'
<1>. DEFINE times(f) == [s \in GRows |-> IF ProductOf[s] = p /\ f[s] # Null
                                         THEN f[s] * Weight ELSE f[s]]
<1>1. /\ batches \in [GRows -> GrocyBatch \cup {Null}] /\ purchased \in [GRows -> Nat \cup {Null}]
      /\ eaten \in [GRows -> Nat] /\ Weight \in Nat /\ gestures \in Nat
      /\ productUnit \in [GProducts -> {"g", "ml", "piece", Null}] /\ productUnit[p] = "piece"
      /\ purchased' = times(purchased) /\ eaten' = times(eaten)
      /\ productUnit' = [productUnit EXCEPT ![p] = "g"]
      /\ batches' = [s \in GRows |-> IF ProductOf[s] = p /\ batches[s] # Null
                                   THEN [batches[s] EXCEPT !.left = @ * Weight] ELSE batches[s]]
      /\ UNCHANGED <<grocyVars, taken, code, packaging, item, fridge>>
      /\ gestures' = gestures + 1
  BY DEF ConvertToGrams, Gesture, StockInv, GrocyTypeOK, GrocyBatch, StockAssumptions,
         GrocyConstants
<1>2. \A m \in Nat : m * Weight \in Nat
  BY <1>1
<1>3. \A s \in GRows : batches[s] # Null =>
         /\ [batches[s] EXCEPT !.left = @ * Weight] \in GrocyBatch
         /\ [batches[s] EXCEPT !.left = @ * Weight].left = batches[s].left * Weight
  BY <1>1, <1>2 DEF GrocyBatch
<1>4. batches' \in [GRows -> GrocyBatch \cup {Null}]
  BY <1>1, <1>3
<1>5. purchased' \in [GRows -> Nat \cup {Null}] /\ eaten' \in [GRows -> Nat]
  BY <1>1, <1>2
<1>6. \A s \in GRows : /\ batches'[s] = Null <=> batches[s] = Null
                       /\ batches[s] # Null => batches'[s].left = IF ProductOf[s] = p
                                              THEN batches[s].left * Weight ELSE batches[s].left
  BY <1>1, <1>3 DEF StockAssumptions
<1>7. \A s \in GRows :
         /\ purchased'[s] = Null <=> purchased[s] = Null
         /\ purchased[s] # Null => purchased'[s] = IF ProductOf[s] = p THEN purchased[s] * Weight
                                                               ELSE purchased[s]
         /\ eaten'[s] = IF ProductOf[s] = p THEN eaten[s] * Weight ELSE eaten[s]
  <2>1. \A m \in Nat : m # Null
    BY DEF StockAssumptions
  <2>. QED
    BY <1>1, <1>2, <2>1
<1>8. KnownAreUsable' /\ productUnit' \in [GProducts -> {"g", "ml", "piece", Null}]
  BY <1>1 DEF StockInv, KnownAreUsable, Known, StockAssumptions
<1>9. BatchesHaveTheirProduct'
  <2>1. \A s \in GRows : ProductOf[s] \in GProducts
    BY DEF StockAssumptions, GrocyConstants
  <2>2. \A q \in GProducts : productUnit[q] # Null => productUnit'[q] # Null
    BY <1>1 DEF StockAssumptions
  <2>3. 0 * Weight = 0
    BY <1>1
  <2>. QED
    BY <1>6, <1>7, <2>1, <2>2, <2>3 DEF StockInv, BatchesHaveTheirProduct
<1>10. EatenStaysEaten'
  <2>1. \A m, n \in Nat : (m - n) * Weight = m * Weight - n * Weight
    BY <1>1
  <2>2. SUFFICES ASSUME NEW s \in GRows
                 PROVE  /\ batches'[s] = Null <=> purchased'[s] = Null
                        /\ batches'[s] # Null => batches'[s].left = purchased'[s] - eaten'[s]
    BY DEF EatenStaysEaten
  <2>3. batches[s] = Null <=> purchased[s] = Null
    BY DEF StockInv, EatenStaysEaten
  <2>4. ASSUME batches[s] # Null
        PROVE  batches'[s].left = purchased'[s] - eaten'[s]
    <3>1. /\ batches[s].left = purchased[s] - eaten[s] /\ purchased[s] # Null
          /\ purchased[s] \in Nat /\ eaten[s] \in Nat
      BY <1>1, <2>3, <2>4 DEF StockInv, EatenStaysEaten
    <3>2. batches[s].left * Weight = purchased[s] * Weight - eaten[s] * Weight
      BY <2>1, <3>1
    <3>. QED
      BY <1>6, <1>7, <2>4, <3>1, <3>2
  <2>. QED
    BY <1>6, <1>7, <2>3, <2>4
<1>. QED
  BY <1>1, <1>4, <1>5, <1>8, <1>9, <1>10 DEF StockInv, GrocyTypeOK, GrocyBatch, grocyVars

\* Products made, erased and packed by hand, lines of the list ticked.
LEMMA HomeKeeps ==
    ASSUME StockAssumptions, StockInv, NEW p \in GProducts,
           MakeByHand(p) \/ DropProduct(p) \/ PackFromOff(p) \/ TickItem(p)
    PROVE  StockInv'
<1>1. /\ productUnit \in [GProducts -> {"g", "ml", "piece", Null}]
      /\ taken \subseteq GProducts /\ code \in [GProducts -> {Null, "own", "other"}]
      /\ packaging \in [GProducts -> {Null, "grocy", "off"}]
      /\ item \in [GProducts -> GrocyItem \cup {Null}] /\ gestures \in Nat
      /\ UNCHANGED <<grocyVars, batches, purchased, eaten, fridge>> /\ gestures' = gestures + 1
  BY DEF MakeByHand, DropProduct, PackFromOff, TickItem, Gesture, StockInv, GrocyTypeOK,
         GrocyItem
<1>2. /\ productUnit' \in [GProducts -> {"g", "ml", "piece", Null}]
      /\ taken' \subseteq GProducts
  BY <1>1 DEF MakeByHand, DropProduct, PackFromOff, TickItem
<1>3. /\ code' \in [GProducts -> {Null, "own", "other"}]
      /\ packaging' \in [GProducts -> {Null, "grocy", "off"}]
  BY <1>1 DEF MakeByHand, DropProduct, PackFromOff, TickItem
<1>4. item' \in [GProducts -> GrocyItem \cup {Null}]
  <2>1. CASE item' = item
    BY <1>1, <2>1
  <2>2. CASE TickItem(p)
    <3>1. item[p] \in GrocyItem /\ item' = [item EXCEPT ![p] = [item[p] EXCEPT !.open = FALSE]]
      BY <1>1, <2>2 DEF TickItem
    <3>2. [item[p] EXCEPT !.open = FALSE] \in GrocyItem
      BY <3>1 DEF GrocyItem
    <3>. QED
      BY <1>1, <3>1, <3>2
  <2>. QED
    BY <2>1, <2>2 DEF MakeByHand, DropProduct, PackFromOff
<1>5. GrocyTypeOK'
  BY <1>1, <1>2, <1>3, <1>4 DEF StockInv, GrocyTypeOK, GrocyItem, grocyVars
<1>6. CASE productUnit' = productUnit
  BY <1>1, <1>5, <1>6, BindingStays DEF StockInv
<1>7. CASE DropProduct(p)
  <2>1. /\ productUnit' = [productUnit EXCEPT ![p] = Null]
        /\ \A s \in GRows : ProductOf[s] = p => purchased[s] = Null
    BY <1>7 DEF DropProduct
  <2>2. KnownAreUsable'
    BY <1>1, <2>1 DEF StockInv, KnownAreUsable, Known
  <2>3. \A s \in GRows : batches[s] # Null => ProductOf[s] # p
    BY <2>1 DEF StockInv, EatenStaysEaten
  <2>4. BatchesHaveTheirProduct'
    BY <1>1, <2>1, <2>3 DEF StockInv, BatchesHaveTheirProduct
  <2>5. EatenStaysEaten'
    BY <1>1 DEF StockInv, EatenStaysEaten
  <2>. QED
    BY <1>5, <2>2, <2>4, <2>5 DEF StockInv
<1>. QED
  BY <1>6, <1>7 DEF MakeByHand, PackFromOff, TickItem

\* The inductive invariant holds in every state.
LEMMA StockInvariant ==
    ASSUME StockAssumptions
    PROVE  GrocySpec => []StockInv
<1>1. GrocyInit => StockInv
  <2>. SUFFICES ASSUME GrocyInit PROVE StockInv
    OBVIOUS
  <2>1. live \in Grocy
    BY DEF GrocyInit, Grocy
  <2>2. hours \in 0..MaxHours
    BY DEF GrocyInit, StockAssumptions, GrocyConstants
  <2>3. GrocyTypeOK
    BY <2>1, <2>2 DEF GrocyInit, GrocyTypeOK
  <2>. QED
    BY <2>3 DEF StockInv, GrocyInit, KnownAreUsable, Known, BatchesHaveTheirProduct,
       EatenStaysEaten
<1>2. StockInv /\ [GrocyNext]_stockVars => StockInv'
  <2>. SUFFICES ASSUME StockInv, [GrocyNext]_stockVars PROVE StockInv'
    OBVIOUS
  <2>1. CASE UNCHANGED stockVars
    BY <2>1, BindingStays DEF stockVars, grocyVars, homeVars, StockInv, GrocyTypeOK
  <2>2. CASE GrocyNext
    BY <2>2, GrocyKeeps, ImportCatalogKeeps, ImportStockKeeps, EatKeeps, ConvertToGramsKeeps,
       HomeKeeps DEF GrocyNext
  <2>. QED
    BY <2>1, <2>2
<1>. QED
  BY <1>1, <1>2, PTL DEF GrocySpec

\* No gap between the rows of the copy and those of the house: they are the same.
LEMMA NoGapNoStray ==
    ASSUME StockAssumptions, RowsGap = 0
    PROVE  Present = CopiedRows
<1>. DEFINE apart == Distance(Cardinality(CopiedRows), Cardinality(Present))
            unpaired == Cardinality(Missing \cup Stray)
<1>1. IsFiniteSet(GRows)
  BY DEF StockAssumptions, GrocyConstants
<1>2. CopiedRows \subseteq GRows /\ Present \subseteq GRows
  BY DEF CopiedRows, Present
<1>3. IsFiniteSet(CopiedRows) /\ IsFiniteSet(Present) /\ IsFiniteSet(Missing \cup Stray)
  <2>1. Missing \cup Stray \subseteq GRows
    BY <1>2 DEF Missing, Stray
  <2>. QED
    BY <1>1, <1>2, <2>1, FS_Subset
<1>4. Cardinality(CopiedRows) \in Nat /\ Cardinality(Present) \in Nat /\ unpaired \in Nat
  BY <1>3, FS_CardinalityType
<1>5. apart \in Nat
  BY <1>4 DEF Distance
<1>6. RowsGap = apart + unpaired - IF apart # 0 THEN unpaired ELSE 0
  BY DEF RowsGap
<1>. HIDE DEF apart
<1>7. unpaired = 0
  <2>. HIDE DEF unpaired
  <2>. QED
    BY <1>4, <1>5, <1>6
<1>8. Missing \cup Stray = {}
  BY <1>3, <1>7, FS_EmptySet
<1>. QED
  BY <1>8 DEF Missing, Stray

\* Green checks, in a state the invariant describes.
LEMMA GreenIsMoved ==
    ASSUME StockAssumptions, StockInv
    PROVE  GreenMeansMoved
<1>. SUFFICES ASSUME Green(GRows)
              PROVE  /\ CopiedRows # {} /\ Present = CopiedRows
                     /\ \A s \in Present :
                           /\ batches[s].left = Quantity(ProductOf[s], copy.grocy.rows[s])
                           /\ purchased[s] = batches[s].left /\ eaten[s] = 0
  BY DEF GreenMeansMoved
<1>1. CopiedRows # {} /\ Present = CopiedRows
  BY NoGapNoStray DEF Green, C1
<1>2. \A s \in Present : batches[s].left = Quantity(ProductOf[s], copy.grocy.rows[s])
  BY <1>1 DEF Green, C2, Both
<1>3. SUFFICES ASSUME NEW s \in Present
               PROVE  purchased[s] = batches[s].left /\ eaten[s] = 0
  BY <1>1, <1>2
<1>. DEFINE its     == {t \in GRows : ProductOf[t] = ProductOf[s]}
            entered == [t \in its |-> IF purchased[t] = Null THEN 0 ELSE purchased[t]]
            left    == [t \in its |-> IF batches[t] = Null THEN 0 ELSE batches[t].left]
<1>4. /\ s \in GRows /\ batches[s] # Null /\ ProductOf[s] \in GProducts
      /\ batches \in [GRows -> GrocyBatch \cup {Null}] /\ purchased \in [GRows -> Nat \cup {Null}]
      /\ eaten \in [GRows -> Nat]
  BY <1>3 DEF Present, StockInv, GrocyTypeOK, GrocyBatch, StockAssumptions, GrocyConstants
<1>5. ProductOf[s] \in Known
  BY <1>4 DEF StockInv, BatchesHaveTheirProduct, Known
<1>6. SumFunction(entered) = SumFunction(left)
  BY <1>5 DEF Green, C5
<1>7. IsFiniteSet(its)
  BY FS_Subset DEF StockAssumptions, GrocyConstants
<1>8. \A t \in its : left[t] \in Int /\ entered[t] \in Int /\ left[t] <= entered[t]
  <2>1. SUFFICES ASSUME NEW t \in its
                 PROVE  left[t] \in Int /\ entered[t] \in Int /\ left[t] <= entered[t]
    OBVIOUS
  <2>2. t \in GRows /\ (batches[t] = Null <=> purchased[t] = Null)
    BY DEF StockInv, EatenStaysEaten
  <2>3. CASE batches[t] = Null
    BY <2>2, <2>3
  <2>4. CASE batches[t] # Null
    <3>1. batches[t].left = purchased[t] - eaten[t] /\ purchased[t] \in Nat /\ eaten[t] \in Nat
      BY <1>4, <2>2, <2>4 DEF StockInv, EatenStaysEaten
    <3>2. left[t] = batches[t].left /\ entered[t] = purchased[t]
      BY <2>2, <2>4
    <3>. QED
      BY <3>1, <3>2
  <2>. QED
    BY <2>3, <2>4
<1>9. Summable(left, its) /\ Summable(entered, its)
  BY <1>7, <1>8 DEF Summable
<1>10. s \in its /\ left[s] = batches[s].left /\ entered[s] = purchased[s]
       /\ batches[s].left = purchased[s] - eaten[s] /\ purchased[s] \in Nat /\ eaten[s] \in Nat
  BY <1>4 DEF StockInv, EatenStaysEaten
<1>. HIDE DEF entered, left, its
<1>11. left[s] = entered[s]
  BY <1>6, <1>8, <1>9, <1>10, SumTight
<1>. QED
  BY <1>10, <1>11

(* However Grocy goes on living, imports are replayed and the house eats,  *)
(* converts and ticks off meanwhile: no import brings back what was eaten, *)
(* and a check that is green for every row of Grocy means that everything  *)
(* was moved and nothing eaten since (import_grocy_stock.py,               *)
(* migration_check.py).                                                    *)
THEOREM StockImportIsSound ==
    ASSUME StockAssumptions
    PROVE  GrocySpec => []StockImportSound
<1>1. StockInv => StockImportSound
  BY GreenIsMoved DEF StockInv, StockImportSound
<1>. QED
  BY <1>1, StockInvariant, PTL

(***************************************************************************)
(* What the components say together                                        *)
(***************************************************************************)
(* What a hand settled outlives the machines: the import of a recipe, the  *)
(* two replayed imports of Grocy and the pass over Open Food Facts.  Each  *)
(* component has its own reason, proved above or with the house.           *)
THEOREM HandWorkIsKept ==
    ASSUME KitchenAssumptions, RecipeAssumptions, EquipmentAssumptions, ArticleAssumptions
    PROVE  KitchenSpec /\ GrocyRecipeSpec /\ EquipmentSpec /\ ArticleSpec => HandWorkStays
BY ConfirmedLinesAreKept, SettledLinesStaySettled, WhatIsDecidedStays, OnlyHandsEmptyAColumn, PTL
   DEF HandWorkStays
=============================================================================

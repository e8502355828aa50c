------------------------------ MODULE Kitchen ------------------------------
(***************************************************************************)
(* Recipes: written by hand, imported from an online card, their lines     *)
(* matched with products, edited one by one.                               *)
(*                                                                         *)
(* An import looks a card up, lets an agent adapt it, and writes the       *)
(* result in one transaction later on: `importing` is what it holds in     *)
(* between.  Which product the scoring of names picks is left open; names, *)
(* titles and cooking pages are left out.  A quantity is what it counts,   *)
(* not how much.                                                           *)
(***************************************************************************)
EXTENDS House

CONSTANTS
    Refs,           \* idMeal of the cards
    Cards,          \* what a card may say: sequences of source ingredients
    Texts,          \* raw texts of lines, normalised
    Goods,          \* products
    UnitAtFirst,    \* Goods -> the base unit a product is created with
    MaxRecipes,     \* bound: rows of table recipe at once
    MaxLines,       \* bound: position of a line
    Imports         \* imports that may be under way at once

Dimensions == {"piece", "g", "ml"}
\* What a source writes in front of a name: nothing, a bare number, a mass, a
\* spoon, a word that is no unit.
Written    == {"none", "count", "mass", "spoon", "prose"}

KitchenConstants ==
    /\ Cards \subseteq Seq([text : Texts, written : Written])
    /\ UnitAtFirst \in [Goods -> Dimensions]
    /\ {MaxRecipes, MaxLines} \subseteq Nat

VARIABLES
    recipe,     \* table: id -> row, or Null
    line,       \* table recipe_ingredient: id of recipe -> position -> row, or Null
    alias,      \* text -> product, or Null
    taught,     \* the aliases a hand ever confirmed
    hidden,     \* products with active = 0
    converted,  \* products moved from pieces to grams
    source,     \* what the source answers now
    importing   \* import -> what it holds, or Null

kitchenVars == <<recipe, line, alias, taught, hidden, converted, source, importing>>

RecipeIds == 1..MaxRecipes
Positions == 1..MaxLines
Good      == Goods \cup {Null}

\* counts: what `amount` counts, Null without one; in: the base unit it was
\* written for.  byHand: a hand has written on the line.
Ingredient == [text : Texts, product : Good, counts : {"base", "measure", "packaging", Null},
               in : Dimensions \cup {Null}, byHand : BOOLEAN,
               match : {"unmatched", "auto", "confirmed", "ignored"}]
Recipe     == [ref : Refs \cup {Null}, cooked : BOOLEAN]
Held       == [ref : Refs, card : Cards]

\* The CHECK of m004: an automatic or confirmed match names a product.
KitchenTypeOK ==
    /\ recipe \in [RecipeIds -> Recipe \cup {Null}]
    /\ line \in [RecipeIds -> [Positions -> Ingredient \cup {Null}]]
    /\ \A r \in RecipeIds : \A p \in Rows(line[r]) :
          /\ recipe[r] # Null
          /\ line[r][p].match \in {"auto", "confirmed"} => line[r][p].product # Null
    /\ alias \in [Texts -> Good] /\ taught \subseteq Texts \X Goods
    /\ hidden \subseteq Goods /\ converted \subseteq Goods
    /\ source \in [Refs -> Cards]
    /\ importing \in [Imports -> Held \cup {Null}]

KitchenInit ==
    /\ recipe = [r \in RecipeIds |-> Null]
    /\ line = [r \in RecipeIds |-> [p \in Positions |-> Null]]
    /\ alias = [t \in Texts |-> Null] /\ taught = {}
    /\ hidden = {} /\ converted = {}
    /\ source \in [Refs -> Cards]
    /\ importing = [i \in Imports |-> Null]

UnitNow(g) == IF g \in converted THEN "g" ELSE UnitAtFirst[g]

(***************************************************************************)
(* What a line means                                                       *)
(***************************************************************************)
AnyMass(written, unit) ==   \* mutant: a mass converts into any unit
    CASE written = "count" /\ unit = "piece" -> "base"
      [] written = "mass"                    -> "base"
      [] written = "spoon" /\ unit = "ml"    -> "measure"
      [] OTHER                               -> Null

\* Nothing is guessed: a number counts pieces, a mass converts into grams, a
\* spoon stays a spoon of a liquid.
SourceQuantity(written, unit) ==
    CASE written = "count" /\ unit = "piece" -> "base"
      [] written = "mass"  /\ unit = "g"     -> "base"
      [] written = "spoon" /\ unit = "ml"    -> "measure"
      [] OTHER                               -> Null

\* base_amount: does the line plan a quantity?  A packaging is believed
\* whatever the product, a number without measure is in base units.
Plans(l) ==
    /\ l.counts # Null /\ l.product # Null
    /\ l.counts = "measure" => l.in = UnitNow(l.product)

\* An alias wins over any score, unless its product is hidden; the scoring
\* looks at the visible products.
Resolutions(text) ==
    IF alias[text] # Null /\ alias[text] \notin hidden
    THEN {[match |-> "confirmed", product |-> alias[text]]}
    ELSE [match : {"auto"}, product : Goods \ hidden] \cup [match : {"unmatched"}, product : {Null}]

ImportedLine(ingredient, found) ==
    LET counts == IF found.product = Null THEN Null
                  ELSE SourceQuantity(ingredient.written, UnitNow(found.product))
    IN  [text |-> ingredient.text, product |-> found.product, match |-> found.match,
         counts |-> counts, in |-> IF counts = Null THEN Null ELSE UnitNow(found.product),
         byHand |-> FALSE]

\* A line as a hand types it, its number written for the unit of `for`.
TypedLine(text, product, match, counts, for) ==
    [text |-> text, product |-> product, match |-> match, counts |-> counts,
     in |-> IF counts = Null THEN Null ELSE UnitNow(for), byHand |-> TRUE]

(***************************************************************************)
(* Recipes written by hand                                                 *)
(***************************************************************************)
\* The payload may name any product and any packaging: no rule ties the two.
CreateRecipe(l) ==
    LET r == NextId(recipe)
    IN  /\ r \in RecipeIds
        /\ l.match \in {"auto", "confirmed"} => l.product # Null
        /\ recipe' = [recipe EXCEPT ![r] = [ref |-> Null, cooked |-> FALSE]]
        /\ line' = [line EXCEPT ![r][1] = l]
        /\ UNCHANGED <<alias, taught, hidden, converted, source, importing>>

DeleteRecipe(r) ==
    /\ recipe[r] # Null /\ ~recipe[r].cooked
    /\ recipe' = [recipe EXCEPT ![r] = Null]
    /\ line' = [line EXCEPT ![r] = [p \in Positions |-> Null]]
    /\ UNCHANGED <<alias, taught, hidden, converted, source, importing>>

\* A meal of the recipe is validated (module Meals).
Cook(r) ==
    /\ recipe[r] # Null /\ ~recipe[r].cooked
    /\ recipe' = [recipe EXCEPT ![r].cooked = TRUE]
    /\ UNCHANGED <<line, alias, taught, hidden, converted, source, importing>>

(***************************************************************************)
(* Import                                                                  *)
(***************************************************************************)
LookCardUp(i, ref) ==
    /\ importing[i] = Null
    /\ importing' = [importing EXCEPT ![i] = [ref |-> ref, card |-> source[ref]]]
    /\ UNCHANGED <<recipe, line, alias, taught, hidden, converted, source>>

\* find_recipe_by_source, or a new row.
RowFor(ref) ==
    IF \E r \in Rows(recipe) : recipe[r].ref = ref
    THEN CHOOSE r \in Rows(recipe) : recipe[r].ref = ref
    ELSE NextId(recipe)

NothingProtected(r) == {}   \* mutant: a rewrite forgets what was confirmed

\* What a rewrite spares: the positions a confirmed line holds.
Protected(r) == {p \in Rows(line[r]) : line[r][p].match = "confirmed"}

LearnFromGuesses(lines) ==   \* mutant: an automatic match writes its alias
    [t \in Texts |->
        IF \E p \in Positions : lines[p] # Null /\ lines[p].text = t /\ lines[p].match = "auto"
        THEN (CHOOSE l \in {lines[p] : p \in Positions} :
                l # Null /\ l.text = t /\ l.match = "auto").product
        ELSE alias[t]]

\* An automatic match never writes an alias.
AliasesAfterImport(lines) == alias

\* write_source_recipe: one transaction.  The row of the card is found again,
\* its pages go, and every line that is not confirmed is written anew.
WriteImport(i) ==
    LET held == importing[i]
        r    == RowFor(held.ref)
    IN  /\ held # Null /\ r \in RecipeIds
        /\ importing' = [importing EXCEPT ![i] = Null]
        /\ recipe' = [recipe EXCEPT ![r] =
              [ref |-> held.ref, cooked |-> recipe[r] # Null /\ recipe[r].cooked]]
        /\ \E found \in [DOMAIN held.card -> UNION {Resolutions(t) : t \in Texts}] :
              /\ \A p \in DOMAIN held.card : found[p] \in Resolutions(held.card[p].text)
              /\ line' = [line EXCEPT ![r] = [p \in Positions |->
                     IF p \in Protected(r) THEN line[r][p]
                     ELSE IF p \in DOMAIN held.card THEN ImportedLine(held.card[p], found[p])
                     ELSE Null]]
        /\ alias' = AliasesAfterImport(line'[r])
        /\ UNCHANGED <<taught, hidden, converted, source>>

\* A reload, a stop of Home Assistant, a recipe the source no longer has.
LoseImport(i) ==
    /\ importing[i] # Null /\ importing' = [importing EXCEPT ![i] = Null]
    /\ UNCHANGED <<recipe, line, alias, taught, hidden, converted, source>>

\* The source edits its card.
EditCard(ref, new) ==
    /\ source' = [source EXCEPT ![ref] = new]
    /\ UNCHANGED <<recipe, line, alias, taught, hidden, converted, importing>>

(***************************************************************************)
(* One line                                                                *)
(***************************************************************************)
\* match_ingredient: the product and the state, never the quantity.
MatchIngredient(r, p, product, match, create) ==
    /\ line[r][p] # Null
    /\ match \in {"auto", "confirmed"} => product # Null
    /\ line' = [line EXCEPT ![r][p].product = product, ![r][p].match = match,
                            ![r][p].byHand = TRUE]
    /\ IF create /\ match = "confirmed"
       THEN /\ alias' = [alias EXCEPT ![line[r][p].text] = product]
            /\ taught' = taught \cup {<<line[r][p].text, product>>}
       ELSE UNCHANGED <<alias, taught>>
    /\ UNCHANGED <<recipe, hidden, converted, source, importing>>

\* A base quantity: packaging and measure are cleared, the match is not
\* touched.
SetIngredientQuantity(r, p) ==
    /\ line[r][p] # Null
    /\ line' = [line EXCEPT ![r][p].counts = "base", ![r][p].byHand = TRUE,
                            ![r][p].in = IF line[r][p].product = Null THEN Null
                                         ELSE UnitNow(line[r][p].product)]
    /\ UNCHANGED <<recipe, alias, taught, hidden, converted, source, importing>>

RemoveIngredient(r, p) ==
    /\ line[r][p] # Null /\ line' = [line EXCEPT ![r][p] = Null]
    /\ UNCHANGED <<recipe, alias, taught, hidden, converted, source, importing>>

\* At a free place, the one given or the last; a line of text alone is
\* ignored.
AddIngredient(r, text, product, quantity) ==
    /\ recipe[r] # Null
    /\ quantity => product # Null
    /\ \E p \in Positions \ Rows(line[r]) :
          line' = [line EXCEPT ![r][p] =
             TypedLine(text, product, IF product = Null THEN "ignored" ELSE "confirmed",
                       IF quantity THEN "base" ELSE Null, product)]
    /\ UNCHANGED <<recipe, alias, taught, hidden, converted, source, importing>>

\* What module Catalogue does to a product.
HideOrShow(g) ==
    /\ hidden' = IF g \in hidden THEN hidden \ {g} ELSE hidden \cup {g}
    /\ UNCHANGED <<recipe, line, alias, taught, converted, source, importing>>

ConvertGood(g) ==
    /\ UnitNow(g) = "piece"
    /\ converted' = converted \cup {g}
    /\ UNCHANGED <<recipe, line, alias, taught, hidden, source, importing>>

KitchenNext ==
    \/ \E t \in Texts, g \in Good, m \in {"unmatched", "confirmed"}, pack \in Goods \cup {Null} :
          CreateRecipe(TypedLine(t, g, m, IF pack = Null THEN Null ELSE "packaging", pack))
    \/ \E r \in RecipeIds : DeleteRecipe(r)
    \/ \E r \in RecipeIds : Cook(r)
    \/ \E i \in Imports, ref \in Refs : LookCardUp(i, ref)
    \/ \E i \in Imports : WriteImport(i)
    \/ \E i \in Imports : LoseImport(i)
    \/ \E ref \in Refs, new \in Cards : EditCard(ref, new)
    \/ \E r \in RecipeIds, p \in Positions, g \in Good,
          m \in {"unmatched", "auto", "confirmed", "ignored"}, create \in BOOLEAN :
          MatchIngredient(r, p, g, m, create)
    \/ \E r \in RecipeIds, p \in Positions : SetIngredientQuantity(r, p)
    \/ \E r \in RecipeIds, p \in Positions : RemoveIngredient(r, p)
    \/ \E r \in RecipeIds, t \in Texts, g \in Good, q \in BOOLEAN : AddIngredient(r, t, g, q)
    \/ \E g \in Goods : HideOrShow(g)
    \/ \E g \in Goods : ConvertGood(g)

KitchenSpec == KitchenInit /\ [][KitchenNext]_kitchenVars

(***************************************************************************)
(* Properties                                                              *)
(***************************************************************************)
\* No import changes a line somebody confirmed, however old the card it holds.
ConfirmedLinesSurviveStep ==
    importing' # importing =>
        \A r \in RecipeIds : \A p \in Rows(line[r]) :
            line[r][p].match = "confirmed" => line'[r][p] = line[r][p]
ConfirmedLinesSurvive == [][ConfirmedLinesSurviveStep]_kitchenVars

\* A wrong guess never spreads: what is confirmed was confirmed by a hand, on
\* this line or once and for all for its text.
ConfirmedByAHand ==
    \A r \in RecipeIds : \A p \in Rows(line[r]) :
        (line[r][p].match = "confirmed" /\ ~line[r][p].byHand)
            => <<line[r][p].text, line[r][p].product>> \in taught

\* The line an import wrote and no hand rematched plans a quantity only in the
\* unit its product is counted in, as long as nobody converts the product.
NothingIsGuessed ==
    \A r \in RecipeIds : \A p \in Rows(line[r]) :
        (~line[r][p].byHand /\ Plans(line[r][p]) /\ line[r][p].product \notin converted)
            => \E ref \in Refs, c \in Cards : \E n \in DOMAIN c :
                  /\ c[n].text = line[r][p].text
                  /\ <<c[n].written, UnitNow(line[r][p].product)>> \in
                        {<<"count", "piece">>, <<"mass", "g">>, <<"spoon", "ml">>}

\* What nobody may find wrong in the lines of the recipes.
KitchenSound == KitchenTypeOK /\ ConfirmedByAHand /\ NothingIsGuessed

\* domain/recipes.py: "`amount` as written - the number is already in the base
\* unit".
AmountIsInBaseUnit ==
    \A r \in RecipeIds : \A p \in Rows(line[r]) :
        (Plans(line[r][p]) /\ line[r][p].counts = "base")
            => line[r][p].in = UnitNow(line[r][p].product)

\* _write_source_ingredients_within: "sparing everything a human touched".
HandWorkSurvives ==
    [][importing' # importing =>
          \A r \in RecipeIds : \A p \in Rows(line[r]) :
              (line[r][p].byHand /\ line[r][p].match # "unmatched")
                  => line'[r][p] = line[r][p]]_kitchenVars
=============================================================================

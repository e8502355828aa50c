-------------------------------- MODULE Desk --------------------------------
(***************************************************************************)
(* The surface of the integration: the services, the WebSocket commands    *)
(* and the to-do list, the coordinator that publishes the summary, and the *)
(* config entry that is reloaded under all of them.                        *)
(*                                                                         *)
(* A handler is the sequence of the places where it gives the event loop   *)
(* back:                                                                   *)
(*   "read"     a job that only reads, or writes nothing this time         *)
(*   "write"    a job that commits one transaction                         *)
(*   "request"  async_request_refresh, through the debouncer               *)
(*   "push"     the same, not awaited                                      *)
(*   "refresh"  async_refresh, at once                                     *)
(*   "answer"   a read with the runtime of the entry loaded by then        *)
(* The checks a handler makes before its first job answer without touching *)
(* anything, and are the refusals of that job.                             *)
(***************************************************************************)
EXTENDS House

CONSTANTS
    Calls,          \* calls ever made
    MaxPlaces,      \* bound: of the handlers that are called, places each
    MaxLoads,       \* bound: times the entry is loaded
    MaxDay          \* bound: food days

DeskConstants ==
    /\ {MaxPlaces, MaxLoads, MaxDay} \subseteq Nat /\ MaxLoads > 0 /\ Null \notin Nat
    /\ Calls \cap {"asked", "tick"} = {}

VARIABLES
    entry,          \* state of the config entry
    load,           \* how many times it was loaded
    day,            \* the food day
    db,             \* the calls whose write is committed
    call,           \* what was called and how far it is
    refreshes,      \* refreshes of the coordinator under way, by who began them
    desk            \* the coordinator of the loaded entry

deskVars == <<entry, load, day, db, call, refreshes, desk>>
-----------------------------------------------------------------------------
(* The handlers.                                                           *)

Query    == <<"read">>
Pair     == <<"read", "read">>
SilentWrite   == <<"write">>
Change   == <<"write", "request">>
Looked   == <<"read", "write", "request">>
Told     == <<"write", "request", "answer">>
Kept     == <<"write", "answer">>
Asked    == <<"write", "request">>   \* mutant: through the debouncer
AtOnce   == <<"write", "refresh">>

\* services.py.  A dry run is a read.
StockServices ==
    [add_stock |-> {Change, Looked},      \* by its article or by a barcode
     consume |-> {Change}, open_batch |-> {Change}, transfer_batch |-> {Change},
     adjust_inventory |-> {Change}, query_stock |-> {Query}, export_journal |-> {Query}]
GrocyServices ==
    [import_grocy_catalog |-> {Query, Change}, import_grocy_stock |-> {Query, Change},
     import_grocy_recipes |-> {Query, Change}, check_grocy_migration |-> {Query}]
UpkeepServices ==
    [maintenance_plan |-> {Pair}, import_grocy_equipment |-> {Query, Change},
     record_battery_event |-> {Change}]
MealServices ==
    [plan_meal |-> {Change}, validate_meal |-> {Query, Change}, import_recipe |-> {Change},
     adapt_recipe |-> {Looked}, query_meals |-> {Query}]
\* _perform_read: the receipt and its cart, the model, then one transaction.
PerformRead == {Query \o SilentWrite, Pair \o Query \o SilentWrite}
ReadReceipt == {Query \o reading \o <<"request", "read">> : reading \in PerformRead}
ListServices ==
    [add_to_shopping_list |-> {Change}, refresh_shopping_list |-> {Change},
     query_shopping_list |-> {Pair},
     read_receipt |-> ReadReceipt \cup {Query \o s : s \in ReadReceipt},   \* named, or pending
     correct_movement |-> {Change}, correct_meal |-> {Change}]

\* websocket_api.py.  A known article is read with its product and its prices.
PriceReads == {Pair, Pair \o Query}
CatalogueReads ==
    [products_list |-> {Query}, locations_list |-> {Query}, aisles_list |-> {Query},
     stores_list |-> {Query}, batches_list |-> {Query}, product_get |-> {Pair \o Pair},
     movements_list |-> {Query}]
Subscribe == [subscribe |-> {<<"push">>}]
LookupCommand == [lookup |-> {Query, Pair} \cup {Pair \o reads : reads \in PriceReads}]
ArticleCommands == [article_create |-> {Change}, article_update |-> {Change}]
ProductCommands ==
    [product_update |-> {Change},
     product_convert_unit |-> {Query, Pair, Looked}]   \* in that unit, dry run, applied
JournalReads == [journal_day |-> {Query}, journal_series |-> {Query}]
AisleCommands == [aisles_reorder |-> {SilentWrite}]
TripCommands ==
    [session_start |-> {Change}, session_current |-> {Query}, session_add_line |-> {Change},
     session_update_line |-> {Change}]
CartCommands ==
    [session_remove_line |-> {Change}, session_checkout |-> {Change},
     session_store_line |-> {Change}, session_close |-> {Change}]
MigrationCheck == [migration_check |-> {Query}]
ListCommands ==
    [list_items |-> {Query}, list_add |-> {Told}, list_check |-> {Told},
     list_uncheck |-> {Told}, list_remove |-> {Told}, list_refresh |-> {Told}]
RecurringCommands ==
    [recurring_list |-> {<<"answer">>}, recurring_save |-> {Kept}, recurring_delete |-> {Kept}]
StoreCommands ==
    [store_save |-> {Kept}, store_merge |-> {Kept}, store_aisles |-> {<<"answer">>},
     store_reorder_aisles |-> {Kept}, store_unpin_aisle |-> {Kept}]
CorrectionCommands ==
    [movement_correct |-> {Change}, movement_correction_preview |-> {Query},
     meal_correct |-> {Change}]

\* The other surfaces.  No recipe command refreshes; the meal commands answer
\* before they ask.
StockCommands == [stock_add |-> {Change}, stock_consume |-> {Change}]
RecipeCommands ==
    [recipes_list |-> {Query}, recipe_get |-> {Query}, recipe_create |-> {SilentWrite},
     recipe_update |-> {SilentWrite}, recipe_delete |-> {SilentWrite},
     recipe_ingredient_match |-> {SilentWrite}]
RecipeSources == [recipe_import_external |-> {SilentWrite}]
MealCommands ==
    [meals_list |-> {Query}, meal_plan |-> {Change}, meal_move |-> {Change},
     meal_cancel |-> {Change}, meal_preview |-> {Query}, meal_validate |-> {Change}]
BatteryCommands ==
    [batteries_list |-> {Query}, batteries_discover |-> {Query}, battery_declare |-> {Change},
     battery_update |-> {Change}, battery_event |-> {Change}, battery_events |-> {Query}]
EquipmentCommands ==
    [equipment_list |-> {Query}, equipment_get |-> {Query}, equipment_create |-> {Change},
     equipment_update |-> {Change}, consumable_link |-> {Change},
     consumable_unlink |-> {Change}]
ReceiptSubmit ==
    [receipt_submit |->
        {SilentWrite \o Query \o <<"request", "answer">>} \cup
        {SilentWrite \o Query \o reading \o <<"request", "answer">> : reading \in PerformRead}]
ReceiptCommands ==
    [receipt_get |-> {<<"answer">>}, receipt_list |-> {Query},
     receipt_retry |-> {reading \o <<"request", "answer">> : reading \in PerformRead},
     receipt_discard |-> {Told}, receipt_line_match |-> {SilentWrite \o Query \o <<"answer">>},
     receipt_apply |-> {Told}]
ProductServices ==
    [create_product |-> {Change}, link_shopping_item |-> {Change}, skip_meal |-> {Change}]
CorrectProduct == [update_product |-> {Query, Change}]
DeleteSurfaces == [delete_product |-> {Change}, delete_article |-> {Change}]
LineSurfaces ==
    [set_quantity |-> {AtOnce}, remove |-> {AtOnce}, add |-> {AtOnce}, list |-> {Query}]
\* A batch that is gone already is no failure.
TodoExpirations == [update_item |-> {AtOnce, <<"refresh">>}]
TodoSurfaces ==
    [create_item |-> {Query \o AtOnce}, update_item |-> {AtOnce}, delete_items |-> {AtOnce}]

ShapesOf(table) == UNION {table[handler] : handler \in DOMAIN table}

Shapes ==
    UNION {ShapesOf(StockServices), ShapesOf(GrocyServices), ShapesOf(UpkeepServices),
           ShapesOf(MealServices), ShapesOf(ListServices), ShapesOf(CatalogueReads),
           ShapesOf(Subscribe), ShapesOf(LookupCommand), ShapesOf(ArticleCommands),
           ShapesOf(ProductCommands), ShapesOf(JournalReads), ShapesOf(AisleCommands),
           ShapesOf(TripCommands), ShapesOf(CartCommands), ShapesOf(MigrationCheck),
           ShapesOf(ListCommands), ShapesOf(RecurringCommands), ShapesOf(StoreCommands),
           ShapesOf(CorrectionCommands), ShapesOf(StockCommands), ShapesOf(RecipeCommands),
           ShapesOf(RecipeSources), ShapesOf(MealCommands), ShapesOf(BatteryCommands),
           ShapesOf(EquipmentCommands), ShapesOf(ReceiptSubmit), ShapesOf(ReceiptCommands),
           ShapesOf(ProductServices), ShapesOf(CorrectProduct), ShapesOf(DeleteSurfaces),
           ShapesOf(LineSurfaces), ShapesOf(TodoExpirations), ShapesOf(TodoSurfaces)}
-----------------------------------------------------------------------------
Starters == Calls \cup {"asked", "tick"}
Places   == {"read", "write", "request", "wait", "push", "refresh", "refreshing", "answer"}
Refresh  == [phase : {"due", "read"}, saw : SUBSET Calls, day : 0..MaxDay]
Call     == [shape : Shapes, left : Seq(Places), load : 1..MaxLoads, running : BOOLEAN,
             status : {"open", "ok", "error"}]

DeskTypeOK ==
    /\ entry \in {"up", "closing", "closed", "loading"}
    /\ load \in 1..MaxLoads /\ day \in 0..MaxDay /\ db \subseteq Calls
    /\ \A c \in Calls : call[c] = Null \/ call[c] \in Call
    /\ \A s \in Starters : refreshes[s] = Null \/ refreshes[s] \in Refresh
    /\ desk \in [saw : SUBSET Calls, day : 0..MaxDay, cooling : BOOLEAN,
                 again : BOOLEAN, rendezvous : 1..MaxDay + 1 \cup {Null}]

Due == [phase |-> "due", saw |-> {}, day |-> 0]
NewDesk == [saw |-> {}, day |-> 0, cooling |-> FALSE, again |-> FALSE, rendezvous |-> Null]
Nothing == [s \in Starters |-> Null]

\* The first refresh of the first loading is done.
DeskInit ==
    /\ entry = "up" /\ load = 1 /\ day = 0 /\ db = {}
    /\ call = [c \in Calls |-> Null] /\ refreshes = Nothing
    /\ desk = [NewDesk EXCEPT !.rendezvous = 1]
-----------------------------------------------------------------------------
(* The coordinator.                                                        *)

\* Database.read and Database.write raise once it is closed.
DatabaseOpen(l) == l = load /\ entry # "closed"

\* Every refresh takes the debouncer's timer away when it begins.
Begun(s)      == [refreshes EXCEPT ![s] = Due]
TimerStopped  == [desk EXCEPT !.cooling = FALSE, !.again = FALSE]

\* Debouncer.async_call: during the cooldown the request is for its end;
\* during a refresh it asked for, any call is good.
Starts == ~desk.cooling /\ refreshes["asked"] = Null
AskRefresh ==
    /\ refreshes' = IF Starts THEN Begun("asked") ELSE refreshes
    /\ desk' = IF desk.cooling THEN [desk EXCEPT !.again = TRUE] ELSE desk

CooldownEnds ==
    /\ desk.cooling
    /\ desk' = TimerStopped
    /\ refreshes' = IF desk.again /\ refreshes["asked"] = Null THEN Begun("asked") ELSE refreshes
    /\ UNCHANGED <<entry, load, day, db, call>>

NoTick == FALSE   \* mutant: no update_interval
\* Every fifteen minutes after the last refresh.
Tick ==
    /\ entry = "up" /\ refreshes = Nothing
    /\ refreshes' = Begun("tick") /\ desk' = TimerStopped
    /\ UNCHANGED <<entry, load, day, db, call>>

\* The summary, the meals, the list and the receipts in one job.
ReadSummary(s) ==
    /\ refreshes[s] # Null /\ refreshes[s].phase = "due" /\ entry # "closed"
    /\ refreshes' = [refreshes EXCEPT ![s] = [phase |-> "read", saw |-> db, day |-> day]]
    /\ UNCHANGED <<entry, load, day, db, call, desk>>

\* Whoever awaited the refresh goes on in the same step of the loop.
Advanced(c) ==
    [call EXCEPT ![c].left = Tail(@), ![c].running = FALSE,
                 ![c].status = IF Len(call[c].left) = 1 THEN "ok" ELSE @]

GoesOn(s) == IF s \in Calls THEN Advanced(s) ELSE call

Ended(s, d) ==
    /\ refreshes' = [refreshes EXCEPT ![s] = Null]
    /\ desk' = [d EXCEPT !.cooling = (s = "asked") \/ @]
    /\ call' = GoesOn(s)
    /\ UNCHANGED <<load, day, db>>

\* The batteries and the warranties are read, the summary is published and
\* the rendezvous of the next boundary is armed, with the clock of now.
Publish(s) ==
    /\ refreshes[s] # Null /\ refreshes[s].phase = "read" /\ entry # "closed"
    /\ Ended(s, [desk EXCEPT !.saw = refreshes[s].saw, !.day = refreshes[s].day,
                             !.rendezvous = day + 1])
    /\ entry' = IF entry = "loading" THEN "up" ELSE entry

\* A job met a closed database: what was published stays.
RefreshFails(s) ==
    /\ refreshes[s] # Null /\ entry = "closed"
    /\ Ended(s, desk)
    /\ UNCHANGED entry

\* _on_food_day_rollover
Rollover ==
    /\ desk.rendezvous # Null /\ desk.rendezvous <= day
    /\ refreshes' = IF Starts THEN Begun("asked") ELSE refreshes
    /\ desk' = [desk EXCEPT !.rendezvous = Null, !.again = @ \/ desk.cooling]
    /\ UNCHANGED <<entry, load, day, db, call>>

DayTurns ==
    /\ day < MaxDay /\ day' = day + 1
    /\ UNCHANGED <<entry, load, db, call, refreshes, desk>>
-----------------------------------------------------------------------------
(* The entry: async_reload after a change of the options.                  *)

\* From here _runtime answers nothing.
UnloadEntry ==
    /\ entry = "up" /\ load < MaxLoads /\ entry' = "closing"
    /\ UNCHANGED <<load, day, db, call, refreshes, desk>>

CloseDatabase ==
    /\ entry = "closing" /\ entry' = "closed"
    /\ UNCHANGED <<load, day, db, call, refreshes, desk>>

\* The coordinator is shut down and async_setup_entry builds the next one.
\* What the old one still publishes nobody reads: its callers go on.
Load ==
    /\ entry = "closed" /\ entry' = "loading" /\ load' = load + 1
    /\ desk' = NewDesk
    /\ refreshes' = [Nothing EXCEPT !["tick"] = Due]
    /\ call' = [c \in Calls |-> IF refreshes[c] # Null THEN Advanced(c)[c] ELSE call[c]]
    /\ UNCHANGED <<day, db>>
-----------------------------------------------------------------------------
(* The calls.                                                              *)

\* An entry that is not loaded is answered "not_loaded" and forgotten.
Begin(c) ==
    /\ call[c] = Null
    /\ \E shape \in {s \in Shapes : Len(s) <= MaxPlaces} :
          call' = [call EXCEPT ![c] = [shape |-> shape, left |-> shape, load |-> load,
                                       running |-> FALSE,
                                       status |-> IF entry = "up" THEN "open" ELSE "error"]]
    /\ UNCHANGED <<entry, load, day, db, refreshes, desk>>

At(c, place) == call[c] # Null /\ call[c].status = "open" /\ Head(call[c].left) = place

Failed(c) == [call EXCEPT ![c].status = "error", ![c].running = FALSE]

MayRefuseAnything(c) == TRUE   \* mutant: the read of the answer is checked again
\* What was found before the write; after it, its own rows are there.
MayRefuse(c) == c \notin db

Read(c) ==
    /\ At(c, "read")
    /\ \/ DatabaseOpen(call[c].load) /\ call' = Advanced(c)
       \/ ~DatabaseOpen(call[c].load) /\ call' = Failed(c)
       \/ MayRefuse(c) /\ call' = Failed(c)
    /\ UNCHANGED <<entry, load, day, db, refreshes, desk>>

\* The job has its connection: closing the database no longer stops it.
BeginWrite(c) ==
    /\ At(c, "write") /\ ~call[c].running
    /\ call' = IF DatabaseOpen(call[c].load) THEN [call EXCEPT ![c].running = TRUE]
               ELSE Failed(c)
    /\ UNCHANGED <<entry, load, day, db, refreshes, desk>>

Commit(c) ==
    /\ At(c, "write") /\ call[c].running
    /\ db' = db \cup {c} /\ call' = Advanced(c)
    /\ UNCHANGED <<entry, load, day, refreshes, desk>>

\* The rule says no and the transaction is rolled back.
RuleRefuses(c) ==
    /\ At(c, "write") /\ call[c].running /\ c \notin db
    /\ call' = Failed(c)
    /\ UNCHANGED <<entry, load, day, db, refreshes, desk>>

\* The coordinator of another loading is shut down and asks nothing.
Waits(c) == call[c].load = load /\ Starts
Request(c) ==
    /\ At(c, "request")
    /\ call' = IF Waits(c) THEN [call EXCEPT ![c].left = <<"wait">> \o Tail(@)]
               ELSE Advanced(c)
    /\ IF call[c].load = load THEN AskRefresh ELSE UNCHANGED <<refreshes, desk>>
    /\ UNCHANGED <<entry, load, day, db>>

Waited(c) ==
    /\ At(c, "wait") /\ (call[c].load = load => refreshes["asked"] = Null)
    /\ call' = Advanced(c)
    /\ UNCHANGED <<entry, load, day, db, refreshes, desk>>

Push(c) ==
    /\ At(c, "push") /\ call' = Advanced(c)
    /\ IF call[c].load = load THEN AskRefresh ELSE UNCHANGED <<refreshes, desk>>
    /\ UNCHANGED <<entry, load, day, db>>

RefreshAtOnce(c) ==
    /\ At(c, "refresh")
    /\ IF call[c].load = load
       THEN /\ refreshes' = Begun(c) /\ desk' = TimerStopped
            /\ call' = [call EXCEPT ![c].left = <<"refreshing">>]
       ELSE call' = Advanced(c) /\ UNCHANGED <<refreshes, desk>>
    /\ UNCHANGED <<entry, load, day, db>>

\* _answer, _answer_list, _answer_recurring, _answer_stores, _answer_aisles
ReadBack(c) ==
    /\ At(c, "answer")
    /\ call' = IF entry = "up" THEN Advanced(c) ELSE Failed(c)
    /\ UNCHANGED <<entry, load, day, db, refreshes, desk>>

CallStep(c) ==
    \/ Read(c) \/ BeginWrite(c) \/ Commit(c) \/ RuleRefuses(c) \/ Request(c) \/ Waited(c)
    \/ Push(c) \/ RefreshAtOnce(c) \/ ReadBack(c)

RefreshStep(s) == ReadSummary(s) \/ Publish(s) \/ RefreshFails(s)
EntryStep == CloseDatabase \/ Load

DeskNext ==
    \/ \E c \in Calls : Begin(c) \/ CallStep(c)
    \/ \E s \in Starters : RefreshStep(s)
    \/ CooldownEnds \/ Tick \/ Rollover \/ DayTurns
    \/ UnloadEntry \/ EntryStep

DeskSpec == DeskInit /\ [][DeskNext]_deskVars

\* The loop and the executor run what they were given, the timers fire, and a
\* reload that began goes on to its end.
DeskFairness ==
    /\ \A s \in Starters : WF_deskVars(RefreshStep(s))
    /\ \A c \in Calls : WF_deskVars(CallStep(c))
    /\ WF_deskVars(Tick) /\ WF_deskVars(Rollover) /\ WF_deskVars(CooldownEnds)
    /\ WF_deskVars(EntryStep)
DeskFairSpec == DeskSpec /\ DeskFairness
-----------------------------------------------------------------------------
(* What is committed reaches the entities, whichever handler wrote it,     *)
(* whoever else was refreshing, and through reloads of the entry: the      *)
(* debouncer drops a request while it refreshes, and some handlers ask     *)
(* nothing at all.                                                         *)
EveryWriteIsShown == \A c \in Calls : (c \in db) ~> (c \in desk.saw)

(* "Wake up at the next 04:00, so a day with no activity still turns"      *)
(* (_schedule_food_day_rollover), and a day that turns while a refresh is  *)
(* between its read and its publication as well.                           *)
DayIsShown == \A d \in 0..MaxDay : (day = d) ~> (day # d \/ desk.day = d)

(* "Three gestures in a row, after which the next-meal sensor must already *)
(* be right" (recipe_line_surfaces._apply): a handler that refreshes at    *)
(* once answers when its own write is published.                           *)
ShownWhenAnsweredStep ==
    \A c \in Calls :
        (/\ call[c] # Null /\ call[c].shape \in ShapesOf(LineSurfaces) \cup ShapesOf(TodoSurfaces)
         /\ c \in db /\ call[c].status # "ok" /\ call'[c].status = "ok")
        => c \in desk'.saw \/ entry # "up" \/ call[c].load # load
ShownWhenAnswered == [][ShownWhenAnsweredStep]_deskVars

(* While its entry stays loaded, a call that answers an error has written  *)
(* nothing: whoever tries again doubles nothing.                           *)
ErrorsWroteNothing ==
    \A c \in db : call[c].status = "error" => call[c].load # load \/ entry # "up"

(* What nobody may find wrong in the entry, its calls and its refreshes.   *)
DeskSound == DeskTypeOK /\ ErrorsWroteNothing

(* The same whatever is reloaded: a handler that answers with a read loses *)
(* its runtime between its write and its answer.                           *)
ErrorsNeverWrote == \A c \in db : call[c].status # "error"

(* What the entities show never goes back: a refresh that read before      *)
(* another may publish after it.                                           *)
NeverGoesBack == [][load' = load => desk.saw \subseteq desk'.saw]_deskVars
=============================================================================

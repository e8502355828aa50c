------------------------------- MODULE Upkeep -------------------------------
(***************************************************************************)
(* The places where batteries live, the sheets of the equipment and the    *)
(* consumables linked to them: declared, corrected, changed.               *)
(*                                                                         *)
(* Table battery has no key column: a replay is recognised by what the     *)
(* queue left in external_ref.  Every place uses the one spare product,    *)
(* whose batches are the ledger's business: only their total is kept here. *)
(* Whether a place is tracked and what its sensor says of it is module     *)
(* Maintenance.                                                            *)
(***************************************************************************)
EXTENDS House

CONSTANTS
    MaxBatteries,       \* bound: places declared
    BatteryKinds,       \* the kinds a hand declares
    Cells,              \* cells a place takes
    Thresholds,         \* what a hand sets low_percent and keep_percent to
    UpkeepKeys,         \* idempotency keys of the panel's queue
    MaxEvents,          \* bound: rows of battery_event
    MaxSpares,          \* bound: spares ever bought
    SheetNames          \* names of equipment sheets

UpkeepConstants ==
    /\ {MaxBatteries, MaxEvents, MaxSpares} \subseteq Nat
    /\ BatteryKinds \subseteq {"primary", "rechargeable_cell", "built_in"}
    /\ {20, 25} \subseteq Thresholds /\ Thresholds \subseteq Nat
    /\ Cells \in Nat \ {0}
    /\ Null \notin UpkeepKeys

VARIABLES
    battery,    \* table: id -> row, or Null; no row is ever deleted
    events,     \* battery_event, append-only
    bought, cupboard,   \* spares: ever bought, left
    spareKeys,  \* the keys of the journal's rows that took one
    sheet,      \* name of an equipment -> its external_ref, or Null
    linked      \* sheets a consumable is linked to

upkeepVars == <<battery, events, bought, cupboard, spareKeys, sheet, linked>>

BatteryIds == 1..MaxBatteries
EventKinds == {"install", "charge", "replacement", "removal"}
NoKeyOr(keys) == keys \cup {Null}

Battery == [kind : BatteryKinds, spare : BOOLEAN, low : Thresholds, keep : Thresholds,
            ref : NoKeyOr(UpkeepKeys)]
Event   == [battery : BatteryIds, kind : EventKinds, took : BOOLEAN, key : NoKeyOr(UpkeepKeys)]

UpkeepTypeOK ==
    /\ battery \in [BatteryIds -> Battery \cup {Null}]
    /\ events \in Seq(Event)
    /\ bought \in Nat /\ cupboard \in Nat /\ spareKeys \in Seq(NoKeyOr(UpkeepKeys))
    /\ sheet \in [SheetNames -> [ref : NoKeyOr(UpkeepKeys)] \cup {Null}]
    /\ linked \subseteq SheetNames

UpkeepInit ==
    /\ battery = [b \in BatteryIds |-> Null]
    /\ events = <<>> /\ bought = 0 /\ cupboard = 0 /\ spareKeys = <<>>
    /\ sheet = [n \in SheetNames |-> Null] /\ linked = {}

(***************************************************************************)
(* Declarations                                                            *)
(***************************************************************************)
SeenNever(table, key) == FALSE   \* mutant: the replay is not looked for

Seen(table, key) ==
    key # Null /\ \E i \in DOMAIN table : table[i] # Null /\ table[i].ref = key

\* What binds two fields of one row.
BatteryFieldsOK(row) ==
    /\ row.keep >= row.low
    /\ row.kind = "built_in" => ~row.spare

\* A replay answers the row it made, a bad row is refused: neither is a step.
DeclareBattery(kind, spare, key) ==
    LET row == [kind |-> kind, spare |-> spare,
                low |-> 20, keep |-> 25, ref |-> key]
    IN  /\ ~Seen(battery, key) /\ BatteryFieldsOK(row)
        /\ NextId(battery) \in BatteryIds
        /\ battery' = [battery EXCEPT ![NextId(battery)] = row]
        /\ UNCHANGED <<events, bought, cupboard, spareKeys, sheet, linked>>

MergedUnread(row, column, value) ==   \* mutant: the stored low is not asked
    [row EXCEPT ![column] = value, !.low = 0]

\* The submitted column is checked together with the stored ones.
Merged(row, column, value) == [row EXCEPT ![column] = value]

UpdateBattery(b, column, value) ==
    /\ b \in Rows(battery)
    /\ BatteryFieldsOK(Merged(battery[b], column, value))
    /\ battery' = [battery EXCEPT ![b][column] = value]
    /\ UNCHANGED <<events, bought, cupboard, spareKeys, sheet, linked>>

CreateEquipment(name, key) ==
    /\ ~Seen(sheet, key) /\ sheet[name] = Null
    /\ sheet' = [sheet EXCEPT ![name] = [ref |-> key]]
    /\ UNCHANGED <<battery, events, bought, cupboard, spareKeys, linked>>

\* update_equipment gives a sheet another name, never one in use; the links
\* go by id and follow.
RenameEquipment(name, other) ==
    /\ sheet[name] # Null /\ sheet[other] = Null
    /\ sheet' = [sheet EXCEPT ![other] = sheet[name], ![name] = Null]
    /\ linked' = {IF n = name THEN other ELSE n : n \in linked}
    /\ UNCHANGED <<battery, events, bought, cupboard, spareKeys>>

\* The commands carry a key that is not read: a repeated link meets the UNIQUE
\* index, a repeated unlink finds nothing.
LinkConsumable(name) ==
    /\ sheet[name] # Null /\ name \notin linked
    /\ linked' = linked \cup {name}
    /\ UNCHANGED <<battery, events, bought, cupboard, spareKeys, sheet>>

UnlinkConsumable(name) ==
    /\ name \in linked /\ linked' = linked \ {name}
    /\ UNCHANGED <<battery, events, bought, cupboard, spareKeys, sheet>>

(***************************************************************************)
(* A battery is charged or changed                                         *)
(***************************************************************************)
BuySpares(n) ==
    /\ bought + n <= MaxSpares
    /\ bought' = bought + n /\ cupboard' = cupboard + n
    /\ UNCHANGED <<battery, events, spareKeys, sheet, linked>>

\* What a kind of battery can undergo.
BatteryEventOK(row, kind, wants) ==
    /\ ~(kind = "charge" /\ row.kind = "primary")
    /\ ~(kind = "replacement" /\ row.kind = "built_in")
    /\ wants => row.spare

\* An explicit choice wins; by default a disposable cell uses its spare up.
WantsSpare(row, choice) == IF choice = Null THEN row.kind = "primary" /\ row.spare ELSE choice

\* The event the key wrote is answered again.
Replayed(key) == key # Null /\ \E i \in DOMAIN events : events[i].key = key

TakeWhatIsLeft(wants, key) ==   \* mutant: what is short is taken as far as it goes
    IF wants /\ cupboard > 0
    THEN cupboard' = 0 /\ spareKeys' = Append(spareKeys, key)
    ELSE UNCHANGED <<cupboard, spareKeys>>

\* A short cupboard does not stop the event: the refusal travels as data.
TakeSpare(wants, key) ==
    IF wants /\ cupboard >= Cells
    THEN cupboard' = cupboard - Cells /\ spareKeys' = Append(spareKeys, key)
    ELSE UNCHANGED <<cupboard, spareKeys>>

\* One transaction: the spare first, then the event that names its row.
RecordEvent(b, kind, choice, key) ==
    LET wants == WantsSpare(battery[b], choice)
    IN  /\ b \in Rows(battery) /\ ~Replayed(key) /\ Len(events) < MaxEvents
        /\ BatteryEventOK(battery[b], kind, wants)
        /\ TakeSpare(wants, key)
        /\ events' = Append(events, [battery |-> b, kind |-> kind, key |-> key,
                                     took |-> wants /\ cupboard >= Cells])
        /\ UNCHANGED <<battery, bought, sheet, linked>>

UpkeepNext ==
    \/ \E k \in BatteryKinds, s \in BOOLEAN, r \in NoKeyOr(UpkeepKeys) :
          DeclareBattery(k, s, r)
    \/ \E b \in BatteryIds, v \in Thresholds, c \in {"low", "keep"} : UpdateBattery(b, c, v)
    \/ \E b \in BatteryIds, v \in BOOLEAN : UpdateBattery(b, "spare", v)
    \/ \E n \in SheetNames, r \in NoKeyOr(UpkeepKeys) : CreateEquipment(n, r)
    \/ \E n, m \in SheetNames : RenameEquipment(n, m)
    \/ \E n \in SheetNames : LinkConsumable(n)
    \/ \E n \in SheetNames : UnlinkConsumable(n)
    \/ \E n \in 1..MaxSpares : BuySpares(n)
    \/ \E b \in BatteryIds, k \in EventKinds, c \in {TRUE, FALSE, Null}, r \in NoKeyOr(UpkeepKeys) :
          RecordEvent(b, k, c, r)

UpkeepSpec == UpkeepInit /\ [][UpkeepNext]_upkeepVars

(***************************************************************************)
(* Properties                                                              *)
(***************************************************************************)
\* The spares left are those bought less those an event says it took; no event
\* took one without its row of the journal, and no key took two.
Took == {i \in DOMAIN events : events[i].took}
SparesAreAccountedFor ==
    /\ cupboard + Cells * Cardinality(Took) = bought
    /\ Len(spareKeys) = Cardinality(Took)
    /\ \A i, j \in DOMAIN spareKeys : spareKeys[i] = spareKeys[j] /\ spareKeys[i] # Null => i = j

\* A key declares one place and one sheet, replayed after a rename as well.
RefOf(table, i) == IF table[i] = Null THEN Null ELSE table[i].ref
DeclaredOnce ==
    /\ \A i, j \in BatteryIds :
          RefOf(battery, i) = RefOf(battery, j) /\ RefOf(battery, i) # Null => i = j
    /\ \A n, m \in SheetNames :
          RefOf(sheet, n) = RefOf(sheet, m) /\ RefOf(sheet, n) # Null => n = m

\* Whatever corrections follow one another, a place is never opened above the
\* level it is kept under, and what is soldered in has no spare.
PlacesMakeSense == \A b \in Rows(battery) : BatteryFieldsOK(battery[b])

\* What nobody may find wrong in the places, the sheets and the spares.
UpkeepSound ==
    UpkeepTypeOK /\ SparesAreAccountedFor /\ DeclaredOnce /\ PlacesMakeSense
=============================================================================

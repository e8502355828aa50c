--------------------------- MODULE GrocyEquipment ---------------------------
(***************************************************************************)
(* The import of Grocy's batteries, spares and equipment, and the          *)
(* comparison that proves the switch-over of todo.maintenance neutral: the *)
(* tasks the old template macro keeps, and those the new plan keeps.       *)
(*                                                                         *)
(* Grocy and the registry of entities are read first, outside any          *)
(* transaction; the writes are one transaction.  Levels are in tenths of a *)
(* percent.                                                                *)
(***************************************************************************)
EXTENDS House

CONSTANTS
    BatteryRows,    \* ids of Grocy's table batteries
    Sensors,        \* battery sensors of Home Assistant
    Families,       \* spare formats, by product name
    Inside,         \* pairs <<format, name>>: the name contains the format
    Tenths,         \* levels a sensor shows
    Offline, NoValue, Junk,     \* unavailable, unknown, not a number
    MaxCells,       \* bound: cells of a spare used up
    MaxChanges      \* bound: changes after the start

EquipmentConstants ==
    /\ BatteryRows \subseteq Nat /\ IsFiniteSet(BatteryRows) /\ Tenths \subseteq Int
    /\ {Offline, NoValue, Junk} \cap Int = {}
    /\ {MaxCells, MaxChanges} \subseteq Nat

VARIABLES
    described,  \* Grocy's rows, as their descriptions are read
    sensors,    \* sensor -> registered, left out by the macro, USB, shown
    named,      \* names of products and equipment made by hand
    spare,      \* family -> what is left, what the journal entered, or Null
    batteries,  \* table battery, by anchor
    equipment,  \* Grocy's equipment is in the house
    blocked,    \* the last applied import had something blocking
    happened

equipmentVars == <<described, sensors, named, spare, batteries, equipment, blocked, happened>>

GrocyRow == [kind : {"spare"}, family : Families]
              \cup [kind : {"anchored"}, sensor : Sensors, format : Families \cup {Null}]
              \cup [kind : {"removed", "unclassed"}]
Sensor   == [registered : BOOLEAN, excluded : BOOLEAN, usb : BOOLEAN,
             shows : Tenths \cup {Offline, NoValue, Junk}]

EquipmentTypeOK ==
    /\ described \in [BatteryRows -> GrocyRow]
    /\ sensors \in [Sensors -> Sensor]
    /\ named \subseteq Families \cup {"purifier"}
    /\ spare \in [Families -> [left : Nat, entered : Nat, used : Nat] \cup {Null}]
    /\ batteries \in [Sensors -> [tracked : BOOLEAN, byHand : BOOLEAN,
                                spare : Families \cup {Null}] \cup {Null}]
    /\ {equipment, blocked} \subseteq BOOLEAN /\ happened \in Nat

EquipmentInit ==
    /\ described \in [BatteryRows -> GrocyRow]
    /\ sensors \in [Sensors -> Sensor]
    /\ named = {} /\ equipment = FALSE /\ blocked = FALSE /\ happened = 0
    /\ spare = [f \in Families |-> Null]
    /\ batteries = [x \in Sensors |-> Null]
-----------------------------------------------------------------------------
(* What a pass reads.                                                      *)

SpareRows(f) == {r \in BatteryRows : described[r].kind = "spare" /\ described[r].family = f}
Spares       == {f \in Families : SpareRows(f) # {}}
AnchorRows(x) == {r \in BatteryRows : described[r].kind = "anchored" /\ described[r].sensor = x}

\* The last row that names a sensor speaks for it.
Detail(x) == described[CHOOSE r \in AnchorRows(x) : \A q \in AnchorRows(x) : q <= r]
FormatOf(x) == IF AnchorRows(x) = {} THEN Null ELSE Detail(x).format

Unclassed   == {r \in BatteryRows : described[r].kind = "unclassed"}
DeadAnchors == {x \in Sensors : AnchorRows(x) # {} /\ ~sensors[x].registered}

\* The first spare, in the order of Grocy's rows, whose name contains the
\* format.
FirstRow(f) == CHOOSE r \in SpareRows(f) : \A q \in SpareRows(f) : r <= q
SpareFor(x) ==
    LET fits == {f \in Spares : <<FormatOf(x), f>> \in Inside}
    IN IF sensors[x].usb \/ fits = {} THEN Null
       ELSE CHOOSE f \in fits : \A g \in fits : FirstRow(f) <= FirstRow(g)

\* mutant: what a hand decided is decided again.
RegisteredOnes == {x \in Sensors : sensors[x].registered}
NewBatteries   == {x \in Sensors : sensors[x].registered /\ batteries[x] = Null}

Happens == happened < MaxChanges /\ happened' = happened + 1

\* Applied whether or not something is blocking.  A product of that name
\* keeps its own stock; the batch of a new one comes without a movement.  A
\* hand-made equipment of the same name undoes the whole pass.
ImportEquipment ==
    /\ equipment \/ "purifier" \notin named
    /\ spare' = [f \in Families |->
                   IF f \in Spares \ named /\ spare[f] = Null
                   THEN [left |-> Cardinality(SpareRows(f)), entered |-> 0, used |-> 0]
                   ELSE spare[f]]
    /\ batteries' = [x \in Sensors |->
                     IF x \in NewBatteries
                     THEN [tracked |-> ~sensors[x].excluded, byHand |-> FALSE,
                           spare |-> SpareFor(x)]
                     ELSE batteries[x]]
    /\ equipment' = TRUE
    /\ blocked' = (Unclassed # {} \/ DeadAnchors # {})
    /\ UNCHANGED <<described, sensors, named, happened>>

Decide(x, tracked) ==
    /\ Happens /\ batteries[x] # Null
    /\ batteries' = [batteries EXCEPT ![x].tracked = tracked, ![x].byHand = TRUE]
    /\ UNCHANGED <<described, sensors, named, spare, equipment, blocked>>

UseCell(f) ==
    /\ Happens /\ spare[f] # Null /\ spare[f].left > 0 /\ spare[f].used < MaxCells
    /\ spare' = [spare EXCEPT ![f].left = @ - 1, ![f].used = @ + 1]
    /\ UNCHANGED <<described, sensors, named, batteries, equipment, blocked>>

NameByHand(name) ==
    /\ Happens /\ name \notin named
    /\ IF name \in Families THEN spare[name] = Null ELSE ~equipment
    /\ named' = named \cup {name}
    /\ UNCHANGED <<described, sensors, spare, batteries, equipment, blocked>>

Show(x, v) ==
    /\ Happens /\ sensors[x].shows # v
    /\ sensors' = [sensors EXCEPT ![x].shows = v]
    /\ UNCHANGED <<described, named, spare, batteries, equipment, blocked>>

EquipmentNext ==
    \/ ImportEquipment
    \/ \E x \in Sensors : \/ \E t \in BOOLEAN : Decide(x, t)
                          \/ \E v \in Tenths \cup {Offline, NoValue, Junk} : Show(x, v)
    \/ \E f \in Families : UseCell(f)
    \/ \E n \in Families \cup {"purifier"} : NameByHand(n)

EquipmentSpec == EquipmentInit /\ [][EquipmentNext]_equipmentVars
-----------------------------------------------------------------------------
(* The tasks kept, by the macro and by the plan.                           *)

\* Jinja's int(-1): towards zero, -1 for what is not a number.
Whole(v) == IF v = Junk THEN -1 ELSE IF v >= 0 THEN v \div 10 ELSE -((-v) \div 10)

MacroKeeps(x) ==
    LET v == sensors[x].shows IN
    IF sensors[x].excluded THEN {}
    ELSE IF v \in {Offline, NoValue} THEN {"mute", "level"}
    ELSE IF Whole(v) < 0 \/ Whole(v) < 25 THEN {"level"} ELSE {}

\* mutant: the level is rounded before it is compared.
PlanKeepsRounded(x) ==
    LET v == sensors[x].shows IN
    IF sensors[x].excluded \/ (v \in Tenths /\ (v + 5) \div 10 >= 25) THEN {}
    ELSE {"level"} \cup IF v = Offline THEN {"mute"} ELSE {}
PlanKeeps(x) ==
    LET v == sensors[x].shows IN
    IF sensors[x].excluded \/ (v \in Tenths /\ v >= 250) THEN {}
    ELSE {"level"} \cup IF v = Offline THEN {"mute"} ELSE {}
-----------------------------------------------------------------------------
(* The first synchronisation after the switch closes nothing the macro     *)
(* would have kept, and keeps nothing more, for every sensor that has a    *)
(* value or is offline (_summary_diff).                                    *)
SwitchIsNeutral ==
    \A x \in Sensors :
        sensors[x].registered /\ sensors[x].shows # NoValue => PlanKeeps(x) = MacroKeeps(x)

(* What nobody may find wrong after the switch.                            *)
EquipmentImportSound == EquipmentTypeOK /\ SwitchIsNeutral

(* What a hand decided about a battery stays, however often the import is  *)
(* replayed.                                                               *)
DecidedStaysStep ==
    \A x \in Sensors :
        batteries[x] # Null /\ batteries[x].byHand => batteries'[x] # Null /\ batteries'[x].byHand
DecidedStays == [][DecidedStaysStep]_equipmentVars

(* The spares of the house are what the journal says entered less what was *)
(* used ("the journal being append-only, it is enough to rebuild           *)
(* everything", import_stock).                                             *)
SparesHaveTheirEntry ==
    \A f \in Families : spare[f] # Null => spare[f].left = spare[f].entered - spare[f].used

(* "Whether the import may be applied" (EquipmentImportReport.ok).         *)
BlockedIsNotApplied == ~blocked

(* A battery is linked to the spare of its own format.                     *)
LinkedToItsFormat ==
    \A x \in Sensors :
        batteries[x] # Null /\ batteries[x].spare # Null => batteries[x].spare = FormatOf(x)
=============================================================================

---------------------------- MODULE Maintenance ----------------------------
(***************************************************************************)
(* The maintenance plan: which tasks todo.maintenance is given and which   *)
(* it may lose.                                                            *)
(*                                                                         *)
(* Four parties interleave.  Devices change a state in Home Assistant.     *)
(* Hands decide, correct and change batteries.  The coordinator's refresh  *)
(* reads states on the event loop and writes the readings in a later job.  *)
(* The hourly synchronisation reads its tasks and the states, asks for a   *)
(* plan in a later job, opens and closes tasks.                            *)
(*                                                                         *)
(* `spoke` is a history variable no action reads: the device has said      *)
(* something since its cell was new.                                       *)
(***************************************************************************)
EXTENDS House

CONSTANTS
    Batteries,          \* the declared places
    Levels,             \* percents a device reports
    Lows, Keeps,        \* thresholds a hand may set
    MuteHours,          \* BATTERY_MUTE_HOURS
    MaxHour,            \* bound of the clock
    Unavailable, Unknown, NoEntity, \* no number: offline, no value yet, no entity
    MacroTasks          \* what the template macro asks for besides batteries

MaintenanceConstants ==
    /\ Levels \cup Lows \cup Keeps \cup {MuteHours, MaxHour} \subseteq Nat
    /\ {Unavailable, Unknown, NoEntity, Null} \cap Nat = {}

VARIABLES
    place,      \* the columns of a battery the plan reads
    state,      \* what the sensor of a battery shows
    spoke,
    refresh,    \* the coordinator's readings between the loop and the write
    sync,       \* what the synchronisation has read, or Null
    todo,       \* the open tasks
    hour

maintenanceVars == <<place, state, spoke, refresh, sync, todo, hour>>

Numeric(v) == v \in Levels
States     == Levels \cup {Unavailable, Unknown, NoEntity}
Place      == [watched : BOOLEAN, low : Lows, keep : Keeps,
               percent : Levels \cup {Null}, readAt : 0..MaxHour \cup {Null}]
Tasks      == ({"level", "mute"} \X Batteries) \cup MacroTasks

MaintenanceTypeOK ==
    /\ place \in [Batteries -> Place]
    /\ state \in [Batteries -> States] /\ spoke \in [Batteries -> BOOLEAN]
    /\ refresh = Null \/ refresh.reads \in [Batteries -> Levels \cup {Null}]
    /\ sync = Null \/ (sync.present \subseteq Tasks /\ sync.macro \subseteq MacroTasks)
    /\ todo \subseteq Tasks /\ hour \in 0..MaxHour

\* Declared, tracked, never read.
MaintenanceInit ==
    /\ place \in [Batteries -> [watched : {TRUE}, low : Lows, keep : Keeps,
                                percent : {Null}, readAt : {Null}]]
    /\ \A b \in Batteries : place[b].low <= place[b].keep
    /\ state = [b \in Batteries |-> Unknown] /\ spoke = [b \in Batteries |-> FALSE]
    /\ refresh = Null /\ sync = Null /\ todo = {} /\ hour = 0

(***************************************************************************)
(* Hands and devices                                                       *)
(***************************************************************************)
\* tracked and active are asked together everywhere.
Watch(b, watched) ==
    /\ place' = [place EXCEPT ![b].watched = watched]
    /\ UNCHANGED <<state, spoke, refresh, sync, todo, hour>>

SetThresholds(b, low, keep) ==
    /\ low <= keep
    /\ place' = [place EXCEPT ![b].low = low, ![b].keep = keep]
    /\ UNCHANGED <<state, spoke, refresh, sync, todo, hour>>

\* record_battery_event of an install or a replacement: the old reading goes.
ChangeCell(b) ==
    /\ place' = [place EXCEPT ![b].percent = Null, ![b].readAt = Null]
    /\ spoke' = [spoke EXCEPT ![b] = FALSE]
    /\ UNCHANGED <<state, refresh, sync, todo, hour>>

Report(b, level) ==
    /\ state' = [state EXCEPT ![b] = level] /\ spoke' = [spoke EXCEPT ![b] = TRUE]
    /\ UNCHANGED <<place, refresh, sync, todo, hour>>

\* The device is silent, Home Assistant restarts, the registry entry is gone.
FallSilent(b, s) ==
    /\ state[b] # s /\ state' = [state EXCEPT ![b] = s]
    /\ UNCHANGED <<place, spoke, refresh, sync, todo, hour>>

TickHour ==
    /\ hour < MaxHour /\ hour' = hour + 1
    /\ UNCHANGED <<place, state, spoke, refresh, sync, todo>>

TaskDone(t) ==
    /\ t \in todo /\ todo' = todo \ {t}
    /\ UNCHANGED <<place, state, spoke, refresh, sync, hour>>

(***************************************************************************)
(* The coordinator                                                         *)
(***************************************************************************)
\* On the event loop: only a number is a reading, and its moment is now.
ReadStates ==
    /\ refresh = Null
    /\ refresh' = [at |-> hour,
                   reads |-> [b \in Batteries |-> IF Numeric(state[b]) THEN state[b] ELSE Null]]
    /\ UNCHANGED <<place, state, spoke, sync, todo, hour>>

ReadingOnce(row, v, at) ==   \* mutant: only what is not known yet is written
    IF row.percent # Null THEN row ELSE [row EXCEPT !.percent = v, !.readAt = at]

Reading(row, v, at) == [row EXCEPT !.percent = v, !.readAt = at]

\* One executemany by id, whatever happened to the rows since.
RecordReadings ==
    /\ refresh # Null /\ refresh' = Null
    /\ place' = [b \in Batteries |->
                   IF refresh.reads[b] = Null THEN place[b]
                   ELSE Reading(place[b], refresh.reads[b], refresh.at)]
    /\ UNCHANGED <<state, spoke, sync, todo, hour>>

(***************************************************************************)
(* The plan                                                                *)
(***************************************************************************)
Watched == {b \in Batteries : place[b].watched}

\* The recorded percent before the live one.
Percent(b, s) == IF place[b].percent # Null THEN place[b].percent ELSE s[b]

Silent(b, s) == s[b] = Unavailable /\ place[b].readAt # Null

PlanItems(s) ==
    {<<"level", b>> : b \in {w \in Watched : Numeric(s[w]) /\ Percent(w, s) < place[w].low}}
    \cup
    {<<"mute", b>> : b \in {w \in Watched : Silent(w, s) /\ hour - place[w].readAt >= MuteHours}}

KeepsWhatIsRead(s) ==   \* mutant: a level nobody can read is let go
    {<<"level", b>> : b \in {w \in Watched : Numeric(s[w]) /\ Percent(w, s) < place[w].keep}}
    \cup
    {<<"mute", b>> : b \in {w \in Watched : Silent(w, s)}}

\* A level nobody can read is kept.
PlanKeep(s) ==
    {<<"level", b>> : b \in {w \in Watched : Numeric(s[w]) => Percent(w, s) < place[w].keep}}
    \cup
    {<<"mute", b>> : b \in {w \in Watched : Silent(w, s)}}

MergePlan(own, macro) == own \cup macro

\* The tasks and the states are read first; `macro` is what the template says.
SyncReads(macro) ==
    /\ sync = Null
    /\ sync' = [present |-> todo, macro |-> macro, states |-> state]
    /\ UNCHANGED <<place, state, spoke, refresh, todo, hour>>

\* A complete plan opens what it asks for and closes what it does not keep.
SyncApplies ==
    LET items == MergePlan(PlanItems(sync.states), sync.macro)
        keep  == MergePlan(PlanKeep(sync.states), sync.macro)
    IN  /\ sync # Null /\ sync' = Null
        /\ todo' = (todo \ (sync.present \ keep)) \cup (items \ sync.present)
        /\ UNCHANGED <<place, state, spoke, refresh, hour>>

\* The database cannot be read: the answer says complete: false, and nothing
\* is closed.
SyncIncomplete ==
    /\ sync # Null /\ sync' = Null
    /\ todo' = todo \cup (sync.macro \ sync.present)
    /\ UNCHANGED <<place, state, spoke, refresh, hour>>

MaintenanceNext ==
    \/ \E b \in Batteries, on \in BOOLEAN : Watch(b, on)
    \/ \E b \in Batteries, low \in Lows, keep \in Keeps : SetThresholds(b, low, keep)
    \/ \E b \in Batteries : ChangeCell(b)
    \/ \E b \in Batteries, v \in Levels : Report(b, v)
    \/ \E b \in Batteries, s \in {Unavailable, Unknown, NoEntity} : FallSilent(b, s)
    \/ TickHour
    \/ ReadStates
    \/ RecordReadings
    \/ \E m \in SUBSET MacroTasks : SyncReads(m)
    \/ SyncApplies
    \/ SyncIncomplete
    \/ \E t \in Tasks : TaskDone(t)

\* The coordinator comes back every fifteen minutes and the automation every
\* hour; the database can be read again and again.
MaintenanceFairness ==
    /\ WF_maintenanceVars(ReadStates) /\ WF_maintenanceVars(RecordReadings)
    /\ WF_maintenanceVars(\E m \in SUBSET MacroTasks : SyncReads(m))
    /\ SF_maintenanceVars(SyncApplies)

MaintenanceSpec == MaintenanceInit /\ [][MaintenanceNext]_maintenanceVars /\ MaintenanceFairness

(***************************************************************************)
(* Properties                                                              *)
(***************************************************************************)
\* The level task of a watched battery is closed by a synchronisation only on
\* a number at or above what it is kept under, an unwell database included.
Synchronised == sync # Null /\ sync' = Null
LevelClosesOnAMeasureStep ==
    \A b \in Watched : (Synchronised /\ <<"level", b>> \in todo \ todo')
        => Numeric(sync.states[b]) /\ Percent(b, sync.states) >= place[b].keep
LevelClosesOnAMeasure == [][LevelClosesOnAMeasureStep]_maintenanceVars

\* A level that stays low has its task again and again, whoever ticks it off;
\* one that stays high ends without.
IsLow(b)  == b \in Watched /\ Numeric(state[b]) /\ state[b] < place[b].low
IsFull(b) == b \in Watched /\ Numeric(state[b]) /\ state[b] >= place[b].keep
TasksFollowTheLevel ==
    \A b \in Batteries :
        /\ <>[]IsLow(b)  => []<>(<<"level", b>> \in todo)
        /\ <>[]IsFull(b) => <>[](<<"level", b>> \notin todo)

\* A task about a battery gone silent is closed on a measure as well.
MuteClosesOnAMeasure ==
    [][\A b \in Watched : (Synchronised /\ <<"mute", b>> \in todo \ todo')
          => Numeric(sync.states[b])]_maintenanceVars

\* Nothing is known of a new cell until its device speaks.
NewCellIsUnknown == \A b \in Batteries : place[b].percent # Null => spoke[b]
=============================================================================

------------------------------ MODULE Storage ------------------------------
(***************************************************************************)
(* The file, the connections to it and the migrations that build it.       *)
(*                                                                         *)
(* Each time the entry is set up there is a new Database: a writer, a      *)
(* reader and a lock of its own, all on the same file.  Unloading drops    *)
(* the connections without a lock, while jobs of the executor still hold   *)
(* them.  A migration is a script whose statements commit one by one, then *)
(* a hook and the row of the version, which commit with what comes next.   *)
(* Home Assistant may stop anywhere.                                       *)
(***************************************************************************)
EXTENDS House

CONSTANTS
    Current,        \* CURRENT_VERSION
    Statements,     \* migration -> statements of its script
    Hooked,         \* migrations with a data step of their own
    Repeatable,     \* statements that may run twice: <<migration, rank>>
    Jobs,           \* jobs of the executor that write
    MaxSetups,      \* bound: set-ups of the entry
    MaxTransactions \* bound: transactions begun

StorageConstants ==
    /\ Current \in Nat \ {0}
    /\ Statements \in [1..Current -> Nat \ {0}] /\ Hooked \subseteq 1..Current
    /\ {MaxSetups, MaxTransactions} \subseteq Nat

VARIABLES
    applied,        \* statements the file has kept
    seeded,         \* hooks whose rows the file has kept
    version,        \* schema_version, as committed
    boot,           \* what apply_migrations is at, or Null
    database,       \* the current Database: its number, or Null once closed
    setups,         \* how many Databases there have been
    ready,          \* the entry is loaded
    holder,         \* Database -> the job that holds its lock, or Null
    sqlite,         \* the Database whose writer has a transaction open, or Null
    pending,        \* Database -> what its writer has done and not committed
    job,            \* job -> the Database it looked at, its transaction, its half
    rows,           \* halves of transactions the file has kept
    begun           \* transactions begun

storageVars == <<applied, seeded, version, boot, database, setups, ready,
                 holder, sqlite, pending, job, rows, begun>>

Script(m)    == {m} \X (1..Statements[m])
Halves       == 1..2
Databases    == 1..MaxSetups
Transactions == 1..MaxTransactions

Boot == [at : 1..Current + 1, next : Nat, hook : SUBSET Hooked, version : 0..Current]
Job  == [of : Databases, txn : Transactions, half : 0..2]

StorageTypeOK ==
    /\ applied \subseteq UNION {Script(m) : m \in 1..Current}
    /\ seeded \subseteq Hooked /\ version \in 0..Current
    /\ boot \in Boot \cup {Null}
    /\ database \in Databases \cup {Null} /\ setups \in 0..MaxSetups
    /\ ready \in BOOLEAN
    /\ holder \in [Databases -> Jobs \cup {Null}]
    /\ sqlite \in Databases \cup {Null}
    /\ pending \in [Databases -> SUBSET (Transactions \X Halves)]
    /\ job \in [Jobs -> Job \cup {Null}]
    /\ rows \subseteq Transactions \X Halves /\ begun \in 0..MaxTransactions

StorageInit ==
    /\ applied = {} /\ seeded = {} /\ version = 0 /\ boot = Null
    /\ database = Null /\ setups = 0 /\ ready = FALSE
    /\ holder = [d \in Databases |-> Null] /\ sqlite = Null
    /\ pending = [d \in Databases |-> {}]
    /\ job = [j \in Jobs |-> Null] /\ rows = {} /\ begun = 0
-----------------------------------------------------------------------------
(* Setting the entry up: connect, then apply_migrations.                   *)

jobVars  == <<holder, pending, job, rows, begun>>
fileVars == <<applied, seeded, version>>

Connect ==
    /\ ~ready /\ database = Null /\ boot = Null /\ setups < MaxSetups
    /\ setups' = setups + 1 /\ database' = setups + 1
    /\ boot' = [at |-> version + 1, next |-> 1, hook |-> {}, version |-> version]
    /\ UNCHANGED <<fileVars, ready, sqlite, jobVars>>

\* executescript: commits what is pending, then statement after statement.
\* One that has run already raises, unless it may run twice.
RunStatement ==
    LET s == <<boot.at, boot.next>> IN
    /\ boot # Null /\ boot.at <= Current /\ boot.next <= Statements[boot.at]
    /\ sqlite \in {Null, database} /\ sqlite' = Null
    /\ s \notin applied \/ s \in Repeatable
    /\ applied' = applied \cup {s}
    /\ seeded' = seeded \cup boot.hook /\ version' = boot.version
    /\ boot' = [boot EXCEPT !.next = @ + 1, !.hook = {}]
    /\ UNCHANGED <<database, setups, ready, jobVars>>

\* mutant: the version is written before the script has run.
VersionFirst == boot.next = 1
VersionNow   == boot.next > Statements[boot.at]

\* The hook, and the row of the version, not yet committed.
FinishMigration ==
    /\ boot # Null /\ boot.at <= Current /\ VersionNow
    /\ sqlite \in {Null, database} /\ sqlite' = database
    /\ boot' = [at |-> boot.at + 1, next |-> 1, version |-> boot.at,
                hook |-> boot.hook \cup ({boot.at} \cap Hooked)]
    /\ UNCHANGED <<fileVars, database, setups, ready, jobVars>>

\* The end of database.write(): the last version is committed.
BecomeReady ==
    /\ boot # Null /\ boot.at > Current
    /\ sqlite \in {Null, database} /\ sqlite' = Null
    /\ seeded' = seeded \cup boot.hook /\ version' = boot.version
    /\ boot' = Null /\ ready' = TRUE
    /\ UNCHANGED <<applied, database, setups, jobVars>>

\* A statement that cannot run twice, a busy file, a hook that raises:
\* rolled back, closed, ConfigEntryNotReady, tried again later.
SetupFails ==
    /\ boot # Null
    /\ boot' = Null /\ database' = Null
    /\ sqlite' = IF sqlite = database THEN Null ELSE sqlite
    /\ UNCHANGED <<fileVars, setups, ready, jobVars>>

\* close() takes no lock and frees nothing a job still holds.
Unload ==
    /\ ready /\ ready' = FALSE /\ database' = Null
    /\ UNCHANGED <<fileVars, boot, setups, sqlite, jobVars>>

\* Everything not committed is gone.
Stop ==
    /\ setups > 0
    /\ boot' = Null /\ database' = Null /\ ready' = FALSE /\ sqlite' = Null
    /\ holder' = [d \in Databases |-> Null] /\ pending' = [d \in Databases |-> {}]
    /\ job' = [j \in Jobs |-> Null]
    /\ UNCHANGED <<fileVars, setups, rows, begun>>
-----------------------------------------------------------------------------
(* A write: one look at the connection, the lock of its Database, the      *)
(* transaction on the file, two halves of work, commit or rollback.  The   *)
(* jobs of one Database share its writer, so a commit keeps all that is    *)
(* pending on it.                                                          *)

bootVars == <<fileVars, boot, database, setups, ready>>

\* A closed Database raises RuntimeError: no job.
LookAtConnection(j) ==
    /\ ready /\ job[j] = Null /\ begun < MaxTransactions
    /\ begun' = begun + 1
    /\ job' = [job EXCEPT ![j] = [of |-> database, txn |-> begun + 1, half |-> 0]]
    /\ UNCHANGED <<bootVars, holder, sqlite, pending, rows>>

\* mutant: the lock is entered by whoever comes.
EnteredFreely(d)  == TRUE
Unlocked(d) == holder[d] = Null

TakeLock(j) ==
    /\ job[j] # Null /\ Unlocked(job[j].of)
    /\ holder' = [holder EXCEPT ![job[j].of] = j]
    /\ UNCHANGED <<bootVars, sqlite, pending, job, rows, begun>>

Holds(j) == job[j] # Null /\ holder[job[j].of] = j

\* The first statement takes SQLite's own lock, which the writer of another
\* Database may have.
Work(j) ==
    LET d == job[j].of IN
    /\ Holds(j) /\ job[j].half < 2
    /\ sqlite \in {Null, d} /\ sqlite' = d
    /\ job' = [job EXCEPT ![j].half = @ + 1]
    /\ pending' = [pending EXCEPT ![d] = @ \cup {<<job[j].txn, job[j].half + 1>>}]
    /\ UNCHANGED <<bootVars, holder, rows, begun>>

\* mutant: what an exception interrupted is committed.
KeptHalves(j) == pending[job[j].of]

\* Commit of what is whole; rollback of what an exception interrupted.
Committed(j) == IF job[j].half = 2 THEN pending[job[j].of] ELSE {}

EndWrite(j) ==
    LET d == job[j].of IN
    /\ Holds(j)
    /\ rows' = rows \cup Committed(j)
    /\ pending' = [pending EXCEPT ![d] = {}]
    /\ holder' = [holder EXCEPT ![d] = Null]
    /\ sqlite' = IF sqlite = d THEN Null ELSE sqlite
    /\ job' = [job EXCEPT ![j] = Null]
    /\ UNCHANGED <<bootVars, begun>>

StorageNext ==
    \/ Connect \/ RunStatement \/ FinishMigration \/ BecomeReady \/ SetupFails
    \/ Unload \/ Stop
    \/ \E j \in Jobs : LookAtConnection(j) \/ TakeLock(j) \/ Work(j) \/ EndWrite(j)

StorageSpec == StorageInit /\ [][StorageNext]_storageVars
-----------------------------------------------------------------------------
(* The version never promises a table, a column or a row of the            *)
(* referential that is not in the file, wherever Home Assistant stopped,   *)
(* and an entry that is loaded runs on the schema of its code.             *)
VersionTellsTheTruth ==
    /\ UNION {Script(m) : m \in 1..version} \subseteq applied
    /\ 1..version \cap Hooked \subseteq seeded
    /\ ready => version = Current

(* A transaction leaves both its halves or neither, though it was closed   *)
(* under the job that ran it and another Database was opened meanwhile.    *)
AllOrNothing ==
    \A t \in Transactions : <<t, 1>> \in rows <=> <<t, 2>> \in rows

(* What nobody may find wrong in the file.                                 *)
StorageSound == StorageTypeOK /\ VersionTellsTheTruth /\ AllOrNothing

(* The file keeps the promise of WholeWrites: a transaction is kept once both
   its halves are. *)
KeptWhole == {t \in Transactions : \A h \in Halves : <<t, h>> \in rows}
Wholly == INSTANCE WholeWrites WITH begun <- begun, kept <- KeptWhole, level <- version
KeepsWritesWhole == Wholly!Spec

(* Whatever closes, stops or runs out in the middle, no step leaves the    *)
(* file unsound, and the file keeps its promise.                           *)
FileSound == KeepsWritesWhole /\ [][StorageSound']_storageVars

(* Wherever it stopped, the file can still be brought to the version of    *)
(* the code: the statement that comes next has not run yet.                *)
MigrationCanGoOn ==
    boot # Null /\ boot.at <= Current /\ boot.next <= Statements[boot.at] =>
        <<boot.at, boot.next>> \notin applied \ Repeatable
=============================================================================

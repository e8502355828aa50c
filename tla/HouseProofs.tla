----------------------------- MODULE HouseProofs -----------------------------
(***************************************************************************)
(* Theorems about the parts of the house that share its file and live      *)
(* beside its stock: the file itself, the receipts, the places of the      *)
(* batteries with their spares and their tasks, the lines of the recipes,  *)
(* the articles Open Food Facts is asked about, and the catalogue with its *)
(* conversions.  Each part has an inductive invariant of its own; no       *)
(* theorem speaks of two parts.                                            *)
(***************************************************************************)
EXTENDS Storage, Receipts, Upkeep, Maintenance, Kitchen, Articles, Catalogue, SumProofs

(***************************************************************************)
(* The file, for every list of migrations, every number of jobs and of     *)
(* set-ups: the version tells the truth about it, and it implements        *)
(* WholeWrites, whoever closes the connection under a job and wherever     *)
(* Home Assistant stops.  The version is written after what it promises,   *)
(* and between the two only `boot` knows how far the file has come         *)
(* (`BootSound`).  The writer of a Database is shared, and what is pending *)
(* on it belongs to the job that holds its lock and to no other            *)
(* (`LockSound`): that is why a commit keeps one transaction and nothing   *)
(* else.                                                                   *)
(***************************************************************************)
\* What the constants are, and that Null is none of what a variable holds.
StorageAssumptions ==
    StorageConstants /\ Null \notin Jobs /\ Null \notin Nat /\ Null \notin Job

(***************************************************************************)
(* The inductive invariant                                                 *)
(***************************************************************************)
\* The version is raised by one at each migration, and what it will promise
\* is in the file or in the transaction the row itself is in.
BootSound ==
    boot # Null =>
        /\ ~ready /\ database \in Databases
        /\ boot.at = boot.version + 1 /\ boot.next >= 1
        /\ version <= boot.version
        /\ \A m \in 1..boot.version : Script(m) \subseteq applied
        /\ boot.at <= Current =>
              /\ boot.next <= Statements[boot.at] + 1
              /\ \A k \in 1..boot.next - 1 : <<boot.at, k>> \in applied
        /\ 1..boot.version \cap Hooked \subseteq seeded \cup boot.hook

\* A loaded entry has a Database.
LoadedSound == ready => database \in Databases /\ boot = Null

\* What a job has done and not committed.
DoneBy(j) == {<<job[j].txn, h>> : h \in 1..job[j].half}

\* What is pending on a writer is the work of the job that holds its lock.
LockSound ==
    \A d \in Databases :
        /\ holder[d] = Null => pending[d] = {}
        /\ holder[d] # Null =>
              /\ job[holder[d]] # Null /\ job[holder[d]].of = d
              /\ pending[d] = DoneBy(holder[d])

\* Without the lock nothing is done.
WaitingSound ==
    \A j \in Jobs : job[j] # Null /\ holder[job[j].of] # j => job[j].half = 0

\* Nothing is kept that was not begun.
BegunSound ==
    /\ \A j \in Jobs : job[j] # Null => job[j].txn \in 1..begun
    /\ \A row \in rows : row[1] \in 1..begun

FileInv  == StorageTypeOK /\ BootSound /\ LoadedSound /\ VersionTellsTheTruth
WriteInv == StorageTypeOK /\ LoadedSound /\ LockSound /\ WaitingSound
            /\ BegunSound /\ AllOrNothing

(***************************************************************************)
(* Types                                                                   *)
(***************************************************************************)
\* The first state has the right types.
LEMMA TypesAtFirst ==
    ASSUME StorageAssumptions, StorageInit
    PROVE  StorageTypeOK
<1>1. MaxSetups \in Nat /\ MaxTransactions \in Nat /\ Current \in Nat
  BY DEF StorageAssumptions, StorageConstants
<1>2. job \in [Jobs -> Job \cup {Null}] /\ holder \in [Databases -> Jobs \cup {Null}]
  BY DEF StorageInit
<1>3. pending \in [Databases -> SUBSET (Transactions \X Halves)]
  BY DEF StorageInit
<1>4. /\ applied \subseteq UNION {Script(m) : m \in 1..Current}
      /\ seeded \subseteq Hooked /\ rows \subseteq Transactions \X Halves
  BY DEF StorageInit
<1>5. version \in 0..Current /\ setups \in 0..MaxSetups /\ begun \in 0..MaxTransactions
  BY <1>1 DEF StorageInit
<1>6. boot = Null /\ database = Null /\ sqlite = Null /\ ready = FALSE
  BY DEF StorageInit
<1>. QED
  BY <1>2, <1>3, <1>4, <1>5, <1>6 DEF StorageTypeOK

\* Migrations and the life of the Database keep the types.
LEMMA BootKeepsTypes ==
    ASSUME StorageAssumptions, StorageTypeOK, BootSound, LoadedSound,
           \/ Connect \/ RunStatement \/ FinishMigration \/ BecomeReady
           \/ SetupFails \/ Unload \/ Stop
    PROVE  StorageTypeOK'
<1> USE DEF StorageAssumptions, StorageConstants, StorageTypeOK, Databases,
            Transactions, Halves, jobVars, fileVars
<1>1. CASE Connect
  <2>1. boot' \in Boot
    BY <1>1 DEF Connect, Boot
  <2>. QED
    BY <1>1, <2>1 DEF Connect
<1>2. CASE RunStatement
  <2>1. boot \in Boot
    BY <1>2 DEF RunStatement
  <2>5. boot' = [boot EXCEPT !.next = boot.next + 1, !.hook = {}]
    BY <1>2 DEF RunStatement
  <2>6. boot' \in Boot
    <3>1. boot.next + 1 \in Nat
      BY <2>1 DEF Boot
    <3>. QED
      BY <2>1, <2>5, <3>1 DEF Boot
  <2>2. boot.at \in 1..Current /\ boot.next \in 1..Statements[boot.at]
    BY <1>2, <2>1 DEF RunStatement, BootSound, Boot
  <2>3. <<boot.at, boot.next>> \in UNION {Script(m) : m \in 1..Current}
    BY <2>2 DEF Script
  <2>4. boot.hook \subseteq Hooked /\ boot.version \in 0..Current
    BY <2>1 DEF Boot
  <2>. QED
    BY <1>2, <2>3, <2>4, <2>6 DEF RunStatement
<1>3. CASE FinishMigration
  <2>1. boot \in Boot /\ database \in Databases
    BY <1>3 DEF FinishMigration, BootSound
  <2>2. boot' \in Boot
    BY <1>3, <2>1 DEF FinishMigration, Boot
  <2>. QED
    BY <1>3, <2>1, <2>2 DEF FinishMigration
<1>4. CASE BecomeReady
  <2>1. boot \in Boot
    BY <1>4 DEF BecomeReady
  <2>. QED
    BY <1>4, <2>1 DEF BecomeReady, Boot
<1>5. CASE SetupFails
  BY <1>5 DEF SetupFails
<1>6. CASE Unload
  BY <1>6 DEF Unload
<1>7. CASE Stop
  BY <1>7 DEF Stop
<1>. QED
  BY <1>1, <1>2, <1>3, <1>4, <1>5, <1>6, <1>7

\* The steps of a job keep the types.
LEMMA JobKeepsTypes ==
    ASSUME StorageAssumptions, StorageTypeOK, LoadedSound, NEW j \in Jobs,
           LookAtConnection(j) \/ TakeLock(j) \/ Work(j) \/ EndWrite(j)
    PROVE  StorageTypeOK'
<1> USE DEF StorageAssumptions, StorageConstants, StorageTypeOK, Databases,
            Transactions, Halves, bootVars, fileVars, Job
<1>1. CASE LookAtConnection(j)
  BY <1>1 DEF LookAtConnection, LoadedSound
<1>2. CASE TakeLock(j)
  BY <1>2 DEF TakeLock
<1>3. CASE Work(j)
  <2>1. job[j] \in Job /\ job[j].half \in 0..1
    BY <1>3 DEF Work, Holds
  <2>4. [job[j] EXCEPT !.half = job[j].half + 1] \in Job
    <3>1. job[j].half + 1 \in 0..2
      BY <2>1
    <3>. QED
      BY <2>1, <3>1
  <2>2. job' \in [Jobs -> Job \cup {Null}]
    BY <1>3, <2>4 DEF Work
  <2>3. pending' \in [Databases -> SUBSET (Transactions \X Halves)]
    BY <1>3, <2>1 DEF Work
  <2>. QED
    BY <1>3, <2>1, <2>2, <2>3 DEF Work
<1>4. CASE EndWrite(j)
  <2>1. job[j] \in Job
    BY <1>4 DEF EndWrite, Holds
  <2>. QED
    BY <1>4, <2>1 DEF EndWrite, Committed
<1>. QED
  BY <1>1, <1>2, <1>3, <1>4
(***************************************************************************)
(* The version and the file                                                *)
(***************************************************************************)
\* Migrations and the life of the Database keep what `boot` knows and what
\* the version promises.
LEMMA BootKeepsTruth ==
    ASSUME StorageAssumptions, FileInv,
           \/ Connect \/ RunStatement \/ FinishMigration \/ BecomeReady
           \/ SetupFails \/ Unload \/ Stop
    PROVE  (BootSound /\ LoadedSound /\ VersionTellsTheTruth)'
<1> USE DEF FileInv, jobVars, fileVars
<1>0. /\ Current \in Nat /\ version \in 0..Current /\ setups \in Nat /\ MaxSetups \in Nat
      /\ \A m \in 1..Current : Statements[m] \in Nat \ {0}
      /\ boot # Null => boot \in Boot
  BY DEF StorageAssumptions, StorageConstants, StorageTypeOK
<1>1. CASE Connect
  <2>1. /\ boot'.at = version + 1 /\ boot'.next = 1 /\ boot'.hook = {}
        /\ boot'.version = version /\ database' \in Databases
        /\ version' = version /\ applied' = applied /\ seeded' = seeded
        /\ ready' = FALSE
    BY <1>0, <1>1 DEF Connect, Databases, LoadedSound, StorageTypeOK
  <2>2. BootSound'
    <3>1. \A m \in 1..version : Script(m)' \subseteq applied
      BY DEF VersionTellsTheTruth, Script
    <3>2. boot'.at <= Current => boot'.next <= Statements[boot'.at] + 1
      BY <1>0, <2>1
    <3>. QED
      BY <1>0, <2>1, <3>1, <3>2 DEF BootSound, VersionTellsTheTruth, Script
  <2>. QED
    BY <2>1, <2>2 DEF LoadedSound, VersionTellsTheTruth, Script
<1>2. CASE RunStatement
  <2>1. /\ boot \in Boot /\ ~ready /\ database \in Databases
        /\ boot.at <= Current /\ boot.next <= Statements[boot.at]
        /\ applied' = applied \cup {<<boot.at, boot.next>>}
        /\ seeded' = seeded \cup boot.hook /\ version' = boot.version
        /\ ready' = ready /\ database' = database
    BY <1>0, <1>2 DEF RunStatement, BootSound
  <2>2. boot' = [boot EXCEPT !.next = boot.next + 1, !.hook = {}]
    BY <1>2 DEF RunStatement
  <2>3. /\ boot'.at = boot.at /\ boot'.next = boot.next + 1 /\ boot'.hook = {}
        /\ boot'.version = boot.version
        /\ boot.next \in Nat /\ boot.version \in Nat /\ boot.at \in Nat
    BY <2>1, <2>2 DEF Boot
  <2>4. /\ \A m \in 1..boot.version : Script(m) \subseteq applied'
        /\ 1..boot.version \cap Hooked \subseteq seeded'
    BY <1>2, <2>1 DEF BootSound, RunStatement
  <2>5. \A k \in 1..boot.next : <<boot.at, k>> \in applied'
    BY <1>2, <2>1, <2>3 DEF BootSound, RunStatement
  <2>6. BootSound'
    <3>1. boot.next + 1 <= Statements[boot.at] + 1
      BY <1>0, <2>1, <2>3, <1>2 DEF BootSound, RunStatement
    <3>2. boot.at = boot.version + 1 /\ boot.next >= 1
      BY <1>2 DEF BootSound, RunStatement
    <3>. QED
      BY <2>1, <2>3, <2>4, <2>5, <3>1, <3>2 DEF BootSound, Script, Databases
  <2>. QED
    BY <2>1, <2>4, <2>6 DEF LoadedSound, VersionTellsTheTruth, Script
<1>3. CASE FinishMigration
  <2>1. /\ boot \in Boot /\ ~ready /\ database \in Databases
        /\ boot.at <= Current /\ boot.next > Statements[boot.at]
        /\ boot.at = boot.version + 1 /\ version <= boot.version
        /\ UNCHANGED <<applied, seeded, version, database, ready>>
    BY <1>0, <1>3 DEF FinishMigration, BootSound, VersionNow
  <2>2. /\ boot'.at = boot.at + 1 /\ boot'.next = 1 /\ boot'.version = boot.at
        /\ boot'.hook = boot.hook \cup ({boot.at} \cap Hooked)
        /\ boot.at \in Nat /\ boot.version \in Nat /\ boot.next \in Nat
    BY <1>3, <2>1 DEF FinishMigration, Boot
  <2>3. Script(boot.at) \subseteq applied
    BY <1>0, <1>3, <2>1, <2>2 DEF BootSound, Script, FinishMigration
  <2>4. \A m \in 1..boot.at : Script(m) \subseteq applied
    <3>1. \A m \in 1..boot.at : m = boot.at \/ m \in 1..boot.version
      BY <2>1, <2>2
    <3>. QED
      BY <1>3, <2>3, <3>1 DEF BootSound, FinishMigration
  <2>5. 1..boot.at \cap Hooked \subseteq seeded \cup boot'.hook
    <3>1. \A m \in 1..boot.at : m = boot.at \/ m \in 1..boot.version
      BY <2>1, <2>2
    <3>2. 1..boot.version \cap Hooked \subseteq seeded \cup boot.hook
      BY <1>3 DEF BootSound, FinishMigration
    <3>. QED
      BY <2>2, <3>1, <3>2
  <2>6. boot'.at <= Current => 1 <= Statements[boot'.at] + 1
    BY <1>0, <2>1, <2>2
  <2>7. boot'.at = boot'.version + 1 /\ version' <= boot'.version
    BY <1>0, <2>1, <2>2
  <2>8. \A k \in 1..boot'.next - 1 : FALSE
    BY <2>2
  <2>9. /\ \A m \in 1..boot'.version : Script(m)' \subseteq applied'
        /\ 1..boot'.version \cap Hooked \subseteq (seeded \cup boot.hook)'
    BY <2>1, <2>2, <2>4, <2>5 DEF Script
  <2>10. BootSound'
    BY <2>1, <2>2, <2>6, <2>7, <2>8, <2>9 DEF BootSound, Databases
  <2>11. VersionTellsTheTruth'
    BY <2>1 DEF FileInv, VersionTellsTheTruth, Script
  <2>. QED
    BY <2>1, <2>10, <2>11 DEF LoadedSound
<1>4. CASE BecomeReady
  <2>1. /\ boot \in Boot /\ boot.at > Current /\ boot.at = boot.version + 1
        /\ boot' = Null /\ ready' = TRUE /\ database' = database
        /\ database \in Databases /\ applied' = applied
        /\ seeded' = seeded \cup boot.hook /\ version' = boot.version
    BY <1>0, <1>4 DEF BecomeReady, BootSound
  <2>2. boot.version = Current
    BY <1>0, <2>1 DEF Boot
  <2>3. /\ \A m \in 1..boot.version : Script(m) \subseteq applied
        /\ 1..boot.version \cap Hooked \subseteq seeded \cup boot.hook
    BY <1>4 DEF BecomeReady, BootSound
  <2>4. VersionTellsTheTruth'
    BY <2>1, <2>2, <2>3 DEF VersionTellsTheTruth, Script
  <2>. QED
    BY <2>1, <2>4 DEF BootSound, LoadedSound, Databases
<1>5. CASE SetupFails
  BY <1>5 DEF SetupFails, BootSound, LoadedSound, VersionTellsTheTruth, Script
<1>6. CASE Unload
  BY <1>6 DEF Unload, BootSound, LoadedSound, VersionTellsTheTruth, Script
<1>7. CASE Stop
  BY <1>7 DEF Stop, BootSound, LoadedSound, VersionTellsTheTruth, Script
<1>. QED
  BY <1>1, <1>2, <1>3, <1>4, <1>5, <1>6, <1>7

\* A job touches neither the schema nor the life of the Database.
LEMMA JobKeepsTruth ==
    ASSUME FileInv, NEW j \in Jobs,
           LookAtConnection(j) \/ TakeLock(j) \/ Work(j) \/ EndWrite(j)
    PROVE  (BootSound /\ LoadedSound /\ VersionTellsTheTruth)'
<1>1. UNCHANGED <<applied, seeded, version, boot, database, setups, ready>>
  BY DEF LookAtConnection, TakeLock, Work, EndWrite, bootVars, fileVars
<1>. QED
  BY <1>1 DEF FileInv, BootSound, LoadedSound, VersionTellsTheTruth, Script, Databases

\* What the theorem about the version needs holds in every state.
LEMMA FileInvariant ==
    ASSUME StorageAssumptions
    PROVE  StorageSpec => []FileInv
<1>1. StorageInit => FileInv
  <2>1. ASSUME StorageInit
        PROVE  FileInv
    <3>1. 1..version = {}
      BY <2>1 DEF StorageInit
    <3>2. BootSound /\ LoadedSound /\ VersionTellsTheTruth
      BY <2>1, <3>1 DEF StorageInit, BootSound, LoadedSound, VersionTellsTheTruth
    <3>. QED
      BY <2>1, <3>2, TypesAtFirst DEF FileInv
  <2>. QED
    BY <2>1
<1>2. FileInv /\ [StorageNext]_storageVars => FileInv'
  <2>. SUFFICES ASSUME FileInv, [StorageNext]_storageVars
                PROVE  FileInv'
    OBVIOUS
  <2>1. CASE \/ Connect \/ RunStatement \/ FinishMigration \/ BecomeReady
             \/ SetupFails \/ Unload \/ Stop
    BY <2>1, BootKeepsTypes, BootKeepsTruth DEF FileInv
  <2>2. ASSUME NEW j \in Jobs,
               LookAtConnection(j) \/ TakeLock(j) \/ Work(j) \/ EndWrite(j)
        PROVE  FileInv'
    BY <2>2, JobKeepsTypes, JobKeepsTruth DEF FileInv
  <2>3. CASE UNCHANGED storageVars
    BY <2>3 DEF storageVars, FileInv, StorageTypeOK, BootSound, LoadedSound,
                VersionTellsTheTruth, Script, Databases, Transactions, Halves, Boot, Job
  <2>. QED
    BY <2>1, <2>2, <2>3 DEF StorageNext
<1>. QED
  BY <1>1, <1>2, PTL DEF StorageSpec

(* Whatever the migrations are and wherever Home Assistant stops, the      *)
(* version in the file is never ahead of the tables and the rows it stands *)
(* for, and a loaded entry runs on the version of its code                 *)
(* (apply_migrations, async_setup_entry).                                  *)
THEOREM TruthfulVersion ==
    ASSUME StorageAssumptions
    PROVE  StorageSpec => []VersionTellsTheTruth
<1>1. FileInv => VersionTellsTheTruth
  BY DEF FileInv
<1>. QED
  BY <1>1, FileInvariant, PTL

(***************************************************************************)
(* Transactions                                                            *)
(***************************************************************************)
\* Opening and closing Databases leaves the writes of jobs alone; a stop
\* takes what was not committed.
LEMMA BootKeepsWrites ==
    ASSUME StorageAssumptions, WriteInv,
           \/ Connect \/ RunStatement \/ FinishMigration \/ BecomeReady
           \/ SetupFails \/ Unload \/ Stop
    PROVE  (LockSound /\ WaitingSound /\ BegunSound /\ AllOrNothing)'
<1>1. CASE UNCHANGED jobVars
  BY <1>1 DEF jobVars, WriteInv, LockSound, WaitingSound, BegunSound, AllOrNothing,
              DoneBy, Databases, Transactions
<1>2. CASE Stop
  BY <1>2 DEF Stop, WriteInv, LockSound, WaitingSound, BegunSound, AllOrNothing,
              DoneBy, Databases, Transactions, StorageAssumptions
<1>. QED
  BY <1>1, <1>2 DEF Connect, RunStatement, FinishMigration, BecomeReady, SetupFails, Unload

\* What a job that looks at the connection and takes the lock leaves.
LEMMA WaitingKeepsWrites ==
    ASSUME StorageAssumptions, WriteInv, NEW j \in Jobs,
           LookAtConnection(j) \/ TakeLock(j)
    PROVE  (LockSound /\ WaitingSound /\ BegunSound /\ AllOrNothing)'
<1> USE DEF WriteInv, StorageTypeOK
<1>0. /\ begun \in Nat /\ begun' \in Nat /\ Null \notin Jobs
      /\ \A k \in Jobs : job[k] # Null => job[k] \in Job
  BY DEF StorageAssumptions, StorageConstants, LookAtConnection, TakeLock
<1>1. CASE LookAtConnection(j)
  <2>1. /\ job[j] = Null /\ begun' = begun + 1 /\ job'[j].half = 0
        /\ job'[j].txn = begun + 1 /\ \A k \in Jobs \ {j} : job'[k] = job[k]
        /\ UNCHANGED <<holder, pending, rows>>
    BY <1>1 DEF LookAtConnection
  <2>2. LockSound'
    <3>1. \A d \in Databases : holder[d] # Null => holder[d] \in Jobs \ {j}
      BY <2>1 DEF LockSound
    <3>. QED
      BY <2>1, <3>1 DEF LockSound, DoneBy, Databases
  <2>3. WaitingSound'
    BY <2>1 DEF WaitingSound
  <2>4. BegunSound'
    BY <1>0, <2>1 DEF BegunSound
  <2>. QED
    BY <2>1, <2>2, <2>3, <2>4 DEF AllOrNothing, Transactions
<1>2. CASE TakeLock(j)
  <2>1. /\ job[j] \in Job /\ job[j].of \in Databases /\ holder[job[j].of] = Null
        /\ holder' = [holder EXCEPT ![job[j].of] = j]
        /\ UNCHANGED <<job, pending, rows, begun>>
    BY <1>0, <1>2 DEF TakeLock, Unlocked, Job
  <2>2. job[j].half = 0
    BY <1>0, <1>2, <2>1 DEF WaitingSound, TakeLock
  <2>3. DoneBy(j) = {} /\ pending[job[j].of] = {}
    BY <2>1, <2>2 DEF DoneBy, LockSound
  <2>4. LockSound'
    BY <1>0, <1>2, <2>1, <2>3 DEF LockSound, DoneBy, Databases, TakeLock
  <2>5. WaitingSound'
    BY <1>0, <2>1 DEF WaitingSound, Job
  <2>. QED
    BY <2>1, <2>4, <2>5 DEF BegunSound, AllOrNothing, Transactions
<1>. QED
  BY <1>1, <1>2

\* The work of a job is pending on its writer, beside nobody else's.
LEMMA WorkKeepsWrites ==
    ASSUME StorageAssumptions, WriteInv, NEW j \in Jobs, Work(j)
    PROVE  (LockSound /\ WaitingSound /\ BegunSound /\ AllOrNothing)'
<1> USE DEF WriteInv, StorageTypeOK
<1> DEFINE d == job[j].of
<1>1. /\ job[j] \in Job /\ d \in Databases /\ holder[d] = j
      /\ job[j].half \in 0..1 /\ j # Null
  BY DEF Work, Holds, Job, StorageAssumptions
<1>2. job'[j] = [job[j] EXCEPT !.half = job[j].half + 1]
  BY DEF Work
<1>3. /\ job'[j].of = d /\ job'[j].txn = job[j].txn
      /\ job'[j].half = job[j].half + 1 /\ job'[j] \in Job
  <2>1. job[j].half + 1 \in 0..2
    BY <1>1
  <2>. QED
    BY <1>1, <1>2, <2>1 DEF Job
<1>4. /\ \A k \in Jobs \ {j} : job'[k] = job[k]
      /\ \A e \in Databases \ {d} : pending'[e] = pending[e]
      /\ pending'[d] = pending[d] \cup {<<job[j].txn, job[j].half + 1>>}
      /\ UNCHANGED <<holder, rows, begun>>
  BY <1>1 DEF Work, bootVars
<1>5. job[j] # Null /\ job'[j] # Null
  BY <1>3 DEF Work, Holds, StorageAssumptions
<1>6. DoneBy(j)' = DoneBy(j) \cup {<<job[j].txn, job[j].half + 1>>}
  BY <1>1, <1>3 DEF DoneBy
<1>7. LockSound'
  <2>1. ASSUME NEW e \in Databases, e # d, holder[e] # Null
        PROVE  holder[e] \in Jobs \ {j}
    BY <2>1 DEF LockSound
  <2>. QED
    BY <1>1, <1>3, <1>4, <1>5, <1>6, <2>1 DEF LockSound, DoneBy, Databases
<1>8. WaitingSound'
  BY <1>1, <1>3, <1>4 DEF WaitingSound
<1>9. BegunSound' /\ AllOrNothing'
  BY <1>3, <1>4, <1>5 DEF BegunSound, AllOrNothing, Transactions
<1>. QED
  BY <1>7, <1>8, <1>9

\* The end of a write keeps both halves of one transaction, or nothing.
LEMMA EndKeepsOne ==
    ASSUME StorageAssumptions, WriteInv, NEW j \in Jobs, EndWrite(j)
    PROVE  /\ job[j] \in Job /\ job[j].txn \in 1..begun
           /\ Committed(j) = {} \/ Committed(j) = {<<job[j].txn, 1>>, <<job[j].txn, 2>>}
<1>1. job[j] \in Job /\ holder[job[j].of] = j /\ j # Null /\ job[j].of \in Databases
  BY DEF EndWrite, Holds, WriteInv, StorageTypeOK, StorageAssumptions, Job
<1>2. pending[job[j].of] = DoneBy(j)
  BY <1>1 DEF WriteInv, LockSound
<1>3. CASE job[j].half = 2
  <2>1. 1..2 = {1, 2}
    OBVIOUS
  <2>2. DoneBy(j) = {<<job[j].txn, 1>>, <<job[j].txn, 2>>}
    BY <1>3, <2>1 DEF DoneBy
  <2>. QED
    BY <1>1, <1>2, <1>3, <2>2 DEF Committed, WriteInv, BegunSound, EndWrite, Holds
<1>4. CASE job[j].half # 2
  BY <1>1, <1>4 DEF Committed, WriteInv, BegunSound, EndWrite, Holds
<1>. QED
  BY <1>3, <1>4

\* The end of a write leaves its writer clean and the other jobs alone.
LEMMA EndKeepsWrites ==
    ASSUME StorageAssumptions, WriteInv, NEW j \in Jobs, EndWrite(j)
    PROVE  (LockSound /\ WaitingSound /\ BegunSound /\ AllOrNothing)'
<1> USE DEF WriteInv, StorageTypeOK
<1> DEFINE d == job[j].of
<1>1. /\ job[j] \in Job /\ d \in Databases /\ holder[d] = j /\ j # Null
      /\ job[j].txn \in 1..begun
  BY EndKeepsOne DEF EndWrite, Holds, StorageAssumptions, Job
<1>2. /\ \A k \in Jobs \ {j} : job'[k] = job[k]
      /\ job'[j] = Null /\ holder'[d] = Null /\ pending'[d] = {}
      /\ \A e \in Databases \ {d} : pending'[e] = pending[e] /\ holder'[e] = holder[e]
      /\ rows' = rows \cup Committed(j) /\ begun' = begun
  BY <1>1 DEF EndWrite, bootVars
<1>3. LockSound'
  <2>1. ASSUME NEW e \in Databases, e # d, holder[e] # Null
        PROVE  holder[e] \in Jobs \ {j}
    BY <2>1 DEF LockSound
  <2>. QED
    BY <1>1, <1>2, <2>1 DEF LockSound, DoneBy, Databases
<1>4. WaitingSound'
  <2>1. ASSUME NEW k \in Jobs \ {j}, job[k] # Null, holder'[job[k].of] # k
        PROVE  holder[job[k].of] # k
    BY <1>1, <1>2, <2>1 DEF Job
  <2>. QED
    BY <1>2, <2>1 DEF WaitingSound
<1>5. BegunSound'
  BY <1>1, <1>2, EndKeepsOne DEF BegunSound
<1>6. AllOrNothing'
  <2>1. CASE Committed(j) = {}
    BY <1>2, <2>1 DEF AllOrNothing, Transactions
  <2>2. CASE Committed(j) = {<<job[j].txn, 1>>, <<job[j].txn, 2>>}
    BY <1>2, <2>2 DEF AllOrNothing, Transactions
  <2>. QED
    BY <2>1, <2>2, EndKeepsOne
<1>. QED
  BY <1>3, <1>4, <1>5, <1>6

\* What the theorems about transactions need holds in every state.
LEMMA WriteInvariant ==
    ASSUME StorageAssumptions
    PROVE  StorageSpec => [](FileInv /\ WriteInv)
<1>1. StorageInit => WriteInv
  BY TypesAtFirst DEF StorageInit, WriteInv, LoadedSound, LockSound, WaitingSound,
                      BegunSound, AllOrNothing, Transactions
<1>2. FileInv /\ WriteInv /\ [StorageNext]_storageVars => WriteInv'
  <2>. SUFFICES ASSUME FileInv, WriteInv, [StorageNext]_storageVars
                PROVE  WriteInv'
    OBVIOUS
  <2>1. CASE \/ Connect \/ RunStatement \/ FinishMigration \/ BecomeReady
             \/ SetupFails \/ Unload \/ Stop
    BY <2>1, BootKeepsTypes, BootKeepsTruth, BootKeepsWrites DEF FileInv, WriteInv
  <2>2. ASSUME NEW j \in Jobs,
               LookAtConnection(j) \/ TakeLock(j) \/ Work(j) \/ EndWrite(j)
        PROVE  WriteInv'
    <3>1. StorageTypeOK' /\ LoadedSound'
      BY <2>2, JobKeepsTypes, JobKeepsTruth DEF FileInv
    <3>. QED
      BY <2>2, <3>1, WaitingKeepsWrites, WorkKeepsWrites, EndKeepsWrites DEF WriteInv
  <2>3. CASE UNCHANGED storageVars
    BY <2>3 DEF storageVars, WriteInv, StorageTypeOK, LoadedSound, LockSound, DoneBy,
                WaitingSound, BegunSound, AllOrNothing,
                Script, Databases, Transactions, Halves, Boot, Job
  <2>. QED
    BY <2>1, <2>2, <2>3 DEF StorageNext
<1>. QED
  BY <1>1, <1>2, FileInvariant, PTL DEF StorageSpec

(* However many jobs share the writers of however many Databases, a        *)
(* transaction leaves both halves in the file or neither                   *)
(* (Database.write).                                                       *)
THEOREM WholeOrNothing ==
    ASSUME StorageAssumptions
    PROVE  StorageSpec => []AllOrNothing
<1>1. WriteInv => AllOrNothing
  BY DEF WriteInv
<1>. QED
  BY <1>1, WriteInvariant, PTL

(***************************************************************************)
(* The refinement                                                          *)
(***************************************************************************)
\* The first state is the first state of the promise.
LEMMA PromiseAtFirst == StorageInit => Wholly!Init
BY DEF StorageInit, Wholly!Init, KeptWhole, Halves, Transactions

\* What is kept depends on the rows alone.
LEMMA SameRowsSameKept ==
    ASSUME rows' = rows
    PROVE  KeptWhole' = KeptWhole
BY DEF KeptWhole, Halves, Transactions

\* Every step is a step of the promise or changes nothing it speaks of.
LEMMA StepKeepsPromise ==
    ASSUME StorageAssumptions, FileInv, WriteInv, [StorageNext]_storageVars
    PROVE  [Wholly!Next]_<<begun, KeptWhole, version>>
<1> USE DEF Wholly!Next
<1>0. version \in Nat /\ begun \in Nat
  BY DEF FileInv, StorageTypeOK, StorageAssumptions, StorageConstants
<1>1. CASE Connect \/ FinishMigration \/ SetupFails \/ Unload \/ Stop
  <2>1. UNCHANGED <<begun, rows, version>>
    BY <1>1 DEF Connect, FinishMigration, SetupFails, Unload, Stop, jobVars, fileVars
  <2>. QED
    BY <2>1, SameRowsSameKept
<1>2. CASE RunStatement \/ BecomeReady
  <2>1. UNCHANGED <<begun, rows>> /\ version' >= version
    <3>1. boot \in Boot /\ version <= boot.version /\ version' = boot.version
      BY <1>2 DEF RunStatement, BecomeReady, FileInv, BootSound, StorageTypeOK
    <3>. QED
      BY <1>0, <1>2, <3>1 DEF RunStatement, BecomeReady, jobVars, Boot
  <2>2. version' \in Int
    BY <1>2 DEF RunStatement, BecomeReady, FileInv, StorageTypeOK, Boot
  <2>. QED
    BY <1>0, <2>1, <2>2, SameRowsSameKept DEF Wholly!Raise
<1>3. ASSUME NEW j \in Jobs, LookAtConnection(j) \/ TakeLock(j) \/ Work(j)
      PROVE  [Wholly!Next]_<<begun, KeptWhole, version>>
  <2>1. UNCHANGED <<rows, version>> /\ begun' \in {begun, begun + 1}
    BY <1>3 DEF LookAtConnection, TakeLock, Work, bootVars, fileVars
  <2>. QED
    BY <2>1, SameRowsSameKept DEF Wholly!Begin
<1>4. ASSUME NEW j \in Jobs, EndWrite(j)
      PROVE  [Wholly!Next]_<<begun, KeptWhole, version>>
  <2>1. UNCHANGED <<begun, version>> /\ rows' = rows \cup Committed(j)
    BY <1>4 DEF EndWrite, bootVars, fileVars
  <2>2. CASE Committed(j) = {}
    BY <2>1, <2>2, SameRowsSameKept
  <2>3. CASE Committed(j) = {<<job[j].txn, 1>>, <<job[j].txn, 2>>}
    <3>1. job[j].txn \in 1..begun /\ job[j].txn \in Transactions
      BY <1>4, EndKeepsOne DEF Job
    <3>2. KeptWhole' = KeptWhole \cup {job[j].txn}
      BY <2>1, <2>3, <3>1 DEF KeptWhole, Halves, Transactions
    <3>. QED
      BY <2>1, <3>1, <3>2 DEF Wholly!Keep
  <2>. QED
    BY <1>4, <2>2, <2>3, EndKeepsOne
<1>5. CASE UNCHANGED storageVars
  BY <1>5, SameRowsSameKept DEF storageVars
<1>. QED
  BY <1>1, <1>2, <1>3, <1>4, <1>5 DEF StorageNext

(* The connections, locks and migrations of the file implement             *)
(* WholeWrites: what is begun is kept whole, once and for good, or not at  *)
(* all, and the version only rises (Database, apply_migrations).           *)
THEOREM KeepsItsPromise ==
    ASSUME StorageAssumptions
    PROVE  StorageSpec => KeepsWritesWhole
<1>1. FileInv /\ WriteInv /\ [StorageNext]_storageVars
          => [Wholly!Next]_<<begun, KeptWhole, version>>
  BY StepKeepsPromise
<1>. QED
  BY <1>1, PromiseAtFirst, WriteInvariant, PTL DEF StorageSpec, KeepsWritesWhole, Wholly!Spec

(* Whatever closes, stops or runs out in the middle, the file is sound: it *)
(* says its version, holds transactions whole, and keeps the promise of    *)
(* WholeWrites to whoever writes it (Database, apply_migrations).          *)
THEOREM FileIsSound ==
    ASSUME StorageAssumptions
    PROVE  StorageSpec => FileSound
<1>1. FileInv /\ WriteInv => StorageSound
  BY DEF FileInv, WriteInv, StorageSound
<1>. QED
  BY <1>1, FileInvariant, WriteInvariant, KeepsItsPromise, PTL DEF FileSound

(***************************************************************************)
(* Receipts.  A reading observed once stays observed once because each has *)
(* a rank (`OwnReadings`) and what waits to be applied was never observed  *)
(* (`SeenWereRead`); a line a receipt names is still in the cart, which is *)
(* what lets its price be corrected (`MatchedLinesStay`).                  *)
(***************************************************************************)
\* What the cart of a receipt is, line by line: a line a receipt names is there.
MatchedLinesStay ==
    \A r \in DOMAIN receipt :
        receipt[r].read # Null /\ receipt[r].read.line # Null
            => receipt[r].read.line \in CartIds /\ cart[receipt[r].read.line] \in CartLine

CartInv == ReceiptTypeOK /\ MatchedLinesStay /\ LineAndBatchAgree

\* A reading that was written has a rank of its own, and only one receipt has it.
OwnReadings ==
    /\ \A r \in DOMAIN receipt : receipt[r].read # Null => receipt[r].read.nth \in 1..readings
    /\ \A r, s \in DOMAIN receipt :
          receipt[r].read # Null /\ receipt[s].read # Null
             /\ receipt[r].read.nth = receipt[s].read.nth => r = s

\* What was observed was read, and what waits to be applied was not observed.
SeenWereRead ==
    /\ \A i \in DOMAIN seen : seen[i].nth \in 1..readings
    /\ \A r \in DOMAIN receipt, i \in DOMAIN seen :
          receipt[r].read # Null /\ ~receipt[r].read.applied
             => seen[i].nth # receipt[r].read.nth

\* What the constants are, and that Null is no line that was read.
ReceiptAssumptions == ReceiptConstants /\ Null \notin ReadLine

\* What is applied was read.
ReadWhenSaid ==
    \A r \in DOMAIN receipt : receipt[r].state \in {"read", "applied"} => receipt[r].read # Null

\* There are as many rows as the bound allows.
ReceiptsCounted == Len(receipt) <= MaxReceipts

ReceiptInv ==
    /\ CartInv /\ ReceiptsCounted /\ ReadWhenSaid
    /\ PhotoRecordedOnce /\ OwnReadings /\ SeenWereRead /\ AppliedOnce

(***************************************************************************)
(* Receipts: the cart                                                      *)
(***************************************************************************)
\* A line of the cart is rewritten, or removed when no receipt names it.
LEMMA CartStepKeeps ==
    ASSUME CartInv, receipt' = receipt,
           NEW l \in CartIds, NEW row \in CartLine \cup {Null},
           cart' = [cart EXCEPT ![l] = row],
           UNCHANGED <<seen, reading, readings>>,
           row \in CartLine \/ ~NamedByAReceipt(l),
           row # Null /\ row.stored => row.batch.price \in {row.price, Null}
    PROVE  CartInv'
<1>1. cart \in [CartIds -> CartLine \cup {Null}]
  BY DEF CartInv, ReceiptTypeOK
<1>2. /\ cart' \in [CartIds -> CartLine \cup {Null}] /\ cart'[l] = row
      /\ \A k \in CartIds : k # l => cart'[k] = cart[k]
  BY <1>1
<1>3. ReceiptTypeOK'
  BY <1>2 DEF CartInv, ReceiptTypeOK
<1>4. MatchedLinesStay'
  <2>1. SUFFICES ASSUME NEW r \in DOMAIN receipt, receipt[r].read # Null,
                        receipt[r].read.line # Null
                 PROVE  /\ receipt[r].read.line \in CartIds
                        /\ cart'[receipt[r].read.line] \in CartLine
    BY DEF MatchedLinesStay
  <2>2. receipt[r].read.line \in CartIds /\ cart[receipt[r].read.line] \in CartLine
    BY <2>1 DEF CartInv, MatchedLinesStay
  <2>3. receipt[r].read.line = l => row \in CartLine
    BY <2>1 DEF NamedByAReceipt
  <2>. QED
    BY <1>2, <2>2, <2>3
<1>5. LineAndBatchAgree'
  BY <1>1, <1>2 DEF CartInv, LineAndBatchAgree, Rows
<1>. QED
  BY <1>3, <1>4, <1>5 DEF CartInv

\* Adding a line, putting it away, removing it and moving its batch.
LEMMA CartActionsKeep ==
    ASSUME CartInv,
           \/ \E p \in Prices : AddLine(p)
           \/ \E l \in CartIds : StoreLine(l) \/ RemoveLine(l) \/ TransferBatch(l)
    PROVE  CartInv'
<1>0. cart \in [CartIds -> CartLine \cup {Null}]
  BY DEF CartInv, ReceiptTypeOK
<1>1. ASSUME NEW p \in Prices, AddLine(p)
      PROVE  CartInv'
  <2>. DEFINE row == [price |-> p, stored |-> FALSE, batch |-> NoBatch]
  <2>1. row \in CartLine /\ row.stored = FALSE
    BY DEF CartLine, NoBatch, Prices
  <2>2. NextId(cart) \in CartIds /\ cart' = [cart EXCEPT ![NextId(cart)] = row]
        /\ UNCHANGED <<receipt, seen, reading, readings>>
    BY <1>1 DEF AddLine
  <2>. HIDE DEF row
  <2>. QED
    BY <2>1, <2>2, CartStepKeeps
<1>2. ASSUME NEW l \in CartIds, StoreLine(l)
      PROVE  CartInv'
  <2>. DEFINE row == [cart[l] EXCEPT !.stored = TRUE, !.batch.price = cart[l].price]
  <2>1. cart[l] \in CartLine
    BY <1>0, <1>2 DEF StoreLine, Rows
  <2>2. row \in CartLine /\ row.batch.price = row.price
    BY <2>1 DEF CartLine
  <2>3. cart' = [cart EXCEPT ![l] = row] /\ UNCHANGED <<receipt, seen, reading, readings>>
    BY <1>0, <1>2, <2>1 DEF StoreLine, CartLine
  <2>. HIDE DEF row
  <2>. QED
    BY <2>2, <2>3, CartStepKeeps
<1>3. ASSUME NEW l \in CartIds, RemoveLine(l)
      PROVE  CartInv'
  <2>1. cart' = [cart EXCEPT ![l] = Null] /\ ~NamedByAReceipt(l)
        /\ UNCHANGED <<receipt, seen, reading, readings>>
    BY <1>3 DEF RemoveLine
  <2>. QED
    BY <2>1, CartStepKeeps
<1>4. ASSUME NEW l \in CartIds, TransferBatch(l)
      PROVE  CartInv'
  <2>. DEFINE row == [cart[l] EXCEPT !.batch.moved = TRUE]
  <2>1. cart[l] \in CartLine /\ cart[l] # Null
    BY <1>0, <1>4 DEF TransferBatch, Rows
  <2>2. row \in CartLine /\ row.batch.price = cart[l].batch.price
        /\ row.price = cart[l].price /\ row.stored = cart[l].stored
    BY <2>1 DEF CartLine
  <2>3. cart' = [cart EXCEPT ![l] = row] /\ UNCHANGED <<receipt, seen, reading, readings>>
    BY <1>0, <1>4, <2>1 DEF TransferBatch, CartLine
  <2>4. row.stored => row.batch.price \in {row.price, Null}
    BY <1>0, <2>1, <2>2 DEF CartInv, LineAndBatchAgree, Rows
  <2>. HIDE DEF row
  <2>. QED
    BY <2>2, <2>3, <2>4, CartStepKeeps
<1>. QED
  BY <1>1, <1>2, <1>3, <1>4

(***************************************************************************)
(* Receipts: their rows                                                    *)
(***************************************************************************)
\* While the receipts and what was observed stay, only the cart can disturb
\* the invariant.
LEMMA ReceiptsKept ==
    ASSUME ReceiptInv, receipt' = receipt, UNCHANGED <<seen, readings>>, CartInv'
    PROVE  ReceiptInv'
  BY DEF ReceiptInv, ReceiptsCounted, ReadWhenSaid, PhotoRecordedOnce, OwnReadings,
     SeenWereRead, AppliedOnce

\* What rewriting one row of the receipts leaves.
LEMMA RewriteOfReceipt ==
    ASSUME receipt \in Seq(Receipt), NEW r \in DOMAIN receipt, NEW row \in Receipt,
           receipt' = [receipt EXCEPT ![r] = row]
    PROVE  /\ receipt' \in Seq(Receipt) /\ DOMAIN receipt' = DOMAIN receipt
           /\ Len(receipt') = Len(receipt) /\ receipt'[r] = row
           /\ \A s \in DOMAIN receipt : s # r => receipt'[s] = receipt[s]
<1>1. receipt' \in Seq(Receipt) /\ Len(receipt') = Len(receipt)
  BY ExceptSeq
<1>2. DOMAIN receipt' = DOMAIN receipt
  OBVIOUS
<1>. QED
  BY <1>1, <1>2

\* A row that keeps its photo and its reading, and names a line that is
\* there, keeps the invariant.
LEMMA RowKeeps ==
    ASSUME ReceiptInv, NEW r \in DOMAIN receipt, NEW row \in Receipt,
           receipt' = [receipt EXCEPT ![r] = row], UNCHANGED <<cart, seen, readings>>,
           reading' \in [Readers -> [receipt : 1..MaxReceipts, cart : SUBSET CartIds] \cup {Null}],
           row.photo = receipt[r].photo,
           row.state \in {"read", "applied"} => row.read # Null,
           row.read # Null =>
              /\ receipt[r].read # Null /\ row.read.nth = receipt[r].read.nth
              /\ row.read.applied = receipt[r].read.applied
              /\ row.read.line # Null => row.read.line \in CartIds
                                         /\ cart[row.read.line] \in CartLine
    PROVE  ReceiptInv'
<1>1. /\ receipt' \in Seq(Receipt) /\ DOMAIN receipt' = DOMAIN receipt
      /\ Len(receipt') = Len(receipt) /\ receipt'[r] = row
      /\ \A s \in DOMAIN receipt : s # r => receipt'[s] = receipt[s]
  BY RewriteOfReceipt DEF ReceiptInv, CartInv, ReceiptTypeOK
<1>2. ReceiptTypeOK'
  BY <1>1 DEF ReceiptInv, CartInv, ReceiptTypeOK
<1>3. MatchedLinesStay'
  BY <1>1 DEF ReceiptInv, CartInv, MatchedLinesStay
<1>4. LineAndBatchAgree'
  BY DEF ReceiptInv, CartInv, LineAndBatchAgree, Rows
<1>5. PhotoRecordedOnce'
  BY <1>1 DEF ReceiptInv, PhotoRecordedOnce
<1>6. OwnReadings'
  BY <1>1 DEF ReceiptInv, OwnReadings
<1>7. SeenWereRead' /\ AppliedOnce'
  BY <1>1 DEF ReceiptInv, SeenWereRead, AppliedOnce
<1>8. ReceiptsCounted' /\ ReadWhenSaid'
  BY <1>1 DEF ReceiptInv, ReceiptsCounted, ReadWhenSaid
<1>. QED
  BY <1>2, <1>3, <1>4, <1>5, <1>6, <1>7, <1>8 DEF ReceiptInv, CartInv

(***************************************************************************)
(* Receipts: submitting, reading                                           *)
(***************************************************************************)
\* A reading that starts holds a receipt and the lines of the cart it saw.
LEMMA StartsTyped ==
    ASSUME ReceiptTypeOK, NEW t \in Readers, NEW r \in 1..MaxReceipts, StartReading(t, r)
    PROVE  reading' \in [Readers -> [receipt : 1..MaxReceipts, cart : SUBSET CartIds] \cup {Null}]
<1>1. Rows(cart) \subseteq CartIds
  BY DEF ReceiptTypeOK, Rows
<1>. QED
  BY <1>1 DEF ReceiptTypeOK, StartReading

\* A photo is submitted: a row of its own, or the one it already has.
LEMMA RecordKeeps ==
    ASSUME ReceiptConstants, ReceiptInv, NEW t \in Readers, NEW photo \in Photos, Submit(t, photo)
    PROVE  ReceiptInv'
<1>0. ReceiptTypeOK /\ MaxReceipts \in Nat /\ receipt \in Seq(Receipt)
  BY DEF ReceiptInv, CartInv, ReceiptConstants, ReceiptTypeOK
<1>1. CASE RecordedAs(photo) = {}
  <2>. DEFINE row == [photo |-> photo, state |-> "pending", read |-> Null]
  <2>1. /\ Len(receipt) < MaxReceipts /\ receipt' = Append(receipt, row)
        /\ StartReading(t, Len(receipt) + 1) /\ UNCHANGED <<cart, seen, readings>>
    BY <1>1 DEF Submit
  <2>2. row \in Receipt /\ row.read = Null /\ row.photo = photo /\ row.state = "pending"
    BY DEF Receipt
  <2>. HIDE DEF row
  <2>3. /\ receipt' \in Seq(Receipt) /\ Len(receipt') = Len(receipt) + 1
        /\ \A i \in 1..Len(receipt) : receipt'[i] = receipt[i]
        /\ receipt'[Len(receipt) + 1] = row
    BY <1>0, <2>1, <2>2, AppendProperties
  <2>4. DOMAIN receipt' = 1..(Len(receipt) + 1) /\ DOMAIN receipt = 1..Len(receipt)
        /\ Len(receipt) \in Nat
    BY <1>0, <2>3
  <2>5. \A s \in DOMAIN receipt' : s = Len(receipt) + 1 \/ s \in DOMAIN receipt
    BY <2>4
  <2>6. Len(receipt) + 1 \in 1..MaxReceipts
    BY <1>0, <2>1
  <2>7. ReceiptTypeOK'
    BY <1>0, <2>1, <2>3, <2>6, StartsTyped DEF ReceiptTypeOK
  <2>8. MatchedLinesStay'
    BY <2>1, <2>2, <2>3, <2>4, <2>5 DEF ReceiptInv, CartInv, MatchedLinesStay
  <2>9. LineAndBatchAgree'
    BY <2>1 DEF ReceiptInv, CartInv, LineAndBatchAgree, Rows
  <2>10. PhotoRecordedOnce'
    <3>1. \A s \in DOMAIN receipt : receipt[s].photo # photo
      BY <1>1 DEF RecordedAs, ReceiptsOf
    <3>. QED
      BY <2>2, <2>3, <2>4, <2>5, <3>1 DEF ReceiptInv, PhotoRecordedOnce
  <2>11. OwnReadings'
    BY <2>1, <2>2, <2>3, <2>4, <2>5 DEF ReceiptInv, OwnReadings
  <2>12. SeenWereRead' /\ AppliedOnce'
    BY <2>1, <2>2, <2>3, <2>4, <2>5 DEF ReceiptInv, SeenWereRead, AppliedOnce
  <2>13. ReceiptsCounted'
    BY <1>0, <2>3, <2>1, <2>4 DEF ReceiptsCounted
  <2>14. ReadWhenSaid'
    BY <2>2, <2>3, <2>4, <2>5 DEF ReceiptInv, ReadWhenSaid
  <2>. QED
    BY <2>7, <2>8, <2>9, <2>10, <2>11, <2>12, <2>13, <2>14 DEF ReceiptInv, CartInv
<1>2. CASE RecordedAs(photo) # {}
  <2>1. PICK r \in RecordedAs(photo) :
          StartReading(t, r) /\ UNCHANGED <<cart, receipt, seen, readings>>
    BY <1>2 DEF Submit
  <2>2. r \in 1..MaxReceipts
    BY <1>0 DEF RecordedAs, ReceiptsOf, ReceiptInv, ReceiptsCounted
  <2>3. CartInv'
    <3>1. ReceiptTypeOK'
      BY <1>0, <2>1, <2>2, StartsTyped DEF ReceiptTypeOK
    <3>. QED
      BY <2>1, <3>1 DEF ReceiptInv, CartInv, MatchedLinesStay, LineAndBatchAgree, Rows
  <2>. QED
    BY <2>1, <2>3, ReceiptsKept
<1>. QED
  BY <1>1, <1>2

\* A failed reading is tried again.
LEMMA RetryKeeps ==
    ASSUME ReceiptInv, NEW t \in Readers, NEW r \in 1..MaxReceipts, Retry(t, r)
    PROVE  ReceiptInv'
<1>1. StartReading(t, r) /\ UNCHANGED <<cart, receipt, seen, readings>>
  BY DEF Retry
<1>2. ReceiptTypeOK'
  BY <1>1, StartsTyped DEF ReceiptInv, CartInv, ReceiptTypeOK
<1>3. CartInv'
  BY <1>1, <1>2 DEF ReceiptInv, CartInv, MatchedLinesStay, LineAndBatchAgree, Rows
<1>. QED
  BY <1>1, <1>3, ReceiptsKept

\* A stop of Home Assistant takes the readings under way.
LEMMA StopReadingKeeps ==
    ASSUME ReceiptInv, StopReading
    PROVE  ReceiptInv'
<1>1. reading' = [t \in Readers |-> Null] /\ UNCHANGED <<cart, receipt, seen, readings>>
  BY DEF StopReading
<1>2. ReceiptTypeOK'
  BY <1>1 DEF ReceiptInv, CartInv, ReceiptTypeOK
<1>3. CartInv'
  BY <1>1, <1>2 DEF ReceiptInv, CartInv, MatchedLinesStay, LineAndBatchAgree, Rows
<1>. QED
  BY <1>1, <1>3, ReceiptsKept

\* The line of a parsed answer has a price the house may pay.
LEMMA ParsedLine ==
    ASSUME ReceiptConstants, NEW raw \in RawLine, ParseLine(raw), NEW l \in CartIds \cup {Null},
           readings \in Nat
    PROVE  ReadAs(raw, l) \in ReadLine
<1>1. raw.unit \in Prices
  <2>1. raw.unit \in Prices \cup {MaxUnit + 1} /\ MaxUnit \in Nat
    BY DEF RawLine, ReceiptConstants
  <2>2. raw.unit \in {Null} \cup 0..MaxUnit
    BY DEF ParseLine, Plausible
  <2>3. MaxUnit + 1 \notin 0..MaxUnit
    BY <2>1
  <2>. QED
    BY <2>1, <2>2, <2>3 DEF Prices
<1>. QED
  BY <1>1 DEF ReadAs, ReadLine

\* A reading ends: its rank is new, whatever the cart has become since it
\* began.
LEMMA EndReadingKeeps ==
    ASSUME ReceiptAssumptions, ReceiptInv, NEW t \in Readers, NEW raw \in RawLine,
           NEW l \in CartIds \cup {Null}, EndReading(t, raw, l)
    PROVE  ReceiptInv'
<1>. DEFINE r == reading[t].receipt
<1>0. ReceiptTypeOK
  BY DEF ReceiptInv, CartInv
<1>1. /\ reading' = [reading EXCEPT ![t] = Null] /\ ParseLine(raw)
      /\ UNCHANGED <<cart, seen>>
  BY DEF EndReading
<1>2. reading' \in [Readers -> [receipt : 1..MaxReceipts, cart : SUBSET CartIds] \cup {Null}]
  BY <1>0, <1>1 DEF ReceiptTypeOK
<1>3. CASE UNCHANGED <<receipt, readings>>
  <2>1. ReceiptTypeOK'
    BY <1>0, <1>1, <1>2, <1>3 DEF ReceiptTypeOK
  <2>2. CartInv'
    BY <1>1, <1>3, <2>1 DEF ReceiptInv, CartInv, MatchedLinesStay, LineAndBatchAgree, Rows
  <2>. QED
    BY <1>1, <1>3, <2>2, ReceiptsKept
<1>4. CASE /\ l = Null \/ l \in Rows(cart)
           /\ readings' = readings + 1
           /\ receipt' = [receipt EXCEPT ![r].read = ReadAs(raw, l), ![r].state = "read"]
  <2>0. readings \in Nat /\ receipt \in Seq(Receipt) /\ cart \in [CartIds -> CartLine \cup {Null}]
    BY <1>0 DEF ReceiptTypeOK
  <2>1. CASE r \in DOMAIN receipt
    <3>. DEFINE row == [receipt[r] EXCEPT !.read = ReadAs(raw, l), !.state = "read"]
    <3>1. receipt[r] \in Receipt /\ receipt \in [DOMAIN receipt -> Receipt]
      BY <2>0, <2>1, ElementOfSeq
    <3>2. ReadAs(raw, l) \in ReadLine
      BY <1>1, <2>0, ParsedLine DEF ReceiptAssumptions
    <3>3. row \in Receipt /\ row.photo = receipt[r].photo /\ row.read = ReadAs(raw, l)
      BY <3>1, <3>2 DEF Receipt
    <3>4. receipt' = [receipt EXCEPT ![r] = row]
      BY <1>4, <2>0, <2>1, <3>1 DEF Receipt
    <3>5. /\ row.read.nth = readings + 1 /\ row.read.line = l
      BY <3>3 DEF ReadAs
    <3>14. row.read # Null
      BY <3>2, <3>3 DEF ReceiptAssumptions
    <3>. HIDE DEF row
    <3>6. /\ receipt' \in Seq(Receipt) /\ DOMAIN receipt' = DOMAIN receipt
          /\ Len(receipt') = Len(receipt) /\ receipt'[r] = row
          /\ \A s \in DOMAIN receipt : s # r => receipt'[s] = receipt[s]
      BY <2>0, <2>1, <3>3, <3>4, RewriteOfReceipt
    <3>7. ReceiptTypeOK'
      BY <1>0, <1>1, <1>2, <1>4, <3>6 DEF ReceiptTypeOK
    <3>8. MatchedLinesStay'
      <4>1. l # Null => l \in CartIds /\ cart[l] \in CartLine
        BY <1>4, <2>0 DEF Rows
      <4>. QED
        BY <1>1, <3>5, <3>6, <4>1 DEF ReceiptInv, CartInv, MatchedLinesStay
    <3>9. LineAndBatchAgree'
      BY <1>1 DEF ReceiptInv, CartInv, LineAndBatchAgree, Rows
    <3>10. PhotoRecordedOnce' /\ ReceiptsCounted' /\ ReadWhenSaid'
      BY <3>3, <3>6, <3>14 DEF ReceiptInv, PhotoRecordedOnce, ReceiptsCounted, ReadWhenSaid
    <3>11. OwnReadings'
      <4>1. \A s \in DOMAIN receipt' : receipt'[s].read # Null => receipt'[s].read.nth \in 1..readings'
        <5>1. readings + 1 \in 1..readings' /\ \A n \in 1..readings : n \in 1..readings'
          BY <1>4, <2>0
        <5>. QED
          BY <3>5, <3>6, <5>1 DEF ReceiptInv, OwnReadings
      <4>2. \A s \in DOMAIN receipt : s # r /\ receipt'[s].read # Null =>
               receipt'[s].read.nth # receipt'[r].read.nth
        BY <2>0, <3>5, <3>6 DEF ReceiptInv, OwnReadings
      <4>. QED
        BY <3>6, <4>1, <4>2 DEF ReceiptInv, OwnReadings
    <3>12. SeenWereRead'
      <4>1. \A i \in DOMAIN seen : seen[i].nth \in 1..readings
        BY DEF ReceiptInv, SeenWereRead
      <4>2. \A i \in DOMAIN seen : seen[i].nth \in 1..readings' /\ seen[i].nth # readings + 1
        BY <1>4, <2>0, <4>1
      <4>. QED
        BY <1>1, <3>5, <3>6, <4>2 DEF ReceiptInv, SeenWereRead
    <3>13. AppliedOnce'
      BY <1>1 DEF ReceiptInv, AppliedOnce
    <3>. QED
      BY <3>7, <3>8, <3>9, <3>10, <3>11, <3>12, <3>13 DEF ReceiptInv, CartInv
  <2>2. CASE r \notin DOMAIN receipt
    <3>1. receipt' = receipt
      BY <1>4, <2>0, <2>2
    <3>2. ReceiptTypeOK'
      <4>1. readings' \in Nat
        BY <1>4, <2>0
      <4>. QED
        BY <1>0, <1>1, <1>2, <3>1, <4>1 DEF ReceiptTypeOK
    <3>3. CartInv' /\ ReceiptsCounted' /\ ReadWhenSaid' /\ PhotoRecordedOnce' /\ AppliedOnce'
      BY <1>1, <3>1, <3>2 DEF ReceiptInv, CartInv, MatchedLinesStay, LineAndBatchAgree, Rows,
         ReceiptsCounted, ReadWhenSaid, PhotoRecordedOnce, AppliedOnce
    <3>4. \A n \in 1..readings : n \in 1..readings'
      BY <1>4, <2>0
    <3>5. OwnReadings'
      BY <3>1, <3>4 DEF ReceiptInv, OwnReadings
    <3>6. SeenWereRead'
      BY <1>1, <3>1, <3>4 DEF ReceiptInv, SeenWereRead
    <3>. QED
      BY <3>3, <3>5, <3>6 DEF ReceiptInv
  <2>. QED
    BY <2>1, <2>2
<1>. QED
  BY <1>3, <1>4 DEF EndReading

\* A reading fails; a receipt read meanwhile is left alone or says so.
LEMMA FailReadingKeeps ==
    ASSUME ReceiptInv, NEW t \in Readers, FailReading(t)
    PROVE  ReceiptInv'
<1>. DEFINE r == reading[t].receipt
            row == [receipt[r] EXCEPT !.state = "failed"]
<1>0. ReceiptTypeOK /\ receipt \in Seq(Receipt)
  BY DEF ReceiptInv, CartInv, ReceiptTypeOK
<1>1. /\ reading' = [reading EXCEPT ![t] = Null] /\ UNCHANGED <<cart, seen, readings>>
      /\ receipt' = [receipt EXCEPT ![r].state = "failed"]
  BY DEF FailReading
<1>2. reading' \in [Readers -> [receipt : 1..MaxReceipts, cart : SUBSET CartIds] \cup {Null}]
  BY <1>0, <1>1 DEF ReceiptTypeOK
<1>3. CASE r \in DOMAIN receipt
  <2>1. receipt[r] \in Receipt
    BY <1>0, <1>3, ElementOfSeq
  <2>2. row \in Receipt /\ row.photo = receipt[r].photo /\ row.read = receipt[r].read
        /\ row.state = "failed"
    BY <2>1 DEF Receipt
  <2>3. receipt' = [receipt EXCEPT ![r] = row]
    BY <1>1
  <2>4. receipt[r].read # Null /\ receipt[r].read.line # Null =>
           receipt[r].read.line \in CartIds /\ cart[receipt[r].read.line] \in CartLine
    BY <1>3 DEF ReceiptInv, CartInv, MatchedLinesStay
  <2>. HIDE DEF row
  <2>. QED
    BY <1>1, <1>2, <1>3, <2>2, <2>3, <2>4, RowKeeps
<1>4. CASE r \notin DOMAIN receipt
  <2>1. receipt' = receipt
    BY <1>0, <1>1, <1>4
  <2>2. ReceiptTypeOK'
    BY <1>0, <1>1, <1>2, <2>1 DEF ReceiptTypeOK
  <2>3. CartInv'
    BY <1>1, <2>1, <2>2 DEF ReceiptInv, CartInv, MatchedLinesStay, LineAndBatchAgree, Rows
  <2>. QED
    BY <1>1, <2>1, <2>3, ReceiptsKept
<1>. QED
  BY <1>3, <1>4

\* A receipt is put aside.
LEMMA DiscardKeeps ==
    ASSUME ReceiptInv, NEW r, Discard(r)
    PROVE  ReceiptInv'
<1>. DEFINE row == [receipt[r] EXCEPT !.state = "discarded"]
<1>0. ReceiptTypeOK /\ receipt \in Seq(Receipt) /\ r \in DOMAIN receipt
  BY DEF ReceiptInv, CartInv, ReceiptTypeOK, Discard
<1>1. /\ UNCHANGED <<cart, seen, reading, readings>>
      /\ receipt' = [receipt EXCEPT ![r] = row]
  BY DEF Discard
<1>2. receipt[r] \in Receipt
  BY <1>0, ElementOfSeq
<1>3. row \in Receipt /\ row.photo = receipt[r].photo /\ row.read = receipt[r].read
      /\ row.state = "discarded"
  BY <1>2 DEF Receipt
<1>4. receipt[r].read # Null /\ receipt[r].read.line # Null =>
         receipt[r].read.line \in CartIds /\ cart[receipt[r].read.line] \in CartLine
  BY <1>0 DEF ReceiptInv, CartInv, MatchedLinesStay
<1>5. reading' \in [Readers -> [receipt : 1..MaxReceipts, cart : SUBSET CartIds] \cup {Null}]
  BY <1>0, <1>1 DEF ReceiptTypeOK
<1>. HIDE DEF row
<1>. QED
  BY <1>0, <1>1, <1>3, <1>4, <1>5, RowKeeps

\* A hand names the line of the cart a receipt speaks of, or none.
LEMMA MatchLineKeeps ==
    ASSUME ReceiptAssumptions, ReceiptInv, NEW r, NEW l \in CartIds \cup {Null}, NEW m \in {"confirmed", "ignored"},
           MatchLine(r, l, m)
    PROVE  ReceiptInv'
<1>. DEFINE row == [receipt[r] EXCEPT !.read.line = l, !.read.match = m]
<1>0. /\ ReceiptTypeOK /\ receipt \in Seq(Receipt) /\ r \in DOMAIN receipt
      /\ receipt[r].read # Null /\ cart \in [CartIds -> CartLine \cup {Null}]
  BY DEF ReceiptInv, CartInv, ReceiptTypeOK, MatchLine
<1>1. receipt[r] \in Receipt /\ receipt[r].read \in ReadLine
  <2>1. receipt[r] \in Receipt
    BY <1>0, ElementOfSeq
  <2>. QED
    BY <1>0, <2>1 DEF Receipt
<1>2. /\ UNCHANGED <<cart, seen, reading, readings>>
      /\ receipt' = [receipt EXCEPT ![r] = row]
  BY <1>0, <1>1 DEF MatchLine, Receipt, ReadLine
<1>3. /\ row \in Receipt /\ row.photo = receipt[r].photo /\ row.read.line = l
      /\ row.read.nth = receipt[r].read.nth /\ row.read.applied = receipt[r].read.applied
      /\ row.read # Null
  <2>1. row.read \in ReadLine
    BY <1>1 DEF Receipt, ReadLine
  <2>. QED
    BY <1>1, <2>1 DEF Receipt, ReadLine, ReceiptAssumptions
<1>4. l # Null => l \in CartIds /\ cart[l] \in CartLine
  BY <1>0 DEF MatchLine, Rows
<1>5. reading' \in [Readers -> [receipt : 1..MaxReceipts, cart : SUBSET CartIds] \cup {Null}]
  BY <1>0, <1>2 DEF ReceiptTypeOK
<1>. HIDE DEF row
<1>. QED
  BY <1>0, <1>2, <1>3, <1>4, <1>5, RowKeeps

(***************************************************************************)
(* Receipts: applying                                                      *)
(***************************************************************************)
\* A receipt is applied: the line, its batch and what was observed change in
\* one transaction.
LEMMA ApplyKeeps ==
    ASSUME ReceiptAssumptions, ReceiptInv, NEW r, ApplyReceipt(r)
    PROVE  ReceiptInv'
<1>. DEFINE read == receipt[r].read
<1>0. /\ ReceiptTypeOK /\ receipt \in Seq(Receipt) /\ r \in DOMAIN receipt
      /\ receipt[r].state \in {"read", "applied"} /\ receipt[r].read # Null
      /\ cart \in [CartIds -> CartLine \cup {Null}]
      /\ seen \in Seq([nth : Nat, price : PaidPrices])
      /\ UNCHANGED <<reading, readings>>
      /\ reading' \in [Readers -> [receipt : 1..MaxReceipts, cart : SUBSET CartIds] \cup {Null}]
  BY DEF ReceiptInv, CartInv, ReceiptTypeOK, ApplyReceipt, ReadWhenSaid
<1>1. receipt[r] \in Receipt
  BY <1>0, ElementOfSeq
<1>2. CASE ~Targets(r)
  <2>. DEFINE row == [receipt[r] EXCEPT !.state = "applied"]
  <2>1. receipt' = [receipt EXCEPT ![r] = row] /\ UNCHANGED <<cart, seen, readings>>
    BY <1>0, <1>2 DEF ApplyReceipt
  <2>2. row \in Receipt /\ row.photo = receipt[r].photo /\ row.read = receipt[r].read
    BY <1>1 DEF Receipt
  <2>3. receipt[r].read # Null /\ receipt[r].read.line # Null =>
           receipt[r].read.line \in CartIds /\ cart[receipt[r].read.line] \in CartLine
    BY <1>0 DEF ReceiptInv, CartInv, MatchedLinesStay
  <2>. HIDE DEF row
  <2>. QED
    BY <1>0, <2>1, <2>2, <2>3, RowKeeps
<1>3. CASE Targets(r) /\ receipt[r].read.line # Null
  <2>. DEFINE l   == receipt[r].read.line
              row == [receipt[r] EXCEPT !.state = "applied", !.read.applied = TRUE]
              new == PricedFromReceipt(cart[l], read.price)
  <2>1. receipt[r].read \in ReadLine
    BY <1>0, <1>1 DEF Receipt
  <2>2. l \in CartIds /\ cart[l] \in CartLine
    BY <1>0, <1>3 DEF ReceiptInv, CartInv, MatchedLinesStay
  <2>3. /\ cart' = [cart EXCEPT ![l] = new]
        /\ receipt' = [receipt EXCEPT ![r] = row]
        /\ \/ read.price = Null /\ seen' = seen
           \/ read.price # Null /\ seen' = Append(seen, [nth |-> read.nth, price |-> read.price])
    BY <1>0, <1>1, <1>3, <2>1, <2>2 DEF ApplyReceipt, Receipt, ReadLine
  <2>4. /\ row \in Receipt /\ row.photo = receipt[r].photo /\ row.read.applied
        /\ row.read.nth = receipt[r].read.nth /\ row.read.line = l /\ row.read # Null
    <3>1. row.read \in ReadLine
      BY <1>1, <2>1 DEF Receipt, ReadLine
    <3>. QED
      BY <1>1, <2>1, <3>1 DEF Receipt, ReadLine, ReceiptAssumptions
  <2>5. new \in CartLine /\ (new.stored => new.batch.price \in {new.price, Null})
    <3>1. read.price \in Prices
      BY <2>1 DEF ReadLine
    <3>2. cart[l] # Null => (cart[l].stored => cart[l].batch.price \in {cart[l].price, Null})
      BY <1>0, <2>2 DEF ReceiptInv, CartInv, LineAndBatchAgree, Rows
    <3>. QED
      BY <2>2, <3>1, <3>2 DEF PricedFromReceipt, CartLine
  <2>. HIDE DEF row, new
  <2>6. /\ receipt' \in Seq(Receipt) /\ DOMAIN receipt' = DOMAIN receipt
        /\ Len(receipt') = Len(receipt) /\ receipt'[r] = row
        /\ \A s \in DOMAIN receipt : s # r => receipt'[s] = receipt[s]
    BY <1>0, <2>3, <2>4, RewriteOfReceipt
  <2>7. /\ cart' \in [CartIds -> CartLine \cup {Null}] /\ cart'[l] = new
        /\ \A k \in CartIds : k # l => cart'[k] = cart[k]
    BY <1>0, <2>2, <2>3, <2>5
  <2>8. /\ seen' \in Seq([nth : Nat, price : PaidPrices])
        /\ \A i \in DOMAIN seen' : \/ i \in DOMAIN seen /\ seen'[i] = seen[i]
                                   \/ i = Len(seen) + 1 /\ seen'[i].nth = read.nth
    <3>1. CASE seen' = seen
      BY <1>0, <3>1
    <3>2. CASE /\ read.price # Null
               /\ seen' = Append(seen, [nth |-> read.nth, price |-> read.price])
      <4>1. [nth |-> read.nth, price |-> read.price] \in [nth : Nat, price : PaidPrices]
        BY <2>1, <3>2 DEF ReadLine, Prices
      <4>2. /\ seen' \in Seq([nth : Nat, price : PaidPrices])
            /\ Len(seen') = Len(seen) + 1
            /\ \A i \in 1..Len(seen) : seen'[i] = seen[i]
            /\ seen'[Len(seen) + 1] = [nth |-> read.nth, price |-> read.price]
        BY <1>0, <3>2, <4>1, AppendProperties
      <4>3. \A i \in DOMAIN seen' : i \in DOMAIN seen \/ i = Len(seen) + 1
        BY <1>0, <4>2
      <4>. QED
        BY <1>0, <4>2, <4>3
    <3>. QED
      BY <2>3, <3>1, <3>2
  <2>9. ReceiptTypeOK'
    BY <1>0, <2>6, <2>7, <2>8 DEF ReceiptTypeOK
  <2>10. MatchedLinesStay'
    BY <2>2, <2>4, <2>5, <2>6, <2>7 DEF ReceiptInv, CartInv, MatchedLinesStay
  <2>11. LineAndBatchAgree'
    BY <1>0, <2>2, <2>5, <2>7 DEF ReceiptInv, CartInv, LineAndBatchAgree, Rows
  <2>12. PhotoRecordedOnce' /\ ReceiptsCounted' /\ ReadWhenSaid'
    BY <2>4, <2>6 DEF ReceiptInv, PhotoRecordedOnce, ReceiptsCounted, ReadWhenSaid
  <2>13. OwnReadings'
    <3>1. \A s \in DOMAIN receipt :
             receipt'[s].read # Null =>
                receipt[s].read # Null /\ receipt'[s].read.nth = receipt[s].read.nth
      BY <1>0, <2>4, <2>6
    <3>2. readings' = readings /\ OwnReadings
      BY <1>0 DEF ReceiptInv
    <3>. QED
      BY <2>6, <3>1, <3>2 DEF OwnReadings
  <2>14. read.nth \in 1..readings
         /\ \A i \in DOMAIN seen : seen[i].nth # read.nth
    BY <1>0, <1>3 DEF ReceiptInv, OwnReadings, SeenWereRead, Targets
  <2>15. SeenWereRead'
    <3>1. \A i \in DOMAIN seen' : seen'[i].nth \in 1..readings'
      BY <1>0, <2>8, <2>14 DEF ReceiptInv, SeenWereRead
    <3>2. \A s \in DOMAIN receipt : s # r /\ receipt[s].read # Null => receipt[s].read.nth # read.nth
      BY <1>0 DEF ReceiptInv, OwnReadings
    <3>. QED
      BY <2>4, <2>6, <2>8, <3>1, <3>2 DEF ReceiptInv, SeenWereRead
  <2>16. AppliedOnce'
    BY <2>8, <2>14 DEF ReceiptInv, AppliedOnce
  <2>. QED
    BY <2>9, <2>10, <2>11, <2>12, <2>13, <2>15, <2>16 DEF ReceiptInv, CartInv
<1>. QED
  BY <1>2, <1>3 DEF Targets

\* The inductive invariant holds in every state.
LEMMA ReceiptInvariant ==
    ASSUME ReceiptAssumptions
    PROVE  ReceiptSpec => []ReceiptInv
<1>1. ReceiptInit => ReceiptInv
  <2>. SUFFICES ASSUME ReceiptInit PROVE ReceiptInv
    OBVIOUS
  <2>0. MaxReceipts \in Nat /\ receipt = <<>> /\ seen = <<>>
    BY DEF ReceiptAssumptions, ReceiptConstants, ReceiptInit
  <2>1. ReceiptTypeOK
    BY DEF ReceiptInit, ReceiptTypeOK
  <2>2. LineAndBatchAgree
    BY DEF ReceiptInit, LineAndBatchAgree, Rows
  <2>3. MatchedLinesStay /\ ReadWhenSaid /\ PhotoRecordedOnce /\ OwnReadings
        /\ SeenWereRead /\ AppliedOnce
    BY <2>0 DEF MatchedLinesStay, ReadWhenSaid, PhotoRecordedOnce, OwnReadings,
                SeenWereRead, AppliedOnce
  <2>4. ReceiptsCounted
    BY <2>0 DEF ReceiptsCounted
  <2>. QED
    BY <2>1, <2>2, <2>3, <2>4 DEF ReceiptInv, CartInv
<1>2. ReceiptInv /\ [ReceiptNext]_receiptVars => ReceiptInv'
  <2>. SUFFICES ASSUME ReceiptInv, [ReceiptNext]_receiptVars PROVE ReceiptInv'
    OBVIOUS
  <2>0. ReceiptConstants
    BY DEF ReceiptAssumptions
  <2>1. ASSUME \/ \E p \in Prices : AddLine(p)
               \/ \E l \in CartIds : StoreLine(l) \/ RemoveLine(l) \/ TransferBatch(l)
        PROVE  ReceiptInv'
    <3>1. CartInv'
      BY <2>1, CartActionsKeep DEF ReceiptInv
    <3>2. UNCHANGED <<receipt, seen, readings>>
      BY <2>1 DEF AddLine, StoreLine, RemoveLine, TransferBatch
    <3>. QED
      BY <3>1, <3>2, ReceiptsKept
  <2>2. ASSUME NEW t \in Readers, NEW photo \in Photos, Submit(t, photo)
        PROVE  ReceiptInv'
    BY <2>0, <2>2, RecordKeeps
  <2>3. ASSUME NEW t \in Readers, NEW r \in 1..MaxReceipts, Retry(t, r)
        PROVE  ReceiptInv'
    BY <2>3, RetryKeeps
  <2>4. ASSUME NEW t \in Readers, NEW raw \in RawLine, NEW l \in CartIds \cup {Null},
               EndReading(t, raw, l)
        PROVE  ReceiptInv'
    BY <2>4, EndReadingKeeps
  <2>5. ASSUME NEW t \in Readers, FailReading(t)
        PROVE  ReceiptInv'
    BY <2>5, FailReadingKeeps
  <2>6. CASE StopReading
    BY <2>6, StopReadingKeeps
  <2>7. ASSUME NEW r \in 1..MaxReceipts, Discard(r)
        PROVE  ReceiptInv'
    BY <2>7, DiscardKeeps
  <2>8. ASSUME NEW r \in 1..MaxReceipts, NEW l \in CartIds \cup {Null},
               NEW m \in {"confirmed", "ignored"}, MatchLine(r, l, m)
        PROVE  ReceiptInv'
    BY <2>8, MatchLineKeeps
  <2>9. ASSUME NEW r \in 1..MaxReceipts, ApplyReceipt(r)
        PROVE  ReceiptInv'
    BY <2>9, ApplyKeeps
  <2>10. CASE UNCHANGED receiptVars
    <3>1. UNCHANGED <<cart, receipt, seen, reading, readings>>
      BY <2>10 DEF receiptVars
    <3>2. CartInv'
      BY <3>1 DEF ReceiptInv, CartInv, ReceiptTypeOK, MatchedLinesStay, LineAndBatchAgree, Rows
    <3>. QED
      BY <3>1, <3>2, ReceiptsKept
  <2>. QED
    BY <2>1, <2>2, <2>3, <2>4, <2>5, <2>6, <2>7, <2>8, <2>9, <2>10 DEF ReceiptNext
<1>. QED
  BY <1>1, <1>2, PTL DEF ReceiptSpec

(* However the phone repeats itself, readings end late, lines are removed  *)
(* and receipts applied, discarded and matched again: a photo is one       *)
(* receipt, a reading is observed once, and a line that was put away says  *)
(* the price of its batch (websocket_receipts.py, receipt/task.py).        *)
THEOREM ReceiptsAreSound ==
    ASSUME ReceiptAssumptions
    PROVE  ReceiptSpec => []ReceiptsSound
<1>1. ReceiptInv => ReceiptsSound
  BY DEF ReceiptInv, CartInv, ReceiptsSound
<1>. QED
  BY <1>1, ReceiptInvariant, PTL

(***************************************************************************)
(* Places, sheets and spares.  A key in the journal of spares is the key   *)
(* of an event (`SparesHaveTheirEvent`): that is why testing the events    *)
(* for a replay keeps the journal's keys apart.                            *)
(***************************************************************************)
\* A key a row of the journal carries is the key of an event.
SparesHaveTheirEvent ==
    \A i \in DOMAIN spareKeys :
        spareKeys[i] # Null => \E e \in DOMAIN events : events[e].key = spareKeys[i]

SpareInv  == SparesAreAccountedFor /\ SparesHaveTheirEvent
UpkeepInv == UpkeepTypeOK /\ SpareInv /\ DeclaredOnce /\ PlacesMakeSense

(***************************************************************************)
(* Places and sheets                                                       *)
(***************************************************************************)
\* One place is written, under a key no other place has.
LEMMA PlaceStepKeeps ==
    ASSUME UpkeepTypeOK, DeclaredOnce, PlacesMakeSense,
           NEW b \in BatteryIds, NEW row \in Battery,
           battery' = [battery EXCEPT ![b] = row], UNCHANGED sheet,
           BatteryFieldsOK(row),
           row.ref = RefOf(battery, b) \/ ~Seen(battery, row.ref)
    PROVE  /\ battery' \in [BatteryIds -> Battery \cup {Null}]
           /\ DeclaredOnce' /\ PlacesMakeSense'
<1>1. battery \in [BatteryIds -> Battery \cup {Null}]
  BY DEF UpkeepTypeOK
<1>2. /\ battery' \in [BatteryIds -> Battery \cup {Null}] /\ battery'[b] = row
      /\ \A c \in BatteryIds : c # b => battery'[c] = battery[c]
  BY <1>1
<1>3. PlacesMakeSense'
  BY <1>1, <1>2 DEF PlacesMakeSense, Rows
<1>4. \A c \in BatteryIds : c # b /\ RefOf(battery, c) = row.ref => row.ref = Null
  BY <1>1 DEF DeclaredOnce, RefOf, Seen
<1>5. \A c \in BatteryIds : c # b => RefOf(battery', c) = RefOf(battery, c)
  BY <1>2 DEF RefOf
<1>6. RefOf(battery', b) \in {row.ref, Null}
  BY <1>2 DEF RefOf
<1>7. \A i, j \in BatteryIds :
         RefOf(battery', i) = RefOf(battery', j) /\ RefOf(battery', i) # Null => i = j
  BY <1>4, <1>5, <1>6 DEF DeclaredOnce
<1>8. DeclaredOnce'
  BY <1>7 DEF DeclaredOnce, RefOf
<1>. QED
  BY <1>2, <1>3, <1>8

\* A place is declared.
LEMMA DeclareBatteryKeeps ==
    ASSUME UpkeepConstants, UpkeepInv, NEW k \in BatteryKinds, NEW s \in BOOLEAN,
           NEW r \in NoKeyOr(UpkeepKeys), DeclareBattery(k, s, r)
    PROVE  UpkeepInv'
<1>. DEFINE row == [kind |-> k, spare |-> s, low |-> 20, keep |-> 25, ref |-> r]
<1>1. row \in Battery /\ row.ref = r
  BY DEF UpkeepConstants, Battery
<1>2. /\ ~Seen(battery, r) /\ BatteryFieldsOK(row) /\ NextId(battery) \in BatteryIds
      /\ battery' = [battery EXCEPT ![NextId(battery)] = row]
      /\ UNCHANGED <<events, bought, cupboard, spareKeys, sheet, linked>>
  BY DEF DeclareBattery
<1>. HIDE DEF row
<1>3. /\ battery' \in [BatteryIds -> Battery \cup {Null}]
      /\ DeclaredOnce' /\ PlacesMakeSense'
  BY <1>1, <1>2, PlaceStepKeeps DEF UpkeepInv
<1>4. UpkeepTypeOK'
  BY <1>2, <1>3 DEF UpkeepInv, UpkeepTypeOK
<1>. QED
  BY <1>2, <1>3, <1>4 DEF UpkeepInv, SpareInv, SparesAreAccountedFor, SparesHaveTheirEvent, Took

\* One column of a place is corrected.
LEMMA UpdateBatteryKeeps ==
    ASSUME UpkeepInv, NEW b \in BatteryIds, NEW c, NEW v, UpdateBattery(b, c, v),
           \/ c \in {"low", "keep"} /\ v \in Thresholds
           \/ c = "spare" /\ v \in BOOLEAN
    PROVE  UpkeepInv'
<1>. DEFINE row == [battery[b] EXCEPT ![c] = v]
<1>1. battery \in [BatteryIds -> Battery \cup {Null}] /\ battery[b] \in Battery
      /\ battery[b] # Null
  BY DEF UpkeepInv, UpkeepTypeOK, UpdateBattery, Rows
<1>2. row \in Battery /\ row.ref = battery[b].ref
  BY <1>1 DEF Battery
<1>3. /\ BatteryFieldsOK(row) /\ battery' = [battery EXCEPT ![b] = row]
      /\ UNCHANGED <<events, bought, cupboard, spareKeys, sheet, linked>>
  BY <1>1 DEF UpdateBattery, Merged
<1>4. row.ref = RefOf(battery, b)
  BY <1>1, <1>2 DEF RefOf
<1>. HIDE DEF row
<1>5. /\ battery' \in [BatteryIds -> Battery \cup {Null}]
      /\ DeclaredOnce' /\ PlacesMakeSense'
  BY <1>2, <1>3, <1>4, PlaceStepKeeps DEF UpkeepInv
<1>6. UpkeepTypeOK'
  BY <1>3, <1>5 DEF UpkeepInv, UpkeepTypeOK
<1>. QED
  BY <1>3, <1>5, <1>6 DEF UpkeepInv, SpareInv, SparesAreAccountedFor, SparesHaveTheirEvent, Took

\* Sheets change and their keys stay apart.
LEMMA SheetsKeep ==
    ASSUME UpkeepInv, UNCHANGED <<battery, events, bought, cupboard, spareKeys>>,
           sheet' \in [SheetNames -> [ref : NoKeyOr(UpkeepKeys)] \cup {Null}],
           linked' \subseteq SheetNames,
           \A n, m \in SheetNames :
              RefOf(sheet', n) = RefOf(sheet', m) /\ RefOf(sheet', n) # Null => n = m
    PROVE  UpkeepInv'
<1>1. UpkeepTypeOK'
  BY DEF UpkeepInv, UpkeepTypeOK
<1>2. DeclaredOnce'
  BY DEF UpkeepInv, DeclaredOnce, RefOf
<1>3. PlacesMakeSense'
  BY DEF UpkeepInv, PlacesMakeSense, Rows
<1>. QED
  BY <1>1, <1>2, <1>3 DEF UpkeepInv, SpareInv, SparesAreAccountedFor, SparesHaveTheirEvent, Took

\* A sheet is created or renamed, a consumable linked or unlinked.
LEMMA EquipmentKeeps ==
    ASSUME UpkeepInv,
           \/ \E n \in SheetNames, r \in NoKeyOr(UpkeepKeys) : CreateEquipment(n, r)
           \/ \E n, m \in SheetNames : RenameEquipment(n, m)
           \/ \E n \in SheetNames : LinkConsumable(n) \/ UnlinkConsumable(n)
    PROVE  UpkeepInv'
<1>0. /\ sheet \in [SheetNames -> [ref : NoKeyOr(UpkeepKeys)] \cup {Null}]
      /\ linked \subseteq SheetNames
      /\ \A n, m \in SheetNames :
            RefOf(sheet, n) = RefOf(sheet, m) /\ RefOf(sheet, n) # Null => n = m
  BY DEF UpkeepInv, UpkeepTypeOK, DeclaredOnce
<1>1. ASSUME NEW name \in SheetNames, NEW r \in NoKeyOr(UpkeepKeys), CreateEquipment(name, r)
      PROVE  UpkeepInv'
  <2>1. /\ ~Seen(sheet, r) /\ sheet' = [sheet EXCEPT ![name] = [ref |-> r]]
        /\ UNCHANGED <<battery, events, bought, cupboard, spareKeys, linked>>
    BY <1>1 DEF CreateEquipment
  <2>2. /\ sheet' \in [SheetNames -> [ref : NoKeyOr(UpkeepKeys)] \cup {Null}]
        /\ sheet'[name].ref = r /\ \A m \in SheetNames : m # name => sheet'[m] = sheet[m]
    BY <1>0, <2>1
  <2>3. \A m \in SheetNames : RefOf(sheet, m) = r => r = Null
    BY <1>0, <2>1 DEF RefOf, Seen
  <2>4. \A n, m \in SheetNames :
            RefOf(sheet', n) = RefOf(sheet', m) /\ RefOf(sheet', n) # Null => n = m
    BY <1>0, <2>2, <2>3 DEF RefOf
  <2>. QED
    BY <1>0, <2>1, <2>2, <2>4, SheetsKeep
<1>2. ASSUME NEW name \in SheetNames, NEW other \in SheetNames, RenameEquipment(name, other)
      PROVE  UpkeepInv'
  <2>1. /\ sheet[name] # Null /\ sheet[other] = Null
        /\ sheet' = [sheet EXCEPT ![other] = sheet[name], ![name] = Null]
        /\ linked' = {IF n = name THEN other ELSE n : n \in linked}
        /\ UNCHANGED <<battery, events, bought, cupboard, spareKeys>>
    BY <1>2 DEF RenameEquipment
  <2>2. /\ sheet' \in [SheetNames -> [ref : NoKeyOr(UpkeepKeys)] \cup {Null}]
        /\ sheet'[other] = sheet[name] /\ sheet'[name] = Null
        /\ \A m \in SheetNames : m # name /\ m # other => sheet'[m] = sheet[m]
    BY <1>0, <2>1
  <2>3. \A n, m \in SheetNames :
            RefOf(sheet', n) = RefOf(sheet', m) /\ RefOf(sheet', n) # Null => n = m
    BY <1>0, <2>1, <2>2 DEF RefOf
  <2>. QED
    BY <1>0, <2>1, <2>2, <2>3, SheetsKeep
<1>3. ASSUME NEW name \in SheetNames, LinkConsumable(name) \/ UnlinkConsumable(name)
      PROVE  UpkeepInv'
  <2>1. /\ linked' \subseteq SheetNames
        /\ UNCHANGED <<battery, events, bought, cupboard, spareKeys, sheet>>
    BY <1>0, <1>3 DEF LinkConsumable, UnlinkConsumable
  <2>. QED
    BY <1>0, <2>1, SheetsKeep
<1>. QED
  BY <1>1, <1>2, <1>3

(***************************************************************************)
(* Spares and events                                                       *)
(***************************************************************************)
\* Spares are bought.
LEMMA BuySparesKeeps ==
    ASSUME UpkeepConstants, UpkeepInv, NEW n \in 1..MaxSpares, BuySpares(n)
    PROVE  UpkeepInv'
<1>1. /\ bought' = bought + n /\ cupboard' = cupboard + n
      /\ UNCHANGED <<battery, events, spareKeys, sheet, linked>>
  BY DEF BuySpares
<1>2. bought \in Nat /\ cupboard \in Nat /\ n \in Nat /\ Cells \in Nat
  BY DEF UpkeepInv, UpkeepTypeOK, UpkeepConstants
<1>3. bought' \in Nat /\ cupboard' \in Nat
  BY <1>1, <1>2
<1>4. UpkeepTypeOK'
  BY <1>1, <1>3 DEF UpkeepInv, UpkeepTypeOK
<1>5. DeclaredOnce' /\ PlacesMakeSense' /\ SparesHaveTheirEvent'
  BY <1>1 DEF UpkeepInv, SpareInv, DeclaredOnce, RefOf, PlacesMakeSense, Rows, SparesHaveTheirEvent
<1>6. IsFiniteSet(Took) /\ Took' = Took
  <2>1. events \in Seq(Event)
    BY DEF UpkeepInv, UpkeepTypeOK
  <2>2. IsFiniteSet(1..Len(events)) /\ Took \subseteq 1..Len(events)
    BY <2>1, FS_Interval DEF Took
  <2>. QED
    BY <1>1, <2>2, FS_Subset DEF Took
<1>7. Cardinality(Took) \in Nat
  BY <1>6, FS_CardinalityType
<1>8. SparesAreAccountedFor'
  <2>1. cupboard + Cells * Cardinality(Took) = bought
    BY DEF UpkeepInv, SpareInv, SparesAreAccountedFor
  <2>2. Cells * Cardinality(Took) \in Nat
    BY <1>2, <1>7
  <2>3. cupboard' + Cells * Cardinality(Took) = bought'
    BY <1>1, <1>2, <2>1, <2>2
  <2>. QED
    BY <1>1, <1>6, <2>3 DEF UpkeepInv, SpareInv, SparesAreAccountedFor
<1>. QED
  BY <1>4, <1>5, <1>8 DEF UpkeepInv, SpareInv

\* An event is recorded, with the spare it took and the row of the journal
\* that says so.
LEMMA RecordEventKeeps ==
    ASSUME UpkeepConstants, UpkeepInv, NEW b \in BatteryIds, NEW k \in EventKinds,
           NEW c \in {TRUE, FALSE, Null}, NEW key \in NoKeyOr(UpkeepKeys), RecordEvent(b, k, c, key)
    PROVE  UpkeepInv'
<1>. DEFINE takes == WantsSpare(battery[b], c) /\ cupboard >= Cells
            row   == [battery |-> b, kind |-> k, key |-> key, took |-> takes]
            at    == Len(events) + 1
<1>0. /\ events \in Seq(Event) /\ cupboard \in Nat /\ bought \in Nat
      /\ spareKeys \in Seq(NoKeyOr(UpkeepKeys)) /\ Cells \in Nat \ {0} /\ battery[b] \in Battery
  BY DEF UpkeepInv, UpkeepTypeOK, RecordEvent, Rows, UpkeepConstants
<1>1. takes \in BOOLEAN
  BY <1>0 DEF WantsSpare, Battery
<1>2. /\ ~Replayed(key) /\ events' = Append(events, row)
      /\ IF takes THEN cupboard' = cupboard - Cells /\ spareKeys' = Append(spareKeys, key)
                  ELSE UNCHANGED <<cupboard, spareKeys>>
      /\ UNCHANGED <<battery, bought, sheet, linked>>
  BY DEF RecordEvent, TakeSpare
<1>3. row \in Event /\ row.key = key /\ row.took = takes
  BY <1>1 DEF Event
<1>. HIDE DEF row
<1>4. /\ events' \in Seq(Event) /\ Len(events') = at
      /\ \A i \in 1..Len(events) : events'[i] = events[i] /\ events'[at] = row
  BY <1>0, <1>2, <1>3, AppendProperties
<1>5. /\ DOMAIN events = 1..Len(events) /\ DOMAIN events' = 1..at
      /\ at \in DOMAIN events' /\ events'[at] = row
      /\ \A i \in DOMAIN events' : i = at \/ i \in DOMAIN events
      /\ \A i \in DOMAIN events : i # at /\ i \in DOMAIN events'
  BY <1>0, <1>2, <1>3, <1>4, AppendProperties
<1>6. IsFiniteSet(Took) /\ Cardinality(Took) \in Nat
  <2>1. IsFiniteSet(1..Len(events)) /\ Took \subseteq 1..Len(events)
    BY <1>0, FS_Interval DEF Took
  <2>. QED
    BY <2>1, FS_Subset, FS_CardinalityType
<1>7. /\ takes => Took' = Took \cup {at} /\ Cardinality(Took') = Cardinality(Took) + 1
      /\ ~takes => Took' = Took
  <2>1. \A i \in DOMAIN events : events'[i].took = events[i].took
    BY <1>4, <1>5
  <2>2. takes => Took' = Took \cup {at}
    BY <1>3, <1>5, <2>1 DEF Took
  <2>3. ~takes => Took' = Took
    BY <1>3, <1>5, <2>1 DEF Took
  <2>4. at \notin Took
    BY <1>5 DEF Took
  <2>. QED
    BY <1>6, <2>2, <2>3, <2>4, FS_AddElement
<1>8. DeclaredOnce' /\ PlacesMakeSense'
  BY <1>2 DEF UpkeepInv, DeclaredOnce, RefOf, PlacesMakeSense, Rows
<1>9. /\ cupboard + Cells * Cardinality(Took) = bought /\ Len(spareKeys) = Cardinality(Took)
      /\ \A i, j \in DOMAIN spareKeys : spareKeys[i] = spareKeys[j] /\ spareKeys[i] # Null => i = j
      /\ \A i \in DOMAIN spareKeys :
            spareKeys[i] # Null => \E e \in DOMAIN events : events[e].key = spareKeys[i]
  BY DEF UpkeepInv, SpareInv, SparesAreAccountedFor, SparesHaveTheirEvent
<1>10. \A i \in DOMAIN events : events'[i].key = events[i].key
  BY <1>4, <1>5
<1>11. CASE takes
  <2>1. cupboard' = cupboard - Cells /\ spareKeys' = Append(spareKeys, key) /\ cupboard >= Cells
    BY <1>2, <1>11
  <2>2. /\ spareKeys' \in Seq(NoKeyOr(UpkeepKeys)) /\ Len(spareKeys') = Len(spareKeys) + 1
        /\ \A i \in 1..Len(spareKeys) : spareKeys'[i] = spareKeys[i]
        /\ spareKeys'[Len(spareKeys) + 1] = key
    BY <1>0, <2>1, AppendProperties
  <2>3. cupboard' \in Nat
    BY <1>0, <2>1
  <2>4. UpkeepTypeOK'
    BY <1>2, <1>4, <2>2, <2>3 DEF UpkeepInv, UpkeepTypeOK
  <2>5. cupboard' + Cells * Cardinality(Took') = bought'
    <3>1. Cardinality(Took') = Cardinality(Took) + 1
      BY <1>7, <1>11
    <3>2. Cells * (Cardinality(Took) + 1) = Cells * Cardinality(Took) + Cells
          /\ Cells * Cardinality(Took) \in Nat
      BY <1>0, <1>6
    <3>. QED
      BY <1>0, <1>2, <1>9, <2>1, <3>1, <3>2
  <2>6. key # Null => \A i \in DOMAIN spareKeys : spareKeys[i] # key
    BY <1>2, <1>9 DEF Replayed
  <2>7. \A i \in DOMAIN spareKeys' : i = Len(spareKeys) + 1 \/ i \in DOMAIN spareKeys
    BY <1>0, <2>2
  <2>8. SparesHaveTheirEvent'
    <3>1. SUFFICES ASSUME NEW i \in DOMAIN spareKeys', spareKeys'[i] # Null
                   PROVE  \E e \in DOMAIN events' : events'[e].key = spareKeys'[i]
      BY DEF SparesHaveTheirEvent
    <3>2. CASE i = Len(spareKeys) + 1
      BY <1>3, <1>5, <2>2, <3>2
    <3>3. CASE i \in DOMAIN spareKeys
      <4>1. spareKeys'[i] = spareKeys[i]
        BY <1>0, <2>2, <3>3
      <4>2. PICK e \in DOMAIN events : events[e].key = spareKeys[i]
        BY <1>9, <3>1, <3>3, <4>1
      <4>. QED
        BY <1>5, <1>10, <4>1, <4>2
    <3>. QED
      BY <2>7, <3>2, <3>3
  <2>9. SparesAreAccountedFor'
    <3>1. Len(spareKeys') = Cardinality(Took')
      BY <1>7, <1>9, <1>11, <2>2
    <3>2. \A i, j \in DOMAIN spareKeys' :
             spareKeys'[i] = spareKeys'[j] /\ spareKeys'[i] # Null => i = j
      BY <1>0, <1>9, <2>2, <2>6, <2>7
    <3>. QED
      BY <2>5, <3>1, <3>2 DEF SparesAreAccountedFor
  <2>. QED
    BY <1>8, <2>4, <2>8, <2>9 DEF UpkeepInv, SpareInv
<1>12. CASE ~takes
  <2>1. UNCHANGED <<cupboard, spareKeys, bought>> /\ Took' = Took
    BY <1>2, <1>7, <1>12
  <2>2. UpkeepTypeOK'
    BY <1>2, <1>4, <2>1 DEF UpkeepInv, UpkeepTypeOK
  <2>3. SparesAreAccountedFor'
    BY <1>9, <2>1 DEF SparesAreAccountedFor
  <2>4. SparesHaveTheirEvent'
    BY <1>5, <1>9, <1>10, <2>1 DEF SparesHaveTheirEvent
  <2>. QED
    BY <1>8, <2>2, <2>3, <2>4 DEF UpkeepInv, SpareInv
<1>. QED
  BY <1>11, <1>12

\* The inductive invariant holds in every state.
LEMMA UpkeepInvariant ==
    ASSUME UpkeepConstants
    PROVE  UpkeepSpec => []UpkeepInv
<1>1. UpkeepInit => UpkeepInv
  <2>. SUFFICES ASSUME UpkeepInit PROVE UpkeepInv
    OBVIOUS
  <2>1. UpkeepTypeOK
    BY DEF UpkeepInit, UpkeepTypeOK
  <2>2. DeclaredOnce /\ PlacesMakeSense /\ SparesHaveTheirEvent
    BY DEF UpkeepInit, DeclaredOnce, RefOf, PlacesMakeSense, Rows, SparesHaveTheirEvent
  <2>3. Took = {} /\ Cells \in Nat /\ cupboard = 0 /\ bought = 0 /\ spareKeys = <<>>
    BY DEF UpkeepInit, Took, UpkeepConstants
  <2>4. Cardinality(Took) = 0
    BY <2>3, FS_EmptySet
  <2>5. SparesAreAccountedFor
    BY <2>3, <2>4 DEF SparesAreAccountedFor
  <2>. QED
    BY <2>1, <2>2, <2>5 DEF UpkeepInv, SpareInv
<1>2. UpkeepInv /\ [UpkeepNext]_upkeepVars => UpkeepInv'
  <2>. SUFFICES ASSUME UpkeepInv, [UpkeepNext]_upkeepVars PROVE UpkeepInv'
    OBVIOUS
  <2>1. ASSUME NEW k \in BatteryKinds, NEW s \in BOOLEAN, NEW r \in NoKeyOr(UpkeepKeys),
               DeclareBattery(k, s, r)
        PROVE  UpkeepInv'
    BY <2>1, DeclareBatteryKeeps
  <2>2. ASSUME NEW b \in BatteryIds, NEW v \in Thresholds, NEW c \in {"low", "keep"},
               UpdateBattery(b, c, v)
        PROVE  UpkeepInv'
    BY <2>2, UpdateBatteryKeeps
  <2>3. ASSUME NEW b \in BatteryIds, NEW v \in BOOLEAN, UpdateBattery(b, "spare", v)
        PROVE  UpkeepInv'
    BY <2>3, UpdateBatteryKeeps
  <2>4. CASE \/ \E n \in SheetNames, r \in NoKeyOr(UpkeepKeys) : CreateEquipment(n, r)
             \/ \E n, m \in SheetNames : RenameEquipment(n, m)
             \/ \E n \in SheetNames : LinkConsumable(n) \/ UnlinkConsumable(n)
    BY <2>4, EquipmentKeeps
  <2>5. ASSUME NEW n \in 1..MaxSpares, BuySpares(n)
        PROVE  UpkeepInv'
    BY <2>5, BuySparesKeeps
  <2>6. ASSUME NEW b \in BatteryIds, NEW k \in EventKinds, NEW c \in {TRUE, FALSE, Null},
               NEW r \in NoKeyOr(UpkeepKeys), RecordEvent(b, k, c, r)
        PROVE  UpkeepInv'
    BY <2>6, RecordEventKeeps
  <2>7. CASE UNCHANGED upkeepVars
    BY <2>7 DEF upkeepVars, UpkeepInv, UpkeepTypeOK, SpareInv, SparesAreAccountedFor,
       SparesHaveTheirEvent, Took, DeclaredOnce, RefOf, PlacesMakeSense, Rows
  <2>. QED
    BY <2>1, <2>2, <2>3, <2>4, <2>5, <2>6, <2>7 DEF UpkeepNext
<1>. QED
  BY <1>1, <1>2, PTL DEF UpkeepSpec

(* Whatever is declared, corrected, renamed and replayed: the spares left  *)
(* are those bought less those an event took, no key takes two or declares *)
(* two, and the thresholds of a place stay in order                        *)
(* (websocket_batteries.py, domain/maintenance.py).                        *)
THEOREM UpkeepIsSound ==
    ASSUME UpkeepConstants
    PROVE  UpkeepSpec => []UpkeepSound
<1>1. UpkeepInv => UpkeepSound
  BY DEF UpkeepInv, SpareInv, UpkeepSound
<1>. QED
  BY <1>1, UpkeepInvariant, PTL

(***************************************************************************)
(* Tasks of the batteries.  Between the readings and the list the numbers  *)
(* may be old, so what closes a task is the reading the synchronisation    *)
(* holds (`sync`), and the invariant is that it holds one for every place  *)
(* it speaks of.                                                           *)
(***************************************************************************)
\* A refresh under way holds the moment of its readings.
ReadingsHaveTheirMoment == refresh # Null => refresh.at \in 0..MaxHour

MaintenanceInv == MaintenanceTypeOK /\ ReadingsHaveTheirMoment

\* A cell has changed hands, a device has spoken or fallen silent, an hour has
\* passed: the types stay.
LEMMA HousekeepingKeeps ==
    ASSUME MaintenanceConstants, MaintenanceInv,
           \/ \E b \in Batteries, on \in BOOLEAN : Watch(b, on)
           \/ \E b \in Batteries, low \in Lows, keep \in Keeps : SetThresholds(b, low, keep)
           \/ \E b \in Batteries : ChangeCell(b)
           \/ \E b \in Batteries, v \in States : Report(b, v) \/ FallSilent(b, v)
           \/ TickHour
    PROVE  MaintenanceInv'
<1>0. /\ place \in [Batteries -> Place] /\ state \in [Batteries -> States]
      /\ spoke \in [Batteries -> BOOLEAN] /\ todo \subseteq Tasks /\ hour \in 0..MaxHour
      /\ MaxHour \in Nat
  BY DEF MaintenanceInv, MaintenanceTypeOK, MaintenanceConstants
<1>1. ASSUME NEW b \in Batteries, NEW on \in BOOLEAN, Watch(b, on)
      PROVE  MaintenanceInv'
  <2>1. place' \in [Batteries -> Place]
    BY <1>0, <1>1 DEF Watch, Place
  <2>. QED
    BY <1>1, <2>1 DEF Watch, MaintenanceInv, MaintenanceTypeOK,
      ReadingsHaveTheirMoment
<1>2. ASSUME NEW b \in Batteries, NEW low \in Lows, NEW keep \in Keeps,
             SetThresholds(b, low, keep)
      PROVE  MaintenanceInv'
  <2>1. place' \in [Batteries -> Place]
    BY <1>0, <1>2 DEF SetThresholds, Place
  <2>. QED
    BY <1>2, <2>1 DEF SetThresholds, MaintenanceInv, MaintenanceTypeOK,
      ReadingsHaveTheirMoment
<1>3. ASSUME NEW b \in Batteries, ChangeCell(b)
      PROVE  MaintenanceInv'
  <2>1. place' \in [Batteries -> Place] /\ spoke' \in [Batteries -> BOOLEAN]
    BY <1>0, <1>3 DEF ChangeCell, Place
  <2>. QED
    BY <1>3, <2>1 DEF ChangeCell, MaintenanceInv, MaintenanceTypeOK,
      ReadingsHaveTheirMoment
<1>4. ASSUME NEW b \in Batteries, NEW v \in States, Report(b, v) \/ FallSilent(b, v)
      PROVE  MaintenanceInv'
  <2>1. state' \in [Batteries -> States] /\ spoke' \in [Batteries -> BOOLEAN]
    BY <1>0, <1>4 DEF Report, FallSilent
  <2>. QED
    BY <1>4, <2>1 DEF Report, FallSilent, MaintenanceInv, MaintenanceTypeOK,
      ReadingsHaveTheirMoment
<1>5. CASE TickHour
  <2>1. hour' \in 0..MaxHour
    BY <1>0, <1>5 DEF TickHour
  <2>. QED
    BY <1>5, <2>1 DEF TickHour, MaintenanceInv, MaintenanceTypeOK,
      ReadingsHaveTheirMoment
<1>. QED
  BY <1>1, <1>2, <1>3, <1>4, <1>5

\* A refresh and a synchronisation keep the types.
LEMMA MachinesKeep ==
    ASSUME MaintenanceConstants, MaintenanceInv,
           \/ ReadStates \/ RecordReadings \/ SyncApplies \/ SyncIncomplete
           \/ \E m \in SUBSET MacroTasks : SyncReads(m)
           \/ \E t \in Tasks : TaskDone(t)
    PROVE  MaintenanceInv'
<1>0. /\ place \in [Batteries -> Place] /\ state \in [Batteries -> States]
      /\ todo \subseteq Tasks /\ hour \in 0..MaxHour
  BY DEF MaintenanceInv, MaintenanceTypeOK
<1>1. CASE ReadStates
  <2>1. refresh'.reads \in [Batteries -> Levels \cup {Null}] /\ refresh'.at = hour
    BY <1>1 DEF ReadStates, Numeric
  <2>. QED
    BY <1>0, <1>1, <2>1 DEF ReadStates, MaintenanceInv, MaintenanceTypeOK,
       ReadingsHaveTheirMoment
<1>2. CASE RecordReadings
  <2>1. /\ refresh # Null /\ refresh.at \in 0..MaxHour
        /\ refresh.reads \in [Batteries -> Levels \cup {Null}]
    BY <1>2 DEF RecordReadings, MaintenanceInv, MaintenanceTypeOK, ReadingsHaveTheirMoment
  <2>2. ASSUME NEW b \in Batteries, refresh.reads[b] # Null
        PROVE  Reading(place[b], refresh.reads[b], refresh.at) \in Place
    BY <1>0, <2>1, <2>2 DEF Reading, Place
  <2>3. place' \in [Batteries -> Place]
    BY <1>0, <1>2, <2>2 DEF RecordReadings
  <2>. QED
    BY <1>2, <2>3 DEF RecordReadings, MaintenanceInv, MaintenanceTypeOK,
       ReadingsHaveTheirMoment
<1>3. ASSUME NEW m \in SUBSET MacroTasks, SyncReads(m)
      PROVE  MaintenanceInv'
  BY <1>0, <1>3 DEF SyncReads, MaintenanceInv, MaintenanceTypeOK, ReadingsHaveTheirMoment
<1>4. CASE SyncApplies
  <2>1. sync.macro \subseteq MacroTasks
    BY <1>4 DEF SyncApplies, MaintenanceInv, MaintenanceTypeOK
  <2>2. MergePlan(PlanItems(sync.states), sync.macro) \subseteq Tasks
    BY <2>1 DEF MergePlan, PlanItems, Watched, Tasks
  <2>3. todo' \subseteq Tasks
    BY <1>0, <1>4, <2>2 DEF SyncApplies
  <2>. QED
    BY <1>4, <2>3 DEF SyncApplies, MaintenanceInv, MaintenanceTypeOK, ReadingsHaveTheirMoment
<1>5. CASE SyncIncomplete
  <2>1. todo' \subseteq Tasks
    BY <1>0, <1>5 DEF SyncIncomplete, MaintenanceInv, MaintenanceTypeOK, Tasks
  <2>. QED
    BY <1>5, <2>1 DEF SyncIncomplete, MaintenanceInv, MaintenanceTypeOK,
       ReadingsHaveTheirMoment
<1>6. ASSUME NEW t \in Tasks, TaskDone(t)
      PROVE  MaintenanceInv'
  BY <1>0, <1>6 DEF TaskDone, MaintenanceInv, MaintenanceTypeOK, ReadingsHaveTheirMoment
<1>. QED
  BY <1>1, <1>2, <1>3, <1>4, <1>5, <1>6

\* The inductive invariant holds in every state.
LEMMA MaintenanceInvariant ==
    ASSUME MaintenanceConstants
    PROVE  MaintenanceSpec => []MaintenanceInv
<1>1. MaintenanceInit => MaintenanceInv
  <2>. SUFFICES ASSUME MaintenanceInit PROVE MaintenanceInv
    OBVIOUS
  <2>1. place \in [Batteries -> Place]
    BY DEF MaintenanceInit, Place
  <2>2. state \in [Batteries -> States] /\ spoke \in [Batteries -> BOOLEAN]
    BY DEF MaintenanceInit, States
  <2>3. refresh = Null /\ sync = Null /\ todo = {} /\ hour \in 0..MaxHour
    BY DEF MaintenanceInit, MaintenanceConstants
  <2>. QED
    BY <2>1, <2>2, <2>3 DEF MaintenanceInv, MaintenanceTypeOK, ReadingsHaveTheirMoment
<1>2. MaintenanceInv /\ [MaintenanceNext]_maintenanceVars => MaintenanceInv'
  <2>1. MaintenanceInv /\ UNCHANGED maintenanceVars => MaintenanceInv'
    BY DEF maintenanceVars, MaintenanceInv, MaintenanceTypeOK, ReadingsHaveTheirMoment
  <2>2. MaintenanceInv /\ MaintenanceNext => MaintenanceInv'
    BY HousekeepingKeeps, MachinesKeep DEF MaintenanceNext, States
  <2>. QED
    BY <2>1, <2>2
<1>. QED
  BY <1>1, <1>2, PTL DEF MaintenanceSpec

(* Whatever a cell reports, falls silent, is changed or is no longer       *)
(* watched, a synchronisation closes a task opened by a low level only on  *)
(* a number that is at the threshold or above: an unreadable sensor, a     *)
(* silence or a restart closes nothing (maintenance.py,                    *)
(* domain/maintenance.py).                                                 *)
THEOREM LevelTasksCloseOnAMeasure ==
    ASSUME MaintenanceConstants
    PROVE  MaintenanceSpec => LevelClosesOnAMeasure
<1>1. MaintenanceInv /\ [MaintenanceNext]_maintenanceVars
          => [LevelClosesOnAMeasureStep]_maintenanceVars
  <2>. SUFFICES ASSUME MaintenanceInv, MaintenanceNext, NEW b \in Watched, Synchronised,
                       <<"level", b>> \in todo \ todo'
                PROVE  Numeric(sync.states[b]) /\ Percent(b, sync.states) >= place[b].keep
    BY DEF LevelClosesOnAMeasureStep
  <2>0. b \in Batteries /\ place[b] \in Place
    BY DEF Watched, MaintenanceInv, MaintenanceTypeOK
  <2>1. SyncApplies \/ SyncIncomplete
    BY DEF Synchronised, MaintenanceNext, Watch, SetThresholds, ChangeCell, Report, FallSilent,
       TickHour, ReadStates, RecordReadings, SyncReads, TaskDone
  <2>2. ~SyncIncomplete
    BY DEF SyncIncomplete
  <2>3. <<"level", b>> \notin PlanKeep(sync.states)
    BY <2>1, <2>2 DEF SyncApplies, MergePlan
  <2>4. Numeric(sync.states[b]) /\ ~(Percent(b, sync.states) < place[b].keep)
    BY <2>3 DEF PlanKeep
  <2>5. Percent(b, sync.states) \in Int /\ place[b].keep \in Int
    BY <2>0, <2>4 DEF Percent, Numeric, Place, MaintenanceConstants
  <2>. QED
    BY <2>4, <2>5
<1>. QED
  BY <1>1, MaintenanceInvariant, PTL DEF MaintenanceSpec, LevelClosesOnAMeasure

(***************************************************************************)
(* Lines of recipes.  A quantity that counts was said by a card, in a unit *)
(* that was the product's (`SaidOfACard`), and that stays true of a line   *)
(* nobody rematched because nothing but a conversion changes a unit; an    *)
(* alias is a lesson (`AliasesTaught`), so what an import confirms was     *)
(* confirmed before.                                                       *)
(***************************************************************************)
\* What the constants are, and that Null is no product and no row.
KitchenAssumptions ==
    KitchenConstants /\ Null \notin Goods /\ Null \notin Recipe

\* What a mass, a number or a spoon counts.
Countable == {<<"count", "piece">>, <<"mass", "g">>, <<"spoon", "ml">>}

\* Somewhere in the cards the text of a line counts in this unit.
SaidOfACard(text, unit) ==
    \E ref \in Refs, c \in Cards : \E n \in DOMAIN c :
        c[n].text = text /\ <<c[n].written, unit>> \in Countable

\* A line, the aliases taught and the products converted so far.
LineSound(l, lessons, grams) ==
    /\ l.match \in {"auto", "confirmed"} => l.product # Null
    /\ l.match = "confirmed" /\ ~l.byHand => <<l.text, l.product>> \in lessons
    /\ ~l.byHand /\ l.counts # Null /\ l.product # Null =>
          /\ SaidOfACard(l.text, l.in)
          /\ l.product \notin grams => l.in = UnitAtFirst[l.product]

LinesSound ==
    \A r \in RecipeIds : \A p \in Rows(line[r]) :
        recipe[r] # Null /\ LineSound(line[r][p], taught, converted)

\* An alias is a lesson.
AliasesTaught == \A t \in Texts : alias[t] # Null => <<t, alias[t]>> \in taught

KitchenInv == KitchenTypeOK /\ LinesSound /\ AliasesTaught

\* The variables one by one, without the rules on lines.
KitchenTypes ==
    /\ recipe \in [RecipeIds -> Recipe \cup {Null}]
    /\ line \in [RecipeIds -> [Positions -> Ingredient \cup {Null}]]
    /\ alias \in [Texts -> Good] /\ taught \subseteq Texts \X Goods
    /\ hidden \subseteq Goods /\ converted \subseteq Goods
    /\ source \in [Refs -> Cards]
    /\ importing \in [Imports -> Held \cup {Null}]

\* The variables one by one and the rules on lines make the types.
LEMMA TypesAreSound ==
    ASSUME KitchenTypes, LinesSound
    PROVE  KitchenTypeOK
  BY DEF KitchenTypes, LinesSound, LineSound, KitchenTypeOK

\* A line stays sound when more is taught and more products are converted.
LEMMA SoundLater ==
    ASSUME NEW l, NEW lessons, NEW more, NEW grams, NEW mores,
           lessons \subseteq more, grams \subseteq mores, LineSound(l, lessons, grams)
    PROVE  LineSound(l, more, mores)
  BY DEF LineSound

\* The lines of one recipe are rewritten.
LEMMA LinesStaySound ==
    ASSUME KitchenInv, NEW r \in RecipeIds, NEW after \in [Positions -> Ingredient \cup {Null}],
           line' = [line EXCEPT ![r] = after],
           taught \subseteq taught', converted \subseteq converted',
           \A s \in RecipeIds : s # r /\ recipe[s] # Null => recipe'[s] # Null,
           Rows(after) # {} => recipe'[r] # Null,
           \A p \in Rows(after) : after[p] = line[r][p] \/ LineSound(after[p], taught', converted')
    PROVE  /\ line' \in [RecipeIds -> [Positions -> Ingredient \cup {Null}]]
           /\ LinesSound'
<1>1. line \in [RecipeIds -> [Positions -> Ingredient \cup {Null}]]
  BY DEF KitchenInv, KitchenTypeOK
<1>2. /\ line' \in [RecipeIds -> [Positions -> Ingredient \cup {Null}]] /\ line'[r] = after
      /\ \A s \in RecipeIds : s # r => line'[s] = line[s]
  BY <1>1
<1>3. SUFFICES ASSUME NEW s \in RecipeIds, NEW p \in Rows(line'[s])
               PROVE  recipe'[s] # Null /\ LineSound(line'[s][p], taught', converted')
  BY <1>2 DEF LinesSound, LineSound, SaidOfACard, Rows
<1>4. CASE s # r
  <2>1. recipe[s] # Null /\ LineSound(line[s][p], taught, converted) /\ line'[s] = line[s]
    BY <1>2, <1>3, <1>4 DEF KitchenInv, LinesSound
  <2>. QED
    BY <1>4, <2>1, SoundLater
<1>5. CASE s = r
  <2>1. p \in Rows(after) /\ recipe'[r] # Null /\ line'[s][p] = after[p]
    BY <1>2, <1>3, <1>5
  <2>2. ASSUME after[p] = line[r][p]
        PROVE  LineSound(after[p], taught', converted')
    <3>1. p \in Rows(line[r])
      BY <1>1, <2>1, <2>2 DEF Rows
    <3>2. LineSound(line[r][p], taught, converted)
      BY <3>1 DEF KitchenInv, LinesSound
    <3>. QED
      BY <2>2, <3>2, SoundLater
  <2>. QED
    BY <1>5, <2>1, <2>2
<1>. QED
  BY <1>4, <1>5

\* The lines stay as they are and their recipes stay.
LEMMA LinesUntouched ==
    ASSUME KitchenInv, line' = line, taught \subseteq taught', converted \subseteq converted',
           \A s \in RecipeIds : recipe[s] # Null => recipe'[s] # Null
    PROVE  LinesSound'
<1>1. SUFFICES ASSUME NEW s \in RecipeIds, NEW p \in Rows(line[s])
               PROVE  recipe'[s] # Null /\ LineSound(line[s][p], taught', converted')
  BY DEF LinesSound, LineSound, SaidOfACard, Rows
<1>2. recipe[s] # Null /\ LineSound(line[s][p], taught, converted)
  BY DEF KitchenInv, LinesSound
<1>. QED
  BY <1>2, SoundLater

\* A line a hand typed is sound.
LEMMA TypedLineSound ==
    ASSUME KitchenAssumptions, converted \subseteq Goods,
           NEW t \in Texts, NEW g \in Good, NEW for \in Good,
           NEW m \in {"unmatched", "auto", "confirmed", "ignored"},
           NEW n \in {"base", "packaging", Null},
           n = Null \/ for \in Goods, m \in {"auto", "confirmed"} => g # Null,
           NEW lessons, NEW grams
    PROVE  /\ TypedLine(t, g, m, n, for) \in Ingredient
           /\ LineSound(TypedLine(t, g, m, n, for), lessons, grams)
<1>. DEFINE unit == IF n = Null THEN Null ELSE UnitNow(for)
            l    == TypedLine(t, g, m, n, for)
<1>1. unit \in Dimensions \cup {Null}
  BY DEF KitchenAssumptions, KitchenConstants, UnitNow, Dimensions
<1>2. l = [text |-> t, product |-> g, match |-> m, counts |-> n, in |-> unit, byHand |-> TRUE]
  BY DEF TypedLine
<1>. HIDE DEF unit, l
<1>3. l \in Ingredient
  BY <1>1, <1>2 DEF Ingredient
<1>4. LineSound(l, lessons, grams)
  BY <1>2 DEF LineSound
<1>. QED
  BY <1>3, <1>4 DEF l

\* The types of the variables one by one.
LEMMA TypesAtHand ==
    ASSUME KitchenInv
    PROVE  KitchenTypes
  BY DEF KitchenInv, KitchenTypeOK, KitchenTypes

(***************************************************************************)
(* Recipes written by hand                                                 *)
(***************************************************************************)
\* A recipe is created with its line.
LEMMA CreateRecipeKeeps ==
    ASSUME KitchenAssumptions, KitchenInv, NEW t \in Texts, NEW g \in Good,
           NEW m \in {"unmatched", "confirmed"}, NEW pack \in Goods \cup {Null},
           CreateRecipe(TypedLine(t, g, m, IF pack = Null THEN Null ELSE "packaging", pack))
    PROVE  KitchenInv'
<1>. DEFINE n   == IF pack = Null THEN Null ELSE "packaging"
            l   == TypedLine(t, g, m, n, pack)
            r   == NextId(recipe)
            row == [ref |-> Null, cooked |-> FALSE]
<1>0. KitchenTypes
  BY TypesAtHand
<1>1. /\ r \in RecipeIds
      /\ l.match \in {"auto", "confirmed"} => l.product # Null
      /\ recipe' = [recipe EXCEPT ![r] = row]
      /\ line' = [line EXCEPT ![r][1] = l]
      /\ UNCHANGED <<alias, taught, hidden, converted, source, importing>>
  BY DEF CreateRecipe
<1>2. l \in Ingredient /\ LineSound(l, taught, converted)
  <2>1. l.match = m /\ l.product = g
    BY DEF TypedLine
  <2>2. m \in {"auto", "confirmed"} => g # Null
    BY <1>1, <2>1
  <2>3. n \in {"base", "packaging", Null} /\ (n = Null \/ pack \in Goods)
        /\ pack \in Good /\ converted \subseteq Goods
    BY <1>0 DEF Good, KitchenTypes
  <2>. HIDE DEF n
  <2>. QED
    BY <2>2, <2>3, TypedLineSound
<1>3. row \in Recipe /\ row # Null
  <2>1. row \in Recipe
    BY DEF Recipe
  <2>. QED
    BY <2>1 DEF KitchenAssumptions
<1>. HIDE DEF n, l, row, r
<1>4. line \in [RecipeIds -> [Positions -> Ingredient \cup {Null}]]
      /\ recipe \in [RecipeIds -> Recipe \cup {Null}]
  BY <1>0 DEF KitchenTypes
<1>. DEFINE after == [line[r] EXCEPT ![1] = l]
<1>5. /\ after \in [Positions -> Ingredient \cup {Null}]
      /\ \A p \in Positions : after[p] = line[r][p] \/ after[p] = l
      /\ line' = [line EXCEPT ![r] = after]
  BY <1>1, <1>2, <1>4
<1>6. /\ recipe' \in [RecipeIds -> Recipe \cup {Null}] /\ recipe'[r] = row
      /\ \A s \in RecipeIds : s # r => recipe'[s] = recipe[s]
  BY <1>1, <1>3, <1>4
<1>7. Rows(after) \subseteq Positions
  BY <1>5 DEF Rows
<1>. HIDE DEF after
<1>8. \A p \in Rows(after) : after[p] = line[r][p] \/ LineSound(after[p], taught', converted')
  BY <1>1, <1>2, <1>5, <1>7
<1>9. line' \in [RecipeIds -> [Positions -> Ingredient \cup {Null}]] /\ LinesSound'
  BY <1>1, <1>3, <1>5, <1>6, <1>8, LinesStaySound
<1>10. KitchenTypes'
  BY <1>0, <1>1, <1>6, <1>9 DEF KitchenTypes
<1>11. KitchenTypeOK'
  BY <1>9, <1>10 DEF KitchenTypes, LinesSound, LineSound, KitchenTypeOK
<1>. QED
  BY <1>1, <1>9, <1>11 DEF KitchenInv, AliasesTaught

\* A recipe is deleted with its lines.
LEMMA DeleteRecipeKeeps ==
    ASSUME KitchenInv, NEW r \in RecipeIds, DeleteRecipe(r)
    PROVE  KitchenInv'
<1>. DEFINE after == [p \in Positions |-> Null]
<1>0. KitchenTypes
  BY TypesAtHand
<1>1. /\ recipe' = [recipe EXCEPT ![r] = Null] /\ line' = [line EXCEPT ![r] = after]
      /\ UNCHANGED <<alias, taught, hidden, converted, source, importing>>
  BY DEF DeleteRecipe
<1>2. after \in [Positions -> Ingredient \cup {Null}] /\ Rows(after) = {}
  BY DEF Rows
<1>3. /\ recipe' \in [RecipeIds -> Recipe \cup {Null}]
      /\ \A s \in RecipeIds : s # r => recipe'[s] = recipe[s]
  BY <1>0, <1>1 DEF KitchenTypes
<1>. HIDE DEF after
<1>4. line' \in [RecipeIds -> [Positions -> Ingredient \cup {Null}]] /\ LinesSound'
  BY <1>1, <1>2, <1>3, LinesStaySound
<1>5. KitchenTypes'
  BY <1>0, <1>1, <1>3, <1>4 DEF KitchenTypes
<1>6. KitchenTypeOK'
  BY <1>4, <1>5 DEF KitchenTypes, LinesSound, LineSound, KitchenTypeOK
<1>. QED
  BY <1>1, <1>4, <1>6 DEF KitchenInv, AliasesTaught

\* A recipe is cooked.
LEMMA CookKeeps ==
    ASSUME KitchenAssumptions, KitchenInv, NEW r \in RecipeIds, Cook(r)
    PROVE  KitchenInv'
<1>0. KitchenTypes
  BY TypesAtHand
<1>1. /\ recipe[r] # Null /\ recipe' = [recipe EXCEPT ![r].cooked = TRUE]
      /\ UNCHANGED <<line, alias, taught, hidden, converted, source, importing>>
  BY DEF Cook
<1>2. [recipe[r] EXCEPT !.cooked = TRUE] \in Recipe
  BY <1>0, <1>1 DEF KitchenTypes, Recipe
<1>3. /\ recipe' \in [RecipeIds -> Recipe \cup {Null}]
      /\ recipe'[r] \in Recipe
      /\ \A s \in RecipeIds : s # r => recipe'[s] = recipe[s]
  BY <1>0, <1>1, <1>2 DEF KitchenTypes
<1>4. LinesSound'
  BY <1>1, <1>3, LinesUntouched DEF KitchenAssumptions
<1>5. KitchenTypes'
  BY <1>0, <1>1, <1>3 DEF KitchenTypes
<1>6. KitchenTypeOK'
  BY <1>4, <1>5 DEF KitchenTypes, LinesSound, LineSound, KitchenTypeOK
<1>. QED
  BY <1>1, <1>4, <1>6 DEF KitchenInv, AliasesTaught

(***************************************************************************)
(* The import of a card                                                    *)
(***************************************************************************)
\* What was found of a line, as the import writes it, is sound: what counts
\* comes from a card, in the unit of the product.
LEMMA ImportedLineSound ==
    ASSUME KitchenAssumptions, KitchenInv, NEW c \in Cards, NEW n \in DOMAIN c,
           NEW ref \in Refs, NEW found \in Resolutions(c[n].text)
    PROVE  /\ ImportedLine(c[n], found) \in Ingredient
           /\ LineSound(ImportedLine(c[n], found), taught, converted)
<1>. DEFINE text   == c[n].text
            unit   == UnitNow(found.product)
            counts == IF found.product = Null THEN Null ELSE SourceQuantity(c[n].written, unit)
            l      == ImportedLine(c[n], found)
<1>0. KitchenTypes
  BY TypesAtHand
<1>1. text \in Texts /\ c[n].written \in Written
  <2>1. c \in Seq([text : Texts, written : Written])
    BY DEF KitchenAssumptions, KitchenConstants
  <2>2. n \in 1..Len(c)
    BY <2>1, LenProperties
  <2>3. c[n] \in [text : Texts, written : Written]
    BY <2>1, <2>2, ElementOfSeq
  <2>. QED
    BY <2>3
<1>2. /\ found.match \in {"confirmed", "auto", "unmatched"} /\ found.product \in Good
      /\ found.match \in {"auto", "confirmed"} => found.product # Null
      /\ found.match = "confirmed" => <<text, found.product>> \in taught
  <2>1. CASE found = [match |-> "confirmed", product |-> alias[text]] /\ alias[text] # Null
    BY <1>0, <1>1, <2>1 DEF KitchenInv, AliasesTaught, KitchenTypes
  <2>2. CASE found \in [match : {"auto"}, product : Goods \ hidden]
    BY <2>2 DEF Good, KitchenAssumptions
  <2>3. CASE found \in [match : {"unmatched"}, product : {Null}]
    BY <2>3 DEF Good
  <2>. QED
    BY <2>1, <2>2, <2>3 DEF Resolutions
<1>3. found.product # Null => unit \in Dimensions
                              /\ (found.product \notin converted => unit = UnitAtFirst[found.product])
  BY <1>2 DEF UnitNow, Good, KitchenAssumptions, KitchenConstants, Dimensions
<1>4. /\ counts \in {"base", "measure", Null}
      /\ found.product # Null /\ counts # Null => <<c[n].written, unit>> \in Countable
  <2>. HIDE DEF unit
  <2>. QED
    BY DEF SourceQuantity, Countable
<1>5. l = [text |-> text, product |-> found.product, match |-> found.match, counts |-> counts,
           in |-> IF counts = Null THEN Null ELSE unit, byHand |-> FALSE]
  BY DEF ImportedLine
<1>6. counts # Null => found.product # Null
  OBVIOUS
<1>. HIDE DEF l, text, unit, counts
<1>7. l \in Ingredient
  BY <1>1, <1>2, <1>3, <1>4, <1>5, <1>6 DEF Ingredient
<1>8. counts # Null => SaidOfACard(text, unit)
  BY <1>4, <1>6 DEF SaidOfACard, text
<1>9. LineSound(l, taught, converted)
  BY <1>2, <1>3, <1>5, <1>6, <1>8 DEF LineSound
<1>. QED
  BY <1>7, <1>9 DEF l

\* An import writes the card it holds, however old, around the lines it
\* spares.
LEMMA WriteImportKeeps ==
    ASSUME KitchenAssumptions, KitchenInv, NEW i \in Imports, WriteImport(i)
    PROVE  KitchenInv'
<1>. DEFINE held == importing[i]
            r    == RowFor(held.ref)
            row  == [ref |-> held.ref, cooked |-> recipe[r] # Null /\ recipe[r].cooked]
<1>0. KitchenTypes
  BY TypesAtHand
<1>1. PICK found \in [DOMAIN held.card -> UNION {Resolutions(t) : t \in Texts}] :
         /\ \A p \in DOMAIN held.card : found[p] \in Resolutions(held.card[p].text)
         /\ line' = [line EXCEPT ![r] = [p \in Positions |->
                IF p \in Protected(r) THEN line[r][p]
                ELSE IF p \in DOMAIN held.card THEN ImportedLine(held.card[p], found[p])
                ELSE Null]]
  BY DEF WriteImport
<1>2. /\ held # Null /\ r \in RecipeIds
      /\ importing' = [importing EXCEPT ![i] = Null]
      /\ recipe' = [recipe EXCEPT ![r] = row]
      /\ UNCHANGED <<alias, taught, hidden, converted, source>>
  BY DEF WriteImport, AliasesAfterImport
<1>3. held.ref \in Refs /\ held.card \in Cards
  BY <1>0, <1>2 DEF KitchenTypes, Held
<1>4. row \in Recipe
  <2>1. recipe[r] # Null => recipe[r] \in Recipe
    BY <1>0, <1>2 DEF KitchenTypes
  <2>2. recipe[r] # Null => recipe[r].cooked \in BOOLEAN
    BY <2>1 DEF Recipe
  <2>3. (recipe[r] # Null /\ recipe[r].cooked) \in BOOLEAN
    BY <2>2
  <2>. QED
    BY <1>3, <2>3 DEF Recipe
<1>. DEFINE after == [p \in Positions |->
                IF p \in Protected(r) THEN line[r][p]
                ELSE IF p \in DOMAIN held.card THEN ImportedLine(held.card[p], found[p])
                ELSE Null]
<1>5. \A p \in DOMAIN held.card :
         /\ ImportedLine(held.card[p], found[p]) \in Ingredient
         /\ LineSound(ImportedLine(held.card[p], found[p]), taught, converted)
  BY <1>1, <1>3, ImportedLineSound
<1>. HIDE DEF r, row
<1>6. line \in [RecipeIds -> [Positions -> Ingredient \cup {Null}]]
      /\ recipe \in [RecipeIds -> Recipe \cup {Null}]
  BY <1>0 DEF KitchenTypes
<1>7. \A p \in Positions : \/ after[p] = line[r][p]
                           \/ after[p] = Null
                           \/ after[p] \in Ingredient /\ LineSound(after[p], taught, converted)
  BY <1>5
<1>8. after \in [Positions -> Ingredient \cup {Null}]
  BY <1>2, <1>6, <1>7
<1>9. line' = [line EXCEPT ![r] = after]
  BY <1>1
<1>. HIDE DEF after
<1>10. /\ recipe' \in [RecipeIds -> Recipe \cup {Null}] /\ recipe'[r] \in Recipe
       /\ \A s \in RecipeIds : s # r => recipe'[s] = recipe[s]
  BY <1>2, <1>4, <1>6
<1>11. \A p \in Rows(after) : after[p] = line[r][p] \/ LineSound(after[p], taught', converted')
  BY <1>2, <1>7, <1>8 DEF Rows
<1>12. line' \in [RecipeIds -> [Positions -> Ingredient \cup {Null}]] /\ LinesSound'
  BY <1>2, <1>8, <1>9, <1>10, <1>11, LinesStaySound DEF KitchenAssumptions
<1>13. importing' \in [Imports -> Held \cup {Null}]
  BY <1>0, <1>2 DEF KitchenTypes
<1>14. KitchenTypes'
  BY <1>0, <1>2, <1>10, <1>12, <1>13 DEF KitchenTypes
<1>15. KitchenTypeOK'
  BY <1>12, <1>14 DEF KitchenTypes, LinesSound, LineSound, KitchenTypeOK
<1>. QED
  BY <1>2, <1>12, <1>15 DEF KitchenInv, AliasesTaught

\* What happens around the lines: the source, the imports under way, the
\* products.
LEMMA AroundKeeps ==
    ASSUME KitchenAssumptions, KitchenInv,
           \/ \E i \in Imports, ref \in Refs : LookCardUp(i, ref)
           \/ \E i \in Imports : LoseImport(i)
           \/ \E ref \in Refs, new \in Cards : EditCard(ref, new)
           \/ \E g \in Goods : HideOrShow(g) \/ ConvertGood(g)
    PROVE  KitchenInv'
<1>0. KitchenTypes
  BY TypesAtHand
<1>1. UNCHANGED <<recipe, line, alias, taught>> /\ converted \subseteq converted'
  BY DEF LookCardUp, LoseImport, EditCard, HideOrShow, ConvertGood
<1>2. LinesSound'
  BY <1>1, LinesUntouched
<1>3. importing' \in [Imports -> Held \cup {Null}]
  <2>1. ASSUME NEW i \in Imports, NEW ref \in Refs, LookCardUp(i, ref)
        PROVE  importing' \in [Imports -> Held \cup {Null}]
    BY <1>0, <2>1 DEF LookCardUp, KitchenTypes, Held
  <2>2. ASSUME NEW i \in Imports, LoseImport(i)
        PROVE  importing' \in [Imports -> Held \cup {Null}]
    BY <1>0, <2>2 DEF LoseImport, KitchenTypes
  <2>. QED
    BY <1>0, <2>1, <2>2 DEF KitchenTypes, EditCard, HideOrShow, ConvertGood
<1>4. source' \in [Refs -> Cards] /\ hidden' \subseteq Goods /\ converted' \subseteq Goods
  BY <1>0 DEF KitchenTypes, LookCardUp, LoseImport, EditCard, HideOrShow, ConvertGood
<1>5. KitchenTypes'
  BY <1>0, <1>1, <1>3, <1>4 DEF KitchenTypes
<1>6. KitchenTypeOK'
  BY <1>2, <1>5 DEF KitchenTypes, LinesSound, LineSound, KitchenTypeOK
<1>. QED
  BY <1>1, <1>2, <1>6 DEF KitchenInv, AliasesTaught

(***************************************************************************)
(* One line of a recipe                                                    *)
(***************************************************************************)
\* One line of a recipe that is there is rewritten or removed.
LEMMA OneLineKeeps ==
    ASSUME KitchenInv, NEW r \in RecipeIds, NEW p \in Positions,
           NEW l \in Ingredient \cup {Null}, recipe[r] # Null,
           line' = [line EXCEPT ![r][p] = l],
           l = Null \/ LineSound(l, taught', converted'),
           UNCHANGED <<recipe, hidden, converted, source, importing>>,
           alias' \in [Texts -> Good], taught' \subseteq Texts \X Goods,
           taught \subseteq taught',
           AliasesTaught'
    PROVE  KitchenInv'
<1>. DEFINE after == [line[r] EXCEPT ![p] = l]
<1>0. KitchenTypes
  BY TypesAtHand
<1>1. line \in [RecipeIds -> [Positions -> Ingredient \cup {Null}]]
  BY <1>0 DEF KitchenTypes
<1>2. /\ after \in [Positions -> Ingredient \cup {Null}]
      /\ \A q \in Positions : after[q] = line[r][q] \/ after[q] = l
      /\ line' = [line EXCEPT ![r] = after]
  BY <1>1
<1>. HIDE DEF after
<1>3. \A q \in Rows(after) : after[q] = line[r][q] \/ LineSound(after[q], taught', converted')
  BY <1>2 DEF Rows
<1>4. line' \in [RecipeIds -> [Positions -> Ingredient \cup {Null}]] /\ LinesSound'
  BY <1>2, <1>3, LinesStaySound
<1>5. KitchenTypes'
  BY <1>0, <1>4 DEF KitchenTypes
<1>6. KitchenTypeOK'
  BY <1>4, <1>5 DEF KitchenTypes, LinesSound, LineSound, KitchenTypeOK
<1>. QED
  BY <1>4, <1>6 DEF KitchenInv

\* A hand matches a line, and may teach its text.
LEMMA MatchIngredientKeeps ==
    ASSUME KitchenInv, NEW r \in RecipeIds, NEW p \in Positions, NEW g \in Good,
           NEW m \in {"unmatched", "auto", "confirmed", "ignored"}, NEW create \in BOOLEAN,
           MatchIngredient(r, p, g, m, create)
    PROVE  KitchenInv'
<1>. DEFINE l == [line[r][p] EXCEPT !.product = g, !.match = m, !.byHand = TRUE]
<1>0. KitchenTypes
  BY TypesAtHand
<1>1. /\ line[r][p] # Null /\ (m \in {"auto", "confirmed"} => g # Null)
      /\ UNCHANGED <<recipe, hidden, converted, source, importing>>
  BY DEF MatchIngredient
<1>2. line[r][p] \in Ingredient /\ line \in [RecipeIds -> [Positions -> Ingredient \cup {Null}]]
  BY <1>0, <1>1 DEF KitchenTypes
<1>3. line' = [line EXCEPT ![r][p] = l]
  BY <1>2 DEF MatchIngredient
<1>4. l \in Ingredient /\ l.byHand /\ l.match = m /\ l.product = g
  BY <1>2 DEF Ingredient
<1>5. recipe[r] # Null
  <2>1. p \in Rows(line[r])
    BY <1>1, <1>2 DEF Rows
  <2>. QED
    BY <2>1 DEF KitchenInv, LinesSound
<1>6. line[r][p].text \in Texts
  BY <1>2 DEF Ingredient
<1>7. LineSound(l, taught', converted')
  BY <1>1, <1>4 DEF LineSound
<1>8. /\ alias' \in [Texts -> Good] /\ taught' \subseteq Texts \X Goods
      /\ taught \subseteq taught' /\ AliasesTaught'
  <2>1. CASE create /\ m = "confirmed"
    <3>1. /\ alias' = [alias EXCEPT ![line[r][p].text] = g]
          /\ taught' = taught \cup {<<line[r][p].text, g>>}
      BY <2>1 DEF MatchIngredient
    <3>2. g \in Goods
      BY <1>1, <2>1 DEF Good
    <3>. QED
      BY <1>0, <1>6, <3>1, <3>2 DEF KitchenTypes, KitchenInv, AliasesTaught
  <2>2. CASE ~(create /\ m = "confirmed")
    <3>1. UNCHANGED <<alias, taught>>
      BY <2>2 DEF MatchIngredient
    <3>. QED
      BY <1>0, <3>1 DEF KitchenTypes, KitchenInv, AliasesTaught
  <2>. QED
    BY <2>1, <2>2
<1>. HIDE DEF l
<1>. QED
  BY <1>1, <1>3, <1>4, <1>5, <1>7, <1>8, OneLineKeeps

\* A hand sets the quantity of a line.
LEMMA QuantityKeeps ==
    ASSUME KitchenAssumptions, KitchenInv, NEW r \in RecipeIds, NEW p \in Positions,
           SetIngredientQuantity(r, p)
    PROVE  KitchenInv'
<1>. DEFINE unit == IF line[r][p].product = Null THEN Null ELSE UnitNow(line[r][p].product)
            l    == [line[r][p] EXCEPT !.counts = "base", !.byHand = TRUE, !.in = unit]
<1>0. KitchenTypes
  BY TypesAtHand
<1>1. line[r][p] # Null /\ UNCHANGED <<recipe, alias, taught, hidden, converted, source, importing>>
  BY DEF SetIngredientQuantity
<1>2. line[r][p] \in Ingredient /\ line \in [RecipeIds -> [Positions -> Ingredient \cup {Null}]]
  BY <1>0, <1>1 DEF KitchenTypes
<1>3. unit \in Dimensions \cup {Null}
  BY <1>2 DEF Ingredient, Good, UnitNow, Dimensions, KitchenAssumptions, KitchenConstants
<1>4. line' = [line EXCEPT ![r][p] = l]
  BY <1>2 DEF SetIngredientQuantity
<1>5. p \in Rows(line[r])
  BY <1>1, <1>2 DEF Rows
<1>6. recipe[r] # Null /\ LineSound(line[r][p], taught, converted)
  BY <1>5 DEF KitchenInv, LinesSound
<1>. HIDE DEF unit
<1>7. l \in Ingredient /\ l.byHand /\ l.match = line[r][p].match /\ l.product = line[r][p].product
  BY <1>2, <1>3 DEF Ingredient
<1>. HIDE DEF l
<1>8. LineSound(l, taught', converted')
  BY <1>6, <1>7 DEF LineSound
<1>9. /\ alias' \in [Texts -> Good] /\ taught' \subseteq Texts \X Goods
      /\ taught \subseteq taught' /\ AliasesTaught'
  BY <1>0, <1>1 DEF KitchenTypes, KitchenInv, AliasesTaught
<1>. QED
  BY <1>1, <1>4, <1>6, <1>7, <1>8, <1>9, OneLineKeeps

\* A line is removed.
LEMMA RemoveIngredientKeeps ==
    ASSUME KitchenInv, NEW r \in RecipeIds, NEW p \in Positions, RemoveIngredient(r, p)
    PROVE  KitchenInv'
<1>0. KitchenTypes
  BY TypesAtHand
<1>1. /\ line[r][p] # Null /\ line' = [line EXCEPT ![r][p] = Null]
      /\ UNCHANGED <<recipe, alias, taught, hidden, converted, source, importing>>
  BY DEF RemoveIngredient
<1>2. p \in Rows(line[r])
  BY <1>0, <1>1 DEF Rows, KitchenTypes
<1>3. recipe[r] # Null
  BY <1>2 DEF KitchenInv, LinesSound
<1>4. /\ alias' \in [Texts -> Good] /\ taught' \subseteq Texts \X Goods
      /\ taught \subseteq taught' /\ AliasesTaught'
  BY <1>0, <1>1 DEF KitchenTypes, KitchenInv, AliasesTaught
<1>. QED
  BY <1>1, <1>3, <1>4, OneLineKeeps

\* A line is added.
LEMMA AddIngredientKeeps ==
    ASSUME KitchenAssumptions, KitchenInv, NEW r \in RecipeIds, NEW t \in Texts, NEW g \in Good,
           NEW q \in BOOLEAN, AddIngredient(r, t, g, q)
    PROVE  KitchenInv'
<1>. DEFINE m == IF g = Null THEN "ignored" ELSE "confirmed"
            n == IF q THEN "base" ELSE Null
            l == TypedLine(t, g, m, n, g)
<1>0. KitchenTypes
  BY TypesAtHand
<1>1. /\ recipe[r] # Null /\ (q => g # Null)
      /\ UNCHANGED <<recipe, alias, taught, hidden, converted, source, importing>>
      /\ \E p \in Positions \ Rows(line[r]) : line' = [line EXCEPT ![r][p] = l]
  BY DEF AddIngredient
<1>2. l \in Ingredient /\ LineSound(l, taught', converted')
  <2>1. /\ m \in {"unmatched", "auto", "confirmed", "ignored"}
        /\ n \in {"base", "packaging", Null}
        /\ n = Null \/ g \in Goods
        /\ m \in {"auto", "confirmed"} => g # Null
        /\ converted \subseteq Goods
    BY <1>0, <1>1 DEF Good, KitchenTypes
  <2>. HIDE DEF m, n
  <2>. QED
    BY <2>1, TypedLineSound
<1>3. /\ alias' \in [Texts -> Good] /\ taught' \subseteq Texts \X Goods
      /\ taught \subseteq taught' /\ AliasesTaught'
  BY <1>0, <1>1 DEF KitchenTypes, KitchenInv, AliasesTaught
<1>. HIDE DEF l
<1>. QED
  BY <1>1, <1>2, <1>3, OneLineKeeps

\* The inductive invariant holds in every state.
LEMMA KitchenInvariant ==
    ASSUME KitchenAssumptions
    PROVE  KitchenSpec => []KitchenInv
<1>1. KitchenInit => KitchenInv
  <2>. SUFFICES ASSUME KitchenInit PROVE KitchenInv
    OBVIOUS
  <2>1. \A r \in RecipeIds : Rows(line[r]) = {}
    BY DEF KitchenInit, Rows
  <2>2. KitchenTypes
    BY DEF KitchenInit, KitchenTypes, Good
  <2>3. LinesSound /\ AliasesTaught
    BY <2>1 DEF LinesSound, AliasesTaught, KitchenInit
  <2>. QED
    BY <2>2, <2>3, TypesAreSound DEF KitchenInv
<1>2. KitchenInv /\ [KitchenNext]_kitchenVars => KitchenInv'
  <2>. SUFFICES ASSUME KitchenInv, [KitchenNext]_kitchenVars PROVE KitchenInv'
    OBVIOUS
  <2>1. ASSUME NEW t \in Texts, NEW g \in Good, NEW m \in {"unmatched", "confirmed"},
               NEW pack \in Goods \cup {Null},
               CreateRecipe(TypedLine(t, g, m, IF pack = Null THEN Null ELSE "packaging", pack))
        PROVE  KitchenInv'
    BY <2>1, CreateRecipeKeeps
  <2>2. ASSUME NEW r \in RecipeIds, DeleteRecipe(r) PROVE KitchenInv'
    BY <2>2, DeleteRecipeKeeps
  <2>3. ASSUME NEW r \in RecipeIds, Cook(r) PROVE KitchenInv'
    BY <2>3, CookKeeps
  <2>4. ASSUME NEW i \in Imports, WriteImport(i) PROVE KitchenInv'
    BY <2>4, WriteImportKeeps
  <2>5. CASE \/ \E i \in Imports, ref \in Refs : LookCardUp(i, ref)
             \/ \E i \in Imports : LoseImport(i)
             \/ \E ref \in Refs, new \in Cards : EditCard(ref, new)
             \/ \E g \in Goods : HideOrShow(g) \/ ConvertGood(g)
    BY <2>5, AroundKeeps
  <2>6. ASSUME NEW r \in RecipeIds, NEW p \in Positions, NEW g \in Good,
               NEW m \in {"unmatched", "auto", "confirmed", "ignored"}, NEW create \in BOOLEAN,
               MatchIngredient(r, p, g, m, create)
        PROVE  KitchenInv'
    BY <2>6, MatchIngredientKeeps
  <2>7. ASSUME NEW r \in RecipeIds, NEW p \in Positions, SetIngredientQuantity(r, p)
        PROVE  KitchenInv'
    BY <2>7, QuantityKeeps
  <2>8. ASSUME NEW r \in RecipeIds, NEW p \in Positions, RemoveIngredient(r, p)
        PROVE  KitchenInv'
    BY <2>8, RemoveIngredientKeeps
  <2>9. ASSUME NEW r \in RecipeIds, NEW t \in Texts, NEW g \in Good, NEW q \in BOOLEAN,
               AddIngredient(r, t, g, q)
        PROVE  KitchenInv'
    BY <2>9, AddIngredientKeeps
  <2>10. CASE UNCHANGED kitchenVars
    <3>1. UNCHANGED <<recipe, line, alias, taught, hidden, converted, source, importing>>
      BY <2>10 DEF kitchenVars
    <3>2. LinesSound'
      BY <3>1, LinesUntouched
    <3>. QED
      BY <3>1, <3>2 DEF KitchenInv, KitchenTypeOK, AliasesTaught
  <2>. QED
    BY <2>1, <2>2, <2>3, <2>4, <2>5, <2>6, <2>7, <2>8, <2>9, <2>10 DEF KitchenNext
<1>. QED
  BY <1>1, <1>2, PTL DEF KitchenSpec

(* However imports of old cards, hands, hidden and converted products      *)
(* cross: what is confirmed was confirmed by a hand, on the line or once   *)
(* for its text, and a quantity no hand typed counts in the unit of its    *)
(* product, unless the product was converted since (recipes/source.py,     *)
(* domain/matching.py).                                                    *)
THEOREM KitchenIsSound ==
    ASSUME KitchenAssumptions
    PROVE  KitchenSpec => []KitchenSound
<1>1. KitchenInv => KitchenSound
  <2>. SUFFICES ASSUME KitchenInv PROVE KitchenSound
    OBVIOUS
  <2>1. ConfirmedByAHand
    BY DEF KitchenInv, LinesSound, LineSound, ConfirmedByAHand
  <2>2. NothingIsGuessed
    <3>1. SUFFICES ASSUME NEW r \in RecipeIds, NEW p \in Rows(line[r]), ~line[r][p].byHand,
                          Plans(line[r][p]), line[r][p].product \notin converted
                   PROVE  SaidOfACard(line[r][p].text, UnitNow(line[r][p].product))
      BY DEF NothingIsGuessed, SaidOfACard, Countable
    <3>2. LineSound(line[r][p], taught, converted)
      BY DEF KitchenInv, LinesSound
    <3>3. /\ SaidOfACard(line[r][p].text, line[r][p].in)
          /\ line[r][p].in = UnitAtFirst[line[r][p].product]
      BY <3>1, <3>2 DEF LineSound, Plans
    <3>4. UnitNow(line[r][p].product) = UnitAtFirst[line[r][p].product]
      BY <3>1 DEF UnitNow
    <3>. QED
      BY <3>3, <3>4
  <2>. QED
    BY <2>1, <2>2 DEF KitchenInv, KitchenSound
<1>. QED
  BY <1>1, KitchenInvariant, PTL

(* No step of an import, whatever card it holds and however late it        *)
(* writes, changes a line somebody confirmed (recipes/source.py).          *)
THEOREM ConfirmedLinesAreKept ==
    ASSUME KitchenAssumptions
    PROVE  KitchenSpec => ConfirmedLinesSurvive
<1>1. KitchenInv /\ [KitchenNext]_kitchenVars => [ConfirmedLinesSurviveStep]_kitchenVars
  <2>. SUFFICES ASSUME KitchenInv, [KitchenNext]_kitchenVars, importing' # importing,
                       NEW r \in RecipeIds, NEW p \in Rows(line[r]),
                       line[r][p].match = "confirmed"
                PROVE  line'[r][p] = line[r][p]
    BY DEF ConfirmedLinesSurviveStep
  <2>1. \/ \E i \in Imports : WriteImport(i) \/ LoseImport(i)
        \/ \E i \in Imports, ref \in Refs : LookCardUp(i, ref)
    <3>1. /\ \A l : CreateRecipe(l) => importing' = importing
          /\ \A s : DeleteRecipe(s) \/ Cook(s) => importing' = importing
          /\ \A ref, new : EditCard(ref, new) => importing' = importing
      BY DEF CreateRecipe, DeleteRecipe, Cook, EditCard
    <3>2. \A s, q, g, m, create : MatchIngredient(s, q, g, m, create) => importing' = importing
      BY DEF MatchIngredient
    <3>3. /\ \A s, q : SetIngredientQuantity(s, q) \/ RemoveIngredient(s, q)
                          => importing' = importing
          /\ \A s, t, g, q : AddIngredient(s, t, g, q) => importing' = importing
          /\ \A g : HideOrShow(g) \/ ConvertGood(g) => importing' = importing
      BY DEF SetIngredientQuantity, RemoveIngredient, AddIngredient, HideOrShow, ConvertGood
    <3>4. UNCHANGED kitchenVars => importing' = importing
      BY DEF kitchenVars
    <3>. QED
      BY <3>1, <3>2, <3>3, <3>4 DEF KitchenNext
  <2>2. line \in [RecipeIds -> [Positions -> Ingredient \cup {Null}]] /\ p \in Positions
    BY DEF KitchenInv, KitchenTypeOK, Rows
  <2>3. ASSUME NEW i \in Imports, WriteImport(i)
        PROVE  line'[r][p] = line[r][p]
    <3>. DEFINE s == RowFor(importing[i].ref)
    <3>1. PICK found : line' = [line EXCEPT ![s] = [q \in Positions |->
                IF q \in Protected(s) THEN line[s][q]
                ELSE IF q \in DOMAIN importing[i].card
                     THEN ImportedLine(importing[i].card[q], found[q])
                ELSE Null]]
      BY <2>3 DEF WriteImport
    <3>2. p \in Protected(r)
      BY DEF Protected
    <3>. HIDE DEF s
    <3>. QED
      BY <2>2, <3>1, <3>2
  <2>4. CASE \/ \E i \in Imports : LoseImport(i)
             \/ \E i \in Imports, ref \in Refs : LookCardUp(i, ref)
    BY <2>4 DEF LoseImport, LookCardUp
  <2>. QED
    BY <2>1, <2>3, <2>4
<1>. QED
  BY <1>1, KitchenInvariant, PTL DEF KitchenSpec, ConfirmedLinesSurvive

(***************************************************************************)
(* Articles and Open Food Facts.  A pass writes what it was answered,      *)
(* later, on whatever the row is by then; what a hand wrote outlives it    *)
(* because the row carries the columns that are manual (`TypedIsManual`),  *)
(* and passes stay apart because each claimed the slot of its loading      *)
(* (`SlotClaimed`).                                                        *)
(***************************************************************************)
\* What the constants are, and that Null is no row.
ArticleAssumptions ==
    /\ ArticleConstants
    /\ Null \notin Card /\ Null \notin Pass

\* What a pass is about to write was answered for a code it still has to do.
AnswersHeld ==
    /\ resync \in [Callers -> Pass \cup {Null}]
    /\ \A k \in Callers :
          (resync[k] # Null /\ resync[k].step = "write")
             => resync[k].record \in Record /\ resync[k].todo # {}

\* A column a hand wrote is one the row calls manual, with what the hand wrote.
TypedIsManual ==
    \A id \in Ids, c \in Columns :
        typed[id][c] # Untouched
           => /\ card[id] # Null
              /\ c \in card[id].manual /\ card[id].value[c] = typed[id][c]

\* Whoever reads barcodes or walks them has claimed the slot of its loading.
SlotClaimed == \A k \in Callers : resync[k] # Null => claimed[resync[k].load]

ArticleInv ==
    /\ ArticleTypeOK /\ AnswersHeld /\ TypedIsManual
    /\ SlotClaimed /\ OneResyncPass

\* The first code to do is one to do: ids have a least one.
LEMMA FirstIsToDo ==
    ASSUME NEW codes, codes \subseteq Barcodes \X Ids, codes # {}
    PROVE  First(codes) \in codes
<1>. DEFINE ids == {next[2] : next \in codes}
<1>1. ids \subseteq Nat /\ ids # {}
  BY DEF Ids
<1>2. PICK n \in ids : \A m \in ids : n <= m
  BY <1>1, LeastOf
<1>3. \E next \in codes : \A other \in codes : next[2] <= other[2]
  BY <1>2
<1>. QED
  BY <1>3 DEF First

\* A card rewritten with an answer keeps its manual columns, and is a card.
LEMMA FromSiteIsACard ==
    ASSUME NEW row \in Card, NEW code \in Barcodes, NEW record \in Record
    PROVE  /\ FromSite(row, code, record) \in Card
           /\ FromSite(row, code, record).manual = row.manual
           /\ FromSite(row, code, record).code = row.code
           /\ \A c \in row.manual : FromSite(row, code, record).value[c] = row.value[c]
           /\ \A c \in Columns : FromSite(row, code, record).value[c] = Null
                                   => row.value[c] = Null
<1>. DEFINE new == FromSite(row, code, record)
            val == [c \in Columns |-> IF c \in Answered(record, Manual(row))
                                      THEN record[c] ELSE row.value[c]]
<1>1. new = [row EXCEPT !.value = val, !.raw = code]
  BY DEF FromSite, Card
<1>2. /\ row.value \in [Columns -> Replies \cup Words \cup {Null}]
      /\ row.manual \subseteq Columns
  BY DEF Card
<1>3. val \in [Columns -> Replies \cup Words \cup {Null}]
  BY <1>2 DEF Record
<1>4. \A c \in row.manual : val[c] = row.value[c]
  BY <1>2 DEF Answered, Manual
<1>5. \A c \in Columns : val[c] = Null => row.value[c] = Null
  BY DEF Answered
<1>6. /\ new.value = val /\ new.manual = row.manual /\ new.code = row.code
      /\ new \in Card
  <2>. HIDE DEF val
  <2>. QED
    BY <1>1, <1>3 DEF Card
<1>. QED
  BY <1>4, <1>5, <1>6

\* A step that leaves the passes and their slot alone.
LEMMA CardsKeep ==
    ASSUME ArticleInv, UNCHANGED <<resync, claimed, loadings>>
    PROVE  AnswersHeld' /\ SlotClaimed' /\ OneResyncPass'
BY DEF ArticleInv, AnswersHeld, SlotClaimed, OneResyncPass

\* A step that leaves the articles and what hands typed alone.
LEMMA PassesKeep ==
    ASSUME ArticleInv, UNCHANGED <<card, typed>>
    PROVE  TypedIsManual'
BY DEF ArticleInv, TypedIsManual

\* A hand writes, erases or spoils one article, or the site is edited.
LEMMA HandStepKeeps ==
    ASSUME ArticleAssumptions, ArticleInv, Hand, NEW id \in Ids,
           NEW row \in Card \cup {Null}, NEW words \in [Columns -> Words \cup {Null, Untouched}],
           card' = [card EXCEPT ![id] = row], typed' = [typed EXCEPT ![id] = words],
           \A c \in Columns : words[c] # Untouched
              => row # Null /\ c \in row.manual /\ row.value[c] = words[c]
    PROVE  ArticleInv'
<1>1. /\ card \in [Ids -> Card \cup {Null}]
      /\ typed \in [Ids -> [Columns -> Words \cup {Null, Untouched}]]
      /\ hands \in 0..MaxHands /\ hands < MaxHands /\ hands' = hands + 1 /\ MaxHands \in Nat
      /\ UNCHANGED <<site, resync, claimed, loadings, edits>>
  BY DEF ArticleInv, ArticleTypeOK, Hand, ArticleAssumptions, ArticleConstants
<1>2. /\ card' \in [Ids -> Card \cup {Null}]
      /\ typed' \in [Ids -> [Columns -> Words \cup {Null, Untouched}]]
      /\ hands' \in 0..MaxHands
  BY <1>1
<1>3. ArticleTypeOK'
  BY <1>1, <1>2 DEF ArticleInv, ArticleTypeOK
<1>4. TypedIsManual'
  <2>1. \A i \in Ids : i # id => card'[i] = card[i] /\ typed'[i] = typed[i]
    BY <1>1
  <2>2. card'[id] = row /\ typed'[id] = words
    BY <1>1
  <2>. QED
    BY <2>1, <2>2 DEF ArticleInv, TypedIsManual
<1>. QED
  BY <1>1, <1>3, <1>4, CardsKeep DEF ArticleInv

\* An article is created, with the answer of Open Food Facts around what the
\* hand typed.
LEMMA CreateArticleKeeps ==
    ASSUME ArticleAssumptions, ArticleInv,
           NEW code \in Barcodes, NEW asked \in BOOLEAN,
           NEW columns \in SUBSET Columns, NEW word \in Words,
           CreateArticle(code, asked, columns, word)
    PROVE  ArticleInv'
<1>. DEFINE id    == NextId(card)
            byHand == [code |-> code, manual |-> columns, readable |-> TRUE, raw |-> Null,
                       value |-> [c \in Columns |-> IF c \in columns THEN word ELSE Null]]
            row   == IF asked THEN FromSite(byHand, code, site[code]) ELSE byHand
            words == [c \in Columns |-> IF c \in columns THEN word ELSE Untouched]
<1>1. /\ Hand /\ id \in Ids
      /\ card' = [card EXCEPT ![id] = row] /\ typed' = [typed EXCEPT ![id] = words]
  BY DEF CreateArticle
<1>2. byHand \in Card /\ site[code] \in Record
  BY DEF Card, ArticleInv, ArticleTypeOK
<1>3. \A c \in columns : byHand.value[c] = word
  OBVIOUS
<1>4. byHand.manual = columns
  OBVIOUS
<1>. HIDE DEF byHand
<1>5. row \in Card /\ row.manual = columns /\ \A c \in columns : row.value[c] = word
  BY <1>2, <1>3, <1>4, FromSiteIsACard
<1>. HIDE DEF row
<1>6. row # Null
  BY <1>5 DEF ArticleAssumptions
<1>7. words \in [Columns -> Words \cup {Null, Untouched}]
  OBVIOUS
<1>8. \A c \in Columns : words[c] # Untouched => c \in columns /\ words[c] = word
  OBVIOUS
<1>. HIDE DEF words, id
<1>9. \A c \in Columns : words[c] # Untouched
                         => row # Null /\ c \in row.manual /\ row.value[c] = words[c]
  BY <1>5, <1>6, <1>8
<1>10. row \in Card \cup {Null}
  BY <1>5
<1>. QED
  BY <1>1, <1>7, <1>9, <1>10, HandStepKeeps

\* A hand rewrites one column, which is manual from then on.
LEMMA UpdateArticleKeeps ==
    ASSUME ArticleAssumptions, ArticleInv,
           NEW id \in Ids, NEW column \in Columns, NEW word \in Words \cup {Null},
           UpdateArticle(id, column, word)
    PROVE  ArticleInv'
<1>. DEFINE row   == [card[id] EXCEPT !.value[column] = word, !.manual = @ \cup {column}]
            words == [typed[id] EXCEPT ![column] = word]
<1>1. /\ card \in [Ids -> Card \cup {Null}] /\ card[id] # Null
      /\ typed[id] \in [Columns -> Words \cup {Null, Untouched}]
      /\ typed \in [Ids -> [Columns -> Words \cup {Null, Untouched}]]
  BY DEF UpdateArticle, ArticleInv, ArticleTypeOK
<1>2. card[id] \in Card
  BY <1>1
<1>3. /\ Hand /\ card' = [card EXCEPT ![id] = row]
      /\ typed' = [typed EXCEPT ![id] = words]
  BY <1>1 DEF UpdateArticle
<1>4. /\ row \in Card /\ row.manual = card[id].manual \cup {column}
      /\ row.value = [card[id].value EXCEPT ![column] = word]
  BY <1>2 DEF Card
<1>5. card[id].value \in [Columns -> Replies \cup Words \cup {Null}]
  BY <1>2 DEF Card
<1>. HIDE DEF row
<1>6. \A c \in Columns : words[c] # Untouched => c \in row.manual /\ row.value[c] = words[c]
  BY <1>1, <1>4, <1>5 DEF ArticleInv, TypedIsManual
<1>7. words \in [Columns -> Words \cup {Null, Untouched}]
  BY <1>1
<1>8. row # Null
  BY <1>4 DEF ArticleAssumptions
<1>. HIDE DEF words
<1>9. \A c \in Columns : words[c] # Untouched
                         => row # Null /\ c \in row.manual /\ row.value[c] = words[c]
  BY <1>6, <1>8
<1>10. row \in Card \cup {Null}
  BY <1>4
<1>. QED
  BY <1>3, <1>7, <1>9, <1>10, HandStepKeeps

\* An article is erased, or its row spoiled.
LEMMA EraseKeeps ==
    ASSUME ArticleAssumptions, ArticleInv, NEW id \in Ids,
           EraseArticle(id) \/ SpoilManual(id)
    PROVE  ArticleInv'
<1>1. /\ card \in [Ids -> Card \cup {Null}] /\ card[id] # Null
      /\ typed \in [Ids -> [Columns -> Words \cup {Null, Untouched}]]
  BY DEF EraseArticle, SpoilManual, ArticleInv, ArticleTypeOK
<1>2. card[id] \in Card /\ typed[id] \in [Columns -> Words \cup {Null, Untouched}]
  BY <1>1
<1>3. CASE EraseArticle(id)
  <2>. DEFINE words == [c \in Columns |-> Untouched]
  <2>1. /\ Hand /\ card' = [card EXCEPT ![id] = Null]
        /\ typed' = [typed EXCEPT ![id] = words]
    BY <1>3 DEF EraseArticle
  <2>2. words \in [Columns -> Words \cup {Null, Untouched}]
    OBVIOUS
  <2>3. \A c \in Columns : words[c] = Untouched
    OBVIOUS
  <2>. HIDE DEF words
  <2>. QED
    BY <2>1, <2>2, <2>3, HandStepKeeps
<1>4. CASE SpoilManual(id)
  <2>. DEFINE row   == [card[id] EXCEPT !.readable = FALSE]
              words == typed[id]
  <2>1. Hand /\ card' = [card EXCEPT ![id] = row] /\ typed' = typed
    BY <1>1, <1>4 DEF SpoilManual
  <2>2. row \in Card /\ row.manual = card[id].manual /\ row.value = card[id].value
    BY <1>2 DEF Card
  <2>3. row # Null
    BY <2>2 DEF ArticleAssumptions
  <2>. HIDE DEF row
  <2>4. typed' = [typed EXCEPT ![id] = typed[id]]
    BY <1>1, <2>1
  <2>5. \A c \in Columns : typed[id][c] # Untouched
           => row # Null /\ c \in row.manual /\ row.value[c] = typed[id][c]
    BY <2>2, <2>3 DEF ArticleInv, TypedIsManual
  <2>6. row \in Card \cup {Null}
    BY <2>2
  <2>. QED
    <3>1. /\ words \in [Columns -> Words \cup {Null, Untouched}]
          /\ typed' = [typed EXCEPT ![id] = words]
          /\ \A c \in Columns : words[c] # Untouched
                => row # Null /\ c \in row.manual /\ row.value[c] = words[c]
      BY <1>2, <2>4, <2>5
    <3>. HIDE DEF words
    <3>. QED
      BY <2>1, <2>6, <3>1, HandStepKeeps
<1>. QED
  BY <1>3, <1>4

\* Open Food Facts changes what it says.
LEMMA SiteEditsKeeps ==
    ASSUME ArticleAssumptions, ArticleInv, NEW code \in Barcodes, NEW column \in Columns,
           NEW answer \in Replies \cup {Null}, SiteEdits(code, column, answer)
    PROVE  ArticleInv'
<1>1. /\ site \in [Barcodes -> Record] /\ site' = [site EXCEPT ![code][column] = answer]
      /\ edits \in 0..MaxEdits /\ edits < MaxEdits /\ edits' = edits + 1 /\ MaxEdits \in Nat
      /\ UNCHANGED <<card, typed, resync, claimed, loadings, hands>>
  BY DEF SiteEdits, ArticleInv, ArticleTypeOK, ArticleAssumptions, ArticleConstants
<1>2. site' \in [Barcodes -> Record] /\ edits' \in 0..MaxEdits
  BY <1>1 DEF Record
<1>3. ArticleTypeOK'
  BY <1>1, <1>2 DEF ArticleInv, ArticleTypeOK
<1>. QED
  BY <1>1, <1>3, CardsKeep, PassesKeep DEF ArticleInv

\* One caller moves: its pass goes on, with the loading it has, or ends and
\* gives the slot back.
LEMMA PassStepKeeps ==
    ASSUME ArticleAssumptions, ArticleInv, NEW k \in Callers, NEW row \in Pass \cup {Null},
           resync[k] # Null, resync' = [resync EXCEPT ![k] = row],
           \/ row # Null /\ row.load = resync[k].load /\ claimed' = claimed
           \/ row = Null /\ claimed' = Released(resync[k].load),
           (row # Null /\ row.step = "write") => row.record \in Record /\ row.todo # {},
           UNCHANGED <<site, loadings, edits, hands>>
    PROVE  /\ AnswersHeld' /\ SlotClaimed' /\ OneResyncPass'
           /\ claimed' \in [Loads -> BOOLEAN]
<1>1. /\ resync \in [Callers -> Pass \cup {Null}] /\ claimed \in [Loads -> BOOLEAN]
      /\ resync' \in [Callers -> Pass \cup {Null}] /\ resync'[k] = row
      /\ \A j \in Callers : j # k => resync'[j] = resync[j]
  BY DEF ArticleInv, ArticleTypeOK, AnswersHeld
<1>2. \A j \in Callers : resync[j] # Null => resync[j].load \in Loads
  BY <1>1 DEF Pass
<1>3. claimed' \in [Loads -> BOOLEAN]
  BY <1>1 DEF Released
<1>4. AnswersHeld'
  BY <1>1 DEF ArticleInv, AnswersHeld
<1>5. OneResyncPass'
  BY <1>1 DEF ArticleInv, OneResyncPass
<1>6. SlotClaimed'
  <2>1. SUFFICES ASSUME NEW j \in Callers, resync'[j] # Null PROVE claimed'[resync'[j].load]
    BY DEF SlotClaimed
  <2>2. CASE row # Null /\ claimed' = claimed /\ row.load = resync[k].load
    BY <1>1, <2>1, <2>2 DEF ArticleInv, SlotClaimed
  <2>3. CASE row = Null /\ claimed' = Released(resync[k].load)
    <3>1. j # k /\ resync'[j] = resync[j] /\ resync[j] # Null
      BY <1>1, <2>1, <2>3
    <3>2. resync[j].load # resync[k].load /\ claimed[resync[j].load]
      BY <3>1 DEF ArticleInv, OneResyncPass, SlotClaimed
    <3>. QED
      BY <1>1, <1>2, <2>3, <3>1, <3>2 DEF Released
  <2>. QED
    BY <2>2, <2>3
<1>. QED
  BY <1>3, <1>4, <1>5, <1>6

\* A caller reads its barcodes or not, asks the site, or ends: no article moves.
LEMMA WalkKeeps ==
    ASSUME ArticleAssumptions, ArticleInv, NEW k \in Callers,
           BarcodesRead(k) \/ BarcodesFail(k) \/ AskSite(k) \/ EndResync(k)
    PROVE  ArticleInv'
<1>1. /\ resync \in [Callers -> Pass \cup {Null}] /\ resync[k] # Null
      /\ card \in [Ids -> Card \cup {Null}] /\ site \in [Barcodes -> Record]
      /\ UNCHANGED <<site, card, typed, loadings, edits, hands>>
  BY DEF BarcodesRead, BarcodesFail, AskSite, EndResync, ArticleInv, ArticleTypeOK, AnswersHeld
<1>2. resync[k] \in Pass
  BY <1>1
<1>3. SUFFICES AnswersHeld' /\ SlotClaimed' /\ OneResyncPass' /\ claimed' \in [Loads -> BOOLEAN]
  BY <1>1, <1>3, PassesKeep DEF ArticleInv, ArticleTypeOK, AnswersHeld
<1>4. CASE BarcodesRead(k)
  <2>1. PICK codes \in BarcodesToResync :
           resync' = [resync EXCEPT ![k].step = "walk", ![k].todo = codes]
    BY <1>4 DEF BarcodesRead
  <2>2. codes \subseteq Barcodes \X Ids
    <3>1. \A id \in Rows(card) : id \in Ids /\ card[id].code \in Barcodes
      BY <1>1 DEF Rows, Card
    <3>. QED
      BY <2>1, <3>1 DEF BarcodesToResync
  <2>. DEFINE row == [resync[k] EXCEPT !.step = "walk", !.todo = codes]
  <2>3. resync' = [resync EXCEPT ![k] = row] /\ claimed' = claimed
    BY <1>1, <1>4, <2>1 DEF BarcodesRead
  <2>4. row \in Pass /\ row.load = resync[k].load /\ row.step = "walk"
    BY <1>2, <2>2 DEF Pass
  <2>5. row # Null
    BY <2>4 DEF ArticleAssumptions
  <2>. HIDE DEF row
  <2>. QED
    BY <1>1, <2>3, <2>4, <2>5, PassStepKeeps
<1>5. CASE BarcodesFail(k) \/ EndResync(k)
  <2>1. claimed' = Released(resync[k].load) /\ resync' = [resync EXCEPT ![k] = Null]
    BY <1>5 DEF BarcodesFail, EndResync, ReleasedAfterFailure
  <2>. QED
    BY <1>1, <2>1, PassStepKeeps
<1>6. CASE AskSite(k)
  <2>. DEFINE next  == First(resync[k].todo)
              asked == [resync[k] EXCEPT !.step = "write", !.record = site[next[1]]]
              given == [resync[k] EXCEPT !.todo = @ \ {next}]
  <2>1. /\ resync[k].step = "walk" /\ resync[k].todo # {} /\ claimed' = claimed
        /\ resync' = [resync EXCEPT ![k] = asked] \/ resync' = [resync EXCEPT ![k] = given]
    BY <1>1, <1>6 DEF AskSite
  <2>2. next \in resync[k].todo /\ next \in Barcodes \X Ids /\ site[next[1]] \in Record
    <3>1. resync[k].todo \subseteq Barcodes \X Ids
      BY <1>2 DEF Pass
    <3>2. next \in resync[k].todo
      BY <2>1, <3>1, FirstIsToDo
    <3>. QED
      BY <1>1, <3>1, <3>2
  <2>. HIDE DEF next
  <2>3. /\ asked \in Pass /\ asked.load = resync[k].load
        /\ asked.record \in Record /\ asked.todo = resync[k].todo
    BY <1>2, <2>2 DEF Pass
  <2>4. given \in Pass /\ given.load = resync[k].load /\ given.step = resync[k].step
    BY <1>2 DEF Pass
  <2>5. asked # Null /\ given # Null
    BY <2>3, <2>4 DEF ArticleAssumptions
  <2>. HIDE DEF asked, given
  <2>. QED
    BY <1>1, <2>1, <2>3, <2>4, <2>5, PassStepKeeps
<1>. QED
  BY <1>1, <1>4, <1>5, <1>6

\* The answer a pass holds is written on the article that has the id now.
LEMMA WriteResyncKeeps ==
    ASSUME ArticleAssumptions, ArticleInv, NEW k \in Callers, WriteResync(k)
    PROVE  ArticleInv'
<1>. DEFINE next == First(resync[k].todo)
            row  == card[next[2]]
            new  == FromSite(row, next[1], resync[k].record)
            after == [resync[k] EXCEPT !.step = "walk", !.record = Null, !.todo = @ \ {next}]
<1>1. /\ resync \in [Callers -> Pass \cup {Null}] /\ resync[k] # Null /\ resync[k].step = "write"
      /\ card \in [Ids -> Card \cup {Null}]
      /\ UNCHANGED <<site, typed, claimed, loadings, edits, hands>>
  BY DEF WriteResync, ArticleInv, ArticleTypeOK, AnswersHeld
<1>2. /\ resync' = [resync EXCEPT ![k] = after]
      /\ \/ card' = card
         \/ row # Null /\ card' = [card EXCEPT ![next[2]] = new]
  BY <1>1 DEF WriteResync
<1>3. resync[k] \in Pass /\ resync[k].record \in Record /\ resync[k].todo # {}
  BY <1>1 DEF ArticleInv, AnswersHeld
<1>4. next \in Barcodes \X Ids
  <2>1. resync[k].todo \subseteq Barcodes \X Ids
    BY <1>3 DEF Pass
  <2>. QED
    BY <1>3, <2>1, FirstIsToDo
<1>. HIDE DEF next
<1>5. after \in Pass /\ after.load = resync[k].load /\ after.step = "walk"
  BY <1>3 DEF Pass
<1>6. after # Null
  BY <1>5 DEF ArticleAssumptions
<1>. HIDE DEF after
<1>7. AnswersHeld' /\ SlotClaimed' /\ OneResyncPass'
  BY <1>1, <1>2, <1>5, <1>6, PassStepKeeps
<1>8. CASE card' = card
  BY <1>1, <1>7, <1>8, PassesKeep DEF ArticleInv, ArticleTypeOK, AnswersHeld
<1>9. CASE row # Null /\ card' = [card EXCEPT ![next[2]] = new]
  <2>1. row \in Card /\ next[1] \in Barcodes /\ next[2] \in Ids
    BY <1>1, <1>4, <1>9
  <2>2. /\ new \in Card /\ new.manual = row.manual
        /\ \A c \in row.manual : new.value[c] = row.value[c]
    BY <1>3, <2>1, FromSiteIsACard
  <2>3. new # Null
    BY <2>2 DEF ArticleAssumptions
  <2>. HIDE DEF new
  <2>4. card' \in [Ids -> Card \cup {Null}]
    BY <1>1, <1>9, <2>2
  <2>5. TypedIsManual'
    BY <1>1, <1>9, <2>1, <2>2, <2>3 DEF ArticleInv, TypedIsManual
  <2>. QED
    BY <1>1, <1>7, <2>4, <2>5 DEF ArticleInv, ArticleTypeOK, AnswersHeld
<1>. QED
  BY <1>2, <1>8, <1>9

\* The slot of this loading is free: nobody else has it.
LEMMA ResyncOffKeeps ==
    ASSUME ArticleAssumptions, ArticleInv, NEW k \in Callers, ResyncOff(k)
    PROVE  ArticleInv'
<1>. DEFINE row == [load |-> loadings, step |-> "codes", todo |-> {}, record |-> Null]
<1>1. /\ resync \in [Callers -> Pass \cup {Null}] /\ claimed \in [Loads -> BOOLEAN]
      /\ loadings \in Loads /\ ~claimed[loadings]
      /\ claimed' = [claimed EXCEPT ![loadings] = TRUE] /\ resync' = [resync EXCEPT ![k] = row]
      /\ UNCHANGED <<site, card, typed, loadings, edits, hands>>
  BY DEF ResyncOff, ClaimedNow, ArticleInv, ArticleTypeOK, AnswersHeld
<1>2. row \in Pass /\ row.load = loadings /\ row.step = "codes"
  BY <1>1 DEF Pass
<1>. HIDE DEF row
<1>3. \A j \in Callers : resync[j] # Null => resync[j].load # loadings /\ claimed[resync[j].load]
  BY <1>1 DEF ArticleInv, SlotClaimed
<1>4. \A j \in Callers : resync[j] # Null => resync[j].load \in Loads
  BY <1>1 DEF Pass
<1>5. /\ resync' \in [Callers -> Pass \cup {Null}] /\ claimed' \in [Loads -> BOOLEAN]
      /\ claimed'[loadings] /\ \A l \in Loads : claimed[l] => claimed'[l]
      /\ resync'[k] = row /\ \A j \in Callers : j # k => resync'[j] = resync[j]
  BY <1>1, <1>2
<1>6. AnswersHeld'
  BY <1>2, <1>5 DEF ArticleInv, AnswersHeld
<1>7. SlotClaimed'
  BY <1>2, <1>3, <1>4, <1>5 DEF SlotClaimed
<1>8. OneResyncPass'
  BY <1>2, <1>3, <1>5 DEF ArticleInv, OneResyncPass
<1>9. ArticleTypeOK'
  BY <1>1, <1>5 DEF ArticleInv, ArticleTypeOK
<1>. QED
  BY <1>1, <1>6, <1>7, <1>8, <1>9, PassesKeep DEF ArticleInv

\* The entry is loaded again: who still reads its barcodes keeps its slot.
LEMMA ReloadKeeps ==
    ASSUME ArticleAssumptions, ArticleInv, Reload
    PROVE  ArticleInv'
<1>1. /\ resync \in [Callers -> Pass \cup {Null}] /\ claimed \in [Loads -> BOOLEAN]
      /\ loadings \in Loads /\ loadings < MaxLoaded /\ loadings' = loadings + 1 /\ MaxLoaded \in Nat
      /\ resync' = [k \in Callers |-> IF resync[k] # Null /\ resync[k].step # "codes" THEN Null
                                    ELSE resync[k]]
      /\ claimed' = [claimed EXCEPT ![loadings] = \E k \in Callers : resync'[k] # Null
                                                                 /\ resync[k].load = loadings]
      /\ UNCHANGED <<site, card, typed, edits, hands>>
  BY DEF Reload, ArticleInv, ArticleTypeOK, AnswersHeld, ArticleAssumptions, ArticleConstants
<1>2. loadings' \in Loads
  BY <1>1 DEF Loads
<1>3. /\ claimed' \in [Loads -> BOOLEAN]
      /\ \A l \in Loads : l # loadings => claimed'[l] = claimed[l]
      /\ (\E k \in Callers : resync'[k] # Null /\ resync[k].load = loadings) => claimed'[loadings]
  BY <1>1
<1>4. \A k \in Callers : resync'[k] # Null => resync'[k] = resync[k]
  BY <1>1
<1>5. \A k \in Callers : resync[k] # Null => resync[k].load \in Loads
  BY <1>1 DEF Pass
<1>6. AnswersHeld'
  <2>1. resync' \in [Callers -> Pass \cup {Null}]
    BY <1>1
  <2>. QED
    BY <1>4, <2>1 DEF ArticleInv, AnswersHeld
<1>7. SlotClaimed'
  BY <1>3, <1>4, <1>5 DEF ArticleInv, SlotClaimed
<1>8. OneResyncPass'
  BY <1>4 DEF ArticleInv, OneResyncPass
<1>9. ArticleTypeOK'
  BY <1>1, <1>2, <1>3, <1>6 DEF ArticleInv, ArticleTypeOK, AnswersHeld
<1>. QED
  BY <1>1, <1>6, <1>7, <1>8, <1>9, PassesKeep DEF ArticleInv

\* The inductive invariant holds in every state.
LEMMA ArticleInvariant ==
    ASSUME ArticleAssumptions
    PROVE  ArticleSpec => []ArticleInv
<1>1. ArticleInit => ArticleInv
  <2>. SUFFICES ASSUME ArticleInit PROVE ArticleInv
    OBVIOUS
  <2>1. \A k \in Callers : resync[k] = Null
    BY DEF ArticleInit
  <2>2. \A id \in Ids, c \in Columns : typed[id][c] = Untouched
    BY DEF ArticleInit
  <2>3. PICK answer \in Replies : site = [code \in Barcodes |-> [c \in Columns |-> answer]]
    BY DEF ArticleInit
  <2>4. site \in [Barcodes -> Record] /\ loadings \in Loads
    BY <2>3 DEF ArticleInit, Record, Loads, ArticleAssumptions, ArticleConstants
  <2>5. edits \in 0..MaxEdits /\ hands \in 0..MaxHands
    BY DEF ArticleInit, ArticleAssumptions, ArticleConstants
  <2>6. ArticleTypeOK /\ AnswersHeld
    BY <2>1, <2>4, <2>5 DEF ArticleInit, ArticleTypeOK, AnswersHeld
  <2>. QED
    BY <2>1, <2>2, <2>6 DEF ArticleInv, TypedIsManual, SlotClaimed, OneResyncPass
<1>2. ArticleInv /\ [ArticleNext]_articleVars => ArticleInv'
  <2>. SUFFICES ASSUME ArticleInv, [ArticleNext]_articleVars PROVE ArticleInv'
    OBVIOUS
  <2>1. CASE UNCHANGED articleVars
    BY <2>1, CardsKeep, PassesKeep DEF articleVars, ArticleInv, ArticleTypeOK
  <2>2. CASE ArticleNext
    BY <2>2, ReloadKeeps, SiteEditsKeeps, CreateArticleKeeps, UpdateArticleKeeps, EraseKeeps,
       ResyncOffKeeps, WalkKeeps, WriteResyncKeeps DEF ArticleNext, Step
  <2>. QED
    BY <2>1, <2>2
<1>. QED
  BY <1>1, <1>2, PTL DEF ArticleSpec

(* However passes, hands, edits of the site and reloads cross: a column a  *)
(* hand wrote keeps what it wrote, and at most one pass over Open Food     *)
(* Facts runs per loading of the entry (services.py resync_off,            *)
(* off/ingest.py).                                                         *)
THEOREM ArticlesAreSound ==
    ASSUME ArticleAssumptions
    PROVE  ArticleSpec => []ArticlesSound
<1>1. ArticleInv => ArticlesSound
  BY DEF ArticleInv, ArticlesSound, TypedIsManual, HandsAreKept, Rows, ArticleTypeOK
<1>. QED
  BY <1>1, ArticleInvariant, PTL

\* A step of a hand that empties a column says so; an answer never empties.
LEMMA StepErasesByHand ==
    ASSUME ArticleAssumptions, ArticleInv, [ArticleNext]_articleVars
    PROVE  OnlyHandsEraseStep
<1>. SUFFICES ASSUME NEW id \in Ids, NEW c \in Columns,
                     card[id] # Null, card'[id] # Null, card[id].code = card'[id].code,
                     card[id].value[c] # Null, card'[id].value[c] = Null
              PROVE  typed'[id][c] = Null
  BY DEF OnlyHandsEraseStep
<1>0. /\ card \in [Ids -> Card \cup {Null}] /\ card[id] \in Card
      /\ typed \in [Ids -> [Columns -> Words \cup {Null, Untouched}]]
  BY DEF ArticleInv, ArticleTypeOK
<1>1. ASSUME NEW code \in Barcodes, NEW asked \in BOOLEAN, NEW columns \in SUBSET Columns,
             NEW word \in Words, CreateArticle(code, asked, columns, word)
      PROVE  FALSE
  <2>. DEFINE byHand == [code |-> code, manual |-> columns, readable |-> TRUE, raw |-> Null,
                         value |-> [x \in Columns |-> IF x \in columns THEN word ELSE Null]]
              row == IF asked THEN FromSite(byHand, code, site[code]) ELSE byHand
  <2>1. /\ card' = [card EXCEPT ![NextId(card)] = row]
        /\ \A i \in Rows(card) : card[i].code # code
    BY <1>1 DEF CreateArticle
  <2>2. id \in Rows(card)
    BY <1>0 DEF Rows
  <2>3. card'[id] = row
    BY <1>0, <2>1
  <2>4. row.code = code
    BY DEF FromSite
  <2>. QED
    BY <2>1, <2>2, <2>3, <2>4
<1>2. ASSUME NEW i \in Ids, NEW column \in Columns, NEW word \in Words \cup {Null},
             UpdateArticle(i, column, word)
      PROVE  typed'[id][c] = Null
  <2>1. card' = [card EXCEPT ![i].value[column] = word, ![i].manual = @ \cup {column}]
        /\ typed' = [typed EXCEPT ![i][column] = word]
    BY <1>2 DEF UpdateArticle
  <2>2. i = id
    BY <1>0, <2>1
  <2>3. card[id].value \in [Columns -> Replies \cup Words \cup {Null}]
    BY <1>0 DEF Card
  <2>4. card'[id].value = [card[id].value EXCEPT ![column] = word]
    BY <1>0, <2>1, <2>2 DEF Card
  <2>5. column = c /\ word = Null
    BY <2>3, <2>4
  <2>. QED
    BY <1>0, <2>1, <2>2, <2>5
<1>3. ASSUME NEW i \in Ids, EraseArticle(i) \/ SpoilManual(i)
      PROVE  FALSE
  <2>1. CASE EraseArticle(i)
    BY <1>0, <2>1 DEF EraseArticle
  <2>2. CASE SpoilManual(i)
    <3>1. card' = [card EXCEPT ![i].readable = FALSE]
      BY <2>2 DEF SpoilManual
    <3>2. card'[id].value = card[id].value
      BY <1>0, <3>1 DEF Card
    <3>. QED
      BY <3>2
  <2>. QED
    BY <1>3, <2>1, <2>2
<1>4. ASSUME NEW k \in Callers, WriteResync(k)
      PROVE  FALSE
  <2>. DEFINE next == First(resync[k].todo)
              row  == card[next[2]]
  <2>1. /\ resync[k] # Null /\ resync[k].step = "write"
        /\ \/ card' = card
           \/ row # Null /\ card' = [card EXCEPT ![next[2]] =
                                        FromSite(row, next[1], resync[k].record)]
    BY <1>4 DEF WriteResync
  <2>2. card' # card
    BY <1>0
  <2>3. resync[k] \in Pass /\ resync[k].record \in Record /\ resync[k].todo # {}
    BY <2>1 DEF ArticleInv, AnswersHeld
  <2>4. next \in Barcodes \X Ids
    <3>1. resync[k].todo \subseteq Barcodes \X Ids
      BY <2>3 DEF Pass
    <3>. QED
      BY <2>3, <3>1, FirstIsToDo
  <2>5. next[2] = id
    BY <1>0, <2>1, <2>2
  <2>6. card'[id] = FromSite(card[id], next[1], resync[k].record)
    BY <1>0, <2>1, <2>2, <2>5
  <2>. QED
    BY <1>0, <2>3, <2>4, <2>6, FromSiteIsACard
<1>5. ASSUME card' = card
      PROVE  FALSE
  BY <1>5
<1>. QED
  BY <1>1, <1>2, <1>3, <1>4, <1>5 DEF ArticleNext, Step, Reload, SiteEdits, ResyncOff,
     BarcodesRead, BarcodesFail, AskSite, EndResync, articleVars

(* No step but a hand empties a column: an answer that no longer gives a   *)
(* value keeps the old one (off/ingest.py).                                *)
THEOREM OnlyHandsEmptyAColumn ==
    ASSUME ArticleAssumptions
    PROVE  ArticleSpec => OnlyHandsErase
<1>1. ArticleInv /\ [ArticleNext]_articleVars => OnlyHandsEraseStep
  BY StepErasesByHand
<1>. QED
  BY <1>1, ArticleInvariant, PTL DEF ArticleSpec, OnlyHandsErase

(***************************************************************************)
(* The catalogue.  Rows that name others are kept straight by what a       *)
(* deletion asks first: an article with a batch has a history, so it is    *)
(* hidden and not erased, and the unit a batch counts in is never lost.    *)
(* The journal explains each batch in the unit of its product because a    *)
(* product that still counts in pieces was never converted                 *)
(* (`PiecesFirst`), so its rows are all in pieces, and because what the    *)
(* conversion leaves aside is closed and empty (`ClosedAreEmpty`).         *)
(***************************************************************************)
\* What the constants are, and that Null is no number, no name and no row.
CatalogueAssumptions ==
    /\ CatalogueConstants
    /\ Null \notin Nat /\ Null \notin Product /\ Null \notin Article /\ Null \notin Scan

(***************************************************************************)
(* What the journal says of a batch, in a unit                             *)
(***************************************************************************)
\* The rows of the journal by batch and unit.
Account     == [batch : Nat \X Units, quantity : Int]
Keyed(written) == [i \in DOMAIN written |-> [batch    |-> <<written[i].batch, written[i].unit>>,
                                       quantity |-> written[i].quantity]]
Booked(written, b, unit) == LotOf(Keyed(written), <<b, unit>>)

\* Rows are accounts.
LEMMA KeyedRows ==
    ASSUME NEW written \in Seq(Movement)
    PROVE  /\ Keyed(written) \in Seq(Account) /\ Len(Keyed(written)) = Len(written)
           /\ DOMAIN Keyed(written) = 1..Len(written) /\ Len(written) \in Nat /\ DOMAIN written = 1..Len(written)
           /\ \A i \in 1..Len(written) :
                 /\ Keyed(written)[i].batch = <<written[i].batch, written[i].unit>>
                 /\ Keyed(written)[i].quantity = written[i].quantity
           /\ Counted(Account)
<1>1. /\ Len(written) \in Nat /\ DOMAIN written = 1..Len(written)
      /\ \A i \in 1..Len(written) : written[i] \in Movement
  BY LenProperties, ElementOfSeq
<1>2. \A i \in 1..Len(written) :
         [batch |-> <<written[i].batch, written[i].unit>>, quantity |-> written[i].quantity] \in Account
  BY <1>1 DEF Movement, Account
<1>3. Keyed(written) \in [1..Len(written) -> Account]
  BY <1>1, <1>2 DEF Keyed
<1>4. Keyed(written) \in Seq(Account) /\ Len(Keyed(written)) = Len(written)
  BY <1>1, <1>3, SeqDef, LenProperties
<1>5. Counted(Account)
  BY DEF Counted, Account
<1>6. \A i \in 1..Len(written) : /\ Keyed(written)[i].batch = <<written[i].batch, written[i].unit>>
                              /\ Keyed(written)[i].quantity = written[i].quantity
  BY <1>1 DEF Keyed
<1>. QED
  BY <1>1, <1>3, <1>4, <1>5, <1>6

\* A balance is what the rows say, of any journal.
LEMMA SumIsBooked ==
    ASSUME NEW written \in Seq(Movement), NEW b \in Nat, NEW unit \in Units
    PROVE  LET its == {i \in DOMAIN written : written[i].batch = b /\ written[i].unit = unit}
           IN  /\ SumFunction([i \in its |-> written[i].quantity]) = Booked(written, b, unit)
               /\ Booked(written, b, unit) \in Int
<1>. DEFINE keyed == Keyed(written)
            of(s)  == {i \in DOMAIN s : s[i].batch = <<b, unit>>}
            its    == {i \in DOMAIN written : written[i].batch = b /\ written[i].unit = unit}
<1>1. /\ keyed \in Seq(Account) /\ Counted(Account)
      /\ DOMAIN keyed = DOMAIN written
      /\ \A i \in DOMAIN written : /\ keyed[i].batch = <<written[i].batch, written[i].unit>>
                                /\ keyed[i].quantity = written[i].quantity
  BY KeyedRows
<1>. HIDE DEF keyed
<1>2. of(keyed) = its
  BY <1>1
<1>3. [i \in of(keyed) |-> keyed[i].quantity] = [i \in its |-> written[i].quantity]
  BY <1>1, <1>2
<1>4. LotOf(keyed, <<b, unit>>) = SumFunction([i \in of(keyed) |-> keyed[i].quantity])
  BY <1>1, LotOverItsRows
<1>5. LotOf(keyed, <<b, unit>>) \in Int
  BY <1>1, LotsAdd
<1>. QED
  BY <1>3, <1>4, <1>5 DEF Booked, keyed

LEMMA BalanceIsBooked ==
    ASSUME journal \in Seq(Movement), NEW b \in Nat, NEW unit \in Units
    PROVE  Balance(b, unit) = Booked(journal, b, unit) /\ Booked(journal, b, unit) \in Int
BY SumIsBooked DEF Balance, RowsIn

\* Rows written after others add what they say.
LEMMA BookedMore ==
    ASSUME NEW s \in Seq(Movement), NEW t \in Seq(Movement), NEW b \in Nat, NEW unit \in Units
    PROVE  /\ Booked(s \o t, b, unit) = Booked(s, b, unit) + Booked(t, b, unit)
           /\ Booked(s, b, unit) \in Int /\ Booked(t, b, unit) \in Int
<1>1. /\ Keyed(s) \in Seq(Account) /\ Keyed(t) \in Seq(Account) /\ Counted(Account)
      /\ Len(Keyed(s)) = Len(s) /\ Len(Keyed(t)) = Len(t)
      /\ DOMAIN s = 1..Len(s) /\ DOMAIN t = 1..Len(t) /\ Len(s) \in Nat /\ Len(t) \in Nat
  BY KeyedRows
<1>2. PICK all : all = s \o t
  OBVIOUS
<1>3. /\ all \in Seq(Movement) /\ Len(all) = Len(s) + Len(t)
      /\ \A i \in 1..Len(s) + Len(t) : all[i] = IF i <= Len(s) THEN s[i] ELSE t[i - Len(s)]
  BY <1>2, ConcatProperties
<1>4. PICK ks, kt, both : ks = Keyed(s) /\ kt = Keyed(t) /\ both = ks \o kt
  OBVIOUS
<1>5. /\ both \in Seq(Account) /\ Len(both) = Len(s) + Len(t)
      /\ \A i \in 1..Len(s) + Len(t) :
            both[i] = IF i <= Len(s) THEN Keyed(s)[i] ELSE Keyed(t)[i - Len(s)]
  <2>1. /\ ks \in Seq(Account) /\ kt \in Seq(Account)
        /\ Len(ks) = Len(s) /\ Len(kt) = Len(t)
    BY <1>1, <1>4
  <2>2. /\ ks \o kt \in Seq(Account) /\ Len(ks \o kt) = Len(ks) + Len(kt)
        /\ \A i \in 1..Len(ks) + Len(kt) :
              (ks \o kt)[i] = IF i <= Len(ks) THEN ks[i] ELSE kt[i - Len(ks)]
    BY <2>1, ConcatProperties
  <2>3. both = ks \o kt /\ Keyed(s) = ks /\ Keyed(t) = kt
    BY <1>4
  <2>. QED
    BY <2>1, <2>2, <2>3
<1>6. Keyed(all) \in Seq(Account) /\ Len(Keyed(all)) = Len(all) /\ DOMAIN all = 1..Len(all)
  BY <1>3, KeyedRows
<1>7. \A i \in 1..Len(s) + Len(t) : Keyed(all)[i] = both[i]
  <2>1. SUFFICES ASSUME NEW i \in 1..Len(s) + Len(t)
                 PROVE  Keyed(all)[i] = both[i]
    OBVIOUS
  <2>2. i \in DOMAIN all /\ Len(s) \in Nat /\ Len(t) \in Nat
    BY <1>1, <1>3, <1>6
  <2>3. CASE i <= Len(s)
    <3>1. i \in DOMAIN s
      BY <1>1, <2>3
    <3>2. all[i] = s[i]
      BY <1>3, <2>3
    <3>3. both[i] = Keyed(s)[i]
      BY <1>5, <2>3
    <3>. QED
      BY <2>2, <3>1, <3>2, <3>3 DEF Keyed
  <2>4. CASE ~(i <= Len(s))
    <3>1. i - Len(s) \in DOMAIN t
      BY <1>1, <2>4
    <3>2. all[i] = t[i - Len(s)]
      BY <1>3, <2>4
    <3>3. both[i] = Keyed(t)[i - Len(s)]
      BY <1>5, <2>4
    <3>. QED
      BY <2>2, <3>1, <3>2, <3>3 DEF Keyed
  <2>. QED
    BY <2>3, <2>4
<1>8. Keyed(all) = both
  BY <1>3, <1>5, <1>6, <1>7, SeqEqual
<1>9. LotOf(both, <<b, unit>>) = LotOf(Keyed(s), <<b, unit>>) + LotOf(Keyed(t), <<b, unit>>)
  <2>1. LotOf(ks \o kt, <<b, unit>>) = LotOf(ks, <<b, unit>>) + LotOf(kt, <<b, unit>>)
    BY <1>1, <1>4, LotOfMore
  <2>. QED
    BY <1>4, <2>1
<1>10. LotOf(Keyed(s), <<b, unit>>) \in Int /\ LotOf(Keyed(t), <<b, unit>>) \in Int
  BY <1>1, LotsAdd
<1>. QED
  BY <1>2, <1>8, <1>9, <1>10 DEF Booked

\* One row says what it says of its batch, in its unit.
LEMMA BookedOne ==
    ASSUME NEW row \in Movement, NEW b \in Nat, NEW unit \in Units
    PROVE  Booked(<<row>>, b, unit)
             = IF row.batch = b /\ row.unit = unit THEN row.quantity ELSE 0
<1>. DEFINE account == [batch |-> <<row.batch, row.unit>>, quantity |-> row.quantity]
<1>1. account \in Account /\ Counted(Account)
  BY DEF Account, Movement, Counted
<1>2. Keyed(<<row>>) = <<account>>
  <2>1. PICK s : s = <<row>>
    OBVIOUS
  <2>2. s \in Seq(Movement) /\ Len(s) = 1 /\ s[1] = row
    BY <2>1
  <2>3. Keyed(s) \in Seq(Account) /\ Len(Keyed(s)) = 1 /\ DOMAIN s = 1..1
    BY <2>2, KeyedRows
  <2>4. Keyed(s)[1] = account
    BY <2>2, <2>3 DEF Keyed
  <2>5. PICK e : e = <<account>>
    OBVIOUS
  <2>6. e \in Seq(Account) /\ Len(e) = 1 /\ e[1] = account
    BY <1>1, <2>5
  <2>7. \A i \in 1..Len(e) : Keyed(s)[i] = e[i]
    BY <2>4, <2>6
  <2>8. Keyed(s) = e
    BY <2>3, <2>6, <2>7, SeqEqual
  <2>. QED
    BY <2>1, <2>5, <2>8
<1>3. LotOf(<<account>>, <<b, unit>>) = OnLot(account, <<b, unit>>)
  BY <1>1, LotOfOneRow
<1>4. account.batch = <<row.batch, row.unit>> /\ account.quantity = row.quantity
  OBVIOUS
<1>. HIDE DEF account
<1>. QED
  BY <1>2, <1>3, <1>4 DEF Booked, OnLot

\* An order SetToSeq chooses names every element once.
LEMMA OrderOfSet ==
    ASSUME NEW S, IsFiniteSet(S)
    PROVE  /\ Cardinality(S) \in Nat /\ SetToSeq(S) \in [1..Cardinality(S) -> S]
           /\ \A i, j \in 1..Cardinality(S) : SetToSeq(S)[i] = SetToSeq(S)[j] => i = j
           /\ \A x \in S : \E i \in 1..Cardinality(S) : SetToSeq(S)[i] = x
<1>. DEFINE n == Cardinality(S)
<1>1. n \in Nat /\ ExistsBijection(1..n, S)
  BY FS_CardinalityType
<1>2. PICK g : g \in Bijection(1..n, S)
  BY <1>1 DEF ExistsBijection
<1>3. g \in [1..n -> S] /\ IsInjective(g)
  BY <1>2 DEF Bijection, Injection, IsInjective
<1>. DEFINE f == SetToSeq(S)
<1>4. f \in [1..n -> S] /\ IsInjective(f)
  BY <1>3 DEF SetToSeq
<1>. HIDE DEF f
<1>5. \A i, j \in 1..n : f[i] = f[j] => i = j
  BY <1>4 DEF IsInjective
<1>6. f \in Injection(1..n, S)
  BY <1>4, <1>5 DEF Injection, IsInjective
<1>7. Cardinality(1..n) = n
  BY <1>1, FS_Interval
<1>8. f \in Surjection(1..n, S)
  BY <1>6, <1>7, FS_Injection
<1>9. \A x \in S : \E i \in 1..n : f[i] = x
  BY <1>8 DEF Surjection
<1>. QED
  BY <1>1, <1>4, <1>5, <1>9 DEF f

\* When one row only is of a batch and in a unit, they say what it says.
LEMMA BookedAlone ==
    ASSUME NEW written \in Seq(Movement), NEW b \in Nat, NEW unit \in Units,
           NEW k \in DOMAIN written, written[k].batch = b, written[k].unit = unit,
           \A i \in DOMAIN written : written[i].batch = b /\ written[i].unit = unit => i = k
    PROVE  Booked(written, b, unit) = written[k].quantity
<1>. DEFINE f == [i \in DOMAIN Keyed(written) |-> OnLot(Keyed(written)[i], <<b, unit>>)]
<1>1. /\ Keyed(written) \in Seq(Account) /\ Counted(Account)
      /\ DOMAIN Keyed(written) = DOMAIN written
      /\ \A i \in DOMAIN written : /\ Keyed(written)[i].batch = <<written[i].batch, written[i].unit>>
                                /\ Keyed(written)[i].quantity = written[i].quantity
  BY KeyedRows
<1>2. Summable(f, DOMAIN written) /\ LotOf(Keyed(written), <<b, unit>>) = SumFunction(f)
  BY <1>1, LotsAdd DEF LotOf
<1>3. f[k] = written[k].quantity /\ \A i \in DOMAIN written \ {k} : f[i] = 0
  BY <1>1 DEF OnLot
<1>. HIDE DEF f
<1>4. SumFunction(f) = f[k]
  BY <1>2, <1>3, SumOfLonely
<1>. QED
  BY <1>2, <1>3, <1>4 DEF Booked

\* Rows of other batches, or in another unit, say nothing.
LEMMA BookedNothing ==
    ASSUME NEW written \in Seq(Movement), NEW b \in Nat, NEW unit \in Units,
           \A i \in DOMAIN written : ~(written[i].batch = b /\ written[i].unit = unit)
    PROVE  Booked(written, b, unit) = 0
<1>. DEFINE f == [i \in DOMAIN Keyed(written) |-> OnLot(Keyed(written)[i], <<b, unit>>)]
<1>1. /\ Keyed(written) \in Seq(Account) /\ Counted(Account)
      /\ DOMAIN Keyed(written) = DOMAIN written
      /\ \A i \in DOMAIN written : Keyed(written)[i].batch = <<written[i].batch, written[i].unit>>
  BY KeyedRows
<1>2. Summable(f, DOMAIN written) /\ LotOf(Keyed(written), <<b, unit>>) = SumFunction(f)
  BY <1>1, LotsAdd DEF LotOf
<1>3. \A i \in DOMAIN written : f[i] = 0
  BY <1>1 DEF OnLot
<1>. HIDE DEF f
<1>4. SumFunction(f) = 0
  BY <1>2, <1>3, SumOfZeros
<1>. QED
  BY <1>2, <1>4 DEF Booked

\* A conversion writes two rows for each batch it is about.
LEMMA RowsOfConversion ==
    ASSUME batch \in Seq(Batch), NEW open \in SUBSET DOMAIN batch, NEW kept,
           \A b \in open : Restated(batch[b], b \in kept).remaining \in Nat
    PROVE  LET written == ConversionRows(open, kept)
           IN  /\ written \in Seq(Movement)
               /\ \A k \in DOMAIN written : written[k].batch \in open /\ written[k].reason = "conversion"
                                          /\ written[k].corrects = Null
               /\ \A b \in open : \E k \in DOMAIN written : written[k].batch = b
               /\ \A b \in DOMAIN batch :
                     /\ Booked(written, b, "piece") = IF b \in open THEN -batch[b].remaining ELSE 0
                     /\ Booked(written, b, "g")
                           = IF b \in open THEN Restated(batch[b], b \in kept).remaining ELSE 0
<1>. DEFINE written  == ConversionRows(open, kept)
            order == SetToSeq(open)
            n     == Cardinality(open)
            out(b)  == Move(b, -batch[b].remaining, "piece", "conversion")
            into(b) == Move(b, Restated(batch[b], b \in kept).remaining, "g", "conversion")
<1>1. /\ DOMAIN batch = 1..Len(batch) /\ Len(batch) \in Nat
      /\ \A b \in DOMAIN batch : b \in Nat /\ batch[b].remaining \in Nat
  <2>1. DOMAIN batch = 1..Len(batch) /\ Len(batch) \in Nat
    BY LenProperties
  <2>2. \A b \in 1..Len(batch) : batch[b] \in Batch
    BY ElementOfSeq
  <2>. QED
    BY <2>1, <2>2 DEF Batch
<1>2. IsFiniteSet(open)
  <2>1. IsFiniteSet(DOMAIN batch)
    BY <1>1, FS_Interval
  <2>. QED
    BY <2>1, FS_Subset
<1>3. /\ n \in Nat /\ order \in [1..n -> open]
      /\ \A i, j \in 1..n : order[i] = order[j] => i = j
      /\ \A b \in open : \E i \in 1..n : order[i] = b
  BY <1>2, OrderOfSet
<1>4. \A b \in open : /\ out(b) \in Movement /\ into(b) \in Movement
                      /\ out(b).batch = b /\ into(b).batch = b
                      /\ out(b).unit = "piece" /\ into(b).unit = "g"
                      /\ out(b).reason = "conversion" /\ into(b).reason = "conversion"
                      /\ out(b).corrects = Null /\ into(b).corrects = Null
                      /\ out(b).quantity = -batch[b].remaining
                      /\ into(b).quantity = Restated(batch[b], b \in kept).remaining
  <2>1. SUFFICES ASSUME NEW b \in open
                 PROVE  out(b) \in Movement /\ into(b) \in Movement
    BY DEF Move
  <2>2. PICK q : q = Restated(batch[b], b \in kept).remaining
    OBVIOUS
  <2>3. q \in Nat /\ -batch[b].remaining \in Int /\ b \in Nat
    BY <1>1, <2>2
  <2>4. Move(b, q, "g", "conversion") \in Movement
    BY <2>3 DEF Move, Movement, Units
  <2>5. Move(b, -batch[b].remaining, "piece", "conversion") \in Movement
    BY <2>3 DEF Move, Movement, Units
  <2>. QED
    BY <2>2, <2>4, <2>5
<1>. HIDE DEF order, n
<1>5. written = [k \in 1..2 * n |-> IF k % 2 = 1 THEN out(order[(k + 1) \div 2])
                                 ELSE into(order[(k + 1) \div 2])]
  BY DEF ConversionRows, order, n
<1>. HIDE DEF written, out, into
<1>6. \A k \in 1..2 * n : /\ (k + 1) \div 2 \in 1..n
                          /\ k % 2 = 1 => k = 2 * ((k + 1) \div 2) - 1
                          /\ k % 2 # 1 => k = 2 * ((k + 1) \div 2)
  BY <1>3
<1>7. \A k \in 1..2 * n : /\ order[(k + 1) \div 2] \in open
                          /\ written[k] = IF k % 2 = 1 THEN out(order[(k + 1) \div 2])
                                       ELSE into(order[(k + 1) \div 2])
                          /\ written[k] \in Movement
  BY <1>3, <1>4, <1>5, <1>6
<1>8. written \in Seq(Movement) /\ DOMAIN written = 1..2 * n
  <2>1. 2 * n \in Nat
    BY <1>3
  <2>2. written \in [1..2 * n -> Movement]
    BY <1>5, <1>7
  <2>. QED
    BY <2>1, <2>2, SeqDef
<1>9. \A k \in DOMAIN written : /\ written[k].batch \in open /\ written[k].reason = "conversion"
                             /\ written[k].corrects = Null
                             /\ written[k].batch = order[(k + 1) \div 2]
                             /\ written[k].unit = IF k % 2 = 1 THEN "piece" ELSE "g"
  BY <1>4, <1>7, <1>8
<1>10. ASSUME NEW i \in 1..n
       PROVE  /\ 2 * i \in DOMAIN written /\ 2 * i - 1 \in DOMAIN written
              /\ written[2 * i - 1] = out(order[i]) /\ written[2 * i] = into(order[i])
  <2>1. /\ 2 * i \in 1..2 * n /\ 2 * i - 1 \in 1..2 * n
        /\ (2 * i + 1) \div 2 = i /\ (2 * i - 1 + 1) \div 2 = i
        /\ (2 * i) % 2 # 1 /\ (2 * i - 1) % 2 = 1
    BY <1>3
  <2>. QED
    BY <1>7, <1>8, <2>1
<1>11. ASSUME NEW i \in 1..n, NEW k \in DOMAIN written, written[k].batch = order[i]
       PROVE  /\ written[k].unit = "piece" => k = 2 * i - 1
              /\ written[k].unit = "g" => k = 2 * i
  <2>1. k \in 1..2 * n /\ order[(k + 1) \div 2] = order[i]
    BY <1>8, <1>9, <1>11
  <2>2. PICK h : h = (k + 1) \div 2
    OBVIOUS
  <2>3. /\ h \in 1..n /\ order[h] = order[i]
        /\ k % 2 = 1 => k = 2 * h - 1
        /\ k % 2 # 1 => k = 2 * h
    BY <1>6, <2>1, <2>2
  <2>4. h = i
    BY <1>3, <2>3
  <2>5. written[k].unit = IF k % 2 = 1 THEN "piece" ELSE "g"
    BY <1>9
  <2>. QED
    BY <2>3, <2>4, <2>5
<1>12. \A b \in open : \E k \in DOMAIN written : written[k].batch = b
  <2>1. SUFFICES ASSUME NEW b \in open
                 PROVE  \E k \in DOMAIN written : written[k].batch = b
    OBVIOUS
  <2>2. PICK i \in 1..n : order[i] = b
    BY <1>3
  <2>. QED
    BY <1>4, <1>10, <2>2
<1>13. ASSUME NEW b \in DOMAIN batch
       PROVE  /\ Booked(written, b, "piece") = IF b \in open THEN -batch[b].remaining ELSE 0
              /\ Booked(written, b, "g")
                    = IF b \in open THEN Restated(batch[b], b \in kept).remaining ELSE 0
  <2>0. b \in Nat /\ "piece" \in Units /\ "g" \in Units
    BY <1>1 DEF Units
  <2>1. CASE b \notin open
    <3>1. \A k \in DOMAIN written : written[k].batch # b
      BY <1>9, <2>1
    <3>. QED
      BY <1>8, <2>0, <2>1, <3>1, BookedNothing
  <2>2. CASE b \in open
    <3>1. PICK i \in 1..n : order[i] = b
      BY <1>3, <2>2
    <3>2. /\ 2 * i \in DOMAIN written /\ 2 * i - 1 \in DOMAIN written
          /\ written[2 * i - 1] = out(b) /\ written[2 * i] = into(b)
      BY <1>10, <3>1
    <3>3. \A k \in DOMAIN written : written[k].batch = b =>
             /\ written[k].unit = "piece" => k = 2 * i - 1
             /\ written[k].unit = "g" => k = 2 * i
      BY <1>11, <3>1
    <3>6. PICK one, two : one = 2 * i - 1 /\ two = 2 * i
      OBVIOUS
    <3>7. /\ written[one].batch = b /\ written[one].unit = "piece"
          /\ written[two].batch = b /\ written[two].unit = "g"
          /\ one \in DOMAIN written /\ two \in DOMAIN written
          /\ written[one] = out(b) /\ written[two] = into(b)
      BY <1>4, <2>2, <3>2, <3>6
    <3>8. \A k \in DOMAIN written : written[k].batch = b /\ written[k].unit = "piece" => k = one
      BY <3>3, <3>6
    <3>9. \A k \in DOMAIN written : written[k].batch = b /\ written[k].unit = "g" => k = two
      BY <3>3, <3>6
    <3>4. Booked(written, b, "piece") = out(b).quantity
      <4>1. Booked(written, b, "piece") = written[one].quantity
        BY <1>8, <2>0, <3>7, <3>8, BookedAlone, Zenon
      <4>. QED
        BY <3>7, <4>1
    <3>5. Booked(written, b, "g") = into(b).quantity
      <4>1. Booked(written, b, "g") = written[two].quantity
        BY <1>8, <2>0, <3>7, <3>9, BookedAlone, Zenon
      <4>. QED
        BY <3>7, <4>1
    <3>. QED
      BY <1>4, <2>2, <3>4, <3>5
  <2>. QED
    BY <2>1, <2>2
<1>. QED
  BY <1>8, <1>9, <1>12, <1>13 DEF written

(***************************************************************************)
(* The invariant of the catalogue                                          *)
(***************************************************************************)
\* A row of the journal is of a batch that is there.
JournalNames == \A i \in DOMAIN journal : journal[i].batch \in DOMAIN batch

\* A product that still counts in pieces was never converted: its batches cost
\* what they cost on entry, and their rows are in pieces.
PiecesFirst == \A b \in DOMAIN batch : UnitOf(b) = "piece" =>
    /\ batch[b].price = Price
    /\ \A i \in DOMAIN journal : journal[i].batch = b => journal[i].unit = "piece"

ClosedAreEmpty == \A b \in DOMAIN batch : batch[b].open \/ batch[b].remaining = 0

\* Closed batches are accounted for too: a correction may open them again.
Accounted == \A b \in DOMAIN batch : Explained(b) \/ LateCorrection(b)

CatalogueInv ==
    /\ CatalogueTypeOK /\ NothingDangles /\ PromisesKeepTheirUnit
    /\ JournalNames /\ PiecesFirst /\ ClosedAreEmpty /\ Accounted

\* The id of a new row is nobody's.
LEMMA FreeId ==
    ASSUME NEW n \in Nat, NEW table, DOMAIN table = 1..n
    PROVE  NextId(table) \notin Rows(table) /\ NextId(table) \in Nat
<1>. DEFINE S == Rows(table) \cup {0}
            T == {k \in 0..n : n - k \in S}
            m == CHOOSE m \in S : \A id \in Rows(table) : id <= m
<1>1. Rows(table) \subseteq 1..n /\ S \subseteq 0..n
  BY DEF Rows
<1>2. n \in T /\ T \subseteq Nat
  OBVIOUS
<1>3. PICK t \in T : \A u \in T : t <= u
  BY <1>2, LeastOf
<1>4. n - t \in S /\ \A id \in Rows(table) : id <= n - t
  <2>1. SUFFICES ASSUME NEW id \in Rows(table)
                 PROVE  id <= n - t
    BY <1>3
  <2>2. id \in 0..n /\ n - id \in 0..n /\ n - (n - id) = id
    BY <1>1
  <2>3. n - id \in T
    BY <2>2
  <2>4. t \in Nat /\ t <= n - id
    BY <1>2, <1>3, <2>3
  <2>. HIDE DEF T, S, m
  <2>. QED
    BY <2>2, <2>4
<1>5. m \in S /\ \A id \in Rows(table) : id <= m
  BY <1>4
<1>6. NextId(table) = 1 + m
  BY DEF NextId
<1>. HIDE DEF m
<1>. QED
  BY <1>1, <1>5, <1>6

\* What is in the tables.
LEMMA CatalogueAtHand ==
    ASSUME CatalogueAssumptions, CatalogueTypeOK, NothingDangles
    PROVE  /\ \A p \in Rows(product) : p \in ProductIds /\ product[p] \in Product
           /\ \A a \in Rows(article) : a \in ArticleIds /\ article[a] \in Article
                                       /\ article[a].product \in Rows(product)
           /\ DOMAIN batch = 1..Len(batch) /\ Len(batch) \in Nat
           /\ \A b \in DOMAIN batch : /\ b \in Nat /\ batch[b] \in Batch
                                      /\ batch[b].article \in Rows(article)
                                      /\ UnitOf(b) \in Units
           /\ DOMAIN journal = 1..Len(journal) /\ Len(journal) \in Nat
           /\ \A i \in DOMAIN journal : i \in Nat /\ journal[i] \in Movement
<1>1. \A p \in Rows(product) : p \in ProductIds /\ product[p] \in Product
  BY DEF CatalogueTypeOK, Rows
<1>2. \A a \in Rows(article) : a \in ArticleIds /\ article[a] \in Article
                               /\ article[a].product \in Rows(product)
  BY DEF CatalogueTypeOK, Rows, NothingDangles
<1>3. DOMAIN batch = 1..Len(batch) /\ Len(batch) \in Nat
  BY LenProperties DEF CatalogueTypeOK
<1>4. \A b \in 1..Len(batch) : batch[b] \in Batch
  BY ElementOfSeq DEF CatalogueTypeOK
<1>5. DOMAIN journal = 1..Len(journal) /\ Len(journal) \in Nat
  BY LenProperties DEF CatalogueTypeOK
<1>6. \A i \in 1..Len(journal) : journal[i] \in Movement
  BY ElementOfSeq DEF CatalogueTypeOK
<1>7. \A b \in DOMAIN batch : batch[b].article \in Rows(article)
  BY DEF NothingDangles
<1>8. \A b \in DOMAIN batch : UnitOf(b) \in Units
  BY <1>1, <1>2, <1>7 DEF UnitOf, Product
<1>. QED
  BY <1>1, <1>2, <1>3, <1>4, <1>5, <1>6, <1>7, <1>8

\* A batch whose product counts in pieces is explained.
LEMMA PiecesAreExplained ==
    ASSUME CatalogueInv, NEW b \in DOMAIN batch, UnitOf(b) = "piece"
    PROVE  Explained(b)
BY DEF CatalogueInv, PiecesFirst, Accounted, LateCorrection

\* What touches neither batch nor row, and no unit of a batch, keeps the books.
LEMMA BooksStand ==
    ASSUME CatalogueInv, UNCHANGED <<batch, journal>>,
           \A b \in DOMAIN batch : UnitOf(b)' = UnitOf(b)
    PROVE  JournalNames' /\ PiecesFirst' /\ ClosedAreEmpty' /\ Accounted'
<1>1. batch' = batch /\ journal' = journal
  OBVIOUS
<1>2. JournalNames' /\ PiecesFirst' /\ ClosedAreEmpty'
  BY <1>1 DEF CatalogueInv, JournalNames, PiecesFirst, ClosedAreEmpty
<1>3. \A b, u : Balance(b, u)' = Balance(b, u)
  BY <1>1 DEF Balance, RowsIn
<1>4. ASSUME NEW b \in DOMAIN batch
      PROVE  Explained(b)' = Explained(b) /\ LateCorrection(b)' = LateCorrection(b)
  <2>1. UnitOf(b)' = UnitOf(b)
    OBVIOUS
  <2>2. Explained(b)' <=> Explained(b)
    BY <1>1, <1>3, <2>1 DEF Explained
  <2>3. LateCorrection(b)' <=> LateCorrection(b)
    BY <1>1, <2>1 DEF LateCorrection, Converted
  <2>. QED
    BY <2>2, <2>3 DEF Explained, LateCorrection
<1>5. Accounted'
  BY <1>1, <1>4 DEF CatalogueInv, Accounted
<1>. QED
  BY <1>2, <1>5

(***************************************************************************)
(* The tables: creation, marks, erasure                                    *)
(***************************************************************************)
\* A step that marks rows, creates and erases none, and moves no article and
\* no unit.
LEMMA MarkKeeps ==
    ASSUME CatalogueAssumptions, CatalogueInv, CatalogueTypeOK',
           Rows(product') = Rows(product), Rows(article') = Rows(article),
           \A p \in Rows(product) : product'[p].unit = product[p].unit,
           \A a \in Rows(article) : article'[a].product = article[a].product,
           \A x \in extras' \ extras : x.target \in Rows(IF x.kind = "article_packaging"
                                                         THEN article ELSE product),
           PromisesKeepTheirUnit', UNCHANGED <<barcode, batch, journal>>
    PROVE  CatalogueInv'
<1>1. \A b \in DOMAIN batch : UnitOf(b)' = UnitOf(b)
  BY CatalogueAtHand DEF UnitOf, CatalogueInv
<1>2. NothingDangles'
  <2>1. \A a \in Rows(article') : article'[a].product \in Rows(product')
    BY DEF CatalogueInv, NothingDangles
  <2>2. \A c \in Codes : barcode'[c] # Null => barcode'[c] \in Rows(article')
    BY DEF CatalogueInv, NothingDangles
  <2>3. \A b \in DOMAIN batch' : batch'[b].article \in Rows(article')
    BY DEF CatalogueInv, NothingDangles
  <2>4. \A x \in extras' : x.target \in Rows(IF x.kind = "article_packaging"
                                             THEN article' ELSE product')
    <3>1. SUFFICES ASSUME NEW x \in extras'
                   PROVE  x.target \in Rows(IF x.kind = "article_packaging"
                                            THEN article' ELSE product')
      OBVIOUS
    <3>2. x.target \in Rows(IF x.kind = "article_packaging" THEN article ELSE product)
      BY DEF CatalogueInv, NothingDangles
    <3>3. CASE x.kind = "article_packaging"
      BY <3>2, <3>3
    <3>4. CASE x.kind # "article_packaging"
      BY <3>2, <3>4
    <3>. QED
      BY <3>3, <3>4
  <2>. QED
    BY <2>1, <2>2, <2>3, <2>4 DEF NothingDangles
<1>3. JournalNames' /\ PiecesFirst' /\ ClosedAreEmpty' /\ Accounted'
  BY <1>1, BooksStand
<1>. QED
  BY <1>2, <1>3 DEF CatalogueInv

\* One row of product changes, not its unit.
LEMMA ProductMarked ==
    ASSUME CatalogueAssumptions, CatalogueInv, NEW p \in Rows(product), NEW row \in Product,
           row.unit = product[p].unit, product' = [product EXCEPT ![p] = row],
           UNCHANGED <<article, barcode, extras, batch, journal, scan>>
    PROVE  CatalogueInv'
<1>1. product \in [ProductIds -> Product \cup {Null}] /\ p \in ProductIds
  BY CatalogueAtHand DEF CatalogueInv, CatalogueTypeOK
<1>2. row # Null
  BY DEF CatalogueAssumptions
<1>3. /\ product' \in [ProductIds -> Product \cup {Null}]
      /\ Rows(product') = Rows(product)
      /\ \A q \in Rows(product) : product'[q].unit = product[q].unit
  BY <1>1, <1>2 DEF Rows
<1>4. CatalogueTypeOK'
  BY <1>3 DEF CatalogueInv, CatalogueTypeOK
<1>5. PromisesKeepTheirUnit'
  BY <1>3, CatalogueAtHand DEF CatalogueInv, PromisesKeepTheirUnit, Pending
<1>. QED
  BY <1>3, <1>4, <1>5, MarkKeeps

\* One row of article changes, not its product; a pending line is in its unit.
LEMMA ArticleMarked ==
    ASSUME CatalogueAssumptions, CatalogueInv, NEW a \in Rows(article), NEW row \in Article,
           row.product = article[a].product,
           row.line \in Units => row.line = product[row.product].unit,
           article' = [article EXCEPT ![a] = row],
           UNCHANGED <<product, barcode, extras, batch, journal, scan>>
    PROVE  CatalogueInv'
<1>1. article \in [ArticleIds -> Article \cup {Null}] /\ a \in ArticleIds
  BY CatalogueAtHand DEF CatalogueInv, CatalogueTypeOK
<1>2. row # Null
  BY DEF CatalogueAssumptions
<1>3. /\ article' \in [ArticleIds -> Article \cup {Null}]
      /\ Rows(article') = Rows(article)
      /\ article'[a] = row
      /\ \A b \in Rows(article) \ {a} : article'[b] = article[b]
  BY <1>1, <1>2 DEF Rows
<1>4. CatalogueTypeOK'
  BY <1>3 DEF CatalogueInv, CatalogueTypeOK
<1>5. PromisesKeepTheirUnit'
  BY <1>3, CatalogueAtHand DEF CatalogueInv, PromisesKeepTheirUnit, Pending
<1>. QED
  BY <1>3, <1>4, <1>5, MarkKeeps

\* A first row of article, with its barcode, for a product that is there; no
\* row of product is lost.
LEMMA CreationKeeps ==
    ASSUME CatalogueAssumptions, CatalogueInv,
           product' \in [ProductIds -> Product \cup {Null}],
           \A p \in Rows(product) : p \in Rows(product') /\ product'[p] = product[p],
           NEW p \in Rows(product'), NEW net \in Nets, NEW code \in Codes,
           NextId(article) \in ArticleIds,
           article' = [article EXCEPT ![NextId(article)] = NewArticle(p, net)],
           barcode' = [barcode EXCEPT ![code] = NextId(article)],
           scan' \in Scan \cup {Null}, UNCHANGED <<extras, batch, journal>>
    PROVE  CatalogueInv'
<1>. DEFINE new == NewArticle(p, net)
<1>1. PICK a : a = NextId(article)
  OBVIOUS
<1>2. /\ article \in [ArticleIds -> Article \cup {Null}]
      /\ barcode \in [Codes -> ArticleIds \cup {Null}] /\ MaxArticles \in Nat
  BY DEF CatalogueInv, CatalogueTypeOK, CatalogueAssumptions, CatalogueConstants
<1>3. a \in ArticleIds /\ a \notin Rows(article)
  BY <1>1, <1>2, FreeId DEF ArticleIds
<1>4. p \in ProductIds
  BY DEF Rows
<1>5. new \in Article /\ new.product = p /\ new.line = "none"
  BY <1>4 DEF NewArticle, Article
<1>6. new # Null
  BY <1>5 DEF CatalogueAssumptions
<1>7. article' = [article EXCEPT ![a] = new] /\ barcode' = [barcode EXCEPT ![code] = a]
  BY <1>1
<1>. HIDE DEF new
<1>8. /\ article' \in [ArticleIds -> Article \cup {Null}]
      /\ Rows(article') = Rows(article) \cup {a}
      /\ article'[a] = new
      /\ \A b \in Rows(article) : article'[b] = article[b]
  BY <1>2, <1>3, <1>5, <1>6, <1>7 DEF Rows
<1>9. /\ barcode' \in [Codes -> ArticleIds \cup {Null}]
      /\ \A c \in Codes : barcode'[c] = a \/ barcode'[c] = barcode[c]
  BY <1>2, <1>3, <1>7
<1>10. CatalogueTypeOK'
  BY <1>8, <1>9 DEF CatalogueInv, CatalogueTypeOK
<1>11. NothingDangles'
  <2>1. \A b \in Rows(article') : article'[b].product \in Rows(product')
    BY <1>5, <1>8 DEF CatalogueInv, NothingDangles
  <2>2. \A c \in Codes : barcode'[c] # Null => barcode'[c] \in Rows(article')
    BY <1>8, <1>9 DEF CatalogueInv, NothingDangles
  <2>3. \A b \in DOMAIN batch' : batch'[b].article \in Rows(article')
    BY <1>8 DEF CatalogueInv, NothingDangles
  <2>4. \A x \in extras' : x.target \in Rows(IF x.kind = "article_packaging"
                                             THEN article' ELSE product')
    <3>1. SUFFICES ASSUME NEW x \in extras
                   PROVE  x.target \in Rows(IF x.kind = "article_packaging"
                                            THEN article' ELSE product')
      OBVIOUS
    <3>2. x.target \in Rows(IF x.kind = "article_packaging" THEN article ELSE product)
      BY DEF CatalogueInv, NothingDangles
    <3>3. CASE x.kind = "article_packaging"
      BY <1>8, <3>2, <3>3
    <3>4. CASE x.kind # "article_packaging"
      BY <3>2, <3>4
    <3>. QED
      BY <3>3, <3>4
  <2>. QED
    BY <2>1, <2>2, <2>3, <2>4 DEF NothingDangles
<1>12. PromisesKeepTheirUnit'
  <2>1. SUFFICES ASSUME NEW b \in Rows(article'), article'[b].line \in Units
                 PROVE  article'[b].line = product'[article'[b].product].unit
    BY DEF PromisesKeepTheirUnit, Pending
  <2>2. b # a
    BY <1>5, <1>8, <2>1 DEF Units
  <2>3. b \in Rows(article) /\ article'[b] = article[b]
    BY <1>8, <2>2
  <2>4. article[b].line = product[article[b].product].unit
    BY <2>1, <2>3 DEF CatalogueInv, PromisesKeepTheirUnit, Pending
  <2>5. article[b].product \in Rows(product)
    BY <2>3 DEF CatalogueInv, NothingDangles
  <2>. QED
    BY <2>3, <2>4, <2>5
<1>13. \A b \in DOMAIN batch : UnitOf(b)' = UnitOf(b)
  BY <1>8, CatalogueAtHand DEF UnitOf, CatalogueInv
<1>. QED
  BY <1>10, <1>11, <1>12, <1>13, BooksStand DEF CatalogueInv

\* A product is created, with the article its barcode brings.
LEMMA CreateProductKeeps ==
    ASSUME CatalogueAssumptions, CatalogueInv, NEW name \in Names, NEW unit \in Units,
           NEW code \in Codes \cup {Null}, CreateProduct(name, unit, code)
    PROVE  CatalogueInv'
<1>. DEFINE new == [name |-> name, unit |-> unit, active |-> TRUE, use |-> "none"]
<1>1. PICK p : p = NextId(product)
  OBVIOUS
<1>2. product \in [ProductIds -> Product \cup {Null}] /\ MaxProducts \in Nat
  BY DEF CatalogueInv, CatalogueTypeOK, CatalogueAssumptions, CatalogueConstants
<1>3. p \in ProductIds /\ p \notin Rows(product)
  BY <1>1, <1>2, FreeId DEF CreateProduct, ProductIds
<1>4. new \in Product
  BY DEF Product
<1>5. new # Null
  BY <1>4 DEF CatalogueAssumptions
<1>6. product' = [product EXCEPT ![p] = new] /\ UNCHANGED <<extras, batch, journal, scan>>
  BY <1>1 DEF CreateProduct
<1>. HIDE DEF new
<1>7. /\ product' \in [ProductIds -> Product \cup {Null}]
      /\ Rows(product') = Rows(product) \cup {p}
      /\ \A q \in Rows(product) : product'[q] = product[q]
  BY <1>2, <1>3, <1>4, <1>5, <1>6 DEF Rows
<1>8. CASE code = Null
  <2>1. UNCHANGED <<article, barcode>>
    BY <1>8 DEF CreateProduct
  <2>2. CatalogueTypeOK'
    BY <1>6, <1>7, <2>1 DEF CatalogueInv, CatalogueTypeOK
  <2>3. NothingDangles'
    <3>1. /\ \A a \in Rows(article') : article'[a].product \in Rows(product')
          /\ \A c \in Codes : barcode'[c] # Null => barcode'[c] \in Rows(article')
          /\ \A b \in DOMAIN batch' : batch'[b].article \in Rows(article')
      BY <1>6, <1>7, <2>1 DEF CatalogueInv, NothingDangles
    <3>2. ASSUME NEW x \in extras'
          PROVE  x.target \in Rows(IF x.kind = "article_packaging" THEN article' ELSE product')
      <4>1. x.target \in Rows(IF x.kind = "article_packaging" THEN article ELSE product)
        BY <1>6 DEF CatalogueInv, NothingDangles
      <4>2. CASE x.kind = "article_packaging"
        BY <2>1, <4>1, <4>2
      <4>3. CASE x.kind # "article_packaging"
        BY <1>7, <4>1, <4>3
      <4>. QED
        BY <4>2, <4>3
    <3>. QED
      BY <3>1, <3>2 DEF NothingDangles
  <2>4. PromisesKeepTheirUnit'
    BY <1>7, <2>1, CatalogueAtHand DEF CatalogueInv, PromisesKeepTheirUnit, Pending
  <2>5. \A b \in DOMAIN batch : UnitOf(b)' = UnitOf(b)
    BY <1>6, <1>7, <2>1, CatalogueAtHand DEF UnitOf, CatalogueInv
  <2>. QED
    BY <1>6, <2>2, <2>3, <2>4, <2>5, BooksStand DEF CatalogueInv
<1>9. CASE code # Null
  <2>1. /\ NextId(article) \in ArticleIds
        /\ article' = [article EXCEPT ![NextId(article)] = NewArticle(p, Null)]
        /\ barcode' = [barcode EXCEPT ![code] = NextId(article)]
    BY <1>1, <1>9 DEF CreateProduct
  <2>2. Null \in Nets /\ code \in Codes /\ p \in Rows(product')
    BY <1>7, <1>9 DEF CatalogueAssumptions, CatalogueConstants
  <2>3. scan' \in Scan \cup {Null}
    BY <1>6 DEF CatalogueInv, CatalogueTypeOK
  <2>. QED
    BY <1>6, <1>7, <2>1, <2>2, <2>3, CreationKeeps
<1>. QED
  BY <1>8, <1>9

\* A phone creates the article of the barcode it looked up, if it still may.
LEMMA ArticleCreateKeeps ==
    ASSUME CatalogueAssumptions, CatalogueInv, NEW net \in Nets, ArticleCreate(net)
    PROVE  CatalogueInv'
<1>1. /\ scan # Null /\ scan' = Null /\ UNCHANGED <<product, extras, batch, journal>>
      /\ product \in [ProductIds -> Product \cup {Null}]
      /\ scan \in Scan /\ scan' \in Scan \cup {Null}
  BY DEF ArticleCreate, CatalogueInv, CatalogueTypeOK
<1>2. CASE barcode[scan.code] # Null \/ product[scan.product] = Null
  <2>1. UNCHANGED <<article, barcode>>
    BY <1>2 DEF ArticleCreate
  <2>2. CatalogueTypeOK' /\ PromisesKeepTheirUnit'
    BY <1>1, <2>1 DEF CatalogueInv, CatalogueTypeOK, PromisesKeepTheirUnit, Pending
  <2>. QED
    BY <1>1, <2>1, <2>2, MarkKeeps
<1>3. CASE ~(barcode[scan.code] # Null \/ product[scan.product] = Null)
  <2>1. PICK code, p : code = scan.code /\ p = scan.product
    OBVIOUS
  <2>2. code \in Codes /\ p \in Rows(product')
    BY <1>1, <1>3, <2>1 DEF Scan, Rows
  <2>3. /\ NextId(article) \in ArticleIds
        /\ article' = [article EXCEPT ![NextId(article)] = NewArticle(p, net)]
        /\ barcode' = [barcode EXCEPT ![code] = NextId(article)]
    BY <1>3, <2>1 DEF ArticleCreate
  <2>. QED
    BY <1>1, <2>2, <2>3, CreationKeeps
<1>. QED
  BY <1>2, <1>3

\* Articles without batch go, and products no other article is of.
LEMMA ErasedRowsKeep ==
    ASSUME CatalogueAssumptions, CatalogueInv,
           NEW ids \in SUBSET Rows(article), NEW gone \in SUBSET Rows(product),
           \A a \in ids : BatchesOf(a) = {},
           \A a \in Rows(article) \ ids : article[a].product \notin gone,
           product' = Without(product, gone), EraseArticles(ids),
           extras' \subseteq extras,
           \A x \in extras' : x.target \notin (IF x.kind = "article_packaging" THEN ids ELSE gone),
           UNCHANGED <<batch, journal, scan>>
    PROVE  CatalogueInv'
<1>1. /\ product \in [ProductIds -> Product \cup {Null}]
      /\ article \in [ArticleIds -> Article \cup {Null}]
      /\ barcode \in [Codes -> ArticleIds \cup {Null}]
  BY DEF CatalogueInv, CatalogueTypeOK
<1>2. /\ product' \in [ProductIds -> Product \cup {Null}]
      /\ Rows(product') = Rows(product) \ gone
      /\ \A p \in Rows(product) \ gone : product'[p] = product[p]
  BY <1>1 DEF Without, Rows
<1>3. /\ article' \in [ArticleIds -> Article \cup {Null}]
      /\ Rows(article') = Rows(article) \ ids
      /\ \A a \in Rows(article) \ ids : article'[a] = article[a]
  BY <1>1 DEF EraseArticles, Without, Rows
<1>4. /\ barcode' \in [Codes -> ArticleIds \cup {Null}]
      /\ \A c \in Codes : barcode'[c] # Null => barcode'[c] = barcode[c] /\ barcode[c] \notin ids
  BY <1>1 DEF EraseArticles
<1>5. CatalogueTypeOK'
  BY <1>2, <1>3, <1>4 DEF CatalogueInv, CatalogueTypeOK
<1>6. \A b \in DOMAIN batch : batch[b].article \in Rows(article) \ ids
  BY DEF CatalogueInv, NothingDangles, BatchesOf
<1>7. NothingDangles'
  <2>1. \A a \in Rows(article') : article'[a].product \in Rows(product')
    BY <1>2, <1>3 DEF CatalogueInv, NothingDangles
  <2>2. \A c \in Codes : barcode'[c] # Null => barcode'[c] \in Rows(article')
    BY <1>3, <1>4 DEF CatalogueInv, NothingDangles
  <2>3. \A b \in DOMAIN batch' : batch'[b].article \in Rows(article')
    BY <1>3, <1>6
  <2>4. ASSUME NEW x \in extras'
        PROVE  x.target \in Rows(IF x.kind = "article_packaging" THEN article' ELSE product')
    <3>1. x.target \in Rows(IF x.kind = "article_packaging" THEN article ELSE product)
      BY DEF CatalogueInv, NothingDangles
    <3>2. CASE x.kind = "article_packaging"
      BY <1>3, <3>1, <3>2
    <3>3. CASE x.kind # "article_packaging"
      BY <1>2, <3>1, <3>3
    <3>. QED
      BY <3>2, <3>3
  <2>. QED
    BY <2>1, <2>2, <2>3, <2>4 DEF NothingDangles
<1>8. \A a \in Rows(article) \ ids : article[a].product \in Rows(product) \ gone
  BY DEF CatalogueInv, NothingDangles
<1>9. PromisesKeepTheirUnit'
  BY <1>2, <1>3, <1>8 DEF CatalogueInv, PromisesKeepTheirUnit, Pending
<1>10. \A b \in DOMAIN batch : UnitOf(b)' = UnitOf(b)
  BY <1>2, <1>3, <1>6, <1>8 DEF UnitOf
<1>. QED
  BY <1>5, <1>7, <1>9, <1>10, BooksStand DEF CatalogueInv

\* A product goes, or is hidden when it has a history.
LEMMA DeleteProductKeeps ==
    ASSUME CatalogueAssumptions, CatalogueInv, NEW p \in ProductIds, DeleteProduct(p)
    PROVE  CatalogueInv'
<1>1. p \in Rows(product) /\ product[p] \in Product /\ UNCHANGED <<batch, journal, scan>>
  BY CatalogueAtHand DEF DeleteProduct, CatalogueInv
<1>2. CASE ~ProductHasHistory(p) /\ EraseProduct(p)
  <2>1. ArticlesOf(p) \subseteq Rows(article) /\ {p} \subseteq Rows(product)
    BY <1>1 DEF ArticlesOf
  <2>2. \A a \in ArticlesOf(p) : BatchesOf(a) = {}
    BY <1>2 DEF ProductHasHistory, ArticleHasHistory
  <2>3. \A a \in Rows(article) \ ArticlesOf(p) : article[a].product \notin {p}
    BY DEF ArticlesOf
  <2>4. \A x \in extras' : x.target \notin (IF x.kind = "article_packaging"
                                            THEN ArticlesOf(p) ELSE {p})
    <3>1. SUFFICES ASSUME NEW x \in extras',
                          x.target \in (IF x.kind = "article_packaging"
                                        THEN ArticlesOf(p) ELSE {p})
                   PROVE  FALSE
      OBVIOUS
    <3>2. x \in Extra /\ x \notin ProductExtras(p) /\ x \notin ArticleExtras(ArticlesOf(p))
      BY <1>2 DEF EraseProduct, CatalogueInv, CatalogueTypeOK
    <3>. QED
      BY <3>1, <3>2 DEF Extra, ProductExtras, ArticleExtras
  <2>5. product' = Without(product, {p}) /\ EraseArticles(ArticlesOf(p)) /\ extras' \subseteq extras
    BY <1>2 DEF EraseProduct
  <2>. QED
    BY <1>1, <2>1, <2>2, <2>3, <2>4, <2>5, ErasedRowsKeep
<1>3. CASE ProductHasHistory(p) /\ product' = [product EXCEPT ![p].active = FALSE]
           /\ UNCHANGED <<article, barcode, extras>>
  <2>. DEFINE row == [product[p] EXCEPT !.active = FALSE]
  <2>1. row \in Product /\ row.unit = product[p].unit
    BY <1>1 DEF Product
  <2>2. product' = [product EXCEPT ![p] = row]
    BY <1>3
  <2>. HIDE DEF row
  <2>. QED
    BY <1>1, <1>3, <2>1, <2>2, ProductMarked
<1>. QED
  BY <1>2, <1>3 DEF DeleteProduct

\* An article goes, or is hidden when it has a history.
LEMMA DeleteArticleKeeps ==
    ASSUME CatalogueAssumptions, CatalogueInv, NEW a \in ArticleIds, DeleteArticle(a)
    PROVE  CatalogueInv'
<1>1. a \in Rows(article) /\ article[a] \in Article /\ UNCHANGED <<product, batch, journal, scan>>
  BY CatalogueAtHand DEF DeleteArticle, CatalogueInv
<1>2. CASE ~ArticleHasHistory(a) /\ EraseArticles({a}) /\ extras' = extras \ ArticleExtras({a})
  <2>1. /\ {a} \subseteq Rows(article) /\ {} \subseteq Rows(product)
        /\ \A b \in {a} : BatchesOf(b) = {}
        /\ \A b \in Rows(article) \ {a} : article[b].product \notin {}
        /\ extras' \subseteq extras
    BY <1>1, <1>2 DEF ArticleHasHistory
  <2>2. product' = Without(product, {})
    BY <1>1 DEF Without, CatalogueInv, CatalogueTypeOK
  <2>3. \A x \in extras' : x.target \notin (IF x.kind = "article_packaging" THEN {a} ELSE {})
    <3>1. SUFFICES ASSUME NEW x \in extras', x.kind = "article_packaging", x.target = a
                   PROVE  FALSE
      OBVIOUS
    <3>2. x \in Extra /\ x \notin ArticleExtras({a})
      BY <1>2 DEF CatalogueInv, CatalogueTypeOK
    <3>. QED
      BY <3>1, <3>2 DEF Extra, ArticleExtras
  <2>. QED
    BY <1>1, <1>2, <2>1, <2>2, <2>3, ErasedRowsKeep
<1>3. CASE ArticleHasHistory(a) /\ article' = [article EXCEPT ![a].active = FALSE]
           /\ UNCHANGED <<barcode, extras>>
  <2>. DEFINE row == [article[a] EXCEPT !.active = FALSE]
  <2>1. row \in Article /\ row.product = article[a].product /\ row.line = article[a].line
    BY <1>1 DEF Article
  <2>2. article' = [article EXCEPT ![a] = row]
    BY <1>3
  <2>3. article[a].line \in Units => article[a].line = product[article[a].product].unit
    BY <1>1 DEF CatalogueInv, PromisesKeepTheirUnit, Pending
  <2>. HIDE DEF row
  <2>. QED
    BY <1>1, <1>3, <2>1, <2>2, <2>3, ArticleMarked
<1>. QED
  BY <1>2, <1>3 DEF DeleteArticle

\* What is written about a product or an article that stays.
LEMMA MarksKeep ==
    ASSUME CatalogueAssumptions, CatalogueInv,
           \/ \E p \in ProductIds, u \in {"none", "open", "past"} : SetUse(p, u)
           \/ \E p \in ProductIds, on \in BOOLEAN : SetProductActive(p, on)
           \/ \E a \in ArticleIds : ScanLine(a)
           \/ \E a \in ArticleIds, l \in {"none", "past"} : EndLine(a, l)
    PROVE  CatalogueInv'
<1>1. ASSUME NEW p \in ProductIds, NEW u \in {"none", "open", "past"}, SetUse(p, u)
      PROVE  CatalogueInv'
  <2>. DEFINE row == [product[p] EXCEPT !.use = u]
  <2>1. p \in Rows(product) /\ product[p] \in Product
    BY <1>1, CatalogueAtHand DEF SetUse, CatalogueInv
  <2>2. row \in Product /\ row.unit = product[p].unit
    BY <2>1 DEF Product
  <2>3. /\ product' = [product EXCEPT ![p] = row]
        /\ UNCHANGED <<article, barcode, extras, batch, journal, scan>>
    BY <1>1 DEF SetUse
  <2>. HIDE DEF row
  <2>. QED
    BY <2>1, <2>2, <2>3, ProductMarked
<1>2. ASSUME NEW p \in ProductIds, NEW on \in BOOLEAN, SetProductActive(p, on)
      PROVE  CatalogueInv'
  <2>. DEFINE row == [product[p] EXCEPT !.active = on]
  <2>1. p \in Rows(product) /\ product[p] \in Product
    BY <1>2, CatalogueAtHand DEF SetProductActive, CatalogueInv
  <2>2. row \in Product /\ row.unit = product[p].unit
    BY <2>1 DEF Product
  <2>3. /\ product' = [product EXCEPT ![p] = row]
        /\ UNCHANGED <<article, barcode, extras, batch, journal, scan>>
    BY <1>2 DEF SetProductActive
  <2>. HIDE DEF row
  <2>. QED
    BY <2>1, <2>2, <2>3, ProductMarked
<1>3. ASSUME NEW a \in ArticleIds, ScanLine(a)
      PROVE  CatalogueInv'
  <2>. DEFINE row == [article[a] EXCEPT !.line = product[article[a].product].unit]
  <2>1. a \in Rows(article) /\ article[a] \in Article
    BY <1>3, CatalogueAtHand DEF ScanLine, CatalogueInv
  <2>2. product[article[a].product].unit \in Units
    BY <2>1, CatalogueAtHand DEF CatalogueInv, Product
  <2>3. /\ row \in Article /\ row.product = article[a].product
        /\ row.line = product[article[a].product].unit
    BY <2>1, <2>2 DEF Article
  <2>4. /\ article' = [article EXCEPT ![a] = row]
        /\ UNCHANGED <<product, barcode, extras, batch, journal, scan>>
    BY <1>3 DEF ScanLine
  <2>. HIDE DEF row
  <2>. QED
    BY <2>1, <2>3, <2>4, ArticleMarked
<1>4. ASSUME NEW a \in ArticleIds, NEW l \in {"none", "past"}, EndLine(a, l)
      PROVE  CatalogueInv'
  <2>. DEFINE row == [article[a] EXCEPT !.line = l]
  <2>1. a \in Rows(article) /\ article[a] \in Article /\ l \notin Units
    BY <1>4, CatalogueAtHand DEF EndLine, CatalogueInv
  <2>2. row \in Article /\ row.product = article[a].product /\ row.line = l
    BY <2>1 DEF Article
  <2>3. /\ article' = [article EXCEPT ![a] = row]
        /\ UNCHANGED <<product, barcode, extras, batch, journal, scan>>
    BY <1>4 DEF EndLine
  <2>. HIDE DEF row
  <2>. QED
    BY <2>1, <2>2, <2>3, ArticleMarked
<1>. QED
  BY <1>1, <1>2, <1>3, <1>4

\* Restoring an article restores its product.
LEMMA SetArticleActiveKeeps ==
    ASSUME CatalogueAssumptions, CatalogueInv, NEW a \in ArticleIds, NEW on \in BOOLEAN,
           SetArticleActive(a, on)
    PROVE  CatalogueInv'
<1>1. /\ a \in Rows(article) /\ article[a] \in Article
      /\ article[a].product \in Rows(product) /\ article[a].product \in ProductIds
      /\ product[article[a].product] \in Product
      /\ UNCHANGED <<barcode, extras, batch, journal, scan>>
  BY CatalogueAtHand DEF SetArticleActive, CatalogueInv
<1>2. /\ product \in [ProductIds -> Product \cup {Null}]
      /\ article \in [ArticleIds -> Article \cup {Null}]
  BY DEF CatalogueInv, CatalogueTypeOK
<1>3. PICK p : p = article[a].product
  OBVIOUS
<1>. DEFINE row  == [article[a] EXCEPT !.active = on]
            back == [product[p] EXCEPT !.active = TRUE]
<1>4. row \in Article /\ row.product = article[a].product /\ row.line = article[a].line
  BY <1>1 DEF Article
<1>5. back \in Product /\ back.unit = product[p].unit
  BY <1>1, <1>3 DEF Product
<1>6. row # Null /\ back # Null
  BY <1>4, <1>5 DEF CatalogueAssumptions
<1>7. /\ article' = [article EXCEPT ![a] = row]
      /\ product' = product \/ product' = [product EXCEPT ![p] = back]
  BY <1>3 DEF SetArticleActive
<1>. HIDE DEF row, back
<1>8. /\ product' \in [ProductIds -> Product \cup {Null}]
      /\ Rows(product') = Rows(product)
      /\ \A q \in Rows(product) : product'[q].unit = product[q].unit
  BY <1>1, <1>2, <1>3, <1>5, <1>6, <1>7 DEF Rows
<1>9. /\ article' \in [ArticleIds -> Article \cup {Null}]
      /\ Rows(article') = Rows(article)
      /\ \A b \in Rows(article) : /\ article'[b].product = article[b].product
                                  /\ article'[b].line = article[b].line
  BY <1>1, <1>2, <1>4, <1>6, <1>7 DEF Rows
<1>10. CatalogueTypeOK'
  BY <1>1, <1>8, <1>9 DEF CatalogueInv, CatalogueTypeOK
<1>11. PromisesKeepTheirUnit'
  BY <1>8, <1>9, CatalogueAtHand DEF CatalogueInv, PromisesKeepTheirUnit, Pending
<1>. QED
  BY <1>1, <1>8, <1>9, <1>10, <1>11, MarkKeeps

\* Looking a barcode up and describing a product move no row.
LEMMA AsideKeeps ==
    ASSUME CatalogueAssumptions, CatalogueInv,
           \/ \E c \in Codes, p \in ProductIds : Lookup(c, p)
           \/ \E p \in ProductIds, k \in {"alias", "product_packaging"} : Describe(p, k)
    PROVE  CatalogueInv'
<1>1. ASSUME NEW c \in Codes, NEW p \in ProductIds, Lookup(c, p)
      PROVE  CatalogueInv'
  <2>1. product[p] \in Product /\ UNCHANGED <<product, article, barcode, extras, batch, journal>>
    BY <1>1, CatalogueAtHand DEF Lookup, CatalogueInv
  <2>2. scan' \in Scan
    BY <1>1, <2>1 DEF Lookup, Scan, Product
  <2>3. CatalogueTypeOK' /\ PromisesKeepTheirUnit'
    BY <2>1, <2>2 DEF CatalogueInv, CatalogueTypeOK, PromisesKeepTheirUnit, Pending
  <2>. QED
    BY <2>1, <2>3, MarkKeeps
<1>2. ASSUME NEW p \in ProductIds, NEW k \in {"alias", "product_packaging"}, Describe(p, k)
      PROVE  CatalogueInv'
  <2>. DEFINE x == [kind |-> k, target |-> p]
  <2>1. /\ p \in Rows(product) /\ extras' = extras \cup {x}
        /\ UNCHANGED <<product, article, barcode, batch, journal, scan>>
    BY <1>2 DEF Describe
  <2>2. x \in Extra /\ x.target = p /\ x.kind # "article_packaging"
    BY DEF Extra, ProductIds
  <2>. HIDE DEF x
  <2>3. CatalogueTypeOK' /\ PromisesKeepTheirUnit'
    BY <2>1, <2>2 DEF CatalogueInv, CatalogueTypeOK, PromisesKeepTheirUnit, Pending
  <2>4. \A y \in extras' \ extras : y.target \in Rows(IF y.kind = "article_packaging"
                                                      THEN article ELSE product)
    BY <2>1, <2>2
  <2>. QED
    BY <2>1, <2>3, <2>4, MarkKeeps
<1>. QED
  BY <1>1, <1>2

(***************************************************************************)
(* The books: batches and their rows                                       *)
(***************************************************************************)
\* Rows added to the journal.
LEMMA JournalGrows ==
    ASSUME journal \in Seq(Movement), NEW written \in Seq(Movement), journal' = journal \o written
    PROVE  /\ journal' \in Seq(Movement)
           /\ \A i \in DOMAIN journal : i \in DOMAIN journal' /\ journal'[i] = journal[i]
           /\ \A i \in DOMAIN journal' \ DOMAIN journal :
                 /\ i > Len(journal) /\ i - Len(journal) \in DOMAIN written
                 /\ journal'[i] = written[i - Len(journal)]
           /\ \A k \in DOMAIN written : /\ Len(journal) + k \in DOMAIN journal'
                                     /\ journal'[Len(journal) + k] = written[k]
           /\ \A b \in Nat, u \in Units : /\ Balance(b, u)' = Balance(b, u) + Booked(written, b, u)
                                          /\ Balance(b, u) \in Int /\ Booked(written, b, u) \in Int
<1>1. PICK all : all = journal'
  OBVIOUS
<1>2. /\ all \in Seq(Movement) /\ Len(all) = Len(journal) + Len(written)
      /\ \A i \in 1..Len(journal) + Len(written) :
            all[i] = IF i <= Len(journal) THEN journal[i] ELSE written[i - Len(journal)]
  BY <1>1, ConcatProperties
<1>3. /\ DOMAIN journal = 1..Len(journal) /\ Len(journal) \in Nat
      /\ DOMAIN written = 1..Len(written) /\ Len(written) \in Nat
      /\ DOMAIN all = 1..Len(journal) + Len(written)
  BY <1>2, LenProperties
<1>4. \A i \in DOMAIN journal : i \in DOMAIN all /\ all[i] = journal[i]
  BY <1>2, <1>3
<1>5. \A i \in DOMAIN all \ DOMAIN journal :
         /\ i > Len(journal) /\ i - Len(journal) \in DOMAIN written
         /\ all[i] = written[i - Len(journal)]
  BY <1>2, <1>3
<1>6. \A k \in DOMAIN written : Len(journal) + k \in DOMAIN all /\ all[Len(journal) + k] = written[k]
  <2>1. SUFFICES ASSUME NEW k \in DOMAIN written
                 PROVE  Len(journal) + k \in DOMAIN all /\ all[Len(journal) + k] = written[k]
    OBVIOUS
  <2>2. PICK i : i = Len(journal) + k
    OBVIOUS
  <2>3. i \in 1..Len(journal) + Len(written) /\ ~(i <= Len(journal)) /\ i - Len(journal) = k
    BY <1>3, <2>2
  <2>. QED
    BY <1>2, <1>3, <2>2, <2>3
<1>7. ASSUME NEW b \in Nat, NEW u \in Units
      PROVE  /\ Balance(b, u)' = Balance(b, u) + Booked(written, b, u)
             /\ Balance(b, u) \in Int /\ Booked(written, b, u) \in Int
  <2>1. Balance(b, u) = Booked(journal, b, u) /\ Booked(journal, b, u) \in Int
    BY BalanceIsBooked
  <2>2. SumFunction([i \in {i \in DOMAIN all : all[i].batch = b /\ all[i].unit = u}
                       |-> all[i].quantity]) = Booked(all, b, u)
    BY <1>2, SumIsBooked
  <2>3. Balance(b, u)' = Booked(all, b, u)
    BY <1>1, <2>2 DEF Balance, RowsIn
  <2>4. Booked(all, b, u) = Booked(journal, b, u) + Booked(written, b, u)
        /\ Booked(written, b, u) \in Int
    BY <1>1, BookedMore
  <2>. QED
    BY <2>1, <2>3, <2>4
<1>. QED
  BY <1>1, <1>2, <1>4, <1>5, <1>6, <1>7

\* A correction that is late stays late until its batch is converted.
LEMMA LateStays ==
    ASSUME CatalogueTypeOK, NEW written \in Seq(Movement), journal' = journal \o written,
           NEW b, UnitOf(b)' = UnitOf(b), LateCorrection(b),
           \A k \in DOMAIN written : written[k].batch = b => written[k].reason # "conversion"
    PROVE  LateCorrection(b)'
<1>1. /\ \A i \in DOMAIN journal : i \in DOMAIN journal' /\ journal'[i] = journal[i]
      /\ \A i \in DOMAIN journal' \ DOMAIN journal :
            i - Len(journal) \in DOMAIN written /\ journal'[i] = written[i - Len(journal)]
  BY JournalGrows DEF CatalogueTypeOK
<1>2. Converted(b)' \subseteq Converted(b)
  <2>1. SUFFICES ASSUME NEW k \in DOMAIN journal', journal'[k].batch = b,
                        journal'[k].reason = "conversion"
                 PROVE  k \in Converted(b)
    BY DEF Converted
  <2>2. k \in DOMAIN journal
    BY <1>1, <2>1
  <2>. QED
    BY <1>1, <2>1, <2>2 DEF Converted
<1>3. PICK i \in DOMAIN journal :
         /\ journal[i].corrects # Null /\ journal[i].batch = b /\ journal[i].unit # UnitOf(b)
         /\ \A k \in Converted(b) : k < i
  BY DEF LateCorrection
<1>4. /\ i \in DOMAIN journal' /\ journal'[i].corrects # Null
      /\ journal'[i].batch = b /\ journal'[i].unit # UnitOf(b)'
  BY <1>1, <1>3
<1>5. \A k \in Converted(b)' : k < i
  BY <1>2, <1>3
<1>. QED
  BY <1>4, <1>5 DEF LateCorrection

\* Batches written with their rows: what is left to show.
LEMMA BooksKept ==
    ASSUME CatalogueAssumptions, CatalogueInv,
           NEW written \in Seq(Movement), journal' = journal \o written,
           DOMAIN batch \subseteq DOMAIN batch',
           \A k \in DOMAIN written : written[k].batch \in DOMAIN batch',
           \A b \in DOMAIN batch', u \in Units : UnitOf(b)' = "piece" =>
              /\ batch'[b].price = Price
              /\ b \in DOMAIN batch => UnitOf(b) = "piece"
              /\ \A k \in DOMAIN written : written[k].batch = b => written[k].unit = "piece",
           \A b \in DOMAIN batch' : batch'[b].open \/ batch'[b].remaining = 0,
           \A b \in DOMAIN batch' :
              \/ \A u \in Units : Balance(b, u) + Booked(written, b, u)
                                    = (IF u = UnitOf(b)' THEN batch'[b].remaining ELSE 0)
              \/ LateCorrection(b)',
           DOMAIN batch' \subseteq Nat
    PROVE  JournalNames' /\ PiecesFirst' /\ ClosedAreEmpty' /\ Accounted'
<1>1. journal \in Seq(Movement)
  BY DEF CatalogueInv, CatalogueTypeOK
<1>2. /\ \A i \in DOMAIN journal : i \in DOMAIN journal' /\ journal'[i] = journal[i]
      /\ \A i \in DOMAIN journal' \ DOMAIN journal :
            i - Len(journal) \in DOMAIN written /\ journal'[i] = written[i - Len(journal)]
      /\ \A b \in Nat, u \in Units : Balance(b, u)' = Balance(b, u) + Booked(written, b, u)
  BY <1>1, JournalGrows
<1>3. JournalNames'
  BY <1>2 DEF CatalogueInv, JournalNames
<1>4. PiecesFirst'
  <2>1. SUFFICES ASSUME NEW b \in DOMAIN batch', UnitOf(b)' = "piece"
                 PROVE  /\ batch'[b].price = Price
                        /\ \A i \in DOMAIN journal' :
                              journal'[i].batch = b => journal'[i].unit = "piece"
    BY DEF PiecesFirst
  <2>2. "piece" \in Units
    BY DEF Units
  <2>3. /\ batch'[b].price = Price
        /\ b \in DOMAIN batch => UnitOf(b) = "piece"
        /\ \A k \in DOMAIN written : written[k].batch = b => written[k].unit = "piece"
    BY <2>1, <2>2
  <2>4. ASSUME NEW i \in DOMAIN journal', journal'[i].batch = b
        PROVE  journal'[i].unit = "piece"
    <3>1. CASE i \in DOMAIN journal
      <4>1. journal[i].batch = b /\ journal'[i] = journal[i]
        BY <1>2, <2>4, <3>1
      <4>2. b \in DOMAIN batch
        BY <3>1, <4>1 DEF CatalogueInv, JournalNames
      <4>. QED
        BY <2>3, <3>1, <4>1, <4>2 DEF CatalogueInv, PiecesFirst
    <3>2. CASE i \notin DOMAIN journal
      BY <1>2, <2>3, <2>4, <3>2
    <3>. QED
      BY <3>1, <3>2
  <2>. QED
    BY <2>3, <2>4
<1>5. ClosedAreEmpty'
  BY DEF ClosedAreEmpty
<1>6. Accounted'
  <2>1. SUFFICES ASSUME NEW b \in DOMAIN batch', ~LateCorrection(b)'
                 PROVE  Explained(b)'
    BY DEF Accounted
  <2>2. \A u \in Units : Balance(b, u)' = (IF u = UnitOf(b)' THEN batch'[b].remaining ELSE 0)
    BY <1>2, <2>1
  <2>. QED
    BY <2>2 DEF Explained
<1>. QED
  BY <1>3, <1>4, <1>5, <1>6

\* A batch is entered, with its row.
LEMMA AddStockKeeps ==
    ASSUME CatalogueAssumptions, CatalogueInv, NEW a \in ArticleIds, NEW q \in Amounts,
           AddStock(a, q)
    PROVE  CatalogueInv'
<1>. DEFINE new == [article |-> a, remaining |-> q, price |-> Price, open |-> TRUE]
            row == Move(Len(batch) + 1, q, product[article[a].product].unit, "in")
<1>1. /\ a \in Rows(article) /\ batch \in Seq(Batch) /\ journal \in Seq(Movement)
      /\ UNCHANGED <<product, article, barcode, extras, scan>>
  BY DEF AddStock, CatalogueInv, CatalogueTypeOK
<1>2. q \in Nat /\ Price \in Nat
  BY DEF CatalogueAssumptions, CatalogueConstants
<1>3. PICK b0, unit : b0 = Len(batch) + 1 /\ unit = product[article[a].product].unit
  OBVIOUS
<1>4. /\ DOMAIN batch = 1..Len(batch) /\ Len(batch) \in Nat
      /\ \A b \in DOMAIN batch : b \in Nat /\ UnitOf(b) \in Units
                                 /\ batch[b].article \in Rows(article)
      /\ product[article[a].product] \in Product
  BY <1>1, CatalogueAtHand DEF CatalogueInv
<1>5. b0 \in Nat /\ unit \in Units /\ b0 \notin DOMAIN batch
  BY <1>3, <1>4 DEF Product
<1>6. new \in Batch /\ new.article = a /\ new.remaining = q /\ new.price = Price /\ new.open
  BY <1>2 DEF Batch
<1>7. /\ row \in Movement /\ row.batch = b0 /\ row.unit = unit /\ row.quantity = q
      /\ row.reason = "in"
  BY <1>2, <1>3, <1>5 DEF Move, Movement
<1>8. batch' = Append(batch, new) /\ journal' = journal \o <<row>>
  BY DEF AddStock, Write
<1>. HIDE DEF new, row
<1>9. PICK written : written = <<row>>
  OBVIOUS
<1>10. written \in Seq(Movement) /\ DOMAIN written = 1..1 /\ written[1] = row
  BY <1>7, <1>9
<1>11. /\ batch' \in Seq(Batch) /\ DOMAIN batch' = DOMAIN batch \cup {b0} /\ DOMAIN batch' \subseteq Nat
       /\ batch'[b0] = new /\ \A b \in DOMAIN batch : batch'[b] = batch[b]
  <2>1. /\ batch' \in Seq(Batch) /\ Len(batch') = Len(batch) + 1
        /\ \A i \in 1..Len(batch) : batch'[i] = batch[i]
        /\ batch'[Len(batch) + 1] = new
    BY <1>1, <1>6, <1>8, AppendProperties
  <2>2. DOMAIN batch' = 1..Len(batch) + 1
    BY <2>1, LenProperties
  <2>. QED
    BY <1>3, <1>4, <2>1, <2>2
<1>12. journal' = journal \o written /\ journal' \in Seq(Movement)
  BY <1>1, <1>8, <1>9, <1>10, JournalGrows
<1>13. CatalogueTypeOK' /\ PromisesKeepTheirUnit'
  BY <1>1, <1>11, <1>12 DEF CatalogueInv, CatalogueTypeOK, PromisesKeepTheirUnit, Pending
<1>14. NothingDangles'
  <2>1. \A b \in DOMAIN batch' : batch'[b].article \in Rows(article')
    BY <1>1, <1>4, <1>6, <1>11
  <2>2. /\ \A c \in Rows(article') : article'[c].product \in Rows(product')
        /\ \A c \in Codes : barcode'[c] # Null => barcode'[c] \in Rows(article')
        /\ \A x \in extras' : x.target \in Rows(IF x.kind = "article_packaging"
                                                THEN article' ELSE product')
    BY <1>1 DEF CatalogueInv, NothingDangles
  <2>. QED
    BY <2>1, <2>2 DEF NothingDangles
<1>15. UnitOf(b0)' = unit /\ \A b \in DOMAIN batch : UnitOf(b)' = UnitOf(b)
  BY <1>1, <1>3, <1>6, <1>11 DEF UnitOf
<1>16. \A b \in DOMAIN batch', u \in Units : UnitOf(b)' = "piece" =>
          /\ batch'[b].price = Price
          /\ b \in DOMAIN batch => UnitOf(b) = "piece"
          /\ \A k \in DOMAIN written : written[k].batch = b => written[k].unit = "piece"
  <2>1. SUFFICES ASSUME NEW b \in DOMAIN batch', UnitOf(b)' = "piece"
                 PROVE  /\ batch'[b].price = Price
                        /\ b \in DOMAIN batch => UnitOf(b) = "piece"
                        /\ \A k \in DOMAIN written : written[k].batch = b => written[k].unit = "piece"
    OBVIOUS
  <2>2. CASE b \in DOMAIN batch
    BY <1>5, <1>7, <1>10, <1>11, <1>15, <2>1, <2>2 DEF CatalogueInv, PiecesFirst
  <2>3. CASE b = b0
    BY <1>5, <1>6, <1>7, <1>10, <1>11, <1>15, <2>1, <2>3
  <2>. QED
    BY <1>11, <2>2, <2>3
<1>17. \A b \in DOMAIN batch' : batch'[b].open \/ batch'[b].remaining = 0
  BY <1>6, <1>11 DEF CatalogueInv, ClosedAreEmpty
<1>18. ASSUME NEW b \in DOMAIN batch', ~LateCorrection(b)', NEW u \in Units
       PROVE  Balance(b, u) + Booked(written, b, u) = (IF u = UnitOf(b)' THEN batch'[b].remaining ELSE 0)
  <2>1. Booked(<<row>>, b, u) = IF row.batch = b /\ row.unit = u THEN row.quantity ELSE 0
    BY <1>7, <1>11, BookedOne
  <2>2. Balance(b, u) \in Int
    BY <1>1, <1>11, BalanceIsBooked
  <2>3. CASE b \in DOMAIN batch
    <3>1. ~LateCorrection(b)
      <4>1. \A k \in DOMAIN written : written[k].batch # b
        BY <1>5, <1>7, <1>10, <2>3
      <4>. QED
        BY <1>10, <1>12, <1>15, <1>18, <2>3, <4>1, LateStays DEF CatalogueInv
    <3>2. Explained(b)
      BY <2>3, <3>1 DEF CatalogueInv, Accounted
    <3>3. Balance(b, u) = (IF u = UnitOf(b) THEN batch[b].remaining ELSE 0)
      BY <3>2 DEF Explained
    <3>4. Booked(written, b, u) = 0
      BY <1>5, <1>7, <1>9, <2>1, <2>3
    <3>5. UnitOf(b)' = UnitOf(b) /\ batch'[b] = batch[b]
      BY <1>11, <1>15, <2>3
    <3>. QED
      BY <2>2, <3>3, <3>4, <3>5
  <2>4. CASE b = b0
    <3>1. \A i \in DOMAIN journal : ~(journal[i].batch = b0 /\ journal[i].unit = u)
      BY <1>5 DEF CatalogueInv, JournalNames
    <3>2. Booked(journal, b0, u) = 0
      BY <1>1, <1>5, <3>1, BookedNothing
    <3>3. Balance(b0, u) = 0
      BY <1>1, <1>5, <3>2, BalanceIsBooked
    <3>4. Booked(written, b, u) = IF unit = u THEN q ELSE 0
      BY <1>7, <1>9, <2>1, <2>4
    <3>5. UnitOf(b)' = unit /\ batch'[b].remaining = q
      BY <1>6, <1>11, <1>15, <2>4
    <3>. QED
      BY <1>2, <2>4, <3>3, <3>4, <3>5
  <2>. QED
    BY <1>11, <2>3, <2>4
<1>19. \A k \in DOMAIN written : written[k].batch \in DOMAIN batch'
  BY <1>7, <1>10, <1>11
<1>20. DOMAIN batch \subseteq DOMAIN batch'
  BY <1>11
<1>21. JournalNames' /\ PiecesFirst' /\ ClosedAreEmpty' /\ Accounted'
  BY <1>10, <1>11, <1>12, <1>16, <1>17, <1>18, <1>19, <1>20, BooksKept
<1>. QED
  BY <1>13, <1>14, <1>21 DEF CatalogueInv

\* A row of one batch moves what is left of it by as much.
LEMMA MovementKeeps ==
    ASSUME CatalogueAssumptions, CatalogueInv, NEW c \in DOMAIN batch, NEW row \in Movement,
           row.batch = c, row.reason # "conversion",
           row.unit = UnitOf(c) \/ row.corrects # Null,
           UnitOf(c) = "piece" => row.unit = "piece",
           batch[c].remaining + row.quantity \in Nat,
           SetRemaining(c, batch[c].remaining + row.quantity),
           journal' = journal \o <<row>>,
           UNCHANGED <<product, article, barcode, extras, scan>>
    PROVE  CatalogueInv'
<1>1. PICK left, some : left = batch[c].remaining + row.quantity /\ some = (left > 0)
  OBVIOUS
<1>2. /\ left \in Nat /\ batch \in Seq(Batch) /\ journal \in Seq(Movement)
      /\ batch' = [batch EXCEPT ![c].remaining = left, ![c].open = some]
      /\ some \in BOOLEAN /\ (some \/ left = 0)
  <2>1. left \in Nat /\ some = (left > 0)
    BY <1>1
  <2>2. batch' = [batch EXCEPT ![c].remaining = left, ![c].open = some]
    BY <1>1 DEF SetRemaining
  <2>3. some \in BOOLEAN
    BY <2>1
  <2>4. some \/ left = 0
    <3>1. left > 0 \/ left = 0
      BY <2>1
    <3>2. CASE left > 0
      <4>1. some = TRUE
        BY <2>1, <3>2
      <4>. QED
        BY <4>1, Zenon
    <3>. QED
      BY <3>1, <3>2
  <2>. QED
    BY <2>1, <2>2, <2>3, <2>4 DEF CatalogueInv, CatalogueTypeOK
<1>3. /\ DOMAIN batch = 1..Len(batch) /\ Len(batch) \in Nat
      /\ \A b \in DOMAIN batch : /\ b \in Nat /\ batch[b] \in Batch /\ UnitOf(b) \in Units
                                 /\ batch[b].article \in Rows(article)
  BY CatalogueAtHand DEF CatalogueInv
<1>. DEFINE now == [batch[c] EXCEPT !.remaining = left, !.open = some]
<1>4. /\ now \in Batch /\ now.remaining = left /\ now.open = some
      /\ now.price = batch[c].price /\ now.article = batch[c].article
  BY <1>2, <1>3 DEF Batch
<1>5. batch' = [batch EXCEPT ![c] = now]
  BY <1>2, <1>3
<1>. HIDE DEF now
<1>6. /\ batch' \in Seq(Batch) /\ DOMAIN batch' = DOMAIN batch
      /\ batch'[c] = now /\ \A b \in DOMAIN batch \ {c} : batch'[b] = batch[b]
  <2>1. /\ [batch EXCEPT ![c] = now] \in Seq(Batch)
        /\ Len([batch EXCEPT ![c] = now]) = Len(batch)
    BY <1>2, <1>3, <1>4, ExceptSeq
  <2>2. DOMAIN batch' = 1..Len(batch')
    BY <1>5, <2>1, LenProperties
  <2>. QED
    BY <1>3, <1>5, <2>1, <2>2
<1>7. PICK written : written = <<row>>
  OBVIOUS
<1>8. written \in Seq(Movement) /\ DOMAIN written = 1..1 /\ written[1] = row
  BY <1>7
<1>9. journal' = journal \o written /\ journal' \in Seq(Movement)
  BY <1>2, <1>7, <1>8, JournalGrows
<1>10. CatalogueTypeOK' /\ PromisesKeepTheirUnit'
  BY <1>6, <1>9 DEF CatalogueInv, CatalogueTypeOK, PromisesKeepTheirUnit, Pending
<1>11. \A b \in DOMAIN batch : batch'[b].article = batch[b].article
  BY <1>4, <1>6
<1>12. NothingDangles'
  BY <1>6, <1>11 DEF CatalogueInv, NothingDangles
<1>13. \A b \in DOMAIN batch : UnitOf(b)' = UnitOf(b)
  BY <1>11 DEF UnitOf
<1>14. \A b \in DOMAIN batch', u \in Units : UnitOf(b)' = "piece" =>
          /\ batch'[b].price = Price
          /\ b \in DOMAIN batch => UnitOf(b) = "piece"
          /\ \A k \in DOMAIN written : written[k].batch = b => written[k].unit = "piece"
  BY <1>4, <1>6, <1>8, <1>13 DEF CatalogueInv, PiecesFirst
<1>15. \A b \in DOMAIN batch' : batch'[b].open \/ batch'[b].remaining = 0
  BY <1>2, <1>4, <1>6 DEF CatalogueInv, ClosedAreEmpty
<1>16. ASSUME NEW b \in DOMAIN batch', ~LateCorrection(b)', NEW u \in Units
       PROVE  Balance(b, u) + Booked(written, b, u) = (IF u = UnitOf(b)' THEN batch'[b].remaining ELSE 0)
  <2>0. b \in DOMAIN batch /\ b \in Nat
    BY <1>3, <1>6
  <2>1. Booked(<<row>>, b, u) = IF row.batch = b /\ row.unit = u THEN row.quantity ELSE 0
    BY <2>0, BookedOne
  <2>2. Balance(b, u) \in Int
    BY <1>2, <2>0, BalanceIsBooked
  <2>3. ~LateCorrection(b)
    <3>1. \A k \in DOMAIN written : written[k].batch = b => written[k].reason # "conversion"
      BY <1>8
    <3>. QED
      BY <1>8, <1>9, <1>13, <1>16, <2>0, <3>1, LateStays DEF CatalogueInv
  <2>4. Balance(b, u) = (IF u = UnitOf(b) THEN batch[b].remaining ELSE 0)
    BY <2>0, <2>3 DEF CatalogueInv, Accounted, Explained
  <2>5. UnitOf(b)' = UnitOf(b)
    BY <1>13, <2>0
  <2>6. CASE b # c
    BY <1>6, <1>7, <2>0, <2>1, <2>2, <2>4, <2>5, <2>6
  <2>7. CASE b = c
    <3>1. row.unit = UnitOf(c)
      <4>1. SUFFICES ASSUME row.unit # UnitOf(c)
                     PROVE  LateCorrection(c)'
        BY <1>16, <2>7
      <4>2. PICK i : i = Len(journal) + 1
        OBVIOUS
      <4>3. i \in DOMAIN journal' /\ journal'[i] = row
        BY <1>2, <1>8, <1>9, <4>2, JournalGrows
      <4>4. /\ row.corrects # Null /\ row.unit # UnitOf(c)'
        BY <1>13, <4>1
      <4>5. \A k \in Converted(c)' : k < i
        <5>1. SUFFICES ASSUME NEW k \in DOMAIN journal', journal'[k].reason = "conversion"
                       PROVE  k < i
          BY DEF Converted
        <5>2. DOMAIN journal' = 1..Len(journal') /\ Len(journal') = Len(journal) + 1
              /\ Len(journal) \in Nat
          <6>1. Len(written) = 1
            BY <1>7
          <6>2. Len(journal \o written) = Len(journal) + Len(written)
            BY <1>2, <1>8, ConcatProperties
          <6>. QED
            BY <1>2, <1>9, <6>1, <6>2, LenProperties
        <5>3. k # i
          BY <4>3, <5>1
        <5>. QED
          BY <4>2, <5>1, <5>2, <5>3
      <4>. QED
        BY <4>3, <4>4, <4>5 DEF LateCorrection
    <3>2. Booked(written, b, u) = IF u = UnitOf(b) THEN row.quantity ELSE 0
      BY <1>7, <2>1, <2>7, <3>1
    <3>3. batch'[b].remaining = batch[b].remaining + row.quantity
      BY <1>1, <1>4, <1>6, <2>7
    <3>4. batch[b].remaining \in Int /\ row.quantity \in Int
      BY <1>3, <2>0 DEF Batch, Movement
    <3>. QED
      BY <2>4, <2>5, <3>2, <3>3, <3>4
  <2>. QED
    BY <2>6, <2>7
<1>17. \A k \in DOMAIN written : written[k].batch \in DOMAIN batch'
  BY <1>6, <1>8
<1>18. DOMAIN batch \subseteq DOMAIN batch' /\ DOMAIN batch' \subseteq Nat
  BY <1>3, <1>6
<1>19. JournalNames' /\ PiecesFirst' /\ ClosedAreEmpty' /\ Accounted'
  BY <1>8, <1>9, <1>14, <1>15, <1>16, <1>17, <1>18, BooksKept
<1>. QED
  BY <1>10, <1>12, <1>19 DEF CatalogueInv

\* Some of a batch goes out.
LEMMA ConsumeKeeps ==
    ASSUME CatalogueAssumptions, CatalogueInv, NEW b \in 1..MaxBatches, NEW q \in Amounts,
           Consume(b, q)
    PROVE  CatalogueInv'
<1>. DEFINE row == Move(b, -q, UnitOf(b), "out")
<1>1. /\ b \in DOMAIN batch /\ b \in Nat /\ batch[b] \in Batch /\ UnitOf(b) \in Units
      /\ UNCHANGED <<product, article, barcode, extras, scan>>
      /\ q <= batch[b].remaining
  BY CatalogueAtHand DEF Consume, CatalogueInv
<1>2. q \in Nat /\ batch[b].remaining \in Nat
  BY <1>1 DEF CatalogueAssumptions, CatalogueConstants, Batch
<1>3. -q \in Int
  BY <1>2
<1>4. /\ row \in Movement /\ row.batch = b /\ row.reason # "conversion"
      /\ row.unit = UnitOf(b) /\ row.quantity = -q
  BY <1>1, <1>3 DEF Move, Movement
<1>5. SetRemaining(b, batch[b].remaining - q) /\ journal' = journal \o <<row>>
  BY DEF Consume, Write
<1>. HIDE DEF row
<1>6. /\ batch[b].remaining - q = batch[b].remaining + row.quantity
      /\ batch[b].remaining + row.quantity \in Nat
  BY <1>1, <1>2, <1>4
<1>7. SetRemaining(b, batch[b].remaining + row.quantity)
  BY <1>5, <1>6
<1>. QED
  BY <1>1, <1>4, <1>5, <1>6, <1>7, MovementKeeps

\* A movement is corrected: the mirror row keeps its unit, and is late when
\* that is no more the unit of the product.
LEMMA CorrectMovementKeeps ==
    ASSUME CatalogueAssumptions, CatalogueInv, NEW i \in 1..MaxMovements, CorrectMovement(i)
    PROVE  CatalogueInv'
<1>1. PICK b : b = journal[i].batch
  OBVIOUS
<1>. DEFINE row == [journal[i] EXCEPT !.quantity = -@, !.corrects = i]
<1>2. /\ i \in DOMAIN journal /\ i \in Nat /\ journal[i] \in Movement
      /\ journal[i].reason # "conversion"
      /\ batch[b].remaining >= journal[i].quantity
      /\ UNCHANGED <<product, article, barcode, extras, scan>>
  BY <1>1, CatalogueAtHand DEF CorrectMovement, Correctable, CatalogueInv
<1>3. b \in DOMAIN batch /\ batch[b] \in Batch
  BY <1>1, <1>2, CatalogueAtHand DEF CatalogueInv, JournalNames
<1>4. journal[i].quantity \in Int /\ batch[b].remaining \in Nat /\ -journal[i].quantity \in Int
  BY <1>2, <1>3 DEF Movement, Batch
<1>5. /\ row \in Movement /\ row.batch = b /\ row.reason # "conversion"
      /\ row.unit = journal[i].unit /\ row.quantity = -journal[i].quantity /\ row.corrects = i
  BY <1>1, <1>2, <1>4 DEF Movement
<1>6. row.corrects # Null
  BY <1>2, <1>5 DEF CatalogueAssumptions
<1>7. UnitOf(b) = "piece" => row.unit = "piece"
  BY <1>1, <1>2, <1>3, <1>5 DEF CatalogueInv, PiecesFirst
<1>8. SetRemaining(b, batch[b].remaining - journal[i].quantity) /\ journal' = journal \o <<row>>
  BY <1>1 DEF CorrectMovement, Write
<1>. HIDE DEF row
<1>9. /\ batch[b].remaining - journal[i].quantity = batch[b].remaining + row.quantity
      /\ batch[b].remaining + row.quantity \in Nat
  BY <1>2, <1>4, <1>5
<1>10. SetRemaining(b, batch[b].remaining + row.quantity)
  BY <1>8, <1>9
<1>. QED
  BY <1>2, <1>3, <1>5, <1>6, <1>7, <1>8, <1>9, <1>10, MovementKeeps

\* What a conversion makes of a batch.
LEMMA RestatedRow ==
    ASSUME CatalogueAssumptions, CatalogueInv, NEW row \in Batch, row.article \in Rows(article),
           NEW kept \in BOOLEAN
    PROVE  /\ Restated(row, kept) \in Batch
           /\ Restated(row, kept).article = row.article
           /\ Restated(row, kept).open = row.open
           /\ Factor(row.article) \in Nat \ {0}
           /\ Price % Factor(row.article) = 0 /\ Price \in Nat
<1>1. PICK f : f = Factor(row.article)
  OBVIOUS
<1>2. article[row.article] \in Article
  BY CatalogueAtHand DEF CatalogueInv
<1>3. f \in Nat \ {0} /\ Price % f = 0 /\ Price \in Nat
  <2>1. CASE article[row.article].net # Null
    <3>1. f = article[row.article].net
      BY <1>1, <2>1 DEF Factor
    <3>2. f \in Nets \ {Null}
      BY <1>2, <2>1, <3>1 DEF Article
    <3>. QED
      BY <3>2 DEF CatalogueAssumptions, CatalogueConstants
  <2>2. CASE article[row.article].net = Null
    <3>1. f = Reference
      BY <1>1, <2>2 DEF Factor
    <3>. QED
      BY <3>1 DEF CatalogueAssumptions, CatalogueConstants
  <2>. QED
    BY <2>1, <2>2
<1>4. PICK r, p : r = row.remaining * f /\ p = row.price \div f
  OBVIOUS
<1>5. r \in Nat /\ p \in Nat
  <2>1. row.remaining \in Nat /\ row.price \in Nat
    BY DEF Batch
  <2>. QED
    BY <1>3, <1>4, <2>1
<1>6. Restated(row, kept) = IF kept THEN row
                            ELSE [row EXCEPT !.remaining = r, !.price = p]
  BY <1>1, <1>4 DEF Restated, Batch
<1>. QED
  BY <1>1, <1>3, <1>5, <1>6 DEF Batch

\* A product moves from pieces to grams: its open batches leave in pieces and
\* come back in grams, the closed ones are empty in both.
LEMMA ConvertUnitKeeps ==
    ASSUME CatalogueAssumptions, CatalogueInv, NEW p \in ProductIds,
           NEW kept \in SUBSET (1..MaxBatches), ConvertUnit(p, kept)
    PROVE  CatalogueInv'
<1>. DEFINE open == OpenBatches(p)
            written == ConversionRows(open, kept)
<1>1. /\ p \in Rows(product) /\ product[p] \in Product /\ product[p].unit = "piece"
      /\ \A a \in ArticlesOf(p) : ~Pending(a)
      /\ product' = [product EXCEPT ![p].unit = "g"]
      /\ batch' = [b \in DOMAIN batch |->
                     IF b \in open THEN Restated(batch[b], b \in kept) ELSE batch[b]]
      /\ journal' = journal \o written
      /\ extras' = extras \cup [kind : {"article_packaging"}, target : ArticlesOf(p)]
      /\ UNCHANGED <<article, barcode, scan>>
  BY CatalogueAtHand DEF ConvertUnit, Planned, Write, CatalogueInv
<1>2. /\ DOMAIN batch = 1..Len(batch) /\ Len(batch) \in Nat
      /\ \A b \in DOMAIN batch : /\ b \in Nat /\ batch[b] \in Batch /\ UnitOf(b) \in Units
                                 /\ batch[b].article \in Rows(article)
      /\ \A a \in Rows(article) : a \in ArticleIds /\ article[a].product \in Rows(product)
  BY CatalogueAtHand DEF CatalogueInv
<1>3. /\ product \in [ProductIds -> Product \cup {Null}]
      /\ batch \in Seq(Batch) /\ journal \in Seq(Movement)
  BY DEF CatalogueInv, CatalogueTypeOK
<1>4. /\ product' \in [ProductIds -> Product \cup {Null}]
      /\ Rows(product') = Rows(product)
      /\ product'[p].unit = "g"
      /\ \A q \in Rows(product) \ {p} : product'[q] = product[q]
  <2>. DEFINE new == [product[p] EXCEPT !.unit = "g"]
  <2>1. new \in Product /\ new.unit = "g"
    BY <1>1 DEF Product, Units
  <2>2. new # Null
    BY <2>1 DEF CatalogueAssumptions
  <2>3. product' = [product EXCEPT ![p] = new]
    BY <1>1
  <2>4. p \in Rows(product)
    BY <1>1
  <2>. HIDE DEF new, open, written
  <2>. QED
    BY <1>3, <2>1, <2>2, <2>3, <2>4 DEF Rows
<1>5. open \subseteq DOMAIN batch
  BY DEF OpenBatches
<1>6. \A b \in open : article[batch[b].article].product = p /\ batch[b].open
  BY DEF OpenBatches, ArticlesOf
<1>7. \A b \in DOMAIN batch \ open : article[batch[b].article].product # p \/ ~batch[b].open
  BY <1>2 DEF OpenBatches, ArticlesOf
<1>. HIDE DEF open
<1>8. \A b \in DOMAIN batch : /\ Restated(batch[b], b \in kept) \in Batch
                              /\ Restated(batch[b], b \in kept).article = batch[b].article
                              /\ Restated(batch[b], b \in kept).open = batch[b].open
  <2>1. SUFFICES ASSUME NEW b \in DOMAIN batch
                 PROVE  /\ Restated(batch[b], b \in kept) \in Batch
                        /\ Restated(batch[b], b \in kept).article = batch[b].article
                        /\ Restated(batch[b], b \in kept).open = batch[b].open
    OBVIOUS
  <2>2. PICK row, k : row = batch[b] /\ k = (b \in kept)
    OBVIOUS
  <2>3. row \in Batch /\ row.article \in Rows(article)
    BY <1>2, <2>2
  <2>4. k \in BOOLEAN
    BY <2>2
  <2>5. /\ Restated(row, k) \in Batch
        /\ Restated(row, k).article = row.article
        /\ Restated(row, k).open = row.open
    BY <2>3, <2>4, RestatedRow
  <2>. QED
    BY <2>2, <2>5
<1>9. /\ DOMAIN batch' = DOMAIN batch /\ batch' \in Seq(Batch)
      /\ \A b \in open : batch'[b] = Restated(batch[b], b \in kept)
      /\ \A b \in DOMAIN batch \ open : batch'[b] = batch[b]
      /\ \A b \in DOMAIN batch : batch'[b].article = batch[b].article
                                 /\ batch'[b].open = batch[b].open
  <2>1. batch' \in [1..Len(batch) -> Batch]
    BY <1>1, <1>2, <1>8
  <2>2. batch' \in Seq(Batch)
    BY <1>2, <2>1, SeqDef
  <2>. QED
    BY <1>1, <1>2, <1>5, <1>8, <2>1, <2>2
<1>10. /\ written \in Seq(Movement)
       /\ \A k \in DOMAIN written : written[k].batch \in open
       /\ \A b \in DOMAIN batch :
             /\ Booked(written, b, "piece") = IF b \in open THEN -batch[b].remaining ELSE 0
             /\ Booked(written, b, "g")
                   = IF b \in open THEN Restated(batch[b], b \in kept).remaining ELSE 0
  <2>1. \A b \in open : Restated(batch[b], b \in kept).remaining \in Nat
    BY <1>5, <1>8 DEF Batch
  <2>. QED
    BY <1>3, <1>5, <2>1, RowsOfConversion
<1>. HIDE DEF written
<1>11. journal' \in Seq(Movement)
  BY <1>1, <1>3, <1>10, JournalGrows
<1>12. CatalogueTypeOK'
  <2>1. extras' \subseteq Extra
    BY <1>1, <1>2 DEF CatalogueInv, CatalogueTypeOK, Extra, ArticlesOf, ArticleIds
  <2>. QED
    BY <1>1, <1>4, <1>9, <1>11, <2>1 DEF CatalogueInv, CatalogueTypeOK
<1>13. NothingDangles'
  <2>1. /\ \A c \in Rows(article') : article'[c].product \in Rows(product')
        /\ \A c \in Codes : barcode'[c] # Null => barcode'[c] \in Rows(article')
    BY <1>1, <1>4 DEF CatalogueInv, NothingDangles
  <2>2. \A b \in DOMAIN batch' : batch'[b].article \in Rows(article')
    BY <1>1, <1>2, <1>9
  <2>3. ASSUME NEW x \in extras'
        PROVE  x.target \in Rows(IF x.kind = "article_packaging" THEN article' ELSE product')
    <3>1. CASE x \in extras
      <4>1. x.target \in Rows(IF x.kind = "article_packaging" THEN article ELSE product)
        BY <3>1 DEF CatalogueInv, NothingDangles
      <4>2. CASE x.kind = "article_packaging"
        BY <1>1, <4>1, <4>2
      <4>3. CASE x.kind # "article_packaging"
        BY <1>4, <4>1, <4>3
      <4>. QED
        BY <4>2, <4>3
    <3>2. CASE x \in [kind : {"article_packaging"}, target : ArticlesOf(p)]
      BY <1>1, <3>2 DEF ArticlesOf
    <3>. QED
      BY <1>1, <3>1, <3>2
  <2>. QED
    BY <2>1, <2>2, <2>3 DEF NothingDangles
<1>14. PromisesKeepTheirUnit'
  <2>1. SUFFICES ASSUME NEW a \in Rows(article), Pending(a)
                 PROVE  article[a].line = product'[article[a].product].unit
    BY <1>1 DEF PromisesKeepTheirUnit, Pending
  <2>2. article[a].product # p
    BY <1>1, <2>1 DEF ArticlesOf
  <2>. QED
    BY <1>2, <1>4, <2>1, <2>2 DEF CatalogueInv, PromisesKeepTheirUnit
<1>15. \A b \in DOMAIN batch :
          UnitOf(b)' = IF article[batch[b].article].product = p THEN "g" ELSE UnitOf(b)
  BY <1>1, <1>2, <1>4, <1>9 DEF UnitOf
<1>16. \A b \in DOMAIN batch', u \in Units : UnitOf(b)' = "piece" =>
          /\ batch'[b].price = Price
          /\ b \in DOMAIN batch => UnitOf(b) = "piece"
          /\ \A k \in DOMAIN written : written[k].batch = b => written[k].unit = "piece"
  <2>1. SUFFICES ASSUME NEW b \in DOMAIN batch, UnitOf(b)' = "piece"
                 PROVE  /\ batch'[b].price = Price /\ UnitOf(b) = "piece"
                        /\ \A k \in DOMAIN written : written[k].batch # b
    BY <1>9
  <2>2. article[batch[b].article].product # p /\ UnitOf(b) = "piece"
    BY <1>15, <2>1
  <2>3. b \notin open
    BY <1>6, <2>2
  <2>. QED
    BY <1>9, <1>10, <2>2, <2>3 DEF CatalogueInv, PiecesFirst
<1>17. \A b \in DOMAIN batch' : batch'[b].open \/ batch'[b].remaining = 0
  <2>1. SUFFICES ASSUME NEW b \in DOMAIN batch, ~batch[b].open
                 PROVE  batch'[b].remaining = 0
    BY <1>9
  <2>2. b \notin open
    BY <1>6, <2>1
  <2>. QED
    BY <1>9, <2>1, <2>2 DEF CatalogueInv, ClosedAreEmpty
<1>18. ASSUME NEW b \in DOMAIN batch', ~LateCorrection(b)', NEW u \in Units
       PROVE  Balance(b, u) + Booked(written, b, u) = (IF u = UnitOf(b)' THEN batch'[b].remaining ELSE 0)
  <2>0. /\ b \in DOMAIN batch /\ b \in Nat /\ UnitOf(b) \in Units
        /\ batch[b].remaining \in Nat /\ batch'[b].remaining \in Nat
    BY <1>2, <1>8, <1>9 DEF Batch
  <2>1. u = "piece" \/ u = "g"
    BY DEF Units
  <2>2. Balance(b, u) \in Int
    BY <1>3, <2>0, BalanceIsBooked
  <2>3. UnitOf(b) = "piece" =>
           Balance(b, u) = (IF u = UnitOf(b) THEN batch[b].remaining ELSE 0)
    BY <2>0, PiecesAreExplained DEF Explained
  <2>4. article[batch[b].article].product = p => UnitOf(b) = "piece"
    BY <1>1 DEF UnitOf
  <2>5. CASE b \in open
    <3>1. UnitOf(b) = "piece" /\ UnitOf(b)' = "g"
      BY <1>6, <1>15, <2>0, <2>4, <2>5
    <3>2. batch'[b].remaining = Restated(batch[b], b \in kept).remaining
      BY <1>9, <2>5
    <3>3. /\ Booked(written, b, "piece") = -batch[b].remaining
          /\ Booked(written, b, "g") = batch'[b].remaining
      BY <1>10, <2>0, <2>5, <3>2
    <3>. QED
      BY <2>0, <2>1, <2>3, <3>1, <3>3
  <2>6. CASE b \notin open
    <3>1. Booked(written, b, u) = 0 /\ batch'[b] = batch[b]
      BY <1>9, <1>10, <2>0, <2>1, <2>6
    <3>2. CASE article[batch[b].article].product = p
      <4>1. ~batch[b].open
        BY <1>7, <2>0, <2>6, <3>2
      <4>2. batch[b].remaining = 0
        BY <2>0, <4>1 DEF CatalogueInv, ClosedAreEmpty
      <4>. QED
        BY <2>2, <2>3, <2>4, <3>1, <3>2, <4>2
    <3>3. CASE article[batch[b].article].product # p
      <4>1. UnitOf(b)' = UnitOf(b)
        BY <1>15, <2>0, <3>3
      <4>2. \A k \in DOMAIN written : written[k].batch = b => written[k].reason # "conversion"
        BY <1>10, <2>6
      <4>3. ~LateCorrection(b)
        BY <1>1, <1>10, <1>18, <4>1, <4>2, LateStays DEF CatalogueInv
      <4>4. Balance(b, u) = (IF u = UnitOf(b) THEN batch[b].remaining ELSE 0)
        BY <2>0, <4>3 DEF CatalogueInv, Accounted, Explained
      <4>. QED
        BY <2>2, <3>1, <4>1, <4>4
    <3>. QED
      BY <3>2, <3>3
  <2>. QED
    BY <2>5, <2>6
<1>19. \A k \in DOMAIN written : written[k].batch \in DOMAIN batch'
  BY <1>5, <1>9, <1>10
<1>20. DOMAIN batch \subseteq DOMAIN batch' /\ DOMAIN batch' \subseteq Nat
  BY <1>2, <1>9
<1>21. JournalNames' /\ PiecesFirst' /\ ClosedAreEmpty' /\ Accounted'
  BY <1>1, <1>10, <1>16, <1>17, <1>18, <1>19, <1>20, BooksKept
<1>. QED
  BY <1>12, <1>13, <1>14, <1>21 DEF CatalogueInv

\* The inductive invariant holds in every state.
LEMMA CatalogueInvariant ==
    ASSUME CatalogueAssumptions
    PROVE  CatalogueSpec => []CatalogueInv
<1>1. CatalogueInit => CatalogueInv
  <2>1. SUFFICES ASSUME CatalogueInit
                 PROVE  CatalogueInv
    OBVIOUS
  <2>2. /\ batch = <<>> /\ journal = <<>> /\ extras = {} /\ scan = Null
        /\ \A p \in ProductIds : product[p] = Null
        /\ \A a \in ArticleIds : article[a] = Null
        /\ \A c \in Codes : barcode[c] = Null
        /\ DOMAIN product = ProductIds /\ DOMAIN article = ArticleIds
    BY <2>1 DEF CatalogueInit
  <2>3. Rows(product) = {} /\ Rows(article) = {} /\ DOMAIN batch = {} /\ DOMAIN journal = {}
    BY <2>2 DEF Rows
  <2>4. CatalogueTypeOK
    BY <2>1 DEF CatalogueInit, CatalogueTypeOK
  <2>5. NothingDangles /\ PromisesKeepTheirUnit
    BY <2>2, <2>3 DEF NothingDangles, PromisesKeepTheirUnit
  <2>6. JournalNames /\ PiecesFirst /\ ClosedAreEmpty /\ Accounted
    BY <2>3 DEF JournalNames, PiecesFirst, ClosedAreEmpty, Accounted
  <2>. QED
    BY <2>4, <2>5, <2>6 DEF CatalogueInv
<1>2. CatalogueInv /\ [CatalogueNext]_catalogueVars => CatalogueInv'
  <2>1. SUFFICES ASSUME CatalogueInv, [CatalogueNext]_catalogueVars
                 PROVE  CatalogueInv'
    OBVIOUS
  <2>2. CASE UNCHANGED catalogueVars
    <3>1. CatalogueTypeOK' /\ PromisesKeepTheirUnit'
      BY <2>1, <2>2 DEF CatalogueInv, catalogueVars, CatalogueTypeOK, PromisesKeepTheirUnit, Pending
    <3>. QED
      BY <2>1, <2>2, <3>1, MarkKeeps DEF catalogueVars
  <2>3. CASE \E n \in Names, u \in Units, c \in Codes \cup {Null} : CreateProduct(n, u, c)
    BY <2>1, <2>3, CreateProductKeeps
  <2>4. CASE \E n \in Nets : ArticleCreate(n)
    BY <2>1, <2>4, ArticleCreateKeeps
  <2>5. CASE \E c \in Codes, p \in ProductIds : Lookup(c, p)
    BY <2>1, <2>5, AsideKeeps
  <2>6. CASE \E p \in ProductIds, k \in {"alias", "product_packaging"} : Describe(p, k)
    BY <2>1, <2>6, AsideKeeps
  <2>7. CASE \/ \E p \in ProductIds, u \in {"none", "open", "past"} : SetUse(p, u)
             \/ \E p \in ProductIds, on \in BOOLEAN : SetProductActive(p, on)
             \/ \E a \in ArticleIds : ScanLine(a)
             \/ \E a \in ArticleIds, l \in {"none", "past"} : EndLine(a, l)
    BY <2>1, <2>7, MarksKeep
  <2>8. CASE \E a \in ArticleIds, q \in Amounts : AddStock(a, q)
    BY <2>1, <2>8, AddStockKeeps
  <2>9. CASE \E b \in 1..MaxBatches, q \in Amounts : Consume(b, q)
    BY <2>1, <2>9, ConsumeKeeps
  <2>10. CASE \E i \in 1..MaxMovements : CorrectMovement(i)
    BY <2>1, <2>10, CorrectMovementKeeps
  <2>11. CASE \E p \in ProductIds, k \in SUBSET (1..MaxBatches) : ConvertUnit(p, k)
    BY <2>1, <2>11, ConvertUnitKeeps
  <2>12. CASE \E p \in ProductIds : DeleteProduct(p)
    BY <2>1, <2>12, DeleteProductKeeps
  <2>13. CASE \E a \in ArticleIds : DeleteArticle(a)
    BY <2>1, <2>13, DeleteArticleKeeps
  <2>14. CASE \E a \in ArticleIds, on \in BOOLEAN : SetArticleActive(a, on)
    BY <2>1, <2>14, SetArticleActiveKeeps
  <2>. QED
    BY <2>1, <2>2, <2>3, <2>4, <2>5, <2>6, <2>7, <2>8, <2>9, <2>10, <2>11, <2>12, <2>13, <2>14
    DEF CatalogueNext
<1>. QED
  BY <1>1, <1>2, PTL DEF CatalogueSpec

(* No row names a product or an article that is gone, whatever was deleted *)
(* and created again under its id; a line to be put away keeps its unit;   *)
(* and the journal explains each open batch unit by unit, before and after *)
(* the conversion of its product, unless a row older than the conversion   *)
(* is corrected after it (delete_product, delete_article,                  *)
(* convert_product_unit).                                                  *)
THEOREM CatalogueIsSound ==
    ASSUME CatalogueAssumptions
    PROVE  CatalogueSpec => []CatalogueSound
<1>1. CatalogueInv => CatalogueSound
  BY DEF CatalogueInv, CatalogueSound, UnitsStayApart, Accounted
<1>. QED
  BY <1>1, CatalogueInvariant, PTL

\* What divides a price gives it back.
LEMMA WholeParts ==
    ASSUME NEW n \in Nat, NEW f \in Nat \ {0}, n % f = 0
    PROVE  f * (n \div f) = n
OBVIOUS

\* What is multiplied by a factor, at a price divided by it, is worth the
\* same.
LEMMA SameWorth ==
    ASSUME NEW r \in Nat, NEW n \in Nat, NEW f \in Nat \ {0}, n % f = 0
    PROVE  (r * f) * (n \div f) = r * n
<1>1. PICK q : q = n \div f
  OBVIOUS
<1>2. q \in Nat /\ f * q = n
  BY <1>1, WholeParts
<1>3. (r * f) * q = r * (f * q)
  BY <1>2
<1>. QED
  BY <1>1, <1>2, <1>3

(* A conversion keeps what each batch is worth, kept batches included, for *)
(* every factor that divides the price of entry (conversion_execution.py). *)
THEOREM ConversionsKeepWorth ==
    ASSUME CatalogueAssumptions
    PROVE  CatalogueSpec => ConversionKeepsWorth
<1>1. CatalogueInv /\ [CatalogueNext]_catalogueVars
         => [ConversionKeepsWorthStep]_catalogueVars
  <2>1. SUFFICES ASSUME CatalogueInv, NEW p \in ProductIds, NEW kept \in SUBSET (1..MaxBatches),
                        ConvertUnit(p, kept), NEW b \in DOMAIN batch
                 PROVE  batch'[b].remaining * batch'[b].price = batch[b].remaining * batch[b].price
    BY DEF ConversionKeepsWorthStep, Worth
  <2>2. batch'[b] = IF b \in OpenBatches(p) THEN Restated(batch[b], b \in kept) ELSE batch[b]
    BY <2>1 DEF ConvertUnit
  <2>3. CASE b \in OpenBatches(p) /\ b \notin kept
    <3>1. PICK row : row = batch[b]
      OBVIOUS
    <3>2. row \in Batch /\ row.article \in Rows(article)
      BY <2>1, <3>1, CatalogueAtHand DEF CatalogueInv
    <3>3. PICK f : f = Factor(row.article)
      OBVIOUS
    <3>4. f \in Nat \ {0} /\ Price % f = 0 /\ Price \in Nat
      BY <2>1, <3>2, <3>3, RestatedRow
    <3>5. UnitOf(b) = "piece"
      BY <2>1, <2>3 DEF ConvertUnit, Planned, OpenBatches, ArticlesOf, UnitOf
    <3>6. row.price = Price
      BY <2>1, <3>1, <3>5 DEF CatalogueInv, PiecesFirst
    <3>7. batch'[b].remaining = row.remaining * f /\ batch'[b].price = row.price \div f
      BY <2>2, <2>3, <3>1, <3>2, <3>3 DEF Restated, Batch
    <3>8. row.remaining \in Nat
      BY <3>2 DEF Batch
    <3>9. (row.remaining * f) * (Price \div f) = row.remaining * Price
      BY <3>4, <3>8, SameWorth
    <3>. QED
      BY <3>1, <3>6, <3>7, <3>9
  <2>4. CASE ~(b \in OpenBatches(p) /\ b \notin kept)
    BY <2>2, <2>4 DEF Restated
  <2>. QED
    BY <2>3, <2>4
<1>. QED
  BY <1>1, CatalogueInvariant, PTL DEF CatalogueSpec, ConversionKeepsWorth

=============================================================================

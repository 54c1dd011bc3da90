-------------------------- MODULE DatabaseLifecycle --------------------------
(***************************************************************************)
(* The life of a database: start of the server with its migrations, backup *)
(* and restore, crashes and cancelled requests, around the operations of   *)
(* WarehouseStore.                                                         *)
(*                                                                         *)
(* InitializeAsync is a row of statements, each a transaction of its own,  *)
(* run before the server accepts requests and, by the SQLite repository,   *)
(* again after it has copied a backup over the database file.  PostgreSQL  *)
(* restores a JSON backup in one transaction instead.  Restores hold the   *)
(* write lock, so no writing operation runs beside one.                    *)
(***************************************************************************)
EXTENDS WarehouseStore

CONSTANTS
  Providers,       \* values of the setting DatabaseProvider
  Interruptions,   \* subset of PossibleInterruptions
  MaxBackups,      \* bound: backups the operators keep
  MaxRestores,     \* bound: restores in a behaviour
  MaxCrashes       \* bound: crashes in a behaviour

PossibleInterruptions == {"crash", "restore cancelled"}

ASSUME ProvidersAssumption == Providers \subseteq {"Sqlite", "Postgres"}
ASSUME InterruptionsAssumption == Interruptions \subseteq PossibleInterruptions
ASSUME LifecycleBoundsAssumption ==
  MaxBackups \in Nat /\ MaxRestores \in Nat /\ MaxCrashes \in Nat
\* An older file has at least one pallet.
ASSUME OlderFilesAssumption == MaxPallet >= 1

VARIABLES
  provider,    \* the configured repository
  schema,      \* what the database has of SchemaParts
  phase,       \* the server process
  task,        \* the statement of InitializeAsync that comes next
  restore,     \* how far RestoreDatabaseAsync of SQLite is
  upload,      \* the file it restores, or NoFile
  backups,     \* files the operators keep
  restores, crashes,
  halfway      \* history: a cancelled restore left its migrations undone, and since
               \* then nothing was written ("left") or something ("used"); a backup
               \* may carry the harm of the latter on

tables == <<status, total, items, entries, audit>>
lifeVars == <<provider, phase, task, restore, upload, backups, restores, crashes>>
allVars == <<tables, schema, lifeVars, halfway>>

\* Tables and columns that older files lack: ScanEntries, PalletItems,
\* ScanEntries.ConfirmedMoved (and ConfirmedAt), ScanEntries.ConfirmedQuantity.
SchemaParts == {"entries", "items", "moved", "quantity"}
Complete == schema = SchemaParts

File == [schema  : SUBSET SchemaParts,
         status  : [PalletNumbers -> {"absent", "open", "closed"}],
         total   : [PalletNumbers -> Nat],
         items   : [PalletNumbers -> [Variants -> Nat]],
         entries : Seq(Entry),
         audit   : AuditRow]

NoFile == [schema |-> {"none"}]
\* Mutant of CurrentFile: a table is left out of the backup.
FileWithoutAudit == [schema |-> schema, status |-> status, total |-> total,
                     items |-> items, entries |-> entries]

CurrentFile == [schema |-> schema, status |-> status, total |-> total,
                items |-> items, entries |-> entries, audit |-> audit]

\* Files of older versions: one variant per pallet, in the pallet's own row; a
\* confirmation is a flag of the whole entry, or not known at all.
OlderSchemas == {s \in SUBSET (SchemaParts \ {"quantity"}) : "entries" \in s}
OlderEntries(v, q, parts) ==
  {<<[variant |-> v, qty |-> q, pallet |-> 1, created |-> TRUE, confirmed |-> 0, moved |-> m]>> :
     m \in IF "moved" \in parts THEN BOOLEAN ELSE {FALSE}}
OlderFiles ==
  UNION {{[schema  |-> parts,
           status  |-> [n \in PalletNumbers |-> IF n = 1 THEN "open" ELSE "absent"],
           total   |-> [n \in PalletNumbers |-> IF n = 1 THEN q ELSE 0],
           items   |-> [n \in PalletNumbers |->
                          [w \in Variants |-> IF "items" \in parts /\ n = 1 /\ w = v THEN q ELSE 0]],
           entries |-> es,
           audit   |-> [action |-> "NONE", pallet |-> NoPallet, qty |-> 0]] :
            es \in OlderEntries(v, q, parts)} :
          v \in Variants, q \in Quantities, parts \in OlderSchemas}

IsDatabase(f) ==
  /\ status = f.status /\ total = f.total /\ items = f.items
  /\ entries = f.entries /\ audit = f.audit /\ schema = f.schema

LifeInit ==
  /\ \/ Init /\ schema = {}
     \/ \E f \in OlderFiles : IsDatabase(f)
  /\ provider \in Providers
  /\ phase = "down" /\ task = "create" /\ restore = "idle" /\ upload = NoFile
  /\ backups = {} /\ restores = 0 /\ crashes = 0 /\ halfway = "no"

LifeTypeOK ==
  /\ TypeOK
  /\ provider \in Providers /\ schema \subseteq SchemaParts
  /\ phase \in {"down", "starting", "serving"}
  /\ task \in {"create", "moved", "quantity", "confirmed", "items", "done"}
  /\ restore \in {"idle", "copy", "initialise"}
  /\ upload \in File \union {NoFile}
  /\ backups \subseteq File
  /\ restores \in Nat /\ crashes \in Nat /\ halfway \in {"no", "left", "used"}

May(interruption) == interruption \in Interruptions

-----------------------------------------------------------------------------
(* InitializeAsync.                                                        *)

Initialising == phase = "starting" \/ restore = "initialise"

Statement(t, next) ==
  /\ Initialising /\ task = t
  /\ task' = next
  /\ UNCHANGED <<provider, phase, restore, upload, backups, restores, crashes, halfway>>

\* CREATE TABLE IF NOT EXISTS: a new ScanEntries has all its columns.
CreateTables ==
  /\ Statement("create", "moved")
  /\ schema' = schema \union {"items"}
                 \union IF "entries" \in schema THEN {} ELSE {"entries", "moved", "quantity"}
  /\ UNCHANGED tables

\* New columns hold their defaults, which is what older entries show already.
AddMoved ==
  /\ Statement("moved", "quantity")
  /\ schema' = schema \union {"moved"}
  /\ UNCHANGED tables

AddQuantity ==
  /\ Statement("quantity", "confirmed")
  /\ schema' = schema \union {"quantity"}
  /\ UNCHANGED tables

\* Mutants of Backfilled: without WHERE ConfirmedQuantity = 0; without the CASE.
BackfilledAlways(e) == [e EXCEPT !.confirmed = IF e.moved THEN e.qty ELSE 0]
BackfilledWhole(e) == IF e.confirmed = 0 THEN [e EXCEPT !.confirmed = e.qty] ELSE e

Backfilled(e) ==
  IF e.confirmed = 0 THEN [e EXCEPT !.confirmed = IF e.moved THEN e.qty ELSE 0] ELSE e

MigrateConfirmedQuantity ==
  /\ Statement("confirmed", "items")
  /\ entries' = [i \in 1..Len(entries) |-> Backfilled(entries[i])]
  /\ UNCHANGED <<status, total, items, audit, schema>>

\* Pallets.ProductNumber and ExpiryDate: the variant the pallet was made for,
\* which is that of its oldest entry.
RowVariant(n) ==
  entries[CHOOSE i \in EntriesOf(n) : \A j \in EntriesOf(n) : i <= j].variant

\* Mutant of HasItemRows: counts the rows of the wrong table.
HasEntryRows == entries # <<>>

HasItemRows == \E n \in PalletNumbers : VariantsOn(n) # {}

MigratePalletRows ==
  /\ Statement("items", "done")
  /\ items' = IF HasItemRows THEN items
              ELSE [n \in PalletNumbers |->
                      IF n \in Live THEN [EmptyItems EXCEPT ![RowVariant(n)] = total[n]]
                                    ELSE EmptyItems]
  /\ UNCHANGED <<status, total, entries, audit, schema>>

Initialise ==
  CreateTables \/ AddMoved \/ AddQuantity \/ MigrateConfirmedQuantity \/ MigratePalletRows

-----------------------------------------------------------------------------
(* The server process.                                                     *)

\* Mutant of Start: an older file is refused.
StartUpToDate ==
  /\ phase = "down" /\ (Complete \/ schema = {})
  /\ phase' = "starting" /\ task' = "create"
  /\ UNCHANGED <<tables, schema, provider, restore, upload, backups, restores, crashes, halfway>>

Start ==
  /\ phase = "down"
  /\ phase' = "starting" /\ task' = "create"
  /\ UNCHANGED <<tables, schema, provider, restore, upload, backups, restores, crashes, halfway>>

AcceptRequests ==
  /\ phase = "starting" /\ task = "done"
  /\ phase' = "serving"
  /\ halfway' = IF halfway = "left" THEN "no" ELSE halfway
  /\ UNCHANGED <<tables, schema, provider, task, restore, upload, backups, restores, crashes>>

\* File.Copy is taken to happen or not to happen.
Crash ==
  /\ May("crash") /\ phase # "down" /\ crashes < MaxCrashes
  /\ crashes' = crashes + 1
  /\ phase' = "down" /\ task' = "create" /\ restore' = "idle" /\ upload' = NoFile
  /\ UNCHANGED <<tables, schema, provider, backups, restores, halfway>>

-----------------------------------------------------------------------------
(* Requests.                                                               *)

LockFree == phase = "serving" /\ restore = "idle"

\* A statement that names a missing table or column fails, and the operation
\* with it.
Operate ==
  /\ LockFree
  /\ \/ Complete /\ (Register \/ UndoLast \/ \E n \in PalletNumbers : ConfirmLatestUnconfirmed(n))
     \/ "items" \in schema /\ (ClearAllData \/ \E n \in Live : ClosePallet(n))
  /\ halfway' = IF halfway = "left" THEN "used" ELSE halfway
  /\ UNCHANGED <<schema, lifeVars>>

\* The snapshot, of whatever the file holds, is taken before the audit row is
\* written; without the tables for that row the request fails and hands out no file.
BackupDatabase ==
  /\ LockFree /\ "items" \in schema
  /\ Cardinality(backups) < MaxBackups
  /\ backups' = backups \union {CurrentFile}
  /\ Audit("BACKUP_DATABASE", NoPallet, 0)
  /\ UNCHANGED <<status, total, items, entries, schema, provider, phase, task, restore, upload,
                 restores, crashes, halfway>>

BecomesDatabase(f) ==
  /\ status' = f.status /\ total' = f.total /\ items' = f.items
  /\ entries' = f.entries /\ schema' = f.schema

\* Mutant of RestoreInOneTransaction: PalletItems is not restored.
RestoreKeepingItems(f) ==
  /\ provider = "Postgres"
  /\ LockFree /\ restores < MaxRestores
  /\ restores' = restores + 1
  /\ status' = f.status /\ total' = f.total /\ entries' = f.entries /\ schema' = f.schema
  /\ Audit("RESTORE_DATABASE", NoPallet, 0)
  /\ UNCHANGED <<items, provider, phase, task, restore, upload, backups, crashes, halfway>>

\* PostgresWarehouseRepository.RestoreDatabaseAsync: TRUNCATE, INSERTs, audit row
\* and COMMIT; a failure or a crash before the COMMIT undoes them all.
RestoreInOneTransaction(f) ==
  /\ provider = "Postgres"
  /\ LockFree /\ restores < MaxRestores
  /\ restores' = restores + 1
  /\ BecomesDatabase(f)
  /\ Audit("RESTORE_DATABASE", NoPallet, 0)
  /\ UNCHANGED <<provider, phase, task, restore, upload, backups, crashes, halfway>>

\* SqliteWarehouseRepository.RestoreDatabaseAsync, up to the quick_check of the
\* uploaded file; a file that fails it changes nothing.
ReceiveUpload(f) ==
  /\ provider = "Sqlite"
  /\ LockFree /\ restores < MaxRestores
  /\ restores' = restores + 1
  /\ restore' = "copy" /\ upload' = f
  /\ UNCHANGED <<tables, schema, provider, phase, task, backups, crashes, halfway>>

CopyUpload ==
  /\ restore = "copy"
  /\ BecomesDatabase(upload) /\ audit' = upload.audit
  /\ restore' = "initialise" /\ task' = "create" /\ upload' = NoFile
  /\ halfway' = IF halfway = "used" /\ backups # {} THEN "used" ELSE "no"
  /\ UNCHANGED <<provider, phase, backups, restores, crashes>>

AuditRestore ==
  /\ restore = "initialise" /\ task = "done"
  /\ Audit("RESTORE_DATABASE", NoPallet, 0)
  /\ restore' = "idle"
  /\ UNCHANGED <<status, total, items, entries, schema, provider, phase, task, upload, backups,
                 restores, crashes, halfway>>

\* The client goes: the next statement of InitializeAsync, or the audit row, is
\* not executed, and the finally block releases the lock.
CancelRestore ==
  /\ May("restore cancelled")
  /\ restore = "initialise"
  /\ restore' = "idle"
  /\ halfway' = IF task = "done" \/ halfway = "used" THEN halfway ELSE "left"
  /\ UNCHANGED <<tables, schema, provider, phase, task, upload, backups, restores, crashes>>

-----------------------------------------------------------------------------
Serve == Start \/ Initialise \/ AcceptRequests \/ CopyUpload \/ AuditRestore

LifeNext ==
  \/ Serve
  \/ Operate \/ BackupDatabase
  \/ \E f \in backups : RestoreInOneTransaction(f)
  \/ \E f \in backups \union OlderFiles : ReceiveUpload(f)
  \/ Crash \/ CancelRestore

\* A server that is down is started again, and work begun is carried on.
LifeSpec == LifeInit /\ [][LifeNext]_allVars /\ WF_allVars(Serve)

-----------------------------------------------------------------------------
(* Properties.                                                             *)

Sound ==
  /\ Conservation /\ NoOrphanRows /\ NoMixedExpiry /\ VariantCap
  /\ CreatorIsOldest /\ ConfirmedWithinQuantity

\* Totals and shells are those of the entries, with or without item rows for them.
TotalsBooked ==
  /\ CreatorIsOldest
  /\ \A n \in PalletNumbers :
       total[n] = SumFunctionOnSet([i \in 1..Len(entries) |-> entries[i].qty], EntriesOf(n))

\* Whenever writing operations can run, every total and every pallet row is accounted
\* for by the entries, whatever version of the file was started from or restored,
\* wherever the server crashed and whichever restore was cancelled.  The tables are
\* sound as a whole except from a restore cancelled before its last migration to
\* the next start, and for good if the server wrote meanwhile: it does serve then.
SoundWhenServing ==
  LockFree => TotalsBooked /\ (halfway = "no" => Complete /\ Sound)

\* "Additive migrations allow older local DB files to be reused safely": a start
\* of the server ends with sound tables.
OlderFilesReusedSafely ==
  [][phase = "starting" /\ phase' = "serving" => Sound]_allVars

\* Initialising a database that is up to date changes nothing in it, however
\* often the server is restarted: no colli is confirmed or booked by a migration.
UpToDateTablesKept ==
  [][Initialising /\ Complete /\ Sound /\ ~(restore = "initialise" /\ task = "done")
       => UNCHANGED tables]_allVars

\* Colli an entry says were confirmed, in the model of either version.
ConfirmedColli(e) == IF e.confirmed = 0 /\ e.moved THEN e.qty ELSE e.confirmed

\* After the last crash the server serves again.
ServesAgain == phase = "down" ~> phase = "serving"
=============================================================================

----------------------- MODULE DatabaseLifecycleProofs -----------------------
(***************************************************************************)
(* What start, restore, crash and cancelled restore keep for any number of *)
(* pallets, entries, backups and interruptions: the types, what the tables  *)
(* are worth whenever they serve, and that over its whole life the database *)
(* is one ledger that can be backed up and put back.                        *)
(***************************************************************************)
EXTENDS DatabaseLifecycleRefinement, WarehouseStoreProofs

\* The server initialises either at its start or inside a restore, never both.
LifeInv ==
  /\ LifeTypeOK
  /\ restore # "idle" => phase = "serving"
  /\ restore = "copy" => upload \in File

-----------------------------------------------------------------------------
(* Files.                                                                   *)

LEMMA OlderFilesAreFiles == OlderFiles \subseteq File
<1> SUFFICES ASSUME NEW f \in OlderFiles PROVE f \in File
  OBVIOUS
<1>1. PICK v \in Variants, q \in Quantities, parts \in OlderSchemas :
        \E es \in OlderEntries(v, q, parts) :
          f = [schema  |-> parts,
               status  |-> [n \in PalletNumbers |-> IF n = 1 THEN "open" ELSE "absent"],
               total   |-> [n \in PalletNumbers |-> IF n = 1 THEN q ELSE 0],
               items   |-> [n \in PalletNumbers |->
                              [w \in Variants |-> IF "items" \in parts /\ n = 1 /\ w = v THEN q ELSE 0]],
               entries |-> es,
               audit   |-> [action |-> "NONE", pallet |-> NoPallet, qty |-> 0]]
  BY DEF OlderFiles
<1>2. PICK es \in OlderEntries(v, q, parts) :
          f = [schema  |-> parts,
               status  |-> [n \in PalletNumbers |-> IF n = 1 THEN "open" ELSE "absent"],
               total   |-> [n \in PalletNumbers |-> IF n = 1 THEN q ELSE 0],
               items   |-> [n \in PalletNumbers |->
                              [w \in Variants |-> IF "items" \in parts /\ n = 1 /\ w = v THEN q ELSE 0]],
               entries |-> es,
               audit   |-> [action |-> "NONE", pallet |-> NoPallet, qty |-> 0]]
  BY <1>1
<1>3. q \in Nat /\ parts \subseteq SchemaParts
  BY QuantitiesAssumption DEF OlderSchemas
<1>4. es \in Seq(Entry)
  <2>1. PICK m \in BOOLEAN :
          es = <<[variant |-> v, qty |-> q, pallet |-> 1, created |-> TRUE, confirmed |-> 0, moved |-> m]>>
    BY DEF OlderEntries
  <2>2. 1 \in PalletNumbers
    BY OlderFilesAssumption, BoundsAssumption DEF PalletNumbers
  <2>3. [variant |-> v, qty |-> q, pallet |-> 1, created |-> TRUE, confirmed |-> 0, moved |-> m] \in Entry
    BY <2>2 DEF Entry
  <2> QED
    BY <2>1, <2>3
<1>5. /\ [n \in PalletNumbers |-> IF n = 1 THEN "open" ELSE "absent"]
           \in [PalletNumbers -> {"absent", "open", "closed"}]
      /\ [n \in PalletNumbers |-> IF n = 1 THEN q ELSE 0] \in [PalletNumbers -> Nat]
      /\ [n \in PalletNumbers |->
            [w \in Variants |-> IF "items" \in parts /\ n = 1 /\ w = v THEN q ELSE 0]]
           \in [PalletNumbers -> [Variants -> Nat]]
      /\ [action |-> "NONE", pallet |-> NoPallet, qty |-> 0] \in AuditRow
  BY <1>3 DEF AuditRow, AuditActions
<1> QED
  BY <1>2, <1>3, <1>4, <1>5 DEF File

LEMMA FilesAreTables ==
  ASSUME NEW f \in File
  PROVE  /\ f.schema \subseteq SchemaParts
         /\ f.status \in [PalletNumbers -> {"absent", "open", "closed"}]
         /\ f.total \in [PalletNumbers -> Nat]
         /\ f.items \in [PalletNumbers -> [Variants -> Nat]]
         /\ f.entries \in Seq(Entry)
         /\ f.audit \in AuditRow
BY DEF File

-----------------------------------------------------------------------------
(* The migrations.                                                          *)

LEMMA BackfilledEntry ==
  ASSUME NEW e \in Entry
  PROVE  Backfilled(e) \in Entry /\ ConfirmedColli(Backfilled(e)) = ConfirmedColli(e)
<1>1. e.qty \in Nat \ {0} /\ e.confirmed \in Nat /\ e.moved \in BOOLEAN
  BY QuantitiesAssumption DEF Entry
<1> DEFINE c == IF e.moved THEN e.qty ELSE 0
<1>2. CASE e.confirmed = 0
  <2>1. Backfilled(e) = [e EXCEPT !.confirmed = c]
    BY <1>2 DEF Backfilled
  <2>2. c \in Nat
    BY <1>1
  <2> HIDE DEF c
  <2>3. [e EXCEPT !.confirmed = c] \in Entry
    BY <2>2 DEF Entry
  <2>4. /\ [e EXCEPT !.confirmed = c].confirmed = c
        /\ [e EXCEPT !.confirmed = c].moved = e.moved /\ [e EXCEPT !.confirmed = c].qty = e.qty
    BY DEF Entry
  <2>5. ConfirmedColli([e EXCEPT !.confirmed = c]) = IF c = 0 /\ e.moved THEN e.qty ELSE c
    BY <2>4 DEF ConfirmedColli
  <2>6. ConfirmedColli(e) = c
    BY <1>2 DEF ConfirmedColli, c
  <2>7. (IF c = 0 /\ e.moved THEN e.qty ELSE c) = c
    BY DEF c
  <2> QED
    BY <2>1, <2>3, <2>5, <2>6, <2>7
<1>3. CASE e.confirmed # 0
  BY <1>3 DEF Backfilled
<1> QED
  BY <1>2, <1>3

LEMMA BackfilledEntries ==
  ASSUME TypeOK, MigrateConfirmedQuantity
  PROVE  /\ entries' \in Seq(Entry) /\ Len(entries') = Len(entries)
         /\ \A i \in 1..Len(entries) : entries'[i] = Backfilled(entries[i]) /\ entries[i] \in Entry
<1>1. Len(entries) \in Nat /\ \A i \in 1..Len(entries) : entries[i] \in Entry
  BY DEF TypeOK
<1>2. entries' = [i \in 1..Len(entries) |-> Backfilled(entries[i])]
  BY DEF MigrateConfirmedQuantity
<1>3. \A i \in 1..Len(entries) : Backfilled(entries[i]) \in Entry
  BY <1>1, BackfilledEntry
<1> QED
  BY <1>1, <1>2, <1>3

LEMMA InitialiseTypes ==
  ASSUME LifeInv, Initialise
  PROVE  LifeInv'
<1>1. /\ task' \in {"create", "moved", "quantity", "confirmed", "items", "done"}
      /\ UNCHANGED <<provider, phase, restore, upload, backups, restores, crashes, halfway>>
  BY DEF Initialise, CreateTables, AddMoved, AddQuantity, MigrateConfirmedQuantity, MigratePalletRows,
         Statement
<1>2. schema' \subseteq SchemaParts
  BY DEF Initialise, CreateTables, AddMoved, AddQuantity, MigrateConfirmedQuantity, MigratePalletRows,
         LifeInv, LifeTypeOK, SchemaParts
<1>3. TypeOK'
  <2>1. CASE CreateTables \/ AddMoved \/ AddQuantity
    BY <2>1 DEF CreateTables, AddMoved, AddQuantity, tables, TypeOK, LifeInv, LifeTypeOK
  <2>2. CASE MigrateConfirmedQuantity
    BY <2>2, BackfilledEntries DEF MigrateConfirmedQuantity, TypeOK, LifeInv, LifeTypeOK
  <2>3. CASE MigratePalletRows
    <3>1. ASSUME NEW n \in PalletNumbers
          PROVE  [EmptyItems EXCEPT ![RowVariant(n)] = total[n]] \in [Variants -> Nat]
      BY <3>1 DEF EmptyItems, TypeOK, LifeInv, LifeTypeOK
    <3>2. EmptyItems \in [Variants -> Nat]
      BY DEF EmptyItems
    <3>3. items' \in [PalletNumbers -> [Variants -> Nat]]
      <4>1. CASE HasItemRows
        BY <2>3, <4>1 DEF MigratePalletRows, TypeOK, LifeInv, LifeTypeOK
      <4>2. CASE ~HasItemRows
        <5>1. items' = [n \in PalletNumbers |->
                          IF n \in Live THEN [EmptyItems EXCEPT ![RowVariant(n)] = total[n]]
                                        ELSE EmptyItems]
          BY <2>3, <4>2 DEF MigratePalletRows
        <5> QED
          BY <3>1, <3>2, <5>1
      <4> QED
        BY <4>1, <4>2
    <3> QED
      BY <2>3, <3>3 DEF MigratePalletRows, TypeOK, LifeInv, LifeTypeOK
  <2> QED
    BY <2>1, <2>2, <2>3 DEF Initialise
<1> QED
  BY <1>1, <1>2, <1>3 DEF LifeInv, LifeTypeOK

-----------------------------------------------------------------------------
(* The invariant.                                                           *)

LEMMA InitLifeInv == LifeInit => LifeInv
<1> SUFFICES ASSUME LifeInit PROVE LifeInv
  OBVIOUS
<1>1. TypeOK /\ schema \subseteq SchemaParts
  <2>1. CASE Init /\ schema = {}
    BY <2>1, InitTypeOK
  <2>2. ASSUME NEW f \in OlderFiles, IsDatabase(f)
        PROVE  TypeOK /\ schema \subseteq SchemaParts
    <3>1. f \in File
      BY OlderFilesAreFiles
    <3> QED
      BY <2>2, <3>1, FilesAreTables DEF IsDatabase, TypeOK
  <2> QED
    BY <2>1, <2>2 DEF LifeInit
<1> QED
  BY <1>1 DEF LifeInit, LifeInv, LifeTypeOK

LEMMA FileBecomesTables ==
  ASSUME NEW f \in File, BecomesDatabase(f), audit' \in AuditRow
  PROVE  TypeOK' /\ schema' \subseteq SchemaParts
BY FilesAreTables DEF BecomesDatabase, TypeOK

LEMMA OperateIsNext ==
  ASSUME Operate
  PROVE  Next
BY DEF Operate, Next, Live

LEMMA NextLifeInv == LifeInv /\ [LifeNext]_allVars => LifeInv'
<1> SUFFICES ASSUME LifeInv, [LifeNext]_allVars PROVE LifeInv'
  OBVIOUS
<1>1. ASSUME UNCHANGED tables
      PROVE  TypeOK'
  BY <1>1 DEF tables, TypeOK, LifeInv, LifeTypeOK
<1>2. CASE Start \/ AcceptRequests \/ Crash \/ CancelRestore
  <2>1. TypeOK'
    BY <1>1, <1>2 DEF Start, AcceptRequests, Crash, CancelRestore
  <2>2. CASE Start \/ AcceptRequests
    BY <2>1, <2>2 DEF Start, AcceptRequests, LifeInv, LifeTypeOK
  <2>3. CASE Crash
    BY <2>1, <2>3 DEF Crash, LifeInv, LifeTypeOK
  <2>4. CASE CancelRestore
    BY <2>1, <2>4 DEF CancelRestore, LifeInv, LifeTypeOK
  <2> QED
    BY <1>2, <2>2, <2>3, <2>4
<1>3. CASE Initialise
  BY <1>3, InitialiseTypes
<1>4. CASE CopyUpload
  <2>1. upload \in File
    BY <1>4 DEF CopyUpload, LifeInv
  <2>2. TypeOK' /\ schema' \subseteq SchemaParts
    BY <1>4, <2>1, FileBecomesTables, FilesAreTables DEF CopyUpload
  <2> QED
    BY <1>4, <2>2 DEF CopyUpload, LifeInv, LifeTypeOK
<1>5. CASE AuditRestore
  <2>1. audit' \in AuditRow
    BY <1>5 DEF AuditRestore, Audit, AuditRow, AuditActions
  <2>2. TypeOK'
    BY <1>5, <2>1 DEF AuditRestore, TypeOK, LifeInv, LifeTypeOK
  <2> QED
    BY <1>5, <2>2 DEF AuditRestore, LifeInv, LifeTypeOK
<1>6. CASE Operate
  <2>1. TypeOK'
    BY <1>6, OperateIsNext, NextTypeOK DEF LifeInv, LifeTypeOK
  <2>2. halfway' \in {"no", "left", "used"}
    BY <1>6 DEF Operate, LifeInv, LifeTypeOK
  <2>3. UNCHANGED <<schema, provider, phase, task, restore, upload, backups, restores, crashes>>
    BY <1>6 DEF Operate, lifeVars
  <2> QED
    BY <2>1, <2>2, <2>3 DEF LifeInv, LifeTypeOK
<1>7. CASE BackupDatabase
  <2>1. audit' \in AuditRow
    BY <1>7 DEF BackupDatabase, Audit, AuditRow, AuditActions
  <2>2. TypeOK'
    BY <1>7, <2>1 DEF BackupDatabase, TypeOK, LifeInv, LifeTypeOK
  <2>3. CurrentFile \in File
    BY DEF CurrentFile, File, LifeInv, LifeTypeOK, TypeOK
  <2>4. backups' \subseteq File
    BY <1>7, <2>3 DEF BackupDatabase, LifeInv, LifeTypeOK
  <2> QED
    BY <1>7, <2>2, <2>4 DEF BackupDatabase, LifeInv, LifeTypeOK
<1>8. ASSUME NEW f \in backups, RestoreInOneTransaction(f)
      PROVE  LifeInv'
  <2>1. f \in File
    BY DEF LifeInv, LifeTypeOK
  <2>2. audit' \in AuditRow
    BY <1>8 DEF RestoreInOneTransaction, Audit, AuditRow, AuditActions
  <2>3. TypeOK' /\ schema' \subseteq SchemaParts
    BY <1>8, <2>1, <2>2, FileBecomesTables DEF RestoreInOneTransaction
  <2> QED
    BY <1>8, <2>3 DEF RestoreInOneTransaction, LifeInv, LifeTypeOK
<1>9. ASSUME NEW f \in backups \union OlderFiles, ReceiveUpload(f)
      PROVE  LifeInv'
  <2>1. f \in File
    BY OlderFilesAreFiles DEF LifeInv, LifeTypeOK
  <2>2. TypeOK'
    BY <1>1, <1>9 DEF ReceiveUpload
  <2> QED
    BY <1>9, <2>1, <2>2 DEF ReceiveUpload, LockFree, LifeInv, LifeTypeOK
<1>10. CASE UNCHANGED allVars
  <2>1. TypeOK'
    BY <1>1, <1>10 DEF allVars
  <2> QED
    BY <1>10, <2>1 DEF allVars, lifeVars, LifeInv, LifeTypeOK
<1> QED
  BY <1>2, <1>3, <1>4, <1>5, <1>6, <1>7, <1>8, <1>9, <1>10 DEF LifeNext, Serve

LEMMA LifeInvCorrect == LifeSpec => []LifeInv
BY InitLifeInv, NextLifeInv, PTL DEF LifeSpec

-----------------------------------------------------------------------------
(* Sound tables.  What the store keeps (WarehouseStoreProofs) has to be said *)
(* of files as well, since a restore makes tables of one: SoundFile says of a *)
(* file what StoreInv says of the tables.                                    *)

StoreInv == ConservationInv /\ ConfirmedWithinQuantity

RowsIn(f, n) == {v \in Variants : f.items[n][v] > 0}
EntriesIn(f, n) == {i \in 1..Len(f.entries) : f.entries[i].pallet = n}

StockIn(f) ==
  /\ \A n \in PalletNumbers : f.status[n] = "absent" => f.total[n] = 0 /\ RowsIn(f, n) = {}
  /\ \A n \in PalletNumbers : \A v, w \in RowsIn(f, n) : ProductOf(v) = ProductOf(w) => v = w
  /\ \A n \in PalletNumbers : Cardinality(RowsIn(f, n)) <= MaxVariants
  /\ \A m, n \in PalletNumbers :
       f.status[m] = "open" /\ f.status[n] = "open" /\ m # n => RowsIn(f, m) \cap RowsIn(f, n) = {}

CreatorsIn(f) ==
  /\ \A i \in 1..Len(f.entries) :
       /\ f.status[f.entries[i].pallet] # "absent"
       /\ f.entries[i].created <=> \A j \in 1..(i - 1) : f.entries[j].pallet # f.entries[i].pallet
  /\ \A n \in {m \in PalletNumbers : f.status[m] # "absent"} : EntriesIn(f, n) # {}

FollowsIn(f, j, i) ==
  /\ i < j /\ f.entries[i].pallet = f.entries[j].pallet
  /\ \A k \in (i + 1)..(j - 1) : f.entries[k].pallet # f.entries[j].pallet

NewestIn(f, i) == \A k \in (i + 1)..Len(f.entries) : f.entries[k].pallet # f.entries[i].pallet

BalanceIn(f, before) ==
  /\ \A i \in 1..Len(f.entries) : f.entries[i].created => before[i] = 0
  /\ \A i, j \in 1..Len(f.entries) : FollowsIn(f, j, i) => before[j] = before[i] + f.entries[i].qty
  /\ \A i \in 1..Len(f.entries) :
       NewestIn(f, i) => f.total[f.entries[i].pallet] = before[i] + f.entries[i].qty

QuantitiesIn(f) == [i \in 1..Len(f.entries) |-> f.entries[i].qty]
BookingsIn(f, n, v) == {i \in EntriesIn(f, n) : f.entries[i].variant = v}

\* Totals and shells are those of the entries, with or without item rows for them.
TotalsIn(f) ==
  /\ CreatorsIn(f)
  /\ \A n \in PalletNumbers : f.total[n] = SumFunctionOnSet(QuantitiesIn(f), EntriesIn(f, n))

BookedIn(f) ==
  \A n \in PalletNumbers :
    /\ f.total[n] = SumFunctionOnSet(f.items[n], Variants)
    /\ \A v \in Variants : f.items[n][v] = SumFunctionOnSet(QuantitiesIn(f), BookingsIn(f, n, v))

ConfirmedIn(f) ==
  \A i \in 1..Len(f.entries) :
    /\ f.entries[i].confirmed <= f.entries[i].qty
    /\ f.entries[i].moved <=> f.entries[i].confirmed = f.entries[i].qty

SoundFile(f) ==
  /\ StockIn(f) /\ CreatorsIn(f) /\ BookedIn(f) /\ ConfirmedIn(f)
  /\ \E before \in [1..Len(f.entries) -> Nat] : BalanceIn(f, before)

\* A file of an older version: one pallet with one entry of q colli of v.  Between
\* the migrations its entry may be backfilled or not, its item row there or not.
NoRows == [n \in PalletNumbers |-> EmptyItems]
OneRow(v, q) == [n \in PalletNumbers |-> [w \in Variants |-> IF n = 1 /\ w = v THEN q ELSE 0]]

OldFileOf(f, v, q, m) ==
  /\ f.status = [n \in PalletNumbers |-> IF n = 1 THEN "open" ELSE "absent"]
  /\ f.total = [n \in PalletNumbers |-> IF n = 1 THEN q ELSE 0]
  /\ Len(f.entries) = 1
  /\ /\ f.entries[1].variant = v /\ f.entries[1].qty = q /\ f.entries[1].pallet = 1
     /\ f.entries[1].created /\ f.entries[1].moved = m
     /\ f.entries[1].confirmed = 0 \/ f.entries[1].confirmed = IF m THEN q ELSE 0
  /\ f.items = NoRows \/ f.items = OneRow(v, q)

OldFile(f) == \E v \in Variants, q \in Quantities, m \in BOOLEAN : OldFileOf(f, v, q, m)

\* Tables that the migrations leave sound.
Migratable(f) == SoundFile(f) \/ OldFile(f)

\* What the statements of InitializeAsync that have run have achieved.
Migrated ==
  /\ task # "create" => {"entries", "items"} \subseteq schema
  /\ task \notin {"create", "moved"} => "moved" \in schema
  /\ task \in {"confirmed", "items", "done"} => Complete
  /\ task \in {"items", "done"} => ConfirmedWithinQuantity
  /\ task = "done" => SoundFile(CurrentFile)

\* As long as nothing was written on top of half-done migrations, every backup and
\* the database itself are migratable, and a database that requests write to is
\* sound.  PostgreSQL has no restore to cancel: its backups are sound.
UploadKnown == restore = "copy" => upload \in backups \union OlderFiles

PostgresSafe ==
  provider = "Postgres" =>
    /\ halfway = "no" /\ restore = "idle"
    /\ \A f \in backups : f.schema = SchemaParts /\ SoundFile(f)

TablesSafe ==
  halfway # "used" =>
    /\ \A f \in backups : Migratable(f)
    /\ Migratable(CurrentFile)
    /\ Initialising => Migrated
    /\ phase = "serving" /\ restore # "initialise" /\ halfway = "no"
         => Complete /\ SoundFile(CurrentFile)

SafeInv == LifeInv /\ UploadKnown /\ PostgresSafe /\ TablesSafe

\* Totals and shells are right in every file there is, cancelled restores or not:
\* no statement of InitializeAsync writes what they depend on.
TotalsInv ==
  /\ TotalsIn(CurrentFile)
  /\ restore = "copy" => TotalsIn(upload)
  /\ \A f \in backups : TotalsIn(f)

-----------------------------------------------------------------------------
(* Files and tables.                                                        *)

\* What is said of a file depends on its four tables only.
LEMMA SameTables ==
  ASSUME NEW f, NEW g,
         f.status = g.status, f.total = g.total, f.items = g.items, f.entries = g.entries
  PROVE  (SoundFile(f) <=> SoundFile(g)) /\ (Migratable(f) <=> Migratable(g))
<1>1. \A n : RowsIn(f, n) = RowsIn(g, n) /\ EntriesIn(f, n) = EntriesIn(g, n)
  BY DEF RowsIn, EntriesIn
<1>2. \A n, v : BookingsIn(f, n, v) = BookingsIn(g, n, v)
  BY <1>1 DEF BookingsIn
<1>3. QuantitiesIn(f) = QuantitiesIn(g)
  BY DEF QuantitiesIn
<1>4. BookedIn(f) <=> BookedIn(g)
  BY <1>2, <1>3 DEF BookedIn
<1>5. (StockIn(f) <=> StockIn(g)) /\ (CreatorsIn(f) <=> CreatorsIn(g)) /\ (ConfirmedIn(f) <=> ConfirmedIn(g))
  BY <1>1 DEF StockIn, CreatorsIn, ConfirmedIn
<1>6. \A before : BalanceIn(f, before) <=> BalanceIn(g, before)
  BY DEF BalanceIn, FollowsIn, NewestIn
<1>7. OldFile(f) <=> OldFile(g)
  BY DEF OldFile, OldFileOf
<1> QED
  BY <1>4, <1>5, <1>6, <1>7 DEF SoundFile, Migratable

\* A sound database is one that has the invariant of the store.
LEMMA SoundTables == TypeOK => (SoundFile(CurrentFile) <=> StoreInv)
<1> SUFFICES ASSUME TypeOK PROVE SoundFile(CurrentFile) <=> StoreInv
  OBVIOUS
<1> DEFINE f == CurrentFile
<1>1. f.status = status /\ f.total = total /\ f.items = items /\ f.entries = entries
  BY DEF CurrentFile
<1> HIDE DEF f
<1>2. \A n : RowsIn(f, n) = VariantsOn(n) /\ EntriesIn(f, n) = EntriesOf(n)
  BY <1>1 DEF RowsIn, EntriesIn, VariantsOn, EntriesOf
<1>3. \A n, v : BookingsIn(f, n, v) = Bookings(n, v)
  BY <1>1, <1>2 DEF BookingsIn, Bookings
<1>4. QuantitiesIn(f) = EntryQty
  BY <1>1 DEF QuantitiesIn, EntryQty
<1>5. BookedIn(f) <=> Conservation
  BY <1>1, <1>3, <1>4, ConservationByParts DEF BookedIn, RowsAddUp, BookingsAddUp
<1>6. StockIn(f) <=> NoOrphanRows /\ NoMixedExpiry /\ VariantCap /\ OneOpenPalletPerVariant
  BY <1>1, <1>2 DEF StockIn, NoOrphanRows, NoMixedExpiry, VariantCap, OneOpenPalletPerVariant
<1>7. CreatorsIn(f) <=> CreatorIsOldest
  BY <1>1, <1>2 DEF CreatorsIn, CreatorIsOldest, Live
<1>8. ConfirmedIn(f) <=> ConfirmedWithinQuantity
  BY <1>1 DEF ConfirmedIn, ConfirmedWithinQuantity
<1>9. \A before : BalanceIn(f, before) <=> ChainedBy(before)
  BY <1>1 DEF BalanceIn, FollowsIn, NewestIn, ChainedBy, Follows, Newest
<1>10. (\E before \in [1..Len(f.entries) -> Nat] : BalanceIn(f, before)) <=> RunningBalance
  BY <1>1, <1>9 DEF RunningBalance
<1>11. SoundFile(f) <=> StoreInv
  BY <1>5, <1>6, <1>7, <1>8, <1>10 DEF SoundFile, StoreInv, ConservationInv, LedgerInv, StockInv
<1> QED
  BY <1>11 DEF f

LEMMA SoundTablesNext == TypeOK' => (SoundFile(CurrentFile)' <=> StoreInv')
BY SoundTables, PTL

LEMMA StoreInvIsSound == StoreInv => Sound
BY DEF StoreInv, ConservationInv, LedgerInv, StockInv, Sound

LEMMA OlderFilesAreOld ==
  ASSUME NEW f \in OlderFiles
  PROVE  OldFile(f)
<1>1. PICK v \in Variants, q \in Quantities, parts \in OlderSchemas :
        \E es \in OlderEntries(v, q, parts) :
          f = [schema  |-> parts,
               status  |-> [n \in PalletNumbers |-> IF n = 1 THEN "open" ELSE "absent"],
               total   |-> [n \in PalletNumbers |-> IF n = 1 THEN q ELSE 0],
               items   |-> [n \in PalletNumbers |->
                              [w \in Variants |-> IF "items" \in parts /\ n = 1 /\ w = v THEN q ELSE 0]],
               entries |-> es,
               audit   |-> [action |-> "NONE", pallet |-> NoPallet, qty |-> 0]]
  BY DEF OlderFiles
<1>2. PICK es \in OlderEntries(v, q, parts) :
        /\ f.entries = es
        /\ f.status = [n \in PalletNumbers |-> IF n = 1 THEN "open" ELSE "absent"]
        /\ f.total = [n \in PalletNumbers |-> IF n = 1 THEN q ELSE 0]
        /\ f.items = [n \in PalletNumbers |->
                        [w \in Variants |-> IF "items" \in parts /\ n = 1 /\ w = v THEN q ELSE 0]]
  BY <1>1
<1>5. PICK m \in BOOLEAN :
        es = <<[variant |-> v, qty |-> q, pallet |-> 1, created |-> TRUE, confirmed |-> 0, moved |-> m]>>
  BY DEF OlderEntries
<1>3. f.items = NoRows \/ f.items = OneRow(v, q)
  BY <1>2 DEF NoRows, OneRow, EmptyItems
<1>4. OldFileOf(f, v, q, m)
  BY <1>2, <1>3, <1>5 DEF OldFileOf
<1> QED
  BY <1>4 DEF OldFile

LEMMA OldFileCreators ==
  ASSUME NEW f, NEW v \in Variants, NEW q \in Quantities, NEW m \in BOOLEAN, OldFileOf(f, v, q, m)
  PROVE  CreatorsIn(f)
<1>1. 1 \in PalletNumbers /\ PalletNumbers \subseteq Nat
  BY OlderFilesAssumption, BoundsAssumption DEF PalletNumbers
<1>2. /\ \A n \in PalletNumbers : f.status[n] = IF n = 1 THEN "open" ELSE "absent"
      /\ Len(f.entries) = 1 /\ f.entries[1].pallet = 1 /\ f.entries[1].created
  BY DEF OldFileOf
<1>3. EntriesIn(f, 1) = {1}
  BY <1>1, <1>2 DEF EntriesIn
<1>4. \A n \in {k \in PalletNumbers : f.status[k] # "absent"} : n = 1
  BY <1>2
<1> QED
  BY <1>1, <1>2, <1>3, <1>4 DEF CreatorsIn

\* All migrations done, the tables of an older version are sound.
LEMMA OldFileMigrated ==
  ASSUME NEW f, NEW v \in Variants, NEW q \in Quantities, NEW m \in BOOLEAN,
         OldFileOf(f, v, q, m), f.items = OneRow(v, q), ConfirmedIn(f)
  PROVE  SoundFile(f)
<1>1. q \in Nat \ {0} /\ 1 \in PalletNumbers /\ PalletNumbers \subseteq Nat
  BY QuantitiesAssumption, OlderFilesAssumption, BoundsAssumption DEF PalletNumbers
<1>2. /\ \A n \in PalletNumbers : f.status[n] = IF n = 1 THEN "open" ELSE "absent"
      /\ \A n \in PalletNumbers : f.total[n] = IF n = 1 THEN q ELSE 0
      /\ \A n \in PalletNumbers : \A w \in Variants : f.items[n][w] = IF n = 1 /\ w = v THEN q ELSE 0
  BY DEF OldFileOf, OneRow
<1>3. /\ Len(f.entries) = 1 /\ f.entries[1].pallet = 1 /\ f.entries[1].variant = v
      /\ f.entries[1].qty = q /\ f.entries[1].created
  BY DEF OldFileOf
<1>4. RowsIn(f, 1) = {v} /\ \A n \in PalletNumbers \ {1} : RowsIn(f, n) = {}
  BY <1>1, <1>2 DEF RowsIn
<1>5. EntriesIn(f, 1) = {1} /\ \A n \in PalletNumbers \ {1} : EntriesIn(f, n) = {}
  BY <1>1, <1>3 DEF EntriesIn
<1>6. StockIn(f)
  <2>1. \A n \in PalletNumbers : Cardinality(RowsIn(f, n)) <= MaxVariants
    <3>1. Cardinality({v}) = 1 /\ Cardinality({}) = 0
      BY FS_EmptySet, FS_Singleton
    <3> QED
      BY <1>4, <3>1, MaxVariantsAssumption
  <2> QED
    BY <1>2, <1>4, <2>1 DEF StockIn
<1>7. CreatorsIn(f)
  BY OldFileCreators
<1>8. BookedIn(f)
  <2>1. \A n \in PalletNumbers \ {1} : SumFunctionOnSet(f.items[n], Variants) = 0
    BY <1>2, FiniteVariants, SumZero
  <2>2. SumFunctionOnSet(f.items[1], Variants) = q
    <3>1. IsFiniteSet(Variants \ {v}) /\ \A w \in Variants \ {v} : f.items[1][w] = 0
      BY <1>1, <1>2, FiniteVariants, FS_RemoveElement
    <3>2. SumFunctionOnSet(f.items[1], Variants \ {v}) = 0
      BY <3>1, SumZero
    <3>3. \A w \in Variants : f.items[1][w] \in Nat
      BY <1>1, <1>2
    <3>4. SumFunctionOnSet(f.items[1], Variants) = f.items[1][v] + SumFunctionOnSet(f.items[1], Variants \ {v})
      BY <3>3, FiniteVariants, SumTakesAny
    <3> QED
      BY <1>1, <1>2, <3>2, <3>4
  <2>3. ASSUME NEW n \in PalletNumbers, NEW w \in Variants
        PROVE  f.items[n][w] = SumFunctionOnSet(QuantitiesIn(f), BookingsIn(f, n, w))
    <3>1. CASE n = 1 /\ w = v
      <4>1. BookingsIn(f, n, w) = {1}
        BY <1>3, <1>5, <3>1 DEF BookingsIn
      <4>2. QuantitiesIn(f)[1] = q
        BY <1>3 DEF QuantitiesIn
      <4>3. SumFunctionOnSet(QuantitiesIn(f), {1} \ {1}) = 0
        BY SumOfNothing
      <4>4. IsFiniteSet({1}) /\ \A x \in {1} : QuantitiesIn(f)[x] \in Nat
        BY <1>1, <4>2, FS_Singleton
      <4>5. SumFunctionOnSet(QuantitiesIn(f), {1}) = QuantitiesIn(f)[1] + SumFunctionOnSet(QuantitiesIn(f), {1} \ {1})
        BY <4>4, SumTakesAny
      <4> QED
        BY <1>1, <1>2, <3>1, <4>1, <4>2, <4>3, <4>5
    <3>2. CASE n # 1 \/ w # v
      <4>1. BookingsIn(f, n, w) = {}
        BY <1>3, <1>5, <3>2 DEF BookingsIn
      <4> QED
        BY <1>2, <3>2, <4>1, SumOfNothing
    <3> QED
      BY <3>1, <3>2
  <2> QED
    BY <1>1, <1>2, <2>1, <2>2, <2>3 DEF BookedIn
<1>9. BalanceIn(f, [i \in 1..1 |-> 0])
  BY <1>1, <1>2, <1>3 DEF BalanceIn, FollowsIn
<1> QED
  BY <1>3, <1>6, <1>7, <1>8, <1>9 DEF SoundFile

-----------------------------------------------------------------------------
(* The migrations leave sound tables alone and make those of an older        *)
(* version sound.                                                            *)

LEMMA BackfillKeepsSound ==
  ASSUME TypeOK, ConfirmedWithinQuantity, MigrateConfirmedQuantity
  PROVE  UNCHANGED entries
<1>1. /\ entries \in Seq(Entry) /\ entries' \in Seq(Entry) /\ Len(entries') = Len(entries)
      /\ \A i \in 1..Len(entries) : entries'[i] = Backfilled(entries[i]) /\ entries[i] \in Entry
  BY BackfilledEntries DEF TypeOK
<1>2. ASSUME NEW i \in 1..Len(entries)
      PROVE  Backfilled(entries[i]) = entries[i]
  <2>1. entries[i].qty # 0 /\ (entries[i].moved <=> entries[i].confirmed = entries[i].qty)
    BY EntryTypes DEF ConfirmedWithinQuantity
  <2>2. CASE entries[i].confirmed = 0
    <3>1. Backfilled(entries[i]) = [entries[i] EXCEPT !.confirmed = 0]
      BY <2>1, <2>2 DEF Backfilled
    <3> QED
      BY <1>1, <2>2, <3>1 DEF Entry
  <2>3. CASE entries[i].confirmed # 0
    BY <2>3 DEF Backfilled
  <2> QED
    BY <2>2, <2>3
<1> QED
  BY <1>1, <1>2

\* An entry has its item row, so rows are missing only where nothing is booked.
LEMMA RowsKeptSound ==
  ASSUME TypeOK, Conservation, CreatorIsOldest, NoOrphanRows, MigratePalletRows
  PROVE  UNCHANGED items
<1>1. CASE HasItemRows
  BY <1>1 DEF MigratePalletRows
<1>2. CASE ~HasItemRows
  <2>1. ASSUME NEW n \in Live
        PROVE  FALSE
    <3>1. PICK i \in EntriesOf(n) : TRUE
      BY DEF CreatorIsOldest
    <3>2. i \in 1..Len(entries) /\ n \in PalletNumbers
      BY DEF EntriesOf, Live
    <3>3. PICK v \in Variants : v = entries[i].variant
      BY <3>2, EntryTypes
    <3>4. i \in Bookings(n, v) /\ IsFiniteSet(Bookings(n, v))
      <4>1. i \in Bookings(n, v)
        BY <3>1, <3>3 DEF Bookings
      <4> QED
        BY <4>1, BookingsFinite
    <3>5. \A j \in Bookings(n, v) : EntryQty[j] \in Nat
      BY BookingsFinite
    <3>6. EntryQty[i] # 0
      BY <3>2, BookingsFinite, EntryTypes
    <3>7. SumFunctionOnSet(EntryQty, Bookings(n, v)) # 0
      BY <3>4, <3>5, <3>6, SumZero
    <3>8. items[n][v] # 0 /\ items[n][v] \in Nat
      BY <3>2, <3>7, ConservationByParts DEF BookingsAddUp, TypeOK
    <3> QED
      BY <1>2, <3>2, <3>8 DEF HasItemRows, VariantsOn
  <2>2. items' = [n \in PalletNumbers |-> EmptyItems]
    BY <1>2, <2>1 DEF MigratePalletRows
  <2>3. \A n \in PalletNumbers : \A v \in Variants : items[n][v] = 0
    BY <1>2 DEF HasItemRows, VariantsOn, TypeOK
  <2>4. \A n \in PalletNumbers : items[n] = EmptyItems
    BY <2>3 DEF EmptyItems, TypeOK
  <2> QED
    BY <2>2, <2>4 DEF TypeOK
<1> QED
  BY <1>1, <1>2

LEMMA OldFileBackfilled ==
  ASSUME TypeOK, OldFile(CurrentFile), MigrateConfirmedQuantity
  PROVE  OldFile(CurrentFile)' /\ ConfirmedWithinQuantity'
<1>1. PICK v \in Variants, q \in Quantities, m \in BOOLEAN : OldFileOf(CurrentFile, v, q, m)
  BY DEF OldFile
<1>2. /\ status = [n \in PalletNumbers |-> IF n = 1 THEN "open" ELSE "absent"]
      /\ total = [n \in PalletNumbers |-> IF n = 1 THEN q ELSE 0]
      /\ Len(entries) = 1
      /\ entries[1].variant = v /\ entries[1].qty = q /\ entries[1].pallet = 1
      /\ entries[1].created /\ entries[1].moved = m
      /\ entries[1].confirmed = 0 \/ entries[1].confirmed = IF m THEN q ELSE 0
      /\ items = NoRows \/ items = OneRow(v, q)
  BY <1>1 DEF OldFileOf, CurrentFile
<1>3. Len(entries') = 1 /\ entries'[1] = Backfilled(entries[1]) /\ entries[1] \in Entry
  BY <1>2, BackfilledEntries
<1>4. q \in Nat \ {0}
  BY QuantitiesAssumption
<1>5. /\ entries'[1].variant = v /\ entries'[1].qty = q /\ entries'[1].pallet = 1
      /\ entries'[1].created /\ entries'[1].moved = m
      /\ entries'[1].confirmed = IF m THEN q ELSE 0
  <2>1. CASE entries[1].confirmed = 0
    <3>1. Backfilled(entries[1]) = [entries[1] EXCEPT !.confirmed = IF m THEN q ELSE 0]
      BY <1>2, <2>1 DEF Backfilled
    <3> QED
      BY <1>2, <1>3, <3>1 DEF Entry
  <2>2. CASE entries[1].confirmed # 0
    BY <1>2, <1>3, <2>2 DEF Backfilled
  <2> QED
    BY <2>1, <2>2
<1>6. UNCHANGED <<status, total, items>>
  BY DEF MigrateConfirmedQuantity
<1>7. OldFileOf(CurrentFile, v, q, m)'
  BY <1>2, <1>3, <1>5, <1>6 DEF OldFileOf, CurrentFile
<1>8. ConfirmedWithinQuantity'
  BY <1>3, <1>4, <1>5 DEF ConfirmedWithinQuantity
<1> QED
  BY <1>7, <1>8 DEF OldFile

LEMMA OldFileGetsRow ==
  ASSUME TypeOK, TypeOK', OldFile(CurrentFile), ConfirmedWithinQuantity, MigratePalletRows
  PROVE  SoundFile(CurrentFile)'
<1>1. PICK v \in Variants, q \in Quantities, m \in BOOLEAN : OldFileOf(CurrentFile, v, q, m)
  BY DEF OldFile
<1>2. /\ status = [n \in PalletNumbers |-> IF n = 1 THEN "open" ELSE "absent"]
      /\ total = [n \in PalletNumbers |-> IF n = 1 THEN q ELSE 0]
      /\ Len(entries) = 1 /\ entries[1].variant = v /\ entries[1].pallet = 1
      /\ items = NoRows \/ items = OneRow(v, q)
  BY <1>1 DEF OldFileOf, CurrentFile
<1>3. q \in Nat \ {0} /\ 1 \in PalletNumbers
  BY QuantitiesAssumption, OlderFilesAssumption, BoundsAssumption DEF PalletNumbers
<1>4. UNCHANGED <<status, total, entries>>
  BY DEF MigratePalletRows
<1>5. items' = OneRow(v, q)
  <2>1. CASE items = OneRow(v, q)
    <3>1. items[1][v] > 0
      BY <1>3, <2>1 DEF OneRow
    <3>2. HasItemRows
      BY <1>3, <3>1 DEF HasItemRows, VariantsOn
    <3> QED
      BY <2>1, <3>2 DEF MigratePalletRows
  <2>2. CASE items = NoRows
    <3>1. ~HasItemRows
      BY <2>2 DEF HasItemRows, VariantsOn, NoRows, EmptyItems
    <3>2. Live = {1}
      BY <1>2, <1>3 DEF Live
    <3>3. RowVariant(1) = v
      <4>1. EntriesOf(1) = {1}
        BY <1>2 DEF EntriesOf
      <4>2. (CHOOSE i \in EntriesOf(1) : \A j \in EntriesOf(1) : i <= j) = 1
        BY <4>1
      <4> QED
        BY <1>2, <4>2 DEF RowVariant
    <3>4. items' = [n \in PalletNumbers |->
                      IF n \in Live THEN [EmptyItems EXCEPT ![RowVariant(n)] = total[n]] ELSE EmptyItems]
      BY <3>1 DEF MigratePalletRows
    <3>5. \A n \in PalletNumbers \ {1} : items'[n] = [w \in Variants |-> 0]
      BY <3>2, <3>4 DEF EmptyItems
    <3>6. items'[1] = [w \in Variants |-> IF w = v THEN q ELSE 0]
      BY <1>2, <1>3, <3>2, <3>3, <3>4 DEF EmptyItems
    <3> QED
      BY <3>4, <3>5, <3>6 DEF OneRow
  <2> QED
    BY <1>2, <2>1, <2>2
<1>6. OldFileOf(CurrentFile, v, q, m)'
  BY <1>1, <1>4, <1>5 DEF OldFileOf, CurrentFile
<1>7. CurrentFile'.items = OneRow(v, q) /\ ConfirmedIn(CurrentFile')
  BY <1>4, <1>5 DEF CurrentFile, ConfirmedWithinQuantity, ConfirmedIn
<1> QED
  BY <1>6, <1>7, OldFileMigrated

-----------------------------------------------------------------------------
(* SafeInv is inductive.                                                     *)

\* Closing, confirming and the like keep the invariant of the store.
LEMMA OperateKeepsStoreInv ==
  ASSUME StoreInv, Operate
  PROVE  StoreInv'
<1>1. [Next]_vars
  BY OperateIsNext
<1>2. ConservationInv' /\ ConfirmedWithinQuantity'
  BY <1>1, NextConservationInv, NextConfirmed DEF StoreInv, ConservationInv, LedgerInv, StockInv
<1> QED
  BY <1>2 DEF StoreInv

\* A step that leaves the four tables alone leaves what is said of them.
LEMMA TablesUntouched ==
  ASSUME UNCHANGED <<status, total, items, entries>>
  PROVE  /\ SoundFile(CurrentFile)' <=> SoundFile(CurrentFile)
         /\ Migratable(CurrentFile)' <=> Migratable(CurrentFile)
         /\ ConfirmedWithinQuantity' <=> ConfirmedWithinQuantity
<1>1. /\ CurrentFile'.status = CurrentFile.status /\ CurrentFile'.total = CurrentFile.total
      /\ CurrentFile'.items = CurrentFile.items /\ CurrentFile'.entries = CurrentFile.entries
  BY DEF CurrentFile
<1> QED
  BY <1>1, SameTables DEF ConfirmedWithinQuantity

LEMMA FileInstalled ==
  ASSUME NEW f, BecomesDatabase(f)
  PROVE  /\ SoundFile(CurrentFile)' <=> SoundFile(f)
         /\ Migratable(CurrentFile)' <=> Migratable(f)
<1>1. /\ CurrentFile'.status = f.status /\ CurrentFile'.total = f.total
      /\ CurrentFile'.items = f.items /\ CurrentFile'.entries = f.entries
  BY DEF CurrentFile, BecomesDatabase
<1> QED
  BY <1>1, SameTables

LEMMA InitSafeInv == LifeInit => SafeInv
<1> SUFFICES ASSUME LifeInit PROVE SafeInv
  OBVIOUS
<1>1. LifeInv
  BY InitLifeInv
<1>2. Migratable(CurrentFile)
  <2>1. CASE Init
    <3>1. StoreInv /\ TypeOK
      BY <2>1, InitTypeOK, InitConservationInv, InitConfirmed DEF StoreInv
    <3> QED
      BY <3>1, SoundTables DEF Migratable
  <2>2. ASSUME NEW f \in OlderFiles, IsDatabase(f)
        PROVE  Migratable(CurrentFile)
    <3>1. Migratable(f)
      BY OlderFilesAreOld DEF Migratable
    <3>2. /\ CurrentFile.status = f.status /\ CurrentFile.total = f.total
          /\ CurrentFile.items = f.items /\ CurrentFile.entries = f.entries
      BY <2>2 DEF CurrentFile, IsDatabase
    <3> QED
      BY <3>1, <3>2, SameTables
  <2> QED
    BY <2>1, <2>2 DEF LifeInit
<1> QED
  BY <1>1, <1>2 DEF LifeInit, SafeInv, UploadKnown, PostgresSafe, TablesSafe, Initialising

LEMMA InitialiseSafe ==
  ASSUME SafeInv, Initialise, LifeInv'
  PROVE  SafeInv'
<1>1. UNCHANGED <<provider, phase, restore, upload, backups, halfway>> /\ Initialising
  BY DEF Initialise, CreateTables, AddMoved, AddQuantity, MigrateConfirmedQuantity, MigratePalletRows,
         Statement
<1>2. UploadKnown' /\ PostgresSafe'
  BY <1>1 DEF SafeInv, UploadKnown, PostgresSafe
<1>3. TypeOK /\ TypeOK'
  BY DEF SafeInv, LifeInv, LifeTypeOK
<1>4. ASSUME halfway # "used"
      PROVE  Migratable(CurrentFile)' /\ Migrated'
  <2>1. Migratable(CurrentFile) /\ Migrated
    BY <1>1, <1>4 DEF SafeInv, TablesSafe
  <2>2. CASE CreateTables \/ AddMoved \/ AddQuantity
    <3>1. UNCHANGED <<status, total, items, entries>>
      BY <2>2 DEF CreateTables, AddMoved, AddQuantity, tables
    <3>2. Migratable(CurrentFile)'
      BY <2>1, <3>1, TablesUntouched
    <3>3. Migrated'
      <4>1. schema \subseteq SchemaParts
        BY DEF SafeInv, LifeInv, LifeTypeOK
      <4>2. CASE CreateTables
        BY <4>2 DEF CreateTables, Statement, Migrated
      <4>3. CASE AddMoved
        BY <2>1, <4>3 DEF AddMoved, Statement, Migrated
      <4>4. CASE AddQuantity
        BY <2>1, <4>1, <4>4 DEF AddQuantity, Statement, Migrated, Complete, SchemaParts
      <4> QED
        BY <2>2, <4>2, <4>3, <4>4
    <3> QED
      BY <3>2, <3>3
  <2>3. CASE MigrateConfirmedQuantity
    <3>1. UNCHANGED <<status, total, items, schema>> /\ Complete /\ task' = "items"
      BY <2>1, <2>3 DEF MigrateConfirmedQuantity, Statement, Migrated
    <3>2. CASE SoundFile(CurrentFile)
      <4>1. ConfirmedWithinQuantity
        BY <1>3, <3>2, SoundTables DEF StoreInv
      <4>2. UNCHANGED entries
        BY <1>3, <2>3, <4>1, BackfillKeepsSound
      <4> QED
        BY <2>1, <3>1, <4>1, <4>2, TablesUntouched DEF Migrated, Complete, SchemaParts
    <3>3. CASE OldFile(CurrentFile)
      <4>1. OldFile(CurrentFile)' /\ ConfirmedWithinQuantity'
        BY <1>3, <2>3, <3>3, OldFileBackfilled
      <4> QED
        BY <3>1, <4>1 DEF Migratable, Migrated, Complete, SchemaParts
    <3> QED
      BY <2>1, <3>2, <3>3 DEF Migratable
  <2>4. CASE MigratePalletRows
    <3>1. UNCHANGED <<status, total, entries, schema>> /\ Complete /\ ConfirmedWithinQuantity /\ task' = "done"
      BY <2>1, <2>4 DEF MigratePalletRows, Statement, Migrated
    <3>2. SoundFile(CurrentFile)'
      <4>1. CASE SoundFile(CurrentFile)
        <5>1. Conservation /\ CreatorIsOldest /\ NoOrphanRows
          BY <1>3, <4>1, SoundTables DEF StoreInv, ConservationInv, LedgerInv, StockInv
        <5>2. UNCHANGED items
          BY <1>3, <2>4, <5>1, RowsKeptSound
        <5> QED
          BY <3>1, <4>1, <5>2, TablesUntouched
      <4>2. CASE OldFile(CurrentFile)
        BY <1>3, <2>4, <3>1, <4>2, OldFileGetsRow
      <4> QED
        BY <2>1, <4>1, <4>2 DEF Migratable
    <3>3. ConfirmedWithinQuantity'
      BY <3>1 DEF ConfirmedWithinQuantity
    <3> QED
      BY <3>1, <3>2, <3>3 DEF Migratable, Migrated, Complete, SchemaParts
  <2> QED
    BY <2>2, <2>3, <2>4 DEF Initialise
<1>5. phase = "starting" \/ restore = "initialise"
  BY <1>1 DEF Initialising
<1>6. TablesSafe'
  BY <1>1, <1>4, <1>5 DEF SafeInv, TablesSafe
<1> QED
  BY <1>2, <1>6 DEF SafeInv

LEMMA NextSafeInv == SafeInv /\ [LifeNext]_allVars => SafeInv'
<1> SUFFICES ASSUME SafeInv, [LifeNext]_allVars PROVE SafeInv'
  OBVIOUS
<1>1. LifeInv /\ LifeInv' /\ TypeOK /\ TypeOK'
  BY NextLifeInv DEF SafeInv, LifeInv, LifeTypeOK
<1>2. ASSUME UNCHANGED <<status, total, items, entries, schema, backups, provider>>
      PROVE  /\ SoundFile(CurrentFile)' <=> SoundFile(CurrentFile)
             /\ Migratable(CurrentFile)' <=> Migratable(CurrentFile)
             /\ Complete' <=> Complete
  BY <1>2, TablesUntouched DEF Complete, SchemaParts
<1>3. CASE Start \/ AcceptRequests \/ Crash \/ CancelRestore
  <2>1. UNCHANGED <<status, total, items, entries, schema, backups, provider>>
    BY <1>3 DEF Start, AcceptRequests, Crash, CancelRestore, tables
  <2>2. CASE Start
    <3>1. restore' = "idle" /\ halfway' = halfway /\ phase' = "starting" /\ task' = "create"
      BY <1>1, <2>2 DEF Start, LifeInv
    <3>2. Migrated'
      BY <3>1 DEF Migrated
    <3> QED
      BY <1>1, <1>2, <2>1, <3>1, <3>2 DEF SafeInv, UploadKnown, PostgresSafe, TablesSafe
  <2>3. CASE AcceptRequests
    <3>1. /\ restore' = "idle" /\ phase' = "serving"
          /\ halfway' = IF halfway = "left" THEN "no" ELSE halfway
      BY <1>1, <2>3 DEF AcceptRequests, LifeInv
    <3>2. halfway # "used" => Complete /\ SoundFile(CurrentFile)
      BY <2>3 DEF AcceptRequests, SafeInv, TablesSafe, Initialising, Migrated
    <3>3. halfway' # "used" => halfway # "used"
      BY <3>1
    <3>4. ~Initialising'
      BY <3>1 DEF Initialising
    <3>5. UploadKnown' /\ PostgresSafe'
      BY <2>1, <3>1 DEF SafeInv, UploadKnown, PostgresSafe
    <3> QED
      BY <1>1, <1>2, <2>1, <3>2, <3>3, <3>4, <3>5 DEF SafeInv, TablesSafe
  <2>4. CASE Crash
    <3>1. restore' = "idle" /\ halfway' = halfway /\ phase' = "down"
      BY <2>4 DEF Crash
    <3>2. ~Initialising'
      BY <3>1 DEF Initialising
    <3> QED
      BY <1>1, <1>2, <2>1, <3>1, <3>2 DEF SafeInv, UploadKnown, PostgresSafe, TablesSafe
  <2>5. CASE CancelRestore
    <3>1. /\ restore = "initialise" /\ restore' = "idle" /\ phase' = phase /\ phase = "serving"
          /\ halfway' = IF task = "done" \/ halfway = "used" THEN halfway ELSE "left"
      BY <1>1, <2>5 DEF CancelRestore, LifeInv
    <3>2. ~Initialising'
      BY <3>1 DEF Initialising
    <3>3. halfway' # "used" => halfway # "used"
      BY <3>1
    <3>4. halfway' = "no" => Complete /\ SoundFile(CurrentFile)
      BY <3>1 DEF SafeInv, TablesSafe, Initialising, Migrated
    <3>5. UploadKnown' /\ PostgresSafe'
      BY <2>1, <3>1 DEF SafeInv, UploadKnown, PostgresSafe
    <3> QED
      BY <1>1, <1>2, <2>1, <3>2, <3>3, <3>4, <3>5 DEF SafeInv, TablesSafe
  <2> QED
    BY <1>3, <2>2, <2>3, <2>4, <2>5
<1>4. CASE Initialise
  BY <1>1, <1>4, InitialiseSafe
<1>5. CASE CopyUpload
  <2>1. /\ restore = "copy" /\ BecomesDatabase(upload) /\ UNCHANGED <<provider, backups>>
        /\ restore' = "initialise" /\ task' = "create"
        /\ halfway' = IF halfway = "used" /\ backups # {} THEN "used" ELSE "no"
    BY <1>5 DEF CopyUpload
  <2>2. halfway' # "used" => /\ \A f \in backups : Migratable(f)
                            /\ Migratable(upload)
    <3>1. ASSUME halfway' # "used"
          PROVE  \A f \in backups : Migratable(f)
      BY <2>1, <3>1 DEF SafeInv, TablesSafe
    <3>2. upload \in backups \/ Migratable(upload)
      BY <2>1, OlderFilesAreOld DEF SafeInv, UploadKnown, Migratable
    <3> QED
      BY <3>1, <3>2
  <2>3. Migrated' /\ provider # "Postgres"
    BY <2>1 DEF Migrated, SafeInv, PostgresSafe
  <2> QED
    BY <1>1, <2>1, <2>2, <2>3, FileInstalled DEF SafeInv, UploadKnown, PostgresSafe, TablesSafe
<1>6. CASE AuditRestore
  <2>1. /\ restore = "initialise" /\ task = "done" /\ restore' = "idle"
        /\ UNCHANGED <<phase, halfway>> /\ phase = "serving"
        /\ UNCHANGED <<status, total, items, entries, schema, backups, provider>>
    BY <1>1, <1>6 DEF AuditRestore, LifeInv
  <2>2. halfway # "used" => Complete /\ SoundFile(CurrentFile)
    BY <2>1 DEF SafeInv, TablesSafe, Initialising, Migrated
  <2>3. ~Initialising'
    BY <2>1 DEF Initialising
  <2> QED
    BY <1>1, <1>2, <2>1, <2>2, <2>3 DEF SafeInv, UploadKnown, PostgresSafe, TablesSafe
<1>7. CASE Operate
  <2>1. /\ phase = "serving" /\ restore = "idle" /\ UNCHANGED <<schema, provider, phase, restore, backups>>
        /\ halfway' = IF halfway = "left" THEN "used" ELSE halfway
    BY <1>7 DEF Operate, LockFree, lifeVars
  <2>2. ASSUME halfway = "no"
        PROVE  Complete' /\ SoundFile(CurrentFile)'
    <3>1. Complete /\ SoundFile(CurrentFile)
      BY <2>1, <2>2 DEF SafeInv, TablesSafe
    <3>2. StoreInv
      BY <1>1, <3>1, SoundTables
    <3>3. StoreInv'
      BY <1>7, <3>2, OperateKeepsStoreInv
    <3> QED
      BY <1>1, <2>1, <3>1, <3>3, SoundTablesNext DEF Complete, SchemaParts
  <2>3. halfway' # "used" => halfway = "no" /\ halfway' = "no"
    BY <1>1, <2>1 DEF LifeInv, LifeTypeOK
  <2>4. ~Initialising'
    BY <2>1 DEF Initialising
  <2>5. UploadKnown' /\ PostgresSafe'
    BY <2>1 DEF SafeInv, UploadKnown, PostgresSafe
  <2>6. TablesSafe'
    BY <2>1, <2>2, <2>3, <2>4 DEF SafeInv, TablesSafe, Migratable
  <2> QED
    BY <1>1, <2>5, <2>6 DEF SafeInv
<1>8. CASE BackupDatabase
  <2>1. /\ phase = "serving" /\ restore = "idle" /\ backups' = backups \union {CurrentFile}
        /\ UNCHANGED <<status, total, items, entries, schema, provider, phase, restore, halfway>>
    BY <1>8 DEF BackupDatabase, LockFree
  <2>2. halfway # "used" => Migratable(CurrentFile)
    BY DEF SafeInv, TablesSafe
  <2>3. halfway = "no" => Complete /\ SoundFile(CurrentFile)
    BY <2>1 DEF SafeInv, TablesSafe
  <2>4. halfway = "no" => CurrentFile.schema = SchemaParts
    BY <2>3 DEF CurrentFile, Complete
  <2>5. /\ SoundFile(CurrentFile)' <=> SoundFile(CurrentFile)
        /\ Migratable(CurrentFile)' <=> Migratable(CurrentFile)
        /\ Complete' <=> Complete
    BY <2>1, TablesUntouched DEF Complete, SchemaParts
  <2>6. ~Initialising'
    BY <2>1 DEF Initialising
  <2>7. UploadKnown' /\ PostgresSafe'
    BY <2>1, <2>3, <2>4 DEF SafeInv, UploadKnown, PostgresSafe
  <2>8. TablesSafe'
    BY <2>1, <2>2, <2>5, <2>6 DEF SafeInv, TablesSafe
  <2> QED
    BY <1>1, <2>7, <2>8 DEF SafeInv
<1>9. ASSUME NEW f \in backups, RestoreInOneTransaction(f)
      PROVE  SafeInv'
  <2>1. /\ provider = "Postgres" /\ phase = "serving" /\ restore = "idle" /\ BecomesDatabase(f)
        /\ UNCHANGED <<provider, phase, restore, backups, halfway>>
    BY <1>9 DEF RestoreInOneTransaction, LockFree
  <2>2. halfway = "no" /\ f.schema = SchemaParts /\ SoundFile(f)
    BY <2>1 DEF SafeInv, PostgresSafe
  <2>3. Complete' /\ SoundFile(CurrentFile)' /\ ~Initialising'
    BY <2>1, <2>2, FileInstalled DEF BecomesDatabase, Complete, SchemaParts, Initialising
  <2> QED
    BY <1>1, <2>1, <2>2, <2>3 DEF SafeInv, UploadKnown, PostgresSafe, TablesSafe, Migratable
<1>10. ASSUME NEW f \in backups \union OlderFiles, ReceiveUpload(f)
       PROVE  SafeInv'
  <2>1. /\ provider # "Postgres" /\ phase = "serving" /\ restore = "idle" /\ restore' = "copy" /\ upload' = f
        /\ UNCHANGED <<status, total, items, entries, schema, backups, provider, phase, halfway>>
    BY <1>10 DEF ReceiveUpload, LockFree, tables
  <2>2. ~Initialising'
    BY <2>1 DEF Initialising
  <2> QED
    BY <1>1, <1>2, <2>1, <2>2 DEF SafeInv, UploadKnown, PostgresSafe, TablesSafe
<1>11. CASE UNCHANGED allVars
  <2>1. /\ UNCHANGED <<status, total, items, entries, schema, backups, provider>>
        /\ UNCHANGED <<phase, task, restore, upload, halfway>>
    BY <1>11 DEF allVars, tables, lifeVars
  <2>2. (Initialising' <=> Initialising) /\ (Migrated' <=> Migrated)
    BY <1>2, <2>1, TablesUntouched DEF Initialising, Migrated
  <2> QED
    BY <1>1, <1>2, <2>1, <2>2 DEF SafeInv, UploadKnown, PostgresSafe, TablesSafe
<1> QED
  BY <1>3, <1>4, <1>5, <1>6, <1>7, <1>8, <1>9, <1>10, <1>11 DEF LifeNext, Serve

LEMMA SafeInvCorrect == LifeSpec => []SafeInv
BY InitSafeInv, NextSafeInv, PTL DEF LifeSpec

-----------------------------------------------------------------------------
(* Totals and shells.  Registering and undoing keep them on any tables, those *)
(* included whose item rows or confirmations a migration has still to write.  *)

TotalAddsUp(n) == total[n] = SumFunctionOnSet(EntryQty, EntriesOf(n))

LEMMA TotalsByPallet == TotalsBooked <=> CreatorIsOldest /\ \A n \in PalletNumbers : TotalAddsUp(n)
BY DEF TotalsBooked, TotalAddsUp, EntryQty

LEMMA TotalsByPalletNext ==
  CreatorIsOldest' /\ (\A n \in PalletNumbers : TotalAddsUp(n)') => TotalsBooked'
<1>1. (TotalsBooked <=> CreatorIsOldest /\ \A n \in PalletNumbers : TotalAddsUp(n))'
  BY TotalsByPallet, PTL
<1> QED
  BY <1>1

LEMMA TotalsShown == TotalsIn(CurrentFile) <=> TotalsBooked
<1> DEFINE f == CurrentFile
<1>1. f.status = status /\ f.total = total /\ f.entries = entries
  BY DEF CurrentFile
<1> HIDE DEF f
<1>2. \A n : EntriesIn(f, n) = EntriesOf(n)
  BY <1>1 DEF EntriesIn, EntriesOf
<1>3. QuantitiesIn(f) = EntryQty
  BY <1>1 DEF QuantitiesIn, EntryQty
<1>4. CreatorsIn(f) <=> CreatorIsOldest
  BY <1>1, <1>2 DEF CreatorsIn, CreatorIsOldest, Live
<1>5. TotalsIn(f) <=> TotalsBooked
  BY <1>1, <1>2, <1>3, <1>4, TotalsByPallet DEF TotalsIn, TotalAddsUp
<1> QED
  BY <1>5 DEF f

LEMMA TotalsShownNext == TotalsIn(CurrentFile)' <=> TotalsBooked'
BY TotalsShown, PTL

LEMMA SameTotals ==
  ASSUME NEW f, NEW g, f.status = g.status, f.total = g.total, f.entries = g.entries
  PROVE  TotalsIn(f) <=> TotalsIn(g)
<1>1. \A n : EntriesIn(f, n) = EntriesIn(g, n)
  BY DEF EntriesIn
<1>2. QuantitiesIn(f) = QuantitiesIn(g)
  BY DEF QuantitiesIn
<1>3. CreatorsIn(f) <=> CreatorsIn(g)
  BY <1>1 DEF CreatorsIn
<1> QED
  BY <1>1, <1>2, <1>3 DEF TotalsIn

LEMMA OlderFilesAddUp ==
  ASSUME NEW f \in OlderFiles
  PROVE  TotalsIn(f)
<1>1. PICK v \in Variants, q \in Quantities, m \in BOOLEAN : OldFileOf(f, v, q, m)
  BY OlderFilesAreOld DEF OldFile
<1>2. CreatorsIn(f)
  BY <1>1, OldFileCreators
<1>3. /\ \A n \in PalletNumbers : f.total[n] = IF n = 1 THEN q ELSE 0
      /\ Len(f.entries) = 1 /\ f.entries[1].pallet = 1 /\ f.entries[1].qty = q /\ q \in Nat
  BY <1>1, QuantitiesAssumption DEF OldFileOf
<1>4. ASSUME NEW n \in PalletNumbers
      PROVE  f.total[n] = SumFunctionOnSet(QuantitiesIn(f), EntriesIn(f, n))
  <2>1. CASE n = 1
    <3>1. EntriesIn(f, n) = {1} /\ QuantitiesIn(f)[1] = q
      BY <1>3, <2>1 DEF EntriesIn, QuantitiesIn
    <3>2. IsFiniteSet({1}) /\ \A x \in {1} : QuantitiesIn(f)[x] \in Nat
      BY <1>3, <3>1, FS_Singleton
    <3>3. SumFunctionOnSet(QuantitiesIn(f), {1}) = QuantitiesIn(f)[1] + SumFunctionOnSet(QuantitiesIn(f), {1} \ {1})
      BY <3>2, SumTakesAny
    <3>4. SumFunctionOnSet(QuantitiesIn(f), {1} \ {1}) = 0
      BY SumOfNothing
    <3> QED
      BY <1>3, <2>1, <3>1, <3>3, <3>4
  <2>2. CASE n # 1
    <3>1. EntriesIn(f, n) = {}
      BY <1>3, <2>2 DEF EntriesIn
    <3> QED
      BY <1>3, <2>2, <3>1, SumOfNothing
  <2> QED
    BY <2>1, <2>2
<1> QED
  BY <1>2, <1>4 DEF TotalsIn

LEMMA EntriesFinite ==
  ASSUME TypeOK, NEW n
  PROVE  /\ IsFiniteSet(EntriesOf(n)) /\ EntriesOf(n) \subseteq 1..Len(entries)
         /\ \A i \in 1..Len(entries) : EntryQty[i] = entries[i].qty /\ EntryQty[i] \in Nat
<1>1. EntriesOf(n) \subseteq 1..Len(entries)
  BY DEF EntriesOf
<1>2. IsFiniteSet(1..Len(entries))
  BY EntryTypes, FS_Interval
<1>3. \A i \in 1..Len(entries) : EntryQty[i] = entries[i].qty /\ EntryQty[i] \in Nat
  BY EntryTypes DEF EntryQty
<1> QED
  BY <1>1, <1>2, <1>3, FS_Subset

\* What one entry more adds to the sum of its pallet, and to that of no other.
LEMMA AppendedSum ==
  ASSUME TypeOK, NEW L \in Nat, L = Len(entries), NEW n,
         Len(entries') = L + 1, \A i \in 1..L : entries'[i] = entries[i],
         entries'[L + 1].qty \in Nat
  PROVE  SumFunctionOnSet(EntryQty', EntriesOf(n)')
           = SumFunctionOnSet(EntryQty, EntriesOf(n))
             + (IF entries'[L + 1].pallet = n THEN entries'[L + 1].qty ELSE 0)
<1> DEFINE B == EntriesOf(n)
           q == entries'[L + 1].qty
<1>1. /\ IsFiniteSet(B) /\ B \subseteq 1..L
      /\ \A i \in 1..L : EntryQty[i] = entries[i].qty /\ EntryQty[i] \in Nat
  BY EntriesFinite
<1>2. EntryQty'[L + 1] = q /\ \A i \in 1..L : EntryQty'[i] = EntryQty[i]
  <2>1. EntryQty' = [i \in 1..(L + 1) |-> entries'[i].qty]
    BY DEF EntryQty
  <2> QED
    BY <1>1, <2>1
<1>3. SumFunctionOnSet(EntryQty', B) = SumFunctionOnSet(EntryQty, B)
  BY <1>1, <1>2, SumCongruence
<1>4. SumFunctionOnSet(EntryQty, B) \in Nat
  BY <1>1, SumIsNat
<1>5. EntriesOf(n)' = IF entries'[L + 1].pallet = n THEN B \union {L + 1} ELSE B
  BY DEF EntriesOf
<1>6. CASE entries'[L + 1].pallet = n
  <2>1. L + 1 \notin B
    BY <1>1
  <2>2. \A y \in B \union {L + 1} : EntryQty'[y] \in Nat
    BY <1>1, <1>2
  <2>3. SumFunctionOnSet(EntryQty', B \union {L + 1}) = EntryQty'[L + 1] + SumFunctionOnSet(EntryQty', B)
    <3> HIDE DEF B, q
    <3> QED
      BY <1>1, <2>1, <2>2, SumAdds
  <2> HIDE DEF B, q
  <2>4. q \in Nat
    BY DEF q
  <2> QED
    BY <1>2, <1>3, <1>4, <1>5, <1>6, <2>3, <2>4 DEF q, B
<1>7. CASE entries'[L + 1].pallet # n
  BY <1>3, <1>4, <1>5, <1>7
<1> QED
  BY <1>6, <1>7

\* What taking the newest entry back takes from the sum of its pallet.
LEMMA DroppedSum ==
  ASSUME TypeOK, NEW L \in Nat, L = Len(entries), L \in 1..L, NEW n,
         Len(entries') = L - 1, \A i \in 1..(L - 1) : entries'[i] = entries[i]
  PROVE  /\ SumFunctionOnSet(EntryQty', EntriesOf(n)') \in Nat
         /\ SumFunctionOnSet(EntryQty, EntriesOf(n))
              = SumFunctionOnSet(EntryQty', EntriesOf(n)')
                + (IF entries[L].pallet = n THEN entries[L].qty ELSE 0)
<1> DEFINE B == EntriesOf(n)
<1>1. /\ IsFiniteSet(B) /\ B \subseteq 1..L
      /\ \A i \in 1..L : EntryQty[i] = entries[i].qty /\ EntryQty[i] \in Nat
  BY EntriesFinite
<1>2. EntriesOf(n)' = B \ {L}
  BY DEF EntriesOf
<1>3. \A i \in B \ {L} : EntryQty'[i] = EntryQty[i]
  <2>1. EntryQty' = [i \in 1..(L - 1) |-> entries'[i].qty]
    BY DEF EntryQty
  <2>2. \A i \in B \ {L} : i \in 1..(L - 1) /\ i \in 1..L
    BY <1>1
  <2> QED
    BY <1>1, <2>1, <2>2
<1>4. IsFiniteSet(B \ {L}) /\ \A i \in B : EntryQty[i] \in Nat
  BY <1>1, FS_RemoveElement
<1>5. /\ SumFunctionOnSet(EntryQty', B \ {L}) = SumFunctionOnSet(EntryQty, B \ {L})
      /\ SumFunctionOnSet(EntryQty, B \ {L}) \in Nat
  BY <1>3, <1>4, SumCongruence, SumIsNat
<1>6. CASE entries[L].pallet = n
  <2>1. L \in B
    BY <1>6 DEF EntriesOf
  <2>2. SumFunctionOnSet(EntryQty, B) = EntryQty[L] + SumFunctionOnSet(EntryQty, B \ {L})
    <3> HIDE DEF B
    <3>1. IsFiniteSet(B)
      BY <1>1
    <3>2. \A x \in B : SumFunctionOnSet(EntryQty, B) = EntryQty[x] + SumFunctionOnSet(EntryQty, B \ {x})
      BY <1>4, <3>1, SumTakesAny
    <3> QED
      BY <2>1, <3>2
  <2>3. EntryQty[L] = entries[L].qty /\ EntryQty[L] \in Nat
    BY <1>1
  <2> HIDE DEF B
  <2>4. SumFunctionOnSet(EntryQty, B) = SumFunctionOnSet(EntryQty, B \ {L}) + entries[L].qty
    BY <1>5, <2>2, <2>3
  <2> QED
    BY <1>2, <1>5, <1>6, <2>4 DEF B
<1>7. CASE entries[L].pallet # n
  <2>1. B \ {L} = B
    BY <1>7 DEF EntriesOf
  <2> HIDE DEF B
  <2>2. SumFunctionOnSet(EntryQty, B) \in Nat
    BY <1>5, <2>1
  <2>3. SumFunctionOnSet(EntryQty, B) = SumFunctionOnSet(EntryQty', EntriesOf(n)')
    BY <1>2, <1>5, <2>1
  <2> QED
    BY <1>7, <2>2, <2>3 DEF B
<1> QED
  BY <1>6, <1>7

\* Closing, confirming and migrating leave pallets, quantities and totals alone.
LEMMA SameBooks ==
  ASSUME TypeOK, TotalsBooked,
         Len(entries') = Len(entries),
         \A i \in 1..Len(entries) :
           /\ entries'[i].pallet = entries[i].pallet /\ entries'[i].qty = entries[i].qty
           /\ entries'[i].created = entries[i].created,
         total' = total,
         \A n \in PalletNumbers : status'[n] = "absent" <=> status[n] = "absent"
  PROVE  TotalsBooked'
<1>1. CreatorIsOldest'
  BY SameCreators DEF TotalsBooked
<1>2. \A n \in PalletNumbers : EntriesOf(n)' = EntriesOf(n)
  BY DEF EntriesOf
<1>3. EntryQty' = EntryQty
  BY DEF EntryQty
<1>4. \A n \in PalletNumbers : TotalAddsUp(n)'
  BY <1>2, <1>3, TotalsByPallet DEF TotalAddsUp
<1> QED
  BY <1>1, <1>4, TotalsByPalletNext

LEMMA RegisterKeepsTotals ==
  ASSUME TypeOK, TotalsBooked,
         NEW n \in PalletNumbers, NEW v \in Variants, NEW q \in Quantities,
         RegisterOnExisting(n, v, q) \/ RegisterOnNew(n, v, q)
  PROVE  TotalsBooked'
<1>1. CreatorIsOldest'
  BY RegisterKeepsCreators DEF TotalsBooked
<1>2. PICK c \in BOOLEAN : PutColli(n, v, q, c)
  BY DEF RegisterOnExisting, RegisterOnNew
<1>3. PICK L \in Nat : L = Len(entries)
  BY EntryTypes
<1>4. /\ Len(entries') = L + 1 /\ \A i \in 1..L : entries'[i] = entries[i]
      /\ entries'[L + 1].pallet = n /\ entries'[L + 1].qty = q
  BY <1>2, <1>3 DEF PutColli, TypeOK
<1>5. /\ q \in Nat
      /\ \A m \in PalletNumbers : total[m] \in Nat /\ total'[m] = total[m] + IF m = n THEN q ELSE 0
  BY <1>2, QuantitiesAssumption DEF PutColli, TypeOK
<1>6. ASSUME NEW m \in PalletNumbers
      PROVE  TotalAddsUp(m)'
  <2>1. SumFunctionOnSet(EntryQty', EntriesOf(m)')
          = SumFunctionOnSet(EntryQty, EntriesOf(m)) + (IF n = m THEN q ELSE 0)
    BY <1>3, <1>4, <1>5, AppendedSum
  <2>2. total[m] = SumFunctionOnSet(EntryQty, EntriesOf(m))
    BY TotalsByPallet DEF TotalAddsUp
  <2> QED
    BY <1>5, <2>1, <2>2 DEF TotalAddsUp
<1> QED
  BY <1>1, <1>6, TotalsByPalletNext

LEMMA UndoKeepsTotals ==
  ASSUME TypeOK, TotalsBooked, UndoLast
  PROVE  TotalsBooked'
<1> DEFINE e == entries[Len(entries)]
<1>1. PICK L \in Nat : L = Len(entries)
  BY EntryTypes
<1>2. /\ L \in 1..L /\ e = entries[L]
      /\ e.pallet \in PalletNumbers /\ e.qty \in Nat \ {0}
      /\ entries' = SubSeq(entries, 1, L - 1)
      /\ UndoRemovingPallet(e) \/ UndoKeepingPallet(e)
  BY <1>1, LastEntry DEF UndoLast
<1> HIDE DEF e
<1>3. PICK n \in PalletNumbers : n = e.pallet
  BY <1>2
<1>4. Len(entries') = L - 1 /\ \A i \in 1..(L - 1) : entries'[i] = entries[i]
  BY <1>1, <1>2 DEF TypeOK
<1>5. /\ status[n] # "absent"
      /\ e.created <=> \A j \in 1..(L - 1) : entries[j].pallet # n
  BY <1>1, <1>2, <1>3 DEF TotalsBooked, CreatorIsOldest
<1>6. PICK rest \in Nat : rest = SumFunctionOnSet(EntryQty', EntriesOf(n)')
  BY <1>1, <1>2, <1>4, DroppedSum
<1>7. total[n] = rest + e.qty
  <2>1. SumFunctionOnSet(EntryQty, EntriesOf(n)) = rest + (IF entries[L].pallet = n THEN entries[L].qty ELSE 0)
    BY <1>1, <1>2, <1>4, <1>6, DroppedSum
  <2>2. total[n] = SumFunctionOnSet(EntryQty, EntriesOf(n))
    BY TotalsByPallet DEF TotalAddsUp
  <2> QED
    BY <1>2, <1>3, <2>1, <2>2
<1>8. e.created => rest = 0
  <2>1. ASSUME e.created
        PROVE  EntriesOf(n)' = {}
    BY <1>4, <1>5, <2>1 DEF EntriesOf
  <2> QED
    BY <1>6, <2>1, SumOfNothing
<1>9. e.created => RemovesShell(e)
  BY <1>2, <1>3, <1>5, <1>7, <1>8 DEF RemovesShell
<1>10. /\ total'[n] = rest
       /\ \A m \in PalletNumbers \ {n} : total'[m] = total[m] /\ status'[m] = status[m]
       /\ status'[n] = IF e.created THEN "absent" ELSE status[n]
  <2>1. CASE UndoRemovingPallet(e)
    <3>1. e.created /\ rest = 0
      BY <1>8, <2>1 DEF UndoRemovingPallet, RemovesShell
    <3> QED
      BY <1>3, <2>1, <3>1 DEF UndoRemovingPallet, TypeOK
  <2>2. CASE UndoKeepingPallet(e)
    <3>1. ~e.created
      BY <1>9, <2>2 DEF UndoKeepingPallet
    <3>2. Decreased(total[n], e.qty) = rest
      BY <1>2, <1>7 DEF Decreased
    <3> QED
      BY <1>3, <1>5, <2>2, <3>1, <3>2 DEF UndoKeepingPallet, TypeOK
  <2> QED
    BY <1>2, <2>1, <2>2
<1>11. CreatorIsOldest'
  BY <1>1, <1>2, <1>3, <1>4, <1>10, UndoKeepsCreators DEF TotalsBooked
<1>12. ASSUME NEW m \in PalletNumbers
       PROVE  TotalAddsUp(m)'
  <2>1. CASE m = n
    BY <1>6, <1>10, <2>1 DEF TotalAddsUp
  <2>2. CASE m # n
    <3>1. /\ SumFunctionOnSet(EntryQty', EntriesOf(m)') \in Nat
          /\ SumFunctionOnSet(EntryQty, EntriesOf(m))
               = SumFunctionOnSet(EntryQty', EntriesOf(m)') + (IF entries[L].pallet = m THEN entries[L].qty ELSE 0)
      BY <1>1, <1>2, <1>4, DroppedSum
    <3>2. SumFunctionOnSet(EntryQty, EntriesOf(m)) = SumFunctionOnSet(EntryQty', EntriesOf(m)')
      BY <1>2, <1>3, <2>2, <3>1
    <3> QED
      BY <1>10, <2>2, <3>2, TotalsByPallet DEF TotalAddsUp
  <2> QED
    BY <2>1, <2>2
<1> QED
  BY <1>11, <1>12, TotalsByPalletNext

LEMMA OperateKeepsTotals ==
  ASSUME TypeOK, TotalsBooked, Operate
  PROVE  TotalsBooked'
<1>1. CASE Register
  BY <1>1, RegisterKeepsTotals DEF Register
<1>2. CASE UndoLast
  BY <1>2, UndoKeepsTotals
<1>3. ASSUME NEW n \in PalletNumbers, ConfirmLatestUnconfirmed(n)
      PROVE  TotalsBooked'
  <2>1. PICK k \in 1..Len(entries) :
          entries' = [entries EXCEPT ![k] = Marked(@)] /\ UNCHANGED <<status, total, items>>
    BY <1>3 DEF ConfirmLatestUnconfirmed
  <2>2. entries[k] \in Entry /\ Len(entries') = Len(entries)
    BY <2>1 DEF TypeOK
  <2>3. entries'[k] = Marked(entries[k]) /\ \A i \in 1..Len(entries) \ {k} : entries'[i] = entries[i]
    BY <2>1 DEF TypeOK
  <2>4. \A i \in 1..Len(entries) : /\ entries'[i].pallet = entries[i].pallet
                                  /\ entries'[i].qty = entries[i].qty
                                  /\ entries'[i].created = entries[i].created
    BY <2>2, <2>3, MarkedType
  <2> QED
    BY <2>1, <2>2, <2>4, SameBooks
<1>4. ASSUME NEW n \in Live, ClosePallet(n)
      PROVE  TotalsBooked'
  <2>1. \A m \in PalletNumbers : status'[m] = "absent" <=> status[m] = "absent"
    BY <1>4 DEF ClosePallet, TypeOK
  <2> QED
    BY <1>4, <2>1, SameBooks DEF ClosePallet
<1>5. CASE ClearAllData
  <2>1. Len(entries') = 0 /\ Live' = {} /\ \A n \in PalletNumbers : total'[n] = 0
    BY <1>5 DEF ClearAllData, Live
  <2>2. CreatorIsOldest' /\ \A n \in PalletNumbers : EntriesOf(n)' = {}
    BY <2>1 DEF CreatorIsOldest, EntriesOf
  <2>3. \A n \in PalletNumbers : TotalAddsUp(n)'
    BY <2>1, <2>2, SumOfNothing DEF TotalAddsUp
  <2> QED
    BY <2>2, <2>3, TotalsByPalletNext
<1> QED
  BY <1>1, <1>2, <1>3, <1>4, <1>5 DEF Operate

LEMMA InitTotals == LifeInit => TotalsInv
<1> SUFFICES ASSUME LifeInit PROVE TotalsInv
  OBVIOUS
<1>1. CASE Init
  <2>1. CreatorIsOldest
    BY <1>1, InitLedgerInv DEF LedgerInv
  <2>2. \A n \in PalletNumbers : EntriesOf(n) = {} /\ total[n] = 0
    BY <1>1 DEF Init, EntriesOf
  <2>3. TotalsBooked
    BY <2>1, <2>2, TotalsByPallet, SumOfNothing DEF TotalAddsUp
  <2> QED
    BY <2>3, TotalsShown DEF LifeInit, TotalsInv
<1>2. ASSUME NEW f \in OlderFiles, IsDatabase(f)
      PROVE  TotalsInv
  <2>1. CurrentFile.status = f.status /\ CurrentFile.total = f.total /\ CurrentFile.entries = f.entries
    BY <1>2 DEF IsDatabase, CurrentFile
  <2>2. TotalsIn(CurrentFile)
    BY <2>1, OlderFilesAddUp, SameTotals
  <2> QED
    BY <2>2 DEF LifeInit, TotalsInv
<1> QED
  BY <1>1, <1>2 DEF LifeInit

LEMMA NextTotals == LifeInv /\ TotalsInv /\ [LifeNext]_allVars => TotalsInv'
<1> SUFFICES ASSUME LifeInv, TotalsInv, [LifeNext]_allVars PROVE TotalsInv'
  OBVIOUS
<1>1. TypeOK /\ TotalsBooked
  BY TotalsShown DEF LifeInv, LifeTypeOK, TotalsInv
<1>2. ASSUME UNCHANGED <<status, total, entries>>
      PROVE  TotalsIn(CurrentFile)'
  <2>1. /\ CurrentFile'.status = CurrentFile.status /\ CurrentFile'.total = CurrentFile.total
        /\ CurrentFile'.entries = CurrentFile.entries
    BY <1>2 DEF CurrentFile
  <2> QED
    BY <2>1, SameTotals DEF TotalsInv
<1>3. ASSUME NEW f, TotalsIn(f), BecomesDatabase(f)
      PROVE  TotalsIn(CurrentFile)'
  <2>1. CurrentFile'.status = f.status /\ CurrentFile'.total = f.total /\ CurrentFile'.entries = f.entries
    BY <1>3 DEF BecomesDatabase, CurrentFile
  <2> QED
    BY <1>3, <2>1, SameTotals
<1>4. CASE Start \/ AcceptRequests \/ AuditRestore \/ Crash \/ CancelRestore \/ UNCHANGED allVars
  <2>1. /\ UNCHANGED <<status, total, entries, backups>>
        /\ restore' = "copy" => restore = "copy" /\ upload' = upload
    BY <1>4 DEF Start, AcceptRequests, AuditRestore, Crash, CancelRestore, tables, lifeVars, allVars
  <2> QED
    BY <1>2, <2>1 DEF TotalsInv
<1>5. CASE Initialise
  <2>1. UNCHANGED <<restore, upload, backups>>
    BY <1>5 DEF Initialise, CreateTables, AddMoved, AddQuantity, MigrateConfirmedQuantity, MigratePalletRows,
                Statement
  <2>2. CASE MigrateConfirmedQuantity
    <3>1. /\ UNCHANGED <<status, total>> /\ Len(entries') = Len(entries)
          /\ \A i \in 1..Len(entries) : entries'[i] = Backfilled(entries[i]) /\ entries[i] \in Entry
      BY <1>1, <2>2, BackfilledEntries DEF MigrateConfirmedQuantity
    <3>2. \A i \in 1..Len(entries) : /\ entries'[i].pallet = entries[i].pallet
                                    /\ entries'[i].qty = entries[i].qty
                                    /\ entries'[i].created = entries[i].created
      BY <3>1 DEF Backfilled, Entry
    <3>3. TotalsBooked'
      BY <1>1, <3>1, <3>2, SameBooks
    <3> QED
      BY <2>1, <3>3, TotalsShownNext DEF TotalsInv
  <2>3. CASE CreateTables \/ AddMoved \/ AddQuantity \/ MigratePalletRows
    <3>1. UNCHANGED <<status, total, entries>>
      BY <2>3 DEF CreateTables, AddMoved, AddQuantity, MigratePalletRows, tables
    <3> QED
      BY <1>2, <2>1, <3>1 DEF TotalsInv
  <2> QED
    BY <1>5, <2>2, <2>3 DEF Initialise
<1>6. CASE CopyUpload
  <2>1. BecomesDatabase(upload) /\ TotalsIn(upload) /\ restore' = "initialise" /\ UNCHANGED backups
    BY <1>6 DEF CopyUpload, TotalsInv
  <2> QED
    BY <1>3, <2>1 DEF TotalsInv
<1>7. CASE Operate
  <2>1. restore = "idle" /\ UNCHANGED <<restore, upload, backups>>
    BY <1>7 DEF Operate, LockFree, lifeVars
  <2>2. TotalsBooked'
    BY <1>1, <1>7, OperateKeepsTotals
  <2> QED
    BY <2>1, <2>2, TotalsShownNext DEF TotalsInv
<1>8. CASE BackupDatabase
  <2>1. /\ UNCHANGED <<status, total, entries, restore, upload>>
        /\ backups' = backups \union {CurrentFile}
    BY <1>8 DEF BackupDatabase
  <2> QED
    BY <1>2, <2>1 DEF TotalsInv
<1>9. ASSUME NEW f \in backups, RestoreInOneTransaction(f)
      PROVE  TotalsInv'
  <2>1. BecomesDatabase(f) /\ TotalsIn(f) /\ UNCHANGED <<restore, upload, backups>>
    BY <1>9 DEF RestoreInOneTransaction, TotalsInv
  <2> QED
    BY <1>3, <2>1 DEF TotalsInv
<1>10. ASSUME NEW f \in backups \union OlderFiles, ReceiveUpload(f)
       PROVE  TotalsInv'
  <2>1. UNCHANGED <<status, total, entries, backups>> /\ upload' = f
    BY <1>10 DEF ReceiveUpload, tables
  <2>2. TotalsIn(f)
    BY OlderFilesAddUp DEF TotalsInv
  <2> QED
    BY <1>2, <2>1, <2>2 DEF TotalsInv
<1> QED
  BY <1>4, <1>5, <1>6, <1>7, <1>8, <1>9, <1>10 DEF LifeNext, Serve

LEMMA TotalsInvCorrect == LifeSpec => []TotalsInv
<1>1. LifeInv /\ [LifeNext]_allVars => (TotalsInv => TotalsInv')
  BY NextTotals
<1> QED
  BY <1>1, InitTotals, LifeInvCorrect, PTL DEF LifeSpec

-----------------------------------------------------------------------------
(* The ledger a database shows.                                             *)

\* Of a sound database that is the ledger of WarehouseStoreRefinement.
ShowsBookings ==
  LedgerOf(CurrentFile).book = BookOf(entries) /\ LedgerOf(CurrentFile).closed = ClosedPallets

LEMMA LedgerShown == TypeOK /\ ConfirmedWithinQuantity => ShowsBookings
<1> SUFFICES ASSUME TypeOK, ConfirmedWithinQuantity PROVE ShowsBookings
  OBVIOUS
<1>1. ASSUME NEW i \in 1..Len(entries)
      PROVE  [Booking(entries[i]) EXCEPT !.confirmed = ConfirmedColli(entries[i])] = Booking(entries[i])
  <2>1. ConfirmedColli(entries[i]) = entries[i].confirmed
    BY DEF ConfirmedColli, ConfirmedWithinQuantity
  <2> QED
    BY <2>1 DEF Booking
<1> QED
  BY <1>1 DEF ShowsBookings, LedgerOf, CurrentFile, BookOf, ClosedPallets

LEMMA LedgerShownNext == TypeOK' /\ ConfirmedWithinQuantity' => ShowsBookings'
BY LedgerShown, PTL

\* A file shows the ledger that the database has once it is copied.
LEMMA LedgerOfFile ==
  ASSUME NEW f, BecomesDatabase(f)
  PROVE  LedgerOf(CurrentFile)' = LedgerOf(f)
BY DEF BecomesDatabase, LedgerOf, CurrentFile

LEMMA LedgerUntouched ==
  ASSUME UNCHANGED <<status, entries>>
  PROVE  LedgerOf(CurrentFile)' = LedgerOf(CurrentFile)
BY DEF LedgerOf, CurrentFile

\* No statement of InitializeAsync changes the ledger: a confirmation is carried
\* over as it was, for entries of any quantity.
LEMMA MigrationsKeepTheLedger ==
  ASSUME LifeInv, [LifeNext]_allVars, Initialising
  PROVE  LedgerOf(CurrentFile)' = LedgerOf(CurrentFile) /\ UNCHANGED backups
<1>1. ~LockFree /\ ~CopyUpload
  BY DEF Initialising, LifeInv, LockFree, CopyUpload
<1>2. CASE MigrateConfirmedQuantity
  <2>1. /\ UNCHANGED <<status, backups>> /\ Len(entries') = Len(entries)
        /\ \A i \in 1..Len(entries) : entries'[i] = Backfilled(entries[i]) /\ entries[i] \in Entry
    BY <1>2, BackfilledEntries DEF MigrateConfirmedQuantity, Statement, LifeInv, LifeTypeOK
  <2>2. ASSUME NEW i \in 1..Len(entries)
        PROVE  [Booking(entries'[i]) EXCEPT !.confirmed = ConfirmedColli(entries'[i])]
                 = [Booking(entries[i]) EXCEPT !.confirmed = ConfirmedColli(entries[i])]
    <3>1. ConfirmedColli(entries'[i]) = ConfirmedColli(entries[i])
      BY <2>1, BackfilledEntry
    <3>2. /\ entries'[i].pallet = entries[i].pallet /\ entries'[i].qty = entries[i].qty
          /\ entries'[i].variant = entries[i].variant
      BY <2>1 DEF Backfilled, Entry
    <3> QED
      BY <3>1, <3>2 DEF Booking
  <2> QED
    BY <2>1, <2>2 DEF LedgerOf, CurrentFile
<1>3. ASSUME ~MigrateConfirmedQuantity
      PROVE  UNCHANGED <<status, entries, backups>>
  BY <1>1, <1>3 DEF LifeNext, Serve, Initialise, CreateTables, AddMoved, AddQuantity, MigratePalletRows,
                    Statement, Start, AcceptRequests, AuditRestore, Operate, BackupDatabase,
                    RestoreInOneTransaction, ReceiveUpload, Crash, CancelRestore, tables, allVars, lifeVars
<1> QED
  BY <1>2, <1>3, LedgerUntouched

-----------------------------------------------------------------------------
(* Every step of the database is one of the ledger with backups.            *)

\* Where the two ledgers are the same, so are their operations.
LEMMA SameOperations ==
  ASSUME ShowsBookings, ShowsBookings', Ledger!Next
  PROVE  Archive!Next
<1> USE DEF ShowsBookings
<1>1. /\ Archive!Variants = Ledger!Variants /\ Archive!PalletNumbers = Ledger!PalletNumbers
      /\ Archive!Pallets = Ledger!Pallets
  BY DEF Archive!Variants, Ledger!Variants, Archive!PalletNumbers, Ledger!PalletNumbers,
         Archive!Pallets, Ledger!Pallets
<1>2. \A n, v : Archive!Carries(n, v) <=> Ledger!Carries(n, v)
  BY DEF Archive!Carries, Ledger!Carries
<1>3. \A n : Archive!Carried(n) = Ledger!Carried(n)
  BY <1>1, <1>2 DEF Archive!Carried, Ledger!Carried
<1>4. \A n : Archive!Cardinality(Archive!Carried(n)) = Ledger!Cardinality(Ledger!Carried(n))
  BY <1>3 DEF Archive!Cardinality, Ledger!Cardinality
<1>5. \A n, v : Archive!Takes(n, v) <=> Ledger!Takes(n, v)
  BY <1>1, <1>2, <1>3, <1>4 DEF Archive!Takes, Ledger!Takes
<1>6. \A n, v, q : Archive!Book(n, v, q) <=> Ledger!Book(n, v, q)
  BY DEF Archive!Book, Ledger!Book
<1>7. ASSUME NEW n \in Ledger!PalletNumbers, NEW v \in Ledger!Variants, NEW q \in Quantities,
             Ledger!RegisterWithVariant(n, v, q) \/ Ledger!RegisterWithRoom(n, v, q)
               \/ Ledger!RegisterNewPallet(n, v, q)
      PROVE  Archive!Next
  <2>1. \/ Archive!RegisterWithVariant(n, v, q) \/ Archive!RegisterWithRoom(n, v, q)
        \/ Archive!RegisterNewPallet(n, v, q)
    BY <1>1, <1>2, <1>5, <1>6, <1>7
    DEF Archive!RegisterWithVariant, Archive!RegisterWithRoom, Archive!RegisterNewPallet,
        Ledger!RegisterWithVariant, Ledger!RegisterWithRoom, Ledger!RegisterNewPallet
  <2> QED
    BY <1>1, <2>1 DEF Archive!Next
<1>8. ASSUME NEW n \in Ledger!PalletNumbers, Ledger!Close(n) \/ Ledger!Confirm(n)
      PROVE  Archive!Next
  <2>1. Archive!Close(n) \/ Archive!Confirm(n)
    BY <1>1, <1>8 DEF Archive!Close, Ledger!Close, Archive!Confirm, Ledger!Confirm
  <2> QED
    BY <1>1, <2>1 DEF Archive!Next
<1>9. ASSUME Ledger!Undo \/ Ledger!Clear
      PROVE  Archive!Next
  BY <1>9 DEF Archive!Undo, Ledger!Undo, Archive!Clear, Ledger!Clear, Archive!Next
<1> QED
  BY <1>7, <1>8, <1>9 DEF Ledger!Next

ShowsLedger == <<LedgerOf(CurrentFile), LedgersOf(backups)>>

LEMMA LedgerFields ==
  ASSUME NEW f
  PROVE  LedgerOf(f) = [book |-> LedgerOf(f).book, closed |-> LedgerOf(f).closed]
BY DEF LedgerOf

\* An operation on tables that are sound.
LEMMA OperateOnLedger ==
  ASSUME SafeInv, SafeInv', Operate, halfway' # "used"
  PROVE  Archive!BackupsNext \/ UNCHANGED ShowsLedger
<1>1. /\ phase = "serving" /\ restore = "idle" /\ UNCHANGED <<schema, phase, restore, backups>>
      /\ halfway' = IF halfway = "left" THEN "used" ELSE halfway
  BY DEF Operate, LockFree, lifeVars
<1>2. TypeOK /\ TypeOK' /\ halfway = "no" /\ halfway' = "no"
  BY <1>1 DEF SafeInv, LifeInv, LifeTypeOK
<1>3. StoreInv
  BY <1>1, <1>2, SoundTables DEF SafeInv, TablesSafe
<1>4. StoreInv'
  BY <1>3, OperateKeepsStoreInv
<1>5. RowInv /\ ShowsBookings
  BY <1>2, <1>3, StockIsBooked, LedgerShown DEF StoreInv
<1>6. RowInv' /\ ShowsBookings'
  <2>1. ConservationInv' => RowInv'
    BY StockIsBooked, PTL
  <2> QED
    BY <1>2, <1>4, <2>1, LedgerShownNext DEF StoreInv
<1>7. [Ledger!Next]_<<BookOf(entries), ClosedPallets>>
  BY <1>5, <1>6, OperateIsNext, StepImplements
<1>8. LedgersOf(backups)' = LedgersOf(backups)
  BY <1>1 DEF LedgersOf
<1>9. CASE Ledger!Next
  BY <1>5, <1>6, <1>8, <1>9, SameOperations DEF Archive!BackupsNext, Archive!Operate
<1>10. CASE UNCHANGED <<BookOf(entries), ClosedPallets>>
  <2>1. LedgerOf(CurrentFile)' = LedgerOf(CurrentFile)
    BY <1>5, <1>6, <1>10, LedgerFields DEF ShowsBookings
  <2> QED
    BY <1>8, <2>1 DEF ShowsLedger
<1> QED
  BY <1>7, <1>9, <1>10

\* A whole file is put in place of the tables.
LEMMA RestoreOnLedger ==
  ASSUME NEW f \in backups \union OlderFiles, BecomesDatabase(f), UNCHANGED backups
  PROVE  Archive!BackupsNext
<1>1. LedgerOf(CurrentFile)' = LedgerOf(f)
  BY LedgerOfFile
<1>2. LedgerOf(f) \in LedgersOf(backups) \union LedgersOf(OlderFiles)
  BY DEF LedgersOf
<1> QED
  BY <1>1, <1>2 DEF Archive!BackupsNext, Archive!Restore, LedgersOf

LEMMA BackUpOnLedger ==
  ASSUME BackupDatabase
  PROVE  Archive!BackupsNext
<1>1. UNCHANGED <<status, entries>> /\ backups' = backups \union {CurrentFile}
  BY DEF BackupDatabase
<1>2. LedgerOf(CurrentFile)' = LedgerOf(CurrentFile)
  BY <1>1, LedgerUntouched
<1>3. LedgersOf(backups') = LedgersOf(backups) \union {LedgerOf(CurrentFile)}
  BY <1>1 DEF LedgersOf
<1> QED
  BY <1>2, <1>3, LedgerFields DEF Archive!BackupsNext, Archive!BackUp, LedgersOf

LEMMA StepOnLedger ==
  ASSUME SafeInv, SafeInv', [LifeNext]_allVars, halfway' # "used"
  PROVE  Archive!BackupsNext \/ UNCHANGED ShowsLedger
<1>1. CASE Operate
  BY <1>1, OperateOnLedger
<1>2. CASE BackupDatabase
  BY <1>2, BackUpOnLedger
<1>3. ASSUME NEW f \in backups, RestoreInOneTransaction(f)
      PROVE  Archive!BackupsNext
  BY <1>3, RestoreOnLedger DEF RestoreInOneTransaction
<1>4. CASE CopyUpload
  <2>1. upload \in backups \union OlderFiles
    BY <1>4 DEF CopyUpload, SafeInv, UploadKnown
  <2> QED
    BY <1>4, <2>1, RestoreOnLedger DEF CopyUpload
<1>5. CASE Initialise
  <2>1. Initialising
    BY <1>5 DEF Initialise, CreateTables, AddMoved, AddQuantity, MigrateConfirmedQuantity,
                MigratePalletRows, Statement
  <2> QED
    BY <2>1, MigrationsKeepTheLedger DEF SafeInv, ShowsLedger, LedgersOf
<1>6. ASSUME \/ Start \/ AcceptRequests \/ AuditRestore \/ Crash \/ CancelRestore \/ UNCHANGED allVars
             \/ \E f \in backups \union OlderFiles : ReceiveUpload(f)
      PROVE  UNCHANGED ShowsLedger
  <2>1. UNCHANGED <<status, entries, backups>>
    BY <1>6 DEF Start, AcceptRequests, AuditRestore, Crash, CancelRestore, ReceiveUpload,
                tables, lifeVars, allVars
  <2> QED
    BY <2>1, LedgerUntouched DEF ShowsLedger, LedgersOf
<1> QED
  BY <1>1, <1>2, <1>3, <1>4, <1>5, <1>6 DEF LifeNext, Serve

LEMMA InitOnLedger == LifeInit => Archive!BackupsInit
<1> SUFFICES ASSUME LifeInit PROVE Archive!BackupsInit
  OBVIOUS
<1>1. LedgersOf(backups) = {}
  BY DEF LifeInit, LedgersOf
<1>2. CASE Init
  BY <1>1, <1>2 DEF Init, Archive!BackupsInit, Archive!Init, LedgerOf, CurrentFile
<1>3. ASSUME NEW f \in OlderFiles, IsDatabase(f)
      PROVE  Archive!BackupsInit
  <2>1. LedgerOf(CurrentFile) = LedgerOf(f)
    BY <1>3 DEF IsDatabase, LedgerOf, CurrentFile
  <2>2. LedgerOf(f) \in LedgersOf(OlderFiles)
    BY DEF LedgersOf
  <2> QED
    BY <1>1, <2>1, <2>2 DEF Archive!BackupsInit, Archive!Shows
<1> QED
  BY <1>2, <1>3 DEF LifeInit

-----------------------------------------------------------------------------
(* The theorems.                                                            *)

\* Tables, files and backups keep their types, whatever version the database was
\* begun in and wherever a start or a restore was broken off.
THEOREM LifeTypesKept == LifeSpec => []LifeTypeOK
<1>1. LifeInv => LifeTypeOK
  BY DEF LifeInv
<1> QED
  BY <1>1, LifeInvCorrect, PTL

\* Whenever writing operations can run, totals and pallet rows are those of the
\* entries, on the tables of a cancelled restore, too: for files of any version and
\* of any stock, any number of restores of any backups, and crashes between any two
\* statements.  Item rows and confirmations are promised only as long as no restore
\* was cancelled before its last migration, or the server was started again before
\* it wrote anything: until then it serves without them.
THEOREM TablesSoundWhenServing == LifeSpec => []SoundWhenServing
<1>1. SafeInv /\ TotalsInv => SoundWhenServing
  <2> SUFFICES ASSUME SafeInv, TotalsInv, LockFree PROVE TotalsBooked /\ (halfway = "no" => Complete /\ Sound)
    BY DEF SoundWhenServing
  <2>1. halfway = "no" => Complete /\ SoundFile(CurrentFile)
    BY DEF SafeInv, TablesSafe, LockFree
  <2>2. TypeOK
    BY DEF SafeInv, LifeInv, LifeTypeOK
  <2>3. TotalsBooked
    BY TotalsShown DEF TotalsInv
  <2> QED
    BY <2>1, <2>2, <2>3, SoundTables, StoreInvIsSound
<1> QED
  BY <1>1, SafeInvCorrect, TotalsInvCorrect, PTL

LEMMA NeverHalfway ==
  ASSUME "restore cancelled" \notin Interruptions
  PROVE  LifeSpec => [](SafeInv /\ halfway = "no")
<1> DEFINE Inv == SafeInv /\ halfway = "no"
<1>1. LifeInit => Inv
  BY InitSafeInv DEF LifeInit
<1>2. Inv /\ [LifeNext]_allVars => Inv'
  <2> SUFFICES ASSUME Inv, [LifeNext]_allVars PROVE halfway' = "no"
    BY NextSafeInv
  <2> QED
    BY DEF LifeNext, Serve, Initialise, CreateTables, AddMoved, AddQuantity, MigrateConfirmedQuantity,
           MigratePalletRows, Statement, Start, AcceptRequests, CopyUpload, AuditRestore, Operate,
           BackupDatabase, RestoreInOneTransaction, ReceiveUpload, Crash, CancelRestore, May, allVars
<1> QED
  BY <1>1, <1>2, PTL DEF LifeSpec

\* Where restores are not cancelled, older files are reused safely, as the notes on
\* the release say: every start of the server ends with sound tables.
THEOREM OlderFilesSafeUncancelled ==
  ASSUME "restore cancelled" \notin Interruptions
  PROVE  LifeSpec => OlderFilesReusedSafely
<1> DEFINE Inv == SafeInv /\ halfway = "no"
           Safe == phase = "starting" /\ phase' = "serving" => Sound
<1>1. LifeSpec => []Inv
  BY NeverHalfway
<1>2. Inv /\ [LifeNext]_allVars => Safe
  <2> SUFFICES ASSUME Inv, [LifeNext]_allVars, phase = "starting", phase' = "serving" PROVE Sound
    OBVIOUS
  <2>1. task = "done"
    BY DEF LifeNext, Serve, Initialise, CreateTables, AddMoved, AddQuantity, MigrateConfirmedQuantity,
           MigratePalletRows, Statement, Start, AcceptRequests, CopyUpload, AuditRestore, Operate, LockFree,
           BackupDatabase, RestoreInOneTransaction, ReceiveUpload, Crash, CancelRestore, allVars, lifeVars
  <2>2. TypeOK /\ SoundFile(CurrentFile)
    BY <2>1 DEF SafeInv, LifeInv, LifeTypeOK, TablesSafe, Initialising, Migrated
  <2> QED
    BY <2>2, SoundTables, StoreInvIsSound
<1>3. Inv /\ [LifeNext]_allVars => [Safe]_allVars
  BY <1>2
<1> HIDE DEF Inv, Safe
<1> QED
  BY <1>1, <1>3, PTL DEF LifeSpec, OlderFilesReusedSafely, Safe

\* Initialising a database that is up to date and sound changes nothing in it,
\* whatever its tables hold and however often the server is started.
THEOREM InitialisingTwiceIsOnce == LifeSpec => UpToDateTablesKept
<1> DEFINE Kept ==
      Initialising /\ Complete /\ Sound /\ ~(restore = "initialise" /\ task = "done") => UNCHANGED tables
<1>1. LifeInv /\ [LifeNext]_allVars => Kept
  <2> SUFFICES ASSUME LifeInv, [LifeNext]_allVars,
                      Initialising, Sound, ~(restore = "initialise" /\ task = "done")
               PROVE  UNCHANGED tables
    OBVIOUS
  <2>1. ~LockFree /\ ~CopyUpload /\ ~AuditRestore
    BY DEF Initialising, LifeInv, LockFree, CopyUpload, AuditRestore
  <2>2. CASE MigrateConfirmedQuantity
    BY <2>2, BackfillKeepsSound DEF LifeInv, LifeTypeOK, Sound, MigrateConfirmedQuantity, tables
  <2>3. CASE MigratePalletRows
    BY <2>3, RowsKeptSound DEF LifeInv, LifeTypeOK, Sound, MigratePalletRows, tables
  <2>4. CASE CreateTables \/ AddMoved \/ AddQuantity \/ Start \/ AcceptRequests \/ Crash \/ CancelRestore
    BY <2>4 DEF CreateTables, AddMoved, AddQuantity, Start, AcceptRequests, Crash, CancelRestore
  <2>5. ~Operate /\ ~BackupDatabase /\ \A f : ~RestoreInOneTransaction(f) /\ ~ReceiveUpload(f)
    BY <2>1 DEF Operate, BackupDatabase, RestoreInOneTransaction, ReceiveUpload
  <2> QED
    BY <2>1, <2>2, <2>3, <2>4, <2>5 DEF LifeNext, Serve, Initialise, allVars
<1>2. LifeInv /\ [LifeNext]_allVars => [Kept]_allVars
  BY <1>1
<1> QED
  BY <1>2, LifeInvCorrect, PTL DEF LifeSpec, UpToDateTablesKept

\* Over any number of restarts, crashes, migrations, backups and restores, of files
\* of any version and any stock, the tables are one ledger with backups: only an
\* operation or the restore of a whole file changes what is booked, confirmed or
\* closed, and no statement of InitializeAsync does.  What is done on the tables
\* that a cancelled restore left half migrated is excepted.
THEOREM LifeKeepsTheLedger == LifeSpec => ImplementsLedgerWithBackups
<1> DEFINE Steps == ~Initialising /\ (halfway' # "used" => Archive!BackupsNext)
<1>1. SafeInv /\ SafeInv' /\ [LifeNext]_allVars => [Steps]_ShowsLedger
  <2> SUFFICES ASSUME SafeInv, SafeInv', [LifeNext]_allVars, ~UNCHANGED ShowsLedger
               PROVE  Steps
    OBVIOUS
  <2>1. ~Initialising
    BY MigrationsKeepTheLedger DEF SafeInv, ShowsLedger, LedgersOf
  <2> QED
    BY <2>1, StepOnLedger
<1> QED
  BY <1>1, InitOnLedger, SafeInvCorrect, PTL
  DEF LifeSpec, ImplementsLedgerWithBackups, ShowsLedger

\* Where no restore is cancelled nothing is excepted: the database implements the
\* ledger with backups.
THEOREM LifeImplementsLedgerWithBackups ==
  ASSUME "restore cancelled" \notin Interruptions
  PROVE  LifeSpec => Archive!BackupsSpec
<1> DEFINE Inv == SafeInv /\ halfway = "no"
           View == <<LedgerOf(CurrentFile).book, LedgerOf(CurrentFile).closed, LedgersOf(backups)>>
<1>1. LifeSpec => []Inv
  BY NeverHalfway
<1>2. Inv /\ Inv' /\ [LifeNext]_allVars => [Archive!BackupsNext]_View
  <2> SUFFICES ASSUME Inv, Inv', [LifeNext]_allVars
               PROVE  Archive!BackupsNext \/ UNCHANGED View
    OBVIOUS
  <2> QED
    BY StepOnLedger DEF ShowsLedger
<1> HIDE DEF Inv
<1> QED
  BY <1>1, <1>2, InitOnLedger, PTL DEF LifeSpec, Archive!BackupsSpec
=============================================================================

-------------------- MODULE DatabaseLifecycleRefinement --------------------
(***************************************************************************)
(* The life of the database implements a ledger with backups.  The ledger  *)
(* of a file is read off its rows as WarehouseStoreRefinement does, with   *)
(* confirmations counted the way of the version that wrote them: so a      *)
(* migration, done or half done, is a step that changes nothing.           *)
(***************************************************************************)
EXTENDS DatabaseLifecycle, WarehouseStoreRefinement

LedgerOf(f) ==
  [book   |-> [i \in 1..Len(f.entries) |->
                 [Booking(f.entries[i]) EXCEPT !.confirmed = ConfirmedColli(f.entries[i])]],
   closed |-> {n \in PalletNumbers : f.status[n] = "closed"}]

LedgersOf(files) == {LedgerOf(f) : f \in files}

Archive == INSTANCE LedgerWithBackups WITH
             book <- LedgerOf(CurrentFile).book, closed <- LedgerOf(CurrentFile).closed,
             kept <- LedgersOf(backups), Uploads <- LedgersOf(OlderFiles)

\* Over restarts, crashes at any statement, migrations and restores the tables are
\* one ledger with backups: what is booked, confirmed and closed changes only by an
\* operation or by the restore of a whole file, and never while the server
\* initialises.  Only what is done on the tables that a cancelled restore left half
\* migrated is excepted.
ImplementsLedgerWithBackups ==
  /\ Archive!BackupsInit
  /\ [][~Initialising /\ (halfway' # "used" => Archive!BackupsNext)]_<<
       LedgerOf(CurrentFile), LedgersOf(backups)>>
=============================================================================

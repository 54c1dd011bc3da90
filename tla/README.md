# LagerPalleSortering in TLA+

LagerPalleSortering tells operators on which pallet to put each colli they scan. An ASP.NET
server keeps the stock in PostgreSQL or SQLite; a React page guides the operator through
"register one colli, put it on the suggested pallet, scan the pallet to confirm". This
directory holds TLA+ models of the parts where order, overlap and failure matter, TLC runs on
small instances of them, and proofs about them for instances of any size.

## The system

| Part | State it keeps | Operations | Talks to |
|---|---|---|---|
| Repository (`Infrastructure/Repositories`, SQLite and PostgreSQL) | tables `Pallets`, `PalletItems`, `ScanEntries`, `AuditEntries`; `_writeLock` | register, close, confirm, undo, clear, init/migrate, backup, restore, queries | called by the service; every writing operation holds the lock and one transaction |
| Duplicate-scan guard (`SlidingWindowDuplicateScanGuard`) | `_recentScans`, a ConcurrentDictionary | `IsBlocked` | singleton, called by request threads without a lock |
| Counters (`OperationalMetricsService`) | seven counters, last error | increments, snapshot | singleton, called by the service |
| Service (`WarehouseDataService`) | none | validates, runs the confirm loop, counts | guard, counters, repository |
| API (`Api/*Endpoints`) | none | one endpoint per operation | service |
| Sorting page (`useNewPalletSorting`) | React state (step, suggestion, submitting), `newSortingActive` in localStorage, `newSortingPendingPallet` in sessionStorage | start, finish, register, confirm, close, print | API over HTTP; print pages replace it on screen |
| Overview page (`useWarehousePage`) | forms, dashboard, last suggested pallet | register, confirm, close, undo, clear, restore, print | API; nothing locks it while it waits |
| Card of contents (`PalletContentsOverviewCard`), print pages (`printPages`) | chosen pallet, items, error, print timer | load, print | API; mounted by the pages and by the routes of `App` |
| App and sign-in (`App.tsx`, `AuthService`) | `authState`, print route, view mode; the cookie | sign in, sign out, navigate | API, browser |
| Barcodes (`DefaultPalletBarcodeService`, `DefaultProductBarcodeNormalizer`, `gs1Parser`, `expiryNormalization`, `newSortingWorkflow`) | none | parse, normalise | service and pages |
| Dashboard and contents queries | none | reads outside the write lock | pages |
| Export, health, metrics | none | read rows or counters, format | API |

What is hard, and where it bites, is listed line by line under `hazards` in `PROJECT.json`. In short:

- **Operation sequences on the tables.** The pallet total is kept by hand next to the item
  rows and the entries; undo decides from a flag of the entry and that total whether the
  pallet row goes. Closed pallets can be undone, numbers come back after undo.
- **The guard is not atomic.** It looks up, records and cleans up in separate steps.
- **A batch is not a transaction.** Between two scans of a batch anything may happen, and a
  cancelled request stops in the middle.
- **Restore and migrations are not one transaction.** SQLite copies a file, migrates it
  statement by statement under the token of the request, and writes its audit row last; a
  crash or a client that goes away stops it anywhere.
- **The page outlives its requests and its requests outlive the page.** State is spread over
  React, two browser storages and the server.
- **Loads outlive their views.** Card and print page change their pallet while the contents
  of another are on their way; an error races a print timer of 100 ms.
- **Two parsers read one code.** Page and server read pallet codes with different code, which
  disagree on some scans, and what is in a GS1 label is found by searching the text.

## Modules

| Module | Models | Needs |
|---|---|---|
| `WarehouseStore` | the tables and the five writing operations | |
| `PalletLedger` | the abstract promise: a list of bookings and the set of closed pallets | |
| `WarehouseStoreRefinement` | the refinement mapping from tables to ledger | `WarehouseStore`, `PalletLedger` |
| `LedgerWithBackups` | the abstract promise over the life of a database: a ledger that may be backed up and put back as a whole | `PalletLedger` |
| `DatabaseLifecycleRefinement` | the refinement mapping from files and backups to a ledger with backups | `DatabaseLifecycle`, `WarehouseStoreRefinement`, `LedgerWithBackups` |
| `DuplicateScanGuard` | `IsBlocked`, step by step, any number of threads | |
| `ConfirmService` | the confirm loop with guard window and counters, other stations around it | `WarehouseStore` |
| `SortingFlow` | one station's sorting page with its storage and its requests under way | `WarehouseStore` |
| `DatabaseLifecycle` | start with migrations, backup, restore, crash and cancelled restore, around the operations | `WarehouseStore` |
| `ScanParsing` | reading GS1 labels, dates, pallet codes and product numbers, on page and server | |
| `ScanTyping` | the product field under a scanner that types | `ScanParsing` |
| `OverviewPage` | the overview with any number of handlers side by side, on a server that keeps the ledger's promises | `PalletLedger`, `ScanParsing` |
| `PalletContents` | the card of contents and the print page with their loads and the print timer | |
| `StationScreens` | sign-in, routes, view modes and what is mounted when, around the views of `PalletContents` | `PalletContents` |
| `MC*` | values for TLC | the module they are named after |
| `FiniteSums` | what the proofs need of sums over finite sets, of folds and of recursive functions | |
| `*Proofs` | theorems (with `FiniteSums` eight modules) | the module they are named after, those composed with the tables `WarehouseStoreProofs` |

The tables are composed with everything around them three times (`ConfirmService`,
`SortingFlow`, `DatabaseLifecycle`); `OverviewPage` stands on the abstract ledger instead, which
the tables are proved to implement, and can so afford restores and torn dashboards.

### WarehouseStore

`status[n]` and `total[n]` are the row of pallet number `n` in `Pallets` (`IsClosed`,
`TotalQuantity`), `items[n][v]` the quantity of variant `v` (product, expiry) in
`PalletItems`, `entries` the rows of `ScanEntries` by `Id`, `audit` the newest row of
`AuditEntries`. One action per repository operation, atomic because of `_writeLock` and the
transaction: `RegisterOnExisting` and `RegisterOnNew` (the two branches of `RegisterAsync`),
`ClosePallet`, `ConfirmLatestUnconfirmed`, `UndoLast` (with its branches
`UndoRemovingPallet`, `UndoKeepingPallet`), `ClearAllData`. The choice of the pallet is
`Candidates` (the rows the loop of `FindBestOpenPalletAsync` does not skip) and
`IsBestOpenPallet` (its ORDER BY). An operation that finds nothing to do (undo without
entries, confirm without unconfirmed colli) changes nothing and is not an action. The
definitions are read from the SQLite repository; the PostgreSQL one issues the same
statements, and the ledger's operations are mapped to it.

Left out: timestamps, `GroupKey`, the product and expiry columns of `Pallets` (written once,
never used to decide), the text of audit rows, and quantities so large that `TotalQuantity`
overflows `int` (`NoOverflowAssumption`).

### PalletLedger and WarehouseStoreRefinement

The ledger has no totals, item rows or flags: a pallet exists while something is booked on
it. `ImplementsLedger` says the tables behave as the bookings alone say they should: which
pallet a registration goes to, which booking a confirmation marks, when undo makes a pallet
disappear. The mapping reads the bookings off `entries` and the closed pallets off `status`.

### DuplicateScanGuard

One action per atomic step of `IsBlocked`: `ReadClock`, `LookUp` (`TryGetValue`), `Block` /
`Accept` (the two assignments), `CheckCount`, `VisitFresh` / `VisitStale` / `Remove` /
`EndVisit` (the enumeration, which is no snapshot: a key is tested in one step and removed in
another). `answers` is a history of what was answered, in the order the scans were recorded,
`overlapped` one of whether a call ever began while another was under way.
`Tick` is the clock.

### ConfirmService

Each request walks through `Submit`, `Scan` or `RejectCode`, `PassGuard` or
`RejectDuplicate`, `RecordScan`, `ConfirmColli` or `FindNothing`, and `CutOff` ends it
without a response, before or after its transaction. The guard is reduced to the set of
pallets in its window. `RegisterOrClose`, `UndoCounted` and `ClearCounted` are the other
stations. `gone` and `cut` are histories, used only to balance the counters.

### SortingFlow

The handlers of `useNewPalletSorting` are split where they await: sending (`RegisterOneColli`,
`ConfirmMove`, `CloseCurrentPallet`, `ClosePalletFromList`), the server (`ServeRegister`,
`ServeConfirm`, `ServeClose`), and what the handler does with the response (`AfterRegister`,
`AfterConfirm`, `AfterClose`, `AfterError`). `call[s].mine` tells whether the page that sent
the request is still the mounted one: a handler of a page that is gone still writes the
session storage and still navigates, but `setState` reaches nothing. `Leave` and `Return`
unmount and mount the page; `Return` reads the step from the storage as the hook does.
The `reloadDashboard` after a response decides nothing but the display and is merged into
the response; if it fails in a close handler the rest of the handler is skipped, which is
`LoseResponse`. The constant `Disturbances` says which of four disturbances a run allows, and
`disturbances` counts them: `PageMatchesTables` is about calm shifts, the other properties about
all. `ResumesActiveStep` is what a document says; the code does not keep it (finding 2).

### DatabaseLifecycle

`schema` is what the database has of the tables and columns that older versions lack,
`OlderFiles` are the databases those versions left. `InitializeAsync` is one action per
statement (`CreateTables`, `AddMoved`, `AddQuantity`, `MigrateConfirmedQuantity`,
`MigratePalletRows`), since each is a transaction of its own; it runs in `phase = "starting"`
and again inside a SQLite restore. `ReceiveUpload`, `CopyUpload`, the initialisation and
`AuditRestore` are the steps of the SQLite restore, `RestoreInOneTransaction` is the
PostgreSQL one. `Operate` is `WarehouseStore`'s operations, which need the columns their
statements name; `BackupDatabase` needs no more than the tables of its audit row, and so hands out
whatever the file holds, half migrated or not. `Crash` stops the process anywhere, `CancelRestore` ends a restore whose
client has gone. `provider` is the configured repository and never changes.

New columns hold their defaults, so the values of a column that an older file lacks are
the defaults from the start. `File.Copy` is taken to happen or not to happen, and
readers, which do not take the lock, are left out.

`SoundWhenServing` has two parts. Totals and pallet rows are those of the entries whenever a writing
operation can run (`TotalsBooked`), on the half-migrated tables of a cancelled restore, too. That the tables are
complete, and sound as a whole with item rows and confirmations, is asked only while `halfway` is "no":
the server does serve on what a cancelled restore left, and finding 4 is what comes of it.

### LedgerWithBackups and DatabaseLifecycleRefinement

`LedgerWithBackups` adds two operations to the ledger: `BackUp` keeps the ledger as it is,
`Restore` puts back one that was kept or made elsewhere. That is all the life of the database is
meant to add; starting, crashing, migrating and the steps of a restore are no steps of it.
`LedgerOf` reads the ledger off a file of any version, with confirmations counted the way the
version counted them that wrote the file, so a migration that is done right changes nothing.
`ImplementsLedgerWithBackups` excepts what is done on tables that a cancelled restore left half
migrated (finding 4): there a pallet's item rows may be missing, and a registration may go to
another pallet than the bookings say.

### ScanParsing and ScanTyping

Characters are numbers: the digits are themselves, the other symbols the parsers know have one
each, and all letters but P are one. `ParenthesizedFields`, `CompactFields` and `Outcome` are
`gs1Parser`, `NormalizeExpiryInput` with `ToExpiryDateRaw` is the expiry field,
`ProductFieldChanged` and `ExpiryFieldChanged` are the `onChange` handlers of both pages,
`TryExtractPalletIdFromScan` and `ValidateSuggestedPalletMatch` the page's reading of a pallet code,
`TryParsePalletCode` the server's, `NormalizeProduct` the server's reading of a product number.
They have no state. Their reference definitions (`EveryLabel`, `EveryDate`, `EveryRightLabel`,
`EveryNoisyLabel`, `EveryUpc`) build the printed text from the values and ask for the values
back; the properties of `OverviewPage` say so of the fields it shows. The separators between
elements are required where the standard requires them.

Page and server do not read every pallet code alike: the page looks for P, a dash and digits that stand
together, the server drops every character it does not know and takes every digit behind P and the
dash. `Numbers` are the pallet numbers on the labels, any set of texts of digits, and `PalletScansAgree` says
how far the two may differ when one odd character is in the scan (`Noise`: one that the server drops, a
letter, a group separator or a colon):

| The odd character is | The page | The server |
|---|---|---|
| nowhere, before P or behind the number (`EveryRightLabel`) | lets the suggested pallet's label pass | reads the number printed |
| behind the first digit (`ReadAsPrinted`) | lets the label pass for suggestions its number begins with, and no others; so it may refuse the suggested pallet's own label, and let P-1000 pass for P-100 | reads the number printed |
| between P and the first digit (`NotMisread`) | finds no code and lets it pass for any suggestion | reads the number printed, or none |

So a label is never confirmed as a pallet other than the one it was printed for, but the page's check may be
passed by a pallet that was not suggested. That the server reads `PALLETÆP+0Æ0?1`, as its tests want, while the page
refuses it for P-001 is the second row. With more odd characters, or digits after them,
`PalletLabelLetPass` says exactly when the two differ. `ScanTyping` has the one action
`TypeKey`: a character arrives and the field is parsed again.

### OverviewPage

A request goes through the stages sent, answered, reloading, read pallets, reloaded. The
operator's actions send one from any state of the page but "Indlæser..."
(`SubmitRegisterColli`, `SubmitConfirmMove`, `ClosePallet`, `UndoLastEntry`, `ClearDatabase`,
`RestoreDatabase`); `Serve*` is the server, one colli at a time for a batch; `After*` the handler
up to its next `await`. Every handler ends in a reload, which reads the open pallets and the
entries in two steps (`ServeOpenPallets`, `ServeRecentEntries`), since the queries do not take
the write lock. `Unmount` is what becomes of React state when the page goes; a handler of a page
that is gone still navigates and still reloads, without touching the next page.
`takenBack` is a history that excepts the suggestion from `SuggestionStands` after undo and
restore, which do leave it behind. The counters on display, the simple view (which hides
buttons) and the texts of messages are left out.

### PalletContents and StationScreens

A load is the effect that still stands (`load`) or one that was cleaned up (`stale`, which may
come back at any time, `StaleLoadEnds`). `OfferPallets` is the card's effect on a new list of
pallets or refresh token, `SelectPallet` the operator's choice, `OpenSheet` and `RetargetSheet` the
print page coming up and going on with another pallet, `PrintOnMount` the timer. An error is shown in one
step (`ShowError`) and the timer taken back in a later one (`ClearPrintTimer`), since the cleanup of
`usePrintOnMount` runs after the render: `due` says that it has yet to run, and until then the timer may fire. The contents of
a pallet are a version number, so that an older answer can be told from a newer one.
`StationScreens` says when a view is there: `GoTo` computes the screen from `authState`, route
and view mode, and mounts, keeps or unmounts what is on it. `SubmitLogin`, `Logout`, `Posted`,
`Refreshed` are the two requests of signing in and out. Of the pages' handlers one runs at a
time and only what concerns the screens is kept: the operation, the refresh token, the
navigation. Of signing in and out one chain of requests runs at a time.

`ViewsTruthful` states what the views promise and what they do not. `CardShowsSelected`: once nothing loads,
the card shows the pallet chosen, but after a failed load the items of the one chosen before.
`SheetShowsTarget`: the print page shows its pallet once nothing loads, and its pallet or nothing while it loads; but
a late handler of a page that was left may send the station from one print page to another, and then
the old items stand under the new title, and a timer still running prints them so, until the new load has
ended. The code does this (`PrintPalletContentsPage.tsx` keeps `items` and the timer when `palletId` changes), the model
has it, and the property excepts exactly it. `ErrorSetsNoTimer`: a timer on a page with an error was set before
the error, and its cleanup is due. Browser back and forward and print addresses typed by hand are left out.

## What the runs check

| Run | Instance | Shows |
|---|---|---|
| `store` | 3 products x 2 expiries, 2 variants per pallet, 3 pallets, 3 entries of 1 or 2 colli | the tables tell one story (`Conservation`), pallets follow the rules, every row has its bookings, the audit accounts for the stock, and the tables implement the ledger |
| `pallet_numbers` | 1 variant per pallet, 2 pallets | finding: numbers are not monotonic |
| `guard` | 2 threads, 3 pallets, clean-up above 1 key, 4 calls, clock to 3 | no invented duplicates, races and clean-up included; while calls do not overlap it equals a guard that never forgets, and its table is swept |
| `guard_race` | the same | finding: two threads are both let through |
| `confirm` | 2 requests of no or 2 scans, 2 pallets, 2 entries of 2 colli, 1 undo or clear | counters, batches and tables stay in step; "nothing left" is true; every request ends (liveness) |
| `sorting` | 1 station with 2 requests under way, 2 products, 3 pallets, 2 disturbances of any kind | page, storage and tables agree between the requests of a calm shift; step 2 has its pallet and the lock its handler regardless |
| `sorting_list_close` | 1 request, the awaited pallet may be closed from the list | finding: the active step is lost |
| `lifecycle` | both repositories, 1 pallet, 2 entries, older files of every kind, 1 backup, 1 restore, 1 crash, cancelled restores (959 740 states) | all of it is one ledger with backups, migrations change nothing twice, totals and pallet rows that are served are those of the entries and the tables are sound but for cancelled restores, the server comes back (liveness) |
| `lifecycle_cancelled` | SQLite, 2 pallets, 1 restore, 1 crash | finding: a cancelled restore loses the contents of older pallets |
| `overview` | 2 requests side by side, 2 pallets, 2 entries, batches of 1 or 2, a backup, 1 disturbance, labels of P-001, P-100 and P-1000 | in a calm shift the page shows the tables whenever it waits for nothing and undoes what it shows; the load it waits for is under way; what its fields hold and the server reads in a scan is what was printed, and where page and server differ on a pallet code |
| `screens` | 2 pallets, 1 change of contents, 1 disturbance | card and print page show the pallet they name, but for the exceptions `ViewsTruthful` states, and set no timer on an error; the card is up to date, the station is signed in as its cookie is, closing with print ends on the print page (liveness), the card stops loading (liveness) |
| `scan_typed` | labels with GTIN-13 and date, key by key | finding: a typed label registers another product |

`PalletsFollowRules`, `RowsHaveBookings`, `PageMatchesTables` and `ViewsTruthful` are conjunctions of
named parts, with mutants for more than one of them.

**Bounds.** `MaxPallet` and `MaxEntries` bound rows; three entries on three pallets reach an
exact match, a conflict, a full pallet, a closed pallet and every branch of undo, and three
products are needed to fill a pallet of two variants and ask for a third. A guard with a
clean-up limit of 1 instead of 512 cleans up after two pallets. `MaxCorrections`,
`MaxCalls`, `MaxTime`, `MaxAbandoned`, `MaxBackups`, `MaxRestores`, `MaxCrashes`, `MaxChanges` and
`MaxDisturbances` stop counters that the code lets grow; each lets the case it bounds happen at
least once, most of them together with the others. `RecentEntries = 1` lets the list of entries
be full, `Colli = 1` is what the sorting page sends. One pallet is enough for `lifecycle`, whose
steps treat the rows of all pallets alike. The parsers are run over labels in every order of their
elements, with values that look like identifiers, over pallet codes with one odd character
anywhere, for numbers of different lengths of which one is the beginning of another, and over all product numbers of twelve digits with at most four that are not zero
(3 or 7). `MaxScans` stops new confirm requests once so many scans were attempted; the
requests on their way go on, so both batches of `confirm` overlap.
`CHECK_DEADLOCK FALSE` is used for the guard, whose clock and calls run out, and where restores
may be cancelled: a file left without its tables serves nothing until the server is restarted,
and the crashes that restart it run out; and in `scan_typed`, where typing ends. Symmetry is
used over products, expiries, pallets (of the guard), threads and slots, and never in a run with
a liveness property.

**Fairness.** `ConfirmService` states weak fairness of the server-side steps of each request,
because a request the server works on is scheduled until it returns or is cut off. Nothing
makes clients submit, stations register or the window pass. `DatabaseLifecycle` states it of
`Serve`: a server that is down is started again and what it has begun is carried on; nobody
is assumed to register, back up or restore. `ScreensFairness` is weak fairness of `ServeWork`,
`AfterWork` and `ContentsArrive`: the server answers and the event loop runs a handler whose
response is there; the operator need do nothing, and responses may be lost (`WorkFails`,
`ContentsLost`).

**Mutants.** Each property is kept honest by a mutated definition that breaks it; the mutants
stand before the definition they replace and are used nowhere.

## What is proved

TLAPS checks these for all values of the constants, under the assumptions named in the modules
(finite sets of products and expiries, positive quantities, at least one variant per pallet, no
overflow; for the life of the database a pallet for the older files; for the sorting page
quantity 1; for the overview that an uploaded backup is a database of this system, whose entries
have positive quantities and are confirmed no further than that).

| Module | Properties of the runs that are theorems |
|---|---|
| `WarehouseStoreProofs` | `TypeOK`; `Conservation`; `PalletsFollowRules` with its parts `NoMixedExpiry`, `VariantCap`, `OneOpenPalletPerVariant`; `RowsHaveBookings` with its parts `NoOrphanRows`, `CreatorIsOldest`; `ConfirmedWithinQuantity`; `AuditAccountsForStock`; `ClosedStaysClosed`; `ImplementsLedger` |
| `DuplicateScanGuardProofs` | `TypeOK`, `BlocksAreJustified`, `AnswersMatchHistory`, `TableIsSwept` |
| `ConfirmServiceProofs` | `ServiceTypeOK`, `ScansAccountedFor`, `GuardStopsOnlyFirstScan`, `ShortBatchLeavesNothing` |
| `SortingFlowProofs` | `FlowTypeOK`, `ConfirmStepHasPallet`, `LockedWhileWaiting`, `PageMatchesTables` |
| `DatabaseLifecycleProofs` | `LifeTypeOK`, `SoundWhenServing`, `ImplementsLedgerWithBackups`, `UpToDateTablesKept` |
| `OverviewPageProofs` | `PageTypeOK`, `LoadingHasALoad`, `BoardTruthful`, `SuggestionStands`, `UndoesShownEntry`, `FieldsHoldWhatWasRead`, `PalletScansAgree`, `EquivalentScansGroup` |
| `StationScreensProofs` | `ScreensTypeOK`, `ViewsTruthful`, `SignedInMatchesSession`, `CardUpToDate` |

Other results are about the modules themselves. Service and sorting page, each with
everything around it, implement `WarehouseStore` (`ServiceUsesTheStore`, `FlowUsesTheStore`), so what is
proved of the tables holds under batches, lost responses and late handlers; and so they
implement the ledger (`ServiceImplementsLedger`, `FlowImplementsLedger`), which is why `OverviewPage` may
stand on it. `OlderFilesSafeUncancelled` says that every start of the server ends with sound
tables if no restore is cancelled, and `LifeImplementsLedgerWithBackups` that the life of the database
implements `LedgerWithBackups` then without exception; finding 4 is the behaviour that this condition
excludes. `PageServedByTheLedger` says that the server `OverviewPage` stands on, with its restores,
makes only steps of the same `LedgerWithBackups`: so the page is modelled on what the database is
proved to keep.

The parsers are proved about beyond the texts that TLC enumerates. `LabelIsRead` is about a label
with any fourteen digits of a product number, any six of a date, a batch number of any length
without separators and parentheses, and any order of the elements, in each of its three forms and
behind what a scanner sends in front; `LabelFillsTheForm` says what becomes of it in the empty form.
A product number or a true date must be among its elements, as the parser turns to the other
form where it finds neither. `UpcIsGroupedWithEan` is about any twelve digits. `TypedDateStands` is about every date from 2013 on: before, the first six of
the eight digits may be a date themselves (20 12 12 becomes 20201212 on its way).
`PalletLabelIsRead` is about a pallet code of any number of digits with anything but a separator before it and anything
behind it: the page reads the digits up to the first character that is none, the server those and every later
digit. `PalletLabelLetPass` draws the conclusion for any suggestion: the page lets the scan pass exactly if the
suggestion is what it reads, and the server confirms another pallet exactly if a digit follows
later. Agreement is not claimed beyond that. `ScansAgree` proves `PalletScansAgree` for any set of numbers.

### The arguments

**Tables.** `NoMixedExpiry` and `VariantCap` are inductive with the types, because a registration is the
only operation that adds an item row and its guards are exactly these two.
`OneOpenPalletPerVariant` is inductive because the ORDER BY takes an exact match whenever there is
one. `CreatorIsOldest`, the fact undo relies on, needs the relation between rows and entries: every
row's total covers its entries, so undo of a creator empties its pallet and undo of any other
entry leaves something. `Conservation` is about sums; what an induction over the entries would
prove is proved from a smallest counterexample (`FiniteSums`), and gives that a sum loses exactly
the element that is taken out of its set, whatever order the fold takes. `ConservationInv` then
has one step per operation: a registration adds the same quantity to a total, an item row and
one entry, undo takes it from the same three, and closing and confirming touch none of them. The
refinement needs that an item row exists exactly while an entry of that variant on that pallet
does; that is no invariant of its own, since an item row is a sum of positive quantities
(`StockIsBooked`).

**Guard.** Every record is tied to an answer in the history; while calls do not overlap at most one
is under way, it has the newest time, and what the clean-up removed is older than its window and
so than every later one. `SweepInv` adds that the table is finite and swept except between an
accepted scan and the end of its clean-up, and that the keys the clean-up has passed by then are
within the window: so what it leaves is the fresh keys or a table within its limit.

**Service.** `BatchInv` says that a request under way has scans left and nothing to complain of yet,
and that only its first scan is with the guard; that "nothing left" is true needs that a newest
unconfirmed row exists whenever there is one, by well-foundedness of the naturals. `AccountInv`
keeps a balance: attempts are colli confirmed or since taken back, failures, blocked duplicates,
requests cut off and scans still under way. Each step moves one unit from one account to another; confirming a colli
and undoing an entry also need what they do to the sum of the confirmed quantities.

**Sorting page.** `FlowInv` adds to the page's types what its requests carry and that at most one
handler is the page's own (`LockInv`): every handler that ends unlocks only if it is the one, and
every way to leave the page disowns all. `CalmInv` is about shifts without disturbances: a
request still is in the step it was sent in, and the number of unconfirmed colli is that of
colli left behind, and one more exactly while one is registered, shown or being confirmed.

**Life of the database.** `LifeInv` says that the server never initialises at its start and in a
restore at once, and that a restore about to copy has its file. `SafeInv` says of files what the
store keeps of tables (`SoundFile`), and of the files of every version that the migrations still to
come will make them sound (`Migratable`); as long as the server has not worked on a
half-restored database, all backups and the file in use are `Migratable`, what the initialisation has done so
far has taken effect, and what is served is complete and sound. For the refinement each statement of
the initialisation leaves every entry's confirmed colli what they were, and an operation is one of
the ledger because the tables it works on are sound; only the step that uses half-migrated tables
is not. `TotalsInv` needs no such exception: in every file there is, and in the tables, totals and creators are those
of the entries, because the initialisation and a cancelled restore write neither, and registering and undoing keep
them without looking at item rows (`RegisterKeepsTotals`, `UndoKeepsTotals`).

**Overview.** `LoadInv` says that the load the page waits for is its own, and survives whatever the
other handlers do. `CalmShift` is the invariant of a shift without disturbances: the page has at
most one request of its own; only that one may still write; what it read at each stage of its
reload is still what the server holds; what earlier pages left under way only reads. The board is therefore
the dashboard as soon as nothing is waited for, the newest entry on it is the newest entry, and
the suggested pallet is one that exists or is about to be cleared. `TypeInv` needs that the
bookings of a pallet add up to more than nothing.

**Parsers.** They are recursive functions over the places of a text. That such a function
exists and what it is at each place is proved from the natural numbers' having a least
counterexample (`RecursiveFunction`, `StepByStep` in `FiniteSums`), so nothing is bounded. For dates,
`KeyByKey` says what the field shows after each key. For pallet codes, what
the server keeps of a text is what it keeps of its parts (`KeptConcat`), all of a printed code (`KeptAll`)
and no P and dash of what stands before it, so the first sign it finds is the printed one (`FirstSigned`) and
of the rest it takes the digits. For twelve digits
the weights by place are those of the standard. A GS1 label is joined from its parts, which stand
one behind the other (`PartsStandThere`); `CompactReads` says what `CompactFields` does at one place,
`PartRead` that from where a part begins it finds that part's field and goes on right behind it, with
or without a separator, so that from the last part to the first it finds the fields of the label and
no others (`CompactLabelRead`). In the other form the only opening parentheses are those of the parts.
As an identifier stands on a label once at most, the last field that `Outcome` takes is the only one.

**Screens.** `SessionInv` relates the answer an auth request carries to the cookie; `ViewsInv` relates
load, timer and items to the pallet they were begun for, and is kept because a change of pallet
cleans up the load before it. `TruthInv` ties each exception of `ViewsTruthful` to its cause in the history: only a
handler whose page was left can send a print page on, and only a load that was refused or lost leaves
the card what it had. `FreshInv` says that the card shows, or its load has or will
have, the newest version of its pallet unless the handler that changed it has yet to run.

### Only model-checked

Liveness under fairness, in `confirm`, `lifecycle` and `screens` (`RequestsEnd`, `ServesAgain`,
`ClosingOpensPrint`, `CardLoadingEnds`), is out of the prover's reach. Every other property of a
passing run is a theorem. The five findings are counterexamples.

## Findings

1. `guard_race`: the option "rejects accidental duplicate pallet scans", but two requests
   inside `IsBlocked` at once are both accepted.
2. `sorting_list_close`: "Ved retur fra print genoptages flowet på aktivt trin", but closing
   the awaited pallet from the list brings the operator back in step 1 with an unconfirmed colli.
3. `pallet_numbers`: pallet ids are called monotonic, but undo gives numbers back.
4. `lifecycle_cancelled`: "Additive migrations allow older local DB files to be reused safely",
   but if the client of a restore goes away before the last migration and somebody registers a
   colli before the next start, the stock of the older file never gets its `PalletItems` rows.
5. `scan_typed`: "GS1 payload (`AI(01)` + `AI(17)`) kan udfylde felter automatisk", but a scanner
   that types has the field rewritten as soon as the GTIN is complete, and the rest of the
   label is appended to the product number.

## How it was built

The order of the modules is that of their importance: the tables with ledger, refinement and
proofs; the guard; the service; the sorting page; the life of the database; then the overview,
the parsers, the screens, and the proofs about the modules around the tables: first their types and
safety, then what sums, calm shifts and sound files need, and at last the ledger that survives
restarts and restores, and the parsers for texts of any length.

## Not modelled

- Exports to CSV and Excel: formatting of rows that were read, no state.
- Health and metrics endpoints, and the snapshot of the counters: reads of one moment.
- `lager-scanner.js`: no page of this version loads it.
- The password comparison, the cookie's lifetime and its encryption: the framework's. A session
  that runs out is noticed by the station only after a reload.
- Barcode drawing, layout, focus, the printer dialog, message texts, and what the simple view hides.
- Browser back and forward, and addresses of print pages typed by hand.
- Quantities at the limit of `int` (`NoOverflowAssumption`): nothing in the code bounds what an operator
  may enter, and the pallet total (added up in C#) wraps around where the item row (added up by the
  database) does not or fails.
- A file half copied by `File.Copy`: what is then on disk is not described by any table.

---------------------------- MODULE OverviewPage ----------------------------
(***************************************************************************)
(* "Fuld oversigt": the page of useWarehousePage, on a server that keeps   *)
(* the promises of PalletLedger.                                           *)
(*                                                                         *)
(* Nothing locks this page while a request is under way.  Every handler    *)
(* awaits its operation and then the dashboard; it runs on when the page   *)
(* is gone, without touching the next one.  The dashboard is read in two   *)
(* queries, the open pallets and then the newest entries.                  *)
(*                                                                         *)
(* What the operator types (and the checks of submitRegisterColli on it)   *)
(* is the subject of ScanParsing: a registration sent carries a variant.   *)
(* The last three properties say that it is the variant on the colli.      *)
(***************************************************************************)
EXTENDS PalletLedger, ScanParsing, SequencesExt, FiniteSetsExt

CONSTANTS
  Slots,            \* bound: requests under way at once
  ScanCounts,       \* values of confirmScanCount
  RecentEntries,    \* DefaultRecentEntries
  Backups,          \* files an operator may restore, as [book, closed]
  Disturbances,     \* subset of PossibleDisturbances
  MaxDisturbances   \* bound: disturbing steps in a behaviour

PossibleDisturbances ==
  {"overlapping requests", "leave while waiting", "lost response", "other stations"}

Bookings ==
  {b \in [pallet : PalletNumbers, variant : Variants, qty : Nat \ {0}, confirmed : Nat] :
     b.confirmed <= b.qty}

ASSUME OverviewAssumption ==
  /\ Disturbances \subseteq PossibleDisturbances
  /\ Quantities \subseteq Nat \ {0} /\ \A file \in Backups : file.book \in Seq(Bookings)
  /\ MaxDisturbances \in Nat /\ RecentEntries \in Nat \ {0} /\ ScanCounts \subseteq Nat \ {0}

VARIABLES
  mounted, loading,
  board,        \* dashboard: [open, entries]
  suggested,    \* lastSuggestedPalletId, or NoPallet
  warning,      \* showClearWarning
  call,         \* slot -> the request a handler is waiting for
  takenBack,    \* history: the suggested pallet's booking may be undone or restored away
  disturbances  \* history: disturbing steps so far

server == <<book, closed>>
page == <<mounted, loading, board, suggested, warning>>
pageVars == <<server, page, call, takenBack, disturbances>>

NoPallet == 0
Blank == -1        \* an empty scan
Unreadable == -2   \* a code in which neither side finds a pallet number
NoVariant == <<>>
NoCall == [kind |-> "none"]

-----------------------------------------------------------------------------
(* The dashboard.                                                          *)

OpenPallets ==
  {[pallet |-> n, total |-> SumFunctionOnSet([i \in DOMAIN book |-> book[i].qty],
                                             {i \in DOMAIN book : book[i].pallet = n})] :
     n \in Pallets \ closed}
\* Mutant of NewestEntries: one row too many.
NewestEntriesAndOne == SubSeq(book, Max({1, Len(book) - RecentEntries}), Len(book))

NewestEntries == SubSeq(book, Max({1, Len(book) - RecentEntries + 1}), Len(book))

Dashboard == [open |-> OpenPallets, entries |-> NewestEntries]
EmptyDashboard == [open |-> {}, entries |-> <<>>]

-----------------------------------------------------------------------------
Waiting == {s \in Slots : call[s] # NoCall}
Mine == {s \in Waiting : call[s].mine}
AtStage(s, stage) == call[s] # NoCall /\ call[s].stage = stage
Registering == {s \in Slots : AtStage(s, "sent") /\ call[s].kind = "register"}
RoomForOneMore == Len(book) + Cardinality(Registering) < MaxEntries

Disturbing(kind) ==
  /\ kind \in Disturbances /\ disturbances < MaxDisturbances
  /\ disturbances' = disturbances + 1
Calm == UNCHANGED disturbances

PageTypeOK ==
  /\ {mounted, loading, warning, takenBack} \subseteq BOOLEAN
  /\ suggested \in PalletNumbers \union {NoPallet}
  /\ \A d \in {board} \union {call[s].seen : s \in Waiting} :
       /\ \A row \in d.open : row.pallet \in PalletNumbers /\ row.total > 0
       /\ Len(d.entries) <= RecentEntries /\ \A e \in Range(d.entries) : e.confirmed <= e.qty
  /\ \A s \in Waiting :
       /\ call[s].stage \in {"sent", "answered", "reloading", "read pallets", "reloaded"}
       /\ call[s].kind = "load" => call[s].stage \notin {"sent", "answered"}
       /\ call[s].kind = "confirm" => call[s].done \in 0..call[s].count
  /\ disturbances \in 0..MaxDisturbances

\* React state as a page finds it; what a page had dies with it.
Unmount ==
  /\ mounted' = FALSE /\ loading' = TRUE /\ board' = EmptyDashboard
  /\ suggested' = NoPallet /\ warning' = FALSE /\ takenBack' = FALSE

PageInit ==
  /\ Init
  /\ mounted = FALSE /\ loading = TRUE /\ board = EmptyDashboard
  /\ suggested = NoPallet /\ warning = FALSE /\ takenBack = FALSE
  /\ call = [s \in Slots |-> NoCall]
  /\ disturbances = 0

NewCall(kind, stage) ==
  [kind |-> kind, stage |-> stage, mine |-> TRUE, pallet |-> NoPallet, variant |-> NoVariant,
   qty |-> 0, count |-> 0, done |-> 0, print |-> FALSE, file |-> NoCall, created |-> FALSE,
   seen |-> EmptyDashboard]

\* The page comes up, from a print page or the other view, and loads its dashboard.
Mount(s) ==
  /\ ~mounted /\ call[s] = NoCall
  /\ mounted' = TRUE
  /\ call' = [call EXCEPT ![s] = NewCall("load", "reloading")]
  /\ UNCHANGED <<server, loading, board, suggested, warning, takenBack, disturbances>>

Disowned(t) == IF call[t] = NoCall THEN NoCall ELSE [call[t] EXCEPT !.mine = FALSE]

Leave ==
  /\ mounted
  /\ IF \E s \in Mine : call[s].kind # "load" THEN Disturbing("leave while waiting") ELSE Calm
  /\ Unmount
  /\ call' = [t \in Slots |-> Disowned(t)]
  /\ UNCHANGED server

-----------------------------------------------------------------------------
(* The operator at the page, which shows its forms and lists once loaded.  *)

Ready == mounted /\ ~loading

Send(s, request) ==
  /\ Ready /\ call[s] = NoCall
  /\ IF Mine # {} THEN Disturbing("overlapping requests") ELSE Calm
  /\ call' = [call EXCEPT ![s] = request]
  /\ UNCHANGED <<server, page, takenBack>>

SubmitRegisterColli(s, v, q) ==
  /\ RoomForOneMore
  /\ Send(s, [NewCall("register", "sent") EXCEPT !.variant = v, !.qty = q])

\* validateSuggestedPalletMatch, then resolvePalletCode.
SubmitConfirmMove(s, code, k) ==
  /\ code \in PalletNumbers /\ suggested # NoPallet => code = suggested
  /\ LET palletCode == IF code = Blank THEN suggested ELSE code
     IN /\ palletCode # NoPallet
        /\ Send(s, [NewCall("confirm", "sent") EXCEPT !.pallet = palletCode, !.count = k])

\* The buttons of a row of the open pallets.
ClosePallet(s, n, printContents) ==
  /\ \E row \in board.open : row.pallet = n
  /\ Send(s, [NewCall("close", "sent") EXCEPT !.pallet = n, !.print = printContents])

UndoLastEntry(s) ==
  /\ board.entries # <<>>
  /\ Send(s, NewCall("undo", "sent"))

OpenClearDatabaseWarning ==
  /\ Ready
  /\ warning' = TRUE
  /\ UNCHANGED <<server, mounted, loading, board, suggested, call, takenBack, disturbances>>

CancelClearDatabaseWarning ==
  /\ Ready /\ warning
  /\ warning' = FALSE
  /\ UNCHANGED <<server, mounted, loading, board, suggested, call, takenBack, disturbances>>

ClearDatabase(s) == warning /\ Send(s, NewCall("clear", "sent"))

RestoreDatabase(s, file) == Send(s, [NewCall("restore", "sent") EXCEPT !.file = file])

-----------------------------------------------------------------------------
(* The server.                                                             *)

Answer(s, success) ==
  /\ call' = [call EXCEPT ![s] = success, ![s].stage = "answered"]
  /\ UNCHANGED <<page, disturbances>>

ServeRegister(s) ==
  /\ AtStage(s, "sent") /\ call[s].kind = "register"
  /\ \E n \in PalletNumbers, v \in {call[s].variant}, q \in {call[s].qty} :
       \/ /\ RegisterWithVariant(n, v, q) \/ RegisterWithRoom(n, v, q)
          /\ Answer(s, [call[s] EXCEPT !.pallet = n])
       \/ /\ RegisterNewPallet(n, v, q)
          /\ Answer(s, [call[s] EXCEPT !.pallet = n, !.created = TRUE])
  /\ UNCHANGED takenBack

\* One colli per round of the batch, each a transaction of its own.
ServeConfirmOne(s) ==
  /\ AtStage(s, "sent") /\ call[s].kind = "confirm" /\ call[s].done < call[s].count
  /\ Confirm(call[s].pallet)
  /\ call' = [call EXCEPT ![s].done = @ + 1]
  /\ UNCHANGED <<page, takenBack, disturbances>>

Unconfirmed(n) == {i \in DOMAIN book : book[i].pallet = n /\ book[i].confirmed < book[i].qty}

\* The batch is complete, or nothing is left, or the code is unreadable or a
\* duplicate scan (which only the first round looks for).
ServeConfirmEnd(s) ==
  /\ AtStage(s, "sent") /\ call[s].kind = "confirm"
  /\ call[s].done \in {0, call[s].count} \/ Unconfirmed(call[s].pallet) = {}
  /\ Answer(s, call[s])
  /\ UNCHANGED <<server, takenBack>>

ServeClose(s) ==
  /\ AtStage(s, "sent") /\ call[s].kind = "close"
  /\ Close(call[s].pallet)
  /\ Answer(s, call[s])
  /\ UNCHANGED takenBack

ServeUndo(s) ==
  /\ AtStage(s, "sent") /\ call[s].kind = "undo"
  /\ IF book # <<>> THEN Undo ELSE UNCHANGED server
  /\ Answer(s, call[s])
  /\ takenBack' = TRUE

ServeClear(s) ==
  /\ AtStage(s, "sent") /\ call[s].kind = "clear"
  /\ Clear
  /\ Answer(s, call[s])
  /\ UNCHANGED takenBack

ServeRestore(s) ==
  /\ AtStage(s, "sent") /\ call[s].kind = "restore"
  /\ book' = call[s].file.book /\ closed' = call[s].file.closed
  /\ Answer(s, call[s])
  /\ takenBack' = TRUE

\* GetDashboardAsync: two queries, outside the write lock.
ServeOpenPallets(s) ==
  /\ AtStage(s, "reloading")
  /\ call' = [call EXCEPT ![s].stage = "read pallets", ![s].seen.open = OpenPallets]
  /\ UNCHANGED <<server, page, takenBack, disturbances>>

ServeRecentEntries(s) ==
  /\ AtStage(s, "read pallets")
  /\ call' = [call EXCEPT ![s].stage = "reloaded", ![s].seen.entries = NewestEntries]
  /\ UNCHANGED <<server, page, takenBack, disturbances>>

OtherStation ==
  /\ Disturbing("other stations")
  /\ \/ /\ RoomForOneMore
        /\ \E n \in PalletNumbers, v \in Variants, q \in Quantities :
             RegisterWithVariant(n, v, q) \/ RegisterWithRoom(n, v, q) \/ RegisterNewPallet(n, v, q)
     \/ \E n \in Pallets : Close(n) \/ Confirm(n)
     \/ Undo \/ Clear
  /\ UNCHANGED <<page, call, takenBack>>

-----------------------------------------------------------------------------
(* The handlers, once their response is there.                             *)

Answered(s, kind) == AtStage(s, "answered") /\ call[s].kind = kind
Reload(s) == [NewCall("reload", "reloading") EXCEPT !.mine = call[s].mine, !.print = call[s].print]
ThenReload(s) == call' = [call EXCEPT ![s] = Reload(s)]
Finish(s) == call' = [call EXCEPT ![s] = NoCall]

\* Mutant of AfterRegister: the dashboard is loaded again only by the next page.
AfterRegisterUnloaded(s) ==
  /\ Answered(s, "register") /\ Calm
  /\ IF call[s].created THEN Unmount
     ELSE /\ suggested' = IF call[s].mine THEN call[s].pallet ELSE suggested
          /\ takenBack' = (takenBack /\ ~call[s].mine)
          /\ UNCHANGED <<mounted, loading, board, warning>>
  /\ Finish(s)
  /\ UNCHANGED server

\* A new pallet sends the operator to its label at once, wherever they are by
\* now; the handler loads the dashboard all the same.
AfterRegister(s) ==
  /\ Answered(s, "register") /\ Calm
  /\ IF call[s].created
       THEN /\ Unmount
            /\ call' = [t \in Slots |-> IF t = s THEN [Reload(s) EXCEPT !.mine = FALSE]
                                                 ELSE Disowned(t)]
       ELSE /\ suggested' = IF call[s].mine THEN call[s].pallet ELSE suggested
            /\ takenBack' = (takenBack /\ ~call[s].mine)
            /\ UNCHANGED <<mounted, loading, board, warning>>
            /\ ThenReload(s)
  /\ UNCHANGED server

\* Mutant of AfterConfirm: a warning is taken for an error.
AfterConfirmStrict(s) ==
  /\ Answered(s, "confirm") /\ Calm
  /\ IF call[s].done < call[s].count THEN Finish(s) ELSE ThenReload(s)
  /\ UNCHANGED <<server, page, takenBack>>

\* No colli confirmed is an error; fewer than asked for is a warning.
AfterConfirm(s) ==
  /\ Answered(s, "confirm") /\ Calm
  /\ IF call[s].done = 0 THEN Finish(s) ELSE ThenReload(s)
  /\ UNCHANGED <<server, page, takenBack>>

JustReload(s) == ThenReload(s) /\ Calm /\ UNCHANGED <<server, page, takenBack>>
AfterClose(s) == Answered(s, "close") /\ JustReload(s)
AfterUndo(s) == Answered(s, "undo") /\ JustReload(s)
AfterRestore(s) == Answered(s, "restore") /\ JustReload(s)

\* Mutant of AfterClear: the suggestion stays.
AfterClearKeeping(s) ==
  /\ Answered(s, "clear") /\ Calm
  /\ warning' = (warning /\ ~call[s].mine)
  /\ ThenReload(s)
  /\ UNCHANGED <<server, mounted, loading, board, suggested, takenBack>>

AfterClear(s) ==
  /\ Answered(s, "clear") /\ Calm
  /\ warning' = (warning /\ ~call[s].mine)
  /\ suggested' = IF call[s].mine THEN NoPallet ELSE suggested
  /\ ThenReload(s)
  /\ UNCHANGED <<server, mounted, loading, board, takenBack>>

\* Only a page that is still there takes the dashboard; "Luk + print" then goes
\* to the print page, wherever the operator is by now.
AfterReload(s) ==
  /\ AtStage(s, "reloaded") /\ Calm
  /\ IF call[s].print
       THEN /\ Unmount
            /\ call' = [t \in Slots |-> IF t = s THEN NoCall ELSE Disowned(t)]
       ELSE /\ board' = IF call[s].mine THEN call[s].seen ELSE board
            /\ loading' = (loading /\ ~(call[s].mine /\ call[s].kind = "load"))
            /\ UNCHANGED <<mounted, suggested, warning, takenBack>>
            /\ Finish(s)
  /\ UNCHANGED server

\* Mutant of LoseResponse: without the finally block.
LoseResponseLoading(s) ==
  /\ Disturbing("lost response")
  /\ call[s] # NoCall
  /\ Finish(s)
  /\ UNCHANGED <<server, page, takenBack>>

\* The request or its response is lost, at any stage: the error is shown.  The
\* first load ends with an empty dashboard.
LoseResponse(s) ==
  /\ Disturbing("lost response")
  /\ call[s] # NoCall
  /\ loading' = (loading /\ ~(call[s].mine /\ call[s].kind = "load"))
  /\ Finish(s)
  /\ UNCHANGED <<server, mounted, board, suggested, warning, takenBack>>

-----------------------------------------------------------------------------
Serve(s) ==
  \/ ServeRegister(s) \/ ServeConfirmOne(s) \/ ServeConfirmEnd(s) \/ ServeClose(s)
  \/ ServeUndo(s) \/ ServeClear(s) \/ ServeRestore(s)
  \/ ServeOpenPallets(s) \/ ServeRecentEntries(s)

Handle(s) ==
  \/ AfterRegister(s) \/ AfterConfirm(s) \/ AfterClose(s) \/ AfterUndo(s) \/ AfterRestore(s)
  \/ AfterClear(s) \/ AfterReload(s)

PageNext ==
  \/ \E s \in Slots :
       \/ Mount(s)
       \/ \E v \in Variants, q \in Quantities : SubmitRegisterColli(s, v, q)
       \/ \E code \in PalletNumbers \union {Blank, Unreadable}, k \in ScanCounts :
            SubmitConfirmMove(s, code, k)
       \/ \E n \in PalletNumbers, printContents \in BOOLEAN : ClosePallet(s, n, printContents)
       \/ UndoLastEntry(s) \/ ClearDatabase(s)
       \/ \E file \in Backups : RestoreDatabase(s, file)
       \/ Serve(s) \/ Handle(s) \/ LoseResponse(s)
  \/ Leave \/ OpenClearDatabaseWarning \/ CancelClearDatabaseWarning
  \/ OtherStation

PageSpec == PageInit /\ [][PageNext]_pageVars

-----------------------------------------------------------------------------
(* Properties.                                                             *)

\* "Refresh keeps dashboard state truthful": in a calm shift, whenever the page
\* waits for nothing it shows the tables, whatever was registered, confirmed in
\* part or in full, closed, undone, cleared or restored, and whatever handlers of
\* earlier pages still run.
BoardTruthful ==
  disturbances = 0 /\ Ready /\ Mine = {} => board = Dashboard

\* "Fortryd seneste" takes back the entry the operator sees on top: the undo is
\* a request without an argument, and in a calm shift the newest row of the
\* tables is the newest row shown.
UndoesShownEntry ==
  [][\A s \in Slots : disturbances = 0 /\ ServeUndo(s) /\ call[s].mine /\ book # <<>> =>
       Last(book) = Last(board.entries)]_pageVars

\* The pallet the page suggests (and confirms when nothing is scanned) exists,
\* unless bookings were undone or a backup restored since it was suggested.
SuggestionStands ==
  disturbances = 0 /\ mounted /\ Mine = {} /\ suggested # NoPallet /\ ~takenBack =>
    suggested \in Pallets

\* "Indlæser..." shows only while a load of this very page is under way: the
\* operator is never locked out by the load of an earlier page, or by one that
\* failed, whatever happens around the page.
LoadingHasALoad == mounted /\ loading => \E s \in Mine : call[s].kind = "load"

\* While the forms are up, what is in the fields is what was read.  A label read
\* in one piece fills an empty form with the product number and the expiry date it
\* carries, whichever of the forms the scanner sends it in and whatever its batch
\* number looks like; a date that is none is left out.  (Labels with neither are
\* product numbers as they stand.)  The expiry field is normalised after every key,
\* and a date typed into it, as eight digits or as six, is there when the last key
\* is: no part of a date on its way is taken for a date of six digits.
FieldsHoldWhatWasRead == Ready => EveryLabel /\ EveryDate

\* The page's check of a pallet label and the server's reading of it are two pieces
\* of code, and the page drops less than the server.  One odd character before P or
\* behind the number, and the Danish keyboard's signs, do no harm: the page lets the
\* suggested pallet's label pass and the server finds its number.  Wherever the odd
\* character is, the server takes the label for no other pallet than the one it was
\* printed for.  And the page lets another pallet's label pass for the suggested one
\* only where it finds no code (the odd character is between P and the first digit)
\* or where the suggested number is the beginning of the printed one, as P-100 is of
\* P-1000: then it is the printed pallet that is confirmed.
PalletScansAgree == Ready => EveryRightLabel /\ EveryNoisyLabel

\* UPC-A codes whose check digit is that of the GS1 rule (three times the digits
\* in odd places) are grouped with their EAN-13 form, and no other twelve digits
\* are: one more or fewer leading zero never makes two products of one.
EquivalentScansGroup == Ready => EveryUpc
=============================================================================

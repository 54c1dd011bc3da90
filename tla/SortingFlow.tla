---------------------------- MODULE SortingFlow ----------------------------
(***************************************************************************)
(* "Ny pallesortering": one station's page (useNewPalletSorting) talking   *)
(* to the server's tables.  The operator registers one colli, puts it on   *)
(* the suggested pallet and confirms it, then takes the next.              *)
(*                                                                         *)
(* The page keeps its step in React state, which dies with the page, and   *)
(* the pallet it waits for in sessionStorage, which does not.  Leaving for *)
(* a print page, the overview or a reload drops the page; its handlers     *)
(* that still await a response run on and may write the storage and        *)
(* navigate, but no longer touch the state of any page.                    *)
(*                                                                         *)
(* Disturbances says what the surroundings may do, and how often is        *)
(* counted, so that the properties can tell what the flow keeps in a calm  *)
(* shift from what it keeps regardless.                                    *)
(***************************************************************************)
EXTENDS WarehouseStore

CONSTANTS
  Slots,          \* requests of the station that can be under way at once
  Disturbances,   \* subset of PossibleDisturbances
  MaxDisturbances,  \* bound: disturbing steps in a behaviour
  MaxAbandoned    \* bound: colli left unconfirmed by ending the sorting

PossibleDisturbances ==
  {"close awaited pallet from list", "leave while waiting", "lost response", "other stations"}

ASSUME DisturbancesAssumption == Disturbances \subseteq PossibleDisturbances
ASSUME FlowBoundsAssumption == MaxAbandoned \in Nat /\ MaxDisturbances \in Nat

VARIABLES
  onPage,      \* the page is mounted (else: print page, overview, ...)
  started,     \* newSortingActive in localStorage
  pending,     \* newSortingPendingPallet in sessionStorage, or NoPallet
  step,        \* activeStep
  suggested,   \* suggestedPalletId, or NoPallet
  submitting,
  call,        \* slot -> the request a handler is waiting for
  abandoned,   \* history: colli registered here whose sorting was ended first
  disturbances \* history: disturbing steps so far

pageVars == <<onPage, step, suggested, submitting>>
flowVars == <<pageVars, started, pending, call, abandoned, disturbances>>
allVars == <<vars, flowVars>>

Blank == -1        \* an empty scan
Unreadable == -2   \* a code in which neither side finds a pallet number
Colli == 1         \* registerQuantity and confirmScanCount
ASSUME ColliAssumption == Colli \in Quantities

NoVariant == <<>>   \* in requests that do not register

Kinds == {"register", "confirm", "close current", "close listed"}

Call == [kind     : Kinds,
         pallet   : PalletNumbers \union {NoPallet, Unreadable},
         variant  : Variants \union {NoVariant},
         awaited  : BOOLEAN,     \* suggestedPalletId === palletId in the handler's closure
         mine     : BOOLEAN,     \* sent by the page that is mounted
         outcome  : {"sent", "success", "error"},
         created  : BOOLEAN]     \* createdNewPallet

NoCall == [kind |-> "none"]

FlowTypeOK ==
  /\ TypeOK
  /\ onPage \in BOOLEAN /\ started \in BOOLEAN /\ submitting \in BOOLEAN
  /\ step \in {"register", "confirm"}
  /\ pending \in PalletNumbers \union {NoPallet}
  /\ suggested \in PalletNumbers \union {NoPallet}
  /\ call \in [Slots -> Call \union {NoCall}]
  /\ abandoned \in Nat /\ disturbances \in 0..MaxDisturbances

FlowInit ==
  /\ Init
  /\ onPage = TRUE /\ started = FALSE /\ submitting = FALSE
  /\ step = "register"
  /\ pending = NoPallet /\ suggested = NoPallet
  /\ call = [s \in Slots |-> NoCall]
  /\ abandoned = 0 /\ disturbances = 0

\* A step that disturbs the flow, and one that does not.
Disturbing(kind) ==
  /\ kind \in Disturbances /\ disturbances < MaxDisturbances
  /\ disturbances' = disturbances + 1
Calm == UNCHANGED disturbances
Waiting == {s \in Slots : call[s] # NoCall}
Registering == {s \in Waiting : call[s].kind = "register" /\ call[s].outcome = "sent"}
RoomForOneMore == Len(entries) + Cardinality(Registering) < MaxEntries

-----------------------------------------------------------------------------
(* The operator at the page.                                               *)

StartNewSorting ==
  /\ onPage /\ ~started
  /\ started' = TRUE
  /\ step' = "register" /\ suggested' = NoPallet /\ pending' = NoPallet
  /\ UNCHANGED <<vars, onPage, submitting, call, abandoned, disturbances>>

\* The button is disabled while a request is under way.
FinishSorting ==
  /\ onPage /\ started /\ ~submitting
  /\ IF step = "confirm" THEN abandoned < MaxAbandoned /\ abandoned' = abandoned + 1
                         ELSE UNCHANGED abandoned
  /\ started' = FALSE
  /\ step' = "register" /\ suggested' = NoPallet /\ pending' = NoPallet
  /\ UNCHANGED <<vars, onPage, submitting, call, disturbances>>

Send(s, kind, n, v, awaited) ==
  /\ onPage /\ ~submitting /\ call[s] = NoCall
  /\ call' = [call EXCEPT ![s] = [kind |-> kind, pallet |-> n, variant |-> v, awaited |-> awaited,
                                  mine |-> TRUE, outcome |-> "sent", created |-> FALSE]]
  /\ submitting' = TRUE
  /\ UNCHANGED <<vars, onPage, started, pending, step, suggested, abandoned>>

RegisterOneColli(s, v) ==
  /\ started /\ step = "register"
  /\ RoomForOneMore
  /\ Send(s, "register", NoPallet, v, FALSE) /\ Calm

\* validateSuggestedPalletMatch, then resolvePalletCode.
ConfirmMove(s, code) ==
  /\ started /\ step = "confirm"
  /\ code \in PalletNumbers /\ suggested # NoPallet => code = suggested
  /\ LET palletCode == IF code = Blank THEN suggested ELSE code
     IN /\ palletCode # NoPallet
        /\ Send(s, "confirm", palletCode, NoVariant, FALSE) /\ Calm

CloseCurrentPallet(s) ==
  /\ started /\ step = "confirm" /\ suggested # NoPallet
  /\ Send(s, "close current", suggested, NoVariant, TRUE) /\ Calm

ClosePalletFromList(s, n) ==
  /\ n \in Live
  /\ IF step = "confirm" /\ n = suggested THEN Disturbing("close awaited pallet from list")
                                           ELSE Calm
  /\ Send(s, "close listed", n, NoVariant, n = suggested)

\* To a print page (the list's print button is never disabled), the overview or
\* the login page.  Handlers that wait go on waiting.
Leave ==
  /\ onPage
  /\ IF Waiting # {} THEN Disturbing("leave while waiting") ELSE Calm
  /\ onPage' = FALSE
  /\ call' = [s \in Slots |-> IF s \in Waiting THEN [call[s] EXCEPT !.mine = FALSE] ELSE NoCall]
  /\ UNCHANGED <<vars, started, pending, step, suggested, submitting, abandoned>>

\* Mutants of Return: the step is not restored; no pending pallet is an empty code.
ReturnToRegister ==
  /\ ~onPage
  /\ onPage' = TRUE
  /\ step' = "register" /\ suggested' = NoPallet /\ submitting' = FALSE
  /\ UNCHANGED <<vars, started, pending, call, abandoned, disturbances>>

ReturnWithBlank ==
  /\ ~onPage
  /\ onPage' = TRUE
  /\ step' = IF pending # NoPallet THEN "confirm" ELSE "register"
  /\ suggested' = IF pending # NoPallet THEN pending ELSE Blank
  /\ submitting' = FALSE
  /\ UNCHANGED <<vars, started, pending, call, abandoned, disturbances>>

\* The new page takes its step from the storage.
Return ==
  /\ ~onPage
  /\ onPage' = TRUE
  /\ step' = IF pending # NoPallet THEN "confirm" ELSE "register"
  /\ suggested' = pending
  /\ submitting' = FALSE
  /\ UNCHANGED <<vars, started, pending, call, abandoned, disturbances>>

-----------------------------------------------------------------------------
(* The server.                                                             *)

Reply(s, outcome, n, created) ==
  /\ call' = [call EXCEPT ![s].outcome = outcome, ![s].pallet = n, ![s].created = created]
  /\ UNCHANGED <<pageVars, started, pending, abandoned, disturbances>>

ServeRegister(s) ==
  /\ call[s] # NoCall /\ call[s].kind = "register" /\ call[s].outcome = "sent"
  /\ \E n \in PalletNumbers :
       \/ RegisterOnExisting(n, call[s].variant, Colli) /\ Reply(s, "success", n, FALSE)
       \/ RegisterOnNew(n, call[s].variant, Colli) /\ Reply(s, "success", n, TRUE)

\* The service refuses a duplicate scan, an unreadable code and a pallet with
\* nothing left to confirm; the duplicate-scan guard may refuse any scan here.
ServeConfirm(s) ==
  /\ call[s] # NoCall /\ call[s].kind = "confirm" /\ call[s].outcome = "sent"
  /\ \/ ConfirmLatestUnconfirmed(call[s].pallet) /\ Reply(s, "success", call[s].pallet, FALSE)
     \/ UNCHANGED vars /\ Reply(s, "error", call[s].pallet, FALSE)

ServeClose(s) ==
  /\ call[s] # NoCall /\ call[s].kind \in {"close current", "close listed"}
  /\ call[s].outcome = "sent"
  /\ ClosePallet(call[s].pallet)
  /\ Reply(s, "success", call[s].pallet, FALSE)

OtherStation ==
  /\ Disturbing("other stations")
  /\ \/ /\ RoomForOneMore
        /\ \E n \in PalletNumbers, v \in Variants :
             RegisterOnExisting(n, v, Colli) \/ RegisterOnNew(n, v, Colli)
     \/ \E n \in PalletNumbers : ConfirmLatestUnconfirmed(n) \/ ClosePallet(n)
     \/ UndoLast \/ ClearAllData
  /\ UNCHANGED <<pageVars, started, pending, call, abandoned>>

-----------------------------------------------------------------------------
(* The handlers, once their response is there.                             *)

\* Mutant of Unlock: any handler unlocks the page.
UnlockAnyPage(s) == submitting' = FALSE

\* setSubmitting(false) reaches the page only if it is the handler's own.
Unlock(s) == submitting' = IF call[s].mine THEN FALSE ELSE submitting

Done(s) ==
  /\ call' = [call EXCEPT ![s] = NoCall]
  /\ Unlock(s)
  /\ UNCHANGED <<vars, onPage, started, abandoned>>

\* Mutant of DoneOnPrintPage: the page stays.
DoneStaying(s) == Done(s)

\* navigateTo a print page, wherever the operator is by now.
DoneOnPrintPage(s) ==
  /\ onPage' = FALSE
  /\ call' = [t \in Slots |-> IF t \in Waiting \ {s} THEN [call[t] EXCEPT !.mine = FALSE]
                              ELSE NoCall]
  /\ Unlock(s)
  /\ UNCHANGED <<vars, started, abandoned>>

\* Mutant of AfterRegister: without setPendingPalletId.
AfterRegisterUnsaved(s) ==
  /\ call[s] # NoCall /\ call[s].kind = "register" /\ call[s].outcome = "success"
  /\ IF call[s].mine THEN step' = "confirm" /\ suggested' = call[s].pallet
                     ELSE UNCHANGED <<step, suggested>>
  /\ IF call[s].created THEN DoneOnPrintPage(s) ELSE Done(s)
  /\ Calm /\ UNCHANGED pending

AfterRegister(s) ==
  /\ call[s] # NoCall /\ call[s].kind = "register" /\ call[s].outcome = "success"
  /\ pending' = call[s].pallet
  /\ IF call[s].mine THEN step' = "confirm" /\ suggested' = call[s].pallet
                     ELSE UNCHANGED <<step, suggested>>
  /\ IF call[s].created THEN DoneOnPrintPage(s) ELSE Done(s)
  /\ Calm

\* Mutant of AfterConfirm: without clearPendingPalletId.
AfterConfirmKeepingPending(s) ==
  /\ call[s] # NoCall /\ call[s].kind = "confirm" /\ call[s].outcome = "success"
  /\ step' = IF call[s].mine THEN "register" ELSE step
  /\ Done(s) /\ Calm
  /\ UNCHANGED <<pending, suggested>>

AfterConfirm(s) ==
  /\ call[s] # NoCall /\ call[s].kind = "confirm" /\ call[s].outcome = "success"
  /\ pending' = NoPallet
  /\ step' = IF call[s].mine THEN "register" ELSE step
  /\ Done(s) /\ Calm
  /\ UNCHANGED suggested

\* Both ways of closing end on the print page of the contents; closing the
\* awaited pallet from the list also forgets that a colli waits for it.
AfterClose(s) ==
  /\ call[s] # NoCall /\ call[s].kind \in {"close current", "close listed"}
  /\ call[s].outcome = "success"
  /\ IF call[s].kind = "close listed" /\ call[s].awaited
       THEN /\ pending' = NoPallet
            /\ suggested' = IF call[s].mine THEN NoPallet ELSE suggested
       ELSE UNCHANGED <<pending, suggested>>
  /\ DoneOnPrintPage(s) /\ Calm
  /\ UNCHANGED step

AfterError(s) ==
  /\ call[s] # NoCall /\ call[s].outcome = "error"
  /\ Done(s) /\ Calm
  /\ UNCHANGED <<pending, step, suggested>>

\* The request or its response is lost, or the handler went with a reload of
\* the tab: the catch block shows the error and that is all.
LoseResponse(s) ==
  /\ Disturbing("lost response")
  /\ call[s] # NoCall
  /\ Done(s)
  /\ UNCHANGED <<pending, step, suggested>>

-----------------------------------------------------------------------------
FlowNext ==
  \/ StartNewSorting \/ FinishSorting \/ Leave \/ Return
  \/ \E s \in Slots :
       \/ \E v \in Variants : RegisterOneColli(s, v)
       \/ \E code \in PalletNumbers \union {Blank, Unreadable} : ConfirmMove(s, code)
       \/ CloseCurrentPallet(s)
       \/ \E n \in PalletNumbers : ClosePalletFromList(s, n)
       \/ ServeRegister(s) \/ ServeConfirm(s) \/ ServeClose(s)
       \/ AfterRegister(s) \/ AfterConfirm(s) \/ AfterClose(s) \/ AfterError(s) \/ LoseResponse(s)
  \/ OtherStation

FlowSpec == FlowInit /\ [][FlowNext]_allVars

-----------------------------------------------------------------------------
(* Properties.                                                             *)

UnconfirmedOn(n) == {i \in EntriesOf(n) : entries[i].confirmed < entries[i].qty}
UnconfirmedColli ==
  SumFunctionOnSet([i \in 1..Len(entries) |-> entries[i].qty - entries[i].confirmed], 1..Len(entries))

\* One colli at a time: the tables hold exactly as many unconfirmed colli as the
\* storage says is awaited (none or one), besides those of sortings ended in step 2.
OneColliAtATime == UnconfirmedColli = abandoned + (IF pending = NoPallet THEN 0 ELSE 1)

\* The page asks for the confirmation of a colli that is really there, and for no
\* other step than the storage would bring back: step 2 iff a pallet is pending,
\* and that pallet has a colli left to confirm, closed or not.
StepMatchesTables ==
  onPage => /\ step = "confirm" <=> pending # NoPallet
            /\ step = "confirm" => suggested = pending /\ UnconfirmedOn(suggested) # {}

\* Between the requests of a calm shift page, storage and tables agree: through
\* every visit to a print page and every closing of a pallet, one colli at a time
\* is under way and the page is in the step that colli is in.
PageMatchesTables ==
  disturbances = 0 /\ Waiting = {} => OneColliAtATime /\ StepMatchesTables

\* "Ved retur fra print genoptages flowet på aktivt trin": the page comes back
\* in the step in which it was left.
ResumesActiveStep == [][~onPage /\ onPage' => step' = step]_allVars

\* Whatever happens around it, step 2 always shows the pallet it asks for:
\* although closing that pallet from the list takes the suggestion away, the
\* operator is never left with a step 2 that accepts any pallet.
ConfirmStepHasPallet == onPage /\ step = "confirm" => suggested # NoPallet

\* Whatever happens around it, the page is locked exactly while one handler of
\* its own waits: handlers of a page that is gone neither lock the new page nor
\* unlock it under a request of its own.
LockedWhileWaiting ==
  onPage => /\ submitting <=> \E s \in Waiting : call[s].mine
            /\ Cardinality({s \in Waiting : call[s].mine}) <= 1
=============================================================================

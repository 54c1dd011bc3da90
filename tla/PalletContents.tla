--------------------------- MODULE PalletContents ---------------------------
(***************************************************************************)
(* The two views of what is on a pallet: the card "Indhold på paller" of   *)
(* both pages, and the print page of the contents.  Each loads the         *)
(* contents of its pallet in an effect whose cleanup makes the load stale; *)
(* a stale load comes back without touching the view.                      *)
(*                                                                         *)
(* A step here is the step of the program together with the render and the *)
(* effects it sets off, but for the one effect that races a timer: what an *)
(* error does to the print page's timer is a later step of its own.  What a *)
(* pallet holds is a version number.  When a view comes up, changes or goes *)
(* is for StationScreens to say; they are never up at the same time.       *)
(***************************************************************************)
EXTENDS Integers, FiniteSets

CONSTANT Pallets

ASSUME PalletsAssumption == Pallets \subseteq Nat \ {0}

VARIABLES
  version,     \* pallet -> which contents it has in the tables
  card,        \* the card, or NoCard
  sheet,       \* the print page, or NoSheet
  load,        \* the fetchWarehousePalletContents whose effect still stands, or NoLoad
  stale        \* pallets whose contents come back for an effect that was cleaned up

views == <<card, sheet, load, stale>>

NoPallet == 0
Nothing == [pallet |-> NoPallet, version |-> 0]    \* no items
NoCard == [offered |-> {}, open |-> {}, selected |-> NoPallet, shown |-> Nothing,
           loading |-> FALSE, failed |-> FALSE]
\* due: the effects of the render that shows an error have not run yet.
NoSheet == [target |-> NoPallet, shown |-> Nothing, error |-> FALSE, timer |-> FALSE, due |-> FALSE]
NoLoad == [stage |-> "none", pallet |-> NoPallet, version |-> 0]

ContentsTypeOK ==
  LET Items == [pallet : Pallets \union {NoPallet}, version : Nat] IN
  /\ version \in [Pallets -> Nat]
  /\ card \in [offered : SUBSET Pallets, open : SUBSET Pallets, selected : Pallets \union {NoPallet}, shown : Items,
               loading : BOOLEAN, failed : BOOLEAN]
  /\ sheet \in [target : Pallets \union {NoPallet}, shown : Items,
                error : BOOLEAN, timer : BOOLEAN, due : BOOLEAN]
  /\ load \in [stage : {"none", "sent", "items", "error"}, pallet : Pallets \union {NoPallet},
               version : Nat]
  /\ stale \subseteq Pallets

ContentsInit ==
  /\ version = [n \in Pallets |-> 0]
  /\ card = NoCard /\ sheet = NoSheet /\ load = NoLoad /\ stale = {}

-----------------------------------------------------------------------------
(* Loads.                                                                  *)

\* The cleanup of the effect, and the effect.  A request without a session is
\* refused.
CleanUp == stale' = IF load = NoLoad THEN stale ELSE stale \union {load.pallet}
Fetch(n, allowed) ==
  /\ CleanUp
  /\ load' = [stage |-> IF allowed THEN "sent" ELSE "error", pallet |-> n, version |-> 0]
Forget == CleanUp /\ load' = NoLoad

ReadContents ==
  /\ load.stage = "sent"
  /\ load' = [load EXCEPT !.stage = "items", !.version = version[load.pallet]]
  /\ UNCHANGED <<version, card, sheet, stale>>

LoseContents ==
  /\ load.stage \in {"sent", "items"}
  /\ load' = [load EXCEPT !.stage = "error", !.version = 0]
  /\ UNCHANGED <<version, card, sheet, stale>>

ShowItems(items) ==
  IF sheet # NoSheet
    THEN sheet' = [sheet EXCEPT !.shown = items] /\ UNCHANGED card
    ELSE card' = [card EXCEPT !.shown = items, !.loading = FALSE] /\ UNCHANGED sheet

\* Mutant of ShowError: no finally block.
ShowErrorLoading ==
  IF sheet # NoSheet
    THEN sheet' = [sheet EXCEPT !.error = TRUE, !.due = TRUE] /\ UNCHANGED card
    ELSE card' = [card EXCEPT !.failed = TRUE] /\ UNCHANGED sheet

\* The card keeps the items it had and leaves the error to its page; the print
\* page shows it for good, its timer still running.
ShowError ==
  IF sheet # NoSheet
    THEN sheet' = [sheet EXCEPT !.error = TRUE, !.due = TRUE] /\ UNCHANGED card
    ELSE card' = [card EXCEPT !.failed = TRUE, !.loading = FALSE] /\ UNCHANGED sheet

LoadEnds ==
  /\ \/ load.stage = "items" /\ ShowItems([pallet |-> load.pallet, version |-> load.version])
     \/ load.stage = "error" /\ ShowError
  /\ load' = NoLoad
  /\ UNCHANGED <<version, stale>>

\* Mutant of StaleLoadEnds: the effect has no cleanup.
StaleLoadShown(n) ==
  /\ n \in stale /\ {card, sheet} # {NoCard, NoSheet}
  /\ stale' = stale \ {n}
  /\ ShowItems([pallet |-> n, version |-> version[n]])
  /\ UNCHANGED <<version, load>>

StaleLoadEnds(n) ==
  /\ n \in stale
  /\ stale' = stale \ {n}
  /\ UNCHANGED <<version, card, sheet, load>>

-----------------------------------------------------------------------------
(* The card.                                                               *)

\* Both effects of the card in its new form c, for a choice n among the pallets
\* it offers.
CardOn(n, c, allowed) ==
  IF n = NoPallet
    THEN card' = [c EXCEPT !.selected = n, !.shown = Nothing, !.failed = FALSE] /\ Forget
    ELSE card' = [c EXCEPT !.selected = n, !.loading = TRUE, !.failed = FALSE] /\ Fetch(n, allowed)

Listing(offered, openIds) == [card EXCEPT !.offered = offered, !.open = openIds]
NextChoices(offered) ==
  IF card.selected \in offered THEN {card.selected}
  ELSE IF offered = {} THEN {NoPallet} ELSE offered

\* Mutant of OfferPallets: the refresh token does not count.
OfferUnrefreshed(offered, openIds, refresh, allowed) ==
  \E n \in NextChoices(offered) :
    IF n = card.selected
      THEN card' = Listing(offered, openIds) /\ UNCHANGED <<load, stale>>
      ELSE CardOn(n, Listing(offered, openIds), allowed)

\* The page has read its dashboard: the chosen pallet stays chosen while it is
\* offered, else the first takes its place; a new refresh token loads again.
OfferPallets(offered, openIds, refresh, allowed) ==
  \E n \in NextChoices(offered) :
    IF n = card.selected /\ ~refresh
      THEN card' = Listing(offered, openIds) /\ UNCHANGED <<load, stale>>
      ELSE CardOn(n, Listing(offered, openIds), allowed)

SelectPallet(n, allowed) ==
  /\ n \in card.offered \ {card.selected}
  /\ CardOn(n, card, allowed)
  /\ UNCHANGED <<version, sheet>>

-----------------------------------------------------------------------------
(* The print page.                                                         *)

\* The timer is set if the switch for it (printAutoMode in localStorage) is.
OpenSheet(n, allowed) ==
  /\ \E on \in BOOLEAN : sheet' = [NoSheet EXCEPT !.target = n, !.timer = on]
  /\ Fetch(n, allowed)
  /\ card' = NoCard

\* Another pallet's print page is the same component with another palletId: it
\* keeps its items, its error and its timer.  Effects that are due run first.
RetargetSheet(n, allowed) ==
  /\ sheet' = [sheet EXCEPT !.target = n, !.timer = @ /\ ~sheet.error, !.due = FALSE]
  /\ Fetch(n, allowed)
  /\ UNCHANGED card

\* Mutant of CloseViews: the effects are not cleaned up.
CloseViewsLoading == card' = NoCard /\ sheet' = NoSheet /\ UNCHANGED <<load, stale>>

CloseViews == card' = NoCard /\ sheet' = NoSheet /\ Forget

\* usePrintOnMount: 100 ms after the page came up, or after the switch was set.
PrintOnMount ==
  /\ sheet.timer
  /\ sheet' = [sheet EXCEPT !.timer = FALSE]
  /\ UNCHANGED <<version, card, load, stale>>

\* The cleanup of usePrintOnMount, once the effects of the render with the error
\* run: later than the render, so the timer may have fired by then.
ClearPrintTimer ==
  /\ sheet.due
  /\ sheet' = [sheet EXCEPT !.timer = FALSE, !.due = FALSE]
  /\ UNCHANGED <<version, card, load, stale>>

\* Mutant of SetAutoPrint: usePrintOnMount(autoPrintEnabled), error or not.
SetAutoPrintAnyway(on) ==
  /\ sheet # NoSheet
  /\ sheet' = [sheet EXCEPT !.timer = on, !.due = FALSE]
  /\ UNCHANGED <<version, card, load, stale>>

SetAutoPrint(on) ==
  /\ sheet # NoSheet
  /\ sheet' = [sheet EXCEPT !.timer = on /\ ~sheet.error, !.due = FALSE]
  /\ UNCHANGED <<version, card, load, stale>>
=============================================================================

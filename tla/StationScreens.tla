--------------------------- MODULE StationScreens ---------------------------
(***************************************************************************)
(* The screens of a station (App): the login, the two pages, their card of *)
(* contents, and the print pages, with the requests that outlive them.     *)
(*                                                                         *)
(* Of the pages' own work only what concerns the screens is here: a        *)
(* handler that registers a colli, closes a pallet or clears the tables,   *)
(* reloads the dashboard and may navigate.  One runs at a time; SortingFlow*)
(* and OverviewPage are about the rest, torn and late dashboards included. *)
(* The session is the station's cookie: a request is answered by the       *)
(* cookie it was sent with.                                                *)
(***************************************************************************)
EXTENDS PalletContents

CONSTANTS
  MaxChanges,       \* bound: changes of what pallets hold
  Disturbances,     \* subset of PossibleDisturbances
  MaxDisturbances   \* bound: kinds of disturbance in a behaviour, each at most once

PossibleDisturbances ==
  {"leave while waiting", "lost response"}

ASSUME ScreensAssumption ==
  /\ Disturbances \subseteq PossibleDisturbances
  /\ {MaxChanges, MaxDisturbances} \subseteq Nat

VARIABLES
  changes,       \* how often what pallets hold has changed: the newest version
  open, known,   \* pallets that are open; pallets of the newest entries
  session,       \* the browser holds a valid cookie
  auth,          \* authState: "loading", "out" or "in"
  authCall,      \* the auth requests under way, one chain at a time, or NoCall
  route,         \* printRoute, or App
  viewMode,
  loading,       \* the page waits for its first dashboard
  work,          \* the handler under way, or NoWork
  happened       \* history: disturbances so far

stationVars == <<version, changes, views, open, known, session, auth, authCall, route, viewMode,
                 loading, work, happened>>

App == [page |-> "app", pallet |-> NoPallet]
PrintRoutes == [page : {"label", "contents"}, pallet : Pallets]
NoWork == [kind |-> "none"]
NoCall == [kind |-> "none"]
AuthCall(kind, stage, answer) == [kind |-> kind, stage |-> stage, answer |-> answer]
tables == <<version, changes>>

Disturbing(kind) ==
  /\ kind \in Disturbances \ happened /\ Cardinality(happened) < MaxDisturbances
  /\ happened' = happened \union {kind}
Calm == UNCHANGED happened

ScreenOf(a, r, v) == IF a # "in" THEN a ELSE IF r # App THEN r.page ELSE v
Screen == ScreenOf(auth, route, viewMode)
Pages == {"newSorting", "fullOverview"}
Waiting == work # NoWork /\ work.mine

ScreensTypeOK ==
  /\ ContentsTypeOK
  /\ changes \in 0..MaxChanges /\ open \subseteq Pallets /\ known \subseteq Pallets
  /\ auth \in {"loading", "out", "in"} /\ viewMode \in Pages /\ route \in PrintRoutes \union {App}
  /\ {session, loading} \subseteq BOOLEAN
  /\ \/ authCall = NoCall
     \/ authCall.kind \in {"me", "login", "logout"} /\ authCall.stage \in {"post", "me"}
  /\ card # NoCard => Screen \in Pages /\ ~loading
  /\ sheet # NoSheet <=> Screen = "contents"
  /\ load # NoLoad => Screen \in Pages \union {"contents"}
  /\ Waiting => work.view = Screen
  /\ happened \subseteq Disturbances

ScreensInit ==
  /\ ContentsInit
  /\ changes = 0 /\ open \in {{}, Pallets} /\ known = open
  /\ session \in BOOLEAN /\ auth = "loading"
  /\ authCall = AuthCall("me", "me", session)
  /\ route = App /\ viewMode = "newSorting" /\ loading = FALSE
  /\ work = NoWork /\ happened = {}

-----------------------------------------------------------------------------
(* Going from one screen to another.                                       *)

\* What is mounted after a change of authState, location or view mode.
GoTo(a, r, v) ==
  LET next == ScreenOf(a, r, v) IN
  /\ auth' = a /\ route' = r /\ viewMode' = v
  /\ CASE next = "contents" /\ Screen # "contents" -> OpenSheet(r.pallet, session') /\ loading' = FALSE
       [] next = "contents" /\ Screen = "contents" /\ r # route ->
            RetargetSheet(r.pallet, session') /\ UNCHANGED loading
       [] next = Screen /\ ~(next = "contents" /\ r # route) -> UNCHANGED <<views, loading>>
       [] OTHER -> CloseViews /\ loading' = (next \in Pages)
  /\ UNCHANGED tables
StaysMounted(a, r, v) == ScreenOf(a, r, v) = Screen

\* The page that goes leaves its handler running.
Disown(w) == IF w = NoWork THEN w ELSE [w EXCEPT !.mine = FALSE]
Leave(r, v) ==
  /\ auth = "in" /\ ScreenOf(auth, r, v) # Screen
  /\ IF Waiting THEN Disturbing("leave while waiting") ELSE Calm
  /\ work' = Disown(work)
  /\ UNCHANGED <<open, known, session, authCall>>
  /\ GoTo(auth, r, v)

\* "Label" and "Indhold" in the list of open pallets, "Print indhold" in the list
\* of entries, and "Print indholdslabel igen" at the card.
PrintOpenPallet(r) ==
  Screen = "fullOverview" /\ ~loading /\ r.pallet \in card.offered /\ Leave(r, viewMode)
PrintOfEntry(r) ==
  /\ Screen = "fullOverview" /\ ~loading /\ r.page = "contents" /\ r.pallet \in known
  /\ Leave(r, viewMode)
PrintPalletContentsLabel(r) ==
  /\ Screen = "newSorting" /\ ~loading /\ r.page = "contents" /\ r.pallet = card.selected
  /\ Leave(r, viewMode)

BackFromPrint == Screen \in {"label", "contents"} /\ Leave(App, viewMode)

SwitchView == Screen \in Pages /\ \E v \in Pages \ {viewMode} : Leave(App, v)

-----------------------------------------------------------------------------
(* Signing in and out.                                                     *)

StartAuth(kind) ==
  /\ authCall = NoCall
  /\ authCall' = AuthCall(kind, "post", FALSE)
  /\ Calm
  /\ UNCHANGED <<tables, views, open, known, session, auth, route, viewMode, loading, work>>

SubmitLogin == Screen = "out" /\ StartAuth("login")
Logout == Screen \in Pages /\ StartAuth("logout")

\* Mutant of Posted: the user is not fetched again after a logout.
PostedForgotten ==
  /\ authCall # NoCall /\ authCall.stage = "post" /\ Calm
  /\ session' = (authCall.kind = "login")
  /\ authCall' = IF authCall.kind = "logout" THEN NoCall ELSE AuthCall(authCall.kind, "me", session')
  /\ UNCHANGED <<tables, views, open, known, auth, route, viewMode, loading, work>>

\* The response of /auth/login or /auth/logout sets the cookie; then /auth/me.
Posted ==
  /\ authCall # NoCall /\ authCall.stage = "post" /\ Calm
  /\ session' = (authCall.kind = "login")
  /\ authCall' = AuthCall(authCall.kind, "me", session')
  /\ UNCHANGED <<tables, views, open, known, auth, route, viewMode, loading, work>>

\* A wrong password, or no response.
PostFails ==
  /\ authCall # NoCall /\ authCall.stage = "post"
  /\ IF authCall.kind = "login" THEN Calm ELSE Disturbing("lost response")
  /\ authCall' = NoCall
  /\ UNCHANGED <<tables, views, open, known, session, auth, route, viewMode, loading, work>>

\* setAuthState, and navigateTo /app or /login unless it was the first question.
\* No answer is an answer too: not signed in.
Refreshed ==
  /\ authCall # NoCall /\ authCall.stage = "me"
  /\ authCall' = NoCall
  /\ \E signedIn \in BOOLEAN :
       LET nextAuth == IF signedIn THEN "in" ELSE "out"
           nextRoute == IF authCall.kind = "me" THEN route ELSE App
       IN /\ IF signedIn = authCall.answer
               THEN IF Waiting /\ ~StaysMounted(nextAuth, nextRoute, viewMode)
                      THEN Disturbing("leave while waiting") ELSE Calm
               ELSE ~signedIn /\ Disturbing("lost response")
          /\ UNCHANGED <<open, known, session>>
          /\ GoTo(nextAuth, nextRoute, viewMode)
          /\ work' = IF StaysMounted(nextAuth, nextRoute, viewMode) THEN work ELSE Disown(work)

-----------------------------------------------------------------------------
(* The pages.                                                              *)

\* palletOptions: the sorting page adds recentClosedPalletIds.
Offered(v) == IF v = "newSorting" THEN open \union known ELSE open

\* The first dashboard, or none; the card comes up with the page.
PageLoads ==
  /\ loading
  /\ loading' = FALSE
  /\ \/ session /\ Calm /\ OfferPallets(Offered(Screen), open, TRUE, session)
     \/ /\ IF session THEN Disturbing("lost response") ELSE Calm
        /\ OfferPallets({}, {}, TRUE, session)
  /\ UNCHANGED <<tables, sheet, open, known, session, auth, authCall, route, viewMode, work>>

StartWork(kind, n, print) ==
  /\ Screen \in Pages /\ ~loading /\ work = NoWork
  /\ work' = [kind |-> kind, pallet |-> n, print |-> print, stage |-> "sent", created |-> FALSE,
              view |-> Screen, mine |-> TRUE, allowed |-> session]
  /\ UNCHANGED <<tables, views, open, known, session, auth, authCall, route, viewMode,
                 loading, happened>>

\* A colli goes to an open pallet or to a new one, never to a closed one.
RegisterColli(n) ==
  /\ n \in open \union (Pallets \ known) /\ changes < MaxChanges
  /\ StartWork("register", n, FALSE)
ClosePallet(n, print) ==
  Screen = "fullOverview" /\ n \in card.open /\ StartWork("close", n, print)
ClosePalletFromList(n) ==
  Screen = "newSorting" /\ n \in card.open /\ StartWork("close", n, TRUE)
ClearDatabase ==
  /\ Screen = "fullOverview" /\ changes < MaxChanges
  /\ StartWork("clear", NoPallet, FALSE)

\* What the tables make of a registration on n, a close of n, a clear.
Changed(kind, n) ==
  CASE kind = "register" ->
         /\ changes' = changes + 1
         /\ version' = [version EXCEPT ![n] = changes']
         /\ open' = open \union {n} /\ known' = known \union {n}
    [] kind = "close" -> open' = open \ {n} /\ UNCHANGED <<tables, known>>
    [] kind = "clear" ->
         /\ changes' = changes + 1
         /\ version' = [m \in Pallets |-> changes']
         /\ open' = {} /\ known' = {}

ServeWork ==
  /\ work # NoWork /\ work.stage = "sent" /\ work.allowed
  /\ Changed(work.kind, work.pallet)
  /\ work' = [work EXCEPT !.stage = "answered",
                          !.created = work.kind = "register" /\ work.pallet \notin open]
  /\ UNCHANGED <<views, session, auth, authCall, route, viewMode, loading, happened>>

\* Where the handler sends the operator, wherever they are by now: to the label
\* of a new pallet, to the contents of a closed one.
Destination(w) ==
  IF w.created THEN [page |-> "label", pallet |-> w.pallet]
  ELSE IF w.print THEN [page |-> "contents", pallet |-> w.pallet] ELSE App

\* Mutant of Navigates: only while the page is still there.
NavigatesIfMine(w) == w.mine /\ (w.created \/ (w.print /\ session))

\* The label opens before the dashboard is read, the contents after it.
Navigates(w) == w.created \/ (w.print /\ session)

\* The handler goes on: the dashboard (which a signed-out station does not get),
\* the refresh token of the sorting page, and the print page.
AfterWork ==
  /\ work # NoWork /\ work.stage = "answered" /\ Calm
  /\ work' = NoWork
  /\ UNCHANGED <<tables, open, known, session, authCall>>
  /\ IF Navigates(work) THEN GoTo(auth, Destination(work), viewMode)
     ELSE /\ UNCHANGED <<auth, route, viewMode, loading, sheet>>
          /\ IF work.mine /\ session
               THEN OfferPallets(Offered(Screen), open, work.view = "newSorting", session)
               ELSE UNCHANGED <<card, load, stale>>

\* The request is refused, or it or its dashboard does not come back: the error
\* is shown, and nobody is sent anywhere.
WorkFails ==
  /\ work # NoWork
  /\ IF work.stage = "sent" /\ ~work.allowed THEN Calm ELSE Disturbing("lost response")
  /\ work' = NoWork
  /\ UNCHANGED <<tables, views, open, known, session, auth, authCall, route, viewMode, loading>>

-----------------------------------------------------------------------------
OutsideViews == <<changes, open, known, session, auth, authCall, route, viewMode, loading, work>>
ChoosePallet(n) == SelectPallet(n, session) /\ Calm /\ UNCHANGED OutsideViews
ContentsArrive == (ReadContents \/ LoadEnds) /\ Calm /\ UNCHANGED OutsideViews
ContentsLost == LoseContents /\ Disturbing("lost response") /\ UNCHANGED OutsideViews
StaleContents(n) == StaleLoadEnds(n) /\ Calm /\ UNCHANGED OutsideViews
AutoPrints == PrintOnMount /\ Calm /\ UNCHANGED OutsideViews
TimerCleared == ClearPrintTimer /\ Calm /\ UNCHANGED OutsideViews
SwitchAutoPrint(on) == SetAutoPrint(on) /\ Calm /\ UNCHANGED OutsideViews

ScreensNext ==
  \/ \E r \in PrintRoutes : PrintOpenPallet(r) \/ PrintOfEntry(r) \/ PrintPalletContentsLabel(r)
  \/ BackFromPrint \/ SwitchView \/ PageLoads
  \/ SubmitLogin \/ Logout \/ Posted \/ PostFails \/ Refreshed
  \/ \E n \in Pallets :
       \/ RegisterColli(n) \/ ClosePallet(n, TRUE) \/ ClosePallet(n, FALSE)
       \/ ClosePalletFromList(n) \/ ChoosePallet(n)
  \/ ClearDatabase \/ ServeWork \/ AfterWork \/ WorkFails
  \/ ContentsArrive \/ ContentsLost \/ \E n \in Pallets : StaleContents(n)
  \/ AutoPrints \/ TimerCleared \/ \E on \in BOOLEAN : SwitchAutoPrint(on)

\* Responses come back, and a handler that has its response goes on.
ScreensFairness ==
  WF_stationVars(ServeWork) /\ WF_stationVars(AfterWork) /\ WF_stationVars(ContentsArrive)

ScreensSpec == ScreensInit /\ [][ScreensNext]_stationVars /\ ScreensFairness

-----------------------------------------------------------------------------
(* Properties.                                                             *)

\* Once nothing loads, the items in the card are those of the pallet chosen in it,
\* however often the choice changed while earlier loads were under way.  Only after
\* a load that failed, for want of a session or of a response, do those of the
\* pallet chosen before stand under the new choice.  (While it loads the card shows
\* no items.)
CardShowsSelected ==
  card.selected # NoPallet /\ ~card.loading =>
    \/ card.shown.pallet = card.selected
    \/ card.failed /\ ("lost response" \in happened \/ ~session)

\* The print page shows, and its timer prints, no items but those of the pallet in
\* its title, loading or not.  Only where a late handler of a page that was left has
\* sent it to another pallet may the items of the pallet before stand, and be
\* printed, under the new title, until the load of the new pallet has ended.
SheetShowsTarget ==
  sheet # NoSheet /\ ~sheet.error =>
    /\ load = NoLoad => sheet.shown.pallet = sheet.target
    /\ "leave while waiting" \notin happened => sheet.shown.pallet \in {NoPallet, sheet.target}

\* "usePrintOnMount(!error && ...)": on a page that shows an error only a timer set
\* before it can still fire, and only until the effects of that render have run; no
\* later step, the switch included, sets one.
ErrorSetsNoTimer == sheet.error /\ sheet.timer => sheet.due

\* Which pallet's items card and print page show and print under which name,
\* whichever loads of their effects come back late or not at all.
ViewsTruthful == CardShowsSelected /\ SheetShowsTarget /\ ErrorSetsNoTimer

\* Every handler of the sorting page bumps the refresh token: between requests of
\* a calm shift the card shows what the chosen pallet holds now.
CardUpToDate ==
  happened = {} /\ session /\ Screen = "newSorting" /\ ~loading /\ work = NoWork /\ load = NoLoad
    /\ ~card.failed =>
    /\ card.offered = open \union known
    /\ card.selected # NoPallet => card.shown.version = version[card.selected]

\* Between auth requests that were answered the station is signed in exactly if
\* the browser has a valid cookie, whatever else is under way.
SignedInMatchesSession ==
  "lost response" \notin happened /\ authCall = NoCall => (auth = "in") = session

\* "Luk palle + print indholdslabel lukker palle og åbner printvisning": once the
\* request is on its way the print page comes, wherever the operator goes meanwhile,
\* unless they sign out.
ClosingOpensPrint ==
  \A n \in Pallets :
    (work.kind = "close" /\ work.pallet = n /\ work.print /\ work.allowed)
      ~> (route = [page |-> "contents", pallet |-> n] \/ ~session \/ "lost response" \in happened)

\* The card is not left at "Indlæser palleindhold...": it shows the items again
\* and again, or the operator goes on choosing.
CardLoadingEnds ==
  \/ []<>(card.selected = NoPallet \/ ~card.loading)
  \/ []<><<\E n \in Pallets : ChoosePallet(n)>>_stationVars
=============================================================================

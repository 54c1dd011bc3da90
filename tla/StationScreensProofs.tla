------------------------ MODULE StationScreensProofs ------------------------
(***************************************************************************)
(* What the screens of a station do for any number of pallets, changes and *)
(* disturbances: the types, when card and print page show the pallet they  *)
(* name and when they may not, that the station is signed in exactly while *)
(* it has its session, and that the card keeps up with its pallet.         *)
(***************************************************************************)
EXTENDS StationScreens, TLAPS

-----------------------------------------------------------------------------
(* Signing in and out.  While a chain of auth requests is at its second     *)
(* question its answer is the session; before the first response, and after *)
(* the last, the screen is.                                                 *)

AuthCalls == [kind : {"me", "login", "logout"}, stage : {"post", "me"}, answer : BOOLEAN]

SessionInv ==
  /\ session \in BOOLEAN
  /\ authCall \in AuthCalls \union {NoCall}
  /\ "lost response" \notin happened =>
       /\ authCall # NoCall /\ authCall.stage = "me" => authCall.answer = session
       /\ authCall = NoCall \/ authCall.stage = "post" => (auth = "in" <=> session)

LEMMA AuthCallsAreCalls == \A c \in AuthCalls : c # NoCall
<1> SUFFICES ASSUME NEW c \in AuthCalls, c = NoCall PROVE FALSE
  OBVIOUS
<1>1. c.kind # "none"
  BY DEF AuthCalls
<1>2. NoCall.kind = "none"
  BY DEF NoCall
<1> QED
  BY <1>1, <1>2

LEMMA InitSessionInv == ScreensInit => SessionInv
BY DEF ScreensInit, ContentsInit, SessionInv, AuthCalls, AuthCall, NoCall

\* Most steps are none of these requests, and no step forgets a disturbance.
LEMMA OtherStepsKeepSession ==
  ASSUME SessionInv, UNCHANGED <<session, auth, authCall>>, happened \subseteq happened'
  PROVE  SessionInv'
BY DEF SessionInv

LEMMA AuthStepsKeepSession ==
  ASSUME SessionInv, SubmitLogin \/ Logout \/ Posted \/ PostFails \/ Refreshed
  PROVE  SessionInv'
<1> USE DEF SessionInv
<1>1. CASE SubmitLogin \/ Logout
  <2>1. PICK kind \in {"login", "logout"} : StartAuth(kind)
    BY <1>1 DEF SubmitLogin, Logout
  <2>2. authCall' \in AuthCalls /\ authCall'.stage = "post"
    BY <2>1 DEF StartAuth, AuthCall, AuthCalls
  <2>3. authCall = NoCall /\ session' = session /\ auth' = auth /\ happened' = happened
    BY <2>1 DEF StartAuth, Calm
  <2> QED
    BY <2>2, <2>3
<1>2. CASE Posted
  <2>1. authCall \in AuthCalls /\ session' \in BOOLEAN
    BY <1>2 DEF Posted
  <2>2. authCall' \in AuthCalls /\ authCall'.stage = "me" /\ authCall'.answer = session'
    BY <1>2, <2>1 DEF Posted, AuthCall, AuthCalls
  <2> QED
    BY <2>2, <2>1, AuthCallsAreCalls
<1>3. CASE PostFails
  <2>1. "lost response" \notin happened' => "lost response" \notin happened
    BY <1>3 DEF PostFails, Calm, Disturbing
  <2> QED
    BY <1>3, <2>1 DEF PostFails
<1>4. CASE Refreshed
  <2>1. PICK signedIn \in BOOLEAN :
          /\ auth' = IF signedIn THEN "in" ELSE "out"
          /\ signedIn = authCall.answer \/ "lost response" \in happened'
          /\ happened \subseteq happened'
          /\ UNCHANGED session
    BY <1>4 DEF Refreshed, GoTo, Calm, Disturbing
  <2>2. authCall' = NoCall /\ authCall \in AuthCalls /\ authCall.stage = "me"
    BY <1>4 DEF Refreshed
  <2>3. "lost response" \notin happened' => (auth' = "in" <=> session')
    <3> SUFFICES ASSUME "lost response" \notin happened' PROVE auth' = "in" <=> session'
      OBVIOUS
    <3>1. "lost response" \notin happened
      BY <2>1
    <3>2. signedIn = authCall.answer
      BY <2>1
    <3>3. authCall # NoCall
      BY <2>2, AuthCallsAreCalls
    <3>4. authCall.answer = session
      BY <2>2, <3>1, <3>3
    <3>5. signedIn = session'
      BY <2>1, <3>2, <3>4
    <3> QED
      BY <2>1, <3>5, Zenon
  <2> QED
    BY <2>1, <2>2, <2>3
<1> QED
  BY <1>1, <1>2, <1>3, <1>4

LEMMA NextSessionInv == SessionInv /\ [ScreensNext]_stationVars => SessionInv'
<1> SUFFICES ASSUME SessionInv, [ScreensNext]_stationVars PROVE SessionInv'
  OBVIOUS
<1> USE DEF Calm, Disturbing
<1>1. ASSUME NEW r \in PrintRoutes, PrintOpenPallet(r) \/ PrintOfEntry(r) \/ PrintPalletContentsLabel(r)
      PROVE  SessionInv'
  BY <1>1, OtherStepsKeepSession DEF PrintOpenPallet, PrintOfEntry, PrintPalletContentsLabel, Leave, GoTo
<1>2. CASE BackFromPrint \/ SwitchView
  BY <1>2, OtherStepsKeepSession DEF BackFromPrint, SwitchView, Leave, GoTo
<1>3. CASE PageLoads
  BY <1>3, OtherStepsKeepSession DEF PageLoads
<1>4. CASE SubmitLogin \/ Logout \/ Posted \/ PostFails \/ Refreshed
  BY <1>4, AuthStepsKeepSession
<1>5. ASSUME NEW n \in Pallets,
             RegisterColli(n) \/ ClosePallet(n, TRUE) \/ ClosePallet(n, FALSE) \/ ClosePalletFromList(n)
      PROVE  SessionInv'
  BY <1>5, OtherStepsKeepSession DEF RegisterColli, ClosePallet, ClosePalletFromList, StartWork
<1>6. CASE ClearDatabase \/ ServeWork \/ WorkFails
  BY <1>6, OtherStepsKeepSession DEF ClearDatabase, StartWork, ServeWork, WorkFails
<1>7. CASE AfterWork
  BY <1>7, OtherStepsKeepSession DEF AfterWork, GoTo
<1>8. ASSUME NEW n \in Pallets, ChoosePallet(n) \/ StaleContents(n)
      PROVE  SessionInv'
  BY <1>8, OtherStepsKeepSession DEF ChoosePallet, StaleContents, OutsideViews
<1>9. CASE ContentsArrive \/ ContentsLost \/ AutoPrints \/ TimerCleared
  BY <1>9, OtherStepsKeepSession DEF ContentsArrive, ContentsLost, AutoPrints, TimerCleared, OutsideViews
<1>10. ASSUME NEW on \in BOOLEAN, SwitchAutoPrint(on)
       PROVE  SessionInv'
  BY <1>10, OtherStepsKeepSession DEF SwitchAutoPrint, OutsideViews
<1>11. CASE UNCHANGED stationVars
  BY <1>11, OtherStepsKeepSession DEF stationVars
<1> QED
  BY <1>1, <1>2, <1>3, <1>4, <1>5, <1>6, <1>7, <1>8, <1>9, <1>10, <1>11 DEF ScreensNext

\* Between auth requests that were answered the station is signed in exactly if
\* the browser has a valid cookie.
THEOREM SignInFollowsSession == ScreensSpec => []SignedInMatchesSession
<1>1. SessionInv => SignedInMatchesSession
  BY DEF SessionInv, SignedInMatchesSession
<1> QED
  BY <1>1, InitSessionInv, NextSessionInv, PTL DEF ScreensSpec

-----------------------------------------------------------------------------
(* The views.  A load that still stands belongs to the pallet the view      *)
(* names, so what it brings may be shown there; a stale one brings nothing. *)
(* Whether there is a view for it is decided by the screen.                 *)

Items == [pallet : Pallets \union {NoPallet}, version : Nat]
Cards == [offered : SUBSET Pallets, open : SUBSET Pallets, selected : Pallets \union {NoPallet},
          shown : Items, loading : BOOLEAN, failed : BOOLEAN]
Sheets == [target : Pallets \union {NoPallet}, shown : Items, error : BOOLEAN, timer : BOOLEAN,
           due : BOOLEAN]
Loads == [stage : {"none", "sent", "items", "error"}, pallet : Pallets \union {NoPallet}, version : Nat]
Auths == {"loading", "out", "in"}
Routes == PrintRoutes \union {App}
AnyWork == [kind : {"register", "close", "clear"}, pallet : Pallets \union {NoPallet}, print : BOOLEAN,
            stage : {"sent", "answered"}, created : BOOLEAN, view : Pages, mine : BOOLEAN,
            allowed : BOOLEAN]
Works == {w \in AnyWork : IF w.kind = "clear" THEN ~w.print /\ ~w.created ELSE w.pallet \in Pallets}

\* The bound of the model: work that changes what pallets hold is counted when sent.
RoomForWork == work # NoWork /\ work.stage = "sent" /\ work.kind # "close" => changes < MaxChanges

ScalarsOK ==
  /\ changes \in 0..MaxChanges /\ open \subseteq Pallets /\ known \subseteq Pallets
  /\ auth \in Auths /\ route \in Routes /\ viewMode \in Pages
  /\ loading \in BOOLEAN /\ happened \subseteq Disturbances
  /\ work \in Works \union {NoWork}
  /\ RoomForWork

LoadOfView ==
  load # NoLoad =>
    /\ load.pallet \in Pallets
    /\ sheet # NoSheet => sheet.target = load.pallet
    /\ sheet = NoSheet => card.selected = load.pallet /\ card.loading

\* What is shown once nothing loads, and the timer of a page with an error.
ViewsShown ==
  /\ card.selected # NoPallet /\ ~card.loading =>
       card.failed \/ card.shown.pallet = card.selected
  /\ sheet # NoSheet /\ ~sheet.error /\ load = NoLoad => sheet.shown.pallet = sheet.target
  /\ ErrorSetsNoTimer

ViewsOK ==
  /\ version \in [Pallets -> Nat] /\ stale \subseteq Pallets
  /\ card \in Cards /\ sheet \in Sheets /\ load \in Loads
  /\ sheet # NoSheet => sheet.target \in Pallets
  /\ LoadOfView /\ ViewsShown

MountOK ==
  /\ card # NoCard => Screen \in Pages /\ ~loading
  /\ sheet # NoSheet <=> Screen = "contents"
  /\ loading => Screen \in Pages

BusyOK == Waiting => work.view = Screen /\ ~loading

ViewsInv == ScalarsOK /\ ViewsOK /\ MountOK /\ BusyOK

\* A pallet that is chosen makes a card.
LEMMA CardHasPallets ==
  ASSUME ViewsOK
  PROVE  /\ load # NoLoad /\ sheet = NoSheet => card # NoCard
         /\ card.offered # {} => card # NoCard
         /\ card.open # {} => card # NoCard
BY PalletsAssumption DEF ViewsOK, LoadOfView, NoCard, NoPallet

LEMMA TypesFollow == SessionInv /\ ViewsInv => ScreensTypeOK
<1> SUFFICES ASSUME SessionInv, ViewsInv PROVE ScreensTypeOK
  OBVIOUS
<1>1. ContentsTypeOK
  BY DEF ViewsInv, ViewsOK, ContentsTypeOK, Items, Cards, Sheets, Loads
<1>2. \/ authCall = NoCall
      \/ authCall.kind \in {"me", "login", "logout"} /\ authCall.stage \in {"post", "me"}
  BY DEF SessionInv, AuthCalls
<1>3. load # NoLoad => Screen \in Pages \union {"contents"}
  BY CardHasPallets DEF ViewsInv, MountOK
<1>4. /\ card # NoCard => Screen \in Pages /\ ~loading
      /\ sheet # NoSheet <=> Screen = "contents"
      /\ Waiting => work.view = Screen
  BY DEF ViewsInv, MountOK, BusyOK
<1> QED
  BY <1>1, <1>2, <1>3, <1>4 DEF ScreensTypeOK, ViewsInv, ScalarsOK, SessionInv, Auths, Routes

LEMMA InitViewsInv == ScreensInit => ViewsInv
<1> SUFFICES ASSUME ScreensInit PROVE ViewsInv
  OBVIOUS
<1> USE DEF ScreensInit, ContentsInit
<1>1. ScalarsOK
  <2>1. changes \in 0..MaxChanges
    BY ScreensAssumption
  <2>2. open \subseteq Pallets /\ known \subseteq Pallets /\ loading \in BOOLEAN /\ happened \subseteq Disturbances
    OBVIOUS
  <2>3. auth \in Auths /\ route \in Routes /\ viewMode \in Pages /\ work \in Works \union {NoWork}
    BY DEF Auths, Routes, Pages
  <2> QED
    BY <2>1, <2>2, <2>3 DEF ScalarsOK, RoomForWork
<1>2. ViewsOK
  BY DEF ViewsOK, LoadOfView, ViewsShown, ErrorSetsNoTimer,
         Cards, Sheets, Loads, Items, NoCard, NoSheet, NoLoad, Nothing, NoPallet
<1>3. Screen = "loading"
  BY DEF Screen, ScreenOf
<1>4. MountOK /\ BusyOK
  BY <1>3 DEF MountOK, BusyOK, Waiting
<1> QED
  BY <1>1, <1>2, <1>4 DEF ViewsInv

-----------------------------------------------------------------------------
(* What the operators of PalletContents do to the views.                    *)

LEMMA CleanUpTypes ==
  ASSUME ViewsOK, CleanUp
  PROVE  stale' \subseteq Pallets
BY DEF ViewsOK, LoadOfView, CleanUp

LEMMA FetchGets ==
  ASSUME ViewsOK, NEW n \in Pallets, NEW allowed \in BOOLEAN, Fetch(n, allowed)
  PROVE  load' \in Loads /\ load'.pallet = n /\ load' # NoLoad /\ stale' \subseteq Pallets
<1>1. load' \in Loads /\ load'.pallet = n /\ load'.stage # "none"
  BY DEF Fetch, Loads
<1> QED
  BY <1>1, CleanUpTypes DEF Fetch, NoLoad

LEMMA CardOnKeeps ==
  ASSUME ViewsOK, sheet = NoSheet, UNCHANGED <<version, sheet>>, NEW c \in Cards,
         NEW n \in Pallets \union {NoPallet}, NEW allowed \in BOOLEAN, CardOn(n, c, allowed)
  PROVE  ViewsOK'
<1> USE DEF ViewsOK, LoadOfView, ViewsShown, ErrorSetsNoTimer
<1>1. CASE n = NoPallet
  <2>1. load' = NoLoad /\ stale' \subseteq Pallets
    BY <1>1, CleanUpTypes DEF CardOn, Forget
  <2>2. card' \in Cards /\ card'.selected = NoPallet
    <3>1. Nothing \in Items
      BY DEF Nothing, Items
    <3>2. card' = [c EXCEPT !.selected = n, !.shown = Nothing, !.failed = FALSE]
      BY <1>1 DEF CardOn
    <3> QED
      BY <1>1, <3>1, <3>2 DEF Cards
  <2>3. load' \in Loads
    BY <2>1 DEF NoLoad, Loads
  <2> QED
    BY <2>1, <2>2, <2>3 DEF NoSheet
<1>2. CASE n # NoPallet
  <2>1. load' \in Loads /\ load'.pallet = n /\ load' # NoLoad /\ stale' \subseteq Pallets
    BY <1>2, FetchGets DEF CardOn
  <2>2. card' \in Cards /\ card'.selected = n /\ card'.loading
    BY <1>2 DEF CardOn, Cards
  <2> QED
    BY <1>2, <2>1, <2>2 DEF NoSheet
<1> QED
  BY <1>1, <1>2

LEMMA OfferKeeps ==
  ASSUME ViewsOK, sheet = NoSheet, UNCHANGED <<version, sheet>>, NEW offered \in SUBSET Pallets,
         NEW openIds \in SUBSET Pallets, NEW refresh \in BOOLEAN, NEW allowed \in BOOLEAN,
         OfferPallets(offered, openIds, refresh, allowed)
  PROVE  ViewsOK'
<1>1. Listing(offered, openIds) \in Cards
  BY DEF Listing, ViewsOK, Cards
<1>2. PICK n \in NextChoices(offered) :
        IF n = card.selected /\ ~refresh
          THEN card' = Listing(offered, openIds) /\ UNCHANGED <<load, stale>>
          ELSE CardOn(n, Listing(offered, openIds), allowed)
  BY DEF OfferPallets
<1>3. n \in Pallets \union {NoPallet}
  BY DEF NextChoices, ViewsOK, Cards
<1>4. CASE n = card.selected /\ ~refresh
  <2>1. /\ card' \in Cards /\ card'.selected = card.selected /\ card'.loading = card.loading
        /\ card'.failed = card.failed /\ card'.shown = card.shown
    BY <1>1, <1>2, <1>4 DEF Listing, ViewsOK, Cards
  <2>2. load' = load /\ stale' = stale
    BY <1>2, <1>4
  <2> QED
    BY <2>1, <2>2 DEF ViewsOK, LoadOfView, ViewsShown, ErrorSetsNoTimer
<1>5. CASE ~(n = card.selected /\ ~refresh)
  BY <1>1, <1>2, <1>3, <1>5, CardOnKeeps
<1> QED
  BY <1>4, <1>5

LEMMA OpenSheetKeeps ==
  ASSUME ViewsOK, UNCHANGED version, NEW n \in Pallets, NEW allowed \in BOOLEAN, OpenSheet(n, allowed)
  PROVE  ViewsOK' /\ sheet' # NoSheet /\ card' = NoCard
<1>1. /\ sheet' \in Sheets /\ sheet'.target = n /\ ~sheet'.error
  <2>1. NoSheet \in Sheets /\ ~NoSheet.error
    BY DEF NoSheet, Sheets, Items, Nothing
  <2>2. PICK on \in BOOLEAN : sheet' = [NoSheet EXCEPT !.target = n, !.timer = on]
    BY DEF OpenSheet
  <2> QED
    BY <2>1, <2>2 DEF Sheets
<1>2. sheet' # NoSheet
  BY <1>1, PalletsAssumption DEF NoSheet, NoPallet
<1>3. load' \in Loads /\ load'.pallet = n /\ load' # NoLoad /\ stale' \subseteq Pallets
  BY FetchGets DEF OpenSheet
<1>4. card' = NoCard /\ NoCard \in Cards /\ NoCard.selected = NoPallet
  BY DEF OpenSheet, NoCard, Cards, Items, Nothing, NoPallet
<1> QED
  BY <1>1, <1>2, <1>3, <1>4
     DEF ViewsOK, LoadOfView, ViewsShown, ErrorSetsNoTimer

LEMMA RetargetKeeps ==
  ASSUME ViewsOK, sheet # NoSheet, UNCHANGED version, NEW n \in Pallets, NEW allowed \in BOOLEAN,
         RetargetSheet(n, allowed)
  PROVE  ViewsOK' /\ sheet' # NoSheet /\ card' = card
<1>1. /\ sheet' \in Sheets /\ sheet'.target = n /\ sheet'.error = sheet.error
      /\ sheet'.timer => sheet.timer /\ ~sheet.error
  BY DEF ViewsOK, RetargetSheet, Sheets
<1>2. sheet' # NoSheet
  BY <1>1, PalletsAssumption DEF NoSheet, NoPallet
<1>3. load' \in Loads /\ load'.pallet = n /\ load' # NoLoad /\ stale' \subseteq Pallets /\ card' = card
  BY FetchGets DEF RetargetSheet
<1> QED
  BY <1>1, <1>2, <1>3
     DEF ViewsOK, LoadOfView, ViewsShown, ErrorSetsNoTimer

LEMMA CloseKeeps ==
  ASSUME ViewsOK, UNCHANGED version, CloseViews
  PROVE  ViewsOK' /\ sheet' = NoSheet /\ card' = NoCard
<1>1. card' = NoCard /\ sheet' = NoSheet /\ load' = NoLoad /\ stale' \subseteq Pallets
  BY CleanUpTypes DEF CloseViews, Forget
<1>2. NoCard \in Cards /\ NoSheet \in Sheets /\ NoLoad \in Loads /\ NoCard.selected = NoPallet /\ ~NoSheet.timer
  BY DEF NoCard, NoSheet, NoLoad, Cards, Sheets, Loads, Items, Nothing, NoPallet
<1> QED
  BY <1>1, <1>2
     DEF ViewsOK, LoadOfView, ViewsShown, ErrorSetsNoTimer

LEMMA LoadEndsKeeps ==
  ASSUME ViewsOK, LoadEnds
  PROVE  /\ ViewsOK'
         /\ sheet' # NoSheet <=> sheet # NoSheet
         /\ card' # NoCard => card # NoCard
<1>1. load # NoLoad /\ load.pallet \in Pallets /\ load \in Loads
  BY DEF LoadEnds, NoLoad, ViewsOK, LoadOfView
<1>2. load' = NoLoad /\ NoLoad \in Loads /\ version' = version /\ stale' = stale
  BY DEF LoadEnds, NoLoad, Loads, NoPallet
<1> DEFINE items == [pallet |-> load.pallet, version |-> load.version]
<1>3. items \in Items /\ items.pallet = load.pallet
  BY <1>1 DEF Loads, Items
<1>4. ShowItems(items) \/ ShowError
  BY DEF LoadEnds
<1> HIDE DEF items
<1>5. CASE sheet # NoSheet
  <2>1. card' = card /\ sheet.target = load.pallet /\ sheet \in Sheets
    BY <1>1, <1>4, <1>5 DEF ShowItems, ShowError, ViewsOK, LoadOfView
  <2>2. /\ sheet' \in Sheets /\ sheet'.target = sheet.target
        /\ sheet'.error /\ sheet'.timer => sheet'.due
        /\ sheet'.error \/ sheet'.shown.pallet = sheet'.target
    BY <1>3, <1>4, <1>5, <2>1 DEF ShowItems, ShowError, ViewsOK, ViewsShown, ErrorSetsNoTimer, Sheets
  <2>3. sheet' # NoSheet
    BY <1>1, <2>1, <2>2, PalletsAssumption DEF NoSheet, NoPallet
  <2> QED
    BY <1>2, <1>5, <2>1, <2>2, <2>3
       DEF ViewsOK, LoadOfView, ViewsShown, ErrorSetsNoTimer
<1>6. CASE sheet = NoSheet
  <2>1. sheet' = sheet /\ card.selected = load.pallet /\ card.loading /\ card \in Cards
    BY <1>1, <1>4, <1>6 DEF ShowItems, ShowError, ViewsOK, LoadOfView
  <2>2. card' \in Cards /\ (card'.failed \/ card'.shown.pallet = card'.selected)
    BY <1>3, <1>4, <1>6, <2>1 DEF ShowItems, ShowError, Cards
  <2>3. card # NoCard
    BY <1>1, <1>6, CardHasPallets
  <2> QED
    BY <1>2, <1>6, <2>1, <2>2, <2>3
       DEF ViewsOK, LoadOfView, ViewsShown, ErrorSetsNoTimer
<1> QED
  BY <1>5, <1>6

-----------------------------------------------------------------------------
(* What going from one screen to another does.                              *)

LEMMA ContentsScreen ==
  ASSUME NEW a \in Auths, NEW r \in Routes, NEW v \in Pages, ScreenOf(a, r, v) = "contents"
  PROVE  r.pallet \in Pallets
<1>1. r \in PrintRoutes
  BY DEF ScreenOf, Auths, Routes, Pages, App
<1> QED
  BY <1>1 DEF PrintRoutes

LEMMA GoToKeeps ==
  ASSUME ViewsOK, MountOK, session' \in BOOLEAN, loading \in BOOLEAN,
         NEW a \in Auths, NEW r \in Routes, NEW v \in Pages, GoTo(a, r, v)
  PROVE  /\ ViewsOK' /\ MountOK' /\ loading' \in BOOLEAN
         /\ auth' = a /\ route' = r /\ viewMode' = v
         /\ version' = version /\ changes' = changes
         /\ Screen' = ScreenOf(a, r, v)
         /\ ScreenOf(a, r, v) = Screen => loading' = loading
<1> DEFINE next == ScreenOf(a, r, v)
<1>1. auth' = a /\ route' = r /\ viewMode' = v /\ version' = version /\ changes' = changes /\ Screen' = next
  BY DEF GoTo, tables, Screen
<1>2. \/ next = "contents" /\ Screen # "contents" /\ OpenSheet(r.pallet, session') /\ loading' = FALSE
      \/ next = "contents" /\ Screen = "contents" /\ RetargetSheet(r.pallet, session') /\ loading' = loading
      \/ next = Screen /\ UNCHANGED <<views, loading>>
      \/ next # Screen /\ next # "contents" /\ CloseViews /\ loading' = (next \in Pages)
  BY DEF GoTo
<1>3. "contents" \notin Pages
  BY DEF Pages
<1> HIDE DEF next
<1> USE <1>1, <1>3 DEF MountOK
<1>4. CASE next = "contents" /\ Screen # "contents" /\ OpenSheet(r.pallet, session') /\ loading' = FALSE
  <2>1. r.pallet \in Pallets
    BY <1>4, ContentsScreen DEF next
  <2>2. ViewsOK' /\ sheet' # NoSheet /\ card' = NoCard
    BY <1>4, <2>1, OpenSheetKeeps
  <2> QED
    BY <1>4, <2>2 DEF next
<1>5. CASE next = "contents" /\ Screen = "contents" /\ RetargetSheet(r.pallet, session') /\ loading' = loading
  <2>1. r.pallet \in Pallets /\ sheet # NoSheet
    BY <1>5, ContentsScreen DEF next
  <2>2. ViewsOK' /\ sheet' # NoSheet /\ card' = card
    BY <1>5, <2>1, RetargetKeeps
  <2> QED
    BY <1>5, <2>2 DEF next
<1>6. CASE next = Screen /\ UNCHANGED <<views, loading>>
  <2>1. card' = card /\ sheet' = sheet /\ load' = load /\ stale' = stale /\ loading' = loading
    BY <1>6 DEF views
  <2>2. ViewsOK'
    BY <2>1 DEF ViewsOK, LoadOfView, ViewsShown, ErrorSetsNoTimer
  <2>3. Screen' = Screen
    BY <1>6
  <2>4. MountOK'
    BY <2>1, <2>3
  <2> QED
    BY <2>1, <2>2, <2>4 DEF next
<1>7. CASE next # Screen /\ next # "contents" /\ CloseViews /\ loading' = (next \in Pages)
  <2>1. ViewsOK' /\ sheet' = NoSheet /\ card' = NoCard
    BY <1>7, CloseKeeps
  <2>2. loading' \in BOOLEAN /\ (loading' => Screen' \in Pages)
    <3>1. CASE next \in Pages
      BY <1>7, <3>1
    <3>2. CASE next \notin Pages
      <4>1. (next \in Pages) = FALSE
        BY <3>2
      <4>2. loading' = FALSE
        BY <1>7, <4>1, Zenon
      <4> QED
        BY <4>2
    <3> QED
      BY <3>1, <3>2
  <2>3. MountOK'
    BY <1>7, <2>1, <2>2
  <2> QED
    BY <1>7, <2>1, <2>2, <2>3 DEF next
<1> QED
  BY <1>2, <1>4, <1>5, <1>6, <1>7

LEMMA WorkTypes ==
  ASSUME NEW w \in Works
  PROVE  /\ w # NoWork /\ w.kind \in {"register", "close", "clear"}
         /\ w.kind # "clear" => w.pallet \in Pallets
         /\ Destination(w) \in Routes
         /\ [w EXCEPT !.mine = FALSE] \in Works /\ [w EXCEPT !.mine = FALSE].mine = FALSE
         /\ [w EXCEPT !.mine = FALSE].kind = w.kind /\ [w EXCEPT !.mine = FALSE].stage = w.stage
<1>1. w.kind \in {"register", "close", "clear"} /\ NoWork.kind = "none"
  BY DEF Works, AnyWork, NoWork
<1>2. w.kind # "clear" => w.pallet \in Pallets
  BY DEF Works
<1>3. w.created \/ w.print => w.pallet \in Pallets
  BY DEF Works
<1>4. Destination(w) \in Routes
  BY <1>3 DEF Destination, Routes, PrintRoutes
<1>5. /\ [w EXCEPT !.mine = FALSE] \in Works /\ [w EXCEPT !.mine = FALSE].mine = FALSE
      /\ [w EXCEPT !.mine = FALSE].kind = w.kind /\ [w EXCEPT !.mine = FALSE].stage = w.stage
  BY DEF Works, AnyWork
<1> QED
  BY <1>1, <1>2, <1>4, <1>5

LEMMA DisownTypes ==
  ASSUME work \in Works \union {NoWork}, work' = Disown(work)
  PROVE  /\ work' \in Works \union {NoWork} /\ ~Waiting'
         /\ work' # NoWork => work # NoWork /\ work'.stage = work.stage /\ work'.kind = work.kind
<1>1. CASE work = NoWork
  BY <1>1 DEF Disown, Waiting
<1>2. CASE work \in Works
  <2>1. work' = [work EXCEPT !.mine = FALSE]
    BY <1>2, WorkTypes DEF Disown
  <2> QED
    BY <1>2, <2>1, WorkTypes DEF Waiting
<1> QED
  BY <1>1, <1>2

LEMMA LeaveKeeps ==
  ASSUME SessionInv', ViewsInv, NEW r \in Routes, NEW v \in Pages, Leave(r, v)
  PROVE  ViewsInv'
<1>1. auth \in Auths /\ session' \in BOOLEAN /\ loading \in BOOLEAN /\ work \in Works \union {NoWork}
  BY DEF ViewsInv, ScalarsOK, SessionInv
<1>2. GoTo(auth, r, v) /\ work' = Disown(work) /\ open' = open /\ known' = known
  BY DEF Leave
<1>3. /\ ViewsOK' /\ MountOK' /\ loading' \in BOOLEAN
      /\ auth' = auth /\ route' = r /\ viewMode' = v /\ changes' = changes
  BY <1>1, <1>2, GoToKeeps DEF ViewsInv
<1>4. /\ work' \in Works \union {NoWork} /\ ~Waiting'
      /\ work' # NoWork => work # NoWork /\ work'.stage = work.stage /\ work'.kind = work.kind
  BY <1>1, <1>2, DisownTypes
<1>5. happened' \subseteq Disturbances
  <2>1. happened' = happened \/ \E kind \in Disturbances : happened' = happened \union {kind}
    BY DEF Leave, Calm, Disturbing
  <2> QED
    BY <2>1 DEF ViewsInv, ScalarsOK
<1>6. ScalarsOK'
  BY <1>2, <1>3, <1>4, <1>5 DEF ViewsInv, ScalarsOK, RoomForWork
<1> QED
  BY <1>3, <1>4, <1>6 DEF ViewsInv, BusyOK

LEMMA RefreshedKeeps ==
  ASSUME SessionInv', ViewsInv, Refreshed
  PROVE  ViewsInv'
<1>1. session' \in BOOLEAN /\ loading \in BOOLEAN /\ work \in Works \union {NoWork}
  BY DEF ViewsInv, ScalarsOK, SessionInv
<1>2. PICK signedIn \in BOOLEAN :
        LET a == IF signedIn THEN "in" ELSE "out"
            r == IF authCall.kind = "me" THEN route ELSE App
        IN /\ happened' \subseteq happened \union Disturbances
           /\ UNCHANGED <<open, known>>
           /\ GoTo(a, r, viewMode)
           /\ work' = IF StaysMounted(a, r, viewMode) THEN work ELSE Disown(work)
  BY DEF Refreshed, Calm, Disturbing
<1>3. PICK a \in Auths, r \in Routes :
        /\ GoTo(a, r, viewMode)
        /\ work' = IF StaysMounted(a, r, viewMode) THEN work ELSE Disown(work)
  BY <1>2 DEF Auths, ViewsInv, ScalarsOK, Routes
<1>4. viewMode \in Pages
  BY DEF ViewsInv, ScalarsOK
<1>5. /\ ViewsOK' /\ MountOK' /\ loading' \in BOOLEAN
      /\ auth' = a /\ route' = r /\ viewMode' = viewMode /\ changes' = changes
      /\ Screen' = ScreenOf(a, r, viewMode)
      /\ ScreenOf(a, r, viewMode) = Screen => loading' = loading
  BY <1>1, <1>3, <1>4, GoToKeeps DEF ViewsInv
<1>6. /\ work' \in Works \union {NoWork} /\ BusyOK'
      /\ work' # NoWork => work # NoWork /\ work'.stage = work.stage /\ work'.kind = work.kind
  <2>1. CASE StaysMounted(a, r, viewMode)
    BY <1>1, <1>3, <1>5, <2>1 DEF StaysMounted, ViewsInv, BusyOK, Waiting
  <2>2. CASE ~StaysMounted(a, r, viewMode)
    BY <1>1, <1>3, <2>2, DisownTypes DEF BusyOK
  <2> QED
    BY <2>1, <2>2
<1>7. ScalarsOK'
  BY <1>2, <1>4, <1>5, <1>6 DEF ViewsInv, ScalarsOK, RoomForWork
<1> QED
  BY <1>5, <1>6, <1>7 DEF ViewsInv

-----------------------------------------------------------------------------
(* The other steps.                                                         *)

\* Steps that leave the screen, the session and the work as they are.
LEMMA ViewStepsKeep ==
  ASSUME ViewsInv, ViewsOK', sheet' # NoSheet <=> sheet # NoSheet, card' # NoCard => card # NoCard,
         UNCHANGED OutsideViews, happened' \subseteq Disturbances
  PROVE  ViewsInv'
<1>1. /\ changes' = changes /\ open' = open /\ known' = known /\ auth' = auth /\ route' = route
      /\ viewMode' = viewMode /\ loading' = loading /\ work' = work
  BY DEF OutsideViews
<1>2. Screen' = Screen /\ (Waiting' <=> Waiting)
  BY <1>1 DEF Screen, Waiting
<1>3. ScalarsOK'
  BY <1>1 DEF ViewsInv, ScalarsOK, RoomForWork
<1>4. MountOK' /\ BusyOK'
  BY <1>1, <1>2 DEF ViewsInv, MountOK, BusyOK
<1> QED
  BY <1>3, <1>4 DEF ViewsInv

LEMMA ContentsStepsKeep ==
  ASSUME SessionInv, ViewsInv,
         \/ \E n \in Pallets : ChoosePallet(n) \/ StaleContents(n)
         \/ ContentsArrive \/ ContentsLost \/ AutoPrints \/ TimerCleared
         \/ \E on \in BOOLEAN : SwitchAutoPrint(on)
  PROVE  ViewsInv'
<1> USE DEF ViewsOK, LoadOfView, ViewsShown, ErrorSetsNoTimer
<1>1. ViewsOK /\ MountOK /\ session \in BOOLEAN
  BY DEF ViewsInv, SessionInv
<1>2. UNCHANGED OutsideViews
  BY DEF ChoosePallet, StaleContents, ContentsArrive, ContentsLost, AutoPrints, TimerCleared,
         SwitchAutoPrint
<1>3. happened' \subseteq Disturbances
  <2>1. happened' = happened \/ \E kind \in Disturbances : happened' = happened \union {kind}
    BY DEF ChoosePallet, StaleContents, ContentsArrive, ContentsLost, AutoPrints, TimerCleared,
           SwitchAutoPrint, Calm, Disturbing
  <2> QED
    BY <2>1 DEF ViewsInv, ScalarsOK
<1>4. ASSUME NEW n \in Pallets, ChoosePallet(n)
      PROVE  ViewsOK' /\ (sheet' # NoSheet <=> sheet # NoSheet) /\ (card' # NoCard => card # NoCard)
  <2>1. card # NoCard /\ sheet = NoSheet
    BY <1>1, <1>4, CardHasPallets DEF ChoosePallet, SelectPallet, MountOK, Pages
  <2>2. CardOn(n, card, session) /\ UNCHANGED <<version, sheet>> /\ card \in Cards
    BY <1>1, <1>4 DEF ChoosePallet, SelectPallet
  <2> QED
    BY <1>1, <2>1, <2>2, CardOnKeeps
<1>5. ASSUME NEW n \in Pallets, StaleContents(n)
      PROVE  ViewsOK' /\ (sheet' # NoSheet <=> sheet # NoSheet) /\ (card' # NoCard => card # NoCard)
  BY <1>1, <1>5 DEF StaleContents, StaleLoadEnds
<1>6. CASE ReadContents \/ LoseContents
  <2>1. /\ load' \in Loads /\ load'.pallet = load.pallet /\ load # NoLoad
        /\ version' = version /\ card' = card /\ sheet' = sheet /\ stale' = stale
    <3>1. load # NoLoad /\ load \in Loads /\ load.pallet \in Pallets
      BY <1>1, <1>6 DEF ReadContents, LoseContents, NoLoad
    <3>2. version[load.pallet] \in Nat
      BY <1>1, <3>1
    <3>3. CASE ReadContents
      BY <3>1, <3>2, <3>3 DEF ReadContents, Loads
    <3>4. CASE LoseContents
      BY <3>1, <3>4 DEF LoseContents, Loads
    <3> QED
      BY <1>6, <3>3, <3>4
  <2>2. load' # NoLoad
    BY <1>1, <2>1, PalletsAssumption DEF NoLoad, NoPallet
  <2>3. ViewsOK'
    BY <1>1, <2>1, <2>2
  <2> QED
    BY <2>1, <2>3, <1>2, <1>3, ViewStepsKeep
<1>7. CASE LoadEnds
  BY <1>1, <1>2, <1>3, <1>7, LoadEndsKeeps, ViewStepsKeep
<1>8. CASE AutoPrints \/ TimerCleared \/ \E on \in BOOLEAN : SwitchAutoPrint(on)
  <2>1. /\ version' = version /\ card' = card /\ load' = load /\ stale' = stale /\ sheet # NoSheet
        /\ \E timer, due \in BOOLEAN :
             /\ sheet' = [sheet EXCEPT !.timer = timer, !.due = due]
             /\ timer => (~sheet.error \/ due)
    <3>1. sheet \in Sheets
      BY <1>1
    <3>2. CASE AutoPrints
      <4>1. sheet.timer /\ sheet # NoSheet
        BY <3>2 DEF AutoPrints, PrintOnMount, NoSheet
      <4>2. sheet' = [sheet EXCEPT !.timer = FALSE]
        BY <3>2 DEF AutoPrints, PrintOnMount
      <4>3. sheet' = [sheet EXCEPT !.timer = FALSE, !.due = sheet.due] /\ sheet.due \in BOOLEAN
        BY <3>1, <4>2 DEF Sheets
      <4> QED
        BY <3>2, <4>1, <4>3 DEF AutoPrints, PrintOnMount
    <3>3. CASE TimerCleared
      <4>1. sheet # NoSheet
        BY <3>3 DEF TimerCleared, ClearPrintTimer, NoSheet
      <4> QED
        BY <3>3, <4>1 DEF TimerCleared, ClearPrintTimer
    <3>4. CASE \E on \in BOOLEAN : SwitchAutoPrint(on)
      <4>1. PICK on \in BOOLEAN : SwitchAutoPrint(on)
        BY <3>4
      <4>2. (on /\ ~sheet.error) \in BOOLEAN
        OBVIOUS
      <4>3. /\ version' = version /\ card' = card /\ load' = load /\ stale' = stale /\ sheet # NoSheet
            /\ sheet' = [sheet EXCEPT !.timer = on /\ ~sheet.error, !.due = FALSE]
        BY <4>1 DEF SwitchAutoPrint, SetAutoPrint
      <4> QED
        BY <4>2, <4>3
    <3> QED
      BY <1>8, <3>2, <3>3, <3>4
  <2>2. /\ sheet' \in Sheets /\ sheet'.target = sheet.target /\ sheet'.shown = sheet.shown
        /\ sheet'.error = sheet.error /\ (sheet'.timer /\ sheet'.error => sheet'.due)
    <3>1. PICK timer, due \in BOOLEAN :
             /\ sheet' = [sheet EXCEPT !.timer = timer, !.due = due]
             /\ timer => (~sheet.error \/ due)
      BY <2>1
    <3>2. sheet \in Sheets
      BY <1>1
    <3>3. sheet'.timer = timer /\ sheet'.due = due
      BY <3>1, <3>2 DEF Sheets
    <3> QED
      BY <3>1, <3>2, <3>3 DEF Sheets
  <2>3. sheet' # NoSheet
    <3>1. sheet'.target \in Pallets
      BY <1>1, <2>1, <2>2
    <3>2. NoSheet.target \notin Pallets
      BY PalletsAssumption DEF NoSheet, NoPallet
    <3> QED
      BY <3>1, <3>2
  <2> QED
    BY <1>1, <1>2, <1>3, <2>1, <2>2, <2>3, ViewStepsKeep
<1> QED
  BY <1>1, <1>2, <1>3, <1>4, <1>5, <1>6, <1>7, <1>8, ViewStepsKeep DEF ContentsArrive, ContentsLost

\* Steps that leave the views and the screen as they are.
LEMMA WorkStepsKeep ==
  ASSUME ViewsInv, ScalarsOK', BusyOK', version' \in [Pallets -> Nat],
         UNCHANGED <<views, auth, route, viewMode, loading>>
  PROVE  ViewsInv'
<1>1. /\ card' = card /\ sheet' = sheet /\ load' = load /\ stale' = stale
      /\ auth' = auth /\ route' = route /\ viewMode' = viewMode /\ loading' = loading
  BY DEF views
<1>2. ViewsOK'
  BY <1>1 DEF ViewsInv, ViewsOK, LoadOfView, ViewsShown, ErrorSetsNoTimer
<1>3. MountOK'
  BY <1>1 DEF ViewsInv, MountOK, Screen
<1> QED
  BY <1>2, <1>3 DEF ViewsInv

LEMMA AuthStepsKeepViews ==
  ASSUME ViewsInv, SubmitLogin \/ Logout \/ Posted \/ PostFails
  PROVE  ViewsInv'
<1>1. /\ UNCHANGED <<version, changes, views, auth, route, viewMode, loading, work, open, known>>
      /\ happened' = happened \/ \E kind \in Disturbances : happened' = happened \union {kind}
  BY DEF SubmitLogin, Logout, Posted, PostFails, StartAuth, tables, Calm, Disturbing
<1>2. ScalarsOK' /\ BusyOK' /\ version' \in [Pallets -> Nat]
  BY <1>1 DEF ViewsInv, ViewsOK, ScalarsOK, RoomForWork, BusyOK, Waiting, Screen
<1> QED
  BY <1>1, <1>2, WorkStepsKeep

LEMMA StartWorkKeeps ==
  ASSUME SessionInv, ViewsInv, NEW kind \in {"register", "close", "clear"},
         NEW n \in Pallets \union {NoPallet}, NEW print \in BOOLEAN,
         IF kind = "clear" THEN ~print ELSE n \in Pallets, kind # "close" => changes < MaxChanges,
         StartWork(kind, n, print)
  PROVE  ViewsInv'
<1>1. /\ UNCHANGED <<version, changes, views, auth, route, viewMode, loading, open, known, happened>>
      /\ Screen \in Pages /\ ~loading
  BY DEF StartWork, tables
<1>2. work' \in Works /\ work'.view = Screen /\ work'.kind = kind
  <2>1. session \in BOOLEAN
    BY DEF SessionInv
  <2> QED
    BY <1>1, <2>1 DEF StartWork, Works, AnyWork
<1>3. ScalarsOK' /\ version' \in [Pallets -> Nat]
  BY <1>1, <1>2 DEF ViewsInv, ViewsOK, ScalarsOK, RoomForWork
<1>4. BusyOK'
  BY <1>1, <1>2 DEF BusyOK, Screen
<1> QED
  BY <1>1, <1>3, <1>4, WorkStepsKeep

LEMMA ServeWorkKeeps ==
  ASSUME ViewsInv, ServeWork
  PROVE  ViewsInv'
<1>1. work \in Works /\ work.kind \in {"register", "close", "clear"}
  BY WorkTypes DEF ServeWork, ViewsInv, ScalarsOK
<1>2. work.kind # "clear" => work.pallet \in Pallets
  BY <1>1 DEF Works
<1>3. Changed(work.kind, work.pallet)
  BY DEF ServeWork
<1>4. /\ changes' \in 0..MaxChanges /\ open' \subseteq Pallets /\ known' \subseteq Pallets
      /\ version' \in [Pallets -> Nat]
  <2>1. /\ changes \in 0..MaxChanges /\ open \subseteq Pallets /\ known \subseteq Pallets
        /\ version \in [Pallets -> Nat] /\ MaxChanges \in Nat
    BY ScreensAssumption DEF ViewsInv, ViewsOK, ScalarsOK
  <2>2. work.kind # "close" => changes < MaxChanges
    BY <1>1, WorkTypes DEF ServeWork, ViewsInv, ScalarsOK, RoomForWork
  <2>3. CASE work.kind = "register"
    BY <1>2, <1>3, <2>1, <2>2, <2>3 DEF Changed
  <2>4. CASE work.kind = "close"
    BY <1>3, <2>1, <2>4 DEF Changed, tables
  <2>5. CASE work.kind = "clear"
    BY <1>3, <2>1, <2>2, <2>5 DEF Changed
  <2> QED
    BY <1>1, <2>3, <2>4, <2>5
<1>5. /\ UNCHANGED <<views, auth, route, viewMode, loading, happened>>
      /\ work' = [work EXCEPT !.stage = "answered",
                              !.created = work.kind = "register" /\ work.pallet \notin open]
  BY DEF ServeWork
<1>6. /\ work' \in Works /\ work'.stage = "answered" /\ work'.view = work.view /\ work'.mine = work.mine
      /\ work # NoWork
  BY <1>1, <1>5, WorkTypes DEF Works, AnyWork
<1>7. ScalarsOK'
  BY <1>4, <1>5, <1>6 DEF ViewsInv, ScalarsOK, RoomForWork
<1>8. BusyOK'
  BY <1>5, <1>6 DEF ViewsInv, BusyOK, Waiting, Screen
<1> QED
  BY <1>4, <1>5, <1>7, <1>8, WorkStepsKeep

LEMMA PageLoadsKeeps ==
  ASSUME SessionInv, ViewsInv, PageLoads
  PROVE  ViewsInv'
<1>1. /\ loading /\ loading' = FALSE /\ session \in BOOLEAN
      /\ UNCHANGED <<version, changes, sheet, open, known, auth, route, viewMode, work>>
  BY DEF PageLoads, tables, SessionInv
<1>2. Screen \in Pages /\ sheet = NoSheet /\ Screen' = Screen
  BY <1>1 DEF ViewsInv, MountOK, Pages, Screen
<1>3. ViewsOK'
  <2>1. PICK offered \in SUBSET Pallets, openIds \in SUBSET Pallets :
          OfferPallets(offered, openIds, TRUE, session)
    BY DEF PageLoads, Offered, ViewsInv, ScalarsOK
  <2> QED
    BY <1>1, <1>2, <2>1, OfferKeeps DEF ViewsInv
<1>4. happened' \subseteq Disturbances
  <2>1. happened' = happened \/ \E kind \in Disturbances : happened' = happened \union {kind}
    BY DEF PageLoads, Calm, Disturbing
  <2> QED
    BY <2>1 DEF ViewsInv, ScalarsOK
<1>5. ScalarsOK'
  BY <1>1, <1>4 DEF ViewsInv, ScalarsOK, RoomForWork
<1>6. MountOK' /\ BusyOK'
  BY <1>1, <1>2 DEF ViewsInv, MountOK, BusyOK, Waiting
<1> QED
  BY <1>3, <1>5, <1>6 DEF ViewsInv

LEMMA AfterWorkKeeps ==
  ASSUME SessionInv, SessionInv', ViewsInv, AfterWork
  PROVE  ViewsInv'
<1>1. work \in Works /\ work' = NoWork /\ happened' = happened /\ open' = open /\ known' = known
      /\ version' = version /\ changes' = changes /\ session \in BOOLEAN /\ session' \in BOOLEAN
  BY DEF AfterWork, ViewsInv, ScalarsOK, Calm, tables, SessionInv
<1>2. BusyOK'
  BY <1>1 DEF BusyOK, Waiting
<1>3. CASE Navigates(work)
  <2>1. Destination(work) \in Routes
    BY <1>1, WorkTypes
  <2>2. GoTo(auth, Destination(work), viewMode) /\ auth \in Auths /\ viewMode \in Pages /\ loading \in BOOLEAN
    BY <1>3 DEF AfterWork, ViewsInv, ScalarsOK
  <2>3. /\ ViewsOK' /\ MountOK' /\ loading' \in BOOLEAN
        /\ auth' = auth /\ route' = Destination(work) /\ viewMode' = viewMode
    BY <1>1, <2>1, <2>2, GoToKeeps DEF ViewsInv
  <2>4. ScalarsOK'
    BY <1>1, <2>1, <2>3 DEF ViewsInv, ScalarsOK, RoomForWork
  <2> QED
    BY <1>2, <2>3, <2>4 DEF ViewsInv
<1>4. CASE ~Navigates(work)
  <2>1. UNCHANGED <<auth, route, viewMode, loading, sheet>>
    BY <1>4 DEF AfterWork
  <2>2. Screen' = Screen /\ ScalarsOK'
    BY <1>1, <2>1 DEF ViewsInv, ScalarsOK, RoomForWork, Screen
  <2>3. CASE work.mine /\ session
    <3>1. Screen \in Pages /\ ~loading
      BY <1>1, <2>3, WorkTypes DEF ViewsInv, BusyOK, Waiting, Works, AnyWork
    <3>2. sheet = NoSheet
      BY <3>1 DEF ViewsInv, MountOK, Pages
    <3>3. PICK offered \in SUBSET Pallets, refresh \in BOOLEAN :
            OfferPallets(offered, open, refresh, session) /\ open \in SUBSET Pallets
      BY <1>4, <2>3 DEF AfterWork, Offered, ViewsInv, ScalarsOK
    <3>4. ViewsOK'
      BY <1>1, <2>1, <3>2, <3>3, OfferKeeps DEF ViewsInv
    <3>5. MountOK'
      BY <2>1, <2>2, <3>1, <3>2 DEF MountOK, Pages
    <3> QED
      BY <1>2, <2>2, <3>4, <3>5 DEF ViewsInv
  <2>4. CASE ~(work.mine /\ session)
    <3>1. UNCHANGED <<views, auth, route, viewMode, loading>>
      BY <1>4, <2>1, <2>4 DEF AfterWork, views
    <3> QED
      BY <1>1, <1>2, <2>2, <3>1, WorkStepsKeep DEF ViewsInv, ViewsOK
  <2> QED
    BY <2>3, <2>4
<1> QED
  BY <1>3, <1>4

LEMMA WorkFailsKeeps ==
  ASSUME ViewsInv, WorkFails
  PROVE  ViewsInv'
<1>1. /\ UNCHANGED <<version, changes, views, auth, route, viewMode, loading, open, known>>
      /\ happened' = happened \/ \E kind \in Disturbances : happened' = happened \union {kind}
      /\ work' = NoWork
  BY DEF WorkFails, tables, Calm, Disturbing
<1>2. ScalarsOK' /\ BusyOK' /\ version' \in [Pallets -> Nat]
  BY <1>1 DEF ViewsInv, ViewsOK, ScalarsOK, RoomForWork, BusyOK, Waiting
<1> QED
  BY <1>1, <1>2, WorkStepsKeep

LEMMA NextViewsInv == SessionInv /\ SessionInv' /\ ViewsInv /\ [ScreensNext]_stationVars => ViewsInv'
<1> SUFFICES ASSUME SessionInv, SessionInv', ViewsInv, [ScreensNext]_stationVars PROVE ViewsInv'
  OBVIOUS
<1>1. ASSUME NEW r \in PrintRoutes, PrintOpenPallet(r) \/ PrintOfEntry(r) \/ PrintPalletContentsLabel(r)
      PROVE  ViewsInv'
  BY <1>1, LeaveKeeps DEF PrintOpenPallet, PrintOfEntry, PrintPalletContentsLabel, Routes, ViewsInv, ScalarsOK
<1>2. CASE BackFromPrint \/ SwitchView
  BY <1>2, LeaveKeeps DEF BackFromPrint, SwitchView, Routes, ViewsInv, ScalarsOK
<1>3. CASE PageLoads
  BY <1>3, PageLoadsKeeps
<1>4. CASE SubmitLogin \/ Logout \/ Posted \/ PostFails \/ Refreshed
  BY <1>4, AuthStepsKeepViews, RefreshedKeeps
<1>5. ASSUME NEW n \in Pallets,
             RegisterColli(n) \/ ClosePallet(n, TRUE) \/ ClosePallet(n, FALSE) \/ ClosePalletFromList(n)
      PROVE  ViewsInv'
  BY <1>5, StartWorkKeeps DEF RegisterColli, ClosePallet, ClosePalletFromList
<1>6. CASE ClearDatabase
  BY <1>6, StartWorkKeeps DEF ClearDatabase
<1>7. CASE ServeWork \/ AfterWork \/ WorkFails
  BY <1>7, ServeWorkKeeps, AfterWorkKeeps, WorkFailsKeeps
<1>8. CASE \/ \E n \in Pallets : ChoosePallet(n) \/ StaleContents(n)
           \/ ContentsArrive \/ ContentsLost \/ AutoPrints \/ TimerCleared
           \/ \E on \in BOOLEAN : SwitchAutoPrint(on)
  BY <1>8, ContentsStepsKeep
<1>9. CASE UNCHANGED stationVars
  BY <1>9, WorkStepsKeep DEF stationVars, ViewsInv, ViewsOK, ScalarsOK, RoomForWork, BusyOK, Waiting, Screen
<1> QED
  BY <1>1, <1>2, <1>3, <1>4, <1>5, <1>6, <1>7, <1>8, <1>9 DEF ScreensNext

\* Only the first question and a login can find the station signed in, and neither
\* is asked from a page.
CallsFit ==
  /\ authCall.kind = "me" => auth = "loading"
  /\ authCall.kind = "login" => auth = "out"
  /\ authCall.kind = "logout" => ~authCall.answer

LEMMA NextCallsFit ==
  ASSUME ViewsInv, CallsFit, [ScreensNext]_stationVars
  PROVE  CallsFit'
<1>1. ASSUME UNCHANGED <<authCall, auth>>
      PROVE  CallsFit'
  BY <1>1 DEF CallsFit
<1>2. CASE SubmitLogin
  <2>1. Screen = "out" /\ auth' = auth /\ authCall' = AuthCall("login", "post", FALSE)
    BY <1>2 DEF SubmitLogin, StartAuth
  <2>2. viewMode \in Pages /\ route \in Routes
    BY DEF ViewsInv, ScalarsOK
  <2>3. route.page # "out" \/ route = App
    BY <2>2 DEF Routes, PrintRoutes
  <2>4. auth' = "out" /\ authCall'.kind = "login"
    BY <2>1, <2>2, <2>3 DEF Screen, ScreenOf, Pages, AuthCall
  <2> QED
    BY <2>4 DEF CallsFit
<1>3. CASE Logout
  <2>1. authCall' = AuthCall("logout", "post", FALSE)
    BY <1>3 DEF Logout, StartAuth
  <2>2. authCall'.kind = "logout" /\ ~authCall'.answer
    BY <2>1 DEF AuthCall
  <2> QED
    BY <2>2 DEF CallsFit
<1>4. CASE Posted
  <2>1. auth' = auth /\ authCall' = AuthCall(authCall.kind, "me", authCall.kind = "login")
    BY <1>4 DEF Posted
  <2>2. authCall'.kind = authCall.kind /\ authCall'.answer = (authCall.kind = "login")
    BY <2>1 DEF AuthCall
  <2>3. authCall.kind = "logout" => ~authCall'.answer
    BY <2>2
  <2> QED
    BY <2>1, <2>2, <2>3 DEF CallsFit
<1>5. CASE PostFails \/ Refreshed
  <2>1. authCall' = NoCall
    BY <1>5 DEF PostFails, Refreshed
  <2>2. authCall'.kind = "none"
    BY <2>1 DEF NoCall
  <2> QED
    BY <2>2 DEF CallsFit
<1>6. CASE AfterWork
  <2>1. UNCHANGED <<authCall, auth>>
    BY <1>6 DEF AfterWork, GoTo
  <2> QED
    BY <2>1, <1>1
<1>7. ASSUME NEW r, NEW v, Leave(r, v)
      PROVE  UNCHANGED <<authCall, auth>>
  BY <1>7 DEF Leave, GoTo
<1>8. CASE BackFromPrint \/ SwitchView \/ \E r \in PrintRoutes :
             PrintOpenPallet(r) \/ PrintOfEntry(r) \/ PrintPalletContentsLabel(r)
  BY <1>1, <1>7, <1>8 DEF BackFromPrint, SwitchView, PrintOpenPallet, PrintOfEntry, PrintPalletContentsLabel
<1>9. CASE \/ PageLoads \/ ClearDatabase \/ ServeWork \/ WorkFails \/ ContentsArrive \/ ContentsLost
           \/ AutoPrints \/ TimerCleared \/ UNCHANGED stationVars
  BY <1>1, <1>9 DEF PageLoads, ClearDatabase, StartWork, ServeWork, WorkFails, ContentsArrive,
                    ContentsLost, AutoPrints, TimerCleared, OutsideViews, stationVars
<1>10. CASE \/ \E n \in Pallets :
                 \/ RegisterColli(n) \/ ClosePallet(n, TRUE) \/ ClosePallet(n, FALSE)
                 \/ ClosePalletFromList(n) \/ ChoosePallet(n) \/ StaleContents(n)
            \/ \E on \in BOOLEAN : SwitchAutoPrint(on)
  BY <1>1, <1>10 DEF RegisterColli, ClosePallet, ClosePalletFromList, StartWork, ChoosePallet,
                     StaleContents, SwitchAutoPrint, OutsideViews
<1> QED
  BY <1>2, <1>3, <1>4, <1>5, <1>6, <1>8, <1>9, <1>10 DEF ScreensNext

LEMMA HappenedStays ==
  ASSUME [ScreensNext]_stationVars
  PROVE  happened \subseteq happened'
BY DEF ScreensNext, PrintOpenPallet, PrintOfEntry, PrintPalletContentsLabel, BackFromPrint, SwitchView,
       Leave, PageLoads, SubmitLogin, Logout, StartAuth, Posted, PostFails, Refreshed, RegisterColli,
       ClosePallet, ClosePalletFromList, ClearDatabase, StartWork, ChoosePallet, ServeWork, AfterWork,
       WorkFails, ContentsArrive, ContentsLost, StaleContents, AutoPrints, TimerCleared, SwitchAutoPrint,
       Calm, Disturbing, stationVars

LEMMA ScreensInvCorrect == ScreensSpec => [](SessionInv /\ ViewsInv)
<1>1. ScreensInit => SessionInv /\ ViewsInv
  BY InitSessionInv, InitViewsInv
<1>2. (SessionInv /\ ViewsInv) /\ [ScreensNext]_stationVars => (SessionInv /\ ViewsInv)'
  BY NextSessionInv, NextViewsInv
<1> QED
  BY <1>1, <1>2, PTL DEF ScreensSpec

\* The screens keep their types: a view is up exactly where its screen is, and a
\* page that waits for a handler is the one on screen.
THEOREM ScreensTypesKept == ScreensSpec => []ScreensTypeOK
BY ScreensInvCorrect, TypesFollow, PTL

-----------------------------------------------------------------------------
(* Where a view shows the items of another pallet than it names.  Only a    *)
(* handler whose page was left can send a print page to another pallet, and *)
(* only a refused or lost load lets the card keep what it showed: the       *)
(* history, or the session, tells of either.                                *)

LateWork == work # NoWork /\ ~work.mine => "leave while waiting" \in happened
SheetTrue == "leave while waiting" \notin happened => sheet.shown.pallet \in {NoPallet, sheet.target}
CardTrue ==
  sheet = NoSheet /\ (card.failed \/ load.stage = "error") => "lost response" \in happened \/ ~session

TruthInv == LateWork /\ SheetTrue /\ CardTrue

\* Steps that leave what is shown alone.
LEMMA TruthFrame ==
  ASSUME SheetTrue, CardTrue, happened \subseteq happened', UNCHANGED <<card, sheet, load>>,
         session' => session
  PROVE  SheetTrue' /\ CardTrue'
BY DEF SheetTrue, CardTrue

LEMMA LateFrame ==
  ASSUME LateWork, happened \subseteq happened',
         \/ work' = NoWork \/ work' = work \/ work'.mine
         \/ work' = Disown(work) /\ (Waiting => "leave while waiting" \in happened')
  PROVE  LateWork'
BY DEF LateWork, Disown, Waiting

LEMMA GoToTruth ==
  ASSUME ViewsOK, MountOK, SheetTrue, CardTrue, happened \subseteq happened',
         session' = session, session \in BOOLEAN,
         NEW a \in Auths, NEW r \in Routes, NEW v \in Pages, GoTo(a, r, v),
         ScreenOf(a, r, v) = "contents" /\ Screen = "contents" /\ r # route =>
           "leave while waiting" \in happened'
  PROVE  SheetTrue' /\ CardTrue'
<1> DEFINE next == ScreenOf(a, r, v)
<1>1. \/ next = "contents" /\ Screen # "contents" /\ OpenSheet(r.pallet, session')
      \/ next = "contents" /\ Screen = "contents" /\ r # route /\ RetargetSheet(r.pallet, session')
      \/ UNCHANGED views
      \/ CloseViews
  BY DEF GoTo
<1>2. next = "contents" => r.pallet \in Pallets
  BY ContentsScreen
<1> HIDE DEF next
<1>3. CASE next = "contents" /\ Screen # "contents" /\ OpenSheet(r.pallet, session')
  <2>1. version' = version
    BY DEF GoTo, tables
  <2>2. sheet' # NoSheet
    BY <1>2, <1>3, <2>1, OpenSheetKeeps
  <2>3. sheet'.shown.pallet = NoPallet
    <3>1. PICK on \in BOOLEAN : sheet' = [NoSheet EXCEPT !.target = r.pallet, !.timer = on]
      BY <1>3 DEF OpenSheet
    <3>2. sheet'.shown = Nothing
      BY <3>1 DEF NoSheet
    <3>3. Nothing.pallet = NoPallet
      BY DEF Nothing
    <3> QED
      BY <3>2, <3>3
  <2> QED
    BY <2>2, <2>3 DEF SheetTrue, CardTrue
<1>4. CASE next = "contents" /\ Screen = "contents" /\ r # route /\ RetargetSheet(r.pallet, session')
  <2>1. version' = version /\ sheet # NoSheet
    BY <1>4 DEF GoTo, tables, MountOK
  <2>2. sheet' # NoSheet
    BY <1>2, <1>4, <2>1, RetargetKeeps
  <2>3. "leave while waiting" \in happened'
    BY <1>4 DEF next
  <2> QED
    BY <2>2, <2>3 DEF SheetTrue, CardTrue
<1>5. CASE UNCHANGED views
  BY <1>5, TruthFrame DEF views
<1>6. CASE CloseViews
  <2>1. card' = NoCard /\ sheet' = NoSheet /\ load' = NoLoad
    BY <1>6 DEF CloseViews, Forget
  <2>2. ~NoCard.failed /\ NoLoad.stage = "none" /\ NoSheet.shown.pallet = NoPallet
    BY DEF NoCard, NoLoad, NoSheet, Nothing
  <2> QED
    BY <2>1, <2>2 DEF SheetTrue, CardTrue
<1> QED
  BY <1>1, <1>3, <1>4, <1>5, <1>6

LEMMA LeaveTruth ==
  ASSUME SessionInv, ViewsInv, TruthInv, happened \subseteq happened', NEW r \in Routes, NEW v \in Pages,
         Leave(r, v)
  PROVE  TruthInv'
<1>1. /\ GoTo(auth, r, v) /\ work' = Disown(work) /\ session' = session
      /\ ScreenOf(auth, r, v) # Screen
      /\ Waiting => "leave while waiting" \in happened'
  BY DEF Leave, Disturbing
<1>2. SheetTrue' /\ CardTrue'
  BY <1>1, GoToTruth DEF SessionInv, ViewsInv, ScalarsOK, TruthInv
<1> QED
  BY <1>1, <1>2, LateFrame DEF TruthInv

\* No response of /auth/me that is missing takes a page away from its handler.
LEMMA RefreshedTruth ==
  ASSUME SessionInv, ViewsInv, CallsFit, TruthInv, happened \subseteq happened', Refreshed
  PROVE  TruthInv'
<1>1. PICK signedIn \in BOOLEAN :
        LET a == IF signedIn THEN "in" ELSE "out"
            r == IF authCall.kind = "me" THEN route ELSE App
        IN /\ IF signedIn = authCall.answer
                THEN Waiting /\ ~StaysMounted(a, r, viewMode) => "leave while waiting" \in happened'
                ELSE ~signedIn
           /\ session' = session
           /\ GoTo(a, r, viewMode)
           /\ work' = IF StaysMounted(a, r, viewMode) THEN work ELSE Disown(work)
  BY DEF Refreshed, Disturbing
<1> DEFINE a == IF signedIn THEN "in" ELSE "out"
           r == IF authCall.kind = "me" THEN route ELSE App
<1>2. a \in Auths /\ r \in Routes /\ viewMode \in Pages /\ session \in BOOLEAN /\ route \in Routes
  BY DEF Auths, Routes, ViewsInv, ScalarsOK, SessionInv
<1>3. GoTo(a, r, viewMode) /\ session' = session
  BY <1>1
<1>4. ScreenOf(a, App, viewMode) # "contents"
  BY <1>2 DEF ScreenOf, Auths, App, Pages
<1>5. ~(ScreenOf(a, r, viewMode) = "contents" /\ r # route)
  BY <1>4
<1>6. Waiting => auth = "in"
  <2>1. Waiting => Screen \in Pages
    BY WorkTypes DEF ViewsInv, ScalarsOK, BusyOK, Waiting, Works, AnyWork
  <2> QED
    BY <2>1 DEF Screen, ScreenOf, ViewsInv, ScalarsOK, Auths, Pages
<1>7. Waiting /\ ~StaysMounted(a, r, viewMode) => "leave while waiting" \in happened'
  <2>1. CASE signedIn = authCall.answer
    BY <1>1, <2>1
  <2>2. CASE signedIn # authCall.answer
    <3>1. authCall \in AuthCalls
      BY DEF Refreshed, SessionInv
    <3>2. authCall.answer
      BY <1>1, <2>2, <3>1 DEF AuthCalls
    <3>3. auth # "in"
      BY <3>1, <3>2 DEF CallsFit, AuthCalls
    <3> QED
      BY <1>6, <3>3
  <2> QED
    BY <2>1, <2>2
<1>8. work' = work \/ (work' = Disown(work) /\ (Waiting => "leave while waiting" \in happened'))
  BY <1>1, <1>7
<1>9. LateWork'
  BY <1>8, LateFrame DEF TruthInv
<1> HIDE DEF a, r
<1>10. SheetTrue' /\ CardTrue'
  BY <1>2, <1>3, <1>5, GoToTruth DEF ViewsInv, TruthInv
<1> QED
  BY <1>9, <1>10 DEF TruthInv

LEMMA CardOnTruth ==
  ASSUME ViewsOK, SheetTrue, happened \subseteq happened', NEW c \in Cards,
         NEW n \in Pallets \union {NoPallet}, CardOn(n, c, session), session' = session, sheet' = sheet
  PROVE  SheetTrue' /\ CardTrue'
<1>1. ~card'.failed
  BY DEF CardOn, Cards
<1>2. load'.stage = "error" => ~session
  BY DEF CardOn, Fetch, Forget, NoLoad
<1> QED
  BY <1>1, <1>2 DEF SheetTrue, CardTrue

LEMMA OfferTruth ==
  ASSUME ViewsOK, SheetTrue, CardTrue, happened \subseteq happened', session' = session, sheet' = sheet,
         NEW offered \in SUBSET Pallets, NEW openIds \in SUBSET Pallets, NEW refresh \in BOOLEAN,
         OfferPallets(offered, openIds, refresh, session)
  PROVE  SheetTrue' /\ CardTrue'
<1>1. Listing(offered, openIds) \in Cards /\ Listing(offered, openIds).failed = card.failed
  BY DEF Listing, ViewsOK, Cards
<1>2. PICK n \in NextChoices(offered) :
        IF n = card.selected /\ ~refresh
          THEN card' = Listing(offered, openIds) /\ UNCHANGED <<load, stale>>
          ELSE CardOn(n, Listing(offered, openIds), session)
  BY DEF OfferPallets
<1>3. n \in Pallets \union {NoPallet}
  BY DEF NextChoices, ViewsOK, Cards
<1>4. CASE n = card.selected /\ ~refresh
  BY <1>1, <1>2, <1>4 DEF SheetTrue, CardTrue
<1>5. CASE ~(n = card.selected /\ ~refresh)
  BY <1>1, <1>2, <1>3, <1>5, CardOnTruth
<1> QED
  BY <1>4, <1>5

LEMMA LoadEndsTruth ==
  ASSUME ViewsOK, SheetTrue, CardTrue, happened \subseteq happened', session' = session, LoadEnds
  PROVE  SheetTrue' /\ CardTrue'
<1>1. load # NoLoad /\ load.pallet \in Pallets /\ load' = NoLoad /\ load'.stage = "none"
  BY DEF LoadEnds, NoLoad, ViewsOK, LoadOfView
<1>2. \/ load.stage = "items" /\ ShowItems([pallet |-> load.pallet, version |-> load.version])
      \/ load.stage = "error" /\ ShowError
  BY DEF LoadEnds
<1>3. CASE sheet # NoSheet
  <2>1. sheet \in Sheets /\ sheet.target = load.pallet
    BY <1>1, <1>3 DEF ViewsOK, LoadOfView
  <2>2. /\ sheet' \in Sheets /\ sheet'.target = load.pallet
        /\ sheet'.shown = sheet.shown \/ sheet'.shown.pallet = load.pallet
    <3>1. CASE ShowError
      BY <1>3, <2>1, <3>1 DEF ShowError, Sheets
    <3>2. CASE ShowItems([pallet |-> load.pallet, version |-> load.version])
      <4>1. [pallet |-> load.pallet, version |-> load.version] \in Items
        BY <1>1 DEF ViewsOK, Loads, Items
      <4> QED
        BY <1>3, <2>1, <3>2, <4>1 DEF ShowItems, Sheets
    <3> QED
      BY <1>2, <3>1, <3>2
  <2>3. sheet' # NoSheet
    BY <1>1, <2>2, PalletsAssumption DEF NoSheet, NoPallet
  <2> QED
    BY <2>1, <2>2, <2>3 DEF SheetTrue, CardTrue
<1>4. CASE sheet = NoSheet
  <2>1. sheet' = sheet /\ card \in Cards
    BY <1>2, <1>4 DEF ShowItems, ShowError, ViewsOK
  <2>2. card'.failed => card.failed \/ load.stage = "error"
    BY <1>2, <1>4, <2>1 DEF ShowItems, ShowError, Cards
  <2> QED
    BY <1>1, <1>4, <2>1, <2>2 DEF SheetTrue, CardTrue
<1> QED
  BY <1>3, <1>4

LEMMA ContentsTruth ==
  ASSUME SessionInv, ViewsInv, TruthInv, happened \subseteq happened',
         \/ \E n \in Pallets : ChoosePallet(n) \/ StaleContents(n)
         \/ ContentsArrive \/ ContentsLost \/ AutoPrints \/ TimerCleared
         \/ \E on \in BOOLEAN : SwitchAutoPrint(on)
  PROVE  TruthInv'
<1>1. session' = session /\ work' = work
  BY DEF ChoosePallet, StaleContents, ContentsArrive, ContentsLost, AutoPrints, TimerCleared,
         SwitchAutoPrint, OutsideViews
<1>2. ViewsOK /\ SheetTrue /\ CardTrue
  BY DEF ViewsInv, TruthInv
<1> SUFFICES SheetTrue' /\ CardTrue'
  BY <1>1, LateFrame DEF TruthInv
<1>3. ASSUME NEW n \in Pallets, ChoosePallet(n)
      PROVE  SheetTrue' /\ CardTrue'
  BY <1>1, <1>2, <1>3, CardOnTruth DEF ChoosePallet, SelectPallet, ViewsOK
<1>4. CASE ReadContents \/ \E n \in Pallets : StaleContents(n)
  <2>1. card' = card /\ sheet' = sheet /\ (load'.stage = "error" => load.stage = "error")
    BY <1>2, <1>4 DEF ReadContents, StaleContents, StaleLoadEnds, ViewsOK, Loads
  <2> QED
    BY <1>1, <1>2, <2>1 DEF SheetTrue, CardTrue
<1>5. CASE ContentsLost
  <2>1. sheet' = sheet /\ "lost response" \in happened'
    BY <1>5 DEF ContentsLost, LoseContents, Disturbing
  <2> QED
    BY <1>2, <2>1 DEF SheetTrue, CardTrue
<1>6. CASE LoadEnds
  BY <1>1, <1>2, <1>6, LoadEndsTruth
<1>7. CASE AutoPrints \/ TimerCleared \/ \E on \in BOOLEAN : SwitchAutoPrint(on)
  <2>1. /\ card' = card /\ load' = load /\ sheet # NoSheet
        /\ sheet'.target = sheet.target /\ sheet'.shown = sheet.shown
    <3>1. sheet \in Sheets
      BY <1>2 DEF ViewsOK
    <3>2. sheet.timer \/ sheet.due => sheet # NoSheet
      BY DEF NoSheet
    <3> QED
      BY <1>7, <3>1, <3>2 DEF AutoPrints, PrintOnMount, TimerCleared, ClearPrintTimer, SwitchAutoPrint,
                              SetAutoPrint, Sheets
  <2>2. sheet' # NoSheet
    BY <1>2, <2>1, PalletsAssumption DEF ViewsOK, NoSheet, NoPallet
  <2> QED
    BY <1>2, <2>1, <2>2 DEF SheetTrue, CardTrue
<1> QED
  BY <1>3, <1>4, <1>5, <1>6, <1>7 DEF ContentsArrive

LEMMA WorkTruth ==
  ASSUME SessionInv, ViewsInv, TruthInv, happened \subseteq happened',
         \/ \E kind, n, print : StartWork(kind, n, print)
         \/ ServeWork \/ AfterWork \/ WorkFails
  PROVE  TruthInv'
<1>1. session' = session /\ session \in BOOLEAN /\ SheetTrue /\ CardTrue /\ LateWork
  BY DEF StartWork, ServeWork, AfterWork, WorkFails, SessionInv, TruthInv
<1>2. ASSUME NEW kind, NEW n, NEW print, StartWork(kind, n, print)
      PROVE  TruthInv'
  <2>1. work'.mine /\ UNCHANGED views
    BY <1>2 DEF StartWork
  <2> QED
    BY <1>1, <2>1, TruthFrame, LateFrame DEF TruthInv, views
<1>3. CASE ServeWork
  <2>1. work \in Works /\ UNCHANGED views
    BY <1>3 DEF ServeWork, ViewsInv, ScalarsOK
  <2>2. work # NoWork /\ work'.mine = work.mine
    BY <1>3, <2>1 DEF ServeWork, Works, AnyWork
  <2>3. LateWork'
    BY <1>1, <2>2 DEF LateWork
  <2> QED
    BY <1>1, <2>1, <2>3, TruthFrame DEF TruthInv, views
<1>4. CASE WorkFails
  <2>1. work' = NoWork /\ UNCHANGED views
    BY <1>4 DEF WorkFails
  <2> QED
    BY <1>1, <2>1, TruthFrame, LateFrame DEF TruthInv, views
<1>5. CASE AfterWork
  <2>1. work \in Works /\ work # NoWork /\ work' = NoWork
    BY <1>5 DEF AfterWork, ViewsInv, ScalarsOK
  <2>2. LateWork'
    BY <1>1, <2>1, LateFrame
  <2>3. work.mine => Screen \in Pages
    BY <2>1 DEF ViewsInv, BusyOK, Waiting, Works, AnyWork
  <2>4. CASE Navigates(work)
    <3>1. GoTo(auth, Destination(work), viewMode) /\ auth \in Auths /\ viewMode \in Pages
      BY <1>5, <2>4 DEF AfterWork, ViewsInv, ScalarsOK
    <3>2. Destination(work) \in Routes
      BY <2>1, WorkTypes
    <3>3. Screen = "contents" => "leave while waiting" \in happened'
      BY <1>1, <2>1, <2>3 DEF LateWork, Pages
    <3>4. SheetTrue' /\ CardTrue'
      BY <1>1, <3>1, <3>2, <3>3, GoToTruth DEF ViewsInv
    <3> QED
      BY <2>2, <3>4 DEF TruthInv
  <2>5. CASE ~Navigates(work) /\ work.mine /\ session
    <3>1. sheet' = sheet
      BY <1>5, <2>5 DEF AfterWork
    <3>2. PICK offered \in SUBSET Pallets, refresh \in BOOLEAN :
            OfferPallets(offered, open, refresh, session) /\ open \in SUBSET Pallets
      BY <1>5, <2>5 DEF AfterWork, Offered, ViewsInv, ScalarsOK
    <3>3. SheetTrue' /\ CardTrue'
      BY <1>1, <3>1, <3>2, OfferTruth DEF ViewsInv
    <3> QED
      BY <2>2, <3>3 DEF TruthInv
  <2>6. CASE ~Navigates(work) /\ ~(work.mine /\ session)
    <3>1. UNCHANGED <<card, sheet, load>>
      BY <1>5, <2>6 DEF AfterWork
    <3> QED
      BY <1>1, <2>2, <3>1, TruthFrame DEF TruthInv
  <2> QED
    BY <2>4, <2>5, <2>6
<1> QED
  BY <1>2, <1>3, <1>4, <1>5

LEMMA NextTruthInv ==
  ASSUME SessionInv, ViewsInv, CallsFit, TruthInv, [ScreensNext]_stationVars
  PROVE  TruthInv'
<1>1. happened \subseteq happened' /\ ViewsOK /\ SheetTrue /\ CardTrue /\ LateWork
  BY HappenedStays DEF TruthInv, ViewsInv
<1>2. CASE BackFromPrint \/ SwitchView \/ \E r \in PrintRoutes :
             PrintOpenPallet(r) \/ PrintOfEntry(r) \/ PrintPalletContentsLabel(r)
  BY <1>1, <1>2, LeaveTruth DEF BackFromPrint, SwitchView, PrintOpenPallet, PrintOfEntry,
                                PrintPalletContentsLabel, Routes, ViewsInv, ScalarsOK
<1>3. CASE PageLoads
  <2>1. session' = session /\ sheet' = sheet /\ work' = work
    BY <1>3 DEF PageLoads
  <2>2. PICK offered \in SUBSET Pallets, openIds \in SUBSET Pallets :
          OfferPallets(offered, openIds, TRUE, session)
    BY <1>3 DEF PageLoads, Offered, ViewsInv, ScalarsOK
  <2>3. SheetTrue' /\ CardTrue'
    BY <1>1, <2>1, <2>2, OfferTruth
  <2> QED
    BY <1>1, <2>1, <2>3, LateFrame DEF TruthInv
<1>4. CASE SubmitLogin \/ Logout \/ PostFails \/ UNCHANGED stationVars
  <2>1. UNCHANGED <<views, session, work>>
    BY <1>4 DEF SubmitLogin, Logout, StartAuth, PostFails, stationVars
  <2> QED
    BY <1>1, <2>1, TruthFrame, LateFrame DEF TruthInv, views
<1>5. CASE Posted
  <2>1. UNCHANGED <<views, work>> /\ session' = (authCall.kind = "login")
    BY <1>5 DEF Posted
  <2>2. CASE authCall.kind = "login"
    <3>1. auth = "out"
      BY <2>2 DEF CallsFit
    <3>2. Screen = "out"
      BY <3>1 DEF Screen, ScreenOf
    <3>3. card = NoCard /\ sheet = NoSheet /\ load = NoLoad
      BY <3>2, CardHasPallets DEF ViewsInv, MountOK, Pages
    <3>4. ~NoCard.failed /\ NoLoad.stage = "none" /\ NoSheet.shown.pallet = NoPallet
      BY DEF NoCard, NoLoad, NoSheet, Nothing
    <3>5. card' = NoCard /\ load' = NoLoad /\ sheet' = NoSheet
      BY <2>1, <3>3 DEF views
    <3>6. SheetTrue' /\ CardTrue'
      BY <3>4, <3>5 DEF SheetTrue, CardTrue
    <3> QED
      BY <1>1, <2>1, <3>6, LateFrame DEF TruthInv
  <2>3. CASE authCall.kind # "login"
    <3>1. session' => session
      BY <2>1, <2>3
    <3> QED
      BY <1>1, <2>1, <3>1, TruthFrame, LateFrame DEF TruthInv, views
  <2> QED
    BY <2>2, <2>3
<1>6. CASE Refreshed
  BY <1>1, <1>6, RefreshedTruth
<1>7. CASE \/ ClearDatabase \/ ServeWork \/ AfterWork \/ WorkFails
           \/ \E n \in Pallets : \/ RegisterColli(n) \/ ClosePallet(n, TRUE) \/ ClosePallet(n, FALSE)
                                 \/ ClosePalletFromList(n)
  BY <1>1, <1>7, WorkTruth DEF ClearDatabase, RegisterColli, ClosePallet, ClosePalletFromList
<1>8. CASE \/ ContentsArrive \/ ContentsLost \/ AutoPrints \/ TimerCleared
           \/ \E n \in Pallets : ChoosePallet(n) \/ StaleContents(n)
           \/ \E on \in BOOLEAN : SwitchAutoPrint(on)
  BY <1>1, <1>8, ContentsTruth
<1> QED
  BY <1>2, <1>3, <1>4, <1>5, <1>6, <1>7, <1>8 DEF ScreensNext

LEMMA InitTruthInv == ScreensInit => CallsFit /\ TruthInv
BY DEF ScreensInit, ContentsInit, CallsFit, TruthInv, LateWork, SheetTrue, CardTrue, AuthCall, NoCard,
       NoSheet, NoLoad, Nothing

LEMMA TruthFollows == ViewsInv /\ TruthInv => ViewsTruthful
<1> SUFFICES ASSUME ViewsInv, TruthInv PROVE ViewsTruthful
  OBVIOUS
<1>1. ViewsShown /\ (card # NoCard => sheet = NoSheet)
  BY DEF ViewsInv, ViewsOK, MountOK, Pages
<1>2. card.selected # NoPallet => card # NoCard
  BY DEF NoCard
<1>3. CardShowsSelected
  BY <1>1, <1>2 DEF ViewsShown, CardShowsSelected, TruthInv, CardTrue
<1>4. SheetShowsTarget
  BY <1>1 DEF ViewsShown, SheetShowsTarget, TruthInv, SheetTrue
<1> QED
  BY <1>1, <1>3, <1>4 DEF ViewsShown, ViewsTruthful

\* For any number of pallets, changes and disturbances: with no load under way card
\* and print page show the pallet they name, unless the card's last load failed, for
\* want of a session or of a response; while a load is under way the print page shows
\* that pallet or nothing, unless a page was left with its handler under way; and on
\* a print page with an error no timer runs but one that the render of that error
\* found, until its effects have run.  What the exceptions let through the pages
\* really show, and the print page really prints.
THEOREM ViewsNameWhatTheyShow == ScreensSpec => []ViewsTruthful
<1>1. ScreensInit => SessionInv /\ ViewsInv /\ CallsFit /\ TruthInv
  BY InitSessionInv, InitViewsInv, InitTruthInv
<1>2. (SessionInv /\ ViewsInv /\ CallsFit /\ TruthInv) /\ [ScreensNext]_stationVars
        => (SessionInv /\ ViewsInv /\ CallsFit /\ TruthInv)'
  BY NextSessionInv, NextViewsInv, NextCallsFit, NextTruthInv
<1> QED
  BY <1>1, <1>2, TruthFollows, PTL DEF ScreensSpec

-----------------------------------------------------------------------------
(* A calm shift on the sorting page: until its handler is answered, the card *)
(* shows what the chosen pallet holds, or a load that will is under way.     *)

NotAnswered == work # NoWork => work.stage = "sent"

CardFresh ==
  /\ card.offered = open \union known
  /\ card.selected # NoPallet /\ ~card.failed =>
       IF load = NoLoad THEN card.shown.version = version[card.selected]
       ELSE load.stage = "items" => load.version = version[load.pallet]

FreshShift ==
  /\ work # NoWork => work.mine
  /\ session /\ Screen = "newSorting" /\ ~loading /\ NotAnswered => CardFresh

FreshInv ==
  /\ SessionInv /\ ViewsInv
  /\ CallsFit
  /\ happened = {} => FreshShift

LEMMA CalmBefore ==
  ASSUME happened' = {}
  PROVE  (\A kind : ~Disturbing(kind)) /\ (Calm => happened = {})
BY DEF Disturbing, Calm

\* Steps that leave the card, its load and the tables alone and answer no handler.
LEMMA FreshFrame ==
  ASSUME FreshShift, UNCHANGED <<version, card, load, open, known, loading>>, Screen' = Screen,
         session' => session, work' # NoWork => work'.mine, NotAnswered' => NotAnswered
  PROVE  FreshShift'
<1>1. CardFresh' <=> CardFresh
  BY DEF CardFresh
<1> QED
  BY <1>1 DEF FreshShift

\* Another screen than the loaded sorting page.
LEMMA ElsewhereFresh ==
  ASSUME work' # NoWork => work'.mine, Screen' = "newSorting" => loading'
  PROVE  FreshShift'
BY DEF FreshShift

LEMMA GoToFresh ==
  ASSUME FreshShift, NEW a, NEW r, NEW v, GoTo(a, r, v), UNCHANGED <<session, open, known>>,
         work' # NoWork => work'.mine, NotAnswered' => NotAnswered
  PROVE  FreshShift'
<1> DEFINE next == ScreenOf(a, r, v)
<1>1. Screen' = next /\ version' = version
  BY DEF GoTo, tables, Screen
<1>2. \/ next = "contents"
      \/ next = Screen /\ UNCHANGED <<views, loading>>
      \/ next # Screen /\ loading' = (next \in Pages)
  BY DEF GoTo
<1> HIDE DEF next
<1>3. CASE next = "contents"
  BY <1>1, <1>3, ElsewhereFresh
<1>4. CASE next = Screen /\ UNCHANGED <<views, loading>>
  BY <1>1, <1>4, FreshFrame DEF views
<1>5. CASE next # Screen /\ loading' = (next \in Pages)
  <2>1. next = "newSorting" => loading'
    BY <1>5 DEF Pages
  <2> QED
    BY <1>1, <2>1, ElsewhereFresh
<1> QED
  BY <1>2, <1>3, <1>4, <1>5

\* A choice in the card, and a refreshed one, set off a load.
LEMMA CardOnFresh ==
  ASSUME ViewsOK, NEW c \in Cards, NEW n \in Pallets \union {NoPallet}, NEW allowed \in BOOLEAN,
         CardOn(n, c, allowed)
  PROVE  /\ card'.offered = c.offered
         /\ card'.selected # NoPallet => load' # NoLoad /\ load'.stage # "items"
<1>1. card'.offered = c.offered /\ card'.selected = n
  BY DEF CardOn, Cards
<1>2. n # NoPallet => load'.stage \in {"sent", "error"}
  BY DEF CardOn, Fetch
<1> QED
  BY <1>1, <1>2 DEF NoLoad

LEMMA OfferFresh ==
  ASSUME ViewsOK, NEW offered \in SUBSET Pallets, NEW openIds \in SUBSET Pallets,
         NEW allowed \in BOOLEAN, OfferPallets(offered, openIds, TRUE, allowed)
  PROVE  /\ card'.offered = offered
         /\ card'.selected # NoPallet => load' # NoLoad /\ load'.stage # "items"
<1> DEFINE c == Listing(offered, openIds)
<1>1. c \in Cards /\ c.offered = offered
  BY DEF Listing, ViewsOK, Cards
<1>2. PICK n \in NextChoices(offered) : CardOn(n, c, allowed)
  BY DEF OfferPallets
<1>3. n \in Pallets \union {NoPallet}
  BY DEF NextChoices, ViewsOK, Cards
<1> HIDE DEF c
<1> QED
  BY <1>1, <1>2, <1>3, CardOnFresh

LEMMA LeaveFresh ==
  ASSUME ViewsInv, FreshShift, happened' = {}, NEW r, NEW v, Leave(r, v)
  PROVE  FreshShift'
<1>1. work = NoWork
  BY CalmBefore DEF Leave, Waiting, FreshShift
<1>2. work' = NoWork
  BY <1>1 DEF Leave, Disown
<1> QED
  BY <1>1, <1>2, GoToFresh DEF Leave, NotAnswered

LEMMA WorkFresh ==
  ASSUME FreshInv, FreshShift, happened' = {},
         \/ \E kind, n, print : StartWork(kind, n, print)
         \/ ServeWork \/ AfterWork \/ WorkFails
  PROVE  FreshShift'
<1> USE DEF FreshInv
<1>1. ASSUME NEW kind, NEW n, NEW print, StartWork(kind, n, print)
      PROVE  FreshShift'
  <2>1. /\ UNCHANGED <<version, card, load, open, known, loading, session>> /\ Screen' = Screen
        /\ work = NoWork /\ work'.mine
    BY <1>1 DEF StartWork, tables, views, Screen
  <2> QED
    BY <2>1, FreshFrame DEF NotAnswered
<1>2. CASE ServeWork
  <2>1. work \in Works /\ work # NoWork
    BY <1>2 DEF ServeWork, ViewsInv, ScalarsOK
  <2>2. work' \in Works /\ work'.stage = "answered" /\ work'.mine = work.mine
    BY <1>2, <2>1 DEF ServeWork, Works, AnyWork
  <2>3. work' # NoWork
    BY <2>2, WorkTypes
  <2> QED
    BY <2>1, <2>2, <2>3 DEF FreshShift, NotAnswered
<1>3. CASE AfterWork
  <2>1. work \in Works /\ work # NoWork /\ work.mine /\ work' = NoWork
        /\ UNCHANGED <<version, open, known, session>>
    BY <1>3 DEF AfterWork, ViewsInv, ScalarsOK, FreshShift, tables
  <2>2. Screen \in Pages /\ work.view = Screen /\ auth = "in"
    BY <2>1 DEF ViewsInv, ScalarsOK, BusyOK, Waiting, Works, AnyWork, Screen, ScreenOf, Auths, Pages
  <2>3. CASE Navigates(work)
    <3>1. GoTo("in", Destination(work), viewMode)
      BY <1>3, <2>2, <2>3 DEF AfterWork
    <3>2. Destination(work) # App /\ Destination(work).page \in {"label", "contents"}
      BY <2>1, <2>3 DEF Navigates, Destination, App
    <3>3. Screen' # "newSorting"
      BY <3>1, <3>2 DEF GoTo, Screen, ScreenOf
    <3> QED
      BY <2>1, <3>3, ElsewhereFresh
  <2>4. CASE ~Navigates(work)
    <3>1. UNCHANGED <<auth, route, viewMode, loading>>
      BY <1>3, <2>4 DEF AfterWork
    <3>2. Screen' = Screen
      BY <3>1 DEF Screen
    <3>3. CASE session /\ Screen = "newSorting"
      <4>1. OfferPallets(open \union known, open, TRUE, session)
        BY <1>3, <2>1, <2>2, <2>4, <3>3 DEF AfterWork, Offered
      <4>2. CardFresh'
        BY <2>1, <4>1, OfferFresh DEF CardFresh, ViewsInv, ScalarsOK, SessionInv
      <4> QED
        BY <2>1, <4>2 DEF FreshShift
    <3>4. CASE ~(session /\ Screen = "newSorting")
      BY <2>1, <3>2, <3>4 DEF FreshShift
    <3> QED
      BY <3>3, <3>4
  <2> QED
    BY <2>3, <2>4
<1>4. CASE WorkFails
  <2>1. work.stage = "sent" /\ work' = NoWork
        /\ UNCHANGED <<version, card, load, open, known, loading, session>> /\ Screen' = Screen
    BY <1>4, CalmBefore DEF WorkFails, tables, views, Screen
  <2> QED
    BY <2>1, FreshFrame DEF NotAnswered
<1> QED
  BY <1>1, <1>2, <1>3, <1>4

LEMMA AuthFresh ==
  ASSUME FreshInv, FreshShift, happened' = {}, SubmitLogin \/ Logout \/ Posted \/ PostFails \/ Refreshed
  PROVE  FreshShift'
<1>1. CASE SubmitLogin \/ Logout \/ Posted \/ PostFails
  <2>1. UNCHANGED <<version, card, load, open, known, loading, work>> /\ Screen' = Screen
    BY <1>1 DEF SubmitLogin, Logout, StartAuth, Posted, PostFails, tables, views, Screen
  <2>2. (session' => session) \/ auth = "out"
    BY <1>1 DEF SubmitLogin, Logout, StartAuth, Posted, PostFails, FreshInv, CallsFit
  <2>3. CASE session' => session
    BY <2>1, <2>3, FreshFrame DEF FreshShift, NotAnswered
  <2>4. CASE auth = "out"
    BY <2>1, <2>4, ElsewhereFresh DEF FreshShift, Screen, ScreenOf
  <2> QED
    BY <2>2, <2>3, <2>4
<1>2. CASE Refreshed
  <2>1. PICK a, r : /\ GoTo(a, r, viewMode) /\ UNCHANGED <<session, open, known>>
                    /\ Waiting => StaysMounted(a, r, viewMode)
                    /\ work' = IF StaysMounted(a, r, viewMode) THEN work ELSE Disown(work)
    BY <1>2, CalmBefore DEF Refreshed
  <2>2. work' = work
    BY <2>1 DEF FreshShift, Waiting, Disown
  <2> QED
    BY <2>1, <2>2, GoToFresh DEF FreshShift, NotAnswered
<1> QED
  BY <1>1, <1>2

LEMMA LoadsFresh ==
  ASSUME FreshInv, FreshShift, happened' = {},
         \/ PageLoads
         \/ \E n \in Pallets : ChoosePallet(n) \/ StaleContents(n)
         \/ ContentsArrive \/ ContentsLost \/ AutoPrints \/ TimerCleared
         \/ \E on \in BOOLEAN : SwitchAutoPrint(on)
  PROVE  FreshShift'
<1> USE DEF FreshInv
<1>1. CASE PageLoads
  <2>1. UNCHANGED <<version, open, known, session, work>> /\ Screen' = Screen
    BY <1>1 DEF PageLoads, tables, Screen
  <2>2. CASE session /\ Screen = "newSorting"
    <3>1. OfferPallets(open \union known, open, TRUE, session)
      BY <1>1, <2>2, CalmBefore DEF PageLoads, Offered
    <3>2. CardFresh'
      BY <2>1, <3>1, OfferFresh DEF CardFresh, ViewsInv, ScalarsOK, SessionInv
    <3> QED
      BY <2>1, <3>2 DEF FreshShift
  <2>3. CASE ~(session /\ Screen = "newSorting")
    BY <2>1, <2>3 DEF FreshShift
  <2> QED
    BY <2>2, <2>3
<1>2. CASE ~PageLoads
  <2>1. UNCHANGED <<version, open, known, session, loading, work>> /\ Screen' = Screen
    BY <1>2 DEF ChoosePallet, SelectPallet, StaleContents, StaleLoadEnds, ContentsArrive, ReadContents,
                LoadEnds, ContentsLost, LoseContents, AutoPrints, PrintOnMount, TimerCleared,
                ClearPrintTimer, SwitchAutoPrint, SetAutoPrint, OutsideViews, Screen
  <2>2. work' # NoWork => work'.mine
    BY <2>1 DEF FreshShift
  <2>3. CASE session /\ Screen = "newSorting" /\ ~loading /\ NotAnswered
    <3>1. CardFresh /\ sheet = NoSheet
      BY <2>3 DEF FreshShift, ViewsInv, MountOK
    <3>2. CardFresh'
      <4>1. ASSUME NEW n \in Pallets, ChoosePallet(n)
            PROVE  CardFresh'
        <5>1. CardOn(n, card, session) /\ card \in Cards /\ session \in BOOLEAN
          BY <4>1 DEF ChoosePallet, SelectPallet, ViewsInv, ViewsOK, SessionInv
        <5>2. /\ card'.offered = card.offered
              /\ card'.selected # NoPallet => load' # NoLoad /\ load'.stage # "items"
          BY <5>1, CardOnFresh DEF ViewsInv
        <5> QED
          BY <2>1, <3>1, <5>2 DEF CardFresh
      <4>2. CASE ReadContents
        <5>1. /\ card' = card /\ load \in Loads /\ load # NoLoad
              /\ load'.pallet = load.pallet /\ load'.version = version[load.pallet] /\ load'.stage = "items"
          BY <4>2 DEF ReadContents, ViewsInv, ViewsOK, Loads, NoLoad
        <5>2. load' # NoLoad
          BY <5>1 DEF NoLoad
        <5> QED
          BY <2>1, <3>1, <5>1, <5>2 DEF CardFresh
      <4>3. CASE LoadEnds /\ load.stage = "items"
        <5>1. card \in Cards /\ load # NoLoad /\ card.selected = load.pallet
          BY <3>1, <4>3 DEF ViewsInv, ViewsOK, LoadOfView, NoLoad
        <5>2. load' = NoLoad
              /\ card' = [card EXCEPT !.shown = [pallet |-> load.pallet, version |-> load.version],
                                      !.loading = FALSE]
          BY <3>1, <4>3 DEF LoadEnds, ShowItems
        <5>3. /\ card'.offered = card.offered /\ card'.selected = card.selected
              /\ card'.failed = card.failed /\ card'.shown.version = load.version
          BY <5>1, <5>2 DEF Cards
        <5> QED
          BY <2>1, <3>1, <4>3, <5>1, <5>2, <5>3 DEF CardFresh
      <4>4. CASE LoadEnds /\ load.stage = "error"
        <5>1. card \in Cards /\ card' = [card EXCEPT !.failed = TRUE, !.loading = FALSE]
          BY <3>1, <4>4 DEF LoadEnds, ShowError, ViewsInv, ViewsOK
        <5>2. card'.offered = card.offered /\ card'.failed
          BY <5>1 DEF Cards
        <5> QED
          BY <2>1, <3>1, <5>2 DEF CardFresh
      <4>5. CASE \/ \E n \in Pallets : StaleContents(n)
                 \/ AutoPrints \/ TimerCleared \/ \E on \in BOOLEAN : SwitchAutoPrint(on)
        <5>1. card' = card /\ load' = load
          BY <4>5 DEF StaleContents, StaleLoadEnds, AutoPrints, PrintOnMount, TimerCleared,
                      ClearPrintTimer, SwitchAutoPrint, SetAutoPrint
        <5> QED
          BY <2>1, <3>1, <5>1 DEF CardFresh
      <4>6. ~ContentsLost
        BY CalmBefore DEF ContentsLost
      <4>7. ContentsArrive =>
              ReadContents \/ (LoadEnds /\ load.stage = "items") \/ (LoadEnds /\ load.stage = "error")
        BY DEF ContentsArrive, LoadEnds
      <4> QED
        BY <1>2, <4>1, <4>2, <4>3, <4>4, <4>5, <4>6, <4>7
    <3> QED
      BY <2>2, <3>2 DEF FreshShift
  <2>4. CASE ~(session /\ Screen = "newSorting" /\ ~loading /\ NotAnswered)
    BY <2>1, <2>2, <2>4 DEF FreshShift, NotAnswered
  <2> QED
    BY <2>3, <2>4
<1> QED
  BY <1>1, <1>2

LEMMA NextFreshInv == FreshInv /\ [ScreensNext]_stationVars => FreshInv'
<1> SUFFICES ASSUME FreshInv, [ScreensNext]_stationVars PROVE FreshInv'
  OBVIOUS
<1>1. SessionInv' /\ ViewsInv'
  BY NextSessionInv, NextViewsInv DEF FreshInv
<1>2. CallsFit'
  BY <1>1, NextCallsFit DEF FreshInv
<1>3. ASSUME happened' = {}
      PROVE  FreshShift'
  <2>1. happened = {}
    <3>1. happened \subseteq happened'
      BY HappenedStays
    <3> QED
      BY <1>3, <3>1
  <2>2. FreshShift
    BY <2>1 DEF FreshInv
  <2>3. CASE BackFromPrint \/ SwitchView \/ \E r \in PrintRoutes :
               PrintOpenPallet(r) \/ PrintOfEntry(r) \/ PrintPalletContentsLabel(r)
    BY <1>3, <2>2, <2>3, LeaveFresh
       DEF FreshInv, BackFromPrint, SwitchView, PrintOpenPallet, PrintOfEntry, PrintPalletContentsLabel
  <2>4. CASE \/ ClearDatabase \/ ServeWork \/ AfterWork \/ WorkFails
             \/ \E n \in Pallets : \/ RegisterColli(n) \/ ClosePallet(n, TRUE) \/ ClosePallet(n, FALSE)
                                   \/ ClosePalletFromList(n)
    BY <1>3, <2>2, <2>4, WorkFresh DEF ClearDatabase, RegisterColli, ClosePallet, ClosePalletFromList
  <2>5. CASE SubmitLogin \/ Logout \/ Posted \/ PostFails \/ Refreshed
    BY <1>3, <2>2, <2>5, AuthFresh
  <2>6. CASE \/ PageLoads \/ ContentsArrive \/ ContentsLost \/ AutoPrints \/ TimerCleared
             \/ \E n \in Pallets : ChoosePallet(n) \/ StaleContents(n)
             \/ \E on \in BOOLEAN : SwitchAutoPrint(on)
    BY <1>3, <2>2, <2>6, LoadsFresh
  <2>7. CASE UNCHANGED stationVars
    BY <2>2, <2>7, FreshFrame DEF stationVars, views, Screen, FreshShift, NotAnswered
  <2> QED
    BY <2>3, <2>4, <2>5, <2>6, <2>7 DEF ScreensNext
<1> QED
  BY <1>1, <1>2, <1>3 DEF FreshInv

LEMMA InitFreshInv == ScreensInit => FreshInv
BY InitSessionInv, InitViewsInv
   DEF ScreensInit, FreshInv, CallsFit, FreshShift, AuthCall, App, Screen, ScreenOf

\* Between requests of a calm shift the card of the sorting page shows what the
\* chosen pallet holds now.
THEOREM CardKeptUpToDate == ScreensSpec => []CardUpToDate
<1>1. FreshInv => CardUpToDate
  BY DEF FreshInv, FreshShift, NotAnswered, CardFresh, CardUpToDate
<1> QED
  BY <1>1, InitFreshInv, NextFreshInv, PTL DEF ScreensSpec
=============================================================================

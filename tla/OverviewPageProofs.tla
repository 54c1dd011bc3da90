------------------------- MODULE OverviewPageProofs -------------------------
(***************************************************************************)
(* The overview page, for any number of requests, products and pallets.    *)
(* Whatever disturbs it, it never waits for a load that is not under way   *)
(* (LoadInv).  And in a calm shift (CalmShift), however long it is and     *)
(* whatever earlier pages left under way, it shows the tables, suggests    *)
(* pallets that exist and takes back the entry the operator sees on top.   *)
(***************************************************************************)
EXTENDS OverviewPage, FiniteSums, SequenceTheorems

MyLoad(s) == call[s].kind = "load" /\ call[s].mine
Fields ==
  {"kind", "stage", "mine", "pallet", "variant", "qty", "count", "done", "print", "file",
   "created", "seen"}

LoadInv ==
  /\ mounted /\ loading => \E s \in Slots : MyLoad(s)
  /\ call = [s \in Slots |-> call[s]]
  /\ \A s \in Slots : call[s] # NoCall => Fields \subseteq DOMAIN call[s]

\* A step that changes one request and neither begins nor ends a load of this page.
LEMMA OneCall ==
  ASSUME LoadInv, NEW s \in Slots, NEW q, call' = [call EXCEPT ![s] = q],
         q = NoCall \/ Fields \subseteq DOMAIN q,
         mounted' /\ loading' => mounted /\ loading,
         mounted' /\ loading' /\ MyLoad(s) => q.kind = "load" /\ q.mine
  PROVE  LoadInv'
<1>1. \A t \in Slots : call'[t] = IF t = s THEN q ELSE call[t]
  BY DEF LoadInv
<1>2. call' = [t \in Slots |-> call'[t]]
  BY DEF LoadInv
<1>3. ASSUME mounted', loading'
      PROVE  \E t \in Slots : MyLoad(t)'
  <2>1. PICK t \in Slots : MyLoad(t)
    BY <1>3 DEF LoadInv
  <2>2. CASE t = s
    BY <1>1, <1>3, <2>1, <2>2 DEF MyLoad
  <2>3. CASE t # s
    BY <1>1, <2>1, <2>3 DEF MyLoad
  <2> QED
    BY <2>2, <2>3
<1> QED
  BY <1>1, <1>2, <1>3 DEF LoadInv

LEMMA NewCallFields ==
  ASSUME NEW kind, NEW stage
  PROVE  /\ Fields \subseteq DOMAIN NewCall(kind, stage)
         /\ NewCall(kind, stage).kind = kind /\ NewCall(kind, stage).mine = TRUE
BY DEF Fields, NewCall

LEMMA SendKeeps ==
  ASSUME LoadInv, NEW s \in Slots, NEW q, Send(s, q), Fields \subseteq DOMAIN q
  PROVE  LoadInv'
<1>1. call' = [call EXCEPT ![s] = q] /\ ~loading /\ UNCHANGED <<mounted, loading>>
  BY DEF Send, Ready, page
<1> QED
  BY <1>1, OneCall

\* The page goes: every request under way goes on without it.
LEMMA UnmountKeeps ==
  ASSUME LoadInv, NEW f, Unmount, call' = [t \in Slots |-> f[t]],
         \A t \in Slots : f[t] = NoCall \/ Fields \subseteq DOMAIN f[t]
  PROVE  LoadInv'
<1>1. \A t \in Slots : call'[t] = f[t]
  OBVIOUS
<1>2. ~mounted'
  BY DEF Unmount
<1> QED
  BY <1>1, <1>2 DEF LoadInv

LEMMA DisownedFields ==
  ASSUME LoadInv, NEW t \in Slots
  PROVE  Disowned(t) = NoCall \/ Fields \subseteq DOMAIN Disowned(t)
BY DEF LoadInv, Disowned

-----------------------------------------------------------------------------
(* The operator.                                                            *)

LEMMA OperatorKeeps ==
  ASSUME LoadInv, NEW s \in Slots,
         \/ Mount(s)
         \/ \E v \in Variants, q \in Quantities : SubmitRegisterColli(s, v, q)
         \/ \E code \in PalletNumbers \union {Blank, Unreadable}, k \in ScanCounts :
              SubmitConfirmMove(s, code, k)
         \/ \E n \in PalletNumbers, printContents \in BOOLEAN : ClosePallet(s, n, printContents)
         \/ UndoLastEntry(s) \/ ClearDatabase(s)
         \/ \E file \in Backups : RestoreDatabase(s, file)
  PROVE  LoadInv'
<1>1. CASE Mount(s)
  <2> DEFINE q == NewCall("load", "reloading")
  <2>1. Fields \subseteq DOMAIN q /\ q.kind = "load" /\ q.mine
    BY NewCallFields
  <2>2. call' = [call EXCEPT ![s] = q]
    BY <1>1 DEF Mount
  <2> HIDE DEF q
  <2>3. call'[s] = q /\ \A t \in Slots : call'[t] = IF t = s THEN q ELSE call[t]
    BY <2>2 DEF LoadInv
  <2>4. call' = [t \in Slots |-> call'[t]]
    BY <2>2 DEF LoadInv
  <2> QED
    BY <2>1, <2>3, <2>4 DEF LoadInv, MyLoad
<1>2. ASSUME NEW v \in Variants, NEW q \in Quantities, SubmitRegisterColli(s, v, q)
      PROVE  LoadInv'
  BY <1>2, NewCallFields, SendKeeps DEF SubmitRegisterColli
<1>3. ASSUME NEW code, NEW k, SubmitConfirmMove(s, code, k)
      PROVE  LoadInv'
  BY <1>3, NewCallFields, SendKeeps DEF SubmitConfirmMove
<1>4. ASSUME NEW n, NEW printContents, ClosePallet(s, n, printContents)
      PROVE  LoadInv'
  BY <1>4, NewCallFields, SendKeeps DEF ClosePallet
<1>5. CASE UndoLastEntry(s) \/ ClearDatabase(s)
  BY <1>5, NewCallFields, SendKeeps DEF UndoLastEntry, ClearDatabase
<1>6. ASSUME NEW file, RestoreDatabase(s, file)
      PROVE  LoadInv'
  BY <1>6, NewCallFields, SendKeeps DEF RestoreDatabase
<1> QED
  BY <1>1, <1>2, <1>3, <1>4, <1>5, <1>6

-----------------------------------------------------------------------------
(* The server.                                                              *)

SameRequest(s, q) == q.kind = call[s].kind /\ q.mine = call[s].mine /\ DOMAIN q = DOMAIN call[s]
Continued(s) == \E q : call' = [call EXCEPT ![s] = q] /\ SameRequest(s, q)

LEMMA AnswerContinues ==
  ASSUME LoadInv, NEW s \in Slots, call[s] # NoCall, NEW q, Answer(s, q), SameRequest(s, q)
  PROVE  Continued(s)
<1> DEFINE r == [q EXCEPT !.stage = "answered"]
<1>1. SameRequest(s, r)
  BY DEF SameRequest, LoadInv, Fields
<1>2. call' = [call EXCEPT ![s] = r]
  BY DEF Answer, LoadInv
<1> HIDE DEF r
<1> QED
  BY <1>1, <1>2 DEF Continued

\* What the server does to a request leaves its kind and its owner alone.
LEMMA ServeKeeps ==
  ASSUME LoadInv, NEW s \in Slots, Serve(s)
  PROVE  LoadInv'
<1>1. call[s] # NoCall /\ Fields \subseteq DOMAIN call[s]
  BY DEF Serve, ServeRegister, ServeConfirmOne, ServeConfirmEnd, ServeClose, ServeUndo, ServeClear,
         ServeRestore, ServeOpenPallets, ServeRecentEntries, AtStage, LoadInv
<1>2. UNCHANGED <<mounted, loading>>
  BY DEF Serve, ServeRegister, ServeConfirmOne, ServeConfirmEnd, ServeClose, ServeUndo, ServeClear,
         ServeRestore, ServeOpenPallets, ServeRecentEntries, Answer, page
<1>3. ASSUME ServeConfirmEnd(s) \/ ServeClose(s) \/ ServeUndo(s) \/ ServeClear(s) \/ ServeRestore(s)
      PROVE  Continued(s)
  <2>1. SameRequest(s, call[s])
    BY DEF SameRequest
  <2> QED
    BY <1>1, <1>3, <2>1, AnswerContinues
       DEF ServeConfirmEnd, ServeClose, ServeUndo, ServeClear, ServeRestore
<1>4. ASSUME ServeRegister(s)
      PROVE  Continued(s)
  <2>1. ASSUME NEW n PROVE /\ SameRequest(s, [call[s] EXCEPT !.pallet = n])
                           /\ SameRequest(s, [call[s] EXCEPT !.pallet = n, !.created = TRUE])
    BY <1>1 DEF SameRequest, Fields
  <2> QED
    BY <1>1, <1>4, <2>1, AnswerContinues DEF ServeRegister
<1>5. ASSUME ServeConfirmOne(s)
      PROVE  Continued(s)
  <2> DEFINE q == [call[s] EXCEPT !.done = @ + 1]
  <2>1. call' = [call EXCEPT ![s] = q]
    BY <1>5 DEF ServeConfirmOne, LoadInv
  <2>2. SameRequest(s, q)
    BY <1>1 DEF SameRequest, Fields
  <2> HIDE DEF q
  <2> QED
    BY <2>1, <2>2 DEF Continued
<1>6. ASSUME ServeOpenPallets(s)
      PROVE  Continued(s)
  <2> DEFINE q == [call[s] EXCEPT !.stage = "read pallets", !.seen.open = OpenPallets]
  <2>1. call' = [call EXCEPT ![s] = q]
    BY <1>6 DEF ServeOpenPallets, LoadInv
  <2>2. SameRequest(s, q)
    BY <1>1 DEF SameRequest, Fields
  <2> HIDE DEF q
  <2> QED
    BY <2>1, <2>2 DEF Continued
<1>7. ASSUME ServeRecentEntries(s)
      PROVE  Continued(s)
  <2> DEFINE q == [call[s] EXCEPT !.stage = "reloaded", !.seen.entries = NewestEntries]
  <2>1. call' = [call EXCEPT ![s] = q]
    BY <1>7 DEF ServeRecentEntries, LoadInv
  <2>2. SameRequest(s, q)
    BY <1>1 DEF SameRequest, Fields
  <2> HIDE DEF q
  <2> QED
    BY <2>1, <2>2 DEF Continued
<1>8. Continued(s) => LoadInv'
  <2> SUFFICES ASSUME NEW q, call' = [call EXCEPT ![s] = q], SameRequest(s, q)
               PROVE  LoadInv'
    BY DEF Continued
  <2> QED
    BY <1>1, <1>2, OneCall DEF SameRequest, MyLoad
<1> QED
  BY <1>3, <1>4, <1>5, <1>6, <1>7, <1>8 DEF Serve

-----------------------------------------------------------------------------
(* The handlers.                                                            *)

LEMMA ReloadFields ==
  ASSUME NEW s \in Slots
  PROVE  /\ Fields \subseteq DOMAIN Reload(s)
         /\ Fields \subseteq DOMAIN [Reload(s) EXCEPT !.mine = FALSE]
<1>1. Fields \subseteq DOMAIN NewCall("reload", "reloading")
  BY NewCallFields
<1> QED
  BY <1>1 DEF Reload

LEMMA HandleKeeps ==
  ASSUME LoadInv, NEW s \in Slots, Handle(s) \/ LoseResponse(s)
  PROVE  LoadInv'
<1>1. ASSUME ThenReload(s), UNCHANGED <<mounted, loading>>, call[s].kind # "load"
      PROVE  LoadInv'
  BY <1>1, ReloadFields, OneCall DEF ThenReload, MyLoad
<1>2. CASE AfterConfirm(s) \/ AfterClose(s) \/ AfterUndo(s) \/ AfterRestore(s) \/ AfterClear(s)
  <2>1. call[s].kind # "load" /\ UNCHANGED <<mounted, loading>> /\ (ThenReload(s) \/ Finish(s))
    BY <1>2 DEF AfterConfirm, AfterClose, AfterUndo, AfterRestore, AfterClear, JustReload, Answered, page
  <2>2. CASE Finish(s)
    BY <2>1, <2>2, OneCall DEF Finish, MyLoad
  <2> QED
    BY <1>1, <2>1, <2>2
<1>3. CASE AfterRegister(s)
  <2>1. CASE call[s].created
    <3> DEFINE f == [t \in Slots |-> IF t = s THEN [Reload(s) EXCEPT !.mine = FALSE] ELSE Disowned(t)]
    <3>1. Unmount /\ call' = f
      BY <1>3, <2>1 DEF AfterRegister
    <3>2. \A t \in Slots : f[t] = NoCall \/ Fields \subseteq DOMAIN f[t]
      BY ReloadFields, DisownedFields
    <3>3. call' = [t \in Slots |-> f[t]]
      BY <3>1
    <3> HIDE DEF f
    <3> QED
      BY <3>1, <3>2, <3>3, UnmountKeeps
  <2>2. CASE ~call[s].created
    <3>1. ThenReload(s) /\ UNCHANGED <<mounted, loading>> /\ call[s].kind # "load"
      BY <1>3, <2>2 DEF AfterRegister, Answered
    <3> QED
      BY <1>1, <3>1
  <2> QED
    BY <2>1, <2>2
<1>4. CASE AfterReload(s)
  <2>1. CASE call[s].print
    <3> DEFINE f == [t \in Slots |-> IF t = s THEN NoCall ELSE Disowned(t)]
    <3>1. Unmount /\ call' = f
      BY <1>4, <2>1 DEF AfterReload
    <3>2. \A t \in Slots : f[t] = NoCall \/ Fields \subseteq DOMAIN f[t]
      BY DisownedFields
    <3>3. call' = [t \in Slots |-> f[t]]
      BY <3>1
    <3> HIDE DEF f
    <3> QED
      BY <3>1, <3>2, <3>3, UnmountKeeps
  <2>2. CASE ~call[s].print
    <3>1. /\ Finish(s) /\ mounted' = mounted
          /\ loading' = (loading /\ ~(call[s].mine /\ call[s].kind = "load"))
      BY <1>4, <2>2 DEF AfterReload
    <3> QED
      BY <3>1, OneCall DEF Finish, MyLoad
  <2> QED
    BY <2>1, <2>2
<1>5. CASE LoseResponse(s)
  BY <1>5, OneCall DEF LoseResponse, Finish, MyLoad
<1> QED
  BY <1>2, <1>3, <1>4, <1>5 DEF Handle

-----------------------------------------------------------------------------
LEMMA InitLoadInv == PageInit => LoadInv
<1> SUFFICES ASSUME PageInit PROVE LoadInv
  OBVIOUS
<1>1. \A s \in Slots : call[s] = NoCall
  BY DEF PageInit
<1> QED
  BY <1>1 DEF PageInit, LoadInv

LEMMA NextLoadInv == LoadInv /\ [PageNext]_pageVars => LoadInv'
<1> SUFFICES ASSUME LoadInv, [PageNext]_pageVars PROVE LoadInv'
  OBVIOUS
<1>1. ASSUME UNCHANGED <<mounted, loading, call>>
      PROVE  LoadInv'
  BY <1>1 DEF LoadInv, MyLoad
<1>2. CASE Leave
  <2> DEFINE f == [t \in Slots |-> Disowned(t)]
  <2>1. Unmount /\ call' = f
    BY <1>2 DEF Leave
  <2>2. \A t \in Slots : f[t] = NoCall \/ Fields \subseteq DOMAIN f[t]
    BY DisownedFields
  <2>3. call' = [t \in Slots |-> f[t]]
    BY <2>1
  <2> HIDE DEF f
  <2> QED
    BY <2>1, <2>2, <2>3, UnmountKeeps
<1>3. CASE OpenClearDatabaseWarning \/ CancelClearDatabaseWarning \/ OtherStation \/ UNCHANGED pageVars
  BY <1>1, <1>3 DEF OpenClearDatabaseWarning, CancelClearDatabaseWarning, OtherStation, page, pageVars
<1> QED
  BY <1>2, <1>3, OperatorKeeps, ServeKeeps, HandleKeeps DEF PageNext

\* "Indlæser..." never stays without a load of this very page under way.
THEOREM LoadingEndsWithItsLoad == PageSpec => []LoadingHasALoad
<1>1. LoadInv => LoadingHasALoad
  <2>1. NoCall.kind # "load"
    BY DEF NoCall
  <2> QED
    BY <2>1 DEF LoadInv, LoadingHasALoad, MyLoad, Mine, Waiting
<1>2. PageSpec => []LoadInv
  BY InitLoadInv, NextLoadInv, PTL DEF PageSpec
<1> QED
  BY <1>1, <1>2, PTL
-----------------------------------------------------------------------------
(* The tables, and what the requests under way carry.                       *)

SoundCall(c) ==
  /\ c.kind = "register" => c.variant \in Variants /\ c.qty \in Quantities
  /\ c.kind = "register" => ~c.print
  /\ c.kind = "restore" => c.file \in Backups
  /\ c.done \in Nat

CallsSound == \A s \in Slots : call[s] # NoCall => SoundCall(call[s])

TableInv == book \in Seq(Bookings) /\ disturbances \in Nat /\ CallsSound

LEMMA DisturbancesCounted ==
  ASSUME disturbances \in Nat
  PROVE  /\ \A kind : Disturbing(kind) => disturbances' \in Nat \ {0}
         /\ Calm => disturbances' = disturbances
BY DEF Disturbing, Calm

LEMMA NoBookings == <<>> \in Seq(Bookings)
OBVIOUS

LEMMA BookTyped ==
  ASSUME book \in Seq(Bookings), NEW n \in PalletNumbers, NEW v \in Variants, NEW q \in Quantities,
         Book(n, v, q)
  PROVE  book' \in Seq(Bookings)
<1> DEFINE b == [pallet |-> n, variant |-> v, qty |-> q, confirmed |-> 0]
<1>1. b \in Bookings
  BY OverviewAssumption DEF Bookings
<1>2. book' = Append(book, b)
  BY DEF Book
<1> HIDE DEF b
<1> QED
  BY <1>1, <1>2

LEMMA RegisteredTyped ==
  ASSUME book \in Seq(Bookings), NEW n \in PalletNumbers, NEW v \in Variants, NEW q \in Quantities,
         RegisterWithVariant(n, v, q) \/ RegisterWithRoom(n, v, q) \/ RegisterNewPallet(n, v, q)
  PROVE  book' \in Seq(Bookings) /\ n \in Pallets' /\ Pallets \subseteq Pallets'
<1>1. Book(n, v, q)
  BY DEF RegisterWithVariant, RegisterWithRoom, RegisterNewPallet
<1>2. book' \in Seq(Bookings)
  BY <1>1, BookTyped
<1> DEFINE b == [pallet |-> n, variant |-> v, qty |-> q, confirmed |-> 0]
<1>3. book' = Append(book, b) /\ b.pallet = n
  BY <1>1 DEF Book
<1> HIDE DEF b
<1>4. PICK L \in Nat : L = Len(book)
  OBVIOUS
<1>5. Len(book') = L + 1 /\ book'[L + 1] = b
  BY <1>3, <1>4
<1>6. L + 1 \in 1..Len(book') /\ book'[L + 1].pallet = n
  BY <1>3, <1>4, <1>5
<1>7. \A j \in 1..L : book'[j] = book[j] /\ j \in 1..Len(book')
  BY <1>3, <1>4, <1>5
<1>8. Pallets \subseteq Pallets'
  BY <1>4, <1>7 DEF Pallets
<1> QED
  BY <1>2, <1>6, <1>8 DEF Pallets

\* Confirming leaves every booking on its pallet.
LEMMA ConfirmedTyped ==
  ASSUME book \in Seq(Bookings), NEW n, Confirm(n)
  PROVE  book' \in Seq(Bookings) /\ Pallets' = Pallets
<1>1. PICK i \in 1..Len(book) : /\ book[i].confirmed < book[i].qty
                                /\ book' = [book EXCEPT ![i].confirmed = @ + 1]
  BY DEF Confirm
<1>2. \A j \in 1..Len(book) : book[j] \in Bookings
  OBVIOUS
<1> DEFINE b == [book[i] EXCEPT !.confirmed = @ + 1]
<1>3. b \in Bookings /\ b.pallet = book[i].pallet
  <2>1. book[i] \in [pallet : PalletNumbers, variant : Variants, qty : Nat \ {0}, confirmed : Nat]
    BY <1>2 DEF Bookings
  <2>2. b = [pallet |-> book[i].pallet, variant |-> book[i].variant, qty |-> book[i].qty,
             confirmed |-> book[i].confirmed + 1]
    BY <2>1
  <2>3. book[i].qty \in Nat /\ book[i].confirmed + 1 \in Nat /\ book[i].confirmed + 1 <= book[i].qty
    BY <1>1, <2>1
  <2>4. b \in [pallet : PalletNumbers, variant : Variants, qty : Nat \ {0}, confirmed : Nat]
    BY <2>1, <2>2, <2>3
  <2>5. b.confirmed <= b.qty
    BY <2>2, <2>3
  <2> HIDE DEF b
  <2> QED
    BY <2>2, <2>4, <2>5 DEF Bookings
<1>4. book' = [book EXCEPT ![i] = b]
  BY <1>1
<1> HIDE DEF b
<1>5. book' \in Seq(Bookings) /\ Len(book') = Len(book)
  BY <1>3, <1>4
<1>6. \A j \in 1..Len(book) : book'[j].pallet = book[j].pallet
  BY <1>3, <1>4
<1> QED
  BY <1>5, <1>6 DEF Pallets

LEMMA UndoneTyped ==
  ASSUME book \in Seq(Bookings), Undo
  PROVE  book' \in Seq(Bookings)
<1>1. PICK L \in Nat : L = Len(book)
  OBVIOUS
<1>2. L # 0
  BY <1>1 DEF Undo
<1>3. \A j \in 1..(L - 1) : book[j] \in Bookings
  BY <1>1
<1>4. book' = SubSeq(book, 1, L - 1)
  BY <1>1 DEF Undo
<1> QED
  BY <1>1, <1>2, <1>3, <1>4

LEMMA OneCallSound ==
  ASSUME LoadInv, CallsSound, NEW s \in Slots, NEW q, call' = [call EXCEPT ![s] = q],
         q = NoCall \/ SoundCall(q)
  PROVE  CallsSound'
<1>1. \A t \in Slots : call'[t] = IF t = s THEN q ELSE call[t]
  BY DEF LoadInv
<1> QED
  BY <1>1 DEF CallsSound, SoundCall

LEMMA NewCallSound ==
  ASSUME NEW kind, NEW stage, kind \notin {"register", "restore"}
  PROVE  SoundCall(NewCall(kind, stage))
BY DEF SoundCall, NewCall

LEMMA ReloadSound ==
  ASSUME NEW s \in Slots
  PROVE  SoundCall(Reload(s)) /\ SoundCall([Reload(s) EXCEPT !.mine = FALSE])
BY DEF Reload, SoundCall, NewCall

LEMMA DisownedSound ==
  ASSUME LoadInv, CallsSound, NEW t \in Slots
  PROVE  Disowned(t) = NoCall \/ SoundCall(Disowned(t))
BY DEF LoadInv, Fields, CallsSound, SoundCall, Disowned

LEMMA UnmountSound ==
  ASSUME NEW f, call' = [t \in Slots |-> f[t]], \A t \in Slots : f[t] = NoCall \/ SoundCall(f[t])
  PROVE  CallsSound'
BY DEF CallsSound, SoundCall

LEMMA OperatorSound ==
  ASSUME LoadInv, TableInv, NEW s \in Slots,
         \/ Mount(s)
         \/ \E v \in Variants, q \in Quantities : SubmitRegisterColli(s, v, q)
         \/ \E code \in PalletNumbers \union {Blank, Unreadable}, k \in ScanCounts :
              SubmitConfirmMove(s, code, k)
         \/ \E n \in PalletNumbers, printContents \in BOOLEAN : ClosePallet(s, n, printContents)
         \/ UndoLastEntry(s) \/ ClearDatabase(s)
         \/ \E file \in Backups : RestoreDatabase(s, file)
  PROVE  /\ \E q : call' = [call EXCEPT ![s] = q] /\ SoundCall(q)
         /\ UNCHANGED server /\ disturbances' \in Nat
<1>1. ASSUME NEW q, Send(s, q)
      PROVE  call' = [call EXCEPT ![s] = q] /\ UNCHANGED server /\ disturbances' \in Nat
  BY <1>1, DisturbancesCounted DEF Send, TableInv
<1>2. CASE Mount(s)
  BY <1>2, NewCallSound DEF Mount, TableInv
<1>3. ASSUME NEW v \in Variants, NEW q \in Quantities, SubmitRegisterColli(s, v, q)
      PROVE  \E r : SoundCall(r) /\ Send(s, r)
  BY <1>3 DEF SubmitRegisterColli, SoundCall, NewCall
<1>4. ASSUME NEW code, NEW k, SubmitConfirmMove(s, code, k)
      PROVE  \E r : SoundCall(r) /\ Send(s, r)
  BY <1>4 DEF SubmitConfirmMove, SoundCall, NewCall
<1>5. ASSUME NEW n, NEW printContents, ClosePallet(s, n, printContents)
      PROVE  \E r : SoundCall(r) /\ Send(s, r)
  BY <1>5 DEF ClosePallet, SoundCall, NewCall
<1>6. CASE UndoLastEntry(s) \/ ClearDatabase(s)
  BY <1>1, <1>6, NewCallSound DEF UndoLastEntry, ClearDatabase
<1>7. ASSUME NEW file \in Backups, RestoreDatabase(s, file)
      PROVE  \E r : SoundCall(r) /\ Send(s, r)
  BY <1>7 DEF RestoreDatabase, SoundCall, NewCall
<1> QED
  BY <1>1, <1>2, <1>3, <1>4, <1>5, <1>6, <1>7

LEMMA ServeSound ==
  ASSUME LoadInv, TableInv, NEW s \in Slots, Serve(s)
  PROVE  TableInv'
<1>1. /\ call[s] # NoCall /\ Fields \subseteq DOMAIN call[s] /\ SoundCall(call[s])
      /\ book \in Seq(Bookings) /\ disturbances' \in Nat
  BY DEF Serve, ServeRegister, ServeConfirmOne, ServeConfirmEnd, ServeClose, ServeUndo, ServeClear,
         ServeRestore, ServeOpenPallets, ServeRecentEntries, AtStage, LoadInv, TableInv, CallsSound, Answer
<1>2. ASSUME NEW q, SoundCall(q), Fields \subseteq DOMAIN q, Answer(s, q)
      PROVE  CallsSound'
  <2> DEFINE r == [q EXCEPT !.stage = "answered"]
  <2>1. SoundCall(r)
    BY <1>2 DEF SoundCall, Fields
  <2>2. call' = [call EXCEPT ![s] = r]
    BY <1>2 DEF Answer, LoadInv
  <2> HIDE DEF r
  <2> QED
    BY <2>1, <2>2, OneCallSound DEF TableInv
<1>3. CASE ServeRegister(s)
  <2>1. PICK n \in PalletNumbers :
          \/ /\ RegisterWithVariant(n, call[s].variant, call[s].qty)
                  \/ RegisterWithRoom(n, call[s].variant, call[s].qty)
             /\ Answer(s, [call[s] EXCEPT !.pallet = n])
          \/ /\ RegisterNewPallet(n, call[s].variant, call[s].qty)
             /\ Answer(s, [call[s] EXCEPT !.pallet = n, !.created = TRUE])
    BY <1>3 DEF ServeRegister
  <2>2. call[s].variant \in Variants /\ call[s].qty \in Quantities
    BY <1>1, <1>3 DEF ServeRegister, SoundCall
  <2>3. book' \in Seq(Bookings)
    BY <1>1, <2>1, <2>2, RegisteredTyped
  <2>4. /\ SoundCall([call[s] EXCEPT !.pallet = n])
        /\ SoundCall([call[s] EXCEPT !.pallet = n, !.created = TRUE])
        /\ Fields \subseteq DOMAIN [call[s] EXCEPT !.pallet = n]
        /\ Fields \subseteq DOMAIN [call[s] EXCEPT !.pallet = n, !.created = TRUE]
    BY <1>1 DEF SoundCall, Fields
  <2> QED
    BY <1>1, <1>2, <2>1, <2>3, <2>4 DEF TableInv
<1>4. CASE ServeConfirmOne(s)
  <2> DEFINE q == [call[s] EXCEPT !.done = @ + 1]
  <2>1. call' = [call EXCEPT ![s] = q]
    BY <1>4 DEF ServeConfirmOne, LoadInv
  <2>2. SoundCall(q)
    BY <1>1 DEF SoundCall, Fields
  <2> HIDE DEF q
  <2>3. CallsSound'
    BY <2>1, <2>2, OneCallSound DEF TableInv
  <2>4. book' \in Seq(Bookings)
    BY <1>1, <1>4, ConfirmedTyped DEF ServeConfirmOne
  <2> QED
    BY <1>1, <2>3, <2>4 DEF TableInv
<1>5. CASE ServeConfirmEnd(s) \/ ServeClose(s) \/ ServeUndo(s) \/ ServeClear(s) \/ ServeRestore(s)
  <2>1. CallsSound'
    BY <1>1, <1>2, <1>5 DEF ServeConfirmEnd, ServeClose, ServeUndo, ServeClear, ServeRestore
  <2>2. CASE ServeConfirmEnd(s) \/ ServeClose(s) \/ ServeClear(s)
    <3>1. book' \in {book, <<>>}
      BY <2>2 DEF ServeConfirmEnd, ServeClose, ServeClear, Close, Clear, server
    <3>2. book' \in Seq(Bookings)
      BY <1>1, <3>1, NoBookings
    <3> QED
      BY <1>1, <2>1, <3>2 DEF TableInv
  <2>3. CASE ServeUndo(s)
    BY <1>1, <2>1, <2>3, UndoneTyped DEF ServeUndo, server, TableInv
  <2>4. CASE ServeRestore(s)
    BY <1>1, <2>1, <2>4, OverviewAssumption DEF ServeRestore, SoundCall, TableInv
  <2> QED
    BY <1>5, <2>2, <2>3, <2>4
<1>6. CASE ServeOpenPallets(s) \/ ServeRecentEntries(s)
  <2> DEFINE q == [call[s] EXCEPT !.stage = "read pallets", !.seen.open = OpenPallets]
             r == [call[s] EXCEPT !.stage = "reloaded", !.seen.entries = NewestEntries]
  <2>1. call' = [call EXCEPT ![s] = q] \/ call' = [call EXCEPT ![s] = r]
    BY <1>6 DEF ServeOpenPallets, ServeRecentEntries, LoadInv
  <2>2. SoundCall(q) /\ SoundCall(r)
    BY <1>1 DEF SoundCall, Fields
  <2> HIDE DEF q, r
  <2> QED
    BY <1>1, <1>6, <2>1, <2>2, OneCallSound DEF TableInv, ServeOpenPallets, ServeRecentEntries, server
<1> QED
  BY <1>3, <1>4, <1>5, <1>6 DEF Serve

LEMMA HandleSound ==
  ASSUME LoadInv, TableInv, NEW s \in Slots, Handle(s) \/ LoseResponse(s)
  PROVE  TableInv'
<1>1. UNCHANGED server /\ disturbances' \in Nat
  BY DisturbancesCounted
     DEF Handle, AfterRegister, AfterConfirm, AfterClose, AfterUndo, AfterRestore, AfterClear, AfterReload,
         JustReload, LoseResponse, TableInv
<1>2. ASSUME ThenReload(s) \/ Finish(s)
      PROVE  CallsSound'
  BY <1>2, ReloadSound, OneCallSound DEF ThenReload, Finish, TableInv
<1>3. ASSUME NEW f, call' = [t \in Slots |-> f[t]],
             \A t \in Slots : f[t] \in {NoCall, [Reload(s) EXCEPT !.mine = FALSE], Disowned(t)}
      PROVE  CallsSound'
  <2>1. \A t \in Slots : f[t] = NoCall \/ SoundCall(f[t])
    BY <1>3, ReloadSound, DisownedSound DEF TableInv
  <2> QED
    BY <1>3, <2>1, UnmountSound
<1>4. CASE AfterRegister(s) /\ call[s].created
  <2> DEFINE f == [t \in Slots |-> IF t = s THEN [Reload(s) EXCEPT !.mine = FALSE] ELSE Disowned(t)]
  <2>1. call' = f
    BY <1>4 DEF AfterRegister
  <2>2. \A t \in Slots : f[t] \in {NoCall, [Reload(s) EXCEPT !.mine = FALSE], Disowned(t)}
    OBVIOUS
  <2>3. call' = [t \in Slots |-> f[t]]
    BY <2>1
  <2> HIDE DEF f
  <2>4. CallsSound'
    BY <1>3, <2>2, <2>3
  <2> QED
    BY <1>1, <2>4 DEF TableInv, server
<1>5. CASE AfterReload(s) /\ call[s].print
  <2> DEFINE f == [t \in Slots |-> IF t = s THEN NoCall ELSE Disowned(t)]
  <2>1. call' = f
    BY <1>5 DEF AfterReload
  <2>2. \A t \in Slots : f[t] \in {NoCall, [Reload(s) EXCEPT !.mine = FALSE], Disowned(t)}
    OBVIOUS
  <2>3. call' = [t \in Slots |-> f[t]]
    BY <2>1
  <2> HIDE DEF f
  <2>4. CallsSound'
    BY <1>3, <2>2, <2>3
  <2> QED
    BY <1>1, <2>4 DEF TableInv, server
<1>6. CASE ThenReload(s) \/ Finish(s)
  BY <1>1, <1>2, <1>6 DEF TableInv, server
<1> QED
  BY <1>4, <1>5, <1>6 DEF Handle, AfterRegister, AfterConfirm, AfterClose, AfterUndo, AfterRestore,
       AfterClear, AfterReload, JustReload, LoseResponse

LEMMA NextTableInv ==
  ASSUME LoadInv, TableInv, [PageNext]_pageVars
  PROVE  TableInv'
<1>1. CASE Leave
  <2> DEFINE f == [t \in Slots |-> Disowned(t)]
  <2>1. call' = f
    BY <1>1 DEF Leave
  <2>2. \A t \in Slots : f[t] = NoCall \/ SoundCall(f[t])
    BY DisownedSound DEF TableInv
  <2>3. call' = [t \in Slots |-> f[t]]
    BY <2>1
  <2> HIDE DEF f
  <2>4. CallsSound'
    BY <2>2, <2>3, UnmountSound
  <2>5. disturbances' \in Nat
    BY <1>1, DisturbancesCounted DEF Leave, TableInv
  <2> QED
    BY <1>1, <2>4, <2>5 DEF Leave, TableInv, server
<1>2. CASE OpenClearDatabaseWarning \/ CancelClearDatabaseWarning \/ UNCHANGED pageVars
  BY <1>2 DEF OpenClearDatabaseWarning, CancelClearDatabaseWarning, pageVars, server, TableInv,
              CallsSound, SoundCall
<1>3. CASE OtherStation
  <2>1. disturbances' \in Nat /\ CallsSound'
    BY <1>3, DisturbancesCounted DEF OtherStation, TableInv, CallsSound, SoundCall
  <2>2. CASE \E n \in PalletNumbers, v \in Variants, q \in Quantities :
               RegisterWithVariant(n, v, q) \/ RegisterWithRoom(n, v, q) \/ RegisterNewPallet(n, v, q)
    BY <2>1, <2>2, RegisteredTyped DEF TableInv
  <2>3. CASE \E n \in Pallets : Close(n) \/ Confirm(n)
    BY <2>1, <2>3, ConfirmedTyped DEF TableInv, Close
  <2>4. CASE Undo \/ Clear
    BY <2>1, <2>4, UndoneTyped, NoBookings DEF TableInv, Clear
  <2> QED
    BY <1>3, <2>2, <2>3, <2>4 DEF OtherStation
<1>4. ASSUME NEW s \in Slots, NEW q, call' = [call EXCEPT ![s] = q], SoundCall(q), UNCHANGED server,
             disturbances' \in Nat
      PROVE  TableInv'
  BY <1>4, OneCallSound DEF TableInv, server
<1> QED
  BY <1>1, <1>2, <1>3, <1>4, OperatorSound, ServeSound, HandleSound DEF PageNext

-----------------------------------------------------------------------------
(* A calm shift.  The page waits for one request of its own at most, and    *)
(* only that one changes the tables; until it does, the board shows them,   *)
(* and what it reads afterwards stays true until the page takes it.         *)

Reading == {"reloading", "read pallets", "reloaded"}
Requests == {"register", "confirm", "close", "undo", "clear", "restore"}

\* A request that has changed nothing on the server.
Unwritten(c) ==
  /\ c.kind = "confirm" => c.done = 0
  /\ c.stage = "sent" \/ (c.stage = "answered" /\ c.kind = "confirm")

\* The request this page waits for.
OwnCall(c) ==
  /\ c.stage \in Reading => c.kind \in {"load", "reload"}
  /\ c.stage \notin Reading => c.stage \in {"sent", "answered"} /\ c.kind \in Requests
  /\ c.stage = "reloading" => c.seen = EmptyDashboard
  /\ c.stage = "read pallets" => c.seen = [open |-> OpenPallets, entries |-> <<>>]
  /\ c.stage = "reloaded" => c.seen = Dashboard
  /\ IF c.kind = "load" THEN ~c.print ELSE ~loading
  /\ Unwritten(c) => board = Dashboard
  /\ c.kind = "register" /\ c.stage = "answered" => c.pallet \in Pallets

\* What is left of earlier pages only reads.
EarlierCall(c) == c.kind \in {"load", "reload"} /\ c.stage \in Reading /\ ~c.print

Cleared(c) == c.kind = "clear" /\ c.stage = "answered"

CalmShift ==
  /\ \A s, t \in Mine : s = t
  /\ \A s \in Slots : call[s] # NoCall =>
       IF call[s].mine THEN mounted /\ OwnCall(call[s]) ELSE EarlierCall(call[s])
  /\ Ready /\ Mine = {} => board = Dashboard
  /\ suggested # NoPallet /\ ~takenBack => suggested \in Pallets \/ \E s \in Mine : Cleared(call[s])

CalmInv == LoadInv /\ TableInv /\ (disturbances = 0 => CalmShift)

LEMMA SameTables ==
  ASSUME UNCHANGED server
  PROVE  Pallets' = Pallets /\ OpenPallets' = OpenPallets /\ Dashboard' = Dashboard
BY DEF server, Pallets, OpenPallets, NewestEntries, Dashboard

LEMMA Lone ==
  ASSUME CalmShift, NEW s \in Slots, call[s] # NoCall, call[s].mine, NEW t \in Slots, t # s
  PROVE  call[t] = NoCall \/ (~call[t].mine /\ EarlierCall(call[t]))
BY DEF CalmShift, Mine, Waiting

\* The page's own request begins or goes on.
LEMMA OwnGoesOn ==
  ASSUME LoadInv, CalmShift, NEW s \in Slots, Mine \subseteq {s},
         NEW q, call' = [call EXCEPT ![s] = q], q # NoCall, q.mine, mounted', OwnCall(q)',
         suggested' # NoPallet /\ ~takenBack' => suggested' \in Pallets' \/ Cleared(q)
  PROVE  CalmShift'
<1>1. \A t \in Slots : call'[t] = IF t = s THEN q ELSE call[t]
  BY DEF LoadInv
<1>2. Mine' = {s}
  BY <1>1 DEF Mine, Waiting
<1>3. ASSUME NEW t \in Slots, call'[t] # NoCall
      PROVE  IF call'[t].mine THEN mounted' /\ OwnCall(call[t])' ELSE EarlierCall(call[t])'
  <2>1. CASE t = s
    <3>1. OwnCall(call[s])' <=> OwnCall(q)'
      BY <1>1
    <3> QED
      BY <1>1, <2>1, <3>1
  <2>2. CASE t # s
    <3>1. call'[t] = call[t]
      BY <1>1, <2>2
    <3>2. ~call[t].mine /\ EarlierCall(call[t])
      BY <1>3, <2>2, <3>1 DEF Mine, Waiting, CalmShift
    <3> QED
      BY <3>1, <3>2 DEF EarlierCall
  <2> QED
    BY <2>1, <2>2
<1>4. Cleared(call[s])' <=> Cleared(q)
  BY <1>1 DEF Cleared
<1> QED
  BY <1>2, <1>3, <1>4 DEF CalmShift

\* The page's own request ends.
LEMMA OwnEnds ==
  ASSUME LoadInv, CalmShift, NEW s \in Slots, call[s] # NoCall, call[s].mine,
         call' = [call EXCEPT ![s] = NoCall], board' = Dashboard',
         suggested' # NoPallet /\ ~takenBack' => suggested' \in Pallets'
  PROVE  CalmShift'
<1>1. \A t \in Slots : call'[t] = IF t = s THEN NoCall ELSE call[t]
  BY DEF LoadInv
<1>2. \A t \in Slots : call'[t] = NoCall \/ (~call'[t].mine /\ EarlierCall(call[t])')
  BY <1>1, Lone DEF EarlierCall
<1>3. Mine' = {}
  BY <1>2 DEF Mine, Waiting
<1> QED
  BY <1>2, <1>3 DEF CalmShift

\* A request of an earlier page goes on or ends.
LEMMA EarlierGoesOn ==
  ASSUME LoadInv, CalmShift, NEW s \in Slots, call[s] # NoCall, ~call[s].mine,
         NEW q, call' = [call EXCEPT ![s] = q], q = NoCall \/ (~q.mine /\ EarlierCall(q)),
         UNCHANGED <<server, mounted, board, suggested, takenBack>>, loading' <=> loading
  PROVE  CalmShift'
<1>1. \A t \in Slots : call'[t] = IF t = s THEN q ELSE call[t]
  BY DEF LoadInv
<1>2. Mine' = Mine /\ \A t \in Mine : call'[t] = call[t]
  BY <1>1 DEF Mine, Waiting
<1>3. ASSUME NEW t \in Slots, call'[t] # NoCall
      PROVE  IF call'[t].mine THEN mounted' /\ OwnCall(call[t])' ELSE EarlierCall(call[t])'
  <2>1. CASE t = s
    BY <1>1, <1>3, <2>1 DEF EarlierCall
  <2>2. CASE t # s
    <3>1. call'[t] = call[t]
      BY <1>1, <2>2
    <3> QED
      BY <1>3, <3>1, SameTables DEF CalmShift, OwnCall, Unwritten, EarlierCall
  <2> QED
    BY <2>1, <2>2
<1>4. \A t \in Mine : Cleared(call[t])' <=> Cleared(call[t])
  BY <1>2 DEF Cleared
<1> QED
  BY <1>2, <1>3, <1>4, SameTables DEF CalmShift, Ready

\* The page goes, and what is under way goes on without it.
LEMMA PageGoes ==
  ASSUME Unmount, NEW f, call' = [t \in Slots |-> f[t]],
         \A t \in Slots : f[t] = NoCall \/ (~f[t].mine /\ EarlierCall(f[t]))
  PROVE  CalmShift'
<1>1. \A t \in Slots : call'[t] = NoCall \/ (~call'[t].mine /\ EarlierCall(call[t])')
  BY DEF EarlierCall
<1>2. Mine' = {}
  BY <1>1 DEF Mine, Waiting
<1> QED
  BY <1>1, <1>2 DEF CalmShift, Unmount, Ready

LEMMA DisownedReads ==
  ASSUME LoadInv, NEW t \in Slots, call[t] = NoCall \/ EarlierCall(call[t])
  PROVE  Disowned(t) = NoCall \/ (~Disowned(t).mine /\ EarlierCall(Disowned(t)))
BY DEF LoadInv, Fields, Disowned, EarlierCall

LEMMA SentInCalm ==
  ASSUME CalmInv, NEW s \in Slots, NEW q, Send(s, q), disturbances' = 0,
         q # NoCall, q.mine, q.kind \in Requests, q.stage = "sent"
  PROVE  CalmShift'
<1>1. disturbances = 0 /\ Mine = {} /\ CalmShift
  BY DisturbancesCounted DEF Send, CalmInv, TableInv
<1>2. Ready /\ call' = [call EXCEPT ![s] = q]
      /\ UNCHANGED <<server, mounted, loading, board, suggested, takenBack>>
  BY DEF Send, page
<1>3. board = Dashboard /\ mounted /\ ~loading
  BY <1>1, <1>2 DEF CalmShift, Ready
<1>4. OwnCall(q)'
  BY <1>2, <1>3, SameTables DEF OwnCall, Reading, Requests
<1>5. suggested' # NoPallet /\ ~takenBack' => suggested' \in Pallets'
  BY <1>1, <1>2, SameTables DEF CalmShift
<1> QED
  BY <1>1, <1>2, <1>3, <1>4, <1>5, OwnGoesOn DEF CalmInv

LEMMA OperatorCalm ==
  ASSUME CalmInv, NEW s \in Slots, disturbances' = 0,
         \/ Mount(s)
         \/ \E v \in Variants, q \in Quantities : SubmitRegisterColli(s, v, q)
         \/ \E code \in PalletNumbers \union {Blank, Unreadable}, k \in ScanCounts :
              SubmitConfirmMove(s, code, k)
         \/ \E n \in PalletNumbers, printContents \in BOOLEAN : ClosePallet(s, n, printContents)
         \/ UndoLastEntry(s) \/ ClearDatabase(s)
         \/ \E file \in Backups : RestoreDatabase(s, file)
  PROVE  CalmShift'
<1> DEFINE Sendable(q) == q # NoCall /\ q.mine /\ q.kind \in Requests /\ q.stage = "sent"
<1>1. ASSUME NEW q, Sendable(q), Send(s, q)
      PROVE  CalmShift'
  BY <1>1, SentInCalm
<1>2. CASE Mount(s)
  <2> DEFINE q == NewCall("load", "reloading")
  <2>1. CalmShift /\ Mine = {}
    BY <1>2 DEF Mount, CalmInv, CalmShift, Mine, Waiting
  <2>2. q # NoCall /\ q.mine /\ q.kind = "load" /\ q.stage = "reloading" /\ ~q.print
        /\ q.seen = EmptyDashboard
    BY DEF NewCall, NoCall
  <2>3. mounted' /\ call' = [call EXCEPT ![s] = q] /\ UNCHANGED <<server, suggested, takenBack>>
    BY <1>2 DEF Mount
  <2> HIDE DEF q
  <2>4. OwnCall(q)'
    BY <2>2 DEF OwnCall, Unwritten, Reading
  <2>5. suggested' # NoPallet /\ ~takenBack' => suggested' \in Pallets'
    BY <2>1, <2>3, SameTables DEF CalmShift
  <2> QED
    BY <2>1, <2>2, <2>3, <2>4, <2>5, OwnGoesOn DEF CalmInv
<1>3. ASSUME NEW v, NEW n, SubmitRegisterColli(s, v, n)
      PROVE  \E q : Sendable(q) /\ Send(s, q)
  BY <1>3 DEF SubmitRegisterColli, NewCall, NoCall, Requests
<1>4. ASSUME NEW code, NEW k, SubmitConfirmMove(s, code, k)
      PROVE  \E q : Sendable(q) /\ Send(s, q)
  BY <1>4 DEF SubmitConfirmMove, NewCall, NoCall, Requests
<1>5. ASSUME NEW n, NEW printContents, ClosePallet(s, n, printContents)
      PROVE  \E q : Sendable(q) /\ Send(s, q)
  BY <1>5 DEF ClosePallet, NewCall, NoCall, Requests
<1>6. CASE UndoLastEntry(s) \/ ClearDatabase(s)
  <2>1. Sendable(NewCall("undo", "sent")) /\ Sendable(NewCall("clear", "sent"))
    BY DEF NewCall, NoCall, Requests
  <2> HIDE DEF Sendable
  <2> QED
    BY <1>1, <1>6, <2>1 DEF UndoLastEntry, ClearDatabase
<1>7. ASSUME NEW file, RestoreDatabase(s, file)
      PROVE  \E q : Sendable(q) /\ Send(s, q)
  BY <1>7 DEF RestoreDatabase, NewCall, NoCall, Requests
<1> HIDE DEF Sendable
<1> QED
  BY <1>1, <1>2, <1>3, <1>4, <1>5, <1>6, <1>7

LEMMA LeaveCalm ==
  ASSUME CalmInv, Leave, disturbances' = 0
  PROVE  CalmShift'
<1>1. disturbances = 0 /\ CalmShift /\ \A s \in Mine : call[s].kind = "load"
  BY DisturbancesCounted DEF Leave, CalmInv, TableInv
<1>2. \A t \in Slots : call[t] = NoCall \/ EarlierCall(call[t])
  BY <1>1 DEF CalmShift, Mine, Waiting, OwnCall, EarlierCall, Requests
<1> DEFINE f == [t \in Slots |-> Disowned(t)]
<1>3. Unmount /\ call' = f
  BY DEF Leave
<1>4. \A t \in Slots : f[t] = NoCall \/ (~f[t].mine /\ EarlierCall(f[t]))
  BY <1>2, DisownedReads DEF CalmInv
<1>5. call' = [t \in Slots |-> f[t]]
  BY <1>3
<1> HIDE DEF f
<1> QED
  BY <1>3, <1>4, <1>5, PageGoes

-----------------------------------------------------------------------------
\* What earlier pages left under way is read for nobody.
LEMMA EarlierCalm ==
  ASSUME CalmInv, NEW s \in Slots, call[s] # NoCall, ~call[s].mine, Serve(s) \/ Handle(s),
         disturbances' = 0
  PROVE  CalmShift'
<1>1. CalmShift /\ Fields \subseteq DOMAIN call[s]
  BY DisturbancesCounted
     DEF CalmInv, LoadInv, Serve, ServeRegister, ServeConfirmOne, ServeConfirmEnd, ServeClose, ServeUndo,
         ServeClear, ServeRestore, ServeOpenPallets, ServeRecentEntries, Answer, Handle, AfterRegister,
         AfterConfirm, AfterClose, AfterUndo, AfterRestore, AfterClear, AfterReload, JustReload, Calm
<1>2. EarlierCall(call[s])
  BY <1>1 DEF CalmShift
<1>3. ServeOpenPallets(s) \/ ServeRecentEntries(s) \/ AfterReload(s)
  BY <1>2 DEF EarlierCall, Reading, Serve, ServeRegister, ServeConfirmOne, ServeConfirmEnd, ServeClose,
       ServeUndo, ServeClear, ServeRestore, AtStage, Handle, AfterRegister, AfterConfirm, AfterClose,
       AfterUndo, AfterRestore, AfterClear, Answered
<1>4. CASE ServeOpenPallets(s) \/ ServeRecentEntries(s)
  <2> DEFINE q == [call[s] EXCEPT !.stage = "read pallets", !.seen.open = OpenPallets]
             r == [call[s] EXCEPT !.stage = "reloaded", !.seen.entries = NewestEntries]
  <2>1. call' = [call EXCEPT ![s] = q] \/ call' = [call EXCEPT ![s] = r]
    BY <1>4 DEF ServeOpenPallets, ServeRecentEntries, CalmInv, LoadInv
  <2>2. ~q.mine /\ EarlierCall(q) /\ ~r.mine /\ EarlierCall(r)
    BY <1>1, <1>2 DEF Fields, EarlierCall, Reading
  <2>3. UNCHANGED <<server, mounted, loading, board, suggested, takenBack>>
    BY <1>4 DEF ServeOpenPallets, ServeRecentEntries, page
  <2> HIDE DEF q, r
  <2> QED
    BY <1>1, <2>1, <2>2, <2>3, EarlierGoesOn DEF CalmInv
<1>5. CASE AfterReload(s)
  <2>1. /\ call' = [call EXCEPT ![s] = NoCall]
        /\ UNCHANGED <<server, mounted, board, suggested, takenBack>>
    BY <1>2, <1>5 DEF AfterReload, EarlierCall, Finish
  <2>2. loading' <=> loading
    BY <1>2, <1>5 DEF AfterReload, EarlierCall
  <2> QED
    BY <1>1, <2>1, <2>2, EarlierGoesOn DEF CalmInv
<1> QED
  BY <1>3, <1>4, <1>5

\* The page's own request, as it was answered: a new stage, and what the answer says.
LEMMA AnsweredOwn ==
  ASSUME CalmInv, CalmShift, NEW s \in Slots, call[s] # NoCall, call[s].mine, NEW q, Answer(s, q),
         Fields \subseteq DOMAIN q, q # NoCall, q.mine, q.kind = call[s].kind, q.done = call[s].done,
         call[s].kind \in Requests,
         q.kind = "confirm" /\ q.done = 0 => board = Dashboard',
         q.kind = "register" => q.pallet \in Pallets',
         suggested # NoPallet /\ ~takenBack' => suggested \in Pallets' \/ q.kind = "clear"
  PROVE  CalmShift'
<1> DEFINE r == [q EXCEPT !.stage = "answered"]
<1>1. call' = [call EXCEPT ![s] = r] /\ UNCHANGED <<mounted, loading, board, suggested>>
  BY DEF Answer, CalmInv, LoadInv, page
<1>2. r.mine /\ r.kind = call[s].kind /\ r.done = q.done /\ r.stage = "answered" /\ r.pallet = q.pallet
      /\ r # NoCall
  <2>1. r.stage = "answered" /\ r.kind = q.kind /\ r.mine = q.mine /\ r.done = q.done /\ r.pallet = q.pallet
    BY DEF Fields
  <2>2. r.kind \in Requests
    BY <2>1
  <2> HIDE DEF r
  <2>3. r # NoCall
    BY <2>2 DEF NoCall, Requests
  <2> QED
    BY <2>1, <2>3
<1> HIDE DEF r
<1>3. mounted /\ ~loading /\ Mine \subseteq {s}
  BY DEF CalmShift, OwnCall, Requests, Mine, Waiting
<1>4. OwnCall(r)'
  BY <1>1, <1>2, <1>3 DEF OwnCall, Unwritten, Reading, Requests
<1>5. suggested' # NoPallet /\ ~takenBack' => suggested' \in Pallets' \/ Cleared(r)
  BY <1>1, <1>2 DEF Cleared
<1> QED
  BY <1>1, <1>2, <1>3, <1>4, <1>5, OwnGoesOn DEF CalmInv

LEMMA SeenSoFar ==
  ASSUME NEW o, NEW e, NEW x, NEW d, d = [open |-> o, entries |-> e]
  PROVE  /\ [d EXCEPT !.open = x] = [open |-> x, entries |-> e]
         /\ [d EXCEPT !.entries = x] = [open |-> o, entries |-> x]
OBVIOUS

LEMMA OwnServedCalm ==
  ASSUME CalmInv, NEW s \in Slots, call[s] # NoCall, call[s].mine, Serve(s), disturbances' = 0
  PROVE  CalmShift'
<1>1. /\ CalmShift /\ Fields \subseteq DOMAIN call[s] /\ OwnCall(call[s]) /\ mounted
      /\ call[s].done \in Nat /\ SoundCall(call[s]) /\ book \in Seq(Bookings) /\ Mine \subseteq {s}
  <2>1. disturbances = 0
    BY DEF Serve, ServeRegister, ServeConfirmOne, ServeConfirmEnd, ServeClose, ServeUndo, ServeClear,
           ServeRestore, ServeOpenPallets, ServeRecentEntries, Answer
  <2> QED
    BY <2>1 DEF CalmInv, LoadInv, TableInv, CallsSound, SoundCall, CalmShift, Mine, Waiting
<1>2. suggested # NoPallet /\ ~takenBack /\ ~Cleared(call[s]) => suggested \in Pallets
  BY <1>1 DEF CalmShift, Mine
<1>3. CASE ServeRegister(s)
  <2>1. PICK n \in PalletNumbers :
          /\ RegisterWithVariant(n, call[s].variant, call[s].qty)
               \/ RegisterWithRoom(n, call[s].variant, call[s].qty)
               \/ RegisterNewPallet(n, call[s].variant, call[s].qty)
          /\ \/ Answer(s, [call[s] EXCEPT !.pallet = n])
             \/ Answer(s, [call[s] EXCEPT !.pallet = n, !.created = TRUE])
    BY <1>3 DEF ServeRegister
  <2>2. call[s].kind = "register" /\ call[s].stage = "sent" /\ takenBack' = takenBack
    BY <1>3 DEF ServeRegister, AtStage
  <2>3. call[s].variant \in Variants /\ call[s].qty \in Quantities
    BY <1>1, <2>2 DEF SoundCall
  <2>4. n \in Pallets' /\ Pallets \subseteq Pallets'
    BY <1>1, <2>1, <2>3, RegisteredTyped
  <2>5. suggested # NoPallet /\ ~takenBack' => suggested \in Pallets'
    BY <1>2, <2>2, <2>4 DEF Cleared
  <2>6. ASSUME NEW q, Answer(s, q), Fields \subseteq DOMAIN q, q.mine, q.kind = "register",
               q.done = call[s].done, q.pallet = n
        PROVE  CalmShift'
    <3>1. q # NoCall /\ call[s].kind \in Requests
      BY <2>2, <2>6 DEF NoCall, Requests
    <3> QED
      BY <1>1, <2>2, <2>4, <2>5, <2>6, <3>1, AnsweredOwn
  <2> DEFINE q == [call[s] EXCEPT !.pallet = n]
             r == [call[s] EXCEPT !.pallet = n, !.created = TRUE]
  <2>7. Fields \subseteq DOMAIN q /\ q.mine /\ q.kind = "register" /\ q.done = call[s].done /\ q.pallet = n
    BY <1>1, <2>2 DEF Fields
  <2>8. Fields \subseteq DOMAIN r /\ r.mine /\ r.kind = "register" /\ r.done = call[s].done /\ r.pallet = n
    BY <1>1, <2>2 DEF Fields
  <2>9. Answer(s, q) \/ Answer(s, r)
    BY <2>1
  <2> HIDE DEF q, r
  <2> QED
    BY <2>6, <2>7, <2>8, <2>9
<1>4. CASE ServeConfirmOne(s)
  <2>0. PICK q : q = [call[s] EXCEPT !.done = @ + 1]
    OBVIOUS
  <2>1. call' = [call EXCEPT ![s] = q] /\ UNCHANGED <<mounted, loading, board, suggested, takenBack>>
    BY <1>4, <2>0 DEF ServeConfirmOne, CalmInv, LoadInv, page
  <2>2. call[s].kind = "confirm" /\ call[s].stage = "sent" /\ Pallets' = Pallets
    BY <1>1, <1>4, ConfirmedTyped DEF ServeConfirmOne, AtStage
  <2>3. q.mine /\ q.kind = "confirm" /\ q.stage = "sent" /\ q.done # 0
    BY <1>1, <2>0, <2>2 DEF Fields
  <2>4. q # NoCall
    BY <2>3 DEF NoCall
  <2>5. ~loading'
    BY <1>1, <2>1, <2>2 DEF OwnCall
  <2>6. OwnCall(q)'
    BY <2>3, <2>5 DEF OwnCall, Unwritten, Reading, Requests
  <2>7. suggested' # NoPallet /\ ~takenBack' => suggested' \in Pallets'
    BY <1>2, <2>1, <2>2 DEF Cleared
  <2>8. mounted'
    BY <1>1, <2>1
  <2> QED
    BY <1>1, <2>1, <2>3, <2>4, <2>6, <2>7, <2>8, OwnGoesOn DEF CalmInv
<1>5. CASE ServeConfirmEnd(s) \/ ServeClose(s) \/ ServeUndo(s) \/ ServeClear(s) \/ ServeRestore(s)
  <2>1. /\ Answer(s, call[s]) /\ call[s].kind \in Requests /\ call[s].kind # "register"
        /\ call[s].stage = "sent"
    BY <1>5 DEF ServeConfirmEnd, ServeClose, ServeUndo, ServeClear, ServeRestore, Requests, AtStage
  <2>2. call[s].kind = "confirm" /\ call[s].done = 0 => board = Dashboard'
    <3>1. ASSUME call[s].kind = "confirm" PROVE UNCHANGED server
      BY <1>5, <3>1 DEF ServeConfirmEnd, ServeClose, ServeUndo, ServeClear, ServeRestore
    <3> QED
      BY <1>1, <2>1, <3>1, SameTables DEF OwnCall, Unwritten
  <2>3. suggested # NoPallet /\ ~takenBack' => suggested \in Pallets' \/ call[s].kind = "clear"
    <3>1. CASE ServeConfirmEnd(s)
      BY <1>2, <2>1, <3>1, SameTables DEF ServeConfirmEnd, Cleared
    <3>2. CASE ServeClose(s)
      BY <1>2, <2>1, <3>2 DEF ServeClose, Close, Pallets, Cleared
    <3>3. CASE ServeUndo(s) \/ ServeClear(s) \/ ServeRestore(s)
      BY <3>3 DEF ServeUndo, ServeClear, ServeRestore
    <3> QED
      BY <1>5, <3>1, <3>2, <3>3
  <2> QED
    BY <1>1, <2>1, <2>2, <2>3, AnsweredOwn
<1>6. CASE ServeOpenPallets(s)
  <2>0. PICK q : q = [call[s] EXCEPT !.stage = "read pallets", !.seen.open = OpenPallets]
    OBVIOUS
  <2>1. call' = [call EXCEPT ![s] = q]
        /\ UNCHANGED <<server, mounted, loading, board, suggested, takenBack>>
    BY <1>6, <2>0 DEF ServeOpenPallets, CalmInv, LoadInv, page
  <2>2. call[s].stage = "reloading" /\ call[s].seen = EmptyDashboard /\ call[s].kind \in {"load", "reload"}
    BY <1>1, <1>6 DEF ServeOpenPallets, AtStage, OwnCall, Reading
  <2>3. /\ q.mine /\ q.kind = call[s].kind /\ q.stage = "read pallets" /\ q.print = call[s].print
        /\ q.seen = [call[s].seen EXCEPT !.open = OpenPallets]
    BY <1>1, <2>0, <2>2 DEF Fields
  <2>4. q.seen = [open |-> OpenPallets, entries |-> <<>>]
    <3> DEFINE d == call[s].seen
    <3>1. d = [open |-> {}, entries |-> <<>>] /\ q.seen = [d EXCEPT !.open = OpenPallets]
      BY <2>2, <2>3 DEF EmptyDashboard
    <3> HIDE DEF d
    <3> QED
      BY <3>1, SeenSoFar
  <2>5. q.kind \in {"load", "reload"} /\ (IF q.kind = "load" THEN ~q.print ELSE ~loading')
    BY <1>1, <2>1, <2>2, <2>3 DEF OwnCall
  <2>6. q # NoCall
    BY <2>5 DEF NoCall
  <2>7. OwnCall(q)'
    BY <2>1, <2>3, <2>4, <2>5, SameTables DEF OwnCall, Unwritten, Reading
  <2>8. suggested' # NoPallet /\ ~takenBack' => suggested' \in Pallets'
    BY <1>2, <2>1, <2>2, SameTables DEF Cleared
  <2>9. mounted'
    BY <1>1, <2>1
  <2> QED
    BY <1>1, <2>1, <2>3, <2>6, <2>7, <2>8, <2>9, OwnGoesOn DEF CalmInv
<1>7. CASE ServeRecentEntries(s)
  <2>0. PICK q : q = [call[s] EXCEPT !.stage = "reloaded", !.seen.entries = NewestEntries]
    OBVIOUS
  <2>1. call' = [call EXCEPT ![s] = q]
        /\ UNCHANGED <<server, mounted, loading, board, suggested, takenBack>>
    BY <1>7, <2>0 DEF ServeRecentEntries, CalmInv, LoadInv, page
  <2>2. /\ call[s].stage = "read pallets" /\ call[s].seen = [open |-> OpenPallets, entries |-> <<>>]
        /\ call[s].kind \in {"load", "reload"}
    BY <1>1, <1>7 DEF ServeRecentEntries, AtStage, OwnCall, Reading
  <2>3. /\ q.mine /\ q.kind = call[s].kind /\ q.stage = "reloaded" /\ q.print = call[s].print
        /\ q.seen = [call[s].seen EXCEPT !.entries = NewestEntries]
    BY <1>1, <2>0, <2>2 DEF Fields
  <2>4. q.seen = Dashboard
    <3>1. q.seen = [open |-> OpenPallets, entries |-> NewestEntries]
      <4> DEFINE d == call[s].seen
      <4>1. d = [open |-> OpenPallets, entries |-> <<>>] /\ q.seen = [d EXCEPT !.entries = NewestEntries]
        BY <2>2, <2>3
      <4> HIDE DEF d
      <4> QED
        BY <4>1, SeenSoFar
    <3> QED
      BY <3>1 DEF Dashboard
  <2>5. q.kind \in {"load", "reload"} /\ (IF q.kind = "load" THEN ~q.print ELSE ~loading')
    BY <1>1, <2>1, <2>2, <2>3 DEF OwnCall
  <2>6. q # NoCall
    BY <2>5 DEF NoCall
  <2>7. OwnCall(q)'
    BY <2>1, <2>3, <2>4, <2>5, SameTables DEF OwnCall, Unwritten, Reading
  <2>8. suggested' # NoPallet /\ ~takenBack' => suggested' \in Pallets'
    BY <1>2, <2>1, <2>2, SameTables DEF Cleared
  <2>9. mounted'
    BY <1>1, <2>1
  <2> QED
    BY <1>1, <2>1, <2>3, <2>6, <2>7, <2>8, <2>9, OwnGoesOn DEF CalmInv
<1> QED
  BY <1>3, <1>4, <1>5, <1>6, <1>7 DEF Serve

LEMMA OwnHandledCalm ==
  ASSUME CalmInv, NEW s \in Slots, call[s] # NoCall, call[s].mine, Handle(s), disturbances' = 0
  PROVE  CalmShift'
<1>1. CalmShift /\ OwnCall(call[s]) /\ mounted /\ Mine \subseteq {s} /\ UNCHANGED server
  <2>1. disturbances = 0 /\ UNCHANGED server
    BY DEF Handle, AfterRegister, AfterConfirm, AfterClose, AfterUndo, AfterRestore, AfterClear,
           AfterReload, JustReload, Calm
  <2> QED
    BY <2>1 DEF CalmInv, CalmShift, Mine, Waiting
<1>2. suggested # NoPallet /\ ~takenBack /\ ~Cleared(call[s]) => suggested \in Pallets
  BY <1>1 DEF CalmShift, Mine
<1>3. ASSUME ThenReload(s), call[s].kind \in Requests, UNCHANGED <<mounted, loading, board>>,
             suggested' # NoPallet /\ ~takenBack' => suggested' \in Pallets'
      PROVE  CalmShift'
  <2>0. PICK q : q = Reload(s)
    OBVIOUS
  <2>1. /\ q.mine = call[s].mine /\ q.kind = "reload" /\ q.stage = "reloading"
        /\ q.seen = EmptyDashboard
    BY <2>0 DEF Reload, NewCall
  <2>2. call' = [call EXCEPT ![s] = q]
    BY <1>3, <2>0 DEF ThenReload
  <2>3. q # NoCall /\ mounted'
    BY <1>1, <1>3, <2>1 DEF NoCall
  <2>4. ~loading
    BY <1>1, <1>3 DEF OwnCall, Requests
  <2>5. OwnCall(q)'
    BY <1>3, <2>1, <2>4 DEF OwnCall, Unwritten, Reading
  <2> QED
    BY <1>1, <1>3, <2>1, <2>2, <2>3, <2>5, OwnGoesOn DEF CalmInv
<1>4. CASE AfterRegister(s)
  <2>1. CASE call[s].created
    <3> DEFINE f == [t \in Slots |-> IF t = s THEN [Reload(s) EXCEPT !.mine = FALSE] ELSE Disowned(t)]
    <3>1. Unmount /\ call' = f
      BY <1>4, <2>1 DEF AfterRegister
    <3>2. EarlierCall([Reload(s) EXCEPT !.mine = FALSE]) /\ ~[Reload(s) EXCEPT !.mine = FALSE].mine
      <4>1. ~call[s].print
        BY <1>4 DEF AfterRegister, Answered, CalmInv, TableInv, CallsSound, SoundCall
      <4> QED
        BY <4>1 DEF Reload, NewCall, EarlierCall, Reading
    <3>3. \A t \in Slots : t # s => Disowned(t) = NoCall \/ (~Disowned(t).mine /\ EarlierCall(Disowned(t)))
      BY <1>1, Lone, DisownedReads DEF CalmInv
    <3>4. \A t \in Slots : f[t] = NoCall \/ (~f[t].mine /\ EarlierCall(f[t]))
      BY <3>2, <3>3
    <3>5. call' = [t \in Slots |-> f[t]]
      BY <3>1
    <3> HIDE DEF f
    <3> QED
      BY <3>1, <3>4, <3>5, PageGoes
  <2>2. CASE ~call[s].created
    <3>1. /\ ThenReload(s) /\ UNCHANGED <<mounted, loading, board>> /\ suggested' = call[s].pallet
          /\ call[s].kind = "register" /\ call[s].stage = "answered"
      BY <1>4, <2>2 DEF AfterRegister, Answered, AtStage
    <3>2. suggested' \in Pallets' /\ call[s].kind \in Requests
      BY <1>1, <3>1, SameTables DEF OwnCall, Requests
    <3> QED
      BY <1>3, <3>1, <3>2
  <2> QED
    BY <2>1, <2>2
<1>5. CASE AfterConfirm(s)
  <2>1. /\ call[s].kind = "confirm" /\ call[s].stage = "answered"
        /\ UNCHANGED <<mounted, loading, board, suggested, takenBack>>
        /\ IF call[s].done = 0 THEN Finish(s) ELSE ThenReload(s)
    BY <1>5 DEF AfterConfirm, Answered, AtStage, page
  <2>2. suggested' # NoPallet /\ ~takenBack' => suggested' \in Pallets'
    BY <1>1, <1>2, <2>1, SameTables DEF Cleared
  <2>3. CASE call[s].done = 0
    <3>1. board' = Dashboard'
      BY <1>1, <2>1, <2>3, SameTables DEF OwnCall, Unwritten
    <3> QED
      BY <1>1, <2>1, <2>2, <2>3, <3>1, OwnEnds DEF Finish, CalmInv
  <2>4. CASE call[s].done # 0
    BY <1>3, <2>1, <2>2, <2>4 DEF Requests
  <2> QED
    BY <2>3, <2>4
<1>6. CASE AfterClose(s) \/ AfterUndo(s) \/ AfterRestore(s)
  <2>1. /\ call[s].kind \in Requests \ {"clear"} /\ ThenReload(s)
        /\ UNCHANGED <<mounted, loading, board, suggested, takenBack>>
    BY <1>6 DEF AfterClose, AfterUndo, AfterRestore, JustReload, Answered, Requests, page
  <2>2. suggested' # NoPallet /\ ~takenBack' => suggested' \in Pallets'
    BY <1>1, <1>2, <2>1, SameTables DEF Cleared
  <2> QED
    BY <1>3, <2>1, <2>2
<1>7. CASE AfterClear(s)
  BY <1>3, <1>7 DEF AfterClear, Answered, Requests
<1>8. CASE AfterReload(s)
  <2>1. CASE call[s].print
    <3> DEFINE f == [t \in Slots |-> IF t = s THEN NoCall ELSE Disowned(t)]
    <3>1. Unmount /\ call' = f
      BY <1>8, <2>1 DEF AfterReload
    <3>2. \A t \in Slots : t # s => Disowned(t) = NoCall \/ (~Disowned(t).mine /\ EarlierCall(Disowned(t)))
      BY <1>1, Lone, DisownedReads DEF CalmInv
    <3>3. \A t \in Slots : f[t] = NoCall \/ (~f[t].mine /\ EarlierCall(f[t]))
      BY <3>2
    <3>4. call' = [t \in Slots |-> f[t]]
      BY <3>1
    <3> HIDE DEF f
    <3> QED
      BY <3>1, <3>3, <3>4, PageGoes
  <2>2. CASE ~call[s].print
    <3>1. /\ call[s].stage = "reloaded" /\ board' = call[s].seen /\ Finish(s)
          /\ UNCHANGED <<suggested, takenBack>>
      BY <1>8, <2>2 DEF AfterReload, AtStage
    <3>2. board' = Dashboard'
      BY <1>1, <3>1, SameTables DEF OwnCall
    <3>3. suggested' # NoPallet /\ ~takenBack' => suggested' \in Pallets'
      BY <1>1, <1>2, <3>1, SameTables DEF Cleared
    <3> QED
      BY <1>1, <3>1, <3>2, <3>3, OwnEnds DEF Finish, CalmInv
  <2> QED
    BY <2>1, <2>2
<1> QED
  BY <1>4, <1>5, <1>6, <1>7, <1>8 DEF Handle

-----------------------------------------------------------------------------
LEMMA NextCalmInv == CalmInv /\ [PageNext]_pageVars => CalmInv'
<1> SUFFICES ASSUME CalmInv, [PageNext]_pageVars PROVE CalmInv'
  OBVIOUS
<1>1. LoadInv' /\ TableInv'
  BY NextLoadInv, NextTableInv DEF CalmInv
<1>2. ASSUME disturbances' = 0
      PROVE  CalmShift'
  <2>1. \A s \in Slots : ~LoseResponse(s)
    BY <1>2, DisturbancesCounted DEF LoseResponse, CalmInv, TableInv
  <2>2. ~OtherStation
    BY <1>2, DisturbancesCounted DEF OtherStation, CalmInv, TableInv
  <2>3. CASE OpenClearDatabaseWarning \/ CancelClearDatabaseWarning \/ UNCHANGED pageVars
    <3>1. UNCHANGED <<server, mounted, loading, board, suggested, call, takenBack, disturbances>>
      BY <2>3 DEF OpenClearDatabaseWarning, CancelClearDatabaseWarning, pageVars, page
    <3>2. CalmShift /\ Mine' = Mine
      BY <1>2, <3>1 DEF CalmInv, Mine, Waiting
    <3>3. \A s \in Slots : /\ OwnCall(call[s])' <=> OwnCall(call[s])
                           /\ EarlierCall(call[s])' <=> EarlierCall(call[s])
                           /\ Cleared(call[s])' <=> Cleared(call[s])
      BY <3>1, SameTables DEF OwnCall, Unwritten, EarlierCall, Cleared
    <3> QED
      BY <3>1, <3>2, <3>3, SameTables DEF CalmShift, Ready, Mine, Waiting
  <2>4. ASSUME NEW s \in Slots, Serve(s) \/ Handle(s)
        PROVE  CalmShift'
    <3>1. call[s] # NoCall
      BY <2>4 DEF Serve, ServeRegister, ServeConfirmOne, ServeConfirmEnd, ServeClose, ServeUndo,
                  ServeClear, ServeRestore, ServeOpenPallets, ServeRecentEntries, Handle, AfterRegister,
                  AfterConfirm, AfterClose, AfterUndo, AfterRestore, AfterClear, AfterReload, Answered, AtStage
    <3> QED
      BY <1>2, <2>4, <3>1, EarlierCalm, OwnServedCalm, OwnHandledCalm
  <2> QED
    BY <1>2, <2>1, <2>2, <2>3, <2>4, OperatorCalm, LeaveCalm DEF PageNext
<1> QED
  BY <1>1, <1>2 DEF CalmInv

LEMMA InitCalmInv == PageInit => CalmInv
<1> SUFFICES ASSUME PageInit PROVE CalmInv
  OBVIOUS
<1>1. \A s \in Slots : call[s] = NoCall
  BY DEF PageInit
<1>2. Mine = {} /\ TableInv
  BY <1>1, NoBookings DEF PageInit, Init, Mine, Waiting, TableInv, CallsSound
<1>3. CalmShift
  BY <1>1, <1>2 DEF PageInit, CalmShift, Ready
<1> QED
  BY <1>2, <1>3, InitLoadInv DEF CalmInv

LEMMA ShiftsStayCalm == PageSpec => []CalmInv
BY InitCalmInv, NextCalmInv, PTL DEF PageSpec

\* In a calm shift the page shows the tables whenever it waits for nothing.
THEOREM BoardShowsTheTables == PageSpec => []BoardTruthful
<1>1. CalmInv => BoardTruthful
  BY DEF CalmInv, CalmShift, BoardTruthful
<1> QED
  BY <1>1, ShiftsStayCalm, PTL

\* In a calm shift the suggested pallet exists while nothing was undone or
\* restored since.
THEOREM SuggestedPalletExists == PageSpec => []SuggestionStands
<1>1. CalmInv => SuggestionStands
  BY DEF CalmInv, CalmShift, SuggestionStands
<1> QED
  BY <1>1, ShiftsStayCalm, PTL

LEMMA NewestIsLast ==
  ASSUME book \in Seq(Bookings), book # <<>>
  PROVE  Last(NewestEntries) = Last(book)
<1>1. PICK L \in Nat : L = Len(book)
  OBVIOUS
<1>2. L > 0
  BY <1>1
<1>3. PICK R \in Nat \ {0} : R = RecentEntries
  BY OverviewAssumption
<1> DEFINE m == Max({1, L - R + 1})
<1>4. m \in 1..L
  <2> DEFINE S == {1, L - R + 1}
             M == IF L - R + 1 >= 1 THEN L - R + 1 ELSE 1
  <2>1. M \in S /\ \A y \in S : M >= y
    OBVIOUS
  <2>2. Max(S) \in S /\ \A y \in S : Max(S) >= y
    BY <2>1 DEF Max
  <2> QED
    BY <1>2, <2>2
<1> HIDE DEF m
<1>5. NewestEntries = SubSeq(book, m, L)
  BY <1>1, <1>3 DEF NewestEntries, m
<1>6. Len(NewestEntries) = L - m + 1 /\ NewestEntries[L - m + 1] = book[L]
  BY <1>1, <1>4, <1>5
<1> QED
  BY <1>1, <1>6 DEF Last

\* In a calm shift "Fortryd seneste" takes back the entry on top of the board.
THEOREM UndoTakesShownEntry == PageSpec => UndoesShownEntry
<1>1. ASSUME CalmInv, NEW s \in Slots, disturbances = 0, ServeUndo(s), call[s].mine, book # <<>>
      PROVE  Last(book) = Last(board.entries)
  <2>1. OwnCall(call[s]) /\ Unwritten(call[s]) /\ book \in Seq(Bookings)
    BY <1>1 DEF CalmInv, CalmShift, TableInv, ServeUndo, AtStage, Unwritten
  <2>2. board.entries = NewestEntries
    <3>1. board = Dashboard
      BY <2>1 DEF OwnCall
    <3> QED
      BY <3>1 DEF Dashboard
  <2> QED
    BY <1>1, <2>1, <2>2, NewestIsLast
<1>2. CalmInv => \A s \in Slots :
        disturbances = 0 /\ ServeUndo(s) /\ call[s].mine /\ book # <<>> => Last(book) = Last(board.entries)
  BY <1>1
<1> QED
  BY <1>2, ShiftsStayCalm, PTL DEF UndoesShownEntry

-----------------------------------------------------------------------------
(* Types: a page only ever shows what one of the two queries answered.     *)

Rows == [pallet : PalletNumbers, total : Nat \ {0}]
Boards == [open : SUBSET Rows, entries : {es \in Seq(Bookings) : Len(es) <= RecentEntries}]
Stages == {"sent", "answered", "reloading", "read pallets", "reloaded"}

TypedCall(c) ==
  /\ c.stage \in Stages /\ c.kind \in Requests \union {"load", "reload"}
  /\ c.kind = "load" => c.stage \in Reading
  /\ c.kind = "confirm" => c.count \in Nat /\ c.done \in 0..c.count
  /\ c.kind = "register" /\ c.stage = "answered" => c.pallet \in PalletNumbers
  /\ c.seen \in Boards

PageState ==
  /\ mounted \in BOOLEAN /\ loading \in BOOLEAN /\ warning \in BOOLEAN /\ takenBack \in BOOLEAN
  /\ suggested \in PalletNumbers \union {NoPallet}
  /\ board \in Boards
  /\ disturbances \in 0..MaxDisturbances

CallsTyped == \A s \in Slots : call[s] # NoCall => TypedCall(call[s])
TypeInv == CalmInv /\ PageState /\ CallsTyped

\* The bookings of a pallet that exists add up to more than nothing.
LEMMA RowsTyped == ASSUME book \in Seq(Bookings) PROVE OpenPallets \in SUBSET Rows
<1>1. PICK L \in Nat : L = Len(book) /\ DOMAIN book = 1..L
  OBVIOUS
<1>2. \A i \in 1..L : book[i].pallet \in PalletNumbers /\ book[i].qty \in Nat \ {0}
  <2>1. \A i \in 1..L : book[i] \in Bookings
    BY <1>1
  <2> QED
    BY <2>1 DEF Bookings
<1> DEFINE f == [i \in DOMAIN book |-> book[i].qty]
           On(n) == {i \in DOMAIN book : book[i].pallet = n}
<1>3. ASSUME NEW n \in Pallets
      PROVE  [pallet |-> n, total |-> SumFunctionOnSet(f, On(n))] \in Rows
  <2>1. PICK i \in 1..L : book[i].pallet = n
    BY <1>1, <1>3 DEF Pallets
  <2>2. i \in On(n) /\ n \in PalletNumbers /\ On(n) \subseteq 1..L
    BY <1>1, <1>2, <2>1
  <2>3. IsFiniteSet(On(n))
    BY <2>2, FS_Interval, FS_Subset
  <2>4. \A j \in On(n) : f[j] \in Nat /\ f[j] # 0
    BY <1>1, <1>2
  <2> HIDE DEF f, On
  <2>5. SumFunctionOnSet(f, On(n)) \in Nat \ {0}
    BY <2>2, <2>3, <2>4, SumIsNat, SumZero
  <2> QED
    BY <2>2, <2>5 DEF Rows
<1>4. OpenPallets = {[pallet |-> n, total |-> SumFunctionOnSet(f, On(n))] : n \in Pallets \ closed}
  BY DEF OpenPallets
<1> HIDE DEF f, On
<1> QED
  BY <1>3, <1>4

LEMMA NewestTyped ==
  ASSUME book \in Seq(Bookings)
  PROVE  NewestEntries \in Seq(Bookings) /\ Len(NewestEntries) <= RecentEntries
<1>1. PICK L \in Nat : L = Len(book)
  OBVIOUS
<1> DEFINE m == Max({1, L - RecentEntries + 1})
<1>2. RecentEntries \in Nat \ {0}
  BY OverviewAssumption
<1>3. m \in Nat /\ m >= 1 /\ m >= L - RecentEntries + 1 /\ (m = 1 \/ m <= L)
  <2>1. m = IF L - RecentEntries + 1 >= 1 THEN L - RecentEntries + 1 ELSE 1
    BY <1>2 DEF Max
  <2> QED
    BY <1>2, <2>1
<1>4. NewestEntries = SubSeq(book, m, L)
  BY <1>1 DEF NewestEntries
<1> HIDE DEF m
<1>5. \A i \in m..L : book[i] \in Bookings
  BY <1>1, <1>3
<1>6. /\ SubSeq(book, m, L) \in Seq(Bookings)
      /\ Len(SubSeq(book, m, L)) = IF m <= L THEN L - m + 1 ELSE 0
  BY <1>1, <1>3, <1>5
<1> QED
  BY <1>2, <1>3, <1>4, <1>6

LEMMA EmptyTyped == EmptyDashboard \in Boards
<1>1. <<>> \in Seq(Bookings) /\ Len(<<>>) = 0
  BY NoBookings
<1>2. <<>> \in {es \in Seq(Bookings) : Len(es) <= RecentEntries}
  BY <1>1, OverviewAssumption
<1> QED
  BY <1>2 DEF EmptyDashboard, Boards

LEMMA OneCallTyped ==
  ASSUME LoadInv, CallsTyped, NEW s \in Slots, NEW q, call' = [call EXCEPT ![s] = q],
         q = NoCall \/ TypedCall(q)
  PROVE  CallsTyped'
<1>1. \A t \in Slots : call'[t] = IF t = s THEN q ELSE call[t]
  BY DEF LoadInv
<1> QED
  BY <1>1 DEF CallsTyped, TypedCall

LEMMA NewCallTyped ==
  ASSUME NEW kind, NEW stage, stage \in Stages, kind \in Requests \union {"load", "reload"},
         kind = "load" => stage \in Reading, kind = "register" => stage # "answered"
  PROVE  TypedCall(NewCall(kind, stage))
BY EmptyTyped DEF TypedCall, NewCall

LEMMA ReloadTyped ==
  ASSUME NEW s \in Slots
  PROVE  TypedCall(Reload(s)) /\ TypedCall([Reload(s) EXCEPT !.mine = FALSE])
BY EmptyTyped DEF Reload, TypedCall, NewCall, Stages, Requests, Reading

LEMMA DisownedTyped ==
  ASSUME LoadInv, CallsTyped, NEW t \in Slots
  PROVE  Disowned(t) = NoCall \/ TypedCall(Disowned(t))
<1>1. CASE call[t] # NoCall
  <2>1. Fields \subseteq DOMAIN call[t] /\ TypedCall(call[t])
    BY <1>1 DEF LoadInv, CallsTyped
  <2>2. TypedCall([call[t] EXCEPT !.mine = FALSE])
    BY <2>1 DEF Fields, TypedCall
  <2> QED
    BY <1>1, <2>2 DEF Disowned
<1> QED
  BY <1>1 DEF Disowned

LEMMA DisturbancesBounded ==
  ASSUME disturbances \in 0..MaxDisturbances
  PROVE  /\ \A kind : Disturbing(kind) => disturbances' \in 0..MaxDisturbances
         /\ Calm => disturbances' \in 0..MaxDisturbances
BY OverviewAssumption DEF Disturbing, Calm

LEMMA OperatorTyped ==
  ASSUME TypeInv, NEW s \in Slots,
         \/ Mount(s)
         \/ \E v \in Variants, q \in Quantities : SubmitRegisterColli(s, v, q)
         \/ \E code \in PalletNumbers \union {Blank, Unreadable}, k \in ScanCounts :
              SubmitConfirmMove(s, code, k)
         \/ \E n \in PalletNumbers, printContents \in BOOLEAN : ClosePallet(s, n, printContents)
         \/ UndoLastEntry(s) \/ ClearDatabase(s)
         \/ \E file \in Backups : RestoreDatabase(s, file)
  PROVE  PageState' /\ CallsTyped'
<1>1. \A kind \in Requests : TypedCall(NewCall(kind, "sent"))
  BY NewCallTyped DEF Requests, Stages
<1>2. ASSUME NEW q, Send(s, q), TypedCall(q)
      PROVE  PageState' /\ CallsTyped'
  <2>1. call' = [call EXCEPT ![s] = q] /\ UNCHANGED <<page, takenBack>>
    BY <1>2 DEF Send
  <2>2. disturbances' \in 0..MaxDisturbances
    BY <1>2, DisturbancesBounded DEF Send, TypeInv, PageState
  <2>3. CallsTyped'
    BY <1>2, <2>1, OneCallTyped DEF TypeInv, CalmInv
  <2> QED
    BY <2>1, <2>2, <2>3 DEF TypeInv, PageState, page
<1>3. CASE Mount(s)
  <2>1. TypedCall(NewCall("load", "reloading"))
    BY NewCallTyped DEF Stages, Reading
  <2>2. CallsTyped'
    BY <1>3, <2>1, OneCallTyped DEF Mount, TypeInv, CalmInv
  <2> QED
    BY <1>3, <2>2 DEF Mount, TypeInv, PageState
<1>4. ASSUME NEW v, NEW q, SubmitRegisterColli(s, v, q)
      PROVE  \E r : TypedCall(r) /\ Send(s, r)
  BY <1>4, EmptyTyped DEF SubmitRegisterColli, TypedCall, NewCall, Stages, Requests
<1>5. ASSUME NEW code, NEW k \in ScanCounts, SubmitConfirmMove(s, code, k)
      PROVE  \E r : TypedCall(r) /\ Send(s, r)
  <2>1. k \in Nat
    BY OverviewAssumption
  <2> QED
    <3>1. PICK p : Send(s, [NewCall("confirm", "sent") EXCEPT !.pallet = p, !.count = k])
      BY <1>5 DEF SubmitConfirmMove
    <3> DEFINE r == [NewCall("confirm", "sent") EXCEPT !.pallet = p, !.count = k]
    <3>2. /\ r.kind = "confirm" /\ r.stage = "sent" /\ r.count = k /\ r.done = 0
          /\ r.seen = EmptyDashboard
      BY DEF NewCall
    <3> HIDE DEF r
    <3>3. TypedCall(r)
      BY <2>1, <3>2, EmptyTyped DEF TypedCall, Stages, Requests
    <3> QED
      BY <3>1, <3>3 DEF r
<1>6. ASSUME NEW n, NEW printContents, ClosePallet(s, n, printContents)
      PROVE  \E r : TypedCall(r) /\ Send(s, r)
  BY <1>6, EmptyTyped DEF ClosePallet, TypedCall, NewCall, Stages, Requests
<1>7. CASE UndoLastEntry(s) \/ ClearDatabase(s)
  BY <1>1, <1>2, <1>7 DEF UndoLastEntry, ClearDatabase, Requests
<1>8. ASSUME NEW file, RestoreDatabase(s, file)
      PROVE  \E r : TypedCall(r) /\ Send(s, r)
  BY <1>8, EmptyTyped DEF RestoreDatabase, TypedCall, NewCall, Stages, Requests
<1> QED
  BY <1>2, <1>3, <1>4, <1>5, <1>6, <1>7, <1>8

LEMMA ServeTyped ==
  ASSUME TypeInv, NEW s \in Slots, Serve(s)
  PROVE  PageState' /\ CallsTyped'
<1>1. /\ call[s] # NoCall /\ Fields \subseteq DOMAIN call[s] /\ TypedCall(call[s])
      /\ book \in Seq(Bookings)
  BY DEF Serve, ServeRegister, ServeConfirmOne, ServeConfirmEnd, ServeClose, ServeUndo, ServeClear,
         ServeRestore, ServeOpenPallets, ServeRecentEntries, AtStage, TypeInv, CalmInv, LoadInv, TableInv,
         CallsTyped
<1>2. /\ UNCHANGED <<mounted, loading, warning, suggested, board, disturbances>>
      /\ takenBack' \in {takenBack, TRUE}
  BY DEF Serve, ServeRegister, ServeConfirmOne, ServeConfirmEnd, ServeClose, ServeUndo, ServeClear,
         ServeRestore, ServeOpenPallets, ServeRecentEntries, Answer, page
<1>3. PageState'
  BY <1>2 DEF TypeInv, PageState
<1> SUFFICES CallsTyped'
  BY <1>3
<1>4. ASSUME NEW q, call' = [call EXCEPT ![s] = q], TypedCall(q)
      PROVE  CallsTyped'
  BY <1>4, OneCallTyped DEF TypeInv, CalmInv
<1>5. ASSUME NEW q, TypedCall(q), Fields \subseteq DOMAIN q, Answer(s, q), q.kind # "load",
             q.kind = "register" => q.pallet \in PalletNumbers
      PROVE  CallsTyped'
  <2> DEFINE r == [q EXCEPT !.stage = "answered"]
  <2>1. TypedCall(r)
    BY <1>5 DEF TypedCall, Fields, Stages
  <2>2. call' = [call EXCEPT ![s] = r]
    BY <1>5 DEF Answer, TypeInv, CalmInv, LoadInv
  <2> HIDE DEF r
  <2> QED
    BY <1>4, <2>1, <2>2
<1>6. CASE ServeRegister(s)
  <2>1. PICK n \in PalletNumbers :
          \/ Answer(s, [call[s] EXCEPT !.pallet = n])
          \/ Answer(s, [call[s] EXCEPT !.pallet = n, !.created = TRUE])
    BY <1>6 DEF ServeRegister
  <2>2. ASSUME NEW q, q \in {[call[s] EXCEPT !.pallet = n], [call[s] EXCEPT !.pallet = n, !.created = TRUE]}
        PROVE  /\ TypedCall(q) /\ Fields \subseteq DOMAIN q
               /\ q.kind = "register" /\ q.pallet \in PalletNumbers
    <3>1. call[s].kind = "register" /\ call[s].stage = "sent"
      BY <1>6 DEF ServeRegister, AtStage
    <3> QED
      BY <1>1, <2>2, <3>1 DEF Fields, TypedCall
  <2> QED
    BY <1>5, <2>1, <2>2
<1>7. CASE ServeConfirmOne(s)
  <2> DEFINE q == [call[s] EXCEPT !.done = @ + 1]
  <2>1. call' = [call EXCEPT ![s] = q]
    BY <1>7 DEF ServeConfirmOne, TypeInv, CalmInv, LoadInv
  <2>2. call[s].kind = "confirm" /\ call[s].done < call[s].count
    BY <1>7 DEF ServeConfirmOne
  <2>3. TypedCall(q)
    BY <1>1, <2>2 DEF TypedCall, Fields
  <2> HIDE DEF q
  <2> QED
    BY <1>4, <2>1, <2>3
<1>8. CASE ServeConfirmEnd(s) \/ ServeClose(s) \/ ServeUndo(s) \/ ServeClear(s) \/ ServeRestore(s)
  <2>1. Answer(s, call[s]) /\ call[s].kind # "load" /\ call[s].kind # "register"
    BY <1>8 DEF ServeConfirmEnd, ServeClose, ServeUndo, ServeClear, ServeRestore
  <2> QED
    BY <1>1, <1>5, <2>1
<1>9. CASE ServeOpenPallets(s) \/ ServeRecentEntries(s)
  <2> DEFINE q == [call[s] EXCEPT !.stage = "read pallets", !.seen.open = OpenPallets]
             r == [call[s] EXCEPT !.stage = "reloaded", !.seen.entries = NewestEntries]
  <2>1. call' = [call EXCEPT ![s] = q] \/ call' = [call EXCEPT ![s] = r]
    BY <1>9 DEF ServeOpenPallets, ServeRecentEntries, TypeInv, CalmInv, LoadInv
  <2>2. /\ [call[s].seen EXCEPT !.open = OpenPallets] \in Boards
        /\ [call[s].seen EXCEPT !.entries = NewestEntries] \in Boards
    BY <1>1, RowsTyped, NewestTyped DEF TypedCall, Boards
  <2>3. call[s].stage \in Reading
    BY <1>9 DEF ServeOpenPallets, ServeRecentEntries, AtStage, Reading
  <2>4. TypedCall(q) /\ TypedCall(r)
    BY <1>1, <2>2, <2>3 DEF TypedCall, Fields, Stages, Reading
  <2> HIDE DEF q, r
  <2> QED
    BY <1>4, <2>1, <2>4
<1> QED
  BY <1>6, <1>7, <1>8, <1>9 DEF Serve

LEMMA HandleTyped ==
  ASSUME TypeInv, NEW s \in Slots, Handle(s) \/ LoseResponse(s)
  PROVE  PageState' /\ CallsTyped'
<1>1. call[s] # NoCall /\ TypedCall(call[s])
  BY DEF Handle, AfterRegister, AfterConfirm, AfterClose, AfterUndo, AfterRestore, AfterClear,
         AfterReload, LoseResponse, Answered, AtStage, TypeInv, CallsTyped
<1>2. disturbances' \in 0..MaxDisturbances
  BY DisturbancesBounded
     DEF Handle, AfterRegister, AfterConfirm, AfterClose, AfterUndo, AfterRestore, AfterClear,
         AfterReload, JustReload, LoseResponse, TypeInv, PageState
<1>3. ASSUME ThenReload(s) \/ Finish(s)
      PROVE  CallsTyped'
  BY <1>3, ReloadTyped, OneCallTyped DEF ThenReload, Finish, TypeInv, CalmInv
<1>4. ASSUME Unmount, NEW f, call' = [t \in Slots |-> f[t]],
             \A t \in Slots : f[t] \in {NoCall, [Reload(s) EXCEPT !.mine = FALSE], Disowned(t)}
      PROVE  PageState' /\ CallsTyped'
  <2>1. \A t \in Slots : f[t] = NoCall \/ TypedCall(f[t])
    BY <1>4, ReloadTyped, DisownedTyped DEF TypeInv, CalmInv
  <2>2. CallsTyped'
    BY <1>4, <2>1 DEF CallsTyped, TypedCall
  <2> QED
    BY <1>2, <1>4, <2>2, EmptyTyped DEF Unmount, PageState
<1>5. CASE AfterRegister(s) /\ call[s].created
  <2> DEFINE f == [t \in Slots |-> IF t = s THEN [Reload(s) EXCEPT !.mine = FALSE] ELSE Disowned(t)]
  <2>1. call' = f /\ Unmount
    BY <1>5 DEF AfterRegister
  <2>2. \A t \in Slots : f[t] \in {NoCall, [Reload(s) EXCEPT !.mine = FALSE], Disowned(t)}
    OBVIOUS
  <2>3. call' = [t \in Slots |-> f[t]]
    BY <2>1
  <2> HIDE DEF f
  <2> QED
    BY <1>4, <2>1, <2>2, <2>3
<1>6. CASE AfterReload(s) /\ call[s].print
  <2> DEFINE f == [t \in Slots |-> IF t = s THEN NoCall ELSE Disowned(t)]
  <2>1. call' = f /\ Unmount
    BY <1>6 DEF AfterReload
  <2>2. \A t \in Slots : f[t] \in {NoCall, [Reload(s) EXCEPT !.mine = FALSE], Disowned(t)}
    OBVIOUS
  <2>3. call' = [t \in Slots |-> f[t]]
    BY <2>1
  <2> HIDE DEF f
  <2> QED
    BY <1>4, <2>1, <2>2, <2>3
<1>7. CASE AfterRegister(s) /\ ~call[s].created
  <2>1. /\ ThenReload(s) /\ suggested' = IF call[s].mine THEN call[s].pallet ELSE suggested
        /\ takenBack' = (takenBack /\ ~call[s].mine)
        /\ UNCHANGED <<mounted, loading, board, warning>>
    BY <1>7 DEF AfterRegister
  <2>2. call[s].pallet \in PalletNumbers
    BY <1>1, <1>7 DEF AfterRegister, Answered, AtStage, TypedCall
  <2> QED
    BY <1>2, <1>3, <2>1, <2>2 DEF TypeInv, PageState
<1>8. CASE AfterReload(s) /\ ~call[s].print
  <2>1. /\ Finish(s) /\ board' = IF call[s].mine THEN call[s].seen ELSE board
        /\ loading' = (loading /\ ~(call[s].mine /\ call[s].kind = "load"))
        /\ UNCHANGED <<mounted, suggested, warning, takenBack>>
    BY <1>8 DEF AfterReload
  <2> QED
    BY <1>1, <1>2, <1>3, <2>1 DEF TypeInv, PageState, TypedCall
<1>9. CASE AfterClear(s)
  BY <1>2, <1>3, <1>9 DEF AfterClear, TypeInv, PageState
<1>10. CASE AfterConfirm(s) \/ AfterClose(s) \/ AfterUndo(s) \/ AfterRestore(s)
  BY <1>2, <1>3, <1>10 DEF AfterConfirm, AfterClose, AfterUndo, AfterRestore, JustReload, page, TypeInv,
                           PageState
<1>11. CASE LoseResponse(s)
  BY <1>2, <1>3, <1>11 DEF LoseResponse, TypeInv, PageState
<1> QED
  BY <1>5, <1>6, <1>7, <1>8, <1>9, <1>10, <1>11 DEF Handle

LEMMA NextTypeInv == TypeInv /\ [PageNext]_pageVars => TypeInv'
<1> SUFFICES ASSUME TypeInv, [PageNext]_pageVars
             PROVE  PageState' /\ CallsTyped'
  BY NextCalmInv DEF TypeInv
<1>1. CASE Leave
  <2> DEFINE f == [t \in Slots |-> Disowned(t)]
  <2>1. call' = f /\ Unmount
    BY <1>1 DEF Leave
  <2>2. \A t \in Slots : f[t] = NoCall \/ TypedCall(f[t])
    BY DisownedTyped DEF TypeInv, CalmInv
  <2>3. \A t \in Slots : call'[t] = f[t]
    BY <2>1
  <2> HIDE DEF f
  <2>4. CallsTyped'
    BY <2>2, <2>3 DEF CallsTyped, TypedCall
  <2>5. disturbances' \in 0..MaxDisturbances
    BY <1>1, DisturbancesBounded DEF Leave, TypeInv, PageState
  <2> QED
    BY <2>1, <2>4, <2>5, EmptyTyped DEF Unmount, PageState
<1>2. CASE OpenClearDatabaseWarning \/ CancelClearDatabaseWarning \/ UNCHANGED pageVars
  BY <1>2 DEF OpenClearDatabaseWarning, CancelClearDatabaseWarning, pageVars, page, TypeInv, PageState,
              CallsTyped, TypedCall
<1>3. CASE OtherStation
  <2>1. disturbances' \in 0..MaxDisturbances
    BY <1>3, DisturbancesBounded DEF OtherStation, TypeInv, PageState
  <2> QED
    BY <1>3, <2>1 DEF OtherStation, page, TypeInv, PageState, CallsTyped, TypedCall
<1> QED
  BY <1>1, <1>2, <1>3, OperatorTyped, ServeTyped, HandleTyped DEF PageNext

LEMMA InitTypeInv == PageInit => TypeInv
<1> SUFFICES ASSUME PageInit PROVE TypeInv
  OBVIOUS
<1>1. PageState
  <2>1. 0 \in 0..MaxDisturbances
    BY OverviewAssumption
  <2>2. board \in Boards
    BY EmptyTyped DEF PageInit
  <2> QED
    BY <2>1, <2>2 DEF PageInit, PageState
<1>2. CallsTyped
  BY DEF PageInit, CallsTyped
<1> QED
  BY <1>1, <1>2, InitCalmInv DEF TypeInv

\* The page keeps its types, and the lists it shows have no pallet without stock,
\* no entry confirmed beyond its quantity and no more entries than asked for,
\* whatever disturbs it and whatever its requests overtook.
THEOREM PageTypesKept == PageSpec => []PageTypeOK
<1>1. TypeInv => PageTypeOK
  <2> SUFFICES ASSUME TypeInv PROVE PageTypeOK
    OBVIOUS
  <2>1. ASSUME NEW d \in Boards
        PROVE  /\ \A row \in d.open : row.pallet \in PalletNumbers /\ row.total > 0
               /\ Len(d.entries) <= RecentEntries /\ \A e \in Range(d.entries) : e.confirmed <= e.qty
    <3>1. \A row \in d.open : row.pallet \in PalletNumbers /\ row.total > 0
      BY DEF Boards, Rows
    <3>2. d.entries \in Seq(Bookings) /\ Len(d.entries) <= RecentEntries
      BY DEF Boards
    <3>3. \A e \in Range(d.entries) : e \in Bookings
      BY <3>2 DEF Range
    <3> QED
      BY <3>1, <3>2, <3>3 DEF Bookings
  <2>2. \A s \in Waiting : s \in Slots /\ call[s] # NoCall /\ TypedCall(call[s])
    BY DEF Waiting, TypeInv, CallsTyped
  <2>3. \A d \in {board} \union {call[s].seen : s \in Waiting} : d \in Boards
    BY <2>2 DEF TypeInv, PageState, TypedCall
  <2>4. \A s \in Waiting :
          /\ call[s].stage \in Stages
          /\ call[s].kind = "load" => call[s].stage \notin {"sent", "answered"}
          /\ call[s].kind = "confirm" => call[s].done \in 0..call[s].count
    BY <2>2 DEF TypedCall, Reading
  <2> QED
    BY <2>1, <2>3, <2>4 DEF PageTypeOK, TypeInv, PageState, Stages
<1> QED
  BY <1>1, InitTypeInv, NextTypeInv, PTL DEF PageSpec
-----------------------------------------------------------------------------
(* The server behind the page promises what the database does over its life *)
(* (DatabaseLifecycleProofs): a ledger that can be put back as a whole.     *)

Served == INSTANCE LedgerWithBackups WITH kept <- {}, Uploads <- Backups

LEMMA ServedNext ==
  ASSUME Next
  PROVE  Served!Next
<1>1. /\ Served!Variants = Variants /\ Served!PalletNumbers = PalletNumbers /\ Served!Pallets = Pallets
  BY DEF Served!Variants, Variants, Served!PalletNumbers, PalletNumbers, Served!Pallets, Pallets
<1>2. \A n, v : Served!Carries(n, v) <=> Carries(n, v)
  BY DEF Served!Carries, Carries
<1>3. \A n : Served!Carried(n) = Carried(n)
  BY <1>1, <1>2 DEF Served!Carried, Carried
<1>4. \A n : Served!Cardinality(Served!Carried(n)) = Cardinality(Carried(n))
  BY <1>3 DEF Served!Cardinality, Cardinality
<1>5. \A n, v : Served!Takes(n, v) <=> Takes(n, v)
  BY <1>1, <1>2, <1>3, <1>4 DEF Served!Takes, Takes
<1>6. \A n, v, q : Served!Book(n, v, q) <=> Book(n, v, q)
  BY DEF Served!Book, Book
<1>7. \A n, v, q :
        /\ RegisterWithVariant(n, v, q) => Served!RegisterWithVariant(n, v, q)
        /\ RegisterWithRoom(n, v, q) => Served!RegisterWithRoom(n, v, q)
        /\ RegisterNewPallet(n, v, q) => Served!RegisterNewPallet(n, v, q)
  BY <1>1, <1>2, <1>5, <1>6
  DEF Served!RegisterWithVariant, Served!RegisterWithRoom, Served!RegisterNewPallet,
      RegisterWithVariant, RegisterWithRoom, RegisterNewPallet
<1>8. \A n : (Close(n) => Served!Close(n)) /\ (Confirm(n) => Served!Confirm(n))
  BY <1>1 DEF Served!Close, Close, Served!Confirm, Confirm
<1>9. (Undo => Served!Undo) /\ (Clear => Served!Clear)
  BY DEF Served!Undo, Undo, Served!Clear, Clear
<1> QED
  BY <1>1, <1>7, <1>8, <1>9 DEF Next, Served!Next

\* A request names a pallet that need not exist.
LEMMA NamedPallet ==
  ASSUME book \in Seq(Bookings), NEW n, Close(n) \/ Confirm(n)
  PROVE  Next \/ UNCHANGED server
<1>1. \A i \in 1..Len(book) : book[i].pallet \in PalletNumbers
  BY DEF Bookings
<1>2. CASE Confirm(n)
  BY <1>1, <1>2 DEF Confirm, Next
<1>3. CASE Close(n)
  <2>1. CASE n \in PalletNumbers
    BY <1>3, <2>1 DEF Next
  <2>2. CASE n \notin PalletNumbers
    BY <1>1, <1>3, <2>2 DEF Close, Pallets, server
  <2> QED
    BY <2>1, <2>2
<1> QED
  BY <1>2, <1>3

PutsBack == \E file \in Backups : book' = file.book /\ closed' = file.closed

LEMMA ServerStep ==
  ASSUME TableInv, [PageNext]_pageVars
  PROVE  Next \/ PutsBack \/ UNCHANGED server
<1>1. ASSUME NEW s \in Slots, Serve(s)
      PROVE  Next \/ PutsBack \/ UNCHANGED server
  <2>1. SoundCall(call[s])
    BY <1>1 DEF TableInv, CallsSound, Serve, ServeRegister, ServeConfirmOne, ServeConfirmEnd, ServeClose,
                ServeUndo, ServeClear, ServeRestore, ServeOpenPallets, ServeRecentEntries, AtStage
  <2>2. ServeRegister(s) => Next
    BY <2>1 DEF ServeRegister, Next, SoundCall
  <2>3. ServeConfirmOne(s) \/ ServeClose(s) => Next \/ UNCHANGED server
    BY NamedPallet DEF ServeConfirmOne, ServeClose, TableInv
  <2>4. ServeRestore(s) => PutsBack
    BY <2>1 DEF ServeRestore, SoundCall, PutsBack
  <2> QED
    BY <1>1, <2>2, <2>3, <2>4
    DEF Serve, ServeConfirmEnd, ServeUndo, ServeClear, ServeOpenPallets, ServeRecentEntries, Next
<1>2. CASE OtherStation
  <2>1. ASSUME NEW n, Close(n) \/ Confirm(n)
        PROVE  Next \/ UNCHANGED server
    BY <2>1, NamedPallet DEF TableInv
  <2> QED
    BY <1>2, <2>1 DEF OtherStation, Next
<1>3. ASSUME NEW s \in Slots, Handle(s) \/ LoseResponse(s)
      PROVE  UNCHANGED server
  BY <1>3 DEF Handle, AfterRegister, AfterConfirm, AfterClose, AfterUndo, AfterRestore, AfterClear,
              AfterReload, JustReload, LoseResponse
<1>4. ASSUME NEW s \in Slots, NEW q, Send(s, q)
      PROVE  UNCHANGED server
  BY <1>4 DEF Send
<1>5. ASSUME NEW s \in Slots,
             \/ Mount(s)
             \/ \E v \in Variants, q \in Quantities : SubmitRegisterColli(s, v, q)
             \/ \E code \in PalletNumbers \union {Blank, Unreadable}, k \in ScanCounts :
                  SubmitConfirmMove(s, code, k)
             \/ \E n \in PalletNumbers, printContents \in BOOLEAN : ClosePallet(s, n, printContents)
             \/ UndoLastEntry(s) \/ ClearDatabase(s)
             \/ \E file \in Backups : RestoreDatabase(s, file)
      PROVE  UNCHANGED server
  BY <1>4, <1>5 DEF Mount, SubmitRegisterColli, SubmitConfirmMove, ClosePallet, UndoLastEntry,
                    ClearDatabase, RestoreDatabase
<1>6. CASE Leave \/ OpenClearDatabaseWarning \/ CancelClearDatabaseWarning \/ UNCHANGED pageVars
  BY <1>6 DEF Leave, OpenClearDatabaseWarning, CancelClearDatabaseWarning, pageVars
<1> QED
  BY <1>1, <1>2, <1>3, <1>5, <1>6 DEF PageNext

\* Whatever the page, its earlier handlers and other stations send, and whatever is
\* lost on the way: what happens to the tables is what the ledger with backups
\* allows.
THEOREM PageServedByTheLedger == PageSpec => Served!BackupsSpec
<1>1. PageInit => Served!BackupsInit
  BY DEF PageInit, Init, Served!BackupsInit, Served!Init
<1>2. TableInv /\ [PageNext]_pageVars => [Served!BackupsNext]_<<book, closed, {}>>
  <2> SUFFICES ASSUME TableInv, [PageNext]_pageVars
               PROVE  Served!BackupsNext \/ UNCHANGED server
    BY DEF server
  <2>1. CASE Next
    BY <2>1, ServedNext DEF Served!BackupsNext, Served!Operate
  <2>2. CASE PutsBack
    BY <2>2 DEF PutsBack, Served!BackupsNext, Served!Restore
  <2> QED
    BY <2>1, <2>2, ServerStep
<1>3. PageSpec => []TableInv
  BY ShiftsStayCalm, PTL DEF CalmInv
<1> QED
  BY <1>1, <1>2, <1>3, PTL DEF PageSpec, Served!BackupsSpec

-----------------------------------------------------------------------------
(***************************************************************************)
(* Product numbers.  The weights the server counts with, from the digits'  *)
(* places, give the sum of the UPC-A standard, so that the UPC-A and the   *)
(* EAN-13 of a product become one number, and only they.                   *)
(***************************************************************************)

Weight(i) == IF (12 - i) % 2 = 1 THEN 3 ELSE 1
WeightedSum(code) ==
  CHOOSE sum : sum = [i \in 0..11 |-> IF i = 0 THEN 0 ELSE sum[i - 1] + code[i] * Weight(i)]

LEMMA FunctionIsSeq ==
  ASSUME NEW n \in Nat, NEW S, NEW f \in [1..n -> S]
  PROVE  f \in Seq(S) /\ Len(f) = n
OBVIOUS

LEMMA WithFirst ==
  ASSUME NEW S, NEW x \in S, NEW s \in Seq(S)
  PROVE  /\ <<x>> \o s \in Seq(S) /\ Len(<<x>> \o s) = Len(s) + 1
         /\ (<<x>> \o s)[1] = x /\ \A i \in 1..Len(s) : (<<x>> \o s)[i + 1] = s[i]
<1> DEFINE t == <<x>>
<1>1. t \in Seq(S) /\ Len(t) = 1 /\ t[1] = x /\ Len(s) \in Nat
  OBVIOUS
<1> HIDE DEF t
<1>2. /\ t \o s \in Seq(S) /\ Len(t \o s) = Len(t) + Len(s)
      /\ \A i \in 1..(Len(t) + Len(s)) : (t \o s)[i] = IF i <= Len(t) THEN t[i] ELSE s[i - Len(t)]
  BY <1>1, ConcatProperties, Zenon
<1>3. (t \o s)[1] = x /\ \A i \in 1..Len(s) : (t \o s)[i + 1] = s[i]
  BY <1>1, <1>2
<1> QED
  BY <1>1, <1>2, <1>3 DEF t

LEMMA UpcLength ==
  ASSUME NEW code \in [1..12 -> Digit]
  PROVE  Len(code) = 12 /\ code \in Seq(Digit)
<1>1. 12 \in Nat
  OBVIOUS
<1> QED
  BY <1>1, FunctionIsSeq

LEMMA CheckDigitIs ==
  ASSUME NEW code \in [1..12 -> Digit]
  PROVE  IsValidCheckDigit(code) <=> (10 - (WeightedSum(code)[11] % 10)) % 10 = code[12]
<1>1. Len(code) = 12
  BY UpcLength
<1> QED
  BY <1>1 DEF IsValidCheckDigit, WeightedSum, Weight

LEMMA WeightedSumExists ==
  ASSUME NEW code \in [1..12 -> Digit]
  PROVE  LET sum == WeightedSum(code)
         IN /\ sum[0] = 0
            /\ \A i \in 1..11 : sum[i] = sum[i - 1] + code[i] * Weight(i)
<1> DEFINE n == 11
           step == [i \in 1..n |-> [s \in Int |-> s + code[i] * Weight(i)]]
<1>1. \A i \in 1..11 : code[i] * Weight(i) \in Int
  BY DEF Digit, Weight
<1>2. Stepwise(n, Int, 0, step)
  BY <1>1 DEF Stepwise
<1>3. PICK g \in [0..n -> Int] : g = Along(n, 0, step, g)
  <2> HIDE DEF n, step
  <2> QED
    BY <1>2, StepByStep
<1>4. g = [i \in 0..11 |-> IF i = 0 THEN 0 ELSE g[i - 1] + code[i] * Weight(i)]
  BY <1>3 DEF Along
<1>5. WeightedSum(code)
        = [i \in 0..11 |-> IF i = 0 THEN 0 ELSE WeightedSum(code)[i - 1] + code[i] * Weight(i)]
  BY <1>4 DEF WeightedSum
<1> QED
  BY <1>5

LEMMA UpcCheckDigit ==
  ASSUME NEW code \in [1..12 -> Digit]
  PROVE  IsValidCheckDigit(code) <=> UpcSum(code) % 10 = 0
<1> DEFINE sum == WeightedSum(code)
           odd == code[1] + code[3] + code[5] + code[7] + code[9] + code[11]
           even == code[2] + code[4] + code[6] + code[8] + code[10]
<1>1. sum[0] = 0 /\ \A i \in 1..11 : sum[i] = sum[i - 1] + code[i] * Weight(i)
  BY WeightedSumExists
<1>2. \A i \in 1..12 : code[i] \in 0..9
  BY DEF Digit
<1>3. /\ Weight(1) = 3 /\ Weight(2) = 1 /\ Weight(3) = 3 /\ Weight(4) = 1 /\ Weight(5) = 3 /\ Weight(6) = 1
      /\ Weight(7) = 3 /\ Weight(8) = 1 /\ Weight(9) = 3 /\ Weight(10) = 1 /\ Weight(11) = 3
  BY DEF Weight
<1> HIDE DEF sum
<1>4. /\ sum[1] = sum[0] + code[1] * 3 /\ sum[2] = sum[1] + code[2] /\ sum[3] = sum[2] + code[3] * 3
      /\ sum[4] = sum[3] + code[4] /\ sum[5] = sum[4] + code[5] * 3 /\ sum[6] = sum[5] + code[6]
      /\ sum[7] = sum[6] + code[7] * 3 /\ sum[8] = sum[7] + code[8] /\ sum[9] = sum[8] + code[9] * 3
      /\ sum[10] = sum[9] + code[10] /\ sum[11] = sum[10] + code[11] * 3
  BY <1>1, <1>2, <1>3
<1>5. sum[11] = 3 * odd + even
  <2>1. /\ code[1] \in Nat /\ code[2] \in Nat /\ code[3] \in Nat /\ code[4] \in Nat /\ code[5] \in Nat
        /\ code[6] \in Nat /\ code[7] \in Nat /\ code[8] \in Nat /\ code[9] \in Nat /\ code[10] \in Nat
        /\ code[11] \in Nat
    BY <1>2
  <2>2. sum[4] = 3 * (code[1] + code[3]) + code[2] + code[4] /\ sum[4] \in Nat
    BY <1>1, <1>4, <2>1
  <2>3. /\ sum[8] = 3 * (code[1] + code[3] + code[5] + code[7]) + code[2] + code[4] + code[6] + code[8]
        /\ sum[8] \in Nat
    BY <1>4, <2>1, <2>2
  <2> QED
    BY <1>4, <2>1, <2>3
<1>6. odd \in Nat /\ even \in Nat /\ code[12] \in 0..9
  <2>1. \A i \in 1..12 : code[i] \in Nat
    BY <1>2
  <2> QED
    BY <1>2, <2>1
<1>7. UpcSum(code) = sum[11] + code[12] /\ sum[11] \in Nat
  <2> HIDE DEF odd, even
  <2>1. sum[11] \in Nat
    BY <1>5, <1>6
  <2>2. UpcSum(code) = 3 * odd + even + code[12]
    <3>1. \A i \in 1..12 : code[i] \in Nat
      BY <1>2
    <3> QED
      BY <3>1 DEF UpcSum, odd, even
  <2> QED
    BY <1>5, <2>1, <2>2
<1>8. (10 - (sum[11] % 10)) % 10 = code[12] <=> (sum[11] + code[12]) % 10 = 0
  <2>1. \A s \in Nat, c \in 0..9 : (10 - (s % 10)) % 10 = c <=> (s + c) % 10 = 0
    OBVIOUS
  <2> QED
    BY <1>6, <1>7, <2>1
<1> QED
  BY <1>7, <1>8, CheckDigitIs DEF sum

\* DefaultProductBarcodeNormalizer, whatever the twelve digits: a code scanned as UPC-A and
\* as EAN-13 is one product exactly if its check digit is that of the standard; a number
\* that merely has twelve digits stays apart from the one with a 0 in front.
THEOREM UpcIsGroupedWithEan ==
  ASSUME NEW code \in [1..12 -> Digit]
  PROVE  NormalizeProduct(code) = NormalizeProduct(<<0>> \o code) <=> UpcSum(code) % 10 = 0
<1> DEFINE ean == <<0>> \o code
<1>1. code \in Seq(Digit) /\ Len(code) = 12 /\ code[1] # Bracket /\ Digits(code)
  BY UpcLength DEF Digit, Bracket, Digits
<1>2. Len(ean) = 13 /\ ean[1] = 0 /\ ean # code
  <2>0. code \in Seq(Digit)
    BY <1>1
  <2>1. ASSUME NEW d \in Digit
        PROVE  Len(<<d>> \o code) = Len(code) + 1 /\ (<<d>> \o code)[1] = d
    BY ONLY <2>0, <2>1, WithFirst
  <2>2. Len(ean) = 13 /\ ean[1] = 0
    BY <1>1, <2>1 DEF Digit
  <2> QED
    BY <1>1, <2>2
<1>3. NormalizeProduct(ean) = ean
  BY <1>2 DEF NormalizeProduct, Bracket
<1>4. NormalizeProduct(code) = IF IsValidCheckDigit(code) THEN ean ELSE code
  BY <1>1 DEF NormalizeProduct
<1> QED
  BY <1>2, <1>3, <1>4, UpcCheckDigit

-----------------------------------------------------------------------------
(***************************************************************************)
(* Dates typed by hand.  The field is rewritten at every key; what it      *)
(* shows after each key is told by the digits so far.                      *)
(***************************************************************************)

\* Number.
NumberTable(text) ==
  CHOOSE upTo : upTo = [i \in 0..Len(text) |-> IF i = 0 THEN 0 ELSE 10 * upTo[i - 1] + text[i]]

LEMMA DigitsOf ==
  ASSUME NEW text \in Seq(Digit)
  PROVE  /\ Len(text) \in Nat /\ DOMAIN text = 1..Len(text) /\ Digits(text)
         /\ \A i \in 1..Len(text) : text[i] \in Digit /\ text[i] \in 0..9 /\ text[i] \in Nat
<1>1. Len(text) \in Nat /\ DOMAIN text = 1..Len(text) /\ \A i \in 1..Len(text) : text[i] \in Digit
  OBVIOUS
<1>2. \A d \in Digit : d \in 0..9 /\ d \in Nat
  BY DEF Digit
<1>3. Digits(text)
  BY <1>1 DEF Digits
<1> QED
  BY <1>1, <1>2, <1>3

LEMMA NumberOfTwo ==
  ASSUME NEW text \in Seq(Digit), Len(text) = 2
  PROVE  Number(text) = 10 * text[1] + text[2]
<1> DEFINE n == 2
           step == [i \in 1..n |-> [s \in Int |-> 10 * s + text[i]]]
<1>1. \A i \in 1..n : text[i] \in Int
  BY DigitsOf
<1>2. Stepwise(n, Int, 0, step)
  BY <1>1 DEF Stepwise
<1>3. PICK g \in [0..n -> Int] : g = Along(n, 0, step, g)
  <2> HIDE DEF n, step
  <2> QED
    BY <1>2, StepByStep
<1>4. g = [i \in 0..2 |-> IF i = 0 THEN 0 ELSE 10 * g[i - 1] + text[i]]
  <2>1. \A i \in 1..n : \A s \in Int : step[i][s] = 10 * s + text[i]
    OBVIOUS
  <2>2. \A i \in 1..n : i - 1 \in 0..n /\ g[i - 1] \in Int
    OBVIOUS
  <2> HIDE DEF step
  <2>3. \A i \in 1..n : step[i][g[i - 1]] = 10 * g[i - 1] + text[i]
    BY <2>1, <2>2
  <2> QED
    BY <1>3, <2>3 DEF Along
<1>5. NumberTable(text) = [i \in 0..2 |-> IF i = 0 THEN 0 ELSE 10 * NumberTable(text)[i - 1] + text[i]]
  BY <1>4 DEF NumberTable
<1>6. /\ NumberTable(text)[0] = 0
      /\ NumberTable(text)[1] = 10 * NumberTable(text)[0] + text[1]
      /\ NumberTable(text)[2] = 10 * NumberTable(text)[1] + text[2]
  BY <1>5
<1>7. Number(text) = NumberTable(text)[2]
  BY DEF Number, NumberTable
<1> QED
  BY <1>1, <1>6, <1>7

LEMMA PartOfDigits ==
  ASSUME NEW text \in Seq(Digit), NEW a \in 1..Len(text), NEW b \in a..Len(text)
  PROVE  /\ SubSeq(text, a, b) \in Seq(Digit) /\ Len(SubSeq(text, a, b)) = b - a + 1
         /\ \A i \in 1..(b - a + 1) : SubSeq(text, a, b)[i] = text[a + i - 1]
<1>1. a \in Int /\ b \in Int /\ a <= b /\ \A i \in a..b : text[i] \in Digit
  OBVIOUS
<1> QED
  BY <1>1, SubSeqProperties

DateIn(six) == IsValidDate(2000 + (10 * six[1] + six[2]), 10 * six[3] + six[4], 10 * six[5] + six[6])

LEMMA SixDigits ==
  ASSUME NEW six \in Seq(Digit), Len(six) = 6
  PROVE  /\ ToExpiryDateRaw(six) = IF DateIn(six) THEN <<2, 0>> \o six ELSE None
         /\ NormalizeExpiryInput(six) = IF DateIn(six) THEN <<2, 0>> \o six ELSE six
         /\ <<2, 0>> \o six # None
<1>0. /\ \A i \in 1..6 : six[i] \in Nat
      /\ six \in Seq(Nat) /\ six # <<>> /\ Digits(six)
  <2>1. \A i \in 1..6 : six[i] \in Nat
    BY DigitsOf
  <2>2. six \in Seq(Nat)
    BY DigitsOf, SeqMonotonic DEF Digit
  <2> QED
    BY <2>1, <2>2, DigitsOf
<1>1. /\ Number(SubSeq(six, 1, 2)) = 10 * six[1] + six[2]
      /\ Number(SubSeq(six, 3, 4)) = 10 * six[3] + six[4]
      /\ Number(SubSeq(six, 5, 6)) = 10 * six[5] + six[6]
  <2>1. ASSUME NEW a \in 1..5
        PROVE  Number(SubSeq(six, a, a + 1)) = 10 * six[a] + six[a + 1]
    <3>1. a \in 1..Len(six) /\ a + 1 \in a..Len(six)
      OBVIOUS
    <3>2. /\ SubSeq(six, a, a + 1) \in Seq(Digit) /\ Len(SubSeq(six, a, a + 1)) = 2
          /\ SubSeq(six, a, a + 1)[1] = six[a] /\ SubSeq(six, a, a + 1)[2] = six[a + 1]
      <4>1. a + 1 - a + 1 = 2 /\ a + 1 - 1 = a /\ a + 2 - 1 = a + 1
        OBVIOUS
      <4>2. \A b \in a..Len(six) :
              /\ SubSeq(six, a, b) \in Seq(Digit) /\ Len(SubSeq(six, a, b)) = b - a + 1
              /\ \A i \in 1..(b - a + 1) : SubSeq(six, a, b)[i] = six[a + i - 1]
        BY <3>1, PartOfDigits
      <4> QED
        BY <3>1, <4>1, <4>2
    <3> QED
      BY <3>2, NumberOfTwo
  <2> QED
    BY <2>1
<1>3. <<2, 0>> \o six # None
  <2>1. <<2, 0>> \in Seq(Nat) /\ six \in Seq(Nat) /\ six # <<>>
    BY <1>0
  <2> QED
    BY ONLY <2>1, ConcatEqualIffEmpty DEF None
<1>4. ToExpiryDateRaw(six) = IF DateIn(six) THEN <<2, 0>> \o six ELSE None
  BY <1>0, <1>1 DEF ToExpiryDateRaw, DateIn
<1> QED
  BY <1>3, <1>4 DEF NormalizeExpiryInput

LEMMA NotSixDigits ==
  ASSUME NEW text, Len(text) # 6
  PROVE  NormalizeExpiryInput(text) = text
BY DEF NormalizeExpiryInput, ToExpiryDateRaw

LEMMA PrefixGrows ==
  ASSUME NEW S, NEW text \in Seq(S), NEW i \in 1..Len(text)
  PROVE  Append(SubSeq(text, 1, i - 1), text[i]) = SubSeq(text, 1, i)
<1> DEFINE a == SubSeq(text, 1, i - 1)
           b == SubSeq(text, 1, i)
<1>1. /\ i - 1 \in Int /\ 1 \in Int /\ i \in Int /\ text[i] \in S
      /\ \A j \in 1..(i - 1) : text[j] \in S
      /\ \A j \in 1..i : text[j] \in S
  OBVIOUS
<1>2. /\ a \in Seq(S) /\ Len(a) = i - 1 /\ \A j \in 1..(i - 1) : a[j] = text[j]
  <2>1. /\ a \in Seq(S) /\ Len(a) = IF 1 <= i - 1 THEN i - 1 - 1 + 1 ELSE 0
        /\ \A j \in 1..(i - 1 - 1 + 1) : a[j] = text[1 + j - 1]
    BY <1>1, SubSeqProperties
  <2>2. (IF 1 <= i - 1 THEN i - 1 - 1 + 1 ELSE 0) = i - 1 /\ i - 1 - 1 + 1 = i - 1
    OBVIOUS
  <2>3. \A j \in 1..(i - 1) : 1 + j - 1 = j
    OBVIOUS
  <2> HIDE DEF a
  <2> QED
    BY <2>1, <2>2, <2>3
<1>3. /\ b \in Seq(S) /\ Len(b) = i /\ \A j \in 1..i : b[j] = text[j]
  <2>1. /\ b \in Seq(S) /\ Len(b) = IF 1 <= i THEN i - 1 + 1 ELSE 0
        /\ \A j \in 1..(i - 1 + 1) : b[j] = text[1 + j - 1]
    BY <1>1, SubSeqProperties
  <2>2. (IF 1 <= i THEN i - 1 + 1 ELSE 0) = i /\ i - 1 + 1 = i
    OBVIOUS
  <2>3. \A j \in 1..i : 1 + j - 1 = j
    OBVIOUS
  <2> HIDE DEF b
  <2> QED
    BY <2>1, <2>2, <2>3
<1> HIDE DEF a, b
<1>4. /\ Append(a, text[i]) \in Seq(S) /\ Len(Append(a, text[i])) = i
      /\ \A j \in 1..i : Append(a, text[i])[j] = text[j]
  BY <1>1, <1>2
<1>5. Append(a, text[i]) = b
  BY <1>3, <1>4, SeqEqual
<1> QED
  BY <1>5 DEF a, b

Forms == [product : {None}, expiry : Seq(Digit)]

LEMMA NormalizedDigits ==
  ASSUME NEW text \in Seq(Digit)
  PROVE  NormalizeExpiryInput(text) \in Seq(Digit)
<1>1. CASE Len(text) = 6
  <2>1. 2 \in Digit /\ 0 \in Digit
    BY DEF Digit
  <2>2. <<2, 0>> \in Seq(Digit)
    BY <2>1
  <2>3. <<2, 0>> \o text \in Seq(Digit)
    BY ONLY <2>2, text \in Seq(Digit), ConcatProperties
  <2> QED
    BY <1>1, <2>3, SixDigits
<1>2. CASE Len(text) # 6
  BY <1>2, NotSixDigits
<1> QED
  BY <1>1, <1>2

TypedTable(keys) ==
  CHOOSE form : form =
    [i \in 0..Len(keys) |->
       IF i = 0 THEN EmptyForm ELSE ExpiryFieldChanged(form[i - 1], Append(form[i - 1].expiry, keys[i]))]

Shown(keys, i) == TypedTable(keys)[i].expiry

LEMMA KeyByKey ==
  ASSUME NEW keys \in Seq(Digit)
  PROVE  /\ Typed(keys) = Shown(keys, Len(keys))
         /\ Shown(keys, 0) = <<>>
         /\ \A i \in 1..Len(keys) : Shown(keys, i) = NormalizeExpiryInput(Append(Shown(keys, i - 1), keys[i]))
<1> DEFINE n == Len(keys)
           Rewritten(form, i) == ExpiryFieldChanged(form, Append(form.expiry, keys[i]))
           step == [i \in 1..n |-> [form \in Forms |-> Rewritten(form, i)]]
           T == TypedTable(keys)
<1>1. n \in Nat /\ EmptyForm \in Forms
  BY DEF EmptyForm, Forms, None
<1>2. ASSUME NEW form \in Forms, NEW i \in 1..n
      PROVE  /\ Rewritten(form, i) \in Forms
             /\ Rewritten(form, i).expiry = NormalizeExpiryInput(Append(form.expiry, keys[i]))
  <2>1. form.expiry \in Seq(Digit) /\ keys[i] \in Digit
    BY DEF Forms
  <2>2. Append(form.expiry, keys[i]) \in Seq(Digit)
    BY <2>1
  <2>3. NormalizeExpiryInput(Append(form.expiry, keys[i])) \in Seq(Digit)
    BY <2>2, NormalizedDigits
  <2> QED
    BY <2>3 DEF ExpiryFieldChanged, Forms
<1>3. Stepwise(n, Forms, EmptyForm, step)
  <2> HIDE DEF n, Rewritten
  <2> QED
    BY <1>1, <1>2 DEF Stepwise
<1>4. PICK g \in [0..n -> Forms] : g = Along(n, EmptyForm, step, g)
  <2> HIDE DEF n, step
  <2> QED
    BY <1>3, StepByStep
<1>5. g = [i \in 0..n |-> IF i = 0 THEN EmptyForm ELSE Rewritten(g[i - 1], i)]
  <2> HIDE DEF Rewritten
  <2>1. \A i \in 1..n : i - 1 \in 0..n /\ g[i - 1] \in Forms /\ step[i][g[i - 1]] = Rewritten(g[i - 1], i)
    BY <1>1
  <2> HIDE DEF step, n
  <2> QED
    BY <1>1, <1>4, <2>1 DEF Along
<1>6. T = [i \in 0..n |-> IF i = 0 THEN EmptyForm ELSE Rewritten(T[i - 1], i)]
  BY <1>5 DEF TypedTable
<1> HIDE DEF T, n, step, Rewritten
<1>7. \A i \in 1..n : i \in 0..n /\ i - 1 \in 0..n /\ T[i] = Rewritten(T[i - 1], i)
  BY <1>1, <1>6
<1>8. 0..n \subseteq {i \in 0..n : T[i] \in Forms}
  <2> DEFINE Good == {i \in 0..n : T[i] \in Forms}
  <2>1. 0 \in Good
    BY <1>1, <1>6
  <2>2. ASSUME NEW i \in 1..n, i - 1 \in Good
        PROVE  i \in Good
    BY <1>2, <1>7, <2>2
  <2> HIDE DEF Good
  <2>3. 0..n \subseteq Good
    BY <1>1, <2>1, <2>2, InductionTo
  <2> QED
    BY <2>3 DEF Good
<1>9. Typed(keys) = T[n].expiry
  BY DEF Typed, TypedTable, T, n
<1>10. T[0].expiry = <<>>
  BY <1>1, <1>6 DEF EmptyForm, None
<1>11. \A i \in 1..n : T[i].expiry = NormalizeExpiryInput(Append(T[i - 1].expiry, keys[i]))
  BY <1>2, <1>7, <1>8
<1> QED
  BY <1>9, <1>10, <1>11 DEF Shown, T, n

LEMMA PrefixOf ==
  ASSUME NEW S, NEW text \in Seq(S), NEW i \in 0..Len(text)
  PROVE  /\ SubSeq(text, 1, i) \in Seq(S) /\ Len(SubSeq(text, 1, i)) = i
         /\ \A j \in 1..i : SubSeq(text, 1, i)[j] = text[j]
<1>1. 1 \in Int /\ i \in Int /\ \A j \in 1..i : text[j] \in S
  OBVIOUS
<1>2. /\ SubSeq(text, 1, i) \in Seq(S) /\ Len(SubSeq(text, 1, i)) = IF 1 <= i THEN i - 1 + 1 ELSE 0
      /\ \A j \in 1..(i - 1 + 1) : SubSeq(text, 1, i)[j] = text[1 + j - 1]
  BY <1>1, SubSeqProperties
<1>3. (IF 1 <= i THEN i - 1 + 1 ELSE 0) = i /\ i - 1 + 1 = i
  OBVIOUS
<1>4. \A j \in 1..i : 1 + j - 1 = j
  OBVIOUS
<1> QED
  BY <1>2, <1>3, <1>4

LEMMA WholeOf ==
  ASSUME NEW S, NEW text \in Seq(S)
  PROVE  SubSeq(text, 1, Len(text)) = text
<1> DEFINE whole == SubSeq(text, 1, Len(text))
<1>1. Len(text) \in 0..Len(text)
  OBVIOUS
<1>2. whole \in Seq(S) /\ Len(whole) = Len(text) /\ \A j \in 1..Len(text) : whole[j] = text[j]
  BY <1>1, PrefixOf
<1> HIDE DEF whole
<1>3. whole = text
  BY <1>2, SeqEqual
<1> QED
  BY <1>3 DEF whole

\* As long as the rewriting leaves the digits so far alone, they are what is shown.
LEMMA ShownAsTyped ==
  ASSUME NEW keys \in Seq(Digit), NEW n \in 0..Len(keys),
         \A i \in 1..n : NormalizeExpiryInput(SubSeq(keys, 1, i)) = SubSeq(keys, 1, i)
  PROVE  Shown(keys, n) = SubSeq(keys, 1, n)
<1> DEFINE Good == {i \in 0..n : Shown(keys, i) = SubSeq(keys, 1, i)}
<1>1. n \in Nat /\ \A i \in 1..n : i \in 1..Len(keys) /\ i \in 0..n
  OBVIOUS
<1>2. 0 \in Good
  <2>1. 0 \in 0..Len(keys)
    OBVIOUS
  <2>2. SubSeq(keys, 1, 0) \in Seq(Digit) /\ Len(SubSeq(keys, 1, 0)) = 0
    BY <2>1, PrefixOf
  <2>3. SubSeq(keys, 1, 0) = <<>>
    BY <2>2
  <2>4. 0 \in 0..n /\ Shown(keys, 0) = <<>>
    BY <1>1, KeyByKey
  <2> QED
    BY <2>3, <2>4
<1>3. ASSUME NEW i \in 1..n, i - 1 \in Good
      PROVE  i \in Good
  <2>1. Shown(keys, i) = NormalizeExpiryInput(Append(Shown(keys, i - 1), keys[i]))
    BY <1>1, KeyByKey
  <2>2. Append(SubSeq(keys, 1, i - 1), keys[i]) = SubSeq(keys, 1, i)
    BY <1>1, PrefixGrows
  <2> QED
    BY <1>1, <1>3, <2>1, <2>2
<1> HIDE DEF Good
<1>4. 0..n \subseteq Good
  BY <1>1, <1>2, <1>3, InductionTo
<1>5. n \in Good
  BY <1>1, <1>4
<1> QED
  BY <1>5 DEF Good

LEMMA PrefixLeftAlone ==
  ASSUME NEW keys \in Seq(Digit), NEW i \in 0..Len(keys), i # 6
  PROVE  NormalizeExpiryInput(SubSeq(keys, 1, i)) = SubSeq(keys, 1, i)
<1>1. Len(SubSeq(keys, 1, i)) = i
  BY PrefixOf
<1> QED
  BY <1>1, NotSixDigits

\* A date of the years from 2013 on, in eight digits.
IsExpiryDate(date) ==
  /\ date \in [1..8 -> Digit]
  /\ date[1] = 2 /\ date[2] = 0 /\ 10 * date[3] + date[4] >= 13
  /\ IsValidDate(2000 + (10 * date[3] + date[4]), 10 * date[5] + date[6], 10 * date[7] + date[8])

LEMMA WithCentury ==
  ASSUME NEW six \in Seq(Digit), Len(six) = 6
  PROVE  /\ <<2, 0>> \o six \in Seq(Digit) /\ Len(<<2, 0>> \o six) = 8
         /\ (<<2, 0>> \o six)[1] = 2 /\ (<<2, 0>> \o six)[2] = 0
         /\ \A j \in 1..6 : (<<2, 0>> \o six)[j + 2] = six[j]
<1> DEFINE century == <<2, 0>>
<1>1. century \in Seq(Digit) /\ Len(century) = 2 /\ century[1] = 2 /\ century[2] = 0
  BY DEF Digit
<1> HIDE DEF century
<1>2. /\ century \o six \in Seq(Digit) /\ Len(century \o six) = Len(century) + Len(six)
      /\ \A i \in 1..(Len(century) + Len(six)) :
           (century \o six)[i] = IF i <= Len(century) THEN century[i] ELSE six[i - Len(century)]
  BY <1>1, ConcatProperties, Zenon
<1>3. \A j \in 1..6 : j + 2 \in 1..8 /\ ~ (j + 2 <= 2) /\ j + 2 - 2 = j
  OBVIOUS
<1> DEFINE date == century \o six
<1> HIDE DEF date
<1>4. /\ Len(date) = 8
      /\ \A i \in 1..8 : date[i] = IF i <= 2 THEN century[i] ELSE six[i - 2]
  <2>1. Len(century) + Len(six) = 8
    BY <1>1
  <2> QED
    BY ONLY <1>1, <1>2, <2>1, Len(six) = 6 DEF date
<1>5. date[1] = 2 /\ date[2] = 0
  <2>1. 1 \in 1..8 /\ 2 \in 1..8 /\ 1 <= 2 /\ 2 <= 2
    OBVIOUS
  <2> QED
    BY <1>1, <1>4, <2>1
<1>6. \A j \in 1..6 : date[j + 2] = six[j]
  BY <1>3, <1>4
<1> QED
  BY <1>1, <1>2, <1>4, <1>5, <1>6 DEF century, date

\* useWarehousePage.setExpiryDate rewrites the field at every key.  For every date from 2013
\* on, the date stands there after its eight digits, and also after its last six.
THEOREM TypedDateStands ==
  ASSUME NEW date, IsExpiryDate(date)
  PROVE  Typed(date) = date /\ Typed(SubSeq(date, 3, 8)) = date
<1>0. 8 \in Nat
  OBVIOUS
<1>1. date \in Seq(Digit) /\ Len(date) = 8
  <2>1. date \in [1..8 -> Digit]
    BY DEF IsExpiryDate
  <2> QED
    BY ONLY <1>0, <2>1, FunctionIsSeq
<1>2. Typed(date) = date
  <2>1. ASSUME NEW i \in 1..8
        PROVE  NormalizeExpiryInput(SubSeq(date, 1, i)) = SubSeq(date, 1, i)
    <3>1. CASE i = 6
      <4> DEFINE six == SubSeq(date, 1, 6)
      <4>0. 6 \in 0..Len(date)
        BY <1>1
      <4>1. six \in Seq(Digit) /\ Len(six) = 6 /\ \A j \in 1..6 : six[j] = date[j]
        BY <1>1, <4>0, PrefixOf
      <4>2. ~ (10 * six[3] + six[4] \in 1..12)
        <5>1. date[3] \in Nat /\ date[4] \in Nat /\ 10 * date[3] + date[4] >= 13
          BY DEF IsExpiryDate, Digit
        <5> HIDE DEF six
        <5>2. six[3] = date[3] /\ six[4] = date[4]
          BY <4>1
        <5> QED
          BY <5>1, <5>2
      <4> HIDE DEF six
      <4>3. ~ DateIn(six)
        BY <4>2 DEF DateIn, IsValidDate
      <4>4. NormalizeExpiryInput(six) = six
        BY <4>1, <4>3, SixDigits
      <4> QED
        BY <3>1, <4>4 DEF six
    <3>2. CASE i # 6
      <4>1. i \in 0..Len(date)
        BY <1>1
      <4> QED
        BY <1>1, <3>2, <4>1, PrefixLeftAlone
    <3> QED
      BY <3>1, <3>2
  <2>2. Shown(date, 8) = SubSeq(date, 1, 8)
    <3>1. ASSUME NEW n \in 0..Len(date), n = 8
          PROVE  Shown(date, n) = SubSeq(date, 1, n)
      BY <1>1, <2>1, <3>1, ShownAsTyped
    <3>2. 8 \in 0..Len(date)
      BY <1>1
    <3> QED
      BY <3>1, <3>2
  <2> QED
    BY <1>1, <2>2, WholeOf, KeyByKey
<1>3. Typed(SubSeq(date, 3, 8)) = date
  <2> DEFINE six == SubSeq(date, 3, 8)
  <2>1. six \in Seq(Digit) /\ Len(six) = 6 /\ \A j \in 1..6 : six[j] = date[j + 2]
    <3>1. /\ 3 \in 1..Len(date) /\ 8 \in 3..Len(date) /\ 8 - 3 + 1 = 6
          /\ \A j \in 1..6 : 3 + j - 1 = j + 2
      BY <1>1
    <3>2. \A a \in 1..Len(date) : \A b \in a..Len(date) :
            /\ SubSeq(date, a, b) \in Seq(Digit) /\ Len(SubSeq(date, a, b)) = b - a + 1
            /\ \A i \in 1..(b - a + 1) : SubSeq(date, a, b)[i] = date[a + i - 1]
      BY <1>1, PartOfDigits
    <3> QED
      BY <3>1, <3>2
  <2> HIDE DEF six
  <2>2. DateIn(six)
    <3>1. /\ six[1] = date[3] /\ six[2] = date[4] /\ six[3] = date[5]
          /\ six[4] = date[6] /\ six[5] = date[7] /\ six[6] = date[8]
      BY <2>1
    <3> QED
      BY <3>1 DEF DateIn, IsExpiryDate
  <2>3. Shown(six, 5) = SubSeq(six, 1, 5)
    <3>1. 5 \in 0..Len(six) /\ \A i \in 1..5 : i \in 0..Len(six) /\ i # 6
      BY <2>1
    <3>2. \A i \in 1..5 : NormalizeExpiryInput(SubSeq(six, 1, i)) = SubSeq(six, 1, i)
      BY <2>1, <3>1, PrefixLeftAlone
    <3> QED
      BY <2>1, <3>1, <3>2, ShownAsTyped
  <2>4. Shown(six, 6) = NormalizeExpiryInput(six)
    <3>1. 6 \in 1..Len(six) /\ 6 - 1 = 5 /\ 6 = Len(six)
      BY <2>1
    <3>2. Shown(six, 6) = NormalizeExpiryInput(Append(Shown(six, 5), six[6]))
      <4>1. \A i \in 1..Len(six) : Shown(six, i) = NormalizeExpiryInput(Append(Shown(six, i - 1), six[i]))
        BY <2>1, KeyByKey
      <4> QED
        BY <3>1, <4>1
    <3>3. Append(SubSeq(six, 1, 5), six[6]) = six
      <4>1. \A i \in 1..Len(six) : Append(SubSeq(six, 1, i - 1), six[i]) = SubSeq(six, 1, i)
        BY <2>1, PrefixGrows
      <4> QED
        BY <2>1, <3>1, <4>1, WholeOf
    <3> QED
      BY <2>3, <3>2, <3>3
  <2>5. Typed(six) = <<2, 0>> \o six
    BY <2>1, <2>2, <2>4, SixDigits, KeyByKey
  <2>6. <<2, 0>> \o six = date
    <3>1. /\ <<2, 0>> \o six \in Seq(Digit) /\ Len(<<2, 0>> \o six) = 8
          /\ (<<2, 0>> \o six)[1] = 2 /\ (<<2, 0>> \o six)[2] = 0
          /\ \A j \in 1..6 : (<<2, 0>> \o six)[j + 2] = six[j]
      BY <2>1, WithCentury
    <3>2. date[1] = 2 /\ date[2] = 0
      BY DEF IsExpiryDate
    <3>3. ASSUME NEW i \in 1..8
          PROVE  (<<2, 0>> \o six)[i] = date[i]
      <4>1. i = 1 \/ i = 2 \/ (i - 2 \in 1..6 /\ i - 2 + 2 = i)
        OBVIOUS
      <4> QED
        BY <2>1, <3>1, <3>2, <4>1
    <3> QED
      BY <1>1, <3>1, <3>3, SeqEqual
  <2> QED
    BY <2>5, <2>6 DEF six
<1> QED
  BY <1>2, <1>3

\* Every date the runs type is one of those.
LEMMA DateWithCentury ==
  ASSUME NEW x \in WithTheCentury
  PROVE  \E d \in RealDates : x = <<2, 0>> \o d
BY ONLY x \in WithTheCentury DEF WithTheCentury

LEMMA DateFirstOfMonth ==
  ASSUME NEW x \in FirstsOfMonths
  PROVE  \E y \in 13..99, m \in 1..12 : x = FirstOfMonth(y, m)
BY ONLY x \in FirstsOfMonths DEF FirstsOfMonths

LEMMA EveryDateStands == EveryDate
<1>1. ASSUME NEW date \in Dates
      PROVE  IsExpiryDate(date)
  <2>1. ASSUME NEW d \in RealDates, date = <<2, 0>> \o d
        PROVE  IsExpiryDate(date)
    <3>1. ASSUME NEW six, six = <<2, 6, 1, 2, 3, 1>> \/ six = <<2, 4, 0, 2, 2, 9>>
          PROVE  /\ six \in Seq(Digit) /\ Len(six) = 6
                 /\ 10 * six[1] + six[2] >= 13
                 /\ IsValidDate(2000 + (10 * six[1] + six[2]), 10 * six[3] + six[4], 10 * six[5] + six[6])
      <4>1. IsValidDate(2026, 12, 31) /\ IsValidDate(2024, 2, 29)
        BY DEF IsValidDate, DaysIn
      <4>2. six \in Seq(Digit) /\ Len(six) = 6
        <5>1. /\ 0 \in Digit /\ 1 \in Digit /\ 2 \in Digit /\ 3 \in Digit /\ 4 \in Digit
              /\ 6 \in Digit /\ 9 \in Digit
          BY DEF Digit
        <5>2. ASSUME NEW a \in Digit, NEW b \in Digit, NEW c \in Digit, NEW e \in Digit,
                     NEW f \in Digit, NEW g \in Digit
              PROVE  <<a, b, c, e, f, g>> \in Seq(Digit) /\ Len(<<a, b, c, e, f, g>>) = 6
          OBVIOUS
        <5>3. /\ <<2, 6, 1, 2, 3, 1>> \in Seq(Digit) /\ Len(<<2, 6, 1, 2, 3, 1>>) = 6
              /\ <<2, 4, 0, 2, 2, 9>> \in Seq(Digit) /\ Len(<<2, 4, 0, 2, 2, 9>>) = 6
          BY <5>1, <5>2, Zenon
        <5> QED
          BY <3>1, <5>3, Zenon
      <4>3. CASE six = <<2, 6, 1, 2, 3, 1>>
        <5>1. 10 * six[1] + six[2] = 26 /\ 10 * six[3] + six[4] = 12 /\ 10 * six[5] + six[6] = 31
          BY <4>3
        <5> QED
          BY <4>1, <4>2, <5>1
      <4>4. CASE six = <<2, 4, 0, 2, 2, 9>>
        <5>1. 10 * six[1] + six[2] = 24 /\ 10 * six[3] + six[4] = 2 /\ 10 * six[5] + six[6] = 29
          BY <4>4
        <5> QED
          BY <4>1, <4>2, <5>1
      <4> QED
        BY <3>1, <4>3, <4>4
    <3>2. /\ d \in Seq(Digit) /\ Len(d) = 6
          /\ 10 * d[1] + d[2] >= 13
          /\ IsValidDate(2000 + (10 * d[1] + d[2]), 10 * d[3] + d[4], 10 * d[5] + d[6])
      BY <3>1 DEF RealDates
    <3>3. /\ date \in Seq(Digit) /\ Len(date) = 8 /\ date[1] = 2 /\ date[2] = 0
          /\ \A j \in 1..6 : date[j + 2] = d[j]
      BY <2>1, <3>2, WithCentury
    <3>4. /\ date[3] = d[1] /\ date[4] = d[2] /\ date[5] = d[3]
          /\ date[6] = d[4] /\ date[7] = d[5] /\ date[8] = d[6]
      BY <3>3
    <3>5. date \in [1..8 -> Digit]
      <4>1. date \in [1..Len(date) -> Digit]
        <5>1. date \in Seq(Digit)
          BY <3>3
        <5> QED
          BY ONLY <5>1
      <4> QED
        BY <3>3, <4>1
    <3> QED
      BY <3>2, <3>3, <3>4, <3>5 DEF IsExpiryDate
  <2>2. ASSUME NEW y \in 13..99, NEW m \in 1..12,
               date = FirstOfMonth(y, m)
        PROVE  IsExpiryDate(date)
    <3>0. date = <<2, 0, y \div 10, y % 10, m \div 10, m % 10, 0, 1>>
      BY <2>2 DEF FirstOfMonth
    <3>1. /\ y \div 10 \in 0..9 /\ y % 10 \in 0..9 /\ m \div 10 \in 0..9 /\ m % 10 \in 0..9
          /\ 10 * (y \div 10) + (y % 10) = y /\ 10 * (m \div 10) + (m % 10) = m
      OBVIOUS
    <3>2. date \in [1..8 -> Digit]
      BY <3>0, <3>1 DEF Digit
    <3>3. /\ date[1] = 2 /\ date[2] = 0 /\ 10 * date[3] + date[4] = y
          /\ 10 * date[5] + date[6] = m /\ 10 * date[7] + date[8] = 1
      BY <3>0, <3>1
    <3>4. IsValidDate(2000 + y, m, 1)
      BY DEF IsValidDate, DaysIn
    <3> QED
      BY <3>2, <3>3, <3>4 DEF IsExpiryDate
  <2>4. \/ \E d \in RealDates : date = <<2, 0>> \o d
        \/ \E y \in 13..99, m \in 1..12 : date = FirstOfMonth(y, m)
    <3>1. date \in WithTheCentury \/ date \in FirstsOfMonths
      BY Zenon DEF Dates
    <3> QED
      BY ONLY <3>1, DateWithCentury, DateFirstOfMonth, Zenon
  <2> QED
    BY <2>1, <2>2, <2>4
<1> QED
  BY <1>1, TypedDateStands DEF EveryDate

-----------------------------------------------------------------------------
(***************************************************************************)
(* Pallet codes, in texts of any length.  The server drops characters, and *)
(* Kept and Canonical work piece by piece: what it reads in a text follows *)
(* from what it sees of the pieces.  Then a printed code with anything     *)
(* around it (PalletLabel), as the page reads it and as the server does.   *)
(***************************************************************************)

KeptTable(text, chars) ==
  CHOOSE upTo : upTo =
    [i \in 0..Len(text) |->
       IF i = 0 THEN <<>>
       ELSE upTo[i - 1] \o (IF text[i] \in chars THEN <<text[i]>> ELSE <<>>)]

\* What is kept of the first i characters.
KeptTo(text, chars, i) == KeptTable(text, chars)[i]

CharByChar(S, chars, text) ==
  /\ Kept(text, chars) = KeptTo(text, chars, Len(text))
  /\ KeptTo(text, chars, 0) = <<>>
  /\ \A i \in 0..Len(text) : KeptTo(text, chars, i) \in Seq(S)
  /\ \A i \in 1..Len(text) :
       KeptTo(text, chars, i) = IF text[i] \in chars THEN Append(KeptTo(text, chars, i - 1), text[i])
                                ELSE KeptTo(text, chars, i - 1)

LEMMA JoinOne ==
  ASSUME NEW S, NEW s \in Seq(S), NEW x \in S
  PROVE  s \o <<x>> = Append(s, x) /\ s \o <<>> = s /\ Append(s, x) \in Seq(S)
<1>1. s \o <<>> = s /\ Append(s, x) \in Seq(S)
  BY ConcatEmptySeq
<1>2. s \o <<x>> = Append(s, x)
  BY AppendIsConcat
<1> QED
  BY <1>1, <1>2

LEMMA KeptCharByChar ==
  ASSUME NEW S, NEW chars, NEW text \in Seq(S)
  PROVE  CharByChar(S, chars, text)
<1> DEFINE n == Len(text)
           none == <<>>
           More(s, i) == s \o (IF text[i] \in chars THEN <<text[i]>> ELSE <<>>)
           step == [i \in 1..n |-> [s \in Seq(S) |-> More(s, i)]]
           T == KeptTable(text, chars)
<1>1. n \in Nat /\ none \in Seq(S)
  OBVIOUS
<1>2. ASSUME NEW s \in Seq(S), NEW i \in 1..n
      PROVE  /\ More(s, i) \in Seq(S)
             /\ More(s, i) = IF text[i] \in chars THEN Append(s, text[i]) ELSE s
  <2>1. text[i] \in S
    OBVIOUS
  <2>2. /\ s \o <<text[i]>> = Append(s, text[i]) /\ s \o <<>> = s
        /\ Append(s, text[i]) \in Seq(S)
    BY ONLY <2>1, s \in Seq(S), JoinOne
  <2> QED
    BY <2>2
<1>3. Stepwise(n, Seq(S), none, step)
  <2> HIDE DEF n, none, More
  <2> QED
    BY <1>1, <1>2 DEF Stepwise
<1>4. PICK g \in [0..n -> Seq(S)] : g = Along(n, none, step, g)
  <2> HIDE DEF n, none, step
  <2> QED
    BY <1>3, StepByStep
<1>5. g = [i \in 0..n |-> IF i = 0 THEN none ELSE More(g[i - 1], i)]
  <2> HIDE DEF More
  <2>1. \A i \in 1..n : i - 1 \in 0..n /\ g[i - 1] \in Seq(S) /\ step[i][g[i - 1]] = More(g[i - 1], i)
    BY <1>1
  <2> HIDE DEF step, n, none
  <2> QED
    BY <1>1, <1>4, <2>1 DEF Along
<1>6. T = [i \in 0..n |-> IF i = 0 THEN none ELSE More(T[i - 1], i)]
  BY <1>5 DEF KeptTable
<1> HIDE DEF T, n, none, step, More
<1>7. \A i \in 1..n : i \in 0..n /\ i - 1 \in 0..n /\ T[i] = More(T[i - 1], i)
  BY <1>1, <1>6
<1>8. T[0] = none
  BY <1>1, <1>6
<1>9. 0..n \subseteq {i \in 0..n : T[i] \in Seq(S)}
  <2> DEFINE Good == {i \in 0..n : T[i] \in Seq(S)}
  <2>1. 0 \in Good
    BY <1>1, <1>8
  <2>2. ASSUME NEW i \in 1..n, i - 1 \in Good
        PROVE  i \in Good
    BY <1>2, <1>7, <2>2
  <2> HIDE DEF Good
  <2>3. 0..n \subseteq Good
    BY <1>1, <2>1, <2>2, InductionTo
  <2> QED
    BY <2>3 DEF Good
<1>10. Kept(text, chars) = T[n]
  BY DEF Kept, KeptTable, T, n
<1>11. \A i \in 1..n : T[i] = IF text[i] \in chars THEN Append(T[i - 1], text[i]) ELSE T[i - 1]
  BY <1>2, <1>7, <1>9
<1> QED
  BY <1>8, <1>9, <1>10, <1>11 DEF CharByChar, KeptTo, T, n, none

Char == 0..20

LEMMA LeastIs ==
  ASSUME NEW places \in SUBSET Int, NEW least \in places, \A i \in places : least <= i
  PROVE  Least(places) = least
<1>1. \E i \in places : \A j \in places : i <= j
  OBVIOUS
<1>2. Least(places) \in places /\ \A j \in places : Least(places) <= j
  BY <1>1 DEF Least
<1>3. Least(places) \in Int /\ least \in Int /\ Least(places) <= least /\ least <= Least(places)
  BY <1>2
<1> QED
  BY <1>3

LEMMA PartOf ==
  ASSUME NEW S, NEW text \in Seq(S), NEW a \in Nat \ {0}, NEW b \in Nat, a <= b, b <= Len(text)
  PROVE  /\ SubSeq(text, a, b) \in Seq(S) /\ Len(SubSeq(text, a, b)) = b - a + 1
         /\ \A i \in 1..(b - a + 1) : SubSeq(text, a, b)[i] = text[a + i - 1]
<1>1. a \in Int /\ b \in Int /\ a <= b /\ \A i \in a..b : text[i] \in S
  OBVIOUS
<1> QED
  BY <1>1, SubSeqProperties

Sign == <<P, Dash>>
SignAt(text, i) == text[i] = P /\ text[i + 1] = Dash

LEMMA WhereSignsAre ==
  ASSUME NEW S, NEW text \in Seq(S), NEW i \in 1..(Len(text) - 1)
  PROVE  SubSeq(text, i, i + 1) = Sign <=> SignAt(text, i)
<1> DEFINE pair == SubSeq(text, i, i + 1)
<1>1. i \in Nat \ {0} /\ i + 1 \in Nat /\ i <= i + 1 /\ i + 1 <= Len(text) /\ i + 1 - i + 1 = 2
  OBVIOUS
<1>2. pair \in Seq(S) /\ Len(pair) = 2 /\ pair[1] = text[i] /\ pair[2] = text[i + 1]
  <2>1. ASSUME NEW b \in Nat, b = i + 1
        PROVE  /\ SubSeq(text, i, b) \in Seq(S) /\ Len(SubSeq(text, i, b)) = b - i + 1
               /\ \A j \in 1..(b - i + 1) : SubSeq(text, i, b)[j] = text[i + j - 1]
    <3>1. i <= b /\ b <= Len(text)
      BY <1>1, <2>1
    <3> QED
      BY <1>1, <3>1, PartOf
  <2>2. ASSUME NEW b \in Nat, b = i + 1
        PROVE  /\ SubSeq(text, i, b) \in Seq(S) /\ Len(SubSeq(text, i, b)) = 2
               /\ SubSeq(text, i, b)[1] = text[i] /\ SubSeq(text, i, b)[2] = text[b]
    <3>1. b - i + 1 = 2 /\ i + 1 - 1 = i /\ i + 2 - 1 = b /\ 1 \in 1..2 /\ 2 \in 1..2
      BY <1>1, <2>2
    <3> DEFINE part == SubSeq(text, i, b)
    <3>2. part \in Seq(S) /\ Len(part) = b - i + 1 /\ \A j \in 1..(b - i + 1) : part[j] = text[i + j - 1]
      BY <2>1, <2>2
    <3> HIDE DEF part
    <3>3. part \in Seq(S) /\ Len(part) = 2 /\ part[1] = text[i] /\ part[2] = text[b]
      BY ONLY <3>1, <3>2
    <3> QED
      BY <3>3 DEF part
  <2> QED
    BY <1>1, <2>2
<1> HIDE DEF pair
<1>3. ASSUME pair = Sign
      PROVE  pair[1] = P /\ pair[2] = Dash
  BY <1>3 DEF Sign
<1>4. ASSUME pair[1] = P, pair[2] = Dash
      PROVE  pair = Sign
  BY <1>2, <1>4 DEF Sign
<1> QED
  BY <1>2, <1>3, <1>4 DEF pair, SignAt

LEMMA FirstSign ==
  ASSUME NEW S, NEW text \in Seq(S), NEW at \in Nat, \A i \in 1..at : text[i] # Dash,
         NEW places \in SUBSET (1..(Len(text) - 1)), at \in places,
         \A i \in places : SubSeq(text, i, i + 1) = Sign
  PROVE  Least(places) = at
<1>1. ASSUME NEW i \in places
      PROVE  at <= i
  <2>1. i \in 1..(Len(text) - 1) /\ SubSeq(text, i, i + 1) = Sign
    OBVIOUS
  <2>2. text[i + 1] = Dash
    BY <2>1, WhereSignsAre DEF SignAt
  <2>3. i \in Nat /\ i + 1 \notin 1..at
    BY <2>1, <2>2
  <2> QED
    BY <2>3
<1>2. places \in SUBSET Int
  OBVIOUS
<1> QED
  BY <1>1, <1>2, LeastIs

LEMMA BeforeIs ==
  ASSUME NEW S, NEW text \in Seq(S), NEW from \in Nat \ {0}, NEW to \in Nat, NEW stops,
         from <= to, to <= Len(text),
         \A i \in from..to : text[i] \notin stops,
         to < Len(text) => text[to + 1] \in stops
  PROVE  Before(text, from, stops) = SubSeq(text, from, to)
<1> DEFINE ends == {j \in from..Len(text) : text[j] \in stops}
<1>0. Len(text) \in Nat
  OBVIOUS
<1>1. CASE to = Len(text)
  <2>1. ends = {}
    BY <1>1
  <2> QED
    BY <1>1, <2>1 DEF Before
<1>2. CASE to # Len(text)
  <2>1. to < Len(text) /\ to + 1 \in from..Len(text)
    BY <1>0, <1>2
  <2>2. to + 1 \in ends /\ ends \in SUBSET Int
    BY <2>1
  <2>3. \A i \in ends : to + 1 <= i
    OBVIOUS
  <2> HIDE DEF ends
  <2>4. Least(ends) = to + 1
    BY <2>2, <2>3, LeastIs
  <2>5. ends # {} /\ Least(ends) - 1 = to
    BY <2>2, <2>4
  <2> QED
    BY <2>5 DEF Before, ends
<1> QED
  BY <1>1, <1>2

\* What holds of the empty text and is kept by one more character holds of every text.
LEMMA CharacterByCharacter ==
  ASSUME NEW S, NEW Good, <<>> \in Good,
         \A s \in Seq(S) : \A x \in S : s \in Good => Append(s, x) \in Good
  PROVE  Seq(S) \subseteq Good
<1> SUFFICES ASSUME NEW text \in Seq(S)
             PROVE  text \in Good
  OBVIOUS
<1> DEFINE n == Len(text)
           Reached == {i \in 0..n : SubSeq(text, 1, i) \in Good}
<1>1. n \in Nat
  OBVIOUS
<1>2. 0 \in Reached
  <2>1. SubSeq(text, 1, 0) = <<>>
    BY SubSeqEmpty
  <2>2. SubSeq(text, 1, 0) \in Good
    BY <2>1, <<>> \in Good, Zenon
  <2>3. 0 \in 0..n
    BY <1>1
  <2> QED
    BY <2>2, <2>3, Zenon
<1>3. ASSUME NEW i \in 1..n, i - 1 \in Reached
      PROVE  i \in Reached
  <2>1. i - 1 \in 0..n /\ i \in 0..n /\ text[i] \in S
    BY <1>1
  <2>2. SubSeq(text, 1, i - 1) \in Seq(S)
    BY <2>1, PrefixOf
  <2>3. Append(SubSeq(text, 1, i - 1), text[i]) = SubSeq(text, 1, i)
    BY PrefixGrows
  <2>4. SubSeq(text, 1, i - 1) \in Good
    BY <1>3
  <2> QED
    BY <2>1, <2>2, <2>3, <2>4
<1> HIDE DEF Reached
<1>4. 0..n \subseteq Reached
  BY <1>1, <1>2, <1>3, InductionTo
<1>5. SubSeq(text, 1, n) \in Good
  <2>1. n \in 0..n
    BY <1>1
  <2> QED
    BY <1>4, <2>1 DEF Reached
<1> QED
  BY <1>5, SubSeqFull

LEMMA KeptNothing ==
  ASSUME NEW chars
  PROVE  Kept(<<>>, chars) = <<>>
<1>1. <<>> \in Seq(Nat) /\ Len(<<>>) = 0
  OBVIOUS
<1>2. CharByChar(Nat, chars, <<>>)
  BY <1>1, KeptCharByChar
<1> QED
  BY <1>1, <1>2 DEF CharByChar

LEMMA KeptIn ==
  ASSUME NEW S, NEW chars, NEW text \in Seq(S)
  PROVE  Kept(text, chars) \in Seq(S)
<1>1. CharByChar(S, chars, text) /\ Len(text) \in 0..Len(text)
  BY KeptCharByChar
<1> QED
  BY <1>1 DEF CharByChar

LEMMA KeptOneMore ==
  ASSUME NEW S, NEW chars, NEW text \in Seq(S), NEW x \in S
  PROVE  Kept(Append(text, x), chars)
            = IF x \in chars THEN Append(Kept(text, chars), x) ELSE Kept(text, chars)
<1> DEFINE more == Append(text, x)
           n == Len(text)
           Same == {i \in 0..n : KeptTo(more, chars, i) = KeptTo(text, chars, i)}
<1>1. n \in Nat /\ more \in Seq(S) /\ Len(more) = n + 1 /\ more[n + 1] = x
      /\ \A i \in 1..n : more[i] = text[i]
  OBVIOUS
<1>2. CharByChar(S, chars, text) /\ CharByChar(S, chars, more)
  <2> HIDE DEF more
  <2> QED
    BY <1>1, KeptCharByChar
<1> HIDE DEF more
<1>3. 0 \in Same
  BY <1>1, <1>2 DEF CharByChar
<1>4. ASSUME NEW i \in 1..n, i - 1 \in Same
      PROVE  i \in Same
  <2>1. i \in 1..Len(text) /\ i \in 1..Len(more) /\ i \in 0..n
    BY <1>1
  <2>2. /\ KeptTo(more, chars, i) = IF more[i] \in chars THEN Append(KeptTo(more, chars, i - 1), more[i])
                                    ELSE KeptTo(more, chars, i - 1)
        /\ KeptTo(text, chars, i) = IF text[i] \in chars THEN Append(KeptTo(text, chars, i - 1), text[i])
                                    ELSE KeptTo(text, chars, i - 1)
    BY <1>2, <2>1 DEF CharByChar
  <2> QED
    BY <1>1, <1>4, <2>1, <2>2
<1> HIDE DEF Same
<1>5. 0..n \subseteq Same
  BY <1>1, <1>3, <1>4, InductionTo
<1>6. KeptTo(more, chars, n) = KeptTo(text, chars, n)
  <2>1. n \in 0..n
    BY <1>1
  <2> QED
    BY <1>5, <2>1 DEF Same
<1>7. Kept(text, chars) = KeptTo(text, chars, n)
  <2>1. n \in 0..Len(text)
    BY <1>1
  <2> QED
    BY <1>2, <2>1 DEF CharByChar
<1>8. Kept(more, chars) = IF x \in chars THEN Append(KeptTo(more, chars, n), x) ELSE KeptTo(more, chars, n)
  <2>1. n + 1 \in 1..Len(more) /\ n + 1 - 1 = n
    BY <1>1
  <2>2. Kept(more, chars) = KeptTo(more, chars, n + 1)
    BY <1>1, <1>2 DEF CharByChar
  <2> DEFINE Step(i) == KeptTo(more, chars, i) = IF more[i] \in chars
               THEN Append(KeptTo(more, chars, i - 1), more[i]) ELSE KeptTo(more, chars, i - 1)
  <2>3. \A i \in 1..Len(more) : Step(i)
    BY <1>2 DEF CharByChar
  <2> HIDE DEF Step
  <2>4. Step(n + 1)
    BY ONLY <2>1, <2>3, Zenon
  <2> QED
    BY ONLY <1>1, <2>1, <2>2, <2>4 DEF Step
<1> QED
  BY <1>6, <1>7, <1>8 DEF more

LEMMA AppendOfConcat ==
  ASSUME NEW S, NEW a \in Seq(S), NEW b \in Seq(S), NEW x \in S
  PROVE  a \o Append(b, x) = Append(a \o b, x)
<1>1. <<x>> \in Seq(S) /\ a \o b \in Seq(S)
  OBVIOUS
<1>2. Append(b, x) = b \o <<x>> /\ Append(a \o b, x) = (a \o b) \o <<x>>
  BY <1>1, AppendIsConcat
<1>3. (a \o b) \o <<x>> = a \o (b \o <<x>>)
  BY <1>1, ConcatAssociative
<1> QED
  BY <1>2, <1>3, Zenon

\* Kept is a filter: piece by piece, all of what is in chars, nothing of the rest, and
\* filtering again keeps what the second filter would have kept alone.
LEMMA KeptConcat ==
  ASSUME NEW S, NEW chars, NEW a \in Seq(S), NEW b \in Seq(S)
  PROVE  Kept(a \o b, chars) = Kept(a, chars) \o Kept(b, chars)
<1> DEFINE Good == {s \in Seq(S) : Kept(a \o s, chars) = Kept(a, chars) \o Kept(s, chars)}
<1>0. Kept(a, chars) \in Seq(S)
  BY KeptIn
<1>1. <<>> \in Good
  <2>1. <<>> \in Seq(S) /\ a \o <<>> = a /\ Kept(a, chars) \o <<>> = Kept(a, chars)
    BY <1>0, ConcatEmptySeq
  <2>2. Kept(<<>>, chars) = <<>>
    BY KeptNothing
  <2> QED
    BY <2>1, <2>2
<1>2. ASSUME NEW s \in Seq(S), NEW x \in S, s \in Good
      PROVE  Append(s, x) \in Good
  <2> DEFINE ka == Kept(a, chars)
             ks == Kept(s, chars)
  <2>1. Append(s, x) \in Seq(S) /\ a \o s \in Seq(S) /\ ks \in Seq(S)
    BY KeptIn
  <2>2. a \o Append(s, x) = Append(a \o s, x)
    BY ONLY a \in Seq(S), s \in Seq(S), x \in S, AppendOfConcat
  <2>3. ka \o Append(ks, x) = Append(ka \o ks, x)
    BY ONLY <1>0, <2>1, x \in S, AppendOfConcat
  <2>4. Kept(a \o s, chars) = ka \o ks
    BY <1>2
  <2>5. Kept(Append(s, x), chars) = IF x \in chars THEN Append(ks, x) ELSE ks
    BY KeptOneMore
  <2>6. Kept(Append(a \o s, x), chars)
          = IF x \in chars THEN Append(Kept(a \o s, chars), x) ELSE Kept(a \o s, chars)
    <3> HIDE DEF Good
    <3> DEFINE t == a \o s
    <3>1. t \in Seq(S)
      BY <2>1
    <3> HIDE DEF t
    <3>2. Kept(Append(t, x), chars) = IF x \in chars THEN Append(Kept(t, chars), x) ELSE Kept(t, chars)
      BY <3>1, KeptOneMore
    <3> QED
      BY <3>2 DEF t
  <2> HIDE DEF ka, ks
  <2>7. Kept(a \o Append(s, x), chars) = ka \o Kept(Append(s, x), chars)
    BY <2>2, <2>3, <2>4, <2>5, <2>6, Zenon
  <2> QED
    BY <2>1, <2>7 DEF ka
<1> HIDE DEF Good
<1>3. Seq(S) \subseteq Good
  BY <1>1, <1>2, CharacterByCharacter
<1> QED
  BY <1>3 DEF Good

LEMMA KeptAll ==
  ASSUME NEW S, NEW chars, S \subseteq chars, NEW text \in Seq(S)
  PROVE  Kept(text, chars) = text
<1> DEFINE Good == {s \in Seq(S) : Kept(s, chars) = s}
<1>1. <<>> \in Good
  BY KeptNothing
<1>2. ASSUME NEW s \in Seq(S), NEW x \in S, s \in Good
      PROVE  Append(s, x) \in Good
  <2>1. Kept(Append(s, x), chars) = IF x \in chars THEN Append(Kept(s, chars), x) ELSE Kept(s, chars)
    BY KeptOneMore
  <2> QED
    BY <1>2, <2>1
<1> HIDE DEF Good
<1>3. Seq(S) \subseteq Good
  BY <1>1, <1>2, CharacterByCharacter
<1> QED
  BY <1>3 DEF Good

LEMMA KeptNone ==
  ASSUME NEW S, NEW chars, S \intersect chars = {}, NEW text \in Seq(S)
  PROVE  Kept(text, chars) = <<>>
<1> DEFINE Good == {s \in Seq(S) : Kept(s, chars) = <<>>}
<1>1. <<>> \in Good
  BY KeptNothing
<1>2. ASSUME NEW s \in Seq(S), NEW x \in S, s \in Good
      PROVE  Append(s, x) \in Good
  <2>1. Kept(Append(s, x), chars) = IF x \in chars THEN Append(Kept(s, chars), x) ELSE Kept(s, chars)
    BY KeptOneMore
  <2> QED
    BY <1>2, <2>1
<1> HIDE DEF Good
<1>3. Seq(S) \subseteq Good
  BY <1>1, <1>2, CharacterByCharacter
<1> QED
  BY <1>3 DEF Good

LEMMA KeptTwice ==
  ASSUME NEW S, NEW chars, NEW fewer, fewer \subseteq chars, NEW text \in Seq(S)
  PROVE  Kept(Kept(text, chars), fewer) = Kept(text, fewer)
<1> DEFINE Good == {s \in Seq(S) : Kept(Kept(s, chars), fewer) = Kept(s, fewer)}
<1>1. <<>> \in Good
  <2>1. <<>> \in Seq(S) /\ Kept(<<>>, chars) = <<>> /\ Kept(<<>>, fewer) = <<>>
    BY KeptNothing
  <2> QED
    BY <2>1
<1>2. ASSUME NEW s \in Seq(S), NEW x \in S, s \in Good
      PROVE  Append(s, x) \in Good
  <2>1. /\ Kept(Append(s, x), chars) = IF x \in chars THEN Append(Kept(s, chars), x) ELSE Kept(s, chars)
        /\ Kept(Append(s, x), fewer) = IF x \in fewer THEN Append(Kept(s, fewer), x) ELSE Kept(s, fewer)
        /\ Kept(s, chars) \in Seq(S)
    BY KeptOneMore, KeptIn
  <2>2. Kept(Append(Kept(s, chars), x), fewer)
          = IF x \in fewer THEN Append(Kept(Kept(s, chars), fewer), x) ELSE Kept(Kept(s, chars), fewer)
    BY <2>1, KeptOneMore
  <2>3. Kept(Kept(s, chars), fewer) = Kept(s, fewer) /\ Append(s, x) \in Seq(S)
    BY <1>2
  <2>4. CASE x \in chars
    BY <2>1, <2>2, <2>3, <2>4
  <2>5. CASE x \notin chars
    BY <2>1, <2>3, <2>5
  <2> QED
    BY <2>4, <2>5
<1> HIDE DEF Good
<1>3. Seq(S) \subseteq Good
  BY <1>1, <1>2, CharacterByCharacter
<1> QED
  BY <1>3 DEF Good

\* Canonical, character by character.
Key(x) == CASE x = Plus -> Dash [] x = Ae -> Colon [] OTHER -> x

LEMMA KeyIs ==
  ASSUME NEW x \in Char
  PROVE  /\ Key(x) \in Char \ {Plus, Ae} /\ (Key(x) = Dash <=> x \in {Dash, Plus})
         /\ (x \in Digit \union {P, Letter, Hash, GS, Dash, Colon} => Key(x) = x)
         /\ (Key(x) \in Digit <=> x \in Digit)
BY DEF Key, Char, Plus, Dash, Ae, Colon, Digit, P, Letter, Hash, GS

LEMMA CanonicalIs ==
  ASSUME NEW text \in Seq(Char)
  PROVE  /\ Canonical(text) \in Seq(Char) /\ Len(Canonical(text)) = Len(text)
         /\ \A i \in 1..Len(text) : Canonical(text)[i] = Key(text[i])
<1>1. DOMAIN text = 1..Len(text) /\ Len(text) \in Nat /\ \A i \in 1..Len(text) : text[i] \in Char
  OBVIOUS
<1>2. Canonical(text) = [i \in 1..Len(text) |-> Key(text[i])]
  BY <1>1 DEF Canonical, Key
<1>3. \A i \in 1..Len(text) : Key(text[i]) \in Char
  BY <1>1, KeyIs
<1>4. Canonical(text) \in [1..Len(text) -> Char]
  BY <1>2, <1>3
<1> QED
  BY <1>1, <1>2, <1>4, FunctionIsSeq

LEMMA CanonicalOneMore ==
  ASSUME NEW text \in Seq(Char), NEW x \in Char
  PROVE  Canonical(Append(text, x)) = Append(Canonical(text), Key(x))
<1> DEFINE more == Append(text, x)
           a == Canonical(more)
           b == Append(Canonical(text), Key(x))
           n == Len(text)
<1>1. n \in Nat /\ more \in Seq(Char) /\ Len(more) = n + 1 /\ more[n + 1] = x
      /\ \A i \in 1..n : more[i] = text[i]
  OBVIOUS
<1> HIDE DEF more
<1>2. a \in Seq(Char) /\ Len(a) = n + 1 /\ \A i \in 1..(n + 1) : a[i] = Key(more[i])
  BY <1>1, CanonicalIs
<1>3. /\ Canonical(text) \in Seq(Char) /\ Len(Canonical(text)) = n
      /\ \A i \in 1..n : Canonical(text)[i] = Key(text[i])
  BY CanonicalIs
<1>4. Key(x) \in Char
  BY KeyIs
<1>5. /\ b \in Seq(Char) /\ Len(b) = n + 1 /\ b[n + 1] = Key(x)
      /\ \A i \in 1..n : b[i] = Canonical(text)[i]
  BY <1>3, <1>4, AppendProperties
<1> HIDE DEF a, b
<1>6. \A i \in 1..(n + 1) : a[i] = b[i]
  BY <1>1, <1>2, <1>3, <1>5
<1>7. a = b
  BY <1>2, <1>5, <1>6, SeqEqual
<1> QED
  BY <1>7 DEF a, b, more

LEMMA CanonicalNothing == Canonical(<<>>) = <<>>
<1>1. <<>> \in Seq(Char) /\ Len(<<>>) = 0
  OBVIOUS
<1>2. Canonical(<<>>) \in Seq(Char) /\ Len(Canonical(<<>>)) = 0
  BY <1>1, CanonicalIs
<1> QED
  BY <1>2

LEMMA CanonicalConcat ==
  ASSUME NEW a \in Seq(Char), NEW b \in Seq(Char)
  PROVE  Canonical(a \o b) = Canonical(a) \o Canonical(b)
<1> DEFINE Good == {s \in Seq(Char) : Canonical(a \o s) = Canonical(a) \o Canonical(s)}
<1>0. Canonical(a) \in Seq(Char)
  BY CanonicalIs
<1>1. <<>> \in Good
  <2>1. <<>> \in Seq(Char) /\ a \o <<>> = a /\ Canonical(a) \o <<>> = Canonical(a)
    BY <1>0, ConcatEmptySeq
  <2> QED
    BY <2>1, CanonicalNothing
<1>2. ASSUME NEW s \in Seq(Char), NEW x \in Char, s \in Good
      PROVE  Append(s, x) \in Good
  <2> DEFINE ca == Canonical(a)
             cs == Canonical(s)
  <2>1. Append(s, x) \in Seq(Char) /\ a \o s \in Seq(Char) /\ cs \in Seq(Char) /\ Key(x) \in Char
    BY CanonicalIs, KeyIs
  <2>2. a \o Append(s, x) = Append(a \o s, x)
    BY ONLY a \in Seq(Char), s \in Seq(Char), x \in Char, AppendOfConcat
  <2>3. ca \o Append(cs, Key(x)) = Append(ca \o cs, Key(x))
    BY ONLY <1>0, <2>1, AppendOfConcat
  <2>4. Canonical(a \o s) = ca \o cs
    BY <1>2
  <2>5. Canonical(Append(s, x)) = Append(cs, Key(x))
    BY CanonicalOneMore
  <2>6. Canonical(Append(a \o s, x)) = Append(Canonical(a \o s), Key(x))
    <3> DEFINE t == a \o s
    <3>1. t \in Seq(Char)
      BY <2>1
    <3> HIDE DEF t, Good
    <3>2. Canonical(Append(t, x)) = Append(Canonical(t), Key(x))
      BY <3>1, CanonicalOneMore
    <3> QED
      BY <3>2 DEF t
  <2> HIDE DEF ca, cs
  <2>7. Canonical(a \o Append(s, x)) = ca \o Canonical(Append(s, x))
    BY <2>2, <2>3, <2>4, <2>5, <2>6, Zenon
  <2> QED
    BY <2>1, <2>7 DEF ca
<1> HIDE DEF Good
<1>3. Seq(Char) \subseteq Good
  BY <1>1, <1>2, CharacterByCharacter
<1> QED
  BY <1>3 DEF Good

\* No digit comes or goes, and digits stay what they are.
LEMMA CanonicalDigits ==
  ASSUME NEW text \in Seq(Char)
  PROVE  Kept(Canonical(text), Digit) = Kept(text, Digit)
<1> DEFINE Good == {s \in Seq(Char) : Kept(Canonical(s), Digit) = Kept(s, Digit)}
<1>1. <<>> \in Good
  BY CanonicalNothing
<1>2. ASSUME NEW s \in Seq(Char), NEW x \in Char, s \in Good
      PROVE  Append(s, x) \in Good
  <2>1. Canonical(s) \in Seq(Char) /\ Key(x) \in Char /\ (Key(x) \in Digit <=> x \in Digit)
        /\ (x \in Digit => Key(x) = x)
    BY CanonicalIs, KeyIs
  <2>2. Canonical(Append(s, x)) = Append(Canonical(s), Key(x))
    BY CanonicalOneMore
  <2>3. Kept(Append(s, x), Digit) = IF x \in Digit THEN Append(Kept(s, Digit), x) ELSE Kept(s, Digit)
    BY KeptOneMore
  <2>4. Kept(Append(Canonical(s), Key(x)), Digit)
          = IF Key(x) \in Digit THEN Append(Kept(Canonical(s), Digit), Key(x)) ELSE Kept(Canonical(s), Digit)
    BY <2>1, KeptOneMore
  <2>5. Kept(Canonical(s), Digit) = Kept(s, Digit) /\ Append(s, x) \in Seq(Char)
    BY <1>2
  <2> HIDE DEF Good
  <2>6. Kept(Canonical(Append(s, x)), Digit) = Kept(Append(s, x), Digit)
    BY <2>1, <2>2, <2>3, <2>4, <2>5
  <2> QED
    BY <2>5, <2>6 DEF Good
<1> HIDE DEF Good
<1>3. Seq(Char) \subseteq Good
  BY <1>1, <1>2, CharacterByCharacter
<1> QED
  BY <1>3 DEF Good

Unsigned == Char \ {Dash, Plus}

LEMMA CanonicalUnsigned ==
  ASSUME NEW text \in Seq(Unsigned)
  PROVE  text \in Seq(Char) /\ Canonical(text) \in Seq(Char \ {Dash})
<1>1. text \in Seq(Char) /\ \A i \in 1..Len(text) : text[i] \in Unsigned
  <2>1. Unsigned \subseteq Char
    BY DEF Unsigned
  <2> QED
    BY <2>1, SeqMonotonic
<1>2. /\ Canonical(text) \in Seq(Char) /\ Len(Canonical(text)) = Len(text)
      /\ \A i \in 1..Len(text) : Canonical(text)[i] = Key(text[i])
  BY <1>1, CanonicalIs
<1>3. \A x \in Unsigned : Key(x) \in Char \ {Dash}
  BY KeyIs DEF Unsigned
<1>4. \A i \in 1..Len(Canonical(text)) : Canonical(text)[i] \in Char \ {Dash}
  BY <1>1, <1>2, <1>3
<1> HIDE DEF Unsigned
<1>5. Canonical(text) \in [1..Len(text) -> Char \ {Dash}] /\ Len(text) \in Nat
  BY <1>2, <1>4
<1>6. Canonical(text) \in Seq(Char \ {Dash})
  BY <1>5, FunctionIsSeq
<1> QED
  BY <1>1, <1>6

\* A sign with no dash before it, and what stands behind it.
Signed(text, q, b) ==
  /\ text \in Seq(Char) /\ q \in Nat \ {0} /\ Len(text) = q + 1 + Len(b)
  /\ text[q] = P /\ text[q + 1] = Dash
  /\ \A i \in 1..q : text[i] # Dash
  /\ \A j \in 1..Len(b) : text[q + 1 + j] = b[j]

LEMMA SignIs == Sign \in Seq(Char) /\ Len(Sign) = 2 /\ Sign[1] = P /\ Sign[2] = Dash
<1>1. P \in Char /\ Dash \in Char
  BY DEF Char, P, Dash
<1> QED
  BY <1>1 DEF Sign

LEMMA ConcatIs ==
  ASSUME NEW S, NEW a \in Seq(S), NEW b \in Seq(S)
  PROVE  /\ a \o b \in Seq(S) /\ Len(a \o b) = Len(a) + Len(b)
         /\ \A i \in 1..Len(a) : (a \o b)[i] = a[i]
         /\ \A j \in 1..Len(b) : (a \o b)[Len(a) + j] = b[j]
<1> DEFINE text == a \o b
<1>1. /\ text \in Seq(S) /\ Len(text) = Len(a) + Len(b)
      /\ \A i \in 1..(Len(a) + Len(b)) : text[i] = IF i <= Len(a) THEN a[i] ELSE b[i - Len(a)]
  BY ConcatProperties, Zenon
<1>2. Len(a) \in Nat /\ Len(b) \in Nat
  OBVIOUS
<1> HIDE DEF text
<1>3. \A i \in 1..Len(a) : i \in 1..(Len(a) + Len(b)) /\ i <= Len(a)
  BY <1>2
<1>4. \A j \in 1..Len(b) : /\ Len(a) + j \in 1..(Len(a) + Len(b))
                           /\ ~(Len(a) + j <= Len(a)) /\ Len(a) + j - Len(a) = j
  BY <1>2
<1>5. \A i \in 1..Len(a) : text[i] = a[i]
  BY <1>1, <1>3
<1>6. \A j \in 1..Len(b) : text[Len(a) + j] = b[j]
  <2> TAKE j \in 1..Len(b)
  <2>1. text[Len(a) + j] = IF Len(a) + j <= Len(a) THEN a[Len(a) + j] ELSE b[Len(a) + j - Len(a)]
    BY <1>1, <1>4
  <2> QED
    BY <1>4, <2>1
<1> QED
  BY <1>1, <1>5, <1>6 DEF text

LEMMA SignedIs ==
  ASSUME NEW front \in Seq(Char \ {Dash}), NEW b \in Seq(Char)
  PROVE  Signed((front \o Sign) \o b, Len(front) + 1, b)
<1> DEFINE n == Len(front)
           a == front \o Sign
           text == a \o b
           m == Len(b)
<1>1. n \in Nat /\ m \in Nat /\ front \in Seq(Char) /\ \A i \in 1..n : front[i] # Dash
  <2>1. Char \ {Dash} \subseteq Char
    OBVIOUS
  <2> QED
    BY <2>1, SeqMonotonic
<1>2. /\ a \in Seq(Char) /\ Len(a) = n + 2
      /\ \A i \in 1..n : a[i] = front[i]
      /\ a[n + 1] = P /\ a[n + 2] = Dash
  <2>1. /\ a \in Seq(Char) /\ Len(a) = n + Len(Sign) /\ \A i \in 1..n : a[i] = front[i]
        /\ \A j \in 1..Len(Sign) : a[n + j] = Sign[j]
    <3>1. front \in Seq(Char) /\ Sign \in Seq(Char)
      BY <1>1, SignIs
    <3> QED
      BY <3>1, ConcatIs
  <2> HIDE DEF a
  <2>2. 1 \in 1..2 /\ 2 \in 1..2
    OBVIOUS
  <2> QED
    BY <2>1, <2>2, SignIs
<1> HIDE DEF a
<1>3. /\ text \in Seq(Char) /\ Len(text) = n + 2 + m
      /\ \A i \in 1..(n + 2) : text[i] = a[i]
      /\ \A j \in 1..m : text[n + 2 + j] = b[j]
  <2>1. a \in Seq(Char) /\ b \in Seq(Char)
    BY <1>2
  <2>2. /\ text \in Seq(Char) /\ Len(text) = Len(a) + m /\ \A i \in 1..Len(a) : text[i] = a[i]
        /\ \A j \in 1..m : text[Len(a) + j] = b[j]
    BY <2>1, ConcatIs
  <2> HIDE DEF text, m
  <2> QED
    BY <1>2, <2>2
<1> HIDE DEF text, n, m
<1>4. \A i \in 1..n : text[i] = front[i]
  BY <1>1, <1>2, <1>3
<1>5. text[n + 1] = P /\ text[n + 1 + 1] = Dash
  <2>1. n + 1 \in 1..(n + 2) /\ n + 2 \in 1..(n + 2) /\ n + 1 + 1 = n + 2
    BY <1>1
  <2> QED
    BY <1>2, <1>3, <2>1
<1>6. \A i \in 1..(n + 1) : text[i] # Dash
  <2>1. P # Dash
    BY DEF P, Dash
  <2>2. \A i \in 1..(n + 1) : i \in 1..n \/ i = n + 1
    BY <1>1
  <2> QED
    BY <1>1, <1>4, <1>5, <2>1, <2>2
<1>7. \A j \in 1..m : text[n + 1 + 1 + j] = b[j]
  <2>1. \A j \in 1..m : n + 1 + 1 + j = n + 2 + j
    BY <1>1
  <2> QED
    BY <1>3, <2>1
<1>8. n + 1 \in Nat \ {0} /\ n + 2 + m = n + 1 + 1 + m
  BY <1>1
<1> QED
  BY <1>3, <1>5, <1>6, <1>7, <1>8 DEF Signed, text, n, m, a

Piece(S, text, a, b) ==
  /\ SubSeq(text, a, b) \in Seq(S) /\ Len(SubSeq(text, a, b)) = b - a + 1
  /\ \A i \in 1..(b - a + 1) : SubSeq(text, a, b)[i] = text[a + i - 1]

LEMMA PieceIs ==
  ASSUME NEW S, NEW text \in Seq(S), NEW a \in Nat \ {0}, NEW b \in Nat, a <= b, b <= Len(text)
  PROVE  Piece(S, text, a, b)
BY PartOf DEF Piece

LEMMA SignedRest ==
  ASSUME NEW text, NEW q, NEW b \in Seq(Char), Signed(text, q, b), NEW k \in 0..Len(b)
  PROVE  SubSeq(text, q + 2, q + 1 + k) = SubSeq(b, 1, k)
<1>1. /\ text \in Seq(Char) /\ q \in Nat \ {0} /\ Len(text) = q + 1 + Len(b)
      /\ \A j \in 1..Len(b) : text[q + 1 + j] = b[j]
  BY DEF Signed
<1> DEFINE x == SubSeq(text, q + 2, q + 1 + k)
           y == SubSeq(b, 1, k)
<1>2. y \in Seq(Char) /\ Len(y) = k /\ \A j \in 1..k : y[j] = b[j]
  BY PrefixOf
<1>3. CASE k = 0
  <2>1. x = <<>> /\ y = <<>>
    BY <1>1, <1>3, SubSeqEmpty
  <2> QED
    BY <2>1
<1>4. CASE k # 0
  <2>1. /\ q + 2 \in Nat \ {0} /\ q + 1 + k \in Nat /\ q + 2 <= q + 1 + k /\ q + 1 + k <= Len(text)
        /\ q + 1 + k - (q + 2) + 1 = k /\ \A j \in 1..k : q + 2 + j - 1 = q + 1 + j /\ j \in 1..Len(b)
    BY <1>1, <1>4
  <2>2. ASSUME NEW from \in Nat \ {0}, NEW to \in Nat, from = q + 2, to = q + 1 + k
        PROVE  /\ SubSeq(text, from, to) \in Seq(Char) /\ Len(SubSeq(text, from, to)) = k
               /\ \A j \in 1..k : SubSeq(text, from, to)[j] = text[q + 1 + j]
    <3>1. from <= to /\ to <= Len(text)
      BY <2>1, <2>2
    <3>2. to - from + 1 = k /\ \A j \in 1..k : from + j - 1 = q + 1 + j
      BY <1>1, <2>1, <2>2
    <3>3. Piece(Char, text, from, to)
      BY <1>1, <3>1, PieceIs
    <3> QED
      BY ONLY <3>2, <3>3 DEF Piece
  <2>3. x \in Seq(Char) /\ Len(x) = k /\ \A j \in 1..k : x[j] = text[q + 1 + j]
    BY <2>1, <2>2
  <2> HIDE DEF x, y
  <2>4. \A j \in 1..k : x[j] = y[j]
    BY <1>1, <1>2, <2>1, <2>3
  <2>5. x = y
    BY <1>2, <2>3, <2>4, SeqEqual
  <2> QED
    BY <2>5 DEF x, y
<1> QED
  BY <1>3, <1>4

LEMMA FirstSigned ==
  ASSUME NEW text, NEW q, NEW b \in Seq(Char), Signed(text, q, b),
         NEW places \in SUBSET (1..(Len(text) - 1)), q \in places,
         \A i \in places : SubSeq(text, i, i + 1) = Sign
  PROVE  Least(places) = q
BY FirstSign DEF Signed

ServerKeeps == Digit \union {Letter, P, Dash, Colon}
ServerSees(text) == Kept(Canonical(text), ServerKeeps)

\* TryParsePalletCode on what the server keeps of a scan.
ServerReads(kept) ==
  LET at == {i \in 1..(Len(kept) - 1) : SubSeq(kept, i, i + 1) = Sign}
      digits == IF at = {} THEN None ELSE Kept(SubSeq(kept, Least(at) + 2, Len(kept)), Digit)
  IN IF digits = None THEN None ELSE Sign \o digits

LEMMA ParseIs == \A scan : TryParsePalletCode(scan) = ServerReads(ServerSees(scan))
BY DEF TryParsePalletCode, ServerReads, ServerSees, ServerKeeps, Sign

LEMMA ServerReadsSigned ==
  ASSUME NEW kept, NEW q, NEW b \in Seq(Char), Signed(kept, q, b)
  PROVE  ServerReads(kept) = IF Kept(b, Digit) = None THEN None ELSE Sign \o Kept(b, Digit)
<1> DEFINE at == {i \in 1..(Len(kept) - 1) : SubSeq(kept, i, i + 1) = Sign}
<1>1. /\ kept \in Seq(Char) /\ q \in Nat \ {0} /\ Len(kept) = q + 1 + Len(b) /\ Len(b) \in Nat
      /\ SignAt(kept, q)
  BY DEF Signed, SignAt
<1>2. q \in 1..(Len(kept) - 1)
  BY <1>1
<1>3. SubSeq(kept, q, q + 1) = Sign
  BY <1>1, <1>2, WhereSignsAre
<1>4. at \in SUBSET (1..(Len(kept) - 1)) /\ q \in at /\ \A i \in at : SubSeq(kept, i, i + 1) = Sign
  BY <1>2, <1>3
<1>5. ServerReads(kept)
        = LET digits == IF at = {} THEN None ELSE Kept(SubSeq(kept, Least(at) + 2, Len(kept)), Digit)
          IN IF digits = None THEN None ELSE Sign \o digits
  BY DEF ServerReads
<1> HIDE DEF at
<1>6. Least(at) = q /\ at # {}
  BY <1>4, FirstSigned
<1>7. SubSeq(kept, q + 2, Len(kept)) = b
  <2>1. Len(b) \in 0..Len(b) /\ SubSeq(b, 1, Len(b)) = b
    BY <1>1, SubSeqFull
  <2>2. SubSeq(kept, q + 2, q + 1 + Len(b)) = SubSeq(b, 1, Len(b))
    BY <2>1, SignedRest
  <2> QED
    BY <1>1, <2>1, <2>2
<1> QED
  BY <1>5, <1>6, <1>7

\* A label: texts without a separator before P, then a separator, digits, and anything that
\* does not begin with a digit.
PalletLabel(front, sep, digits, rest) ==
  /\ front \in Seq(Unsigned) /\ sep \in {Dash, Plus}
  /\ digits \in Seq(Digit) /\ digits # None
  /\ rest \in Seq(Char) /\ (rest # None => rest[1] \notin Digit)
LabelText(front, sep, digits, rest) == (front \o <<P, sep>>) \o (digits \o rest)

LEMMA SeparatorIs ==
  ASSUME NEW sep \in {Dash, Plus}
  PROVE  <<P, sep>> \in Seq(Char) /\ Canonical(<<P, sep>>) = Sign
<1> DEFINE pair == <<P, sep>>
           text == Canonical(pair)
<1>1. P \in Char /\ sep \in Char /\ Key(P) = P /\ Key(sep) = Dash
  BY DEF Key, Char, P, Dash, Plus, Ae
<1>2. pair \in Seq(Char) /\ Len(pair) = 2 /\ pair[1] = P /\ pair[2] = sep
  BY <1>1
<1> HIDE DEF pair
<1>3. text \in Seq(Char) /\ Len(text) = 2 /\ \A i \in 1..2 : text[i] = Key(pair[i])
  BY <1>2, CanonicalIs
<1> HIDE DEF text
<1>4. text[1] = Sign[1] /\ text[2] = Sign[2]
  BY <1>1, <1>2, <1>3, SignIs
<1>5. text = Sign
  <2>1. \A i \in 1..Len(text) : text[i] = Sign[i]
    <3>1. \A i \in 1..2 : i = 1 \/ i = 2
      OBVIOUS
    <3> QED
      BY <1>3, <1>4, <3>1
  <2> QED
    BY <1>3, <2>1, SignIs, SeqEqual
<1> QED
  BY <1>2, <1>5 DEF text, pair

LEMMA DigitsAreText ==
  ASSUME NEW digits \in Seq(Digit)
  PROVE  digits \in Seq(Char) /\ Canonical(digits) = digits
<1>1. Digit \subseteq Char
  BY DEF Digit, Char
<1>2. digits \in Seq(Char)
  BY <1>1, SeqMonotonic
<1>3. /\ Canonical(digits) \in Seq(Char) /\ Len(Canonical(digits)) = Len(digits)
      /\ \A i \in 1..Len(digits) : Canonical(digits)[i] = Key(digits[i]) /\ digits[i] \in Digit
  BY <1>2, CanonicalIs
<1>4. \A i \in 1..Len(digits) : Canonical(digits)[i] = digits[i]
  <2>1. \A x \in Digit : Key(x) = x
    BY <1>1, KeyIs
  <2> QED
    BY <1>3, <2>1
<1> QED
  BY <1>2, <1>3, <1>4, SeqEqual

\* What both sides see of it.
LEMMA LabelIs ==
  ASSUME NEW front \in Seq(Unsigned), NEW sep \in {Dash, Plus}, NEW b \in Seq(Char)
  PROVE  /\ Canonical(front) \in Seq(Char \ {Dash}) /\ Canonical(b) \in Seq(Char)
         /\ (front \o <<P, sep>>) \o b \in Seq(Char)
         /\ Canonical((front \o <<P, sep>>) \o b) = (Canonical(front) \o Sign) \o Canonical(b)
<1> DEFINE pair == <<P, sep>>
           a == front \o pair
<1>1. front \in Seq(Char) /\ Canonical(front) \in Seq(Char \ {Dash})
  BY CanonicalUnsigned
<1>2. pair \in Seq(Char) /\ Canonical(pair) = Sign
  BY SeparatorIs
<1> HIDE DEF pair
<1>3. a \in Seq(Char)
  BY <1>1, <1>2
<1>4. Canonical(a) = Canonical(front) \o Sign
  BY <1>1, <1>2, CanonicalConcat
<1> HIDE DEF a
<1>5. Canonical(a \o b) = Canonical(a) \o Canonical(b) /\ a \o b \in Seq(Char)
  BY <1>3, CanonicalConcat
<1>6. Canonical(b) \in Seq(Char)
  BY CanonicalIs
<1> QED
  BY <1>1, <1>4, <1>5, <1>6 DEF a, pair

LEMMA ServerSeesConcat ==
  ASSUME NEW a \in Seq(Char), NEW b \in Seq(Char)
  PROVE  /\ ServerSees(a) \in Seq(Char)
         /\ ServerSees(a \o b) = ServerSees(a) \o ServerSees(b)
<1> DEFINE c == Canonical(a)
           d == Canonical(b)
<1>1. c \in Seq(Char) /\ d \in Seq(Char) /\ Canonical(a \o b) = c \o d
  BY CanonicalIs, CanonicalConcat
<1> HIDE DEF c, d
<1>2. Kept(c \o d, ServerKeeps) = Kept(c, ServerKeeps) \o Kept(d, ServerKeeps)
  BY <1>1, KeptConcat
<1>3. Kept(c, ServerKeeps) \in Seq(Char)
  BY <1>1, KeptIn
<1> QED
  BY <1>1, <1>2, <1>3 DEF ServerSees, c, d

LEMMA ServerSeesDigits ==
  ASSUME NEW text \in Seq(Char)
  PROVE  Kept(ServerSees(text), Digit) = Kept(text, Digit)
<1> DEFINE c == Canonical(text)
<1>1. c \in Seq(Char) /\ Kept(c, Digit) = Kept(text, Digit)
  BY CanonicalIs, CanonicalDigits
<1>2. Digit \subseteq ServerKeeps
  BY DEF ServerKeeps
<1> HIDE DEF c
<1>3. Kept(Kept(c, ServerKeeps), Digit) = Kept(c, Digit)
  BY <1>1, <1>2, KeptTwice
<1> QED
  BY <1>1, <1>3 DEF ServerSees, c

LEMMA ServerSeesUnsigned ==
  ASSUME NEW text \in Seq(Unsigned)
  PROVE  text \in Seq(Char) /\ ServerSees(text) \in Seq(Char \ {Dash})
<1>1. text \in Seq(Char) /\ Canonical(text) \in Seq(Char \ {Dash})
  BY CanonicalUnsigned
<1> QED
  BY <1>1, KeptIn DEF ServerSees

LEMMA ServerSeesSign ==
  ASSUME NEW sep \in {Dash, Plus}
  PROVE  <<P, sep>> \in Seq(Char) /\ ServerSees(<<P, sep>>) = Sign
<1>1. <<P, sep>> \in Seq(Char) /\ Canonical(<<P, sep>>) = Sign
  BY SeparatorIs
<1>2. Sign \in Seq(ServerKeeps)
  <2>1. P \in ServerKeeps /\ Dash \in ServerKeeps
    BY DEF ServerKeeps
  <2> QED
    BY <2>1 DEF Sign
<1>3. Kept(Sign, ServerKeeps) = Sign
  BY <1>2, KeptAll
<1> QED
  BY <1>1, <1>3 DEF ServerSees

\* The server: the digits behind the sign, all of them, whatever it dropped inside the sign.
LEMMA ServerReadsBehind ==
  ASSUME NEW front \in Seq(Unsigned), NEW mid \in Seq(Char), ServerSees(mid) = Sign, NEW b \in Seq(Char)
  PROVE  TryParsePalletCode((front \o mid) \o b)
           = IF Kept(b, Digit) = None THEN None ELSE Sign \o Kept(b, Digit)
<1> DEFINE a == front \o mid
           text == a \o b
           f == ServerSees(front)
           c == ServerSees(b)
<1>1. front \in Seq(Char) /\ f \in Seq(Char \ {Dash})
  BY ServerSeesUnsigned
<1>2. a \in Seq(Char) /\ ServerSees(a) = f \o Sign
  <2>1. ServerSees(front \o mid) = ServerSees(front) \o ServerSees(mid)
    BY <1>1, ServerSeesConcat
  <2>2. front \o mid \in Seq(Char)
    BY <1>1, ConcatIs
  <2> QED
    BY <2>1, <2>2
<1> HIDE DEF a
<1>3. ServerSees(text) = (f \o Sign) \o c
  <2>1. ServerSees(text) = ServerSees(a) \o c
    BY <1>2, ServerSeesConcat
  <2> QED
    BY <1>2, <2>1
<1>4. c \in Seq(Char) /\ Kept(c, Digit) = Kept(b, Digit)
  BY ServerSeesConcat, ServerSeesDigits
<1>5. TryParsePalletCode(text) = ServerReads(ServerSees(text))
  BY ParseIs
<1> HIDE DEF text, f, c
<1>6. Signed((f \o Sign) \o c, Len(f) + 1, c)
  BY <1>1, <1>4, SignedIs
<1>7. ServerReads((f \o Sign) \o c) = IF Kept(c, Digit) = None THEN None ELSE Sign \o Kept(c, Digit)
  BY <1>4, <1>6, ServerReadsSigned
<1>8. TryParsePalletCode(text) = IF Kept(b, Digit) = None THEN None ELSE Sign \o Kept(b, Digit)
  BY <1>3, <1>4, <1>5, <1>7
<1> QED
  BY <1>8 DEF text, a

LEMMA ServerReadsLabel ==
  ASSUME NEW front \in Seq(Unsigned), NEW sep \in {Dash, Plus}, NEW b \in Seq(Char)
  PROVE  TryParsePalletCode((front \o <<P, sep>>) \o b)
           = IF Kept(b, Digit) = None THEN None ELSE Sign \o Kept(b, Digit)
BY ServerSeesSign, ServerReadsBehind

\* The page: the digits right behind the sign.
LEMMA PageReadsLabel ==
  ASSUME NEW front, NEW sep, NEW digits, NEW rest, PalletLabel(front, sep, digits, rest)
  PROVE  TryExtractPalletIdFromScan(LabelText(front, sep, digits, rest)) = Sign \o digits
<1> DEFINE b == digits \o rest
           c == Canonical(b)
           f == Canonical(front)
           scan == (front \o <<P, sep>>) \o b
           text == (f \o Sign) \o c
           q == Len(f) + 1
           k == Len(digits)
           places == {i \in 1..(Len(text) - 2) : SubSeq(text, i, i + 1) = <<P, Dash>> /\ text[i + 2] \in Digit}
<1>1. /\ front \in Seq(Unsigned) /\ sep \in {Dash, Plus}
      /\ digits \in Seq(Digit) /\ digits # None /\ rest \in Seq(Char) /\ (rest # None => rest[1] \notin Digit)
      /\ digits \in Seq(Char) /\ Canonical(digits) = digits
  BY DigitsAreText DEF PalletLabel
<1>2. k \in Nat \ {0} /\ \A j \in 1..k : digits[j] \in Digit
  BY <1>1 DEF None
<1>3. b \in Seq(Char) /\ c = digits \o Canonical(rest) /\ Canonical(rest) \in Seq(Char)
  <2>1. Canonical(digits \o rest) = Canonical(digits) \o Canonical(rest)
    BY <1>1, CanonicalConcat
  <2>2. digits \o rest \in Seq(Char)
    BY <1>1, ConcatIs
  <2>3. Canonical(rest) \in Seq(Char)
    BY <1>1, CanonicalIs
  <2> QED
    BY <1>1, <2>1, <2>2, <2>3
<1>4. /\ c \in Seq(Char) /\ Len(c) = k + Len(Canonical(rest))
      /\ \A j \in 1..k : c[j] = digits[j]
      /\ \A j \in 1..Len(Canonical(rest)) : c[k + j] = Canonical(rest)[j]
  <2> DEFINE r == Canonical(rest)
  <2>1. /\ digits \o r \in Seq(Char) /\ Len(digits \o r) = k + Len(r)
        /\ \A j \in 1..k : (digits \o r)[j] = digits[j]
        /\ \A j \in 1..Len(r) : (digits \o r)[k + j] = r[j]
    <3> HIDE DEF r, b
    <3> QED
      BY <1>1, <1>3, ConcatIs DEF r
  <2> QED
    BY <1>3, <2>1
<1>5. Len(c) > k => c[k + 1] \notin Digit
  <2>1. ASSUME Len(c) > k
        PROVE  1 \in 1..Len(rest) /\ rest # None /\ Len(Canonical(rest)) = Len(rest)
    <3>1. Len(Canonical(rest)) = Len(rest) /\ Len(rest) \in Nat
      BY <1>1, CanonicalIs
    <3>2. Len(rest) # 0
      BY <1>2, <1>4, <2>1, <3>1
    <3> QED
      BY <3>1, <3>2 DEF None
  <2>2. ASSUME Len(c) > k
        PROVE  c[k + 1] = Key(rest[1]) /\ rest[1] \in Char
    BY <1>1, <1>4, <2>1, <2>2, CanonicalIs
  <2>3. \A x \in Char : Key(x) \in Digit => x \in Digit
    BY KeyIs
  <2> QED
    BY <1>1, <2>1, <2>2, <2>3
<1>6. Canonical(scan) = text /\ f \in Seq(Char \ {Dash})
  BY <1>1, <1>3, LabelIs
<1>7. TryExtractPalletIdFromScan(scan)
        = IF places = {} THEN None ELSE <<P, Dash>> \o Before(text, Least(places) + 2, 10..20)
  <2>1. TryExtractPalletIdFromScan(scan)
          = LET t == Canonical(scan)
                at == {i \in 1..(Len(t) - 2) : SubSeq(t, i, i + 1) = <<P, Dash>> /\ t[i + 2] \in Digit}
            IN IF at = {} THEN None ELSE <<P, Dash>> \o Before(t, Least(at) + 2, 10..20)
    BY DEF TryExtractPalletIdFromScan
  <2> HIDE DEF scan, text
  <2> QED
    BY <1>6, <2>1
<1>8. LabelText(front, sep, digits, rest) = scan
  BY DEF LabelText
<1> HIDE DEF scan, b, c, f, k
<1>9. Signed(text, q, c)
  BY <1>4, <1>6, SignedIs
<1> HIDE DEF text, q
<1>10. /\ text \in Seq(Char) /\ q \in Nat \ {0} /\ Len(text) = q + 1 + Len(c) /\ Len(c) \in Nat
       /\ SignAt(text, q) /\ \A j \in 1..Len(c) : text[q + 1 + j] = c[j]
  BY <1>4, <1>9 DEF Signed, SignAt
<1>11. k \in 1..Len(c) /\ k <= Len(c)
  <2>1. Len(Canonical(rest)) \in Nat
    BY <1>3
  <2> QED
    BY <1>2, <1>4, <2>1
<1>12. q \in places /\ places \in SUBSET (1..(Len(text) - 1)) /\ \A i \in places : SubSeq(text, i, i + 1) = Sign
  <2>1. q \in 1..(Len(text) - 2) /\ q \in 1..(Len(text) - 1) /\ 1 \in 1..Len(c) /\ 1 \in 1..k /\ q + 1 + 1 = q + 2
    BY <1>10, <1>11
  <2>2. SubSeq(text, q, q + 1) = Sign
    BY <1>10, <2>1, WhereSignsAre
  <2>3. text[q + 2] \in Digit
    BY <1>2, <1>4, <1>10, <2>1
  <2>4. 1..(Len(text) - 2) \subseteq 1..(Len(text) - 1)
    BY <1>10
  <2> QED
    BY <2>1, <2>2, <2>3, <2>4 DEF Sign
<1> HIDE DEF places
<1>13. Least(places) = q /\ places # {}
  BY <1>4, <1>9, <1>12, FirstSigned
<1>14. Before(text, q + 2, 10..20) = SubSeq(text, q + 2, q + 1 + k)
  <2>1. /\ q + 2 \in Nat \ {0} /\ q + 1 + k \in Nat /\ q + 2 <= q + 1 + k /\ q + 1 + k <= Len(text)
    BY <1>2, <1>10, <1>11
  <2>2. ASSUME NEW i \in (q + 2)..(q + 1 + k)
        PROVE  text[i] \in Digit
    <3> DEFINE j == i - (q + 1)
    <3>1. j \in 1..k /\ j \in 1..Len(c) /\ q + 1 + j = i
      BY <1>2, <1>10, <1>11
    <3> HIDE DEF j
    <3> QED
      BY <1>2, <1>4, <1>10, <3>1
  <2>3. \A x \in Digit : x \notin 10..20
    BY DEF Digit
  <2>4. \A x \in Char : x \in Digit \/ x \in 10..20
    BY DEF Char, Digit
  <2>5. ASSUME q + 1 + k < Len(text)
        PROVE  text[q + 1 + k + 1] \in 10..20
    <3>1. Len(c) > k /\ k + 1 \in 1..Len(c) /\ q + 1 + (k + 1) = q + 1 + k + 1 /\ c[k + 1] \in Char
      BY <1>2, <1>4, <1>10, <2>5
    <3> QED
      BY <1>5, <1>10, <2>4, <3>1
  <2> QED
    BY <1>10, <2>1, <2>2, <2>3, <2>5, BeforeIs
<1>15. SubSeq(text, q + 2, q + 1 + k) = digits
  <2>1. SubSeq(text, q + 2, q + 1 + k) = SubSeq(c, 1, k)
    <3>1. k \in 0..Len(c)
      BY <1>11
    <3> QED
      BY <1>4, <1>9, <3>1, SignedRest
  <2>2. SubSeq(c, 1, k) = digits
    <3> DEFINE d == SubSeq(c, 1, k)
    <3>1. d \in Seq(Char) /\ Len(d) = k /\ \A j \in 1..k : d[j] = c[j]
      <4>1. k \in 0..Len(c)
        BY <1>11
      <4> QED
        BY <1>4, <4>1, PrefixOf
    <3> HIDE DEF d
    <3>2. \A j \in 1..Len(d) : d[j] = digits[j]
      BY <1>4, <3>1
    <3>3. Len(digits) = k
      BY DEF k
    <3>4. d = digits
      BY <1>1, <3>1, <3>2, <3>3, SeqEqual
    <3> QED
      BY <3>4 DEF d
  <2> QED
    BY <2>1, <2>2
<1> QED
  BY <1>7, <1>8, <1>13, <1>14, <1>15 DEF Sign

BothRead(scan, digits, rest) ==
  /\ scan # None /\ TryExtractPalletIdFromScan(scan) = PalletId(digits)
  /\ TryParsePalletCode(scan) = PalletId(digits) \o Kept(rest, Digit)
  /\ PalletId(digits) # None
  /\ \A expected : ReadAs(scan, expected) = TryParsePalletCode(scan)

LEMMA PalletLabelRead ==
  ASSUME NEW front, NEW sep, NEW digits, NEW rest, PalletLabel(front, sep, digits, rest)
  PROVE  BothRead(LabelText(front, sep, digits, rest), digits, rest)
<1> DEFINE b == digits \o rest
           scan == (front \o <<P, sep>>) \o b
           more == Kept(rest, Digit)
<1>1. /\ front \in Seq(Unsigned) /\ sep \in {Dash, Plus}
      /\ digits \in Seq(Digit) /\ digits # None /\ rest \in Seq(Char) /\ digits \in Seq(Char)
  BY DigitsAreText DEF PalletLabel
<1>2. b \in Seq(Char) /\ Kept(b, Digit) = digits \o more /\ more \in Seq(Char)
  <2>1. Kept(digits, Digit) = digits
    BY <1>1, KeptAll
  <2>2. Kept(digits \o rest, Digit) = Kept(digits, Digit) \o Kept(rest, Digit)
    BY <1>1, KeptConcat
  <2>3. digits \o rest \in Seq(Char)
    BY <1>1, ConcatIs
  <2>4. Kept(rest, Digit) \in Seq(Char)
    BY <1>1, KeptIn
  <2> QED
    BY <2>1, <2>2, <2>3, <2>4
<1>3. digits \o more \in Seq(Char) /\ Len(digits \o more) # 0
  <2>1. digits \o more \in Seq(Char) /\ Len(digits \o more) = Len(digits) + Len(more)
    BY <1>1, <1>2, ConcatIs
  <2>2. Len(digits) \in Nat \ {0} /\ Len(more) \in Nat
    BY <1>1, <1>2 DEF None
  <2> QED
    BY <2>1, <2>2
<1>4. digits \o more # None /\ Len(None) = 0
  BY <1>3 DEF None
<1>5. LabelText(front, sep, digits, rest) = scan
  BY DEF LabelText
<1>6. scan \in Seq(Char) /\ TryParsePalletCode(scan)
        = IF Kept(b, Digit) = None THEN None ELSE Sign \o Kept(b, Digit)
  BY <1>1, <1>2, ServerReadsLabel, LabelIs
<1>7. TryExtractPalletIdFromScan(scan) = Sign \o digits
  BY <1>5, PageReadsLabel
<1> HIDE DEF scan, b, more
<1>8. Sign \o (digits \o more) = (Sign \o digits) \o more
  <2>1. Sign \in Seq(Char) /\ digits \in Seq(Char) /\ more \in Seq(Char)
    BY <1>1, <1>2, SignIs
  <2>2. (Sign \o digits) \o more = Sign \o (digits \o more)
    BY ONLY <2>1, ConcatAssociative
  <2> QED
    BY <2>2, Zenon
<1>9. Sign \o digits # None
  <2>1. Sign \in Seq(Char) /\ Len(Sign) = 2 /\ Len(digits) \in Nat
    BY <1>1, SignIs
  <2>2. Len(Sign \o digits) = Len(Sign) + Len(digits)
    BY <1>1, <2>1, ConcatIs
  <2> QED
    BY <1>4, <2>1, <2>2
<1>10. scan # None
  <2>1. Canonical(None) = None
    BY CanonicalNothing DEF None
  <2>2. TryExtractPalletIdFromScan(None) = None
    <3>1. Len(None) = 0 /\ 1..(0 - 2) = {}
      BY <1>4
    <3> QED
      BY <2>1, <3>1 DEF TryExtractPalletIdFromScan
  <2> QED
    BY <1>7, <1>9, <2>2
<1>11. Sign \o digits = PalletId(digits)
  BY DEF Sign, PalletId
<1>12. \A expected : ReadAs(scan, expected) = TryParsePalletCode(scan)
  BY <1>10 DEF ReadAs, ResolvePalletCode
<1>13. TryParsePalletCode(scan) = (Sign \o digits) \o more
  BY <1>2, <1>4, <1>6, <1>8
<1> QED
  BY <1>5, <1>7, <1>9, <1>10, <1>11, <1>12, <1>13 DEF BothRead, more

\* Whatever stands before a printed code (no separator) and behind it: the page reads the
\* digits up to the first character that is none, the server those and every later one.
THEOREM PalletLabelIsRead ==
  ASSUME NEW front, NEW sep, NEW digits, NEW rest, PalletLabel(front, sep, digits, rest)
  PROVE  /\ TryExtractPalletIdFromScan(LabelText(front, sep, digits, rest)) = PalletId(digits)
         /\ TryParsePalletCode(LabelText(front, sep, digits, rest)) = PalletId(digits) \o Kept(rest, Digit)
BY PalletLabelRead DEF BothRead

\* What the check of the page is worth: it lets a scan pass for a suggestion if and only if
\* the suggestion is what the page reads, and the server then takes the scan for the
\* suggestion with every later digit of the scan behind it, so for another pallet exactly if
\* there is one.
THEOREM PalletLabelLetPass ==
  ASSUME NEW front, NEW sep, NEW digits, NEW rest, PalletLabel(front, sep, digits, rest),
         NEW expected, expected # None
  PROVE  LET scan == LabelText(front, sep, digits, rest)
         IN /\ ValidateSuggestedPalletMatch(scan, expected) <=> expected = PalletId(digits)
            /\ ValidateSuggestedPalletMatch(scan, expected) =>
                 /\ ReadAs(scan, expected) = expected \o Kept(rest, Digit)
                 /\ ReadAs(scan, expected) = expected <=> Kept(rest, Digit) = None
<1> DEFINE scan == LabelText(front, sep, digits, rest)
           more == Kept(rest, Digit)
<1>1. /\ scan # None /\ TryExtractPalletIdFromScan(scan) = PalletId(digits) /\ PalletId(digits) # None
      /\ ReadAs(scan, expected) = PalletId(digits) \o more
  <2>1. BothRead(scan, digits, rest)
    BY PalletLabelRead
  <2> HIDE DEF scan
  <2> QED
    BY <2>1 DEF BothRead
<1>2. PalletId(digits) \in Seq(Char) /\ more \in Seq(Char)
  <2>1. digits \in Seq(Char) /\ rest \in Seq(Char)
    BY DigitsAreText DEF PalletLabel
  <2>2. Sign \in Seq(Char)
    BY SignIs
  <2>3. Sign \o digits \in Seq(Char)
    BY <2>1, <2>2, ConcatIs
  <2> QED
    BY <2>1, <2>3, KeptIn DEF PalletId, Sign
<1> HIDE DEF scan, more
<1>3. ValidateSuggestedPalletMatch(scan, expected) <=> expected = PalletId(digits)
  BY <1>1 DEF ValidateSuggestedPalletMatch
<1>4. PalletId(digits) \o more = PalletId(digits) <=> more = None
  BY <1>2, ConcatEqualIffEmpty DEF None
<1> QED
  BY <1>1, <1>3, <1>4 DEF scan, more

\* The labels of EveryRightLabel and EveryNoisyLabel, for any numbers.
LEMMA NoiseIs == Noise \subseteq Char /\ \A c \in Noise : c \notin {Dash, Plus} /\ c \notin Digit
BY DEF Noise, Hash, Letter, GS, Colon, Char, Dash, Plus, Digit

Parted(text, k, c) ==
  /\ Len(SubSeq(text, 1, k)) = k
  /\ SubSeq(text, 1, k) \o SubSeq(text, k + 1, Len(text)) = text
  /\ WithNoise(text, k, c) = SubSeq(text, 1, k) \o (<<c>> \o SubSeq(text, k + 1, Len(text)))

LEMMA WithNoiseIs ==
  ASSUME NEW S, NEW text \in Seq(S), NEW k \in 0..Len(text), NEW c \in S
  PROVE  WithNoise(text, k, c) \in Seq(S) /\ Parted(text, k, c)
<1> DEFINE n == Len(text)
           a == SubSeq(text, 1, k)
           b == SubSeq(text, k + 1, n)
<1>1. n \in Nat /\ k \in 0..n /\ \A i \in 1..n : text[i] \in S
  OBVIOUS
<1>2. a \in Seq(S) /\ Len(a) = k
  BY PrefixOf
<1>3. b \in Seq(S)
  <2>1. \A i \in (k + 1)..n : text[i] \in S
    BY <1>1
  <2> QED
    BY <1>1, <2>1, SubSeqProperties
<1>4. a \o b = text
  <2>1. 1 \in 1..(n + 1) /\ k \in (1 - 1)..n /\ n \in k..n
    BY <1>1
  <2>2. SubSeq(text, 1, k) \o SubSeq(text, k + 1, n) = SubSeq(text, 1, n)
    BY <2>1, ConcatAdjacentSubSeq
  <2>3. SubSeq(text, 1, n) = text
    BY SubSeqFull
  <2> QED
    BY <2>2, <2>3
<1>5. <<c>> \in Seq(S)
  OBVIOUS
<1>6. WithNoise(text, k, c) = (a \o <<c>>) \o b
  BY DEF WithNoise
<1> HIDE DEF a, b, n
<1>7. (a \o <<c>>) \o b = a \o (<<c>> \o b)
  BY <1>2, <1>3, <1>5, ConcatAssociative
<1>8. (a \o <<c>>) \o b \in Seq(S)
  BY <1>2, <1>3, <1>5
<1> QED
  BY <1>2, <1>3, <1>4, <1>6, <1>7, <1>8 DEF Parted, a, b, n

LEMMA NoisyFrontsAre == NoisyFronts \subseteq Seq(Unsigned)
<1> SUFFICES ASSUME NEW text \in NoisyFronts
             PROVE  text \in Seq(Unsigned)
  OBVIOUS
<1>1. PICK front \in Fronts : text \in Noisy(front, 0)
  BY DEF NoisyFronts
<1>2. front \in Seq(Unsigned)
  <2>1. None \in Seq(Unsigned)
    BY DEF None
  <2>2. P \in Unsigned /\ Letter \in Unsigned /\ Colon \in Unsigned /\ Ae \in Unsigned
    BY DEF Unsigned, Char, P, Letter, Colon, Ae, Dash, Plus
  <2>3. \A colon \in Unsigned : <<P, Letter, Letter, Letter, Letter, Letter, colon>> \in Seq(Unsigned)
    BY <2>2
  <2> QED
    BY <2>1, <2>2, <2>3 DEF Fronts
<1>3. CASE text = front
  BY <1>2, <1>3
<1>4. CASE text # front
  <2>1. PICK k \in 0..Len(front), c \in Noise : text = WithNoise(front, k, c)
    BY <1>1, <1>4 DEF Noisy
  <2>2. c \in Unsigned
    BY NoiseIs DEF Unsigned
  <2> QED
    BY <1>2, <2>1, <2>2, WithNoiseIs
<1> QED
  BY <1>3, <1>4

\* The text behind the separator is a beginning of the number, then noise, then the rest.
Split(text, number, a, rest, from) ==
  /\ a \in Seq(Digit) /\ a # None /\ rest \in Seq(Char) /\ (rest # None => rest[1] \notin Digit)
  /\ text = a \o rest /\ Kept(rest, Digit) \in Seq(Digit) /\ a \o Kept(rest, Digit) = number
  /\ a \in Beginnings(number) /\ Len(a) >= from

LEMMA NoisyNumber ==
  ASSUME NEW number \in Numbers, NEW from \in 1..Len(number), NEW text \in Noisy(number, from)
  PROVE  \E a, rest : Split(text, number, a, rest, from)
<1>1. number \in Seq(Digit) /\ number # None /\ Len(number) \in Nat
  BY NumbersAssumption
<1>2. CASE text = number
  <2>1. None \in Seq(Char) /\ Kept(None, Digit) = None /\ None \in Seq(Digit) /\ number \o None = number
    BY <1>1, KeptNothing, ConcatEmptySeq DEF None
  <2>2. number \in Beginnings(number)
    <3>1. Len(number) \in 1..Len(number) /\ number = SubSeq(number, 1, Len(number))
      BY <1>1, SubSeqFull DEF None
    <3> QED
      BY <3>1 DEF Beginnings
  <2>3. Split(text, number, number, None, from)
    BY <1>1, <1>2, <2>1, <2>2 DEF Split
  <2> QED
    BY <2>3
<1>3. CASE text # number
  <2>1. PICK k \in from..Len(number), c \in Noise : text = WithNoise(number, k, c)
    BY <1>3 DEF Noisy
  <2> DEFINE a == SubSeq(number, 1, k)
             b == SubSeq(number, k + 1, Len(number))
             rest == <<c>> \o b
  <2>2. k \in 1..Len(number) /\ k \in 0..Len(number) /\ k >= from
    BY <1>1
  <2>3. Digit \subseteq Char /\ c \in Char /\ c \notin Digit
    BY NoiseIs DEF Digit, Char
  <2>4. number \in Seq(Char)
    BY <1>1, <2>3, SeqMonotonic
  <2>5. text = a \o rest /\ Len(a) = k /\ a \o b = number
    <3>1. Parted(number, k, c)
      BY <2>2, <2>3, <2>4, WithNoiseIs
    <3> QED
      BY <2>1, <3>1 DEF Parted
  <2>6. a \in Seq(Digit) /\ b \in Seq(Digit)
    <3>1. a \in Seq(Digit)
      BY <1>1, <2>2, PrefixOf
    <3>2. \A i \in (k + 1)..Len(number) : number[i] \in Digit
      BY <1>1, <2>2
    <3>3. b \in Seq(Digit)
      BY <1>1, <2>2, <3>2, SubSeqProperties
    <3> QED
      BY <3>1, <3>3
  <2>7. a \in Beginnings(number)
    BY <2>2 DEF Beginnings
  <2> HIDE DEF a, b
  <2>8. b \in Seq(Char) /\ <<c>> \in Seq(Char) /\ rest \in Seq(Char) /\ rest[1] = c
    <3>1. b \in Seq(Char)
      BY <2>3, <2>6, SeqMonotonic
    <3>2. <<c>> \in Seq(Char) /\ Len(<<c>>) = 1 /\ <<c>>[1] = c
      BY <2>3
    <3>3. <<c>> \o b \in Seq(Char) /\ \A i \in 1..Len(<<c>>) : (<<c>> \o b)[i] = <<c>>[i]
      BY <3>1, <3>2, ConcatIs
    <3> QED
      BY <3>1, <3>2, <3>3
  <2>9. Kept(rest, Digit) = b
    <3>1. Kept(<<c>>, Digit) = <<>>
      <4>1. <<c>> \in Seq({c}) /\ {c} \intersect Digit = {}
        BY <2>3
      <4> QED
        BY <4>1, KeptNone
    <3>2. Kept(b, Digit) = b
      BY <2>6, KeptAll
    <3>3. Kept(rest, Digit) = Kept(<<c>>, Digit) \o Kept(b, Digit)
      BY <2>8, KeptConcat
    <3> QED
      BY <2>6, <3>1, <3>2, <3>3, ConcatEmptySeq
  <2>10. a # None
    <3>1. Len(None) = 0
      BY DEF None
    <3> QED
      BY <2>2, <2>5, <3>1
  <2> HIDE DEF rest
  <2>11. Split(text, number, a, rest, from)
    BY <2>2, <2>3, <2>5, <2>6, <2>7, <2>8, <2>9, <2>10 DEF Split
  <2> QED
    BY <2>11
<1> QED
  BY <1>2, <1>3

NoisyRead(scan, number, a) ==
  /\ \A expected : ReadAs(scan, expected) = PalletId(number)
  /\ TryExtractPalletIdFromScan(scan) = PalletId(a) /\ PalletId(a) # None /\ scan # None

LEMMA NoisyLabelRead ==
  ASSUME NEW number, NEW front \in NoisyFronts, NEW sep \in Separators, NEW text, NEW a, NEW rest,
         NEW from, Split(text, number, a, rest, from)
  PROVE  NoisyRead(front \o <<P, sep>> \o text, number, a)
<1> DEFINE scan == LabelText(front, sep, a, rest)
           more == Kept(rest, Digit)
<1>1. /\ a \in Seq(Digit) /\ a # None /\ rest \in Seq(Char) /\ (rest # None => rest[1] \notin Digit)
      /\ text = a \o rest /\ more \in Seq(Digit) /\ a \o more = number
  BY DEF Split
<1>2. PalletLabel(front, sep, a, rest)
  BY <1>1, NoisyFrontsAre DEF PalletLabel, Separators
<1>3. BothRead(scan, a, rest)
  BY <1>2, PalletLabelRead
<1>4. scan = front \o <<P, sep>> \o text
  BY <1>1 DEF LabelText
<1> HIDE DEF scan, more
<1>5. PalletId(a) \o more = PalletId(number)
  <2>1. Sign \in Seq(Char) /\ a \in Seq(Char) /\ more \in Seq(Char)
    BY <1>1, SignIs, DigitsAreText
  <2>2. (Sign \o a) \o more = Sign \o (a \o more)
    BY ONLY <2>1, ConcatAssociative
  <2> QED
    BY <1>1, <2>2 DEF PalletId, Sign
<1>6. /\ \A expected : ReadAs(scan, expected) = PalletId(a) \o more
      /\ TryExtractPalletIdFromScan(scan) = PalletId(a) /\ PalletId(a) # None /\ scan # None
  BY <1>3 DEF BothRead, more
<1> QED
  BY <1>4, <1>5, <1>6 DEF NoisyRead

LEMMA SameNumber ==
  ASSUME NEW a \in Seq(Char), NEW b \in Seq(Char), PalletId(a) = PalletId(b)
  PROVE  a = b
<1>1. Sign \in Seq(Char) /\ Sign \o a = Sign \o b
  BY SignIs DEF PalletId, Sign
<1> QED
  BY <1>1, ConcatSimplifications

LEMMA IdIsSome ==
  ASSUME NEW number \in Seq(Char)
  PROVE  PalletId(number) # None
<1>1. Sign \in Seq(Char) /\ Sign # <<>>
  <2>1. Sign # <<>>
    BY DEF Sign
  <2> QED
    BY <2>1, SignIs
<1>2. Sign \o number # <<>>
  BY <1>1, ConcatEqualIffEmpty
<1> QED
  BY <1>2 DEF PalletId, Sign, None

LEMMA PayloadRead ==
  ASSUME NEW number \in Numbers
  PROVE  ReadAs(None, PalletId(number)) = PalletId(number)
<1> DEFINE prefix == <<P, Letter, Letter, Letter, Letter, Letter, Colon>>
<1>1. number \in Seq(Digit) /\ number # None /\ number \in Seq(Char)
  BY NumbersAssumption, DigitsAreText
<1>2. prefix \in Seq(Unsigned) /\ prefix \in Seq(Char)
  <2>1. P \in Unsigned /\ Letter \in Unsigned /\ Colon \in Unsigned
    BY DEF Unsigned, Char, P, Letter, Colon, Dash, Plus
  <2>2. prefix \in Seq(Unsigned)
    BY <2>1
  <2> HIDE DEF prefix
  <2> QED
    BY <2>2, CanonicalUnsigned
<1>3. PalletBarcodePayload(PalletId(number)) = prefix \o (Sign \o number)
  BY DEF PalletBarcodePayload, PalletId, Sign
<1> HIDE DEF prefix
<1>4. (prefix \o Sign) \o number = prefix \o (Sign \o number)
  <2>1. Sign \in Seq(Char)
    BY SignIs
  <2> QED
    BY ONLY <1>1, <1>2, <2>1, ConcatAssociative
<1>5. TryParsePalletCode((prefix \o <<P, Dash>>) \o number) = Sign \o number
  <2>1. Kept(number, Digit) = number
    BY <1>1, KeptAll
  <2>2. TryParsePalletCode((prefix \o <<P, Dash>>) \o number)
          = IF Kept(number, Digit) = None THEN None ELSE Sign \o Kept(number, Digit)
    BY <1>1, <1>2, ServerReadsLabel
  <2> QED
    BY <1>1, <2>1, <2>2
<1>6. PalletId(number) # None
  BY <1>1, IdIsSome
<1> QED
  BY <1>3, <1>4, <1>5, <1>6 DEF ReadAs, ResolvePalletCode, Sign, PalletId

LEMMA RightLabelRead ==
  ASSUME NEW number \in Numbers, NEW front \in NoisyFronts, NEW sep \in Separators,
         NEW digits \in Noisy(number, Len(number))
  PROVE  ReadRight(number, front \o <<P, sep>> \o digits)
<1>1. number \in Seq(Digit) /\ number # None /\ Len(number) \in 1..Len(number)
  BY NumbersAssumption DEF None
<1>2. PICK a, rest : Split(digits, number, a, rest, Len(number))
  BY <1>1, NoisyNumber
<1>3. a = number
  <2>1. PICK k \in 1..Len(number) : a = SubSeq(number, 1, k)
    BY <1>2 DEF Split, Beginnings
  <2>2. Len(a) = k
    BY <1>1, <2>1, PrefixOf
  <2>3. Len(a) >= Len(number)
    BY <1>2 DEF Split
  <2>4. k = Len(number)
    BY <1>1, <2>2, <2>3
  <2> QED
    BY <1>1, <2>1, <2>4, SubSeqFull
<1> DEFINE scan == front \o <<P, sep>> \o digits
<1>4. NoisyRead(scan, number, a)
  BY <1>2, NoisyLabelRead
<1> HIDE DEF scan
<1>5. ReadRight(number, scan)
  BY <1>3, <1>4 DEF NoisyRead, ReadRight, ValidateSuggestedPalletMatch
<1> QED
  BY <1>5 DEF scan

LEMMA EveryRightLabelRead == EveryRightLabel
BY PayloadRead, RightLabelRead DEF EveryRightLabel

LEMMA NoisyDigitsRead ==
  ASSUME NEW number \in Numbers, NEW other \in Numbers, NEW front \in NoisyFronts,
         NEW sep \in Separators, NEW digits \in Noisy(number, 1)
  PROVE  ReadAsPrinted(number, other, front \o <<P, sep>> \o digits)
<1>1. number \in Seq(Digit) /\ number # None /\ 1 \in 1..Len(number) /\ other \in Seq(Char)
  BY NumbersAssumption, DigitsAreText DEF None
<1>2. PICK a, rest : Split(digits, number, a, rest, 1)
  BY <1>1, NoisyNumber
<1>3. a \in Beginnings(number) /\ a \in Seq(Char)
  BY <1>2, DigitsAreText DEF Split
<1> DEFINE scan == front \o <<P, sep>> \o digits
<1>4. NoisyRead(scan, number, a)
  BY <1>2, NoisyLabelRead
<1> HIDE DEF scan
<1>5. PalletId(other) # None
  BY <1>1, IdIsSome
<1>6. ASSUME ValidateSuggestedPalletMatch(scan, PalletId(other))
      PROVE  other \in Beginnings(number)
  <2>1. PalletId(other) = PalletId(a)
    BY <1>4, <1>5, <1>6 DEF NoisyRead, ValidateSuggestedPalletMatch
  <2>2. other = a
    BY <1>1, <1>3, <2>1, SameNumber
  <2> QED
    BY <1>3, <2>2
<1>7. ReadAsPrinted(number, other, scan)
  BY <1>4, <1>6 DEF NoisyRead, ReadAsPrinted
<1> QED
  BY <1>7 DEF scan

LEMMA ServerSeesOne ==
  ASSUME NEW x \in Char
  PROVE  <<x>> \in Seq(Char) /\ ServerSees(<<x>>) = IF Key(x) \in ServerKeeps THEN <<Key(x)>> ELSE <<>>
<1> DEFINE none == <<>>
<1>1. none \in Seq(Char) /\ Key(x) \in Char /\ Canonical(none) = none
  BY KeyIs, CanonicalNothing
<1>2. Append(none, x) = <<x>> /\ Append(none, Key(x)) = <<Key(x)>>
  OBVIOUS
<1> HIDE DEF none
<1>3. Canonical(Append(none, x)) = Append(Canonical(none), Key(x))
  BY <1>1, CanonicalOneMore
<1>4. Kept(Append(none, Key(x)), ServerKeeps)
        = IF Key(x) \in ServerKeeps THEN Append(Kept(none, ServerKeeps), Key(x)) ELSE Kept(none, ServerKeeps)
  BY <1>1, KeptOneMore
<1>5. Kept(none, ServerKeeps) = none
  BY KeptNothing DEF none
<1>6. ServerSees(<<x>>) = IF Key(x) \in ServerKeeps THEN <<Key(x)>> ELSE none
  BY <1>1, <1>2, <1>3, <1>4, <1>5 DEF ServerSees
<1> QED
  BY <1>6 DEF none

\* A dash that P does not stand right before is no sign.
LEMMA ServerReadsNothing ==
  ASSUME NEW f \in Seq(Char \ {Dash}), NEW c \in Char \ {Dash, P}, NEW b \in Seq(Char \ {Dash})
  PROVE  ServerReads((Append(f, c) \o <<Dash>>) \o b) = None
<1> DEFINE n == Len(f)
           d == <<Dash>>
           e == Append(f, c)
           a == e \o d
           text == a \o b
<1>1. n \in Nat /\ d \in Seq(Char) /\ Len(d) = 1 /\ f \in Seq(Char) /\ b \in Seq(Char) /\ c \in Char
      /\ \A i \in 1..n : f[i] # Dash
  <2>1. Dash \in Char /\ Char \ {Dash} \subseteq Char
    BY DEF Dash, Char
  <2>2. f \in Seq(Char) /\ b \in Seq(Char)
    BY <2>1, SeqMonotonic
  <2>3. d \in Seq(Char) /\ Len(d) = 1
    BY <2>1
  <2> HIDE DEF d
  <2> QED
    BY <2>2, <2>3
<1> HIDE DEF d
<1>2. e \in Seq(Char) /\ Len(e) = n + 1 /\ e[n + 1] = c /\ \A i \in 1..n : e[i] = f[i]
  BY <1>1, AppendProperties
<1> HIDE DEF e
<1>3. a \in Seq(Char) /\ Len(a) = n + 2 /\ \A i \in 1..(n + 1) : a[i] = e[i]
  <2>1. a \in Seq(Char) /\ Len(a) = Len(e) + Len(d) /\ \A i \in 1..Len(e) : a[i] = e[i]
    <3>1. e \in Seq(Char) /\ d \in Seq(Char)
      BY <1>1, <1>2
    <3> QED
      BY ONLY <3>1, ConcatIs
  <2> HIDE DEF a
  <2> QED
    BY <1>1, <1>2, <2>1
<1> HIDE DEF a
<1>4. /\ text \in Seq(Char) /\ Len(text) = n + 2 + Len(b)
      /\ \A i \in 1..(n + 2) : text[i] = a[i]
      /\ \A j \in 1..Len(b) : text[n + 2 + j] = b[j]
  <2>1. /\ text \in Seq(Char) /\ Len(text) = Len(a) + Len(b) /\ \A i \in 1..Len(a) : text[i] = a[i]
        /\ \A j \in 1..Len(b) : text[Len(a) + j] = b[j]
    <3>1. a \in Seq(Char) /\ b \in Seq(Char)
      BY <1>1, <1>3
    <3> QED
      BY ONLY <3>1, ConcatIs
  <2> HIDE DEF text
  <2> QED
    BY <1>3, <2>1
<1>5. Len(b) \in Nat /\ \A j \in 1..Len(b) : b[j] # Dash
  OBVIOUS
<1> HIDE DEF text, n
<1>6. \A i \in 1..n : text[i] # Dash
  <2>1. \A i \in 1..n : i \in 1..(n + 1) /\ i \in 1..(n + 2)
    BY <1>1
  <2> QED
    BY <1>1, <1>2, <1>3, <1>4, <2>1
<1>7. text[n + 1] = c
  <2>1. n + 1 \in 1..(n + 1) /\ n + 1 \in 1..(n + 2)
    BY <1>1
  <2> QED
    BY <1>2, <1>3, <1>4, <2>1
<1>8. ASSUME NEW i \in 1..(Len(text) - 1)
      PROVE  SubSeq(text, i, i + 1) # Sign
  <2> SUFFICES ASSUME SubSeq(text, i, i + 1) = Sign
               PROVE  FALSE
    OBVIOUS
  <2>1. text[i] = P /\ text[i + 1] = Dash
    BY <1>4, WhereSignsAre DEF SignAt
  <2>2. i \in Nat /\ i + 1 <= n + 2 + Len(b) /\ i >= 1
    BY <1>1, <1>4, <1>5
  <2>3. i + 1 > n + 1
    <3>1. i + 1 \notin 1..n
      BY <1>6, <2>1
    <3>2. i + 1 # n + 1
      BY <1>7, <2>1
    <3> QED
      BY <1>1, <2>2, <3>1, <3>2
  <2>4. i # n + 1
    BY <1>7, <2>1
  <2> DEFINE j == i + 1 - (n + 2)
  <2>5. j \in 1..Len(b) /\ n + 2 + j = i + 1
    BY <1>1, <1>5, <2>2, <2>3, <2>4
  <2> QED
    BY <1>4, <1>5, <2>1, <2>5
<1>9. {i \in 1..(Len(text) - 1) : SubSeq(text, i, i + 1) = Sign} = {}
  BY <1>8
<1>10. ServerReads(text) = None
  BY <1>9 DEF ServerReads
<1> QED
  BY <1>10 DEF text, a, e, d

LEMMA TwoCharacters ==
  ASSUME NEW S, NEW x \in S, NEW y \in S
  PROVE  /\ <<x>> \in Seq(S) /\ <<x, y>> \in Seq(S)
         /\ <<x>> \o <<>> = <<x>> /\ <<x>> \o <<y>> = <<x, y>>
<1> DEFINE a == <<x>>
           b == <<y>>
           c == <<x, y>>
           ab == a \o b
<1>1. /\ a \in Seq(S) /\ Len(a) = 1 /\ a[1] = x /\ b \in Seq(S) /\ Len(b) = 1 /\ b[1] = y
      /\ c \in Seq(S) /\ Len(c) = 2 /\ c[1] = x /\ c[2] = y
  OBVIOUS
<1> HIDE DEF a, b, c
<1>2. /\ ab \in Seq(S) /\ Len(ab) = Len(a) + Len(b) /\ \A i \in 1..Len(a) : ab[i] = a[i]
      /\ \A j \in 1..Len(b) : ab[Len(a) + j] = b[j]
  <2>1. a \in Seq(S) /\ b \in Seq(S)
    BY <1>1
  <2> QED
    BY ONLY <2>1, ConcatIs
<1>3. a \o <<>> = a
  BY <1>1, ConcatEmptySeq
<1> HIDE DEF ab
<1>4. Len(ab) = 2 /\ ab[1] = c[1] /\ ab[2] = c[2]
  BY <1>1, <1>2
<1>5. ab = c
  <2>1. \A i \in 1..Len(ab) : ab[i] = c[i]
    <3>1. \A i \in 1..2 : i = 1 \/ i = 2
      OBVIOUS
    <3> QED
      BY <1>4, <3>1
  <2> QED
    BY <1>1, <1>2, <1>4, <2>1, SeqEqual
<1> QED
  BY <1>1, <1>3, <1>5 DEF a, b, c, ab

LEMMA ThreeCharacters ==
  ASSUME NEW S, NEW x \in S, NEW y \in S, NEW z \in S
  PROVE  /\ <<x, y, z>> \in Seq(S) /\ <<x, y>> \o <<z>> = <<x, y, z>>
<1> DEFINE a == <<x, y>>
           b == <<z>>
           c == <<x, y, z>>
           ab == a \o b
<1>1. /\ a \in Seq(S) /\ Len(a) = 2 /\ a[1] = x /\ a[2] = y /\ b \in Seq(S) /\ Len(b) = 1 /\ b[1] = z
      /\ c \in Seq(S) /\ Len(c) = 3 /\ c[1] = x /\ c[2] = y /\ c[3] = z
  OBVIOUS
<1> HIDE DEF a, b, c
<1>2. /\ ab \in Seq(S) /\ Len(ab) = Len(a) + Len(b) /\ \A i \in 1..Len(a) : ab[i] = a[i]
      /\ \A j \in 1..Len(b) : ab[Len(a) + j] = b[j]
  <2>1. a \in Seq(S) /\ b \in Seq(S)
    BY <1>1
  <2> QED
    BY ONLY <2>1, ConcatIs
<1> HIDE DEF ab
<1>3. Len(ab) = 3 /\ ab[1] = c[1] /\ ab[2] = c[2] /\ ab[3] = c[3]
  BY <1>1, <1>2
<1>4. ab = c
  <2>1. \A i \in 1..Len(ab) : ab[i] = c[i]
    <3>1. \A i \in 1..3 : i = 1 \/ i = 2 \/ i = 3
      OBVIOUS
    <3> QED
      BY <1>3, <3>1
  <2> QED
    BY <1>1, <1>2, <1>3, <2>1, SeqEqual
<1> QED
  BY <1>1, <1>4 DEF a, b, c, ab

LEMMA NoiseBehindSeparator ==
  ASSUME NEW number \in Numbers, NEW front \in NoisyFronts, NEW sep \in Separators, NEW c \in Noise
  PROVE  TryParsePalletCode((front \o <<P, sep, c>>) \o number) = PalletId(number)
<1> DEFINE one == <<c>>
           pair == <<P, sep>>
           b == one \o number
<1>1. /\ number \in Seq(Digit) /\ number # None /\ number \in Seq(Char)
      /\ front \in Seq(Unsigned) /\ front \in Seq(Char) /\ sep \in {Dash, Plus}
      /\ c \in Char /\ c \notin Digit
  BY NumbersAssumption, DigitsAreText, NoisyFrontsAre, CanonicalUnsigned, NoiseIs DEF Separators
<1>2. one \in Seq(Char) /\ pair \in Seq(Char) /\ pair \o one = <<P, sep, c>>
  <2>1. P \in Char /\ sep \in Char
    BY <1>1 DEF P, Dash, Plus, Char
  <2>2. <<P, sep>> \in Seq(Char) /\ <<P, sep>> \o <<c>> = <<P, sep, c>>
    BY <1>1, <2>1, TwoCharacters, ThreeCharacters
  <2>3. <<c>> \in Seq(Char)
    BY <1>1
  <2> QED
    BY <2>2, <2>3
<1>3. Kept(one, Digit) = <<>>
  <2>1. one \in Seq({c}) /\ {c} \intersect Digit = {}
    BY <1>1
  <2> QED
    BY <2>1, KeptNone
<1> HIDE DEF one, pair
<1>4. (front \o (pair \o one)) \o number = (front \o pair) \o b
  <2>1. front \in Seq(Char) /\ pair \in Seq(Char) /\ one \in Seq(Char) /\ number \in Seq(Char)
    BY <1>1, <1>2
  <2>2. (front \o pair) \o one = front \o (pair \o one)
    BY ONLY <2>1, ConcatAssociative
  <2>3. front \o pair \in Seq(Char)
    BY <2>1, ConcatIs
  <2>4. ((front \o pair) \o one) \o number = (front \o pair) \o (one \o number)
    BY ONLY <2>1, <2>3, ConcatAssociative
  <2> QED
    BY <2>2, <2>4
<1>5. b \in Seq(Char) /\ Kept(b, Digit) = number
  <2>1. Kept(one \o number, Digit) = Kept(one, Digit) \o Kept(number, Digit)
    BY <1>1, <1>2, KeptConcat
  <2>2. Kept(number, Digit) = number
    BY <1>1, KeptAll
  <2>3. <<>> \o number = number
    BY <1>1, ConcatEmptySeq
  <2> QED
    BY <1>1, <1>2, <1>3, <2>1, <2>2, <2>3
<1> HIDE DEF b
<1>6. TryParsePalletCode((front \o pair) \o b)
        = IF Kept(b, Digit) = None THEN None ELSE Sign \o Kept(b, Digit)
  BY <1>1, <1>5, ServerReadsLabel DEF pair
<1> QED
  BY <1>1, <1>2, <1>4, <1>5, <1>6 DEF PalletId, Sign

LEMMA NoiseBehindP ==
  ASSUME NEW number \in Numbers, NEW front \in NoisyFronts, NEW sep \in Separators, NEW c \in Noise
  PROVE  TryParsePalletCode((front \o <<P, c, sep>>) \o number) \in {None, PalletId(number)}
<1> DEFINE p == <<P>>
           one == <<c>>
           s == <<sep>>
           mid == <<P, c, sep>>
           f == ServerSees(front)
<1>1. /\ number \in Seq(Digit) /\ number # None /\ number \in Seq(Char)
      /\ front \in Seq(Unsigned) /\ front \in Seq(Char) /\ f \in Seq(Char \ {Dash}) /\ f \in Seq(Char)
      /\ sep \in {Dash, Plus} /\ c \in Char /\ Key(c) = c
  <2>1. c \in Digit \union {P, Letter, Hash, GS, Dash, Colon} /\ c \in Char
    BY NoiseIs DEF Noise
  <2>2. front \in Seq(Unsigned)
    BY NoisyFrontsAre
  <2>3. front \in Seq(Char) /\ f \in Seq(Char \ {Dash})
    BY <2>2, ServerSeesUnsigned
  <2>4. f \in Seq(Char)
    BY <2>3, ServerSeesConcat
  <2>5. number \in Seq(Digit) /\ number # None
    BY NumbersAssumption
  <2>6. number \in Seq(Char)
    BY <2>5, DigitsAreText
  <2> QED
    BY <2>1, <2>2, <2>3, <2>4, <2>5, <2>6, KeyIs DEF Separators
<1>2. P \in Char /\ sep \in Char /\ Key(P) = P /\ Key(sep) = Dash /\ P \in ServerKeeps /\ Dash \in ServerKeeps
  BY <1>1 DEF P, Dash, Plus, Ae, Char, Key, ServerKeeps
<1>3. /\ p \in Seq(Char) /\ ServerSees(p) = <<P>> /\ s \in Seq(Char) /\ ServerSees(s) = <<Dash>>
      /\ one \in Seq(Char) /\ ServerSees(one) = IF c \in ServerKeeps THEN <<c>> ELSE <<>>
  BY <1>1, <1>2, ServerSeesOne
<1>4. mid = (p \o one) \o s /\ p \o one \in Seq(Char) /\ mid \in Seq(Char)
  <2>1. <<P, c>> \in Seq(Char) /\ <<P>> \o <<c>> = <<P, c>>
    BY <1>1, <1>2, TwoCharacters
  <2>2. <<P, c, sep>> \in Seq(Char) /\ <<P, c>> \o <<sep>> = <<P, c, sep>>
    BY <1>1, <1>2, ThreeCharacters
  <2> QED
    BY <2>1, <2>2
<1> HIDE DEF p, one, s, f, mid
<1>5. ServerSees(mid) = (<<P>> \o ServerSees(one)) \o <<Dash>>
  <2>1. ServerSees(p \o one) = ServerSees(p) \o ServerSees(one)
    BY <1>3, ServerSeesConcat
  <2>2. ServerSees((p \o one) \o s) = ServerSees(p \o one) \o ServerSees(s)
    BY <1>3, <1>4, ServerSeesConcat
  <2> QED
    BY <1>3, <1>4, <2>1, <2>2
<1>6. Kept(number, Digit) = number
  BY <1>1, KeptAll
<1>7. CASE c \notin ServerKeeps
  <2>1. ServerSees(mid) = Sign
    <3>1. (<<P>> \o <<>>) \o <<Dash>> = <<P, Dash>>
      <4>1. P \in Char /\ Dash \in Char
        BY DEF P, Dash, Char
      <4> QED
        BY <4>1, TwoCharacters
    <3> QED
      BY <1>3, <1>5, <1>7, <3>1 DEF Sign
  <2>2. TryParsePalletCode((front \o mid) \o number)
          = IF Kept(number, Digit) = None THEN None ELSE Sign \o Kept(number, Digit)
    BY <1>1, <1>4, <2>1, ServerReadsBehind
  <2> QED
    BY <1>1, <1>6, <2>2 DEF PalletId, Sign, mid
<1>8. CASE c \in ServerKeeps
  <2>1. ServerSees((front \o mid) \o number) = (f \o ((<<P>> \o <<c>>) \o <<Dash>>)) \o ServerSees(number)
    <3>1. ServerSees(front \o mid) = f \o ServerSees(mid)
      BY <1>1, <1>4, ServerSeesConcat DEF f
    <3>2. front \o mid \in Seq(Char)
      BY <1>1, <1>4
    <3>3. ServerSees((front \o mid) \o number) = ServerSees(front \o mid) \o ServerSees(number)
      BY <1>1, <3>2, ServerSeesConcat
    <3> QED
      BY <1>3, <1>5, <1>8, <3>1, <3>3
  <2>2. ServerSees(number) \in Seq(Char \ {Dash})
    <3>1. Digit \subseteq Unsigned
      BY DEF Digit, Unsigned, Char, Dash, Plus
    <3>2. number \in Seq(Unsigned)
      BY <1>1, <3>1, SeqMonotonic
    <3> QED
      BY <3>2, ServerSeesUnsigned
  <2> DEFINE g == Append(f, P)
  <2>3. P \in Char \ {Dash} /\ c \in Char \ {Dash, P} /\ Dash \in Char
    <3>1. c \in {Hash, Letter, GS, Colon}
      BY DEF Noise
    <3> QED
      BY <3>1 DEF Hash, Letter, GS, Colon, P, Dash, Char
  <2>4. g \in Seq(Char \ {Dash}) /\ g \in Seq(Char)
    BY <1>1, <2>3, AppendProperties
  <2>5. f \o ((<<P>> \o <<c>>) \o <<Dash>>) = Append(g, c) \o <<Dash>>
    <3> DEFINE x == <<P>>
               y == <<c>>
               z == <<Dash>>
    <3>1. x \in Seq(Char) /\ y \in Seq(Char) /\ z \in Seq(Char)
      BY <2>3
    <3>2. g = f \o x
      BY <1>1, <2>3, AppendIsConcat
    <3>3. Append(g, c) = g \o y
      BY <2>3, <2>4, AppendIsConcat
    <3> HIDE DEF x, y, z, g
    <3>4. f \in Seq(Char) /\ x \in Seq(Char) /\ y \in Seq(Char) /\ z \in Seq(Char)
      BY <1>1, <3>1
    <3>5. x \o y \in Seq(Char)
      BY <3>4, ConcatIs
    <3>6. (f \o (x \o y)) \o z = f \o ((x \o y) \o z)
      BY ONLY <3>4, <3>5, ConcatAssociative
    <3>7. (f \o x) \o y = f \o (x \o y)
      BY ONLY <3>4, ConcatAssociative
    <3> QED
      BY <3>2, <3>3, <3>6, <3>7 DEF x, y, z
  <2>6. ServerReads((Append(g, c) \o <<Dash>>) \o ServerSees(number)) = None
    BY <2>2, <2>3, <2>4, ServerReadsNothing
  <2>7. TryParsePalletCode((front \o mid) \o number) = None
    BY <2>1, <2>5, <2>6, ParseIs
  <2> QED
    BY <2>7 DEF mid
<1> QED
  BY <1>7, <1>8

LEMMA EveryNoisyLabelRead == EveryNoisyLabel
<1>1. ASSUME NEW number \in Numbers, NEW other \in Numbers, NEW front \in NoisyFronts,
             NEW sep \in Separators, NEW c \in Noise, NEW sign \in {<<P, c, sep>>, <<P, sep, c>>}
      PROVE  NotMisread(number, other, front \o sign \o number)
  <2> DEFINE scan == (front \o sign) \o number
  <2>1. TryParsePalletCode(scan) \in {None, PalletId(number)}
    <3>1. CASE sign = <<P, c, sep>>
      BY <3>1, NoiseBehindP
    <3>2. CASE sign = <<P, sep, c>>
      BY <3>2, NoiseBehindSeparator
    <3> QED
      BY <3>1, <3>2
  <2>2. scan # None
    <3>1. number \in Seq(Digit) /\ number # None /\ number \in Seq(Char)
      BY NumbersAssumption, DigitsAreText
    <3>2. front \o sign \in Seq(Char)
      <4>1. front \in Seq(Char)
        BY NoisyFrontsAre, CanonicalUnsigned
      <4>2. P \in Char /\ sep \in Char /\ c \in Char
        BY NoiseIs DEF Separators, P, Dash, Plus, Char
      <4>3. sign \in Seq(Char)
        <5>1. CASE sign = <<P, c, sep>>
          BY <4>2, <5>1, ThreeCharacters
        <5>2. CASE sign = <<P, sep, c>>
          BY <4>2, <5>2, ThreeCharacters
        <5> QED
          BY <5>1, <5>2
      <4> QED
        BY <4>1, <4>3, ConcatIs
    <3> QED
      BY <3>1, <3>2, ConcatEqualIffEmpty DEF None
  <2> HIDE DEF scan
  <2>3. ReadAs(scan, PalletId(other)) = TryParsePalletCode(scan)
    BY <2>2 DEF ReadAs, ResolvePalletCode
  <2>4. NotMisread(number, other, scan)
    BY <2>1, <2>3 DEF NotMisread
  <2> QED
    BY <2>4 DEF scan
<1> QED
  BY <1>1, NoisyDigitsRead DEF EveryNoisyLabel
-----------------------------------------------------------------------------
(***************************************************************************)
(* GS1 labels: what the page reads in a label with any values in any       *)
(* order.  First texts joined from parts; then what CompactFields does     *)
(* from each place of a text on; then the parts of a label, one after the  *)
(* other from the last to the first, and the fields of all of them.        *)
(***************************************************************************)
\* A part of a text.
Stands(text, at, part) ==
  /\ at \in Nat \ {0} /\ at + Len(part) <= Len(text) + 1
  /\ \A i \in 1..Len(part) : text[at + i - 1] = part[i]

\* Texts with the same characters are the same.
LEMMA SameText ==
  ASSUME NEW S, NEW a \in Seq(S), NEW b \in Seq(S), Len(a) = Len(b), \A i \in 1..Len(a) : a[i] = b[i]
  PROVE  a = b
BY SeqEqual

\* What stands at a place is what is cut out there.
LEMMA StandsIs ==
  ASSUME NEW S, NEW text \in Seq(S), NEW part \in Seq(S), NEW at, Stands(text, at, part), Len(part) # 0
  PROVE  SubSeq(text, at, at + Len(part) - 1) = part
<1> DEFINE b == at + Len(part) - 1
           there == SubSeq(text, at, b)
<1>1. Len(part) \in Nat /\ Len(part) # 0 /\ Len(text) \in Nat
  OBVIOUS
<1>2. at \in Nat \ {0} /\ b \in Nat /\ at <= b /\ b <= Len(text) /\ b - at + 1 = Len(part)
  BY <1>1 DEF Stands
<1>3. /\ there \in Seq(S) /\ Len(there) = b - at + 1
      /\ \A i \in 1..(b - at + 1) : there[i] = text[at + i - 1]
  <2> HIDE DEF b
  <2> QED
    BY <1>2, PartOf
<1> HIDE DEF b, there
<1>4. \A i \in 1..Len(there) : there[i] = part[i]
  BY <1>2, <1>3 DEF Stands
<1>5. there = part
  BY <1>2, <1>3, <1>4, SameText
<1> QED
  BY <1>5 DEF b, there

\* Two parts stand one behind the other.
LEMMA StandsApart ==
  ASSUME NEW S, NEW text \in Seq(S), NEW a \in Seq(S), NEW b \in Seq(S), NEW at,
         Stands(text, at, a \o b)
  PROVE  Stands(text, at, a) /\ Stands(text, at + Len(a), b)
<1>1. /\ a \o b \in Seq(S) /\ Len(a \o b) = Len(a) + Len(b)
      /\ \A i \in 1..(Len(a) + Len(b)) : (a \o b)[i] = IF i <= Len(a) THEN a[i] ELSE b[i - Len(a)]
  BY ConcatProperties, Zenon
<1>2. Len(a) \in Nat /\ Len(b) \in Nat /\ Len(text) \in Nat
  OBVIOUS
<1>3. at \in Nat \ {0} /\ at + (Len(a) + Len(b)) <= Len(text) + 1
      /\ \A i \in 1..(Len(a) + Len(b)) : text[at + i - 1] = (a \o b)[i]
  BY <1>1 DEF Stands
<1>4. ASSUME NEW i \in 1..Len(a)
      PROVE  text[at + i - 1] = a[i]
  <2>1. i \in 1..(Len(a) + Len(b)) /\ i <= Len(a)
    BY <1>2
  <2> QED
    BY <1>1, <1>3, <2>1
<1>5. ASSUME NEW i \in 1..Len(b)
      PROVE  text[at + Len(a) + i - 1] = b[i]
  <2>1. /\ Len(a) + i \in 1..(Len(a) + Len(b)) /\ ~(Len(a) + i <= Len(a))
        /\ Len(a) + i - Len(a) = i /\ at + (Len(a) + i) - 1 = at + Len(a) + i - 1
    BY <1>2, <1>3
  <2>2. text[at + (Len(a) + i) - 1] = (a \o b)[Len(a) + i]
    BY <1>3, <2>1
  <2>3. (a \o b)[Len(a) + i] = b[Len(a) + i - Len(a)]
    BY <1>1, <2>1
  <2> QED
    BY <2>1, <2>2, <2>3
<1> QED
  BY <1>2, <1>3, <1>4, <1>5 DEF Stands

\* The table Joined builds, part by part.
JoinTable(parts) ==
  CHOOSE upTo : upTo = [i \in 0..Len(parts) |-> IF i = 0 THEN <<>> ELSE upTo[i - 1] \o parts[i]]
FirstParts(parts, i) == JoinTable(parts)[i]

Parts(S, parts) == parts \in Seq(Seq(S))

LEMMA PartsAre ==
  ASSUME NEW S, NEW parts, Parts(S, parts)
  PROVE  Len(parts) \in Nat /\ \A i \in 1..Len(parts) : parts[i] \in Seq(S)
BY DEF Parts

OneMore(parts, i) == FirstParts(parts, i) = FirstParts(parts, i - 1) \o parts[i]

LEMMA PartByPart ==
  ASSUME NEW S, NEW parts, Parts(S, parts)
  PROVE  /\ Joined(parts) = FirstParts(parts, Len(parts)) /\ FirstParts(parts, 0) = <<>>
         /\ \A i \in 0..Len(parts) : FirstParts(parts, i) \in Seq(S)
         /\ \A i \in 1..Len(parts) : OneMore(parts, i)
<1> DEFINE n == Len(parts)
           step == [i \in 1..n |-> [s \in Seq(S) |-> s \o parts[i]]]
<1>1. n \in Nat /\ \A i \in 1..n : parts[i] \in Seq(S)
  BY PartsAre
<1>2. \A i \in 1..n : \A s \in Seq(S) : s \o parts[i] \in Seq(S)
  BY <1>1, ConcatProperties
<1>3. step \in [1..n -> [Seq(S) -> Seq(S)]]
  BY <1>2
<1>4. <<>> \in Seq(S)
  OBVIOUS
<1>5. Stepwise(n, Seq(S), <<>>, step)
  <2> HIDE DEF n, step
  <2> QED
    BY <1>1, <1>3, <1>4 DEF Stepwise
<1>6. PICK g \in [0..n -> Seq(S)] : g = Along(n, <<>>, step, g)
  <2> HIDE DEF n, step
  <2> QED
    BY <1>5, StepByStep
<1>7. g = [i \in 0..n |-> IF i = 0 THEN <<>> ELSE g[i - 1] \o parts[i]]
  <2>1. \A i \in 0..n : i # 0 => i \in 1..n /\ i - 1 \in 0..n /\ g[i - 1] \in Seq(S)
    OBVIOUS
  <2>2. \A i \in 1..n : \A s \in Seq(S) : step[i][s] = s \o parts[i]
    OBVIOUS
  <2> HIDE DEF n, step
  <2>3. g = [i \in 0..n |-> IF i = 0 THEN <<>> ELSE step[i][g[i - 1]]]
    BY <1>6 DEF Along
  <2>4. \A i \in 0..n : (IF i = 0 THEN <<>> ELSE step[i][g[i - 1]])
                          = IF i = 0 THEN <<>> ELSE g[i - 1] \o parts[i]
    BY <2>1, <2>2
  <2> QED
    BY <2>3, <2>4
<1> HIDE DEF n, step
<1> DEFINE T == JoinTable(parts)
<1>8. T = [i \in 0..n |-> IF i = 0 THEN <<>> ELSE T[i - 1] \o parts[i]]
  BY <1>7 DEF JoinTable, n
<1>9. T[0] = <<>> /\ \A i \in 1..n : T[i] = T[i - 1] \o parts[i]
  <2>1. \A i \in 1..n : i \in 0..n /\ i # 0
    BY <1>1
  <2>2. 0 \in 0..n
    BY <1>1
  <2> HIDE DEF T
  <2> QED
    BY <1>8, <2>1, <2>2
<1>10. Joined(parts) = T[n]
  BY DEF Joined, JoinTable, n
<1> HIDE DEF T
<1>11. \A i \in 0..n : T[i] \in Seq(S)
  <2> DEFINE Good == {i \in 0..n : T[i] \in Seq(S)}
  <2>1. 0 \in Good
    <3>1. 0 \in 0..n
      BY <1>1
    <3> QED
      BY <1>4, <1>9, <3>1
  <2>2. ASSUME NEW i \in 1..n, i - 1 \in Good
        PROVE  i \in Good
    <3>0. T[i] = T[i - 1] \o parts[i]
      BY <1>9, Zenon
    <3>1. i \in 0..n /\ T[i - 1] \in Seq(S) /\ T[i] = T[i - 1] \o parts[i]
      BY <1>1, <2>2, <3>0
    <3>2. T[i] \in Seq(S)
      BY <1>2, <3>1
    <3> QED
      BY <3>1, <3>2
  <2>3. 0..n \subseteq Good
    <3> HIDE DEF Good
    <3> QED
      BY <1>1, <2>1, <2>2, InductionTo
  <2> QED
    BY <2>3
<1> QED
  BY <1>9, <1>11, <1>10 DEF FirstParts, OneMore, n, T

\* Where a part begins.
Begin(parts, k) == Len(FirstParts(parts, k - 1)) + 1

\* One part more.
Grows(a, b, c) ==
  /\ Len(a) \in Nat /\ Len(b) \in Nat /\ Len(c) = Len(a) + Len(b)
  /\ \A i \in 1..Len(a) : c[i] = a[i]
  /\ \A i \in 1..Len(b) : c[Len(a) + i] = b[i]

LEMMA OneMorePart ==
  ASSUME NEW S, NEW parts, Parts(S, parts), NEW k \in 1..Len(parts)
  PROVE  Grows(FirstParts(parts, k - 1), parts[k], FirstParts(parts, k))
<1> DEFINE F(i) == FirstParts(parts, i)
           a == F(k - 1)
           b == parts[k]
<1>1. a \in Seq(S) /\ b \in Seq(S)
  <2>1. b \in Seq(S) /\ Len(parts) \in Nat
    BY PartsAre
  <2>2. k - 1 \in 0..Len(parts)
    BY <2>1
  <2> QED
    BY <2>1, <2>2, PartByPart
<1>2. F(k) = a \o b
  <2>1. OneMore(parts, k)
    BY PartByPart, Zenon
  <2> QED
    BY <2>1 DEF OneMore
<1> HIDE DEF F, a, b
<1>3. /\ Len(a \o b) = Len(a) + Len(b)
      /\ \A i \in 1..(Len(a) + Len(b)) : (a \o b)[i] = IF i <= Len(a) THEN a[i] ELSE b[i - Len(a)]
  BY <1>1, ConcatProperties, Zenon
<1>4. Len(a) \in Nat /\ Len(b) \in Nat
  BY <1>1
<1>5. ASSUME NEW i \in 1..Len(a)
      PROVE  F(k)[i] = a[i]
  <2>1. i \in 1..(Len(a) + Len(b)) /\ i <= Len(a)
    BY <1>4
  <2> QED
    BY <1>2, <1>3, <2>1
<1>6. ASSUME NEW i \in 1..Len(b)
      PROVE  F(k)[Len(a) + i] = b[i]
  <2>1. /\ Len(a) + i \in 1..(Len(a) + Len(b)) /\ ~(Len(a) + i <= Len(a))
        /\ Len(a) + i - Len(a) = i
    BY <1>4
  <2> QED
    BY <1>2, <1>3, <2>1
<1>7. Len(F(k)) = Len(a) + Len(b)
  BY <1>2, <1>3
<1> QED
  BY <1>4, <1>5, <1>6, <1>7 DEF Grows, F, a, b

\* What a text begins with, it goes on beginning with.
LEMMA FirstPartsStay ==
  ASSUME NEW S, NEW parts, Parts(S, parts)
  PROVE  \A m \in 0..Len(parts) : \A k \in 0..m :
           /\ Len(FirstParts(parts, k)) <= Len(FirstParts(parts, m))
           /\ \A i \in 1..Len(FirstParts(parts, k)) : FirstParts(parts, m)[i] = FirstParts(parts, k)[i]
<1> DEFINE n == Len(parts)
           F(i) == FirstParts(parts, i)
           Good == {m \in 0..n : \A k \in 0..m :
                      /\ Len(F(k)) <= Len(F(m)) /\ \A i \in 1..Len(F(k)) : F(m)[i] = F(k)[i]}
<1>1. /\ n \in Nat /\ F(0) = <<>>
      /\ \A i \in 0..n : F(i) \in Seq(S)
  <2>1. n \in Nat
    BY PartsAre
  <2> QED
    BY <2>1, PartByPart
<1> HIDE DEF n, F
<1>2. 0 \in Good
  <2>1. Len(F(0)) \in Nat
    BY <1>1
  <2>2. \A k \in 0..0 : k = 0
    OBVIOUS
  <2> QED
    BY <1>1, <2>1, <2>2
<1>3. ASSUME NEW m \in 1..n, m - 1 \in Good
      PROVE  m \in Good
  <2>1. m \in 0..n /\ m - 1 \in 0..n
    BY <1>1
  <2> DEFINE a == F(m - 1)
             c == F(m)
  <2>2. Grows(a, parts[m], c)
    BY OneMorePart DEF n, F
  <2>3. Len(a) \in Nat /\ Len(c) \in Nat /\ Len(a) <= Len(c) /\ \A i \in 1..Len(a) : c[i] = a[i]
    <3> HIDE DEF Good, a, c
    <3> QED
      BY <2>2 DEF Grows
  <2>4. Len(F(m - 1)) <= Len(F(m)) /\ \A i \in 1..Len(F(m - 1)) : F(m)[i] = F(m - 1)[i]
    BY <2>3
  <2>5. ASSUME NEW k \in 0..m
        PROVE  Len(F(k)) <= Len(F(m)) /\ \A i \in 1..Len(F(k)) : F(m)[i] = F(k)[i]
    <3>1. CASE k = m
      BY <2>3, <3>1
    <3>2. CASE k # m
      <4>1. k \in 0..(m - 1)
        BY <2>1, <3>2
      <4>2. Len(F(k)) <= Len(F(m - 1)) /\ \A i \in 1..Len(F(k)) : F(m - 1)[i] = F(k)[i]
        BY <1>3, <4>1
      <4>3. k \in 0..n
        BY <1>1, <2>1, <4>1
      <4>4. Len(F(k)) \in Nat /\ Len(F(m)) \in Nat
        BY <1>1, <2>3, <4>3
      <4>5. \A i \in 1..Len(F(k)) : i \in 1..Len(F(m - 1))
        BY <2>3, <4>2, <4>4
      <4> QED
        BY <2>3, <2>4, <4>2, <4>4, <4>5
    <3> QED
      BY <3>1, <3>2
  <2> QED
    BY <2>1, <2>5
<1>4. 0..n \subseteq Good
  <2> HIDE DEF Good
  <2> QED
    BY <1>1, <1>2, <1>3, InductionTo
<1> QED
  BY <1>4 DEF n, F

\* The parts follow one another, and every place of the text is in one.
PartsStand(parts, text) ==
  /\ Begin(parts, 1) = 1 /\ Begin(parts, Len(parts) + 1) = Len(text) + 1
  /\ \A k \in 1..Len(parts) :
       /\ Stands(text, Begin(parts, k), parts[k])
       /\ Begin(parts, k + 1) = Begin(parts, k) + Len(parts[k])
  /\ \A j \in 1..Len(text) : \E k \in 1..Len(parts) : \E i \in 1..Len(parts[k]) : j = Begin(parts, k) + i - 1

LEMMA PartsStandThere ==
  ASSUME NEW S, NEW parts, Parts(S, parts)
  PROVE  Joined(parts) \in Seq(S) /\ PartsStand(parts, Joined(parts))
<1> DEFINE n == Len(parts)
           F(i) == FirstParts(parts, i)
           text == Joined(parts)
<1>1. /\ n \in Nat /\ F(0) = <<>> /\ text = F(n)
      /\ \A i \in 0..n : F(i) \in Seq(S)
  <2>1. n \in Nat
    BY PartsAre
  <2> QED
    BY <2>1, PartByPart
<1>2. \A k \in 0..n : /\ Len(F(k)) <= Len(F(n))
                      /\ \A i \in 1..Len(F(k)) : F(n)[i] = F(k)[i]
  <2>1. n \in 0..n
    BY <1>1
  <2> QED
    BY <2>1, FirstPartsStay
<1> HIDE DEF n, F, text
<1>3. ASSUME NEW k \in 1..n
      PROVE  Grows(F(k - 1), parts[k], F(k))
  BY OneMorePart DEF n, F
<1>4. \A k \in 0..n : Begin(parts, k + 1) = Len(F(k)) + 1
  <2>1. ASSUME NEW k \in 0..n
        PROVE  k + 1 - 1 = k
    BY <1>1
  <2> QED
    BY <2>1 DEF Begin, F
<1>5. \A k \in 1..n : Begin(parts, k) = Len(F(k - 1)) + 1
  BY DEF Begin, F
<1>6. Begin(parts, 1) = 1 /\ Begin(parts, n + 1) = Len(text) + 1
  <2>1. Len(F(0)) = 0 /\ 0 \in 0..n /\ n \in 0..n /\ 0 + 1 = 1
    BY <1>1
  <2>2. Begin(parts, 0 + 1) = Len(F(0)) + 1
    BY <1>4, <2>1
  <2> QED
    BY <1>1, <1>4, <2>1, <2>2
<1>7. ASSUME NEW k \in 1..n
      PROVE  /\ Stands(text, Begin(parts, k), parts[k])
             /\ Begin(parts, k + 1) = Begin(parts, k) + Len(parts[k])
  <2> DEFINE a == F(k - 1)
             b == parts[k]
             c == F(k)
             from == Begin(parts, k)
             next == Begin(parts, k + 1)
  <2>1. Grows(a, b, c)
    BY <1>3
  <2>2. k \in 0..n /\ from = Len(a) + 1 /\ next = Len(c) + 1
    <3>1. k \in 0..n
      BY <1>1
    <3> QED
      BY <1>4, <1>5, <3>1, Zenon
  <2>3. Len(c) <= Len(text) /\ (\A i \in 1..Len(c) : text[i] = c[i]) /\ Len(text) \in Nat
    BY <1>1, <1>2, <2>2
  <2> HIDE DEF a, b, c, from, next
  <2>4. Len(a) \in Nat /\ Len(b) \in Nat /\ Len(c) = Len(a) + Len(b)
    BY <2>1 DEF Grows
  <2>5. ASSUME NEW i \in 1..Len(b)
        PROVE  text[from + i - 1] = b[i]
    <3>1. from + i - 1 = Len(a) + i /\ Len(a) + i \in 1..Len(c)
      BY <2>2, <2>4
    <3>2. c[Len(a) + i] = b[i]
      BY <2>1 DEF Grows
    <3> QED
      BY <2>3, <3>1, <3>2
  <2>6. from \in Nat \ {0} /\ from + Len(b) <= Len(text) + 1 /\ next = from + Len(b)
    BY <2>2, <2>3, <2>4
  <2>7. Stands(text, from, b)
    BY <2>5, <2>6 DEF Stands
  <2> QED
    BY <2>6, <2>7 DEF from, next, b
<1>8. ASSUME NEW j \in 1..Len(text)
      PROVE  \E k \in 1..n : \E i \in 1..Len(parts[k]) : j = Begin(parts, k) + i - 1
  <2> DEFINE Beyond == {k \in 0..n : j <= Len(F(k))}
  <2>1. n \in Beyond /\ Beyond \subseteq Nat
    BY <1>1
  <2>2. PICK k \in Beyond : \A m \in Beyond : k <= m
    <3> HIDE DEF Beyond
    <3> QED
      BY <2>1, SmallestMember
  <2>3. k # 0
    <3>1. Len(F(0)) = 0
      BY <1>1
    <3> QED
      BY <2>2, <3>1
  <2>4. k \in 1..n /\ ~(k <= k - 1)
    BY <2>2, <2>3
  <2> DEFINE a == F(k - 1)
             b == parts[k]
             c == F(k)
             from == Begin(parts, k)
  <2>5. Grows(a, b, c) /\ from = Len(a) + 1
    BY <1>3, <1>5, <2>4
  <2>6. j \in Nat /\ j <= Len(c)
    BY <2>2
  <2>7. ~(j <= Len(a))
    <3>1. k - 1 \in 0..n
      BY <1>1, <2>4
    <3> QED
      BY <2>2, <2>4, <3>1
  <2> HIDE DEF Beyond, a, b, c, from
  <2>8. Len(a) \in Nat /\ Len(b) \in Nat /\ Len(c) = Len(a) + Len(b)
    BY <2>5 DEF Grows
  <2>9. j - Len(a) \in 1..Len(b) /\ j = from + (j - Len(a)) - 1
    BY <2>5, <2>6, <2>7, <2>8
  <2> QED
    BY <2>4, <2>9 DEF b, from
<1>9. text \in Seq(S)
  BY <1>1
<1> QED
  BY <1>6, <1>7, <1>8, <1>9 DEF PartsStand, n, text

\* What CompactFields looks for at a place of a text.
AiAt(text, i) == SubSeq(text, i, i + 1)
ValueAt(text, i, k) == SubSeq(text, i + 2, IF i + 1 + k < Len(text) THEN i + 1 + k ELSE Len(text))
GtinAt(text, i) == /\ i < Len(text) /\ AiAt(text, i) = <<0, 1>>
                   /\ Len(ValueAt(text, i, 14)) = 14 /\ Digits(ValueAt(text, i, 14))
DateAt(text, i) == i < Len(text) /\ AiAt(text, i) = <<1, 7>>
LotAt(text, i) == i < Len(text) /\ AiAt(text, i) = <<1, 0>>
EndsFrom(text, i) == {j \in i..Len(text) : text[j] = GS}

\* One entry of the table CompactFields builds, from the last place to the first.
CompactAt(text, From, i) ==
  LET n == Len(text)
      ai == SubSeq(text, i, i + 1)
      Taken(k) == SubSeq(text, i + 2, IF i + 1 + k < n THEN i + 1 + k ELSE n)
      ends == {j \in (i + 2)..n : text[j] = GS}
  IN CASE i >= n -> {}
       [] i < n /\ ai = <<0, 1>> /\ Len(Taken(14)) = 14 /\ Digits(Taken(14)) ->
            {Field(i, 1, Taken(14))} \union From[i + 16]
       [] i < n /\ ai = <<1, 7>> -> {Field(i, 17, Taken(6))} \union From[i + 8]
       [] i < n /\ ai = <<1, 0>> -> IF ends = {} THEN {} ELSE From[Least(ends) + 1]
       [] OTHER -> From[i + 1]
CompactTable(text) ==
  CHOOSE From : From = [i \in 1..(Len(text) + 16) |-> CompactAt(text, From, i)]

LEMMA CompactFieldsAre ==
  ASSUME NEW text
  PROVE  CompactFields(text) = CompactTable(text)[1]
BY DEF CompactFields, CompactTable, CompactAt

LEMMA IdentifiersDiffer == <<0, 1>> # <<1, 7>> /\ <<0, 1>> # <<1, 0>> /\ <<1, 7>> # <<1, 0>>
OBVIOUS

\* The cases exclude one another.
LEMMA CompactCases ==
  ASSUME NEW text, Len(text) \in Nat, NEW From, NEW i \in Nat
  PROVE  /\ i >= Len(text) => CompactAt(text, From, i) = {}
         /\ GtinAt(text, i) =>
              CompactAt(text, From, i) = {Field(i, 1, ValueAt(text, i, 14))} \union From[i + 16]
         /\ DateAt(text, i) =>
              CompactAt(text, From, i) = {Field(i, 17, ValueAt(text, i, 6))} \union From[i + 8]
         /\ LotAt(text, i) /\ EndsFrom(text, i + 2) = {} => CompactAt(text, From, i) = {}
         /\ LotAt(text, i) /\ EndsFrom(text, i + 2) # {} =>
              CompactAt(text, From, i) = From[Least(EndsFrom(text, i + 2)) + 1]
         /\ i < Len(text) /\ ~GtinAt(text, i) /\ ~DateAt(text, i) /\ ~LotAt(text, i) =>
              CompactAt(text, From, i) = From[i + 1]
<1> DEFINE n == Len(text)
           ai == AiAt(text, i)
           gtin == GtinAt(text, i)
           date == DateAt(text, i)
           lot == LotAt(text, i)
           ends == EndsFrom(text, i + 2)
           a == {Field(i, 1, ValueAt(text, i, 14))} \union From[i + 16]
           b == {Field(i, 17, ValueAt(text, i, 6))} \union From[i + 8]
           c == IF ends = {} THEN {} ELSE From[Least(ends) + 1]
           d == From[i + 1]
<1>1. CompactAt(text, From, i)
        = CASE i >= n -> {} [] gtin -> a [] date -> b [] lot -> c [] OTHER -> d
  BY DEF CompactAt, GtinAt, DateAt, LotAt, EndsFrom, AiAt, ValueAt
<1>2. /\ i >= n => ~gtin /\ ~date /\ ~lot
      /\ ~(gtin /\ date) /\ ~(gtin /\ lot) /\ ~(date /\ lot)
  <2>1. n \in Nat
    OBVIOUS
  <2>2. /\ gtin => i < n /\ ai = <<0, 1>>
        /\ date => i < n /\ ai = <<1, 7>>
        /\ lot => i < n /\ ai = <<1, 0>>
    BY DEF GtinAt, DateAt, LotAt
  <2> HIDE DEF n, ai, gtin, date, lot
  <2> QED
    BY <2>1, <2>2, IdentifiersDiffer
<1>3. n \in Nat /\ (i < n => ~(i >= n))
  OBVIOUS
<1> HIDE DEF n, gtin, date, lot, ends, a, b, d
<1>4. /\ i >= n => CompactAt(text, From, i) = {}
      /\ gtin => CompactAt(text, From, i) = a
      /\ date => CompactAt(text, From, i) = b
      /\ lot => CompactAt(text, From, i) = c
      /\ i < n /\ ~gtin /\ ~date /\ ~lot => CompactAt(text, From, i) = d
  BY <1>1, <1>2, <1>3
<1> QED
  BY <1>4 DEF n, gtin, date, lot, ends, a, b, d

LEMMA LeastEnd ==
  ASSUME NEW text, Len(text) \in Nat, NEW i \in Nat, EndsFrom(text, i) # {}
  PROVE  /\ Least(EndsFrom(text, i)) \in EndsFrom(text, i)
         /\ Least(EndsFrom(text, i)) \in i..Len(text)
<1>1. EndsFrom(text, i) \subseteq Nat /\ EndsFrom(text, i) \subseteq i..Len(text)
  BY DEF EndsFrom
<1>2. PICK j \in EndsFrom(text, i) : \A k \in EndsFrom(text, i) : j <= k
  BY <1>1, SmallestMember
<1>3. Least(EndsFrom(text, i)) \in EndsFrom(text, i)
  BY <1>2 DEF Least
<1> QED
  BY <1>1, <1>3

\* The fields there can be.
FieldAt(text, i, ai) == Field(i, ai, ValueAt(text, i, IF ai = 1 THEN 14 ELSE 6))
FieldsIn(text) == {FieldAt(text, i, ai) : i \in Nat, ai \in {1, 17}}

LEMMA FieldsThere ==
  ASSUME NEW text, NEW i \in Nat
  PROVE  /\ {Field(i, 1, ValueAt(text, i, 14))} \subseteq FieldsIn(text)
         /\ {Field(i, 17, ValueAt(text, i, 6))} \subseteq FieldsIn(text)
<1>1. FieldAt(text, i, 1) \in FieldsIn(text) /\ FieldAt(text, i, 17) \in FieldsIn(text)
  BY DEF FieldsIn
<1>2. FieldAt(text, i, 1) = Field(i, 1, ValueAt(text, i, 14))
  BY DEF FieldAt
<1>3. FieldAt(text, i, 17) = Field(i, 17, ValueAt(text, i, 6))
  BY DEF FieldAt
<1> QED
  BY <1>1, <1>2, <1>3

\* Where the next field is looked for.
NextPlace(text, i) ==
  IF GtinAt(text, i) THEN i + 16
  ELSE IF DateAt(text, i) THEN i + 8
  ELSE IF LotAt(text, i) /\ EndsFrom(text, i + 2) # {} THEN Least(EndsFrom(text, i + 2)) + 1
  ELSE i + 1
Found(text, i) ==
  IF GtinAt(text, i) THEN {Field(i, 1, ValueAt(text, i, 14))}
  ELSE IF DateAt(text, i) THEN {Field(i, 17, ValueAt(text, i, 6))}
  ELSE {}
Finished(text, i) == i >= Len(text) \/ (LotAt(text, i) /\ EndsFrom(text, i + 2) = {})

LEMMA CompactGoesOn ==
  ASSUME NEW text, Len(text) \in Nat, NEW From, NEW i \in Nat
  PROVE  CompactAt(text, From, i)
           = IF Finished(text, i) THEN {} ELSE Found(text, i) \union From[NextPlace(text, i)]
<1>1. CASE i >= Len(text)
  BY <1>1, CompactCases DEF Finished
<1>2. CASE GtinAt(text, i)
  <2>1. ~Finished(text, i)
    BY <1>2, IdentifiersDiffer DEF Finished, GtinAt, LotAt
  <2> QED
    BY <1>2, <2>1, CompactCases DEF Found, NextPlace
<1>3. CASE ~GtinAt(text, i) /\ DateAt(text, i)
  <2>1. ~Finished(text, i)
    BY <1>3, IdentifiersDiffer DEF Finished, DateAt, LotAt
  <2> QED
    BY <1>3, <2>1, CompactCases DEF Found, NextPlace
<1>4. CASE ~GtinAt(text, i) /\ ~DateAt(text, i) /\ LotAt(text, i)
  <2>1. i < Len(text)
    BY <1>4 DEF LotAt
  <2>2. CASE EndsFrom(text, i + 2) = {}
    BY <1>4, <2>2, CompactCases DEF Finished
  <2>3. CASE EndsFrom(text, i + 2) # {}
    <3>1. ~Finished(text, i) /\ Found(text, i) = {}
             /\ NextPlace(text, i) = Least(EndsFrom(text, i + 2)) + 1
      BY <1>4, <2>1, <2>3 DEF Finished, Found, NextPlace
    <3>2. CompactAt(text, From, i) = From[Least(EndsFrom(text, i + 2)) + 1]
      BY <1>4, <2>3, CompactCases
    <3> QED
      BY <3>1, <3>2
  <2> QED
    BY <2>2, <2>3
<1>5. CASE i < Len(text) /\ ~GtinAt(text, i) /\ ~DateAt(text, i) /\ ~LotAt(text, i)
  <2>1. ~Finished(text, i) /\ Found(text, i) = {} /\ NextPlace(text, i) = i + 1
    BY <1>5 DEF Finished, Found, NextPlace
  <2>2. CompactAt(text, From, i) = From[i + 1]
    BY <1>5, CompactCases
  <2> QED
    BY <2>1, <2>2
<1> QED
  BY <1>1, <1>2, <1>3, <1>4, <1>5

\* It always goes on further to the right, so the table is well defined.
LEMMA PlacesGrow ==
  ASSUME NEW text, Len(text) \in Nat, NEW i \in 1..(Len(text) + 16), ~Finished(text, i)
  PROVE  NextPlace(text, i) \in 1..(Len(text) + 16) /\ i < NextPlace(text, i)
<1>1. i \in Nat /\ 1 <= i /\ i < Len(text)
  BY DEF Finished
<1>2. i + 2 \in Nat
  BY <1>1
<1>3. CASE LotAt(text, i) /\ EndsFrom(text, i + 2) # {}
  <2>1. Least(EndsFrom(text, i + 2)) \in (i + 2)..Len(text)
    BY <1>2, <1>3, LeastEnd
  <2> QED
    BY <1>1, <2>1 DEF NextPlace
<1>4. CASE ~(LotAt(text, i) /\ EndsFrom(text, i + 2) # {})
  BY <1>1, <1>4 DEF NextPlace
<1> QED
  BY <1>3, <1>4

\* What CompactFields finds from a place on: the field there, if there is one, and what
\* it finds from the next place on.
LEMMA CompactReads ==
  ASSUME NEW text, Len(text) \in Nat
  PROVE  \A i \in 1..(Len(text) + 16) :
           CompactTable(text)[i]
             = IF Finished(text, i) THEN {} ELSE Found(text, i) \union CompactTable(text)[NextPlace(text, i)]
<1> DEFINE n == Len(text)
           D == 1..(n + 16)
           S == SUBSET FieldsIn(text)
           F == [g \in [D -> S] |-> [i \in D |-> CompactAt(text, g, i)]]
           rank == [i \in D |-> n + 16 - i]
<1>1. \A i \in D : i \in Nat
  OBVIOUS
<1>2. ASSUME NEW g \in [D -> S], NEW i \in D
      PROVE  CompactAt(text, g, i) \in S
  <2>1. CompactAt(text, g, i) = IF Finished(text, i) THEN {} ELSE Found(text, i) \union g[NextPlace(text, i)]
    BY <1>1, CompactGoesOn
  <2>2. Found(text, i) \subseteq FieldsIn(text)
    BY <1>1, FieldsThere DEF Found
  <2>3. ~Finished(text, i) => NextPlace(text, i) \in D
    BY PlacesGrow
  <2> HIDE DEF D
  <2> QED
    BY <2>1, <2>2, <2>3
<1>3. F \in [[D -> S] -> [D -> S]]
  <2> HIDE DEF D, S
  <2> QED
    BY <1>2
<1>4. ASSUME NEW g \in [D -> S], NEW h \in [D -> S], NEW i \in D,
             \A j \in D : rank[j] < rank[i] => g[j] = h[j]
      PROVE  CompactAt(text, g, i) = CompactAt(text, h, i)
  <2>1. CASE Finished(text, i)
    BY <1>1, <2>1, CompactGoesOn
  <2>2. CASE ~Finished(text, i)
    <3> DEFINE j == NextPlace(text, i)
    <3>1. j \in D /\ i < j
      BY <2>2, PlacesGrow
    <3> HIDE DEF j
    <3>2. rank[j] < rank[i]
      BY <3>1
    <3>3. g[j] = h[j]
      BY <1>4, <3>1, <3>2
    <3> QED
      BY <1>1, <2>2, <3>3, CompactGoesOn DEF j
  <2> QED
    BY <2>1, <2>2
<1>5. n + 16 \in Nat /\ rank \in [D -> 0..(n + 16)] /\ S # {}
  <2>1. {} \in S
    OBVIOUS
  <2> HIDE DEF S
  <2> QED
    BY <2>1
<1>6. \A g, h \in [D -> S] : \A i \in D :
        (\A j \in D : rank[j] < rank[i] => g[j] = h[j]) => F[g][i] = F[h][i]
  <2>1. \A g \in [D -> S] : \A i \in D : F[g][i] = CompactAt(text, g, i)
    <3> HIDE DEF D, S
    <3> QED
      OBVIOUS
  <2> HIDE DEF D, S, F, rank
  <2> QED
    BY <1>4, <2>1
<1>7. Recursion(F, D, S, rank, n + 16)
  <2> HIDE DEF D, S, F, rank
  <2> QED
    BY <1>3, <1>5, <1>6 DEF Recursion
<1>8. PICK g \in [D -> S] : F[g] = g
  <2> HIDE DEF D, S, F, rank
  <2> QED
    BY <1>7, RecursiveFunction
<1>9. g = [i \in D |-> CompactAt(text, g, i)]
  <2> HIDE DEF D, S
  <2> QED
    BY <1>8
<1>10. CompactTable(text) = [i \in D |-> CompactAt(text, CompactTable(text), i)]
  BY <1>9 DEF CompactTable
<1>11. ASSUME NEW i \in D
       PROVE  CompactTable(text)[i] = CompactAt(text, CompactTable(text), i)
  <2> HIDE DEF D
  <2> QED
    BY <1>10
<1> QED
  BY <1>1, <1>11, CompactGoesOn

LEMMA PairStands ==
  ASSUME NEW S, NEW text \in Seq(S), NEW pair \in Seq(S), Len(pair) = 2, NEW i, Stands(text, i, pair)
  PROVE  i \in Nat \ {0} /\ i < Len(text) /\ AiAt(text, i) = pair
<1>1. Len(text) \in Nat /\ Len(pair) # 0
  OBVIOUS
<1>2. i \in Nat \ {0} /\ i + 2 <= Len(text) + 1
  BY DEF Stands
<1>3. i + 2 - 1 = i + 1 /\ i < Len(text)
  BY <1>1, <1>2
<1>4. SubSeq(text, i, i + Len(pair) - 1) = pair
  BY <1>1, StandsIs
<1> QED
  BY <1>2, <1>3, <1>4 DEF AiAt

LEMMA ValueStands ==
  ASSUME NEW S, NEW text \in Seq(S), NEW v \in Seq(S), Len(v) # 0, NEW i \in Nat, Stands(text, i + 2, v)
  PROVE  ValueAt(text, i, Len(v)) = v
<1>1. Len(v) \in Nat /\ Len(text) \in Nat
  OBVIOUS
<1>2. i + 2 + Len(v) <= Len(text) + 1
  BY DEF Stands
<1>3. (IF i + 1 + Len(v) < Len(text) THEN i + 1 + Len(v) ELSE Len(text)) = i + 2 + Len(v) - 1
  BY <1>1, <1>2
<1>4. SubSeq(text, i + 2, i + 2 + Len(v) - 1) = v
  BY StandsIs
<1> QED
  BY <1>3, <1>4 DEF ValueAt

\* What is done where an element stands.
LEMMA GtinRead ==
  ASSUME NEW text \in Seq(Char), NEW v \in Seq(Char), Len(v) = 14, Digits(v), NEW i \in Nat,
         Stands(text, i, <<0, 1>>), Stands(text, i + 2, v)
  PROVE  ~Finished(text, i) /\ Found(text, i) = {Field(i, 1, v)} /\ NextPlace(text, i) = i + 16
<1>1. i < Len(text) /\ AiAt(text, i) = <<0, 1>>
  <2> DEFINE ai == <<0, 1>>
  <2>1. ai \in Seq(Char) /\ Len(ai) = 2 /\ Stands(text, i, ai)
    BY DEF Char
  <2>2. i < Len(text) /\ AiAt(text, i) = ai
    <3> HIDE DEF ai
    <3> QED
      BY <2>1, PairStands
  <2> QED
    BY <2>2
<1>2. ValueAt(text, i, 14) = v
  <2>1. Len(v) # 0
    OBVIOUS
  <2> QED
    BY <2>1, ValueStands
<1>3. GtinAt(text, i)
  BY <1>1, <1>2 DEF GtinAt
<1>4. ~LotAt(text, i) /\ ~(i >= Len(text))
  <2>1. Len(text) \in Nat
    OBVIOUS
  <2> QED
    BY <1>1, <2>1, IdentifiersDiffer DEF LotAt
<1> QED
  BY <1>2, <1>3, <1>4 DEF Finished, Found, NextPlace

LEMMA DateRead ==
  ASSUME NEW text \in Seq(Char), NEW v \in Seq(Char), Len(v) = 6, NEW i \in Nat,
         Stands(text, i, <<1, 7>>), Stands(text, i + 2, v)
  PROVE  ~Finished(text, i) /\ Found(text, i) = {Field(i, 17, v)} /\ NextPlace(text, i) = i + 8
<1>1. i < Len(text) /\ AiAt(text, i) = <<1, 7>>
  <2> DEFINE ai == <<1, 7>>
  <2>1. ai \in Seq(Char) /\ Len(ai) = 2 /\ Stands(text, i, ai)
    BY DEF Char
  <2>2. i < Len(text) /\ AiAt(text, i) = ai
    <3> HIDE DEF ai
    <3> QED
      BY <2>1, PairStands
  <2> QED
    BY <2>2
<1>2. ValueAt(text, i, 6) = v
  <2>1. Len(v) # 0
    OBVIOUS
  <2> QED
    BY <2>1, ValueStands
<1>3. DateAt(text, i) /\ ~GtinAt(text, i)
  BY <1>1, IdentifiersDiffer DEF DateAt, GtinAt
<1>4. ~LotAt(text, i) /\ ~(i >= Len(text))
  <2>1. Len(text) \in Nat
    OBVIOUS
  <2> QED
    BY <1>1, <2>1, IdentifiersDiffer DEF LotAt
<1> QED
  BY <1>2, <1>3, <1>4 DEF Finished, Found, NextPlace

LEMMA LotRead ==
  ASSUME NEW text \in Seq(Char), NEW v \in Seq(Char), \A j \in 1..Len(v) : v[j] # GS, NEW i \in Nat,
         Stands(text, i, <<1, 0>>), Stands(text, i + 2, v)
  PROVE  /\ i + 2 + Len(v) = Len(text) + 1 => Finished(text, i)
         /\ i + 2 + Len(v) <= Len(text) /\ text[i + 2 + Len(v)] = GS =>
              ~Finished(text, i) /\ Found(text, i) = {} /\ NextPlace(text, i) = i + 2 + Len(v) + 1
<1>1. i < Len(text) /\ AiAt(text, i) = <<1, 0>>
  <2> DEFINE ai == <<1, 0>>
  <2>1. ai \in Seq(Char) /\ Len(ai) = 2 /\ Stands(text, i, ai)
    BY DEF Char
  <2>2. i < Len(text) /\ AiAt(text, i) = ai
    <3> HIDE DEF ai
    <3> QED
      BY <2>1, PairStands
  <2> QED
    BY <2>2
<1>2. LotAt(text, i) /\ ~GtinAt(text, i) /\ ~DateAt(text, i)
  BY <1>1, IdentifiersDiffer DEF DateAt, GtinAt, LotAt
<1>3. Len(v) \in Nat /\ Len(text) \in Nat
  OBVIOUS
<1> DEFINE to == i + 2 + Len(v)
<1>4. ASSUME NEW j \in (i + 2)..Len(text), j < to
      PROVE  text[j] # GS
  <2>1. j - (i + 1) \in 1..Len(v) /\ i + 2 + (j - (i + 1)) - 1 = j
    BY <1>3, <1>4
  <2> QED
    BY <2>1 DEF Stands
<1>5. ASSUME to = Len(text) + 1
      PROVE  Finished(text, i)
  <2>1. EndsFrom(text, i + 2) = {}
    BY <1>3, <1>4, <1>5 DEF EndsFrom
  <2> QED
    BY <1>2, <2>1 DEF Finished
<1>6. ASSUME to <= Len(text), text[to] = GS
      PROVE  ~Finished(text, i) /\ Found(text, i) = {} /\ NextPlace(text, i) = to + 1
  <2> DEFINE ends == EndsFrom(text, i + 2)
  <2>1. to \in (i + 2)..Len(text)
    BY <1>3, <1>6
  <2>2. ends \in SUBSET Int /\ to \in ends
    BY <1>6, <2>1 DEF EndsFrom
  <2>3. ASSUME NEW j \in ends
        PROVE  to <= j
    <3>1. j \in (i + 2)..Len(text) /\ text[j] = GS
      BY DEF EndsFrom
    <3>2. ~(j < to)
      BY <1>4, <3>1
    <3> QED
      BY <1>3, <3>1, <3>2
  <2> HIDE DEF ends, to
  <2>4. Least(ends) = to
    BY <2>2, <2>3, LeastIs
  <2>5. ends # {}
    BY <2>2
  <2> QED
    BY <1>1, <1>2, <1>3, <2>4, <2>5 DEF ends, Finished, Found, NextPlace
<1> QED
  BY <1>5, <1>6

\* A separator is passed over.
LEMMA SeparatorRead ==
  ASSUME NEW text \in Seq(Char), NEW i \in 1..Len(text), text[i] = GS
  PROVE  CompactTable(text)[i] = CompactTable(text)[i + 1]
<1>1. Len(text) \in Nat
  OBVIOUS
<1>2. i \in 1..(Len(text) + 16) /\ i + 1 \in 1..(Len(text) + 16)
  BY <1>1
<1> DEFINE T == CompactTable(text)
<1>0. \A j \in {i, i + 1} : T[j] = IF Finished(text, j) THEN {} ELSE Found(text, j) \union T[NextPlace(text, j)]
  BY <1>1, <1>2, CompactReads
<1> HIDE DEF T
<1>3. CASE i = Len(text)
  <2>1. Finished(text, i) /\ Finished(text, i + 1)
    BY <1>1, <1>3 DEF Finished
  <2> QED
    BY <1>0, <2>1 DEF T
<1>4. CASE i # Len(text)
  <2>1. i \in Nat \ {0} /\ i < Len(text) /\ i + 1 \in Nat /\ i <= i + 1 /\ i + 1 <= Len(text)
    BY <1>1, <1>4
  <2> DEFINE ai == AiAt(text, i)
  <2>2. ai[1] = GS
    <3>1. /\ \A k \in 1..(i + 1 - i + 1) : ai[k] = text[i + k - 1]
          /\ 1 \in 1..(i + 1 - i + 1) /\ i + 1 - 1 = i
      BY <2>1, PartOf DEF AiAt
    <3> HIDE DEF ai
    <3> QED
      BY <3>1
  <2>3. ai # <<0, 1>> /\ ai # <<1, 7>> /\ ai # <<1, 0>>
    <3> HIDE DEF ai
    <3> QED
      BY <2>2 DEF GS
  <2>4. ~GtinAt(text, i) /\ ~DateAt(text, i) /\ ~LotAt(text, i)
    BY <2>3 DEF GtinAt, DateAt, LotAt
  <2>5. ~Finished(text, i) /\ Found(text, i) = {} /\ NextPlace(text, i) = i + 1
    BY <1>1, <2>1, <2>4 DEF Finished, Found, NextPlace
  <2>6. T[i] = {} \union T[i + 1]
    BY <1>0, <2>5
  <2> QED
    BY <2>6 DEF T
<1> QED
  BY <1>3, <1>4

\* A label with values of its own, in any order; a batch number is a text of any
\* length.
Plain == Char \ {GS, OpenParen, CloseParen}
IsLabel(label) ==
  /\ label.gtin \in [1..14 -> Digit] /\ label.date \in [1..6 -> Digit] /\ label.lot \in Seq(Plain)
  /\ label.order \in Seq({1, 17, 10}) /\ label.order # <<>>
  /\ \A i, j \in DOMAIN label.order : label.order[i] = label.order[j] => i = j

ElementOf(label, i) == Value(label, label.order[i])
IsElement(ai, v) ==
  /\ v \in Seq(Plain)
  /\ \/ ai = 1 /\ Len(v) = 14 /\ Digits(v)
     \/ ai = 17 /\ Len(v) = 6 /\ Digits(v)
     \/ ai = 10

LEMMA WiderText ==
  ASSUME NEW S, NEW R, S \subseteq R, NEW v \in Seq(S)
  PROVE  v \in Seq(R)
<1>1. v \in [1..Len(v) -> S] /\ Len(v) \in Nat
  OBVIOUS
<1>2. v \in [1..Len(v) -> R]
  BY <1>1
<1> QED
  BY <1>1, <1>2, FunctionIsSeq

LEMMA DigitsArePlain == Digit \subseteq Plain /\ Plain \subseteq Char
BY DEF Digit, Plain, Char, GS, OpenParen, CloseParen

LEMMA OrderIs ==
  ASSUME NEW label, IsLabel(label)
  PROVE  /\ Len(label.order) \in Nat \ {0} /\ DOMAIN label.order = 1..Len(label.order)
         /\ \A i \in 1..Len(label.order) : label.order[i] \in {1, 17, 10}
<1>1. label.order \in Seq({1, 17, 10}) /\ label.order # <<>>
  BY DEF IsLabel
<1> QED
  BY <1>1

LEMMA ElementsAre ==
  ASSUME NEW label, IsLabel(label), NEW i \in 1..Len(label.order)
  PROVE  IsElement(label.order[i], ElementOf(label, i))
<1>1. label.order[i] \in {1, 17, 10}
  BY OrderIs
<1>2. CASE label.order[i] = 1
  <2>1. ElementOf(label, i) = label.gtin
    BY <1>2 DEF ElementOf, Value
  <2>2. label.gtin \in [1..14 -> Digit]
    BY DEF IsLabel
  <2>3. label.gtin \in Seq(Digit) /\ Len(label.gtin) = 14
    BY <2>2, FunctionIsSeq
  <2>4. label.gtin \in Seq(Plain)
    BY <2>3, DigitsArePlain, WiderText
  <2>5. Digits(label.gtin)
    BY <2>2 DEF Digits
  <2> QED
    BY <1>2, <2>1, <2>3, <2>4, <2>5 DEF IsElement
<1>3. CASE label.order[i] = 17
  <2>1. ElementOf(label, i) = label.date
    BY <1>3 DEF ElementOf, Value
  <2>2. label.date \in [1..6 -> Digit]
    BY DEF IsLabel
  <2>3. label.date \in Seq(Digit) /\ Len(label.date) = 6
    BY <2>2, FunctionIsSeq
  <2>4. label.date \in Seq(Plain)
    BY <2>3, DigitsArePlain, WiderText
  <2>5. Digits(label.date)
    BY <2>2 DEF Digits
  <2> QED
    BY <1>3, <2>1, <2>3, <2>4, <2>5 DEF IsElement
<1>4. CASE label.order[i] = 10
  <2>1. ElementOf(label, i) = label.lot
    BY <1>4 DEF ElementOf, Value
  <2>2. label.lot \in Seq(Plain)
    BY DEF IsLabel
  <2> QED
    BY <1>4, <2>1, <2>2 DEF IsElement
<1> QED
  BY <1>1, <1>2, <1>3, <1>4

\* The identifier in two digits.
IdentifierOf(ai) == <<ai \div 10, ai % 10>>
LEMMA IdentifiersAre ==
  /\ IdentifierOf(1) = <<0, 1>> /\ IdentifierOf(17) = <<1, 7>> /\ IdentifierOf(10) = <<1, 0>>
<1>1. 1 \div 10 = 0 /\ 1 % 10 = 1 /\ 17 \div 10 = 1 /\ 17 % 10 = 7 /\ 10 \div 10 = 1 /\ 10 % 10 = 0
  BY SMT
<1> QED
  BY <1>1 DEF IdentifierOf

LEMMA IdentifierDigits ==
  ASSUME NEW ai \in {1, 17, 10}
  PROVE  IdentifierOf(ai) \in Seq(Digit) /\ Len(IdentifierOf(ai)) = 2
<1>1. 0 \in Digit /\ 1 \in Digit /\ 7 \in Digit
  BY DEF Digit
<1>2. \A a, b \in Digit : <<a, b>> \in Seq(Digit) /\ Len(<<a, b>>) = 2
  OBVIOUS
<1>3. \E a, b \in Digit : IdentifierOf(ai) = <<a, b>>
  BY <1>1, IdentifiersAre
<1> QED
  BY <1>2, <1>3

Gap(separated) == IF separated THEN <<GS>> ELSE <<>>
SeparatedAfter(label, separated, i) == separated \/ (label.order[i] = 10 /\ i < Len(label.order))

LEMMA CompactPartIs ==
  ASSUME NEW label, NEW separated, NEW i
  PROVE  CompactPart(label, separated, i)
           = (IdentifierOf(label.order[i]) \o ElementOf(label, i)) \o Gap(SeparatedAfter(label, separated, i))
BY DEF CompactPart, IdentifierOf, ElementOf, Gap, SeparatedAfter

GapChars == Char \ {OpenParen}
LEMMA GapIs ==
  ASSUME NEW s \in BOOLEAN
  PROVE  Gap(s) \in Seq(GapChars) /\ Len(Gap(s)) = (IF s THEN 1 ELSE 0) /\ (s => Gap(s)[1] = GS)
<1>1. GS \in GapChars
  BY DEF GapChars, Char, GS, OpenParen
<1>2. <<GS>> \in Seq(GapChars) /\ Len(<<GS>>) = 1 /\ <<GS>>[1] = GS
  BY <1>1
<1>3. <<>> \in Seq(GapChars) /\ Len(<<>>) = 0
  OBVIOUS
<1> QED
  BY <1>2, <1>3 DEF Gap

\* What a part of a label is read as.
FieldOf(ai, v, at) == IF ai = 10 THEN {} ELSE {Field(at, ai, v)}

LEMMA EndOfText ==
  ASSUME NEW text, Len(text) \in Nat
  PROVE  CompactTable(text)[Len(text) + 1] = {}
<1>1. Len(text) + 1 \in 1..(Len(text) + 16) /\ Len(text) + 1 >= Len(text)
  OBVIOUS
<1> QED
  BY <1>1, CompactReads DEF Finished

\* A part is read as its element, and the reading goes on right behind it: a batch
\* number ends at its separator or where the text does.
LEMMA PartRead ==
  ASSUME NEW text \in Seq(Char), NEW ai, NEW v, IsElement(ai, v), NEW s \in BOOLEAN, NEW at,
         Stands(text, at, (IdentifierOf(ai) \o v) \o Gap(s)),
         s \/ ai # 10 \/ at + 2 + Len(v) = Len(text) + 1
  PROVE  /\ Len((IdentifierOf(ai) \o v) \o Gap(s)) = 2 + Len(v) + (IF s THEN 1 ELSE 0)
         /\ CompactTable(text)[at]
              = FieldOf(ai, v, at) \union CompactTable(text)[at + (2 + Len(v) + (IF s THEN 1 ELSE 0))]
<1> DEFINE pair == IdentifierOf(ai)
           gap == Gap(s)
           T == CompactTable(text)
           to == at + 2 + Len(v)
<1>1. ai \in {1, 17, 10} /\ v \in Seq(Plain)
  BY DEF IsElement
<1>2. pair \in Seq(Char) /\ Len(pair) = 2 /\ v \in Seq(Char) /\ gap \in Seq(Char)
  <2>1. pair \in Seq(Digit) /\ Len(pair) = 2
    BY <1>1, IdentifierDigits
  <2>2. Digit \subseteq Char /\ Plain \subseteq Char /\ GapChars \subseteq Char
    BY DigitsArePlain DEF GapChars
  <2>3. gap \in Seq(GapChars)
    BY GapIs
  <2> HIDE DEF pair, gap
  <2> QED
    BY <1>1, <2>1, <2>2, <2>3, WiderText
<1>3. Len(gap) = (IF s THEN 1 ELSE 0) /\ (s => gap[1] = GS)
  BY GapIs
<1> HIDE DEF pair, gap
<1>4. /\ Stands(text, at, pair) /\ Stands(text, at + 2, v) /\ Stands(text, to, gap)
      /\ Len((pair \o v) \o gap) = 2 + Len(v) + Len(gap)
  <2> DEFINE w == pair \o v
  <2>1. w \in Seq(Char) /\ Len(w) = 2 + Len(v)
    <3>1. w \in Seq(Char) /\ Len(w) = Len(pair) + Len(v)
      BY <1>2, ConcatProperties, Zenon
    <3> QED
      BY <1>2, <3>1
  <2>2. Stands(text, at, w \o gap)
    BY DEF pair, gap
  <2>3. Len(w \o gap) = Len(w) + Len(gap)
    <3> HIDE DEF w
    <3> QED
      BY <1>2, <2>1, ConcatProperties
  <2>4. Stands(text, at, w) /\ Stands(text, at + Len(w), gap)
    <3> HIDE DEF w
    <3> QED
      BY <1>2, <2>1, <2>2, StandsApart
  <2>5. Stands(text, at, pair) /\ Stands(text, at + Len(pair), v)
    BY <1>2, <2>4, StandsApart
  <2>6. at \in Nat /\ Len(v) \in Nat
    BY <1>2, <2>4 DEF Stands
  <2>7. at + (2 + Len(v)) = to
    BY <2>6
  <2> HIDE DEF w, to
  <2> QED
    BY <1>2, <2>1, <2>3, <2>4, <2>5, <2>7 DEF w
<1>5. /\ at \in Nat \ {0} /\ Len(v) \in Nat /\ Len(text) \in Nat /\ to <= Len(text) + 1
      /\ (s => to <= Len(text) /\ text[to] = GS)
  <2>1. at \in Nat \ {0} /\ Len(v) \in Nat /\ Len(text) \in Nat
    BY <1>2, <1>4 DEF Stands
  <2>2. to + Len(gap) <= Len(text) + 1 /\ \A i \in 1..Len(gap) : text[to + i - 1] = gap[i]
    BY <1>4 DEF Stands
  <2>3. to \in Nat /\ to + 1 - 1 = to
    BY <2>1
  <2> HIDE DEF to
  <2>4. CASE s
    <3>1. 1 \in 1..Len(gap) /\ Len(gap) = 1
      BY <1>3, <2>4
    <3>2. text[to + 1 - 1] = gap[1]
      BY <2>2, <3>1
    <3> QED
      BY <1>3, <2>1, <2>2, <2>3, <2>4, <3>1, <3>2
  <2>5. CASE ~s
    BY <1>3, <2>1, <2>2, <2>3, <2>5
  <2> QED
    BY <2>4, <2>5
<1>6. at \in 1..(Len(text) + 16)
  BY <1>5
<1>12. T[at] = IF Finished(text, at) THEN {} ELSE Found(text, at) \union T[NextPlace(text, at)]
  BY <1>5, <1>6, CompactReads
<1>7. ASSUME ai # 10
      PROVE  T[at] = {Field(at, ai, v)} \union T[to]
  <2>1. CASE ai = 1
    <3>1. Len(v) = 14 /\ Digits(v) /\ pair = <<0, 1>>
      BY <2>1, IdentifiersAre DEF IsElement, pair
    <3>2. ~Finished(text, at) /\ Found(text, at) = {Field(at, 1, v)} /\ NextPlace(text, at) = at + 16
      BY <1>2, <1>4, <1>5, <3>1, GtinRead
    <3>3. to = at + 16
      BY <1>5, <3>1
    <3>4. T[at] = Found(text, at) \union T[NextPlace(text, at)]
      BY <1>12, <3>2
    <3> HIDE DEF T, to
    <3> QED
      BY <2>1, <3>2, <3>3, <3>4
  <2>2. CASE ai = 17
    <3>1. Len(v) = 6 /\ pair = <<1, 7>>
      BY <2>2, IdentifiersAre DEF IsElement, pair
    <3>2. ~Finished(text, at) /\ Found(text, at) = {Field(at, 17, v)} /\ NextPlace(text, at) = at + 8
      BY <1>2, <1>4, <1>5, <3>1, DateRead
    <3>3. to = at + 8
      BY <1>5, <3>1
    <3>4. T[at] = Found(text, at) \union T[NextPlace(text, at)]
      BY <1>12, <3>2
    <3> HIDE DEF T, to
    <3> QED
      BY <2>2, <3>2, <3>3, <3>4
  <2> QED
    BY <1>1, <1>7, <2>1, <2>2
<1>8. s => T[to] = T[to + 1]
  <2>1. s => to \in 1..Len(text)
    BY <1>5
  <2> HIDE DEF to
  <2> QED
    BY <1>5, <2>1, SeparatorRead
<1>9. ASSUME ai = 10
      PROVE  T[at] = IF s THEN T[to + 1] ELSE T[to]
  <2>1. pair = <<1, 0>> /\ \A j \in 1..Len(v) : v[j] # GS
    <3>1. \A j \in 1..Len(v) : v[j] \in Plain
      BY <1>1
    <3> QED
      BY <1>9, <3>1, IdentifiersAre DEF pair, Plain
  <2>2. /\ to = Len(text) + 1 => Finished(text, at)
        /\ to <= Len(text) /\ text[to] = GS =>
             ~Finished(text, at) /\ Found(text, at) = {} /\ NextPlace(text, at) = to + 1
    BY <1>2, <1>4, <1>5, <2>1, LotRead
  <2>3. CASE s
    <3>1. ~Finished(text, at) /\ Found(text, at) = {} /\ NextPlace(text, at) = to + 1
      BY <1>5, <2>2, <2>3
    <3>2. T[at] = {} \union T[to + 1]
      BY <1>12, <3>1
    <3> QED
      BY <2>3, <3>2
  <2>4. CASE ~s
    <3>1. to = Len(text) + 1
      BY <1>9, <2>4
    <3>2. T[at] = {}
      BY <1>12, <2>2, <3>1
    <3>3. T[to] = {}
      BY <1>5, <3>1, EndOfText
    <3> QED
      BY <2>4, <3>2, <3>3
  <2> QED
    BY <2>3, <2>4
<1>10. at + (2 + Len(v) + (IF s THEN 1 ELSE 0)) = IF s THEN to + 1 ELSE to
  BY <1>5
<1> HIDE DEF T, to
<1>11. T[at] = FieldOf(ai, v, at) \union (IF s THEN T[to + 1] ELSE T[to])
  BY <1>7, <1>8, <1>9 DEF FieldOf
<1>13. Len((pair \o v) \o gap) = 2 + Len(v) + (IF s THEN 1 ELSE 0)
  BY <1>3, <1>4
<1> QED
  BY <1>10, <1>11, <1>13 DEF T, pair, gap

CompactParts(label, separated) == [i \in DOMAIN label.order |-> CompactPart(label, separated, i)]

LEMMA CompactPartsAre ==
  ASSUME NEW label, IsLabel(label), NEW s \in BOOLEAN
  PROVE  /\ Parts(GapChars, CompactParts(label, s))
         /\ Len(CompactParts(label, s)) = Len(label.order)
         /\ \A i \in 1..Len(label.order) :
              CompactParts(label, s)[i]
                = (IdentifierOf(label.order[i]) \o ElementOf(label, i)) \o Gap(SeparatedAfter(label, s, i))
<1> DEFINE n == Len(label.order)
<1>1. n \in Nat /\ DOMAIN label.order = 1..n
  BY OrderIs
<1>2. ASSUME NEW i \in 1..n
      PROVE  CompactPart(label, s, i) \in Seq(GapChars)
  <2> DEFINE ai == IdentifierOf(label.order[i])
             v == ElementOf(label, i)
             gap == Gap(SeparatedAfter(label, s, i))
  <2>1. CompactPart(label, s, i) = (ai \o v) \o gap
    BY CompactPartIs
  <2>2. ai \in Seq(Digit) /\ v \in Seq(Plain)
    <3>1. label.order[i] \in {1, 17, 10}
      BY OrderIs
    <3>2. IsElement(label.order[i], v)
      BY ElementsAre
    <3> QED
      BY <3>1, <3>2, IdentifierDigits DEF IsElement
  <2>3. Digit \subseteq GapChars /\ Plain \subseteq GapChars
    BY DEF Digit, Plain, GapChars, Char, OpenParen
  <2>4. ai \in Seq(GapChars) /\ v \in Seq(GapChars)
    <3> HIDE DEF ai, v
    <3> QED
      BY <2>2, <2>3, WiderText
  <2>5. gap \in Seq(GapChars)
    <3>1. SeparatedAfter(label, s, i) \in BOOLEAN
      BY DEF SeparatedAfter
    <3> QED
      BY <3>1, GapIs
  <2> HIDE DEF ai, v, gap
  <2>6. ai \o v \in Seq(GapChars)
    BY <2>4, ConcatProperties, Zenon
  <2>7. (ai \o v) \o gap \in Seq(GapChars)
    BY <2>5, <2>6, ConcatProperties, Zenon
  <2> QED
    BY <2>1, <2>7
<1> DEFINE parts == CompactParts(label, s)
<1>3. /\ parts \in [1..n -> Seq(GapChars)]
      /\ \A i \in 1..n : parts[i] = CompactPart(label, s, i)
  BY <1>1, <1>2 DEF CompactParts
<1>4. parts \in Seq(Seq(GapChars)) /\ Len(parts) = n
  <2> HIDE DEF parts, n
  <2> QED
    BY <1>1, <1>3, FunctionIsSeq
<1> QED
  BY <1>3, <1>4, CompactPartIs DEF Parts

\* What is read in a compact label.
LabelField(label, parts, i) == FieldOf(label.order[i], ElementOf(label, i), Begin(parts, i))
LabelFields(label, parts, k) == UNION {LabelField(label, parts, i) : i \in k..Len(label.order)}

LEMMA CompactPartRead ==
  ASSUME NEW label, IsLabel(label), NEW s \in BOOLEAN, NEW k \in 1..Len(label.order)
  PROVE  LET T == CompactTable(Compact(label, s))
             parts == CompactParts(label, s)
         IN T[Begin(parts, k)] = LabelField(label, parts, k) \union T[Begin(parts, k + 1)]
<1> DEFINE text == Compact(label, s)
           parts == CompactParts(label, s)
           n == Len(label.order)
           ai == label.order[k]
           v == ElementOf(label, k)
           sep == SeparatedAfter(label, s, k)
           at == Begin(parts, k)
           part == (IdentifierOf(ai) \o v) \o Gap(sep)
           size == 2 + Len(v) + (IF sep THEN 1 ELSE 0)
<1>1. /\ Parts(GapChars, parts) /\ Len(parts) = n /\ parts[k] = part
      /\ n \in Nat \ {0}
  BY CompactPartsAre, OrderIs
<1>2. text = Joined(parts)
  BY DEF Compact, CompactParts
<1>3. text \in Seq(GapChars) /\ PartsStand(parts, text)
  <2> HIDE DEF parts, text
  <2> QED
    BY <1>1, <1>2, PartsStandThere
<1>4. text \in Seq(Char)
  <2>1. GapChars \subseteq Char
    BY DEF GapChars
  <2> HIDE DEF text
  <2> QED
    BY <1>3, <2>1, WiderText
<1>5. Stands(text, at, part) /\ Begin(parts, k + 1) = at + Len(part)
  <2> HIDE DEF text, parts, part, at
  <2>1. /\ Stands(text, Begin(parts, k), parts[k])
        /\ Begin(parts, k + 1) = Begin(parts, k) + Len(parts[k])
    BY <1>1, <1>3 DEF PartsStand
  <2> QED
    BY <1>1, <2>1 DEF at
<1>6. sep \in BOOLEAN /\ IsElement(ai, v)
  BY ElementsAre DEF SeparatedAfter
<1>7. Len(part) = size
  <2>1. v \in Seq(Plain) /\ ai \in {1, 17, 10}
    BY <1>6 DEF IsElement
  <2> DEFINE id == IdentifierOf(ai)
             gap == Gap(sep)
  <2>2. id \in Seq(Digit) /\ Len(id) = 2 /\ gap \in Seq(GapChars) /\ Len(gap) = IF sep THEN 1 ELSE 0
    BY <1>6, <2>1, IdentifierDigits, GapIs
  <2>3. id \in Seq(Char) /\ v \in Seq(Char) /\ gap \in Seq(Char)
    <3>1. Digit \subseteq Char /\ Plain \subseteq Char /\ GapChars \subseteq Char
      BY DigitsArePlain DEF GapChars
    <3> HIDE DEF id, gap, v
    <3> QED
      BY <2>1, <2>2, <3>1, WiderText
  <2> HIDE DEF id, gap, v
  <2>4. id \o v \in Seq(Char) /\ Len(id \o v) = Len(id) + Len(v)
    BY <2>3, ConcatProperties, Zenon
  <2>5. Len((id \o v) \o gap) = Len(id \o v) + Len(gap)
    BY <2>3, <2>4, ConcatProperties, Zenon
  <2>6. Len((id \o v) \o gap) = 2 + Len(v) + Len(gap)
    BY <2>2, <2>4, <2>5
  <2> QED
    BY <2>2, <2>6 DEF id, gap
<1>8. sep \/ ai # 10 \/ at + 2 + Len(v) = Len(text) + 1
  <2>1. ASSUME ~sep, ai = 10
        PROVE  at + 2 + Len(v) = Len(text) + 1
    <3>1. k = n
      BY <1>1, <2>1 DEF SeparatedAfter
    <3>2. Begin(parts, k + 1) = Len(text) + 1
      <4> HIDE DEF parts, text
      <4> QED
        BY <1>1, <1>3, <3>1 DEF PartsStand
    <3>3. at \in Nat /\ Len(v) \in Nat
      BY <1>5, <1>6 DEF Stands, IsElement
    <3> HIDE DEF parts, text, at, part, v
    <3> QED
      BY <1>5, <1>7, <2>1, <3>2, <3>3
  <2> QED
    BY <2>1
<1>9. CompactTable(text)[at] = FieldOf(ai, v, at) \union CompactTable(text)[at + size]
  <2> HIDE DEF text, ai, v, sep, at
  <2> QED
    BY <1>4, <1>5, <1>6, <1>8, PartRead
<1> HIDE DEF size, part
<1> QED
  BY <1>5, <1>7, <1>9 DEF LabelField

\* From the last part to the first.
LEMMA CompactLabelRead ==
  ASSUME NEW label, IsLabel(label), NEW s \in BOOLEAN
  PROVE  /\ Compact(label, s) \in Seq(GapChars)
         /\ CompactFields(Compact(label, s)) = LabelFields(label, CompactParts(label, s), 1)
<1> DEFINE text == Compact(label, s)
           T == CompactTable(text)
           parts == CompactParts(label, s)
           n == Len(label.order)
           From(k) == LabelFields(label, parts, k)
           Good == {j \in 0..n : T[Begin(parts, n + 1 - j)] = From(n + 1 - j)}
<1>1. Parts(GapChars, parts) /\ Len(parts) = n /\ n \in Nat \ {0}
  BY CompactPartsAre, OrderIs
<1>2. text = Joined(parts)
  BY DEF Compact, CompactParts
<1>3. text \in Seq(GapChars) /\ PartsStand(parts, text)
  <2> HIDE DEF parts, text
  <2> QED
    BY <1>1, <1>2, PartsStandThere
<1>4. Begin(parts, 1) = 1 /\ Begin(parts, n + 1) = Len(text) + 1 /\ Len(text) \in Nat
  <2> HIDE DEF parts, text
  <2> QED
    BY <1>1, <1>3 DEF PartsStand
<1>5. T[Len(text) + 1] = {}
  <2> HIDE DEF text
  <2> QED
    BY <1>4, EndOfText
<1>6. \A k \in 1..n : T[Begin(parts, k)] = LabelField(label, parts, k) \union T[Begin(parts, k + 1)]
  BY CompactPartRead
<1>7. From(n + 1) = {}
  BY <1>1 DEF LabelFields
<1>8. \A k \in 1..n : From(k) = LabelField(label, parts, k) \union From(k + 1)
  <2>1. \A k \in 1..n : k..n = {k} \union ((k + 1)..n)
    BY <1>1
  <2> HIDE DEF parts
  <2> QED
    BY <2>1 DEF LabelFields
<1> HIDE DEF text, T, parts, n, From
<1>9. 0 \in Good
  <2>1. n + 1 - 0 = n + 1 /\ 0 \in 0..n
    BY <1>1
  <2> QED
    BY <1>4, <1>5, <1>7, <2>1
<1>10. ASSUME NEW j \in 1..n, j - 1 \in Good
       PROVE  j \in Good
  <2> DEFINE k == n + 1 - j
  <2>1. k \in 1..n /\ n + 1 - (j - 1) = k + 1 /\ j \in 0..n
    BY <1>1
  <2>2. T[Begin(parts, k + 1)] = From(k + 1)
    BY <1>10, <2>1
  <2> HIDE DEF k
  <2>3. T[Begin(parts, k)] = From(k)
    BY <1>6, <1>8, <2>1, <2>2
  <2> QED
    BY <2>1, <2>3 DEF k
<1>11. 0..n \subseteq Good
  <2> HIDE DEF Good
  <2> QED
    BY <1>1, <1>9, <1>10, InductionTo
<1>12. T[1] = From(1)
  <2>1. n \in Good /\ n + 1 - n = 1
    BY <1>1, <1>11
  <2> QED
    BY <1>4, <2>1
<1> QED
  BY <1>3, <1>12, CompactFieldsAre DEF text, T, parts, From

\* The other form: an identifier in parentheses, and what stands behind it.
OpeningAt(text, j) ==
  /\ text[j] = OpenParen /\ text[j + 3] = CloseParen
  /\ Digits(SubSeq(text, j + 1, j + 2))
OpenedAt(text, i) ==
  Field(i, Number(SubSeq(text, i + 1, i + 2)), Before(Before(text, i + 4, {OpenParen, CloseParen}), 1, {GS}))

LEMMA ParenthesizedFieldsAre ==
  ASSUME NEW text
  PROVE  ParenthesizedFields(text) = {OpenedAt(text, i) : i \in {j \in 1..(Len(text) - 3) : OpeningAt(text, j)}}
BY DEF ParenthesizedFields, OpenedAt, OpeningAt

\* A compact label has no parenthesis, so nothing is found in it.
LEMMA NothingOpened ==
  ASSUME NEW text \in Seq(GapChars)
  PROVE  ParenthesizedFields(text) = {}
<1>1. Len(text) \in Nat /\ \A j \in 1..Len(text) : text[j] \in GapChars
  OBVIOUS
<1>2. ASSUME NEW j \in 1..(Len(text) - 3)
      PROVE  ~OpeningAt(text, j)
  <2>1. j \in 1..Len(text)
    BY <1>1
  <2>2. text[j] \in GapChars
    BY <1>1, <2>1
  <2> QED
    BY <2>2 DEF OpeningAt, GapChars
<1>3. {j \in 1..(Len(text) - 3) : OpeningAt(text, j)} = {}
  BY <1>2
<1> QED
  BY <1>3, ParenthesizedFieldsAre

\* A value behind its identifier in parentheses.
Opens(part, ai, v) ==
  /\ Len(part) = 4 + Len(v)
  /\ part[1] = OpenParen /\ part[4] = CloseParen
  /\ part[2] \in Digit /\ part[3] \in Digit /\ 10 * part[2] + part[3] = ai
  /\ \A j \in 1..Len(v) : part[4 + j] = v[j]

LEMMA WholeValue ==
  ASSUME NEW v \in Seq(Plain)
  PROVE  Before(v, 1, {GS}) = v
<1>1. Len(v) \in Nat /\ \A j \in 1..Len(v) : v[j] # GS
  <2>1. \A j \in 1..Len(v) : v[j] \in Plain
    OBVIOUS
  <2> QED
    BY <2>1 DEF Plain
<1>2. {j \in 1..Len(v) : v[j] \in {GS}} = {}
  BY <1>1
<1>3. SubSeq(v, 1, Len(v)) = v
  BY WholeOf
<1> QED
  BY <1>2, <1>3 DEF Before

LEMMA ValueBehind ==
  ASSUME NEW text \in Seq(Char), NEW v \in Seq(Plain), NEW from, Stands(text, from, v),
         from + Len(v) <= Len(text) => text[from + Len(v)] = OpenParen
  PROVE  Before(text, from, {OpenParen, CloseParen}) = v
<1> DEFINE stops == {OpenParen, CloseParen}
           to == from + Len(v) - 1
           ends == {j \in from..Len(text) : text[j] \in stops}
<1>1. /\ Len(v) \in Nat /\ Len(text) \in Nat /\ from \in Nat \ {0}
      /\ from + Len(v) <= Len(text) + 1
  BY DEF Stands
<1>2. v \in Seq(Char)
  BY DigitsArePlain, WiderText
<1>3. ASSUME NEW j \in from..to
      PROVE  text[j] \notin stops
  <2>1. j - from + 1 \in 1..Len(v) /\ from + (j - from + 1) - 1 = j
    BY <1>1
  <2>2. text[j] = v[j - from + 1]
    BY <2>1 DEF Stands
  <2>3. v[j - from + 1] \in Plain
    BY <2>1
  <2> QED
    BY <2>2, <2>3 DEF Plain
<1>4. CASE Len(v) # 0
  <2>1. /\ from \in Nat \ {0} /\ to \in Nat /\ from <= to /\ to <= Len(text)
        /\ to + 1 = from + Len(v)
    BY <1>1, <1>4
  <2>2. to < Len(text) => text[to + 1] \in stops
    BY <1>1, <2>1
  <2>3. SubSeq(text, from, to) = v
    BY <1>2, <1>4, StandsIs
  <2> HIDE DEF to, stops
  <2>4. Before(text, from, stops) = SubSeq(text, from, to)
    BY <1>3, <2>1, <2>2, BeforeIs
  <2> QED
    BY <2>3, <2>4 DEF stops
<1>5. CASE Len(v) = 0
  <2>1. v = <<>>
    BY <1>5
  <2>2. from <= Len(text) + 1 /\ (from <= Len(text) => text[from] = OpenParen)
    BY <1>1, <1>5
  <2>3. CASE from <= Len(text)
    <3>1. from \in ends /\ ends \in SUBSET Int /\ \A j \in ends : from <= j
      BY <1>1, <2>2, <2>3
    <3>2. Least(ends) = from
      <4> HIDE DEF ends
      <4> QED
        BY <3>1, LeastIs
    <3>3. Before(text, from, stops) = SubSeq(text, from, from - 1)
      BY <3>1, <3>2 DEF Before
    <3>4. SubSeq(text, from, from - 1) = <<>>
      BY <1>1
    <3> QED
      BY <2>1, <3>3, <3>4
  <2>4. CASE from = Len(text) + 1
    <3>1. ends = {}
      BY <1>1, <2>4
    <3>2. Before(text, from, stops) = SubSeq(text, from, Len(text))
      BY <3>1 DEF Before
    <3>3. SubSeq(text, from, Len(text)) = <<>>
      BY <1>1, <2>4
    <3> QED
      BY <2>1, <3>2, <3>3
  <2> QED
    BY <1>1, <2>2, <2>3, <2>4
<1> QED
  BY <1>4, <1>5

LEMMA OpenedIs ==
  ASSUME NEW text \in Seq(Char), NEW ai, NEW v \in Seq(Plain), NEW part, Opens(part, ai, v), NEW at,
         Stands(text, at, part),
         at + Len(part) <= Len(text) => text[at + Len(part)] = OpenParen
  PROVE  /\ at \in 1..(Len(text) - 3) /\ OpeningAt(text, at)
         /\ OpenedAt(text, at) = Field(at, ai, v)
<1>1. /\ Len(v) \in Nat /\ Len(text) \in Nat /\ at \in Nat \ {0} /\ Len(part) = 4 + Len(v)
      /\ at + 4 + Len(v) <= Len(text) + 1
      /\ \A i \in 1..Len(part) : text[at + i - 1] = part[i]
  BY DEF Opens, Stands
<1>2. /\ text[at] = part[1] /\ text[at + 1] = part[2] /\ text[at + 2] = part[3] /\ text[at + 3] = part[4]
  <2>1. /\ 1 \in 1..Len(part) /\ 2 \in 1..Len(part) /\ 3 \in 1..Len(part) /\ 4 \in 1..Len(part)
        /\ at + 1 - 1 = at /\ at + 2 - 1 = at + 1 /\ at + 3 - 1 = at + 2 /\ at + 4 - 1 = at + 3
    BY <1>1
  <2>2. /\ text[at + 1 - 1] = part[1] /\ text[at + 2 - 1] = part[2]
        /\ text[at + 3 - 1] = part[3] /\ text[at + 4 - 1] = part[4]
    BY <1>1, <2>1
  <2> QED
    BY <2>1, <2>2
<1> DEFINE two == SubSeq(text, at + 1, at + 2)
<1>3. two \in Seq(Digit) /\ Len(two) = 2 /\ two[1] = part[2] /\ two[2] = part[3]
  <2>1. at + 1 \in Nat \ {0} /\ at + 2 \in Nat /\ at + 1 <= at + 2 /\ at + 2 <= Len(text)
    BY <1>1
  <2> DEFINE a == at + 1
             b == at + 2
  <2>2. b - a + 1 = 2 /\ 1 \in 1..2 /\ 2 \in 1..2 /\ a + 1 - 1 = at + 1 /\ a + 2 - 1 = at + 2
    BY <1>1
  <2>3. two = SubSeq(text, a, b)
    OBVIOUS
  <2> HIDE DEF a, b, two
  <2>4. two \in Seq(Char) /\ Len(two) = 2 /\ two[1] = text[at + 1] /\ two[2] = text[at + 2]
    <3>1. /\ SubSeq(text, a, b) \in Seq(Char) /\ Len(SubSeq(text, a, b)) = b - a + 1
          /\ \A i \in 1..(b - a + 1) : SubSeq(text, a, b)[i] = text[a + i - 1]
      BY <2>1, PartOf DEF a, b
    <3>2. /\ two \in Seq(Char) /\ Len(two) = 2
          /\ \A i \in 1..2 : two[i] = text[a + i - 1]
      BY <2>2, <2>3, <3>1, Zenon
    <3> QED
      BY <2>2, <3>2
  <2>5. two[1] \in Digit /\ two[2] \in Digit
    BY <1>2, <2>4 DEF Opens
  <2>6. two \in [1..2 -> Digit]
    <3>1. \A i \in 1..2 : i = 1 \/ i = 2
      OBVIOUS
    <3>2. \A s \in Seq(Char) : s \in [1..Len(s) -> Char]
      OBVIOUS
    <3>3. two \in [1..2 -> Char]
      BY <2>4, <3>2, Zenon
    <3> QED
      BY <2>5, <3>1, <3>3
  <2>7. two \in Seq(Digit)
    BY <2>6, FunctionIsSeq
  <2> QED
    BY <1>2, <2>4, <2>7
<1>4. Digits(two) /\ Number(two) = ai
  <2> HIDE DEF two
  <2>1. Digits(two)
    BY <1>3, DigitsOf
  <2>2. Number(two) = 10 * two[1] + two[2]
    BY <1>3, NumberOfTwo
  <2> QED
    BY <1>3, <2>1, <2>2 DEF Opens
<1>5. at \in 1..(Len(text) - 3) /\ OpeningAt(text, at)
  BY <1>1, <1>2, <1>4 DEF OpeningAt, Opens
<1>6. Stands(text, at + 4, v)
  <2>1. ASSUME NEW i \in 1..Len(v)
        PROVE  text[at + 4 + i - 1] = v[i]
    <3>1. 4 + i \in 1..Len(part) /\ at + (4 + i) - 1 = at + 4 + i - 1
      BY <1>1
    <3>2. text[at + (4 + i) - 1] = part[4 + i]
      BY <1>1, <3>1
    <3> QED
      BY <3>1, <3>2 DEF Opens
  <2> QED
    BY <1>1, <2>1 DEF Stands
<1>7. Before(text, at + 4, {OpenParen, CloseParen}) = v
  <2>1. at + 4 + Len(v) = at + Len(part)
    BY <1>1
  <2> QED
    BY <1>6, <2>1, ValueBehind
<1> QED
  BY <1>4, <1>5, <1>7, WholeValue DEF OpenedAt

ParenthesizedParts(label) == [i \in DOMAIN label.order |-> ParenthesizedPart(label, i)]
InParentheses(ai) == <<OpenParen, ai \div 10, ai % 10, CloseParen>>

LEMMA ParenthesizedIdentifier ==
  ASSUME NEW ai \in {1, 17, 10}
  PROVE  /\ InParentheses(ai) \in Seq(Char) /\ Len(InParentheses(ai)) = 4
         /\ InParentheses(ai)[1] = OpenParen /\ InParentheses(ai)[4] = CloseParen
         /\ InParentheses(ai)[2] \in Digit /\ InParentheses(ai)[3] \in Digit /\ 10 * InParentheses(ai)[2] + InParentheses(ai)[3] = ai
<1>1. ai \div 10 \in Digit /\ ai % 10 \in Digit /\ 10 * (ai \div 10) + (ai % 10) = ai
  BY DEF Digit
<1>2. OpenParen \in Char /\ CloseParen \in Char /\ Digit \subseteq Char
  BY DEF OpenParen, CloseParen, Char, Digit
<1>3. \A a, b, c, d \in Char :
        /\ <<a, b, c, d>> \in Seq(Char) /\ Len(<<a, b, c, d>>) = 4
        /\ <<a, b, c, d>>[1] = a /\ <<a, b, c, d>>[2] = b /\ <<a, b, c, d>>[3] = c /\ <<a, b, c, d>>[4] = d
  OBVIOUS
<1> DEFINE a == ai \div 10
           b == ai % 10
<1>4. a \in Char /\ b \in Char
  BY <1>1, <1>2
<1> HIDE DEF a, b
<1>5. InParentheses(ai) = <<OpenParen, a, b, CloseParen>>
  BY DEF InParentheses, a, b
<1> HIDE DEF a, b
<1>6. /\ InParentheses(ai) \in Seq(Char) /\ Len(InParentheses(ai)) = 4
      /\ InParentheses(ai)[1] = OpenParen /\ InParentheses(ai)[2] = a /\ InParentheses(ai)[3] = b /\ InParentheses(ai)[4] = CloseParen
  BY <1>2, <1>3, <1>4, <1>5
<1> QED
  BY <1>1, <1>6 DEF a, b

LEMMA ParenthesizedPartIs ==
  ASSUME NEW label, IsLabel(label), NEW k \in 1..Len(label.order)
  PROVE  LET part == ParenthesizedPart(label, k)
         IN /\ part \in Seq(Char) /\ Opens(part, label.order[k], ElementOf(label, k))
            /\ Len(part) \in Nat /\ \A i \in 2..Len(part) : part[i] # OpenParen
<1> DEFINE part == ParenthesizedPart(label, k)
           ai == label.order[k]
           v == ElementOf(label, k)
           head == InParentheses(ai)
<1>1. part = head \o v
  BY DEF ParenthesizedPart, InParentheses, ElementOf
<1>2. ai \in {1, 17, 10} /\ v \in Seq(Plain)
  BY OrderIs, ElementsAre DEF IsElement
<1>3. v \in Seq(Char)
  <2> HIDE DEF v
  <2> QED
    BY <1>2, DigitsArePlain, WiderText
<1>4. /\ head \in Seq(Char) /\ Len(head) = 4
      /\ head[1] = OpenParen /\ head[4] = CloseParen
      /\ head[2] \in Digit /\ head[3] \in Digit /\ 10 * head[2] + head[3] = ai
  BY <1>2, ParenthesizedIdentifier
<1> HIDE DEF part, ai, v, head
<1>5. /\ part \in Seq(Char) /\ Len(part) = Len(head) + Len(v)
      /\ \A i \in 1..(Len(head) + Len(v)) : part[i] = IF i <= Len(head) THEN head[i] ELSE v[i - Len(head)]
  BY <1>1, <1>3, <1>4, ConcatProperties, Zenon
<1>6. Len(v) \in Nat /\ \A i \in 1..Len(v) : v[i] \in Plain
  BY <1>2
<1>7. Len(part) = 4 + Len(v) /\ \A i \in 1..(4 + Len(v)) : part[i] = IF i <= 4 THEN head[i] ELSE v[i - 4]
  BY <1>4, <1>5
<1>8. part[1] = head[1] /\ part[2] = head[2] /\ part[3] = head[3] /\ part[4] = head[4]
  BY <1>6, <1>7
<1>9. ASSUME NEW j \in 1..Len(v)
      PROVE  part[4 + j] = v[j]
  <2>1. 4 + j \in 1..(4 + Len(v)) /\ ~(4 + j <= 4) /\ 4 + j - 4 = j
    BY <1>6
  <2> QED
    BY <1>7, <2>1
<1>10. ASSUME NEW i \in 2..Len(part)
       PROVE  part[i] # OpenParen
  <2>1. CASE i <= 4
    <3>1. i = 2 \/ i = 3 \/ i = 4
      BY <2>1
    <3>2. head[2] # OpenParen /\ head[3] # OpenParen /\ head[4] # OpenParen
      <4>1. OpenParen \notin Digit /\ CloseParen # OpenParen
        BY DEF Digit, OpenParen, CloseParen
      <4> QED
        BY <1>4, <4>1
    <3> QED
      BY <1>8, <3>1, <3>2
  <2>2. CASE ~(i <= 4)
    <3>1. i - 4 \in 1..Len(v) /\ i \in 1..(4 + Len(v))
      BY <1>6, <1>7, <2>2
    <3>2. part[i] = v[i - 4] /\ v[i - 4] \in Plain
      BY <1>6, <1>7, <2>2, <3>1
    <3> QED
      BY <3>2 DEF Plain
  <2> QED
    BY <2>1, <2>2
<1>11. Opens(part, ai, v)
  BY <1>4, <1>7, <1>8, <1>9 DEF Opens
<1>12. Len(part) \in Nat
  BY <1>6, <1>7
<1> QED
  BY <1>5, <1>10, <1>11, <1>12 DEF part, ai, v

LEMMA ParenthesizedPartsAre ==
  ASSUME NEW label, IsLabel(label)
  PROVE  LET parts == ParenthesizedParts(label)
         IN /\ Parts(Char, parts) /\ Len(parts) = Len(label.order)
            /\ \A i \in 1..Len(label.order) : parts[i] = ParenthesizedPart(label, i)
<1> DEFINE n == Len(label.order)
           parts == ParenthesizedParts(label)
<1>1. n \in Nat /\ DOMAIN label.order = 1..n
  BY OrderIs
<1>2. \A i \in 1..n : ParenthesizedPart(label, i) \in Seq(Char)
  BY ParenthesizedPartIs
<1>3. /\ parts \in [1..n -> Seq(Char)]
      /\ \A i \in 1..n : parts[i] = ParenthesizedPart(label, i)
  BY <1>1, <1>2 DEF ParenthesizedParts
<1>4. parts \in Seq(Seq(Char)) /\ Len(parts) = n
  <2> HIDE DEF parts, n
  <2> QED
    BY <1>1, <1>3, FunctionIsSeq
<1> QED
  BY <1>3, <1>4 DEF Parts

\* What is read in a parenthesized label.
NamedField(label, parts, i) == Field(Begin(parts, i), label.order[i], ElementOf(label, i))

\* The identifiers are the ones of the parts, and there is no other parenthesis.
LEMMA ParenthesizedLabelRead ==
  ASSUME NEW label, IsLabel(label)
  PROVE  LET parts == ParenthesizedParts(label)
         IN /\ Parenthesized(label) \in Seq(Char) /\ PartsStand(parts, Parenthesized(label))
            /\ ParenthesizedFields(Parenthesized(label))
                 = {NamedField(label, parts, i) : i \in 1..Len(label.order)}
<1> DEFINE text == Parenthesized(label)
           parts == ParenthesizedParts(label)
           n == Len(label.order)
           places == {j \in 1..(Len(text) - 3) : OpeningAt(text, j)}
<1>1. /\ Parts(Char, parts) /\ Len(parts) = n /\ n \in Nat \ {0}
      /\ \A k \in 1..n : parts[k] = ParenthesizedPart(label, k)
  BY ParenthesizedPartsAre, OrderIs
<1>2. text = Joined(parts)
  BY DEF Parenthesized, ParenthesizedParts
<1>3. text \in Seq(Char) /\ PartsStand(parts, text)
  <2> HIDE DEF parts, text
  <2> QED
    BY <1>1, <1>2, PartsStandThere
<1> HIDE DEF text, parts
<1>4. /\ \A k \in 1..n : /\ Stands(text, Begin(parts, k), parts[k])
                         /\ Begin(parts, k + 1) = Begin(parts, k) + Len(parts[k])
      /\ Begin(parts, n + 1) = Len(text) + 1 /\ Len(text) \in Nat
  BY <1>1, <1>3 DEF PartsStand
<1>5. \A k \in 1..n : /\ Opens(parts[k], label.order[k], ElementOf(label, k))
                      /\ Len(parts[k]) \in Nat /\ \A i \in 2..Len(parts[k]) : parts[k][i] # OpenParen
  BY <1>1, ParenthesizedPartIs
<1>6. \A k \in 1..n : Begin(parts, k) \in Nat \ {0} /\ text[Begin(parts, k)] = OpenParen
  <2> SUFFICES ASSUME NEW k \in 1..n
               PROVE  Begin(parts, k) \in Nat \ {0} /\ text[Begin(parts, k)] = OpenParen
    OBVIOUS
  <2> DEFINE at == Begin(parts, k)
             part == parts[k]
  <2>1. Stands(text, at, part) /\ part[1] = OpenParen /\ Len(part) \in Nat /\ Len(part) >= 1
    <3>1. Len(ElementOf(label, k)) \in Nat
      BY ElementsAre DEF IsElement
    <3>2. Len(part) = 4 + Len(ElementOf(label, k))
      BY <1>5 DEF Opens
    <3>3. part[1] = OpenParen
      BY <1>5 DEF Opens
    <3> QED
      BY <1>4, <3>1, <3>2, <3>3
  <2> HIDE DEF at, part
  <2>2. at \in Nat \ {0} /\ text[at + 1 - 1] = part[1]
    <3>1. at \in Nat \ {0} /\ \A i \in 1..Len(part) : text[at + i - 1] = part[i]
      BY <2>1 DEF Stands
    <3>2. 1 \in 1..Len(part)
      BY <2>1
    <3> QED
      BY <3>1, <3>2
  <2>3. at + 1 - 1 = at
    BY <2>2
  <2> QED
    BY <2>1, <2>2, <2>3 DEF at
<1>7. ASSUME NEW k \in 1..n
      PROVE  Begin(parts, k) \in places /\ OpenedAt(text, Begin(parts, k)) = NamedField(label, parts, k)
  <2> DEFINE at == Begin(parts, k)
             part == parts[k]
             v == ElementOf(label, k)
             ai == label.order[k]
  <2>1. Opens(part, ai, v) /\ Stands(text, at, part) /\ at + Len(part) = Begin(parts, k + 1)
    BY <1>4, <1>5
  <2>2. v \in Seq(Plain)
    BY ElementsAre DEF IsElement
  <2>3. at + Len(part) <= Len(text) => text[at + Len(part)] = OpenParen
    <3>1. CASE k = n
      <4>1. at + Len(part) = Len(text) + 1
        BY <1>4, <2>1, <3>1
      <4> HIDE DEF at, part
      <4> QED
        BY <1>4, <4>1
    <3>2. CASE k # n
      <4>1. k + 1 \in 1..n
        BY <1>1, <3>2
      <4> HIDE DEF at, part
      <4> QED
        BY <1>6, <2>1, <4>1
    <3> QED
      BY <3>1, <3>2
  <2>4. at \in 1..(Len(text) - 3) /\ OpeningAt(text, at) /\ OpenedAt(text, at) = Field(at, ai, v)
    <3> HIDE DEF at, part, v, ai
    <3> QED
      BY <1>3, <2>1, <2>2, <2>3, OpenedIs
  <2> QED
    BY <2>4 DEF NamedField
<1>8. ASSUME NEW j \in places
      PROVE  \E k \in 1..n : j = Begin(parts, k)
  <2>1. j \in 1..Len(text) /\ text[j] = OpenParen
    BY <1>4 DEF OpeningAt
  <2>2. PICK k \in 1..n : \E i \in 1..Len(parts[k]) : j = Begin(parts, k) + i - 1
    BY <1>1, <1>3, <2>1 DEF PartsStand
  <2>3. PICK i \in 1..Len(parts[k]) : j = Begin(parts, k) + i - 1
    BY <2>2
  <2>4. text[Begin(parts, k) + i - 1] = parts[k][i]
    BY <1>4 DEF Stands
  <2>5. ~(i \in 2..Len(parts[k]))
    BY <1>5, <2>1, <2>3, <2>4
  <2>6. Len(parts[k]) \in Nat /\ Begin(parts, k) \in Nat
    BY <1>5, <1>6
  <2>7. i = 1
    BY <2>5, <2>6
  <2>8. j = Begin(parts, k)
    <3> DEFINE at == Begin(parts, k)
    <3> HIDE DEF at
    <3>1. at \in Nat /\ j = at + i - 1
      BY <2>3, <2>6 DEF at
    <3>2. j = at
      BY <2>7, <3>1
    <3> QED
      BY <3>2 DEF at
  <2> QED
    BY <2>8
<1>9. {OpenedAt(text, j) : j \in places} = {NamedField(label, parts, i) : i \in 1..n}
  <2> HIDE DEF places
  <2> QED
    BY <1>7, <1>8
<1>10. ParenthesizedFields(text) = {OpenedAt(text, j) : j \in places}
  BY ParenthesizedFieldsAre
<1> QED
  BY <1>3, <1>9, <1>10 DEF text, parts

\* What a label says.
Said(label) ==
  [product |-> IF Has(label, 1) THEN label.gtin ELSE None,
   expiry  |-> IF Has(label, 17) /\ DateIn(label.date) THEN <<2, 0>> \o label.date ELSE None]

LEMMA LabelValues ==
  ASSUME NEW label, IsLabel(label)
  PROVE  /\ label.gtin \in Seq(Digit) /\ Len(label.gtin) = 14 /\ Digits(label.gtin) /\ label.gtin # None
         /\ label.date \in Seq(Digit) /\ Len(label.date) = 6
         /\ ToExpiryDateRaw(label.date) = (IF DateIn(label.date) THEN <<2, 0>> \o label.date ELSE None)
         /\ ToExpiryDateRaw(None) = None
<1>1. label.gtin \in [1..14 -> Digit] /\ label.date \in [1..6 -> Digit]
  BY DEF IsLabel
<1>2. label.gtin \in Seq(Digit) /\ Len(label.gtin) = 14
  BY <1>1, FunctionIsSeq
<1>3. label.date \in Seq(Digit) /\ Len(label.date) = 6
  BY <1>1, FunctionIsSeq
<1>4. Digits(label.gtin)
  BY <1>2, DigitsOf
<1>5. label.gtin # None
  <2>1. Len(None) = 0
    BY DEF None
  <2>2. Len(label.gtin) # Len(None)
    BY <1>2, <2>1
  <2> QED
    BY <2>2, Zenon
<1>6. ToExpiryDateRaw(label.date) = IF DateIn(label.date) THEN <<2, 0>> \o label.date ELSE None
  BY <1>3, SixDigits
<1>7. ToExpiryDateRaw(None) = None
  BY DEF ToExpiryDateRaw, None
<1> QED
  BY <1>2, <1>3, <1>4, <1>5, <1>6, <1>7

LEMMA LastOfOne ==
  ASSUME NEW at \in Nat, NEW ai, NEW v
  PROVE  LastValue({Field(at, ai, v)}) = v
<1> DEFINE f == Field(at, ai, v)
<1>1. f.at = at /\ f.value = v /\ at <= at
  BY DEF Field
<1> HIDE DEF f
<1>2. (CHOOSE g \in {f} : \A h \in {f} : h.at <= g.at) = f
  BY <1>1
<1>3. {f} # {}
  OBVIOUS
<1> QED
  BY <1>1, <1>2, <1>3 DEF LastValue, f

\* The fields with the parts K of a label, the batch number there or not.
FieldsOf(label, parts, K) == {NamedField(label, parts, i) : i \in K}
Covers(label, K) ==
  K \subseteq 1..Len(label.order) /\ \A i \in 1..Len(label.order) : label.order[i] # 10 => i \in K

\* Every identifier stands on a label once at most, so the last field is the only one.
LEMMA OneField ==
  ASSUME NEW label, IsLabel(label), NEW parts, NEW K, Covers(label, K),
         \A i \in 1..Len(label.order) : Begin(parts, i) \in Nat, NEW ai \in {1, 17}
  PROVE  LastValue({f \in FieldsOf(label, parts, K) : f.ai = ai})
           = IF Has(label, ai) THEN Value(label, ai) ELSE None
<1> DEFINE fields == FieldsOf(label, parts, K)
           those == {f \in fields : f.ai = ai}
           n == Len(label.order)
<1>1. n \in Nat /\ DOMAIN label.order = 1..n
  BY OrderIs
<1>2. \A i \in 1..n : NamedField(label, parts, i).ai = label.order[i]
  BY DEF NamedField, Field
<1>3. \A i, j \in 1..n : label.order[i] = label.order[j] => i = j
  BY <1>1 DEF IsLabel
<1>4. CASE Has(label, ai)
  <2>1. PICK i \in 1..n : label.order[i] = ai
    BY <1>1, <1>4 DEF Has
  <2>2. i \in K
    BY <2>1 DEF Covers
  <2>3. those = {NamedField(label, parts, i)}
    <3>1. NamedField(label, parts, i) \in those
      BY <1>2, <2>1, <2>2 DEF FieldsOf
    <3>2. ASSUME NEW f \in those
          PROVE  f = NamedField(label, parts, i)
      <4>1. PICK j \in K : f = NamedField(label, parts, j)
        BY DEF FieldsOf
      <4>2. j \in 1..n /\ f.ai = ai
        BY DEF Covers
      <4>3. label.order[j] = ai
        BY <1>2, <4>1, <4>2
      <4> QED
        BY <1>3, <2>1, <4>1, <4>2, <4>3
    <3> QED
      BY <3>1, <3>2
  <2>4. NamedField(label, parts, i) = Field(Begin(parts, i), ai, Value(label, ai))
    BY <2>1 DEF NamedField, ElementOf
  <2>5. LastValue(those) = Value(label, ai)
    <3> HIDE DEF those
    <3> QED
      BY <2>3, <2>4, LastOfOne
  <2> QED
    BY <1>4, <2>5
<1>5. CASE ~Has(label, ai)
  <2>1. those = {}
    <3>1. ASSUME NEW f \in those
          PROVE  FALSE
      <4>1. PICK j \in K : f = NamedField(label, parts, j)
        BY DEF FieldsOf
      <4>2. j \in 1..n /\ f.ai = ai
        BY DEF Covers
      <4>3. label.order[j] = ai
        BY <1>2, <4>1, <4>2
      <4> QED
        BY <1>1, <1>5, <4>2, <4>3 DEF Has
    <3> QED
      BY <3>1
  <2>2. LastValue(those) = None
    <3> HIDE DEF those
    <3> QED
      BY <2>1 DEF LastValue
  <2> QED
    BY <1>5, <2>2
<1> QED
  BY <1>4, <1>5

LEMMA OutcomeIs ==
  ASSUME NEW label, IsLabel(label), NEW parts, NEW K, Covers(label, K),
         \A i \in 1..Len(label.order) : Begin(parts, i) \in Nat
  PROVE  Outcome(FieldsOf(label, parts, K)) = Said(label)
<1> DEFINE fields == FieldsOf(label, parts, K)
           gtins == {f \in fields : f.ai = 1 /\ Len(f.value) = 14 /\ Digits(f.value)}
<1>1. gtins = {f \in fields : f.ai = 1}
  <2>1. ASSUME NEW f \in fields, f.ai = 1
        PROVE  Len(f.value) = 14 /\ Digits(f.value)
    <3>1. PICK i \in K : f = NamedField(label, parts, i)
      BY DEF FieldsOf
    <3>2. f.ai = label.order[i] /\ f.value = Value(label, label.order[i])
      BY <3>1 DEF NamedField, Field, ElementOf
    <3>3. f.value = label.gtin
      BY <2>1, <3>2 DEF Value
    <3> QED
      BY <3>3, LabelValues
  <2> QED
    BY <2>1
<1>2. LastValue(gtins) = IF Has(label, 1) THEN label.gtin ELSE None
  <2>1. Value(label, 1) = label.gtin
    BY DEF Value
  <2>2. LastValue({f \in fields : f.ai = 1}) = IF Has(label, 1) THEN Value(label, 1) ELSE None
    BY OneField
  <2> HIDE DEF fields, gtins
  <2> QED
    BY <1>1, <2>1, <2>2
<1>3. LastValue({f \in fields : f.ai = 17}) = IF Has(label, 17) THEN label.date ELSE None
  <2>1. Value(label, 17) = label.date
    BY DEF Value
  <2> QED
    BY <2>1, OneField
<1>4. ToExpiryDateRaw(LastValue({f \in fields : f.ai = 17})) = Said(label).expiry
  BY <1>3, LabelValues DEF Said
<1> QED
  BY <1>2, <1>4 DEF Outcome, Said

\* What the scanner sends in front of a label is taken off again.
LEMMA PrefixTakenOff ==
  ASSUME NEW text \in Seq(Char), Len(text) # 0, text[1] # Bracket, NEW prefix \in ScannerPrefixes
  PROVE  StripScannerPrefix(prefix \o text) = text
<1>1. Len(text) \in Nat
  OBVIOUS
<1>2. CASE prefix = <<>>
  <2>1. prefix \o text = text
    BY <1>2
  <2> QED
    BY <2>1 DEF StripScannerPrefix
<1>3. CASE prefix = <<Bracket, Letter, 3>>
  <2> DEFINE p == <<Bracket, Letter, 3>>
             all == p \o text
             rest == SubSeq(all, 4, Len(all))
  <2>1. p \in Seq(Char) /\ Len(p) = 3 /\ p[1] = Bracket /\ p[2] = Letter /\ p[3] = 3
    <3>1. Bracket \in Char /\ Letter \in Char /\ 3 \in Char
      BY DEF Bracket, Letter, Char
    <3>2. \A a, b, c \in Char :
            /\ <<a, b, c>> \in Seq(Char) /\ Len(<<a, b, c>>) = 3
            /\ <<a, b, c>>[1] = a /\ <<a, b, c>>[2] = b /\ <<a, b, c>>[3] = c
      OBVIOUS
    <3> QED
      BY <3>1, <3>2
  <2> HIDE DEF p, all
  <2>2. /\ all \in Seq(Char) /\ Len(all) = Len(p) + Len(text)
        /\ \A i \in 1..(Len(p) + Len(text)) : all[i] = IF i <= Len(p) THEN p[i] ELSE text[i - Len(p)]
    <3>1. all = p \o text
      BY DEF all
    <3> QED
      BY <2>1, <3>1, ConcatProperties, Zenon
  <2>3. Len(all) = 3 + Len(text) /\ all[1] = Bracket /\ all[2] = Letter /\ all[3] = 3
    <3>1. 1 \in 1..(Len(p) + Len(text)) /\ 2 \in 1..(Len(p) + Len(text)) /\ 3 \in 1..(Len(p) + Len(text))
      BY <1>1, <2>1
    <3> QED
      BY <2>1, <2>2, <3>1
  <2>4. {all[2], all[3]} \subseteq Digit \union {Letter, P}
    <3>1. 3 \in Digit
      BY DEF Digit
    <3> QED
      BY <2>3, <3>1
  <2>5. 4 \in Nat \ {0} /\ Len(all) \in Nat /\ 4 <= Len(all) /\ Len(all) >= 3 /\ Len(all) - 4 + 1 = Len(text)
    BY <1>1, <2>3
  <2>6. /\ rest \in Seq(Char) /\ Len(rest) = Len(text)
        /\ \A i \in 1..Len(text) : rest[i] = all[4 + i - 1]
    BY <2>2, <2>5, PartOf
  <2>7. \A i \in 1..Len(text) : all[4 + i - 1] = text[i]
    <3>1. \A i \in 1..Len(text) : /\ 4 + i - 1 \in 1..(Len(p) + Len(text)) /\ ~(4 + i - 1 <= Len(p))
                                  /\ 4 + i - 1 - Len(p) = i
      BY <1>1, <2>1
    <3> QED
      BY <2>2, <3>1
  <2> HIDE DEF rest
  <2>8. rest = text
    BY <2>6, <2>7, SameText
  <2>9. StripScannerPrefix(all) = rest
    BY <2>3, <2>4, <2>5 DEF StripScannerPrefix, rest
  <2> QED
    BY <1>3, <2>8, <2>9 DEF all, p
<1> QED
  BY <1>2, <1>3 DEF ScannerPrefixes

LEMMA PartBegins ==
  ASSUME NEW S, NEW text \in Seq(S), NEW part \in Seq(S), Stands(text, 1, part), Len(part) # 0
  PROVE  Len(text) # 0 /\ text[1] = part[1]
<1>1. Len(text) \in Nat /\ Len(part) \in Nat
  OBVIOUS
<1>2. 1 + Len(part) <= Len(text) + 1 /\ text[1 + 1 - 1] = part[1]
  <2>1. 1 \in 1..Len(part)
    BY <1>1
  <2> QED
    BY <2>1 DEF Stands
<1>3. 1 + 1 - 1 = 1
  OBVIOUS
<1> QED
  BY <1>1, <1>2, <1>3

LEMMA CompactBegins ==
  ASSUME NEW label, IsLabel(label), NEW s \in BOOLEAN
  PROVE  Len(Compact(label, s)) # 0 /\ Compact(label, s)[1] # Bracket
<1> DEFINE text == Compact(label, s)
           parts == CompactParts(label, s)
           id == IdentifierOf(label.order[1])
           v == ElementOf(label, 1)
           gap == Gap(SeparatedAfter(label, s, 1))
<1>1. 1 \in 1..Len(label.order)
  BY OrderIs
<1>2. /\ Parts(GapChars, parts) /\ Len(parts) = Len(label.order) /\ parts[1] = (id \o v) \o gap
  BY <1>1, CompactPartsAre
<1>3. text = Joined(parts)
  BY DEF Compact, CompactParts
<1>4. text \in Seq(GapChars) /\ Stands(text, 1, (id \o v) \o gap)
  <2> HIDE DEF text, parts
  <2>1. text \in Seq(GapChars) /\ PartsStand(parts, text)
    BY <1>2, <1>3, PartsStandThere
  <2>2. Stands(text, Begin(parts, 1), parts[1]) /\ Begin(parts, 1) = 1
    BY <1>1, <1>2, <2>1 DEF PartsStand
  <2> QED
    BY <1>2, <2>1, <2>2
<1>5. label.order[1] \in {1, 17, 10} /\ v \in Seq(Plain)
  BY <1>1, OrderIs, ElementsAre DEF IsElement
<1>6. id \in Seq(Digit) /\ Len(id) = 2 /\ gap \in Seq(GapChars)
  BY <1>5, IdentifierDigits, GapIs DEF SeparatedAfter
<1>7. id \in Seq(Char) /\ v \in Seq(Char) /\ gap \in Seq(Char) /\ text \in Seq(Char)
  <2>1. Digit \subseteq Char /\ Plain \subseteq Char /\ GapChars \subseteq Char
    BY DigitsArePlain DEF GapChars
  <2> HIDE DEF id, gap, v, text
  <2> QED
    BY <1>4, <1>5, <1>6, <2>1, WiderText
<1> HIDE DEF id, gap, v, text
<1>8. id \o v \in Seq(Char)
  BY <1>7, ConcatProperties, Zenon
<1>9. Stands(text, 1, id)
  BY <1>4, <1>7, <1>8, StandsApart
<1>10. Len(id) # 0
  BY <1>6
<1>11. Len(text) # 0 /\ text[1] = id[1]
  BY <1>7, <1>9, <1>10, PartBegins
<1>12. id[1] \in Digit
  <2>1. 1 \in 1..Len(id)
    BY <1>6
  <2> QED
    BY <1>6, <2>1, DigitsOf
<1> QED
  BY <1>11, <1>12 DEF text, Digit, Bracket

LEMMA CompactOutcome ==
  ASSUME NEW label, IsLabel(label), NEW s \in BOOLEAN
  PROVE  /\ Outcome(CompactFields(Compact(label, s))) = Said(label)
         /\ Outcome(ParenthesizedFields(Compact(label, s))) = NothingFound
<1> DEFINE text == Compact(label, s)
           parts == CompactParts(label, s)
           n == Len(label.order)
           K == {i \in 1..n : label.order[i] # 10}
<1>1. text \in Seq(GapChars) /\ CompactFields(text) = LabelFields(label, parts, 1)
  BY CompactLabelRead
<1>2. LabelFields(label, parts, 1) = FieldsOf(label, parts, K)
  <2>1. \A i \in 1..n : LabelField(label, parts, i) = IF i \in K THEN {NamedField(label, parts, i)} ELSE {}
    BY DEF LabelField, FieldOf, NamedField
  <2> HIDE DEF parts
  <2> QED
    BY <2>1 DEF LabelFields, FieldsOf
<1>3. \A i \in 1..n : Begin(parts, i) \in Nat
  <2>1. Parts(GapChars, parts) /\ Len(parts) = n
    BY CompactPartsAre
  <2>2. text = Joined(parts)
    BY DEF Compact, CompactParts
  <2> HIDE DEF parts, text
  <2>3. PartsStand(parts, text)
    BY <2>1, <2>2, PartsStandThere
  <2> QED
    BY <2>1, <2>3 DEF PartsStand, Stands
<1>4. Covers(label, K)
  BY DEF Covers
<1>5. Outcome(FieldsOf(label, parts, K)) = Said(label)
  <2> HIDE DEF parts, K
  <2> QED
    BY <1>3, <1>4, OutcomeIs
<1>6. Outcome({}) = NothingFound
  <2>1. LastValue({}) = None
    BY DEF LastValue
  <2>2. {f \in {} : f.ai = 17} = {} /\ {f \in {} : f.ai = 1 /\ Len(f.value) = 14 /\ Digits(f.value)} = {}
    OBVIOUS
  <2> QED
    BY <2>1, <2>2, LabelValues DEF Outcome, NothingFound
<1>7. ParenthesizedFields(text) = {}
  BY <1>1, NothingOpened
<1> QED
  BY <1>1, <1>2, <1>5, <1>6, <1>7

LEMMA ParenthesizedOutcome ==
  ASSUME NEW label, IsLabel(label)
  PROVE  /\ Outcome(ParenthesizedFields(Parenthesized(label))) = Said(label)
         /\ Parenthesized(label) \in Seq(Char)
         /\ Len(Parenthesized(label)) # 0 /\ Parenthesized(label)[1] # Bracket
<1> DEFINE text == Parenthesized(label)
           parts == ParenthesizedParts(label)
           n == Len(label.order)
           K == 1..n
<1>1. /\ text \in Seq(Char) /\ PartsStand(parts, text)
      /\ ParenthesizedFields(text) = FieldsOf(label, parts, K)
  BY ParenthesizedLabelRead DEF FieldsOf
<1>2. Len(parts) = n /\ n \in Nat \ {0} /\ parts[1] = ParenthesizedPart(label, 1)
  BY ParenthesizedPartsAre, OrderIs
<1>3. (\A i \in 1..n : Begin(parts, i) \in Nat) /\ Stands(text, 1, parts[1])
  <2> HIDE DEF parts, text
  <2>1. Begin(parts, 1) = 1 /\ 1 \in 1..n
    BY <1>1, <1>2 DEF PartsStand
  <2>2. \A i \in 1..n : Stands(text, Begin(parts, i), parts[i])
    BY <1>1, <1>2 DEF PartsStand
  <2>3. \A i \in 1..n : Begin(parts, i) \in Nat
    BY <2>2 DEF Stands
  <2> QED
    BY <2>1, <2>2, <2>3
<1>4. Covers(label, K)
  BY DEF Covers
<1>5. Outcome(FieldsOf(label, parts, K)) = Said(label)
  <2> HIDE DEF parts, K
  <2> QED
    BY <1>3, <1>4, OutcomeIs
<1>6. Len(text) # 0 /\ text[1] = OpenParen
  <2> DEFINE part == ParenthesizedPart(label, 1)
  <2>1. 1 \in 1..n
    BY <1>2
  <2>2. part \in Seq(Char) /\ Opens(part, label.order[1], ElementOf(label, 1))
    BY <2>1, ParenthesizedPartIs
  <2>3. Len(ElementOf(label, 1)) \in Nat
    BY <2>1, ElementsAre DEF IsElement
  <2>4. Len(part) # 0 /\ part[1] = OpenParen
    BY <2>2, <2>3 DEF Opens
  <2> HIDE DEF part, text, parts
  <2>5. Stands(text, 1, part)
    BY <1>2, <1>3 DEF part
  <2> QED
    BY <1>1, <2>2, <2>4, <2>5, PartBegins
<1>7. OpenParen # Bracket
  BY DEF OpenParen, Bracket
<1> QED
  BY <1>1, <1>5, <1>6, <1>7

\* A label of any product number, date and batch number, its elements in any order, is
\* read as what it says, in each of its three forms and with or without what the
\* scanner sends in front: no value is taken for an identifier, no batch number
\* swallows the next element, and a date that is none is left out.  One of the two
\* must be there: a label with neither is a product number as it stands.
THEOREM LabelIsRead ==
  ASSUME NEW label, IsLabel(label), Has(label, 1) \/ (Has(label, 17) /\ DateIn(label.date)),
         NEW scan \in Scans(label)
  PROVE  ParseGs1ProductAndExpiry(scan) = Said(label)
<1>1. Said(label) # NothingFound
  <2>1. CASE Has(label, 1)
    BY <2>1, LabelValues DEF Said, NothingFound
  <2>2. CASE Has(label, 17) /\ DateIn(label.date)
    <3>1. <<2, 0>> \o label.date # None
      BY LabelValues, SixDigits
    <3> QED
      BY <2>2, <3>1 DEF Said, NothingFound
  <2> QED
    BY <2>1, <2>2
<1>2. PICK prefix \in ScannerPrefixes, text \in Printings(label) : scan = prefix \o text
  BY DEF Scans
<1>3. ASSUME NEW s \in BOOLEAN, text = Compact(label, s)
      PROVE  ParseGs1ProductAndExpiry(scan) = Said(label)
  <2>1. text \in Seq(Char)
    <3>1. text \in Seq(GapChars)
      BY <1>3, CompactLabelRead
    <3>2. GapChars \subseteq Char
      BY DEF GapChars
    <3> QED
      BY <3>1, <3>2, WiderText
  <2>2. StripScannerPrefix(scan) = text
    BY <1>2, <1>3, <2>1, CompactBegins, PrefixTakenOff
  <2> QED
    BY <1>3, <2>2, CompactOutcome DEF ParseGs1ProductAndExpiry
<1>4. CASE text = Parenthesized(label)
  <2>1. StripScannerPrefix(scan) = text
    BY <1>2, <1>4, ParenthesizedOutcome, PrefixTakenOff
  <2> QED
    BY <1>1, <1>4, <2>1, ParenthesizedOutcome DEF ParseGs1ProductAndExpiry
<1> QED
  BY <1>2, <1>3, <1>4 DEF Printings

\* Scanned into the empty form in one piece, such a label fills the two fields with the
\* product number and the expiry date it carries, and nothing else.
THEOREM LabelFillsTheForm ==
  ASSUME NEW label, IsLabel(label), Has(label, 1) \/ (Has(label, 17) /\ DateIn(label.date)),
         NEW scan \in Scans(label)
  PROVE  LET form == ProductFieldChanged(EmptyForm, scan)
         IN /\ form.expiry = (IF Has(label, 17) /\ DateIn(label.date) THEN <<2, 0>> \o label.date ELSE None)
            /\ form.product = (IF Has(label, 1) THEN label.gtin ELSE scan)
<1>1. ParseGs1ProductAndExpiry(scan) = Said(label)
  BY LabelIsRead
<1>2. ProductFieldChanged(EmptyForm, scan)
        = [product |-> IF Said(label).product # None THEN Said(label).product ELSE scan,
           expiry |-> IF Said(label).expiry # None THEN Said(label).expiry ELSE None]
  BY <1>1 DEF ProductFieldChanged, EmptyForm
<1>3. label.gtin # None
  BY LabelValues
<1> DEFINE expiry == IF Has(label, 17) /\ DateIn(label.date) THEN <<2, 0>> \o label.date ELSE None
<1>4. Said(label) = [product |-> IF Has(label, 1) THEN label.gtin ELSE None, expiry |-> expiry]
  BY DEF Said
<1> HIDE DEF expiry
<1>5. Said(label).expiry = expiry /\ Said(label).product = IF Has(label, 1) THEN label.gtin ELSE None
  BY <1>4
<1>6. /\ ProductFieldChanged(EmptyForm, scan).expiry = expiry
      /\ ProductFieldChanged(EmptyForm, scan).product = IF Has(label, 1) THEN label.gtin ELSE scan
  BY <1>2, <1>3, <1>5
<1> QED
  BY <1>6 DEF expiry

\* The labels the runs try are labels.
LEMMA LabelDates ==
  ASSUME NEW date \in RealDates \union NoDates
  PROVE  date \in [1..6 -> Digit] /\ (DateIn(date) <=> date \in RealDates)
<1>1. /\ 0 \in Digit /\ 1 \in Digit /\ 2 \in Digit /\ 3 \in Digit /\ 4 \in Digit
      /\ 6 \in Digit /\ 9 \in Digit
  BY DEF Digit
<1>2. \A a, b, c, d, e, f \in Digit : <<a, b, c, d, e, f>> \in [1..6 -> Digit]
  OBVIOUS
<1>3. /\ IsValidDate(2026, 12, 31) /\ IsValidDate(2024, 2, 29)
      /\ ~IsValidDate(2026, 2, 29) /\ ~IsValidDate(2026, 99, 31)
  BY DEF IsValidDate, DaysIn
<1>4. ASSUME NEW six, six = <<2, 6, 1, 2, 3, 1>>
      PROVE  six \in [1..6 -> Digit] /\ DateIn(six)
  <2>1. <<2, 6, 1, 2, 3, 1>> \in [1..6 -> Digit]
    BY <1>1, <1>2, Zenon
  <2>2. 10 * six[1] + six[2] = 26 /\ 10 * six[3] + six[4] = 12 /\ 10 * six[5] + six[6] = 31
    BY <1>4
  <2>3. 2000 + 26 = 2026
    OBVIOUS
  <2> QED
    BY <1>3, <1>4, <2>1, <2>2, <2>3 DEF DateIn
<1>5. ASSUME NEW six, six = <<2, 4, 0, 2, 2, 9>>
      PROVE  six \in [1..6 -> Digit] /\ DateIn(six)
  <2>1. <<2, 4, 0, 2, 2, 9>> \in [1..6 -> Digit]
    BY <1>1, <1>2, Zenon
  <2>2. 10 * six[1] + six[2] = 24 /\ 10 * six[3] + six[4] = 2 /\ 10 * six[5] + six[6] = 29
    BY <1>5
  <2>3. 2000 + 24 = 2024
    OBVIOUS
  <2> QED
    BY <1>3, <1>5, <2>1, <2>2, <2>3 DEF DateIn
<1>6. ASSUME NEW six, six = <<2, 6, 0, 2, 2, 9>>
      PROVE  six \in [1..6 -> Digit] /\ ~DateIn(six)
  <2>1. <<2, 6, 0, 2, 2, 9>> \in [1..6 -> Digit]
    BY <1>1, <1>2, Zenon
  <2>2. 10 * six[1] + six[2] = 26 /\ 10 * six[3] + six[4] = 2 /\ 10 * six[5] + six[6] = 29
    BY <1>6
  <2>3. 2000 + 26 = 2026
    OBVIOUS
  <2> QED
    BY <1>3, <1>6, <2>1, <2>2, <2>3 DEF DateIn
<1>7. ASSUME NEW six, six = <<2, 6, 9, 9, 3, 1>>
      PROVE  six \in [1..6 -> Digit] /\ ~DateIn(six)
  <2>1. <<2, 6, 9, 9, 3, 1>> \in [1..6 -> Digit]
    BY <1>1, <1>2, Zenon
  <2>2. 10 * six[1] + six[2] = 26 /\ 10 * six[3] + six[4] = 99 /\ 10 * six[5] + six[6] = 31
    BY <1>7
  <2>3. 2000 + 26 = 2026
    OBVIOUS
  <2> QED
    BY <1>3, <1>7, <2>1, <2>2, <2>3 DEF DateIn
<1>8. \A six \in RealDates : six \in [1..6 -> Digit] /\ DateIn(six)
  BY <1>4, <1>5 DEF RealDates
<1>9. \A six \in NoDates : six \in [1..6 -> Digit] /\ ~DateIn(six)
  BY <1>6, <1>7 DEF NoDates
<1> QED
  BY <1>8, <1>9

LEMMA LabelGtins ==
  ASSUME NEW gtin \in Gtins
  PROVE  gtin \in [1..14 -> Digit]
BY DEF Gtins, Digit

LEMMA LabelLots ==
  ASSUME NEW lot \in Lots
  PROVE  lot \in Seq(Plain)
<1>1. Digit \subseteq Plain /\ Letter \in Plain
  BY DEF Digit, Letter, Plain, Char, GS, OpenParen, CloseParen
<1>2. 0 \in Plain /\ 1 \in Plain /\ 2 \in Plain /\ 3 \in Plain /\ 6 \in Plain /\ 7 \in Plain
  BY <1>1 DEF Digit
<1>3. CASE lot = <<Letter, Letter, 1, 2, 3>>
  <2>1. \A a, b, c, d, e \in Plain : <<a, b, c, d, e>> \in Seq(Plain)
    OBVIOUS
  <2> QED
    BY <1>1, <1>2, <1>3, <2>1
<1>4. CASE lot = <<1, 7, 2, 6, 0, 1, 0, 1>>
  <2>1. \A a, b, c, d, e, f, g, h \in Plain : <<a, b, c, d, e, f, g, h>> \in Seq(Plain)
    OBVIOUS
  <2> QED
    BY <1>2, <1>4, <2>1
<1>5. CASE lot = <<0, 1>> \o [i \in 1..14 |-> 7]
  <2> DEFINE a == <<0, 1>>
             b == [i \in 1..14 |-> 7]
  <2>1. a \in Seq(Plain)
    BY <1>2
  <2>2. b \in Seq(Plain)
    <3>1. b \in [1..14 -> Plain]
      BY <1>2
    <3> HIDE DEF b
    <3> QED
      BY <3>1, FunctionIsSeq
  <2>3. lot = a \o b
    BY <1>5
  <2> HIDE DEF a, b
  <2> QED
    BY <2>1, <2>2, <2>3, ConcatProperties, Zenon
<1> QED
  BY <1>3, <1>4, <1>5 DEF Lots

LEMMA LabelsAre ==
  ASSUME NEW label \in Labels
  PROVE  IsLabel(label) /\ label.date \in RealDates \union NoDates
<1>1. /\ label.gtin \in Gtins /\ label.date \in RealDates \union NoDates /\ label.lot \in Lots
      /\ label.order \in Orders
  BY DEF Labels
<1>2. PICK n \in 1..3 : label.order \in [1..n -> {1, 17, 10}]
  BY <1>1 DEF Orders
<1>3. \A i, j \in DOMAIN label.order : label.order[i] = label.order[j] => i = j
  BY <1>1 DEF Orders
<1>4. label.order \in Seq({1, 17, 10}) /\ Len(label.order) = n
  BY <1>2, FunctionIsSeq
<1>5. label.order # <<>>
  <2>1. Len(label.order) # 0
    BY <1>4
  <2> QED
    BY <2>1
<1> QED
  BY <1>1, <1>3, <1>4, <1>5, LabelGtins, LabelDates, LabelLots DEF IsLabel

LEMMA EveryLabelRead == EveryLabel
<1>1. ASSUME NEW label \in Labels, NEW scan \in Scans(label),
             Has(label, 1) \/ (Has(label, 17) /\ DateIn(label.date))
      PROVE  LET form == ProductFieldChanged(EmptyForm, scan)
             IN /\ form.expiry = (IF Has(label, 17) /\ DateIn(label.date) THEN <<2, 0>> \o label.date ELSE None)
                /\ form.product = (IF Has(label, 1) THEN label.gtin ELSE scan)
  BY <1>1, LabelsAre, LabelFillsTheForm
<1>2. \A label \in Labels : DateIn(label.date) <=> label.date \in RealDates
  BY LabelsAre, LabelDates
<1>3. ASSUME NEW label \in Labels
      PROVE  ReadExactly(label)
  <2> DEFINE expiry == IF Has(label, 17) /\ label.date \in RealDates THEN <<2, 0>> \o label.date ELSE None
  <2>1. expiry # None => Has(label, 17) /\ DateIn(label.date)
    BY <1>2
  <2>2. expiry = IF Has(label, 17) /\ DateIn(label.date) THEN <<2, 0>> \o label.date ELSE None
    BY <1>2
  <2> HIDE DEF expiry
  <2>3. ASSUME Has(label, 1) \/ expiry # None, NEW scan \in Scans(label)
        PROVE  LET form == ProductFieldChanged(EmptyForm, scan)
               IN /\ form.expiry = expiry
                  /\ form.product = (IF Has(label, 1) THEN label.gtin ELSE scan)
    BY <1>1, <2>1, <2>2, <2>3
  <2> QED
    BY <2>3 DEF ReadExactly, expiry
<1> QED
  BY <1>3 DEF EveryLabel

-----------------------------------------------------------------------------
(* What the last three properties of the page say of the labels, dates and *)
(* codes the runs enumerate.                                               *)

LEMMA EveryUpcGroups == EveryUpc
<1>1. ASSUME NEW code \in UpcCodes
      PROVE  code \in [1..12 -> Digit]
  BY <1>1 DEF UpcCodes, Digit
<1> QED
  BY <1>1, UpcIsGroupedWithEan DEF EveryUpc

\* On every page, whatever label is scanned and whatever date is typed, the fields of the
\* page hold what was meant.
THEOREM FieldsRead == PageSpec => []FieldsHoldWhatWasRead
<1>1. FieldsHoldWhatWasRead
  BY EveryLabelRead, EveryDateStands DEF FieldsHoldWhatWasRead
<1> QED
  BY <1>1, PTL

\* On every page, whatever numbers are printed: a clean code is let pass and read as printed;
\* one with noise inside its number is read as printed too, and let pass for no suggestion
\* but those its number begins with; one with noise before its digits is read as printed or
\* not at all.
THEOREM ScansAgree == PageSpec => []PalletScansAgree
<1>1. PalletScansAgree
  BY EveryRightLabelRead, EveryNoisyLabelRead DEF PalletScansAgree
<1> QED
  BY <1>1, PTL

\* On every page, the two codes of one product are counted as one.
THEOREM ScansGroup == PageSpec => []EquivalentScansGroup
<1>1. EquivalentScansGroup
  BY EveryUpcGroups DEF EquivalentScansGroup
<1> QED
  BY <1>1, PTL
=============================================================================

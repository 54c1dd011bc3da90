------------------------- MODULE SortingFlowProofs -------------------------
(***************************************************************************)
(* What the sorting page keeps whatever happens around it, for any number  *)
(* of requests under way, disturbances, products and pallets; that page and *)
(* tables agree in a calm shift of any length; and that the page does      *)
(* nothing to the tables but the repository's operations, so that the      *)
(* theorems about the tables hold with the page at work, too.              *)
(***************************************************************************)
EXTENDS SortingFlow, WarehouseStoreProofs

\* What is known of the requests under way: a registration carries a variant and
\* its answer a pallet, and closing names a pallet.
CallsMakeSense ==
  \A s \in Slots : call[s] # NoCall =>
    /\ call[s] \in Call
    /\ call[s].kind = "register" =>
         call[s].variant \in Variants /\ (call[s].outcome = "success" => call[s].pallet \in PalletNumbers)
    /\ call[s].kind \in {"close current", "close listed"} => call[s].pallet \in PalletNumbers

Mine(s) == call[s] # NoCall /\ call[s].mine

\* Without a page nobody's handler is its own; with one, at most one is.
LockInv ==
  IF onPage
    THEN /\ submitting <=> \E s \in Slots : Mine(s)
         /\ \A s, t \in Slots : Mine(s) /\ Mine(t) => s = t
    ELSE \A s \in Slots : ~Mine(s)

PageTypes ==
  /\ onPage \in BOOLEAN /\ started \in BOOLEAN /\ submitting \in BOOLEAN
  /\ step \in {"register", "confirm"}
  /\ pending \in PalletNumbers \union {NoPallet}
  /\ suggested \in PalletNumbers \union {NoPallet}
  /\ abandoned \in Nat /\ disturbances \in 0..MaxDisturbances

CallTypes == call \in [Slots -> Call \union {NoCall}]

FlowInv == TypeOK /\ PageTypes /\ CallTypes /\ CallsMakeSense /\ LockInv /\ ConfirmStepHasPallet

LEMMA CallsAreCalls == \A c \in Call : c # NoCall
<1> SUFFICES ASSUME NEW c \in Call, c = NoCall PROVE FALSE
  OBVIOUS
<1>1. c.kind # "none"
  BY DEF Call, Kinds
<1>2. NoCall.kind = "none"
  BY DEF NoCall
<1> QED
  BY <1>1, <1>2

LEMMA InitFlowInv == FlowInit => FlowInv
<1> SUFFICES ASSUME FlowInit PROVE FlowInv
  OBVIOUS
<1>1. TypeOK
  BY InitTypeOK DEF FlowInit
<1>2. PageTypes
  <2>1. disturbances \in 0..MaxDisturbances
    BY FlowBoundsAssumption DEF FlowInit
  <2> QED
    BY <2>1 DEF FlowInit, PageTypes
<1>3. CallTypes /\ \A s \in Slots : call[s] = NoCall
  BY DEF FlowInit, CallTypes
<1> QED
  BY <1>1, <1>2, <1>3 DEF FlowInit, FlowInv, CallsMakeSense, LockInv, Mine, ConfirmStepHasPallet

-----------------------------------------------------------------------------
(* The tables.                                                              *)

\* The server's steps are operations of the repository, all others leave the
\* tables alone.
LEMMA FlowStepsStore ==
  ASSUME FlowInv, [FlowNext]_allVars
  PROVE  [Next]_vars
<1>1. ASSUME NEW s \in Slots, ServeRegister(s)
      PROVE  Next
  <2>1. call[s].variant \in Variants
    BY <1>1 DEF ServeRegister, FlowInv, CallsMakeSense
  <2> QED
    BY <1>1, <2>1, ColliAssumption DEF ServeRegister, Next, Register
<1>2. ASSUME NEW s \in Slots, ServeConfirm(s)
      PROVE  [Next]_vars
  <2>1. CASE ConfirmLatestUnconfirmed(call[s].pallet)
    <3>1. PICK i \in 1..Len(entries) : IsLatestUnconfirmed(i, call[s].pallet)
      BY <2>1 DEF ConfirmLatestUnconfirmed
    <3>2. entries[i] \in Entry
      BY DEF FlowInv, TypeOK
    <3>3. call[s].pallet \in PalletNumbers
      BY <3>1, <3>2 DEF IsLatestUnconfirmed, Entry
    <3> QED
      BY <2>1, <3>3 DEF Next
  <2> QED
    BY <1>2, <2>1 DEF ServeConfirm
<1>3. ASSUME NEW s \in Slots, ServeClose(s)
      PROVE  Next
  <2>1. call[s].pallet \in PalletNumbers
    BY <1>3 DEF ServeClose, FlowInv, CallsMakeSense
  <2> QED
    BY <1>3, <2>1 DEF ServeClose, Next
<1>4. CASE OtherStation
  BY <1>4, ColliAssumption DEF OtherStation, Next, Register
<1>5. ASSUME NEW s \in Slots,
             \/ \E v \in Variants : RegisterOneColli(s, v)
             \/ \E code \in PalletNumbers \union {Blank, Unreadable} : ConfirmMove(s, code)
             \/ CloseCurrentPallet(s)
             \/ \E n \in PalletNumbers : ClosePalletFromList(s, n)
      PROVE  UNCHANGED vars
  BY <1>5 DEF RegisterOneColli, ConfirmMove, CloseCurrentPallet, ClosePalletFromList, Send
<1>6. ASSUME NEW s \in Slots,
             AfterRegister(s) \/ AfterConfirm(s) \/ AfterClose(s) \/ AfterError(s) \/ LoseResponse(s)
      PROVE  UNCHANGED vars
  BY <1>6 DEF AfterRegister, AfterConfirm, AfterClose, AfterError, LoseResponse, Done, DoneOnPrintPage
<1>7. CASE StartNewSorting \/ FinishSorting \/ Leave \/ Return
  BY <1>7 DEF StartNewSorting, FinishSorting, Leave, Return
<1>8. CASE UNCHANGED allVars
  BY <1>8 DEF allVars
<1> QED
  BY <1>1, <1>2, <1>3, <1>4, <1>5, <1>6, <1>7, <1>8 DEF FlowNext

-----------------------------------------------------------------------------
(* The handlers.                                                            *)

LEMMA EndOfCall ==
  ASSUME FlowInv, NEW s \in Slots, call' = [call EXCEPT ![s] = NoCall]
  PROVE  CallTypes' /\ CallsMakeSense' /\ call'[s] = NoCall /\ \A t \in Slots \ {s} : call'[t] = call[t]
<1>1. call \in [Slots -> Call \union {NoCall}]
  BY DEF FlowInv, CallTypes
<1>2. CallTypes' /\ call'[s] = NoCall /\ \A t \in Slots \ {s} : call'[t] = call[t]
  BY <1>1 DEF CallTypes
<1>3. CallsMakeSense'
  BY <1>2 DEF FlowInv, CallsMakeSense
<1> QED
  BY <1>2, <1>3

LEMMA DisownedCalls ==
  ASSUME FlowInv, NEW W \in SUBSET Slots, \A t \in W : call[t] # NoCall,
         call' = [t \in Slots |-> IF t \in W THEN [call[t] EXCEPT !.mine = FALSE] ELSE NoCall]
  PROVE  CallTypes' /\ CallsMakeSense' /\ \A t \in Slots : ~Mine(t)'
<1>1. ASSUME NEW t \in W
      PROVE  /\ call'[t] \in Call /\ call'[t].mine = FALSE
             /\ call'[t].kind = call[t].kind /\ call'[t].variant = call[t].variant
             /\ call'[t].outcome = call[t].outcome /\ call'[t].pallet = call[t].pallet
  <2>1. call[t] \in Call /\ call'[t] = [call[t] EXCEPT !.mine = FALSE]
    BY DEF FlowInv, CallsMakeSense
  <2> QED
    BY <2>1 DEF Call
<1>2. \A t \in Slots \ W : call'[t] = NoCall
  OBVIOUS
<1>3. CallTypes'
  BY <1>1, <1>2 DEF CallTypes
<1>4. CallsMakeSense'
  BY <1>1, <1>2 DEF FlowInv, CallsMakeSense
<1> QED
  BY <1>1, <1>2, <1>3, <1>4 DEF Mine

LEMMA DoneKeeps ==
  ASSUME FlowInv, NEW s \in Slots, call[s] # NoCall, Done(s)
  PROVE  /\ CallTypes' /\ CallsMakeSense' /\ LockInv' /\ submitting' \in BOOLEAN
         /\ onPage' = onPage /\ started' = started /\ abandoned' = abandoned
<1>1. CallTypes' /\ CallsMakeSense' /\ call'[s] = NoCall /\ \A t \in Slots \ {s} : call'[t] = call[t]
  BY EndOfCall DEF Done
<1>2. onPage' = onPage /\ started' = started /\ abandoned' = abandoned
  BY DEF Done
<1>3. call[s] \in Call /\ submitting \in BOOLEAN /\ onPage \in BOOLEAN
  BY DEF FlowInv, CallsMakeSense, PageTypes
<1>4. submitting' = IF call[s].mine THEN FALSE ELSE submitting
  BY DEF Done, Unlock
<1>5. \A t \in Slots : Mine(t)' <=> Mine(t) /\ t # s
  BY <1>1 DEF Mine
<1>6. LockInv
  BY DEF FlowInv
<1>7. ASSUME call[s].mine
      PROVE  LockInv' /\ submitting' \in BOOLEAN
  <2>1. Mine(s) /\ submitting' = FALSE
    BY <1>4, <1>7 DEF Mine
  <2>2. \A t \in Slots : ~Mine(t)'
    BY <1>5, <1>6, <2>1 DEF LockInv
  <2> QED
    BY <2>1, <2>2 DEF LockInv
<1>8. ASSUME ~call[s].mine
      PROVE  LockInv' /\ submitting' \in BOOLEAN
  <2>1. submitting' = submitting /\ \A t \in Slots : Mine(t)' <=> Mine(t)
    BY <1>4, <1>5, <1>8 DEF Mine
  <2> QED
    BY <1>2, <1>3, <1>6, <2>1 DEF LockInv
<1> QED
  BY <1>1, <1>2, <1>7, <1>8

LEMMA DoneOnPrintPageKeeps ==
  ASSUME FlowInv, NEW s \in Slots, call[s] # NoCall, DoneOnPrintPage(s)
  PROVE  /\ CallTypes' /\ CallsMakeSense' /\ LockInv' /\ submitting' \in BOOLEAN
         /\ onPage' = FALSE /\ started' = started /\ abandoned' = abandoned
<1>1. CallTypes' /\ CallsMakeSense' /\ \A t \in Slots : ~Mine(t)'
  <2> DEFINE W == Waiting \ {s}
  <2>1. W \in SUBSET Slots /\ \A t \in W : call[t] # NoCall
    BY DEF Waiting
  <2>2. call' = [t \in Slots |-> IF t \in W THEN [call[t] EXCEPT !.mine = FALSE] ELSE NoCall]
    BY DEF DoneOnPrintPage
  <2> HIDE DEF W
  <2> QED
    BY <2>1, <2>2, DisownedCalls
<1>2. onPage' = FALSE /\ started' = started /\ abandoned' = abandoned
  BY DEF DoneOnPrintPage
<1>3. submitting' \in BOOLEAN
  BY DEF DoneOnPrintPage, Unlock, FlowInv, PageTypes
<1> QED
  BY <1>1, <1>2, <1>3 DEF LockInv

-----------------------------------------------------------------------------
(* Sending, answering and the page's own steps.                             *)

LEMMA DisturbanceTypes ==
  ASSUME FlowInv, Calm \/ \E kind \in PossibleDisturbances : Disturbing(kind)
  PROVE  disturbances' \in 0..MaxDisturbances
BY FlowBoundsAssumption DEF FlowInv, PageTypes, Calm, Disturbing

LEMMA SendKeeps ==
  ASSUME FlowInv, TypeOK', disturbances' \in 0..MaxDisturbances,
         NEW s \in Slots, NEW kind \in Kinds, NEW n \in PalletNumbers \union {NoPallet, Unreadable},
         NEW v \in Variants \union {NoVariant}, NEW awaited \in BOOLEAN,
         kind = "register" => v \in Variants,
         kind \in {"close current", "close listed"} => n \in PalletNumbers,
         Send(s, kind, n, v, awaited)
  PROVE  FlowInv'
<1>1. /\ onPage /\ onPage' = onPage /\ submitting = FALSE /\ submitting' = TRUE /\ call[s] = NoCall
      /\ UNCHANGED <<started, pending, step, suggested, abandoned>>
  BY DEF Send, FlowInv, PageTypes
<1>2. PICK c \in Call :
        /\ c.kind = kind /\ c.pallet = n /\ c.variant = v /\ c.mine /\ c.outcome = "sent"
        /\ call' = [call EXCEPT ![s] = c]
  <2> DEFINE d == [kind |-> kind, pallet |-> n, variant |-> v, awaited |-> awaited,
                   mine |-> TRUE, outcome |-> "sent", created |-> FALSE]
  <2>1. d \in Call
    BY DEF Call
  <2> QED
    BY <2>1 DEF Send
<1>3. call \in [Slots -> Call \union {NoCall}] /\ c # NoCall
  BY CallsAreCalls DEF FlowInv, CallTypes
<1>4. CallTypes' /\ call'[s] = c /\ \A t \in Slots \ {s} : call'[t] = call[t]
  BY <1>2, <1>3 DEF CallTypes
<1>5. CallsMakeSense'
  BY <1>2, <1>4 DEF FlowInv, CallsMakeSense
<1>6. Mine(s)' /\ \A t \in Slots \ {s} : Mine(t)' <=> Mine(t)
  BY <1>2, <1>3, <1>4 DEF Mine
<1>7. \A t \in Slots : ~Mine(t)
  BY <1>1 DEF FlowInv, LockInv
<1>8. LockInv'
  BY <1>1, <1>6, <1>7 DEF LockInv
<1> QED
  BY <1>1, <1>4, <1>5, <1>8 DEF FlowInv, PageTypes, ConfirmStepHasPallet

LEMMA ReplyKeeps ==
  ASSUME FlowInv, TypeOK', NEW s \in Slots, NEW outcome \in {"success", "error"},
         NEW n \in PalletNumbers \union {NoPallet, Unreadable}, NEW created \in BOOLEAN,
         call[s] # NoCall, n \in PalletNumbers \/ call[s].kind = "confirm",
         Reply(s, outcome, n, created)
  PROVE  FlowInv'
<1>1. call[s] \in Call /\ call \in [Slots -> Call \union {NoCall}]
  BY DEF FlowInv, CallsMakeSense, CallTypes
<1>2. /\ call'[s] = [call[s] EXCEPT !.outcome = outcome, !.pallet = n, !.created = created]
      /\ \A t \in Slots \ {s} : call'[t] = call[t]
      /\ DOMAIN call' = Slots /\ call' = [t \in Slots |-> call'[t]]
  BY <1>1 DEF Reply
<1>3. /\ call'[s] \in Call /\ call'[s].mine = call[s].mine /\ call'[s].kind = call[s].kind
      /\ call'[s].variant = call[s].variant /\ call'[s].pallet = n
  BY <1>1, <1>2 DEF Call
<1>4. CallTypes'
  BY <1>1, <1>2, <1>3 DEF CallTypes
<1>5. CallsMakeSense'
  <2>1. call[s].kind = "register" => call[s].variant \in Variants
    BY DEF FlowInv, CallsMakeSense
  <2>2. /\ call'[s].kind = "register" => call'[s].variant \in Variants /\ call'[s].pallet \in PalletNumbers
        /\ call'[s].kind \in {"close current", "close listed"} => call'[s].pallet \in PalletNumbers
    BY <1>3, <2>1
  <2>3. \A t \in Slots \ {s} : call'[t] = call[t]
    BY <1>2
  <2> QED
    BY <1>3, <2>2, <2>3 DEF FlowInv, CallsMakeSense
<1>6. \A t \in Slots : Mine(t)' <=> Mine(t)
  BY <1>2, <1>3, CallsAreCalls DEF Mine
<1>7. UNCHANGED <<onPage, step, suggested, submitting, started, pending, abandoned, disturbances>>
  BY DEF Reply, pageVars
<1>8. LockInv'
  BY <1>6, <1>7 DEF FlowInv, LockInv
<1> QED
  BY <1>4, <1>5, <1>7, <1>8 DEF FlowInv, PageTypes, ConfirmStepHasPallet

LEMMA OperatorKeeps ==
  ASSUME FlowInv, TypeOK',
         \/ StartNewSorting \/ FinishSorting \/ Leave \/ Return
         \/ \E s \in Slots :
              \/ \E v \in Variants : RegisterOneColli(s, v)
              \/ \E code \in PalletNumbers \union {Blank, Unreadable} : ConfirmMove(s, code)
              \/ CloseCurrentPallet(s)
              \/ \E n \in PalletNumbers : ClosePalletFromList(s, n)
  PROVE  FlowInv'
<1>1. CASE StartNewSorting \/ FinishSorting
  <2>1. /\ onPage' = onPage /\ submitting' = submitting /\ call' = call /\ disturbances' = disturbances
        /\ step' = "register" /\ suggested' = NoPallet /\ pending' = NoPallet
        /\ started' \in BOOLEAN /\ abandoned' \in Nat
    <3>1. CASE StartNewSorting
      BY <3>1 DEF StartNewSorting, FlowInv, PageTypes
    <3>2. CASE FinishSorting
      <4>1. abandoned' = abandoned \/ abandoned' = abandoned + 1
        BY <3>2 DEF FinishSorting
      <4>2. abandoned' \in Nat
        BY <4>1 DEF FlowInv, PageTypes
      <4> QED
        BY <3>2, <4>2 DEF FinishSorting
    <3> QED
      BY <1>1, <3>1, <3>2
  <2> QED
    BY <2>1, Zenon DEF FlowInv, PageTypes, CallTypes, CallsMakeSense, LockInv, Mine, ConfirmStepHasPallet
<1>2. CASE Leave
  <2>1. CallTypes' /\ CallsMakeSense' /\ \A t \in Slots : ~Mine(t)'
    BY <1>2, DisownedCalls DEF Leave, Waiting
  <2>2. onPage' = FALSE /\ UNCHANGED <<started, pending, step, suggested, submitting, abandoned>>
    BY <1>2 DEF Leave
  <2>3. disturbances' \in 0..MaxDisturbances
    BY <1>2, DisturbanceTypes DEF Leave, PossibleDisturbances
  <2> QED
    BY <2>1, <2>2, <2>3 DEF FlowInv, PageTypes, LockInv, ConfirmStepHasPallet
<1>3. CASE Return
  <2>1. /\ onPage = FALSE /\ onPage' = TRUE /\ submitting' = FALSE /\ call' = call
        /\ UNCHANGED <<started, pending, abandoned, disturbances>>
        /\ step' = IF pending # NoPallet THEN "confirm" ELSE "register"
        /\ suggested' = pending
    BY <1>3 DEF Return, FlowInv, PageTypes
  <2>2. LockInv'
    BY <2>1 DEF FlowInv, LockInv, Mine
  <2>3. PageTypes' /\ ConfirmStepHasPallet'
    BY <2>1 DEF FlowInv, PageTypes, ConfirmStepHasPallet
  <2> QED
    BY <2>1, <2>2, <2>3 DEF FlowInv, CallTypes, CallsMakeSense
<1>4. ASSUME NEW s \in Slots, NEW v \in Variants, RegisterOneColli(s, v)
      PROVE  FlowInv'
  BY <1>4, SendKeeps, DisturbanceTypes DEF RegisterOneColli, Kinds
<1>5. ASSUME NEW s \in Slots, NEW code \in PalletNumbers \union {Blank, Unreadable}, ConfirmMove(s, code)
      PROVE  FlowInv'
  <2>1. PICK n \in PalletNumbers \union {NoPallet, Unreadable} : Send(s, "confirm", n, NoVariant, FALSE)
    BY <1>5 DEF ConfirmMove, FlowInv, PageTypes
  <2> QED
    BY <1>5, <2>1, SendKeeps, DisturbanceTypes DEF ConfirmMove, Kinds
<1>6. ASSUME NEW s \in Slots, CloseCurrentPallet(s)
      PROVE  FlowInv'
  <2>1. suggested \in PalletNumbers
    BY <1>6 DEF CloseCurrentPallet, FlowInv, PageTypes
  <2> QED
    BY <1>6, <2>1, SendKeeps, DisturbanceTypes DEF CloseCurrentPallet, Kinds
<1>7. ASSUME NEW s \in Slots, NEW n \in PalletNumbers, ClosePalletFromList(s, n)
      PROVE  FlowInv'
  <2>1. disturbances' \in 0..MaxDisturbances
    BY <1>7, DisturbanceTypes DEF ClosePalletFromList, PossibleDisturbances
  <2> QED
    BY <1>7, <2>1, SendKeeps DEF ClosePalletFromList, Kinds
<1> QED
  BY <1>1, <1>2, <1>3, <1>4, <1>5, <1>6, <1>7

LEMMA HandlersKeep ==
  ASSUME FlowInv, TypeOK', NEW s \in Slots,
         AfterRegister(s) \/ AfterConfirm(s) \/ AfterClose(s) \/ AfterError(s) \/ LoseResponse(s)
  PROVE  FlowInv'
<1>1. call[s] # NoCall
  BY DEF AfterRegister, AfterConfirm, AfterClose, AfterError, LoseResponse
<1>2. disturbances' \in 0..MaxDisturbances
  BY DisturbanceTypes
     DEF AfterRegister, AfterConfirm, AfterClose, AfterError, LoseResponse, PossibleDisturbances
<1>3. /\ CallTypes' /\ CallsMakeSense' /\ LockInv' /\ submitting' \in BOOLEAN
      /\ onPage' = onPage \/ onPage' = FALSE
      /\ started' = started /\ abandoned' = abandoned
  <2>1. Done(s) \/ DoneOnPrintPage(s)
    BY DEF AfterRegister, AfterConfirm, AfterClose, AfterError, LoseResponse
  <2> QED
    BY <1>1, <2>1, DoneKeeps, DoneOnPrintPageKeeps
<1>4. CASE AfterRegister(s)
  <2>1. call[s].pallet \in PalletNumbers
    BY <1>4 DEF AfterRegister, FlowInv, CallsMakeSense
  <2>2. /\ pending' = call[s].pallet
        /\ \/ step' = "confirm" /\ suggested' = call[s].pallet
           \/ step' = step /\ suggested' = suggested
    BY <1>4 DEF AfterRegister
  <2>3. ConfirmStepHasPallet' /\ pending' \in PalletNumbers \union {NoPallet}
        /\ suggested' \in PalletNumbers \union {NoPallet} /\ step' \in {"register", "confirm"}
    BY <1>3, <2>1, <2>2 DEF FlowInv, PageTypes, ConfirmStepHasPallet, PalletNumbers, NoPallet
  <2> QED
    BY <1>2, <1>3, <2>3 DEF FlowInv, PageTypes
<1>5. CASE AfterConfirm(s)
  <2>1. pending' = NoPallet /\ suggested' = suggested /\ step' \in {"register", step}
    BY <1>5 DEF AfterConfirm
  <2>2. pending' \in PalletNumbers \union {NoPallet}
        /\ suggested' \in PalletNumbers \union {NoPallet} /\ step' \in {"register", "confirm"}
    BY <2>1 DEF FlowInv, PageTypes
  <2>3. ConfirmStepHasPallet'
    BY <1>3, <2>1 DEF FlowInv, ConfirmStepHasPallet
  <2>4. PageTypes'
    BY <1>2, <1>3, <2>2 DEF FlowInv, PageTypes
  <2> QED
    BY <1>3, <2>3, <2>4 DEF FlowInv
<1>6. CASE AfterClose(s)
  <2>1. onPage' = FALSE
    BY <1>1, <1>6, DoneOnPrintPageKeeps DEF AfterClose
  <2>2. pending' \in {pending, NoPallet} /\ suggested' \in {suggested, NoPallet} /\ step' = step
    BY <1>6 DEF AfterClose
  <2> QED
    BY <1>2, <1>3, <2>1, <2>2 DEF FlowInv, PageTypes, ConfirmStepHasPallet
<1>7. CASE AfterError(s) \/ LoseResponse(s)
  <2>1. pending' = pending /\ suggested' = suggested /\ step' = step
    BY <1>7 DEF AfterError, LoseResponse
  <2>2. ConfirmStepHasPallet'
    BY <1>3, <2>1 DEF FlowInv, ConfirmStepHasPallet
  <2>3. PageTypes'
    BY <1>2, <1>3, <2>1 DEF FlowInv, PageTypes
  <2> QED
    BY <1>3, <2>2, <2>3 DEF FlowInv
<1> QED
  BY <1>4, <1>5, <1>6, <1>7

LEMMA NextFlowInv == FlowInv /\ [FlowNext]_allVars => FlowInv'
<1> SUFFICES ASSUME FlowInv, [FlowNext]_allVars PROVE FlowInv'
  OBVIOUS
<1>1. TypeOK'
  BY FlowStepsStore, NextTypeOK DEF FlowInv
<1>2. ASSUME NEW s \in Slots, ServeRegister(s)
      PROVE  FlowInv'
  <2>1. PICK n \in PalletNumbers, created \in BOOLEAN : Reply(s, "success", n, created)
    BY <1>2 DEF ServeRegister
  <2> QED
    BY <1>1, <1>2, <2>1, ReplyKeeps DEF ServeRegister
<1>3. ASSUME NEW s \in Slots, ServeConfirm(s)
      PROVE  FlowInv'
  <2>1. PICK outcome \in {"success", "error"} : Reply(s, outcome, call[s].pallet, FALSE)
    BY <1>3 DEF ServeConfirm
  <2>2. call[s].pallet \in PalletNumbers \union {NoPallet, Unreadable}
    BY <1>3 DEF ServeConfirm, FlowInv, CallsMakeSense, Call
  <2> QED
    BY <1>1, <1>3, <2>1, <2>2, ReplyKeeps DEF ServeConfirm
<1>4. ASSUME NEW s \in Slots, ServeClose(s)
      PROVE  FlowInv'
  <2>1. call[s].pallet \in PalletNumbers
    BY <1>4 DEF ServeClose, FlowInv, CallsMakeSense
  <2> QED
    BY <1>1, <1>4, <2>1, ReplyKeeps DEF ServeClose
<1>5. CASE OtherStation
  <2>1. UNCHANGED <<onPage, step, suggested, submitting, started, pending, call, abandoned>>
    BY <1>5 DEF OtherStation, pageVars
  <2>2. disturbances' \in 0..MaxDisturbances
    BY <1>5, DisturbanceTypes DEF OtherStation, PossibleDisturbances
  <2> QED
    BY <1>1, <2>1, <2>2
       DEF FlowInv, PageTypes, CallTypes, CallsMakeSense, LockInv, Mine, ConfirmStepHasPallet
<1>6. CASE UNCHANGED allVars
  BY <1>1, <1>6
     DEF allVars, flowVars, pageVars, FlowInv, PageTypes, CallTypes, CallsMakeSense, LockInv, Mine,
         ConfirmStepHasPallet
<1> QED
  BY <1>1, <1>2, <1>3, <1>4, <1>5, <1>6, OperatorKeeps, HandlersKeep DEF FlowNext

LEMMA FlowInvCorrect == FlowSpec => []FlowInv
BY InitFlowInv, NextFlowInv, PTL DEF FlowSpec

-----------------------------------------------------------------------------
(* A calm shift.  Between its requests page, storage and tables agree; while *)
(* one is under way they differ by what its handler has still to do.  So the *)
(* invariant speaks of the one request that a calm shift has under way.      *)

\* A request of the given kind has succeeded and its handler has not run yet.
Answered(kind) == \E s \in Waiting : call[s].kind = kind /\ call[s].outcome = "success"

\* A colli is on its way: registered and not confirmed yet.
ColliUnderWay == Answered("register") \/ (pending # NoPallet /\ ~Answered("confirm"))

\* What the page had to be like for a request to be sent, which it stays until
\* the answer is there.
SentInStep(s) ==
  /\ onPage /\ call[s].mine
  /\ call[s].kind = "register" => started /\ step = "register"
  /\ call[s].kind = "confirm" => step = "confirm"
  /\ call[s].kind = "close listed" /\ call[s].awaited => step = "register"
  /\ call[s].kind = "register" /\ call[s].outcome = "success" => UnconfirmedOn(call[s].pallet) # {}

ColliCounted == UnconfirmedColli = IF ColliUnderWay THEN abandoned + 1 ELSE abandoned

CalmInv ==
  disturbances = 0 =>
    /\ \A s \in Waiting : SentInStep(s)
    /\ ColliCounted
    /\ pending # NoPallet => started
    /\ pending # NoPallet /\ ~Answered("confirm") => UnconfirmedOn(pending) # {}
    /\ onPage => /\ step = "confirm" <=> pending # NoPallet
                 /\ step = "confirm" => suggested = pending

ShiftInv == FlowInv /\ ConfirmedWithinQuantity /\ CalmInv

\* Colli of one entry that are left to confirm.
LeftToConfirm == [i \in 1..Len(entries) |-> entries[i].qty - entries[i].confirmed]

LEMMA LeftTypes ==
  ASSUME TypeOK, ConfirmedWithinQuantity
  PROVE  /\ Len(entries) \in Nat /\ IsFiniteSet(1..Len(entries))
         /\ \A i \in 1..Len(entries) : /\ LeftToConfirm[i] = entries[i].qty - entries[i].confirmed
                                       /\ LeftToConfirm[i] \in Nat
         /\ UnconfirmedColli = SumFunctionOnSet(LeftToConfirm, 1..Len(entries))
         /\ UnconfirmedColli \in Nat
<1>1. Len(entries) \in Nat /\ IsFiniteSet(1..Len(entries))
  BY FS_Interval DEF TypeOK
<1>2. \A i \in 1..Len(entries) : entries[i].qty \in Nat /\ entries[i].confirmed \in Nat
  <2>1. \A i \in 1..Len(entries) : entries[i] \in Entry
    BY DEF TypeOK
  <2>2. \A e \in Entry : e.qty \in Nat /\ e.confirmed \in Nat
    BY QuantitiesAssumption DEF Entry
  <2> QED
    BY <2>1, <2>2
<1>3. \A i \in 1..Len(entries) : /\ LeftToConfirm[i] = entries[i].qty - entries[i].confirmed
                                 /\ LeftToConfirm[i] \in Nat
  BY <1>2 DEF LeftToConfirm, ConfirmedWithinQuantity
<1>4. UnconfirmedColli = SumFunctionOnSet(LeftToConfirm, 1..Len(entries))
  BY DEF UnconfirmedColli, LeftToConfirm
<1> QED
  BY <1>1, <1>3, <1>4, SumIsNat

LEMMA ConfirmingTakesOne ==
  ASSUME TypeOK, TypeOK', ConfirmedWithinQuantity, ConfirmedWithinQuantity',
         NEW n, ConfirmLatestUnconfirmed(n)
  PROVE  UnconfirmedColli \in Nat /\ UnconfirmedColli' = UnconfirmedColli - 1
<1> DEFINE L == Len(entries)
           S == 1..L
<1>1. PICK k \in S : IsLatestUnconfirmed(k, n) /\ entries' = [entries EXCEPT ![k] = Marked(@)]
  BY DEF ConfirmLatestUnconfirmed
<1>2. /\ Len(entries') = L /\ entries'[k] = Marked(entries[k])
      /\ \A i \in S \ {k} : entries'[i] = entries[i]
  BY <1>1 DEF TypeOK
<1>3. /\ IsFiniteSet(S)
      /\ \A i \in S : LeftToConfirm[i] = entries[i].qty - entries[i].confirmed /\ LeftToConfirm[i] \in Nat
      /\ UnconfirmedColli = SumFunctionOnSet(LeftToConfirm, S) /\ UnconfirmedColli \in Nat
  BY LeftTypes
<1>4. /\ \A i \in S : LeftToConfirm'[i] = entries'[i].qty - entries'[i].confirmed
      /\ UnconfirmedColli' = SumFunctionOnSet(LeftToConfirm', S)
  BY <1>2 DEF UnconfirmedColli, LeftToConfirm
<1>5. /\ entries[k].qty \in Nat /\ entries[k].confirmed \in Nat
      /\ Marked(entries[k]).confirmed = entries[k].confirmed + 1 /\ Marked(entries[k]).qty = entries[k].qty
  <2>1. entries[k] \in Entry /\ entries[k].confirmed < entries[k].qty
    BY <1>1 DEF IsLatestUnconfirmed, TypeOK
  <2> QED
    BY <2>1, QuantitiesAssumption DEF Marked, Entry
<1>6. /\ LeftToConfirm'[k] = LeftToConfirm[k] - 1 /\ LeftToConfirm'[k] \in Nat
      /\ \A i \in S \ {k} : LeftToConfirm[i] = LeftToConfirm'[i]
  <2>1. entries[k].confirmed < entries[k].qty
    BY <1>1 DEF IsLatestUnconfirmed
  <2> QED
    BY <1>1, <1>2, <1>3, <1>4, <1>5, <2>1
<1>7. /\ LeftToConfirm[k] \in Nat
      /\ SumFunctionOnSet(LeftToConfirm', S) = SumFunctionOnSet(LeftToConfirm, S) - LeftToConfirm[k] + LeftToConfirm'[k]
  <2>1. \A i \in S : LeftToConfirm[i] \in Nat /\ LeftToConfirm'[i] \in Nat
    BY <1>3, <1>6
  <2>2. k \in S
    BY <1>1
  <2> HIDE DEF S
  <2>3. \A x \in S : (\A i \in S \ {x} : LeftToConfirm[i] = LeftToConfirm'[i])
           => SumFunctionOnSet(LeftToConfirm', S) = SumFunctionOnSet(LeftToConfirm, S) - LeftToConfirm[x] + LeftToConfirm'[x]
    BY <1>3, <2>1, SumChanges
  <2> QED
    BY <1>6, <2>1, <2>2, <2>3
<1> HIDE DEF S, L
<1> QED
  BY <1>3, <1>4, <1>6, <1>7

LEMMA RegisteringAddsOne ==
  ASSUME TypeOK, TypeOK', ConfirmedWithinQuantity, ConfirmedWithinQuantity',
         NEW n \in PalletNumbers, NEW v \in Variants, NEW c \in BOOLEAN, PutColli(n, v, Colli, c)
  PROVE  UnconfirmedColli \in Nat /\ UnconfirmedColli' = UnconfirmedColli + 1 /\ UnconfirmedOn(n)' # {}
<1> DEFINE e == [variant |-> v, qty |-> Colli, pallet |-> n, created |-> c, confirmed |-> 0, moved |-> FALSE]
<1>0. PICK L \in Nat : L = Len(entries)
  BY LeftTypes
<1>1. entries' = Append(entries, e) /\ e.confirmed = 0 /\ e.qty = 1 /\ e.pallet = n
  BY DEF PutColli, Colli
<1> HIDE DEF e
<1>2. Len(entries') = L + 1 /\ entries'[L + 1] = e /\ \A i \in 1..L : entries'[i] = entries[i]
  BY <1>0, <1>1 DEF TypeOK
<1>3. /\ IsFiniteSet(1..L)
      /\ \A i \in 1..L : LeftToConfirm[i] = entries[i].qty - entries[i].confirmed /\ LeftToConfirm[i] \in Nat
      /\ UnconfirmedColli = SumFunctionOnSet(LeftToConfirm, 1..L) /\ UnconfirmedColli \in Nat
  BY <1>0, LeftTypes
<1>4. \A i \in 1..(L + 1) : LeftToConfirm'[i] = entries'[i].qty - entries'[i].confirmed
  BY <1>2 DEF LeftToConfirm
<1>5. LeftToConfirm'[L + 1] = 1 /\ \A i \in 1..L : LeftToConfirm'[i] = LeftToConfirm[i]
  BY <1>1, <1>2, <1>3, <1>4
<1>6. SumFunctionOnSet(LeftToConfirm', 1..L) = SumFunctionOnSet(LeftToConfirm, 1..L)
  BY <1>3, <1>5, SumCongruence
<1>7. 1..(L + 1) = (1..L) \union {L + 1} /\ L + 1 \notin 1..L
  OBVIOUS
<1>8. SumFunctionOnSet(LeftToConfirm', (1..L) \union {L + 1}) = LeftToConfirm'[L + 1] + SumFunctionOnSet(LeftToConfirm', 1..L)
  <2>1. \A i \in (1..L) \union {L + 1} : LeftToConfirm'[i] \in Nat
    BY <1>3, <1>5
  <2> DEFINE S == 1..L
  <2> HIDE DEF S
  <2>2. \A x : x \notin S /\ (\A i \in S \union {x} : LeftToConfirm'[i] \in Nat)
          => SumFunctionOnSet(LeftToConfirm', S \union {x}) = LeftToConfirm'[x] + SumFunctionOnSet(LeftToConfirm', S)
    BY <1>3, SumAdds DEF S
  <2> QED
    BY <1>7, <2>1, <2>2 DEF S
<1>9. UnconfirmedColli' = SumFunctionOnSet(LeftToConfirm', 1..(L + 1))
  BY <1>2 DEF UnconfirmedColli, LeftToConfirm
<1>10. UnconfirmedColli' = 1 + UnconfirmedColli
  BY <1>3, <1>5, <1>6, <1>7, <1>8, <1>9
<1>11. L + 1 \in UnconfirmedOn(n)'
  BY <1>1, <1>2 DEF UnconfirmedOn, EntriesOf
<1> QED
  BY <1>3, <1>10, <1>11

\* In a calm shift at most one request is under way, and it is the page's own.
LEMMA CalmFacts ==
  ASSUME ShiftInv, disturbances = 0
  PROVE  /\ \A s \in Waiting : SentInStep(s) /\ call[s] \in Call
         /\ \A s, t \in Waiting : s = t
         /\ ~submitting \/ ~onPage => Waiting = {}
         /\ ColliCounted
         /\ pending # NoPallet => started
         /\ pending # NoPallet /\ ~Answered("confirm") => UnconfirmedOn(pending) # {}
         /\ onPage => /\ step = "confirm" <=> pending # NoPallet
                      /\ step = "confirm" => suggested = pending
<1>1. \A s \in Waiting : SentInStep(s) /\ call[s] \in Call
  BY DEF ShiftInv, CalmInv, FlowInv, CallsMakeSense, Waiting
<1>2. \A s \in Waiting : onPage /\ Mine(s)
  BY <1>1 DEF SentInStep, Mine, Waiting
<1>3. /\ \A s, t \in Waiting : s = t
      /\ ~submitting \/ ~onPage => Waiting = {}
  BY <1>2 DEF ShiftInv, FlowInv, LockInv, Waiting
<1> QED
  BY <1>1, <1>3 DEF ShiftInv, CalmInv

\* With one request under way, only it can be answered.
LEMMA OneAnswered ==
  ASSUME NEW s \in Waiting, \A t \in Waiting : t = s, NEW kind
  PROVE  Answered(kind) <=> call[s].kind = kind /\ call[s].outcome = "success"
BY DEF Answered

LEMMA CallEnds ==
  ASSUME ShiftInv, disturbances = 0, NEW s \in Waiting, Done(s) \/ DoneOnPrintPage(s)
  PROVE  Waiting' = {} /\ \A kind : ~Answered(kind)'
<1>1. \A t \in Slots \ {s} : call[t] = NoCall
  BY CalmFacts DEF Waiting
<1>2. \A t \in Slots : call'[t] = NoCall
  <2>1. CASE Done(s)
    BY <1>1, <2>1 DEF Done, Waiting, ShiftInv, FlowInv, CallTypes
  <2>2. CASE DoneOnPrintPage(s)
    BY <1>1, <2>2 DEF DoneOnPrintPage, Waiting
  <2> QED
    BY <2>1, <2>2
<1>3. Waiting' = {}
  BY <1>2 DEF Waiting
<1> QED
  BY <1>3 DEF Answered

LEMMA SendCalm ==
  ASSUME ShiftInv, disturbances = 0, NEW s \in Slots, NEW kind \in Kinds, NEW n, NEW v, NEW awaited,
         kind = "register" => started /\ step = "register",
         kind = "confirm" => step = "confirm",
         kind = "close listed" /\ awaited => step = "register",
         Send(s, kind, n, v, awaited)
  PROVE  CalmInv'
<1> DEFINE c == [kind |-> kind, pallet |-> n, variant |-> v, awaited |-> awaited,
                 mine |-> TRUE, outcome |-> "sent", created |-> FALSE]
<1>1. /\ onPage /\ ~submitting /\ call' = [call EXCEPT ![s] = c]
      /\ UNCHANGED <<vars, onPage, started, pending, step, suggested, abandoned>>
  BY DEF Send
<1>2. c.kind = kind /\ c.mine /\ c.outcome = "sent" /\ c.awaited = awaited
  OBVIOUS
<1> HIDE DEF c
<1>3. Waiting = {} /\ \A k : ~Answered(k)
  BY <1>1, CalmFacts DEF Answered
<1>4. call'[s] = c /\ \A t \in Slots \ {s} : call'[t] = NoCall
  BY <1>1, <1>3 DEF Waiting, ShiftInv, FlowInv, CallTypes
<1>5. \A t \in Waiting' : t = s
  BY <1>4 DEF Waiting
<1>6. \A k : ~Answered(k)'
  BY <1>2, <1>4, <1>5 DEF Answered
<1>7. ColliUnderWay' <=> ColliUnderWay
  BY <1>1, <1>3, <1>6 DEF ColliUnderWay
<1>8. UnconfirmedColli' = UnconfirmedColli /\ UnconfirmedOn(pending)' = UnconfirmedOn(pending)
  BY <1>1 DEF vars, UnconfirmedColli, UnconfirmedOn, EntriesOf
<1>9. ColliCounted'
  BY <1>1, <1>7, <1>8, CalmFacts DEF ColliCounted
<1>10. \A t \in Waiting' : SentInStep(t)'
  BY <1>1, <1>2, <1>4, <1>5 DEF SentInStep, Kinds
<1> QED
  BY <1>1, <1>3, <1>8, <1>9, <1>10, CalmFacts DEF CalmInv

LEMMA OperatorCalm ==
  ASSUME ShiftInv, disturbances = 0, disturbances' = 0,
         \/ StartNewSorting \/ FinishSorting \/ Leave \/ Return
         \/ \E s \in Slots :
              \/ \E v \in Variants : RegisterOneColli(s, v)
              \/ \E code \in PalletNumbers \union {Blank, Unreadable} : ConfirmMove(s, code)
              \/ CloseCurrentPallet(s)
              \/ \E n \in PalletNumbers : ClosePalletFromList(s, n)
  PROVE  CalmInv'
<1>0. \A kind : ~Disturbing(kind)
  BY DEF Disturbing
<1>1. CASE StartNewSorting
  <2>1. /\ onPage /\ ~started /\ pending' = NoPallet /\ step' = "register" /\ onPage' = onPage
        /\ UNCHANGED <<vars, call, abandoned>> /\ started' = TRUE
    BY <1>1 DEF StartNewSorting
  <2>2. pending = NoPallet /\ step = "register"
    BY <2>1, CalmFacts DEF ShiftInv, FlowInv, PageTypes
  <2>3. /\ Waiting' = Waiting /\ \A k : Answered(k)' <=> Answered(k)
    BY <2>1 DEF Waiting, Answered
  <2>4. UnconfirmedColli' = UnconfirmedColli /\ \A n : UnconfirmedOn(n)' = UnconfirmedOn(n)
    BY <2>1 DEF vars, UnconfirmedColli, UnconfirmedOn, EntriesOf
  <2>5. ColliCounted'
    BY <2>1, <2>2, <2>3, <2>4, CalmFacts DEF ColliCounted, ColliUnderWay
  <2>6. \A t \in Waiting' : SentInStep(t)'
    BY <2>1, <2>2, <2>3, <2>4, CalmFacts DEF SentInStep
  <2> QED
    BY <2>1, <2>2, <2>5, <2>6 DEF CalmInv
<1>2. CASE FinishSorting
  <2>1. /\ onPage /\ ~submitting /\ pending' = NoPallet /\ step' = "register" /\ onPage' = onPage
        /\ UNCHANGED <<vars, call>>
        /\ abandoned' = IF step = "confirm" THEN abandoned + 1 ELSE abandoned
    BY <1>2 DEF FinishSorting
  <2>2. Waiting = {} /\ Waiting' = {} /\ \A k : ~Answered(k) /\ ~Answered(k)'
    BY <2>1, CalmFacts DEF Waiting, Answered
  <2>3. ColliUnderWay <=> step = "confirm"
    BY <2>1, <2>2, CalmFacts DEF ColliUnderWay
  <2>4. ~ColliUnderWay'
    BY <2>1, <2>2 DEF ColliUnderWay
  <2>5. UnconfirmedColli' = UnconfirmedColli
    BY <2>1 DEF vars, UnconfirmedColli
  <2>6. ColliCounted'
    BY <2>1, <2>3, <2>4, <2>5, CalmFacts DEF ColliCounted
  <2> QED
    BY <2>1, <2>2, <2>6 DEF CalmInv
<1>3. CASE Leave \/ Return
  <2>1. Waiting = {} /\ UNCHANGED <<vars, pending, started, abandoned>>
    BY <1>0, <1>3, CalmFacts DEF Leave, Return
  <2>2. Waiting' = {}
    BY <1>3, <2>1 DEF Leave, Return, Waiting
  <2>3. \A k : ~Answered(k) /\ ~Answered(k)'
    BY <2>1, <2>2 DEF Answered
  <2>4. UnconfirmedColli' = UnconfirmedColli /\ UnconfirmedOn(pending)' = UnconfirmedOn(pending)
    BY <2>1 DEF vars, UnconfirmedColli, UnconfirmedOn, EntriesOf
  <2>5. ColliCounted'
    BY <2>1, <2>3, <2>4, CalmFacts DEF ColliCounted, ColliUnderWay
  <2>6. onPage' => /\ step' = "confirm" <=> pending' # NoPallet
                   /\ step' = "confirm" => suggested' = pending'
    BY <1>3, <2>1 DEF Leave, Return
  <2> QED
    BY <2>1, <2>2, <2>3, <2>4, <2>5, <2>6, CalmFacts DEF CalmInv
<1>4. ASSUME NEW s \in Slots, NEW v \in Variants, RegisterOneColli(s, v)
      PROVE  CalmInv'
  <2>1. Send(s, "register", NoPallet, v, FALSE) /\ started /\ step = "register" /\ "register" \in Kinds
    BY <1>4 DEF RegisterOneColli, Kinds
  <2> QED
    BY <2>1, SendCalm
<1>5. ASSUME NEW s \in Slots, NEW code \in PalletNumbers \union {Blank, Unreadable}, ConfirmMove(s, code)
      PROVE  CalmInv'
  <2>1. /\ \E n : Send(s, "confirm", n, NoVariant, FALSE)
        /\ step = "confirm" /\ "confirm" \in Kinds
    BY <1>5 DEF ConfirmMove, Kinds
  <2> QED
    BY <2>1, SendCalm
<1>6. ASSUME NEW s \in Slots, CloseCurrentPallet(s)
      PROVE  CalmInv'
  <2>1. Send(s, "close current", suggested, NoVariant, TRUE) /\ "close current" \in Kinds
    BY <1>6 DEF CloseCurrentPallet, Kinds
  <2> QED
    BY <2>1, SendCalm
<1>7. ASSUME NEW s \in Slots, NEW n \in PalletNumbers, ClosePalletFromList(s, n)
      PROVE  CalmInv'
  <2>1. Send(s, "close listed", n, NoVariant, n = suggested) /\ "close listed" \in Kinds
    BY <1>7 DEF ClosePalletFromList, Kinds
  <2>2. n = suggested => step = "register"
    BY <1>0, <1>7 DEF ClosePalletFromList, ShiftInv, FlowInv, PageTypes
  <2> QED
    BY <2>1, <2>2, SendCalm
<1> QED
  BY <1>1, <1>2, <1>3, <1>4, <1>5, <1>6, <1>7

\* The answer to the one request under way.
LEMMA ReplyCalm ==
  ASSUME ShiftInv, disturbances = 0, NEW s \in Waiting, NEW outcome \in {"success", "error"}, NEW n, NEW created,
         Reply(s, outcome, n, created)
  PROVE  /\ call'[s].kind = call[s].kind /\ call'[s].mine = call[s].mine
         /\ call'[s].awaited = call[s].awaited /\ call'[s].outcome = outcome /\ call'[s].pallet = n
         /\ Waiting' = {s}
         /\ \A k : Answered(k)' <=> call[s].kind = k /\ outcome = "success"
<1>1. call[s] \in Call /\ s \in Slots /\ call \in [Slots -> Call \union {NoCall}]
  BY CalmFacts DEF Waiting, ShiftInv, FlowInv, CallTypes
<1>2. /\ call'[s] = [call[s] EXCEPT !.outcome = outcome, !.pallet = n, !.created = created]
      /\ \A t \in Slots \ {s} : call'[t] = call[t]
  BY <1>1 DEF Reply
<1>3. /\ call'[s].kind = call[s].kind /\ call'[s].mine = call[s].mine
      /\ call'[s].awaited = call[s].awaited /\ call'[s].outcome = outcome /\ call'[s].pallet = n
  BY <1>1, <1>2 DEF Call
<1>4. call'[s] # NoCall
  <2>1. call[s].kind # "none"
    BY <1>1 DEF Call, Kinds
  <2> QED
    BY <1>3, <2>1 DEF NoCall
<1>5. Waiting' = {s}
  <2>1. \A t \in Slots \ {s} : call[t] = NoCall
    BY CalmFacts DEF Waiting
  <2> QED
    BY <1>1, <1>2, <1>4, <2>1 DEF Waiting
<1> QED
  BY <1>3, <1>5 DEF Answered

LEMMA ServerCalm ==
  ASSUME ShiftInv, TypeOK', ConfirmedWithinQuantity', disturbances = 0, NEW s \in Slots,
         ServeRegister(s) \/ ServeConfirm(s) \/ ServeClose(s)
  PROVE  CalmInv'
<1>1. s \in Waiting /\ call[s].outcome = "sent" /\ TypeOK /\ ConfirmedWithinQuantity
  BY DEF ServeRegister, ServeConfirm, ServeClose, Waiting, ShiftInv, FlowInv
<1>2. \A k : ~Answered(k)
  BY <1>1, CalmFacts, OneAnswered
<1>3. ASSUME NEW outcome, NEW n, NEW created, Reply(s, outcome, n, created)
      PROVE  UNCHANGED <<onPage, step, suggested, started, pending, abandoned>>
  BY <1>3 DEF Reply, pageVars
<1>4. CASE ServeRegister(s)
  <2>1. PICK n \in PalletNumbers, created \in BOOLEAN :
          PutColli(n, call[s].variant, Colli, created) /\ Reply(s, "success", n, created)
    BY <1>4 DEF ServeRegister, RegisterOnExisting, RegisterOnNew
  <2>2. call[s].kind = "register" /\ call[s].variant \in Variants
    BY <1>1, <1>4 DEF ServeRegister, ShiftInv, FlowInv, CallsMakeSense, Waiting
  <2>3. UnconfirmedColli \in Nat /\ UnconfirmedColli' = UnconfirmedColli + 1 /\ UnconfirmedOn(n)' # {}
    BY <1>1, <2>1, <2>2, RegisteringAddsOne
  <2>4. /\ call'[s].kind = "register" /\ call'[s].mine = call[s].mine /\ call'[s].pallet = n
        /\ Waiting' = {s} /\ Answered("register")' /\ ~Answered("confirm")'
    BY <1>1, <2>1, <2>2, ReplyCalm
  <2>5. onPage /\ call[s].mine /\ started /\ step = "register" /\ pending = NoPallet
    BY <1>1, <2>2, CalmFacts DEF SentInStep, ShiftInv, FlowInv, PageTypes
  <2>6. ~ColliUnderWay /\ ColliUnderWay'
    BY <1>2, <2>4, <2>5 DEF ColliUnderWay
  <2>7. UNCHANGED <<onPage, step, suggested, started, pending, abandoned>>
    BY <1>3, <2>1
  <2>8. ColliCounted'
    BY <2>3, <2>6, <2>7, CalmFacts DEF ColliCounted
  <2>9. SentInStep(s)'
    BY <2>3, <2>4, <2>5, <2>7 DEF SentInStep
  <2> QED
    BY <2>4, <2>5, <2>7, <2>8, <2>9 DEF CalmInv
<1>5. CASE ServeConfirm(s)
  <2>1. call[s].kind = "confirm" /\ onPage /\ call[s].mine /\ step = "confirm" /\ pending # NoPallet
    BY <1>1, <1>5, CalmFacts DEF ServeConfirm, SentInStep
  <2>2. ColliUnderWay
    BY <1>2, <2>1 DEF ColliUnderWay
  <2>3. CASE ConfirmLatestUnconfirmed(call[s].pallet) /\ Reply(s, "success", call[s].pallet, FALSE)
    <3>1. UnconfirmedColli \in Nat /\ UnconfirmedColli' = UnconfirmedColli - 1
      BY <1>1, <2>3, ConfirmingTakesOne
    <3>2. /\ call'[s].kind = "confirm" /\ call'[s].mine = call[s].mine
          /\ Waiting' = {s} /\ Answered("confirm")' /\ ~Answered("register")'
      <4>1. /\ call'[s].kind = "confirm" /\ call'[s].mine = call[s].mine /\ Waiting' = {s}
            /\ call'[s].outcome = "success"
        BY <1>1, <2>1, <2>3, ReplyCalm
      <4> QED
        BY <4>1 DEF Answered
    <3>3. UNCHANGED <<onPage, step, suggested, started, pending, abandoned>>
      BY <1>3, <2>3
    <3>4. ~ColliUnderWay'
      BY <3>2 DEF ColliUnderWay
    <3>5. ColliCounted'
      <4>1. abandoned \in Nat
        BY DEF ShiftInv, FlowInv, PageTypes
      <4> QED
        BY <2>2, <3>1, <3>3, <3>4, <4>1, CalmFacts DEF ColliCounted
    <3>6. SentInStep(s)'
      BY <2>1, <3>2, <3>3 DEF SentInStep
    <3> QED
      BY <3>2, <3>3, <3>5, <3>6, CalmFacts DEF CalmInv
  <2>4. CASE UNCHANGED vars /\ Reply(s, "error", call[s].pallet, FALSE)
    <3>1. /\ call'[s].kind = "confirm" /\ call'[s].mine = call[s].mine
          /\ Waiting' = {s} /\ \A k : ~Answered(k)'
      BY <1>1, <2>1, <2>4, ReplyCalm
    <3>2. UNCHANGED <<onPage, step, suggested, started, pending, abandoned>>
      BY <1>3, <2>4
    <3>3. UnconfirmedColli' = UnconfirmedColli /\ UnconfirmedOn(pending)' = UnconfirmedOn(pending)
      BY <2>4, <3>2 DEF vars, UnconfirmedColli, UnconfirmedOn, EntriesOf
    <3>4. ColliCounted'
      BY <1>2, <3>1, <3>2, <3>3, CalmFacts DEF ColliCounted, ColliUnderWay
    <3>5. SentInStep(s)'
      BY <2>1, <3>1, <3>2 DEF SentInStep
    <3> QED
      BY <1>2, <3>1, <3>2, <3>3, <3>4, <3>5, CalmFacts DEF CalmInv
  <2> QED
    BY <1>5, <2>3, <2>4 DEF ServeConfirm
<1>6. CASE ServeClose(s)
  <2>1. /\ call[s].kind \in {"close current", "close listed"} /\ Reply(s, "success", call[s].pallet, FALSE)
        /\ entries' = entries
    BY <1>6 DEF ServeClose, ClosePallet
  <2>2. /\ call'[s].kind = call[s].kind /\ call'[s].mine = call[s].mine /\ call'[s].awaited = call[s].awaited
        /\ Waiting' = {s}
    BY <1>1, <2>1, ReplyCalm
  <2>6. ~Answered("register")' /\ ~Answered("confirm")'
    BY <2>1, <2>2 DEF Answered
  <2>3. UNCHANGED <<onPage, step, suggested, started, pending, abandoned>>
    BY <1>3, <2>1
  <2>4. UnconfirmedColli' = UnconfirmedColli /\ UnconfirmedOn(pending)' = UnconfirmedOn(pending)
    BY <2>1, <2>3 DEF UnconfirmedColli, UnconfirmedOn, EntriesOf
  <2>5. ColliCounted'
    BY <1>2, <2>3, <2>4, <2>6, CalmFacts DEF ColliCounted, ColliUnderWay
  <2>7. SentInStep(s)'
    BY <1>1, <2>1, <2>2, <2>3, CalmFacts DEF SentInStep
  <2> QED
    BY <1>2, <2>2, <2>3, <2>4, <2>5, <2>6, <2>7, CalmFacts DEF CalmInv
<1> QED
  BY <1>4, <1>5, <1>6

LEMMA HandlersCalm ==
  ASSUME ShiftInv, disturbances = 0, disturbances' = 0, NEW s \in Slots,
         AfterRegister(s) \/ AfterConfirm(s) \/ AfterClose(s) \/ AfterError(s) \/ LoseResponse(s)
  PROVE  CalmInv'
<1>1. s \in Waiting /\ (Done(s) \/ DoneOnPrintPage(s)) /\ ~LoseResponse(s)
  <2>1. ~LoseResponse(s)
    BY DEF LoseResponse, Disturbing
  <2>2. s \in Waiting
    BY <2>1 DEF AfterRegister, AfterConfirm, AfterClose, AfterError, Waiting
  <2> QED
    BY <2>1, <2>2 DEF AfterRegister, AfterConfirm, AfterClose, AfterError
<1>2. Waiting' = {} /\ \A k : ~Answered(k)'
  BY <1>1, CallEnds
<1>3. \A k : Answered(k) <=> call[s].kind = k /\ call[s].outcome = "success"
  BY <1>1, CalmFacts, OneAnswered
<1>4. /\ UNCHANGED <<vars, started, abandoned>> /\ (onPage' = onPage \/ onPage' = FALSE)
      /\ SentInStep(s)
  BY <1>1, CalmFacts DEF Done, DoneOnPrintPage
<1>5. UnconfirmedColli' = UnconfirmedColli /\ \A n : UnconfirmedOn(n)' = UnconfirmedOn(n)
  BY <1>4 DEF vars, UnconfirmedColli, UnconfirmedOn, EntriesOf
<1>6. CASE AfterRegister(s)
  <2>1. /\ call[s].kind = "register" /\ call[s].outcome = "success" /\ call[s].mine
        /\ pending' = call[s].pallet /\ step' = "confirm" /\ suggested' = call[s].pallet
    BY <1>4, <1>6 DEF AfterRegister, SentInStep
  <2>2. pending' # NoPallet /\ UnconfirmedOn(pending') # {} /\ started
    <3>1. call[s].pallet \in PalletNumbers
      BY <1>1, <2>1 DEF ShiftInv, FlowInv, CallsMakeSense, Waiting
    <3> QED
      BY <1>4, <2>1, <3>1 DEF SentInStep, PalletNumbers, NoPallet
  <2>3. ColliUnderWay /\ ColliUnderWay'
    BY <1>2, <1>3, <2>1, <2>2 DEF ColliUnderWay
  <2>4. ColliCounted'
    BY <1>4, <1>5, <2>3, CalmFacts DEF ColliCounted
  <2>5. UnconfirmedOn(pending)' # {}
    <3>1. UnconfirmedOn(pending)' = UnconfirmedOn(pending')
      BY <1>4 DEF vars, UnconfirmedOn, EntriesOf
    <3> QED
      BY <2>2, <3>1
  <2> QED
    BY <1>2, <1>4, <2>1, <2>2, <2>4, <2>5 DEF CalmInv
<1>7. CASE AfterConfirm(s)
  <2>1. /\ call[s].kind = "confirm" /\ call[s].outcome = "success" /\ call[s].mine
        /\ pending' = NoPallet /\ step' = "register"
    BY <1>4, <1>7 DEF AfterConfirm, SentInStep
  <2>2. ~ColliUnderWay /\ ~ColliUnderWay'
    BY <1>2, <1>3, <2>1 DEF ColliUnderWay
  <2>3. ColliCounted'
    BY <1>4, <1>5, <2>2, CalmFacts DEF ColliCounted
  <2> QED
    BY <1>2, <2>1, <2>3 DEF CalmInv
<1>8. CASE AfterClose(s)
  <2>1. call[s].kind \in {"close current", "close listed"} /\ onPage' = FALSE
    BY <1>8 DEF AfterClose, DoneOnPrintPage
  <2>2. pending' = pending
    <3>1. CASE call[s].kind = "close listed" /\ call[s].awaited
      BY <1>4, <1>8, <3>1, CalmFacts DEF AfterClose, SentInStep
    <3>2. CASE ~(call[s].kind = "close listed" /\ call[s].awaited)
      BY <1>8, <3>2 DEF AfterClose
    <3> QED
      BY <3>1, <3>2
  <2>3. ~Answered("register") /\ ~Answered("confirm")
    BY <1>3, <2>1
  <2>4. ColliCounted'
    BY <1>2, <1>4, <1>5, <2>2, <2>3, CalmFacts DEF ColliCounted, ColliUnderWay
  <2>5. UnconfirmedOn(pending)' = UnconfirmedOn(pending)
    BY <1>4, <2>2 DEF vars, UnconfirmedOn, EntriesOf
  <2> QED
    BY <1>2, <1>4, <2>1, <2>2, <2>3, <2>4, <2>5, CalmFacts DEF CalmInv
<1>9. CASE AfterError(s)
  <2>1. call[s].outcome = "error" /\ UNCHANGED <<pending, step, suggested>>
    BY <1>9 DEF AfterError
  <2>2. \A k : ~Answered(k)
    BY <1>3, <2>1
  <2>3. ColliCounted'
    BY <1>2, <1>4, <1>5, <2>1, <2>2, CalmFacts DEF ColliCounted, ColliUnderWay
  <2>4. UnconfirmedOn(pending)' = UnconfirmedOn(pending)
    BY <1>4, <2>1 DEF vars, UnconfirmedOn, EntriesOf
  <2> QED
    BY <1>2, <1>4, <2>1, <2>2, <2>3, <2>4, CalmFacts DEF CalmInv
<1> QED
  BY <1>1, <1>6, <1>7, <1>8, <1>9

LEMMA InitShiftInv == FlowInit => ShiftInv
<1> SUFFICES ASSUME FlowInit PROVE ShiftInv
  OBVIOUS
<1>1. Waiting = {} /\ \A k : ~Answered(k)
  BY DEF FlowInit, Waiting, Answered
<1>2. UnconfirmedColli = 0
  <2>1. 1..Len(entries) = {}
    BY DEF FlowInit, Init
  <2> QED
    BY <2>1, SumOfNothing DEF UnconfirmedColli
<1>3. ColliCounted
  BY <1>1, <1>2 DEF ColliCounted, ColliUnderWay, FlowInit
<1>4. CalmInv
  BY <1>1, <1>3 DEF FlowInit, CalmInv
<1> QED
  BY <1>4, InitFlowInv, InitConfirmed DEF ShiftInv, FlowInit

LEMMA NextShiftInv == ShiftInv /\ [FlowNext]_allVars => ShiftInv'
<1> SUFFICES ASSUME ShiftInv, [FlowNext]_allVars PROVE ShiftInv'
  OBVIOUS
<1>1. FlowInv /\ FlowInv' /\ TypeOK' /\ ConfirmedWithinQuantity'
  BY NextFlowInv, FlowStepsStore, NextConfirmed DEF ShiftInv, FlowInv
<1>2. ASSUME disturbances' = 0 PROVE CalmInv'
  <2>1. disturbances = 0
    <3>1. disturbances \in Nat
      BY FlowBoundsAssumption DEF ShiftInv, FlowInv, PageTypes
    <3>2. \A kind : Disturbing(kind) => disturbances' # 0
      BY <3>1 DEF Disturbing
    <3>3. disturbances' = disturbances \/ \E kind : Disturbing(kind)
      BY DEF FlowNext, StartNewSorting, FinishSorting, Leave, Return, RegisterOneColli, ConfirmMove,
             CloseCurrentPallet, ClosePalletFromList, ServeRegister, ServeConfirm, ServeClose, Reply,
             AfterRegister, AfterConfirm, AfterClose, AfterError, LoseResponse, OtherStation, Calm,
             allVars, flowVars
    <3> QED
      BY <1>2, <3>2, <3>3
  <2>2. ~OtherStation
    BY <1>2, <2>1 DEF OtherStation, Disturbing
  <2>3. CASE UNCHANGED allVars
    <3>1. /\ Waiting' = Waiting /\ \A k : Answered(k)' <=> Answered(k)
          /\ UnconfirmedColli' = UnconfirmedColli /\ \A n : UnconfirmedOn(n)' = UnconfirmedOn(n)
      BY <2>3 DEF allVars, flowVars, vars, Waiting, Answered, UnconfirmedColli, UnconfirmedOn, EntriesOf
    <3>2. UNCHANGED <<onPage, step, suggested, started, pending, abandoned, call>>
      BY <2>3 DEF allVars, flowVars, pageVars
    <3>3. \A s \in Waiting : SentInStep(s)'
      BY <2>1, <3>1, <3>2, CalmFacts DEF SentInStep
    <3>4. ColliCounted'
      BY <2>1, <3>1, <3>2, CalmFacts DEF ColliCounted, ColliUnderWay
    <3>5. UnconfirmedOn(pending)' = UnconfirmedOn(pending)
      BY <2>3, <3>2 DEF allVars, vars, UnconfirmedOn, EntriesOf
    <3> QED
      BY <2>1, <3>1, <3>2, <3>3, <3>4, <3>5, CalmFacts DEF CalmInv
  <2> QED
    BY <1>1, <1>2, <2>1, <2>2, <2>3, OperatorCalm, ServerCalm, HandlersCalm DEF FlowNext
<1> QED
  BY <1>1, <1>2 DEF ShiftInv, CalmInv

LEMMA ShiftInvCorrect == FlowSpec => []ShiftInv
BY InitShiftInv, NextShiftInv, PTL DEF FlowSpec

-----------------------------------------------------------------------------
(* The theorems.                                                            *)

\* Page, storage and requests keep their types.
THEOREM FlowTypesKept == FlowSpec => []FlowTypeOK
<1>1. FlowInv => FlowTypeOK
  BY DEF FlowInv, PageTypes, CallTypes, FlowTypeOK
<1> QED
  BY <1>1, FlowInvCorrect, PTL

\* Step 2 always names the pallet it asks for, however many requests of earlier
\* pages still run and whatever is lost.
THEOREM ConfirmStepKnowsItsPallet == FlowSpec => []ConfirmStepHasPallet
<1>1. FlowInv => ConfirmStepHasPallet
  BY DEF FlowInv
<1> QED
  BY <1>1, FlowInvCorrect, PTL

\* The page is locked exactly while one handler of its own waits, for any number
\* of requests under way.
THEOREM LockIsItsOwn == FlowSpec => []LockedWhileWaiting
<1>1. FlowInv => LockedWhileWaiting
  <2> SUFFICES ASSUME FlowInv, onPage
               PROVE  /\ submitting <=> \E s \in Waiting : call[s].mine
                      /\ Cardinality({s \in Waiting : call[s].mine}) <= 1
    BY DEF LockedWhileWaiting
  <2>1. submitting <=> \E s \in Waiting : call[s].mine
    BY DEF FlowInv, LockInv, Mine, Waiting
  <2> DEFINE M == {s \in Waiting : call[s].mine}
  <2>2. \A s, t \in M : s = t
    BY DEF FlowInv, LockInv, Mine, Waiting
  <2> HIDE DEF M
  <2>3. ASSUME M = {} PROVE Cardinality(M) <= 1
    <3>1. Cardinality(M) = 0
      BY <2>3, FS_EmptySet
    <3> QED
      BY <3>1
  <2>4. ASSUME M # {} PROVE Cardinality(M) <= 1
    <3>1. PICK s \in M : M = {s}
      BY <2>2, <2>4
    <3>2. Cardinality(M) = 1
      BY <3>1, FS_Singleton
    <3> QED
      BY <3>2
  <2>5. Cardinality(M) <= 1
    BY <2>3, <2>4
  <2> QED
    BY <2>1, <2>5 DEF M
<1> QED
  BY <1>1, FlowInvCorrect, PTL

\* In a shift that nothing disturbs, page, storage and tables agree between the
\* requests, for any number of products, pallets and abandoned sortings: one colli
\* at a time is under way, and the page is in the step that colli is in.
THEOREM CalmShiftAgrees == FlowSpec => []PageMatchesTables
<1>1. ShiftInv => PageMatchesTables
  <2> SUFFICES ASSUME ShiftInv, disturbances = 0, Waiting = {} PROVE OneColliAtATime /\ StepMatchesTables
    BY DEF PageMatchesTables
  <2>1. \A k : ~Answered(k)
    BY DEF Answered
  <2>2. ColliUnderWay <=> pending # NoPallet
    BY <2>1 DEF ColliUnderWay
  <2>3. abandoned \in Nat
    BY DEF ShiftInv, FlowInv, PageTypes
  <2>4. OneColliAtATime
    BY <2>2, <2>3, CalmFacts DEF OneColliAtATime, ColliCounted
  <2>5. StepMatchesTables
    BY <2>1, CalmFacts DEF StepMatchesTables
  <2> QED
    BY <2>4, <2>5
<1> QED
  BY <1>1, ShiftInvCorrect, PTL

\* With the page at work, with lost responses and other stations, the tables only
\* go through the repository's operations: what is proved of them holds here.
THEOREM FlowUsesTheStore == FlowSpec => Spec
<1>1. FlowInit => Init
  BY DEF FlowInit
<1> QED
  BY <1>1, FlowStepsStore, FlowInvCorrect, PTL DEF FlowSpec, Spec

\* Seen from the bookings, too: the ledger the overview page is modelled on is
\* what the server keeps while the sorting page works on it.
THEOREM FlowImplementsLedger == FlowSpec => ImplementsLedger
BY FlowUsesTheStore, TablesImplementLedger, PTL
=============================================================================

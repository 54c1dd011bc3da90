------------------------ MODULE ConfirmServiceProofs ------------------------
(***************************************************************************)
(* What a batch keeps whatever other requests do between its scans, for    *)
(* any number of requests, scans and pallets; that the counters account    *)
(* for every scan; and that the service changes the tables by the          *)
(* repository's operations only.                                           *)
(***************************************************************************)
EXTENDS ConfirmService, WarehouseStoreProofs

\* A request under way has scans left and nothing to complain of yet; only its
\* first scan is with the guard.  A duplicate is found before the first colli.
BatchInv ==
  \A r \in Requests :
    /\ req[r].pc # "idle" => req[r].confirmed < req[r].count /\ req[r].reason = "none"
    /\ req[r].pc \in {"look up", "record"} => req[r].confirmed = 0
    /\ req[r].reason = "duplicate" => req[r].confirmed = 0 /\ req[r].verdict = "error"

ServiceInv == TypeOK /\ req \in [Requests -> Request] /\ BatchInv

-----------------------------------------------------------------------------
(* The tables.                                                              *)

LEMMA ServiceStepsStore ==
  ASSUME TypeOK, [ServiceNext]_allVars
  PROVE  [Next]_vars
<1>1. ASSUME NEW n, ConfirmLatestUnconfirmed(n)
      PROVE  Next
  <2>1. PICK i \in 1..Len(entries) : IsLatestUnconfirmed(i, n)
    BY <1>1 DEF ConfirmLatestUnconfirmed
  <2>2. entries[i] \in Entry
    BY DEF TypeOK
  <2>3. n \in PalletNumbers
    BY <2>1, <2>2 DEF IsLatestUnconfirmed, Entry
  <2> QED
    BY <1>1, <2>3 DEF Next
<1>2. ASSUME NEW r \in Requests, Serve(r) \/ CutOff(r)
      PROVE  [Next]_vars
  BY <1>1, <1>2 DEF Serve, CutOff, Scan, RejectCode, PassGuard, RejectDuplicate, RecordScan,
                    ConfirmColli, FindNothing
<1>3. ASSUME NEW r \in Requests, NEW n \in PalletNumbers \union {UnreadableCode}, NEW k \in ScanCounts,
             Submit(r, n, k)
      PROVE  UNCHANGED vars
  BY <1>3 DEF Submit
<1>4. ASSUME NEW n \in PalletNumbers, WindowPasses(n)
      PROVE  UNCHANGED vars
  BY <1>4 DEF WindowPasses
<1>5. CASE RegisterOrClose \/ UndoCounted \/ ClearCounted
  BY <1>5 DEF RegisterOrClose, UndoCounted, ClearCounted, Next
<1>6. CASE UNCHANGED allVars
  BY <1>6 DEF allVars
<1> QED
  BY <1>2, <1>3, <1>4, <1>5, <1>6 DEF ServiceNext

-----------------------------------------------------------------------------
(* The requests.                                                            *)

LEMMA InitServiceInv == ServiceInit => ServiceInv
<1> SUFFICES ASSUME ServiceInit PROVE ServiceInv
  OBVIOUS
<1>1. TypeOK
  BY InitTypeOK DEF ServiceInit
<1>2. NoRequest \in Request
  BY DEF NoRequest, Request, Verdicts, Reasons, UnreadableCode
<1>3. req \in [Requests -> Request]
  BY <1>2 DEF ServiceInit
<1>4. BatchInv
  BY DEF ServiceInit, BatchInv, NoRequest
<1> QED
  BY <1>1, <1>3, <1>4 DEF ServiceInv

\* A step that gives one request a state that makes sense by itself keeps all.
LEMMA OneRequest ==
  ASSUME ServiceInv, TypeOK', NEW r \in Requests, NEW q \in Request, req' = [req EXCEPT ![r] = q],
         q.pc # "idle" => q.confirmed < q.count /\ q.reason = "none",
         q.pc \in {"look up", "record"} => q.confirmed = 0,
         q.reason = "duplicate" => q.confirmed = 0 /\ q.verdict = "error"
  PROVE  ServiceInv'
<1>1. req \in [Requests -> Request]
  BY DEF ServiceInv
<1>2. req' \in [Requests -> Request]
  BY <1>1
<1>3. \A t \in Requests : req'[t] = IF t = r THEN q ELSE req[t]
  BY <1>1
<1>4. BatchInv'
  BY <1>3 DEF ServiceInv, BatchInv
<1> QED
  BY <1>2, <1>4 DEF ServiceInv

LEMMA GotoKeeps ==
  ASSUME ServiceInv, TypeOK', NEW r \in Requests, NEW step, Goto(r, step),
         req[r].pc # "idle",
         step \in {"idle", "write"} \/ (step \in {"look up", "record"} /\ req[r].confirmed = 0)
  PROVE  ServiceInv'
<1> DEFINE q == [req[r] EXCEPT !.pc = step]
<1>1. req[r] \in Request
  BY DEF ServiceInv
<1>2. /\ q \in Request
      /\ q.pc = step /\ q.confirmed = req[r].confirmed /\ q.count = req[r].count
      /\ q.reason = req[r].reason /\ q.verdict = req[r].verdict
  BY <1>1 DEF Request
<1>3. req[r].confirmed < req[r].count /\ req[r].reason = "none"
  BY DEF ServiceInv, BatchInv
<1>4. req' = [req EXCEPT ![r] = q]
  BY DEF Goto
<1> HIDE DEF q
<1> QED
  BY <1>2, <1>3, <1>4, OneRequest

LEMMA RespondKeeps ==
  ASSUME ServiceInv, TypeOK', NEW r \in Requests, NEW confirmed \in Nat, NEW reason \in Reasons,
         Respond(r, confirmed, reason), req[r].pc # "idle",
         reason = "duplicate" => confirmed = 0
  PROVE  ServiceInv'
<1> DEFINE v == Verdict(confirmed, req[r].count)
           q == [req[r] EXCEPT !.pc = "idle", !.confirmed = confirmed, !.reason = reason, !.verdict = v]
<1>1. req[r] \in Request
  BY DEF ServiceInv
<1>2. v \in Verdicts
  BY DEF Verdict, Verdicts
<1>3. confirmed = 0 => v = "error"
  <2>1. req[r].confirmed < req[r].count /\ req[r].confirmed \in Nat /\ req[r].count \in Int
    BY <1>1 DEF ServiceInv, BatchInv, Request
  <2> QED
    BY <2>1 DEF Verdict
<1>4. req' = [req EXCEPT ![r] = q]
  BY DEF Respond
<1> HIDE DEF v
<1>5. q \in Request /\ q.pc = "idle" /\ q.confirmed = confirmed /\ q.reason = reason /\ q.verdict = v
  BY <1>1, <1>2 DEF Request
<1> HIDE DEF q
<1> QED
  BY <1>3, <1>4, <1>5, OneRequest

LEMMA NextServiceInv == ServiceInv /\ [ServiceNext]_allVars => ServiceInv'
<1> SUFFICES ASSUME ServiceInv, [ServiceNext]_allVars PROVE ServiceInv'
  OBVIOUS
<1>1. TypeOK'
  BY ServiceStepsStore, NextTypeOK DEF ServiceInv
<1>2. ASSUME NEW r \in Requests
      PROVE  /\ req[r] \in Request
             /\ req[r].confirmed \in Nat /\ req[r].count \in Int
             /\ req[r].pc # "idle" => req[r].confirmed < req[r].count /\ req[r].reason = "none"
             /\ req[r].pc \in {"look up", "record"} => req[r].confirmed = 0
  BY <1>2 DEF ServiceInv, BatchInv, Request
<1>3. ASSUME UNCHANGED req
      PROVE  ServiceInv'
  BY <1>1, <1>3 DEF ServiceInv, BatchInv
<1>4. ASSUME NEW r \in Requests, NEW n \in PalletNumbers \union {UnreadableCode}, NEW k \in ScanCounts,
             Submit(r, n, k)
      PROVE  ServiceInv'
  <2> DEFINE fresh == [NoRequest EXCEPT !.pallet = n, !.count = k]
             q == IF k <= 0 THEN [fresh EXCEPT !.verdict = "error", !.reason = "bad count"]
                            ELSE [fresh EXCEPT !.pc = "scan"]
  <2>1. k \in Int
    BY ScanCountsAssumption
  <2>2. /\ fresh \in Request /\ fresh.pc = "idle" /\ fresh.count = k
        /\ fresh.confirmed = 0 /\ fresh.reason = "none"
    <3>1. NoRequest \in Request /\ NoRequest.pc = "idle" /\ NoRequest.confirmed = 0
          /\ NoRequest.reason = "none"
      BY DEF NoRequest, Request, Verdicts, Reasons, UnreadableCode
    <3> QED
      BY <2>1, <3>1 DEF Request
  <2>3. req' = [req EXCEPT ![r] = q]
    BY <1>4 DEF Submit
  <2> HIDE DEF fresh
  <2>4. CASE k <= 0
    <3>1. q = [fresh EXCEPT !.verdict = "error", !.reason = "bad count"]
      BY <2>4
    <3> HIDE DEF q
    <3>2. q \in Request /\ q.pc = "idle" /\ q.reason = "bad count"
      BY <2>2, <3>1 DEF Request, Verdicts, Reasons
    <3> QED
      BY <1>1, <2>3, <3>2, OneRequest
  <2>5. CASE k > 0
    <3>1. q = [fresh EXCEPT !.pc = "scan"]
      BY <2>1, <2>5
    <3> HIDE DEF q
    <3>2. q \in Request /\ q.pc = "scan" /\ q.confirmed = 0 /\ q.count = k /\ q.reason = "none"
      BY <2>2, <3>1 DEF Request
    <3> QED
      BY <1>1, <2>1, <2>3, <2>5, <3>2, OneRequest
  <2> QED
    BY <2>1, <2>4, <2>5
<1>5. ASSUME NEW r \in Requests, Scan(r)
      PROVE  ServiceInv'
  <2>1. req[r].pc = "scan" /\ req[r].confirmed \in Nat
    BY <1>2, <1>5 DEF Scan
  <2>2. CASE req[r].confirmed > 0
    BY <1>1, <1>5, <2>1, <2>2, GotoKeeps DEF Scan
  <2>3. CASE req[r].confirmed = 0
    BY <1>1, <1>5, <2>1, <2>3, GotoKeeps DEF Scan
  <2> QED
    BY <2>1, <2>2, <2>3
<1>6. ASSUME NEW r \in Requests, RejectCode(r)
      PROVE  ServiceInv'
  BY <1>1, <1>2, <1>6, RespondKeeps DEF RejectCode, Reasons
<1>7. ASSUME NEW r \in Requests, PassGuard(r)
      PROVE  ServiceInv'
  BY <1>1, <1>2, <1>7, GotoKeeps DEF PassGuard
<1>8. ASSUME NEW r \in Requests, RejectDuplicate(r)
      PROVE  ServiceInv'
  BY <1>1, <1>2, <1>8, RespondKeeps DEF RejectDuplicate, Reasons
<1>9. ASSUME NEW r \in Requests, RecordScan(r)
      PROVE  ServiceInv'
  BY <1>1, <1>2, <1>9, GotoKeeps DEF RecordScan
<1>10. ASSUME NEW r \in Requests, ConfirmColli(r)
       PROVE  ServiceInv'
  <2>0. req[r].pc = "write"
    BY <1>10 DEF ConfirmColli
  <2>1. /\ req[r].pc # "idle" /\ req[r].confirmed + 1 \in Nat /\ req[r].count \in Int
        /\ req[r].confirmed < req[r].count /\ req[r].reason = "none"
    <3>1. req[r].pc # "idle"
      BY <2>0
    <3>2. req[r].confirmed \in Nat /\ req[r].count \in Int
      BY <1>2
    <3>3. req[r].confirmed < req[r].count /\ req[r].reason = "none"
      BY <1>2, <3>1
    <3>4. req[r].confirmed + 1 \in Nat
      BY <3>2
    <3> QED
      BY <3>1, <3>2, <3>3, <3>4
  <2>2. CASE Respond(r, req[r].confirmed + 1, "none")
    BY <1>1, <2>1, <2>2, RespondKeeps DEF Reasons
  <2>3. ASSUME req[r].confirmed + 1 # req[r].count,
               req' = [req EXCEPT ![r].pc = "scan", ![r].confirmed = req[r].confirmed + 1]
        PROVE  ServiceInv'
    <3> DEFINE q == [req[r] EXCEPT !.pc = "scan", !.confirmed = req[r].confirmed + 1]
    <3>1. req' = [req EXCEPT ![r] = q]
      BY <1>2, <2>3 DEF ServiceInv
    <3>2. /\ q \in Request /\ q.pc = "scan" /\ q.confirmed = req[r].confirmed + 1
          /\ q.count = req[r].count /\ q.reason = req[r].reason
      BY <1>2, <2>1 DEF Request
    <3> HIDE DEF q
    <3>3. q.confirmed < q.count /\ q.reason = "none"
      <4> DEFINE c == req[r].confirmed
                 k == req[r].count
      <4>1. c \in Nat /\ k \in Int /\ c < k /\ c + 1 # k
        BY <1>2, <2>1, <2>3
      <4> HIDE DEF c, k
      <4>2. c + 1 < k
        BY <4>1
      <4> QED
        BY <2>1, <3>2, <4>2 DEF c, k
    <3> QED
      BY <1>1, <3>1, <3>2, <3>3, OneRequest
  <2> QED
    BY <1>10, <2>2, <2>3 DEF ConfirmColli
<1>11. ASSUME NEW r \in Requests, FindNothing(r)
       PROVE  ServiceInv'
  BY <1>1, <1>2, <1>11, RespondKeeps DEF FindNothing, Reasons
<1>12. ASSUME NEW r \in Requests, CutOff(r)
       PROVE  ServiceInv'
  BY <1>1, <1>12, GotoKeeps DEF CutOff
<1>13. ASSUME \/ \E n \in PalletNumbers : WindowPasses(n)
              \/ RegisterOrClose \/ UndoCounted \/ ClearCounted
              \/ UNCHANGED allVars
       PROVE  UNCHANGED req
  BY <1>13 DEF WindowPasses, RegisterOrClose, UndoCounted, ClearCounted, serviceVars, allVars
<1> QED
  BY <1>3, <1>4, <1>5, <1>6, <1>7, <1>8, <1>9, <1>10, <1>11, <1>12, <1>13 DEF ServiceNext, Serve

LEMMA ServiceInvCorrect == ServiceSpec => []ServiceInv
BY InitServiceInv, NextServiceInv, PTL DEF ServiceSpec

-----------------------------------------------------------------------------
(* Nothing left.                                                            *)

\* GetLatestUnconfirmedEntryForPalletAsync finds a row whenever there is one.
LEMMA LatestIsFound ==
  ASSUME TypeOK, NEW n, NothingLeft(n), NEW i \in 1..Len(entries), entries[i].pallet = n
  PROVE  entries[i].confirmed >= entries[i].qty
<1> DEFINE Left == {j \in 1..Len(entries) : entries[j].pallet = n /\ entries[j].confirmed < entries[j].qty}
           Distances == {Len(entries) - j : j \in Left}
<1>1. Len(entries) \in Nat /\ \A j \in 1..Len(entries) :
        entries[j].confirmed \in Nat /\ entries[j].qty \in Nat
  <2>1. Len(entries) \in Nat /\ \A j \in 1..Len(entries) : entries[j] \in Entry
    BY DEF TypeOK
  <2> QED
    BY <2>1, QuantitiesAssumption DEF Entry
<1>2. ASSUME Left # {} PROVE FALSE
  <2>1. Distances \subseteq Nat /\ Distances # {}
    BY <1>1, <1>2
  <2>2. PICK d \in Distances : \A e \in Distances : d <= e
    BY <2>1, SmallestMember
  <2>3. PICK j \in Left : d = Len(entries) - j
    BY <2>2
  <2>4. ASSUME NEW k \in Left PROVE k <= j
    <3>1. Len(entries) - k \in Distances
      OBVIOUS
    <3>2. Len(entries) - j <= Len(entries) - k
      BY <2>2, <2>3, <3>1
    <3> QED
      BY <1>1, <3>2
  <2>5. IsLatestUnconfirmed(j, n)
    BY <1>1, <2>3, <2>4 DEF IsLatestUnconfirmed
  <2> QED
    BY <2>5 DEF NothingLeft
<1> QED
  BY <1>1, <1>2

-----------------------------------------------------------------------------
(* The accounts.  Confirmed is a sum over the entries; a step changes it by  *)
(* the one entry it marks, appends or takes back.                            *)

ConfirmedQty == [i \in 1..Len(entries) |-> entries[i].confirmed]

LEMMA ConfirmedTypes ==
  ASSUME TypeOK
  PROVE  /\ Len(entries) \in Nat /\ IsFiniteSet(1..Len(entries))
         /\ \A i \in 1..Len(entries) : /\ entries[i] \in Entry
                                       /\ ConfirmedQty[i] = entries[i].confirmed
                                       /\ ConfirmedQty[i] \in Nat
         /\ Confirmed = SumFunctionOnSet(ConfirmedQty, 1..Len(entries))
         /\ Confirmed \in Nat
<1>1. Len(entries) \in Nat /\ IsFiniteSet(1..Len(entries))
  BY FS_Interval DEF TypeOK
<1>2. \A i \in 1..Len(entries) : entries[i] \in Entry
  BY DEF TypeOK
<1>3. \A i \in 1..Len(entries) : ConfirmedQty[i] = entries[i].confirmed /\ ConfirmedQty[i] \in Nat
  BY <1>2 DEF ConfirmedQty, Entry
<1>4. Confirmed = SumFunctionOnSet(ConfirmedQty, 1..Len(entries))
  BY DEF Confirmed, ConfirmedQty
<1> QED
  BY <1>1, <1>2, <1>3, <1>4, SumIsNat

LEMMA ConfirmingCounts ==
  ASSUME TypeOK, TypeOK', NEW n, ConfirmLatestUnconfirmed(n)
  PROVE  Confirmed' = Confirmed + 1
<1> DEFINE L == Len(entries)
<1>1. PICK k \in 1..L : IsLatestUnconfirmed(k, n) /\ entries' = [entries EXCEPT ![k] = Marked(@)]
  BY DEF ConfirmLatestUnconfirmed
<1>2. /\ Len(entries') = L /\ entries'[k] = Marked(entries[k])
      /\ \A i \in 1..L \ {k} : entries'[i] = entries[i]
  BY <1>1 DEF TypeOK
<1>3. /\ L \in Nat /\ IsFiniteSet(1..L)
      /\ \A i \in 1..L : ConfirmedQty[i] = entries[i].confirmed /\ ConfirmedQty[i] \in Nat
      /\ Confirmed = SumFunctionOnSet(ConfirmedQty, 1..L) /\ Confirmed \in Nat
  BY ConfirmedTypes
<1>4. Marked(entries[k]).confirmed = entries[k].confirmed + 1
  <2>1. entries[k] \in Entry /\ entries[k].confirmed < entries[k].qty
    BY <1>1, ConfirmedTypes DEF IsLatestUnconfirmed
  <2> QED
    BY <2>1 DEF Marked, Entry
<1>5. \A i \in 1..L : ConfirmedQty'[i] = entries'[i].confirmed
  BY <1>2 DEF ConfirmedQty
<1>6. /\ ConfirmedQty'[k] = ConfirmedQty[k] + 1
      /\ \A i \in 1..L \ {k} : ConfirmedQty'[i] = ConfirmedQty[i]
  BY <1>1, <1>2, <1>3, <1>4, <1>5
<1> DEFINE S == 1..L
<1>7. SumFunctionOnSet(ConfirmedQty', S) = SumFunctionOnSet(ConfirmedQty, S) - ConfirmedQty[k] + ConfirmedQty'[k]
  <2>1. \A i \in S : ConfirmedQty[i] \in Nat /\ ConfirmedQty'[i] \in Nat
    BY <1>3, <1>6
  <2>2. IsFiniteSet(S) /\ k \in S /\ \A i \in S \ {k} : ConfirmedQty[i] = ConfirmedQty'[i]
    BY <1>1, <1>3, <1>6
  <2> HIDE DEF S
  <2>3. /\ \A x \in S : SumFunctionOnSet(ConfirmedQty, S) = ConfirmedQty[x] + SumFunctionOnSet(ConfirmedQty, S \ {x})
        /\ \A x \in S : SumFunctionOnSet(ConfirmedQty', S) = ConfirmedQty'[x] + SumFunctionOnSet(ConfirmedQty', S \ {x})
    BY <2>1, <2>2, SumTakesAny
  <2>4. IsFiniteSet(S \ {k})
    BY <2>2, FS_RemoveElement
  <2>5. /\ SumFunctionOnSet(ConfirmedQty', S \ {k}) = SumFunctionOnSet(ConfirmedQty, S \ {k})
        /\ SumFunctionOnSet(ConfirmedQty, S \ {k}) \in Nat
    BY <2>1, <2>2, <2>4, SumCongruence, SumIsNat
  <2> QED
    BY <2>1, <2>2, <2>3, <2>5
<1>8. Confirmed' = SumFunctionOnSet(ConfirmedQty', 1..L)
  BY <1>2 DEF Confirmed, ConfirmedQty
<1>9. ConfirmedQty[k] \in Nat
  BY <1>1, <1>3
<1> QED
  BY <1>3, <1>6, <1>7, <1>8, <1>9

\* Appending an entry nothing of which is confirmed, or taking the newest one back.
LEMMA RegisteringCountsNothing ==
  ASSUME TypeOK, TypeOK', Register
  PROVE  Confirmed' = Confirmed
<1>1. PICK n \in PalletNumbers, v \in Variants, q \in Quantities, c \in BOOLEAN : PutColli(n, v, q, c)
  BY DEF Register, RegisterOnExisting, RegisterOnNew
<1> DEFINE L == Len(entries)
           e == [variant |-> v, qty |-> q, pallet |-> n, created |-> c, confirmed |-> 0, moved |-> FALSE]
<1>2. entries' = Append(entries, e) /\ e.confirmed = 0
  BY <1>1 DEF PutColli
<1> HIDE DEF e
<1>3. /\ L \in Nat /\ IsFiniteSet(1..L)
      /\ \A i \in 1..L : ConfirmedQty[i] = entries[i].confirmed /\ ConfirmedQty[i] \in Nat
      /\ Confirmed = SumFunctionOnSet(ConfirmedQty, 1..L) /\ Confirmed \in Nat
  BY ConfirmedTypes
<1>4. Len(entries') = L + 1 /\ entries'[L + 1] = e /\ \A i \in 1..L : entries'[i] = entries[i]
  BY <1>2 DEF TypeOK
<1>5. \A i \in 1..(L + 1) : ConfirmedQty'[i] = entries'[i].confirmed
  BY <1>4 DEF ConfirmedQty
<1>6. ConfirmedQty'[L + 1] = 0 /\ \A i \in 1..L : ConfirmedQty'[i] = ConfirmedQty[i]
  BY <1>2, <1>3, <1>4, <1>5
<1>7. SumFunctionOnSet(ConfirmedQty', 1..L) = SumFunctionOnSet(ConfirmedQty, 1..L)
  BY <1>3, <1>6, SumCongruence
<1>8. 1..(L + 1) = (1..L) \union {L + 1} /\ L + 1 \notin 1..L
  BY <1>3
<1>9. SumFunctionOnSet(ConfirmedQty', (1..L) \union {L + 1}) = ConfirmedQty'[L + 1] + SumFunctionOnSet(ConfirmedQty', 1..L)
  <2>1. \A i \in (1..L) \union {L + 1} : ConfirmedQty'[i] \in Nat
    BY <1>3, <1>6
  <2> HIDE DEF L
  <2>2. \A x : x \notin 1..L /\ (\A i \in (1..L) \union {x} : ConfirmedQty'[i] \in Nat)
          => SumFunctionOnSet(ConfirmedQty', (1..L) \union {x}) = ConfirmedQty'[x] + SumFunctionOnSet(ConfirmedQty', 1..L)
    BY <1>3, SumAdds
  <2> QED
    BY <1>8, <2>1, <2>2
<1>10. Confirmed' = SumFunctionOnSet(ConfirmedQty', 1..(L + 1))
  BY <1>4 DEF Confirmed, ConfirmedQty
<1>11. SumFunctionOnSet(ConfirmedQty', 1..(L + 1)) = 0 + SumFunctionOnSet(ConfirmedQty, 1..L)
  BY <1>6, <1>7, <1>8, <1>9
<1> HIDE DEF L
<1> QED
  BY <1>3, <1>10, <1>11

LEMMA UndoingTakesCount ==
  ASSUME TypeOK, TypeOK', UndoLast
  PROVE  /\ entries[Len(entries)].confirmed \in Nat /\ Confirmed' \in Nat
         /\ Confirmed = Confirmed' + entries[Len(entries)].confirmed
<1>0. PICK L \in Nat : L = Len(entries)
  BY ConfirmedTypes
<1>1. L \in 1..L /\ entries' = SubSeq(entries, 1, L - 1)
  BY <1>0, LastEntry DEF UndoLast
<1>2. Len(entries') = L - 1 /\ \A i \in 1..(L - 1) : entries'[i] = entries[i]
  BY <1>0, <1>1 DEF TypeOK
<1>3. /\ L \in Nat /\ IsFiniteSet(1..L)
      /\ \A i \in 1..L : ConfirmedQty[i] = entries[i].confirmed /\ ConfirmedQty[i] \in Nat
      /\ Confirmed = SumFunctionOnSet(ConfirmedQty, 1..L)
  BY <1>0, ConfirmedTypes
<1>4. \A i \in 1..(L - 1) : ConfirmedQty'[i] = ConfirmedQty[i]
  <2>1. \A i \in 1..(L - 1) : ConfirmedQty'[i] = entries'[i].confirmed
    BY <1>2 DEF ConfirmedQty
  <2> QED
    BY <1>2, <1>3, <2>1
<1>5. 1..(L - 1) = (1..L) \ {L}
  BY <1>1
<1>6. IsFiniteSet(1..(L - 1))
  BY FS_Interval
<1>7. SumFunctionOnSet(ConfirmedQty', 1..(L - 1)) = SumFunctionOnSet(ConfirmedQty, 1..(L - 1))
  BY <1>4, <1>6, SumCongruence
<1>8. SumFunctionOnSet(ConfirmedQty, 1..L) = ConfirmedQty[L] + SumFunctionOnSet(ConfirmedQty, (1..L) \ {L})
  <2>1. \A x \in 1..L :
          SumFunctionOnSet(ConfirmedQty, 1..L) = ConfirmedQty[x] + SumFunctionOnSet(ConfirmedQty, (1..L) \ {x})
    BY <1>3, SumTakesAny
  <2> QED
    BY <1>1, <2>1
<1>9. Confirmed' = SumFunctionOnSet(ConfirmedQty', 1..(L - 1))
  BY <1>2 DEF Confirmed, ConfirmedQty
<1>10. Confirmed' \in Nat
  <2>1. \A i \in 1..(L - 1) : ConfirmedQty'[i] \in Nat
    BY <1>3, <1>4
  <2> QED
    BY <1>6, <1>9, <2>1, SumIsNat
<1>11. ConfirmedQty[L] = entries[L].confirmed /\ ConfirmedQty[L] \in Nat
  BY <1>1, <1>3
<1>12. Confirmed = ConfirmedQty[L] + Confirmed'
  BY <1>3, <1>5, <1>7, <1>8, <1>9
<1> QED
  BY <1>0, <1>10, <1>11, <1>12

\* What the accounts rest on besides: a scan under way is of a readable code, and
\* only finitely many are under way.
AccountInv ==
  /\ ServiceInv /\ ServiceTypeOK
  /\ IsFiniteSet(UnderWay)
  /\ \A r \in UnderWay : req[r].pallet \in PalletNumbers
  /\ ScansAccountedFor

TurnSteps == {"look up", "record", "write"}

\* A request that goes from a step to another changes what is under way by itself.
OnlyChanges(r) == \A t \in Requests \ {r} : req'[t] = req[t]

LEMMA GotoEffect ==
  ASSUME ServiceInv, NEW r \in Requests, NEW step, Goto(r, step)
  PROVE  req'[r].pc = step /\ req'[r].pallet = req[r].pallet /\ OnlyChanges(r)
<1>1. req \in [Requests -> Request] /\ req[r] \in Request
  BY DEF ServiceInv
<1>2. req' = [req EXCEPT ![r] = [req[r] EXCEPT !.pc = step]]
  BY DEF Goto
<1>3. req'[r] = [req[r] EXCEPT !.pc = step]
  BY <1>1, <1>2
<1> QED
  BY <1>1, <1>2, <1>3 DEF Request, OnlyChanges

LEMMA RespondEffect ==
  ASSUME ServiceInv, NEW r \in Requests, NEW c, NEW reason, Respond(r, c, reason)
  PROVE  req'[r].pc = "idle" /\ OnlyChanges(r)
BY DEF Respond, Request, ServiceInv, OnlyChanges

LEMMA TurnBegins ==
  ASSUME AccountInv, NEW r \in Requests, OnlyChanges(r),
         req[r].pc \notin TurnSteps, req'[r].pc \in TurnSteps
  PROVE  /\ UnderWay' = UnderWay \union {r} /\ IsFiniteSet(UnderWay')
         /\ Cardinality(UnderWay) \in Nat /\ Cardinality(UnderWay') = Cardinality(UnderWay) + 1
<1>1. UnderWay' = UnderWay \union {r} /\ r \notin UnderWay
  BY DEF UnderWay, OnlyChanges, TurnSteps
<1> QED
  BY <1>1, FS_AddElement, FS_CardinalityType DEF AccountInv

LEMMA TurnEnds ==
  ASSUME AccountInv, NEW r \in Requests, OnlyChanges(r),
         req[r].pc \in TurnSteps, req'[r].pc \notin TurnSteps
  PROVE  /\ UnderWay' = UnderWay \ {r} /\ IsFiniteSet(UnderWay')
         /\ Cardinality(UnderWay) \in Nat /\ Cardinality(UnderWay') = Cardinality(UnderWay) - 1
<1>1. UnderWay' = UnderWay \ {r} /\ r \in UnderWay
  BY DEF UnderWay, OnlyChanges, TurnSteps
<1> QED
  BY <1>1, FS_RemoveElement, FS_CardinalityType DEF AccountInv

LEMMA SameTurns ==
  ASSUME AccountInv, NEW r \in Requests, OnlyChanges(r),
         req[r].pc \in TurnSteps <=> req'[r].pc \in TurnSteps
  PROVE  /\ UnderWay' = UnderWay /\ IsFiniteSet(UnderWay')
         /\ Cardinality(UnderWay) \in Nat /\ Cardinality(UnderWay') = Cardinality(UnderWay)
<1>1. UnderWay' = UnderWay
  BY DEF UnderWay, OnlyChanges, TurnSteps
<1> QED
  BY <1>1, FS_CardinalityType DEF AccountInv

LEMMA CountsAttempt ==
  ASSUME metrics \in Metrics, Count("attempts")
  PROVE  /\ metrics' \in Metrics /\ metrics'.attempts = metrics.attempts + 1
         /\ metrics'.failures = metrics.failures /\ metrics'.blocked = metrics.blocked
BY DEF Count, Metrics

LEMMA CountsFailure ==
  ASSUME metrics \in Metrics, Count("failures")
  PROVE  /\ metrics' \in Metrics /\ metrics'.attempts = metrics.attempts
         /\ metrics'.failures = metrics.failures + 1 /\ metrics'.blocked = metrics.blocked
BY DEF Count, Metrics

LEMMA CountsBlocked ==
  ASSUME metrics \in Metrics, Count("blocked")
  PROVE  /\ metrics' \in Metrics /\ metrics'.attempts = metrics.attempts
         /\ metrics'.failures = metrics.failures /\ metrics'.blocked = metrics.blocked + 1
BY DEF Count, Metrics

LEMMA CountsCorrection ==
  ASSUME metrics \in Metrics, Count("undos") \/ Count("clears")
  PROVE  /\ metrics' \in Metrics /\ metrics'.attempts = metrics.attempts
         /\ metrics'.failures = metrics.failures /\ metrics'.blocked = metrics.blocked
BY DEF Count, Metrics

LEMMA CountsAttemptAndFailure ==
  ASSUME metrics \in Metrics, metrics' = [metrics EXCEPT !.attempts = @ + 1, !.failures = @ + 1]
  PROVE  /\ metrics' \in Metrics /\ metrics'.attempts = metrics.attempts + 1
         /\ metrics'.failures = metrics.failures + 1 /\ metrics'.blocked = metrics.blocked
<1>1. /\ metrics.attempts \in Nat /\ metrics.failures \in Nat /\ metrics.blocked \in Nat
      /\ metrics.undos \in Nat /\ metrics.clears \in Nat
  BY DEF Metrics
<1> DEFINE a == metrics.attempts + 1
           f == metrics.failures + 1
<1>2. metrics' = [metrics EXCEPT !.attempts = a, !.failures = f]
  OBVIOUS
<1>3. a \in Nat /\ f \in Nat
  BY <1>1
<1> HIDE DEF a, f
<1>4. metrics' \in Metrics
  BY <1>2, <1>3 DEF Metrics
<1>5. metrics'.attempts = a /\ metrics'.failures = f /\ metrics'.blocked = metrics.blocked
  BY <1>2 DEF Metrics
<1> QED
  BY <1>4, <1>5 DEF a, f

\* What is left to show of a step once its effect on UnderWay is known.
LEMMA AccountsAfter ==
  ASSUME AccountInv, ServiceInv', IsFiniteSet(UnderWay'),
         \A r \in UnderWay' : req'[r].pallet \in PalletNumbers,
         inWindow' \subseteq PalletNumbers, metrics' \in Metrics, gone' \in Nat, cut' \in Nat,
         metrics'.attempts = Confirmed' + gone' + metrics'.failures + metrics'.blocked + cut'
                               + Cardinality(UnderWay')
  PROVE  AccountInv'
<1>1. ServiceTypeOK'
  BY DEF AccountInv, ServiceTypeOK, ServiceInv
<1>2. ScansAccountedFor'
  BY DEF ScansAccountedFor
<1> QED
  BY <1>1, <1>2 DEF AccountInv

LEMMA InitAccountInv == ServiceInit => AccountInv
<1> SUFFICES ASSUME ServiceInit PROVE AccountInv
  OBVIOUS
<1>1. ServiceInv
  BY InitServiceInv
<1>2. UnderWay = {}
  BY DEF ServiceInit, UnderWay, NoRequest
<1>3. Confirmed = 0
  <2>1. 1..Len(entries) = {}
    BY DEF ServiceInit, Init
  <2> QED
    BY <2>1, SumOfNothing DEF Confirmed
<1>4. metrics \in Metrics /\ metrics.attempts = 0 /\ metrics.failures = 0 /\ metrics.blocked = 0
  BY DEF ServiceInit, Metrics
<1>5. ServiceTypeOK
  BY <1>1, <1>4 DEF ServiceInit, ServiceInv, ServiceTypeOK
<1>6. IsFiniteSet(UnderWay) /\ Cardinality(UnderWay) = 0
  BY <1>2, FS_EmptySet
<1>7. ScansAccountedFor
  BY <1>3, <1>4, <1>6 DEF ScansAccountedFor, ServiceInit
<1> QED
  BY <1>1, <1>2, <1>5, <1>6, <1>7 DEF AccountInv

LEMMA NextAccountInv == AccountInv /\ [ServiceNext]_allVars => AccountInv'
<1> SUFFICES ASSUME AccountInv, [ServiceNext]_allVars PROVE AccountInv'
  OBVIOUS
<1> DEFINE U == Cardinality(UnderWay)
<1>1. ServiceInv /\ ServiceInv' /\ TypeOK /\ TypeOK'
  BY NextServiceInv DEF AccountInv, ServiceInv
<1>2. /\ inWindow \subseteq PalletNumbers /\ metrics \in Metrics /\ gone \in Nat /\ cut \in Nat
      /\ metrics.attempts \in Nat /\ metrics.failures \in Nat /\ metrics.blocked \in Nat
      /\ Confirmed \in Nat
  BY <1>1, ConfirmedTypes DEF AccountInv, ServiceTypeOK, Metrics
<1>3. /\ \A r \in UnderWay : req[r].pallet \in PalletNumbers
      /\ \A r \in Requests : req[r] \in Request
      /\ metrics.attempts = Confirmed + gone + metrics.failures + metrics.blocked + cut + U
  BY <1>1 DEF AccountInv, ServiceInv, ScansAccountedFor
<1>4. entries' = entries => Confirmed' = Confirmed
  BY DEF Confirmed
<1>5. ASSUME NEW r \in Requests, OnlyChanges(r), UnderWay' \subseteq UnderWay \union {r},
             r \in UnderWay' => req'[r].pallet \in PalletNumbers
      PROVE  \A t \in UnderWay' : req'[t].pallet \in PalletNumbers
  BY <1>3, <1>5 DEF OnlyChanges, UnderWay
<1>6. ASSUME NEW r \in Requests, NEW n \in PalletNumbers \union {UnreadableCode}, NEW k \in ScanCounts,
             Submit(r, n, k)
      PROVE  AccountInv'
  <2>1. req[r].pc = "idle" /\ OnlyChanges(r)
    BY <1>6 DEF Submit, OnlyChanges
  <2>2. req'[r].pc \in {"idle", "scan"}
    BY <1>1, <1>6 DEF Submit, NoRequest, ServiceInv
  <2>3. UnderWay' = UnderWay /\ IsFiniteSet(UnderWay') /\ U \in Nat /\ U' = U
    BY <2>1, <2>2, SameTurns DEF TurnSteps
  <2>4. UNCHANGED <<entries, inWindow, metrics, gone, cut>> /\ r \notin UnderWay
    BY <1>6, <2>1 DEF Submit, vars, UnderWay
  <2>5. \A t \in UnderWay' : req'[t].pallet \in PalletNumbers
    BY <1>5, <2>1, <2>3, <2>4
  <2> QED
    BY <1>1, <1>2, <1>3, <1>4, <2>3, <2>4, <2>5, AccountsAfter
<1>7. ASSUME NEW r \in Requests, Scan(r)
      PROVE  AccountInv'
  <2>1. Goto(r, "write") \/ Goto(r, "look up")
    BY <1>7 DEF Scan
  <2>2. req'[r].pc \in {"write", "look up"} /\ req'[r].pallet = req[r].pallet /\ OnlyChanges(r)
    BY <1>1, <2>1, GotoEffect
  <2>3. /\ req[r].pc = "scan" /\ req[r].pallet \in PalletNumbers
        /\ UNCHANGED <<entries, inWindow, gone, cut>>
    BY <1>3, <1>7 DEF Scan, vars, Request
  <2>4. /\ metrics' \in Metrics /\ metrics'.attempts = metrics.attempts + 1
        /\ metrics'.failures = metrics.failures /\ metrics'.blocked = metrics.blocked
    BY <1>2, <1>7, CountsAttempt DEF Scan
  <2>5. UnderWay' = UnderWay \union {r} /\ IsFiniteSet(UnderWay')
    BY <2>1, <2>2, <2>3, TurnBegins DEF TurnSteps
  <2>7. U \in Nat /\ U' = U + 1
    BY <2>1, <2>2, <2>3, TurnBegins DEF TurnSteps
  <2>6. \A t \in UnderWay' : req'[t].pallet \in PalletNumbers
    BY <1>5, <2>2, <2>3, <2>5
  <2>9. gone' = gone /\ cut' = cut /\ inWindow' = inWindow /\ Confirmed' = Confirmed
    BY <1>4, <2>3
  <2>10. metrics'.attempts = Confirmed' + gone' + metrics'.failures + metrics'.blocked + cut' + U'
    BY <1>2, <1>3, <2>4, <2>7, <2>9
  <2> QED
    BY <1>1, <1>2, <2>4, <2>5, <2>6, <2>9, <2>10, AccountsAfter
<1>8. ASSUME NEW r \in Requests, RejectCode(r)
      PROVE  AccountInv'
  <2>1. req'[r].pc = "idle" /\ OnlyChanges(r)
    BY <1>1, <1>8, RespondEffect DEF RejectCode
  <2>2. req[r].pc = "scan" /\ UNCHANGED <<entries, inWindow, gone, cut>> /\ r \notin UnderWay
    BY <1>8 DEF RejectCode, vars, UnderWay
  <2>3. /\ metrics' \in Metrics /\ metrics'.attempts = metrics.attempts + 1
        /\ metrics'.failures = metrics.failures + 1 /\ metrics'.blocked = metrics.blocked
    BY <1>2, <1>8, CountsAttemptAndFailure DEF RejectCode
  <2>4. UnderWay' = UnderWay /\ IsFiniteSet(UnderWay') /\ U \in Nat /\ U' = U
    BY <2>1, <2>2, SameTurns DEF TurnSteps
  <2>5. \A t \in UnderWay' : req'[t].pallet \in PalletNumbers
    BY <1>5, <2>1, <2>2, <2>4
  <2> QED
    BY <1>1, <1>2, <1>3, <1>4, <2>2, <2>3, <2>4, <2>5, AccountsAfter
<1>9. ASSUME NEW r \in Requests, PassGuard(r) \/ RecordScan(r)
      PROVE  AccountInv'
  <2>1. PICK step \in {"record", "write"} : Goto(r, step)
    BY <1>9 DEF PassGuard, RecordScan
  <2>2. req'[r].pc = step /\ req'[r].pallet = req[r].pallet /\ OnlyChanges(r)
    BY <1>1, <2>1, GotoEffect
  <2>3. /\ req[r].pc \in {"look up", "record"} /\ UNCHANGED <<entries, metrics, gone, cut>>
        /\ inWindow' \subseteq inWindow \union {req[r].pallet}
    BY <1>9 DEF PassGuard, RecordScan, vars
  <2>4. req[r].pallet \in PalletNumbers
    BY <1>3, <2>3 DEF UnderWay
  <2>5. UnderWay' = UnderWay /\ IsFiniteSet(UnderWay') /\ U \in Nat /\ U' = U
    BY <2>1, <2>2, <2>3, SameTurns DEF TurnSteps
  <2>6. \A t \in UnderWay' : req'[t].pallet \in PalletNumbers
    BY <1>5, <2>2, <2>4, <2>5
  <2>7. inWindow' \subseteq PalletNumbers
    BY <1>2, <2>3, <2>4
  <2> QED
    BY <1>1, <1>2, <1>3, <1>4, <2>3, <2>5, <2>6, <2>7, AccountsAfter
<1>10. ASSUME NEW r \in Requests, RejectDuplicate(r) \/ FindNothing(r)
       PROVE  AccountInv'
  <2>1. req'[r].pc = "idle" /\ OnlyChanges(r)
    BY <1>1, <1>10, RespondEffect DEF RejectDuplicate, FindNothing
  <2>2. req[r].pc \in {"look up", "write"} /\ UNCHANGED <<entries, inWindow, gone, cut>>
    BY <1>10 DEF RejectDuplicate, FindNothing, vars
  <2>3. /\ metrics' \in Metrics /\ metrics'.attempts = metrics.attempts
        /\ \/ metrics'.failures = metrics.failures /\ metrics'.blocked = metrics.blocked + 1
           \/ metrics'.failures = metrics.failures + 1 /\ metrics'.blocked = metrics.blocked
    BY <1>2, <1>10, CountsFailure, CountsBlocked DEF RejectDuplicate, FindNothing
  <2>4. UnderWay' = UnderWay \ {r} /\ IsFiniteSet(UnderWay') /\ U \in Nat /\ U' = U - 1
    BY <2>1, <2>2, TurnEnds DEF TurnSteps
  <2>5. \A t \in UnderWay' : req'[t].pallet \in PalletNumbers
    BY <1>5, <2>1, <2>4
  <2>9. gone' = gone /\ cut' = cut /\ inWindow' = inWindow /\ Confirmed' = Confirmed
    BY <1>4, <2>2
  <2>10. metrics'.attempts = Confirmed' + gone' + metrics'.failures + metrics'.blocked + cut' + U'
    BY <1>2, <1>3, <2>3, <2>4, <2>9
  <2> QED
    BY <1>1, <1>2, <2>3, <2>4, <2>5, <2>9, <2>10, AccountsAfter
<1>11. ASSUME NEW r \in Requests, ConfirmColli(r)
       PROVE  AccountInv'
  <2>1. req'[r].pc \in {"idle", "scan"} /\ OnlyChanges(r)
    <3>1. CASE req[r].confirmed + 1 = req[r].count
      <4>1. Respond(r, req[r].confirmed + 1, "none")
        BY <1>11, <3>1 DEF ConfirmColli
      <4> QED
        BY <1>1, <4>1, RespondEffect
    <3>2. CASE req[r].confirmed + 1 # req[r].count
      <4>1. req' = [req EXCEPT ![r].pc = "scan", ![r].confirmed = req[r].confirmed + 1]
        BY <1>11, <3>2 DEF ConfirmColli
      <4> QED
        BY <1>1, <1>3, <4>1 DEF ServiceInv, Request, OnlyChanges
    <3> QED
      BY <3>1, <3>2
  <2>2. /\ req[r].pc = "write" /\ ConfirmLatestUnconfirmed(req[r].pallet)
        /\ UNCHANGED <<inWindow, metrics, gone, cut>>
    BY <1>11 DEF ConfirmColli
  <2>3. Confirmed' = Confirmed + 1
    BY <1>1, <2>2, ConfirmingCounts
  <2>4. UnderWay' = UnderWay \ {r} /\ IsFiniteSet(UnderWay') /\ U \in Nat /\ U' = U - 1
    BY <2>1, <2>2, TurnEnds DEF TurnSteps
  <2>5. \A t \in UnderWay' : req'[t].pallet \in PalletNumbers
    BY <1>5, <2>1, <2>4
  <2> QED
    BY <1>1, <1>2, <1>3, <2>2, <2>3, <2>4, <2>5, AccountsAfter
<1>12. ASSUME NEW r \in Requests, CutOff(r)
       PROVE  AccountInv'
  <2>1. req'[r].pc = "idle" /\ OnlyChanges(r)
    BY <1>1, <1>12, GotoEffect DEF CutOff
  <2>2. req[r].pc = "write" /\ UNCHANGED <<inWindow, metrics, gone>>
    BY <1>12 DEF CutOff
  <2>3. \/ Confirmed' = Confirmed /\ cut' = cut + 1
        \/ Confirmed' = Confirmed + 1 /\ cut' = cut
    <3>1. CASE cut' = cut + 1 /\ UNCHANGED vars
      BY <1>4, <3>1 DEF vars
    <3>2. CASE ConfirmLatestUnconfirmed(req[r].pallet) /\ UNCHANGED cut
      BY <1>1, <3>2, ConfirmingCounts
    <3> QED
      BY <1>12, <3>1, <3>2 DEF CutOff
  <2>4. UnderWay' = UnderWay \ {r} /\ IsFiniteSet(UnderWay') /\ U \in Nat /\ U' = U - 1
    BY <2>1, <2>2, TurnEnds DEF TurnSteps
  <2>5. \A t \in UnderWay' : req'[t].pallet \in PalletNumbers
    BY <1>5, <2>1, <2>4
  <2> QED
    BY <1>1, <1>2, <1>3, <2>2, <2>3, <2>4, <2>5, AccountsAfter
<1>13. ASSUME UNCHANGED <<req, cut>>, inWindow' \subseteq PalletNumbers, metrics' \in Metrics,
              metrics'.attempts = metrics.attempts, metrics'.failures = metrics.failures,
              metrics'.blocked = metrics.blocked, gone' \in Nat, Confirmed' \in Nat,
              Confirmed' + gone' = Confirmed + gone
       PROVE  AccountInv'
  <2>1. UnderWay' = UnderWay
    BY <1>13 DEF UnderWay
  <2>2. U \in Nat /\ U' = U /\ IsFiniteSet(UnderWay')
    BY <2>1, FS_CardinalityType DEF AccountInv
  <2>3. \A t \in UnderWay' : req'[t].pallet \in PalletNumbers
    BY <1>3, <1>13, <2>1
  <2> QED
    BY <1>1, <1>2, <1>3, <1>13, <2>2, <2>3, AccountsAfter
<1>14. ASSUME NEW n \in PalletNumbers, WindowPasses(n)
       PROVE  AccountInv'
  BY <1>2, <1>4, <1>13, <1>14 DEF WindowPasses, vars
<1>15. CASE RegisterOrClose
  <2>1. Confirmed' = Confirmed
    BY <1>1, <1>4, <1>15, RegisteringCountsNothing DEF RegisterOrClose, ClosePallet
  <2> QED
    BY <1>2, <1>13, <1>15, <2>1 DEF RegisterOrClose, serviceVars
<1>16. CASE UndoCounted
  <2>1. /\ UndoLast /\ UNCHANGED <<inWindow, req, cut>>
        /\ gone' = gone + entries[Len(entries)].confirmed
    BY <1>16 DEF UndoCounted
  <2>2. /\ entries[Len(entries)].confirmed \in Nat /\ Confirmed' \in Nat
        /\ Confirmed = Confirmed' + entries[Len(entries)].confirmed
    BY <1>1, <2>1, UndoingTakesCount
  <2>3. /\ metrics' \in Metrics /\ metrics'.attempts = metrics.attempts
        /\ metrics'.failures = metrics.failures /\ metrics'.blocked = metrics.blocked
    BY <1>2, <1>16, CountsCorrection DEF UndoCounted
  <2>4. gone' \in Nat /\ Confirmed' \in Nat /\ Confirmed' + gone' = Confirmed + gone
    BY <1>2, <2>1, <2>2
  <2> QED
    BY <1>2, <1>13, <2>1, <2>3, <2>4
<1>17. CASE ClearCounted
  <2>1. ClearAllData /\ UNCHANGED <<inWindow, req, cut>> /\ gone' = gone + Confirmed
    BY <1>17 DEF ClearCounted
  <2>2. Confirmed' = 0
    <3>1. 1..Len(entries') = {}
      BY <2>1 DEF ClearAllData
    <3> QED
      BY <3>1, SumOfNothing DEF Confirmed
  <2>3. /\ metrics' \in Metrics /\ metrics'.attempts = metrics.attempts
        /\ metrics'.failures = metrics.failures /\ metrics'.blocked = metrics.blocked
    BY <1>2, <1>17, CountsCorrection DEF ClearCounted
  <2> QED
    BY <1>2, <1>13, <2>1, <2>2, <2>3
<1>18. CASE UNCHANGED allVars
  BY <1>2, <1>4, <1>13, <1>18 DEF allVars, serviceVars, vars
<1> QED
  BY <1>6, <1>7, <1>8, <1>9, <1>10, <1>11, <1>12, <1>14, <1>15, <1>16, <1>17, <1>18
     DEF ServiceNext, Serve

LEMMA AccountInvCorrect == ServiceSpec => []AccountInv
BY InitAccountInv, NextAccountInv, PTL DEF ServiceSpec

-----------------------------------------------------------------------------
(* The theorems.                                                            *)

\* A batch refused as a duplicate has confirmed nothing, for any number of
\* requests in the guard at once and whatever the window does.
THEOREM GuardNeverBreaksABatch == ServiceSpec => []GuardStopsOnlyFirstScan
<1>1. ServiceInv => GuardStopsOnlyFirstScan
  BY DEF ServiceInv, BatchInv, GuardStopsOnlyFirstScan
<1> QED
  BY <1>1, ServiceInvCorrect, PTL

\* Every scan attempt counted is a colli marked in the tables or since taken back,
\* a failure, a duplicate, a request cut off or a scan under way, for any number of
\* requests, corrections and cut-offs.
THEOREM EveryScanIsAccountedFor == ServiceSpec => []ScansAccountedFor
<1>1. AccountInv => ScansAccountedFor
  BY DEF AccountInv
<1> QED
  BY <1>1, AccountInvCorrect, PTL

\* The tables, the requests, the window and the counters have their types.
THEOREM ServiceTypeCorrect == ServiceSpec => []ServiceTypeOK
<1>1. AccountInv => ServiceTypeOK
  BY DEF AccountInv
<1> QED
  BY <1>1, AccountInvCorrect, PTL

\* "Nothing left" is true when it is answered: no row the query could have
\* found is missed, however the other requests came in between.
THEOREM NothingLeftIsTrue == ServiceSpec => ShortBatchLeavesNothing
<1> DEFINE Emptied == \A r \in Requests :
             req[r].pc # "idle" /\ req'[r].reason = "nothing left" /\ req'[r].pc = "idle"
               => /\ req'[r].confirmed < req'[r].count
                  /\ \A i \in 1..Len(entries') : entries'[i].pallet = req'[r].pallet
                       => entries'[i].confirmed >= entries'[i].qty
<1>1. ServiceInv /\ [ServiceNext]_allVars => Emptied
  <2> SUFFICES ASSUME ServiceInv, [ServiceNext]_allVars, NEW r \in Requests,
                      req[r].pc # "idle", req'[r].reason = "nothing left", req'[r].pc = "idle"
               PROVE  /\ req'[r].confirmed < req'[r].count
                      /\ \A i \in 1..Len(entries') : entries'[i].pallet = req'[r].pallet
                           => entries'[i].confirmed >= entries'[i].qty
    OBVIOUS
  <2>1. /\ req \in [Requests -> Request] /\ req[r].reason = "none"
        /\ req[r].confirmed < req[r].count
    BY DEF ServiceInv, BatchInv
  <2>2. req'[r] # req[r]
    OBVIOUS
  <2>3. FindNothing(r)
    <3>1. \E t \in Requests : Serve(t) \/ CutOff(t) \/ \E n, k : Submit(t, n, k)
      BY <2>2 DEF ServiceNext, WindowPasses, RegisterOrClose, UndoCounted, ClearCounted,
                  serviceVars, allVars
    <3>2. PICK t \in Requests : Serve(t) \/ CutOff(t) \/ \E n, k : Submit(t, n, k)
      BY <3>1
    <3>3. t = r
      BY <2>1, <2>2, <3>2 DEF Serve, CutOff, Submit, Scan, RejectCode, PassGuard, RejectDuplicate,
                              RecordScan, ConfirmColli, FindNothing, Goto, Respond
    <3>4. ASSUME NEW step, Goto(r, step) PROVE FALSE
      BY <2>1, <3>4 DEF Goto, Request
    <3>5. ASSUME NEW c, NEW reason, Respond(r, c, reason) PROVE reason = "nothing left"
      BY <2>1, <3>5 DEF Respond, Request
    <3>6. ~(ConfirmColli(r) /\ ~\E c : Respond(r, c, "none"))
      BY <2>1 DEF ConfirmColli, Request
    <3> QED
      BY <3>2, <3>3, <3>4, <3>5, <3>6 DEF Serve, CutOff, Submit, Scan, RejectCode, PassGuard,
                                          RejectDuplicate, RecordScan
  <2>4. /\ req'[r].pallet = req[r].pallet /\ req'[r].confirmed = req[r].confirmed
        /\ req'[r].count = req[r].count
    BY <2>1, <2>3 DEF FindNothing, Respond, Request
  <2>5. entries' = entries /\ NothingLeft(req[r].pallet)
    BY <2>3 DEF FindNothing, vars
  <2>6. \A i \in 1..Len(entries) : entries[i].pallet = req[r].pallet
                           => entries[i].confirmed >= entries[i].qty
    BY <2>5, LatestIsFound DEF ServiceInv
  <2> QED
    BY <2>1, <2>4, <2>5, <2>6
<1>2. ServiceInv /\ [ServiceNext]_allVars => [Emptied]_allVars
  BY <1>1
<1> QED
  BY <1>2, ServiceInvCorrect, PTL DEF ServiceSpec, ShortBatchLeavesNothing

\* With batches, cut-off requests and other stations under way, the tables only
\* go through the repository's operations: what is proved of them holds here.
THEOREM ServiceUsesTheStore == ServiceSpec => Spec
<1>1. ServiceInit => Init
  BY DEF ServiceInit
<1>2. ServiceInv /\ [ServiceNext]_allVars => [Next]_vars
  BY ServiceStepsStore DEF ServiceInv
<1> QED
  BY <1>1, <1>2, ServiceInvCorrect, PTL DEF ServiceSpec, Spec

\* Seen from the bookings, the service only ever registers, closes, confirms one
\* colli, undoes and clears, whatever its batches overtake and wherever they stop.
THEOREM ServiceImplementsLedger == ServiceSpec => ImplementsLedger
BY ServiceUsesTheStore, TablesImplementLedger, PTL
=============================================================================

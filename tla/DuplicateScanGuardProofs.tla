---------------------- MODULE DuplicateScanGuardProofs ----------------------
(***************************************************************************)
(* What the duplicate-scan guard does for any number of threads, pallets   *)
(* and calls, any window and any clean-up limit.                           *)
(***************************************************************************)
EXTENDS DuplicateScanGuard, FiniteSetTheorems, TLAPS

\* Every action but the two that record a scan leaves the history alone.
LEMMA RecordEffect ==
  ASSUME TypeOK, NEW c \in Callers, NEW b \in BOOLEAN, Record(c, b)
  PROVE  /\ recent' \in [PalletIds -> Nat \union {Never}]
         /\ answers' \in Seq(Answer)
         /\ Len(answers') = Len(answers) + 1
         /\ \A i \in 1..Len(answers) : answers'[i] = answers[i]
         /\ answers'[Len(answers) + 1] = [pallet |-> pallet[c], at |-> now[c], blocked |-> b]
         /\ recent'[pallet[c]] = now[c]
         /\ \A p \in PalletIds \ {pallet[c]} : recent'[p] = recent[p]
<1> DEFINE a == [pallet |-> pallet[c], at |-> now[c], blocked |-> b]
<1>1. a \in Answer /\ pallet[c] \in PalletIds /\ now[c] \in Nat
  BY DEF TypeOK, Answer
<1>2. answers \in Seq(Answer) /\ answers' = Append(answers, a)
  BY DEF Record, TypeOK
<1>3. recent \in [PalletIds -> Nat \union {Never}] /\ recent' = [recent EXCEPT ![pallet[c]] = now[c]]
  BY DEF Record, TypeOK
<1>4. /\ recent' \in [PalletIds -> Nat \union {Never}]
      /\ recent'[pallet[c]] = now[c]
      /\ \A p \in PalletIds \ {pallet[c]} : recent'[p] = recent[p]
  BY <1>1, <1>3
<1>5. /\ answers' \in Seq(Answer)
      /\ Len(answers') = Len(answers) + 1
      /\ \A i \in 1..Len(answers) : answers'[i] = answers[i]
      /\ answers'[Len(answers) + 1] = a
  <2> HIDE DEF a
  <2> QED
    BY <1>1, <1>2
<1> QED
  BY <1>4, <1>5

LEMMA InitTypeOK == Init => TypeOK
<1> SUFFICES ASSUME Init PROVE TypeOK
  OBVIOUS
<1>1. /\ recent \in [PalletIds -> Nat \union {Never}]
      /\ pc \in [Callers -> Steps] /\ now \in [Callers -> Nat]
      /\ toVisit \in [Callers -> SUBSET PalletIds]
  BY DEF Init, Steps
<1>2. pallet \in [Callers -> PalletIds]
  BY DEF Init
<1>3. clock \in Nat /\ calls \in Nat /\ answers \in Seq(Answer)
  BY DEF Init
<1>4. overlapped \in BOOLEAN
  BY DEF Init
<1> QED
  BY <1>1, <1>2, <1>3, <1>4 DEF TypeOK

LEMMA NextTypeOK == TypeOK /\ [Next]_vars => TypeOK'
<1> SUFFICES ASSUME TypeOK, [Next]_vars PROVE TypeOK'
  OBVIOUS
<1> USE DEF TypeOK, Steps, Goto
<1>1. ASSUME NEW c \in Callers, NEW p \in PalletIds, ReadClock(c, p)
      PROVE  TypeOK'
  BY <1>1 DEF ReadClock
<1>2. ASSUME NEW c \in Callers, LookUp(c)
      PROVE  TypeOK'
  BY <1>2 DEF LookUp
<1>3. ASSUME NEW c \in Callers, Block(c)
      PROVE  TypeOK'
  BY <1>3, RecordEffect DEF Block
<1>4. ASSUME NEW c \in Callers, Accept(c)
      PROVE  TypeOK'
  BY <1>4, RecordEffect DEF Accept
<1>5. ASSUME NEW c \in Callers, CheckCount(c)
      PROVE  TypeOK'
  BY <1>5 DEF CheckCount
<1>6. ASSUME NEW c \in Callers, NEW p \in PalletIds, VisitFresh(c, p) \/ VisitStale(c, p)
      PROVE  TypeOK'
  BY <1>6 DEF VisitFresh, VisitStale
<1>7. ASSUME NEW c \in Callers, Remove(c)
      PROVE  TypeOK'
  BY <1>7 DEF Remove
<1>8. ASSUME NEW c \in Callers, EndVisit(c)
      PROVE  TypeOK'
  BY <1>8 DEF EndVisit
<1>9. CASE Tick
  BY <1>9 DEF Tick
<1>10. CASE UNCHANGED vars
  BY <1>10 DEF vars
<1> QED
  BY <1>1, <1>2, <1>3, <1>4, <1>5, <1>6, <1>7, <1>8, <1>9, <1>10 DEF Next, Step

\* The state of the guard is always well typed.
THEOREM GuardTypeCorrect == Spec => []TypeOK
BY InitTypeOK, NextTypeOK, PTL DEF Spec

-----------------------------------------------------------------------------
(* No invented duplicates: what the table holds was recorded, and a thread *)
(* on its way to refusing a scan has seen a record that justifies it.      *)

Seen(p, t) == \E i \in 1..Len(answers) : answers[i].pallet = p /\ answers[i].at >= t

TableRecorded == \A p \in PalletIds : recent[p] # Never => Seen(p, recent[p])

BlockersSaw == \A c \in Callers : pc[c] = "block" => Seen(pallet[c], Threshold(c))

JustifiedInv == TypeOK /\ TableRecorded /\ BlockersSaw /\ BlocksAreJustified

LEMMA InitJustified == Init => JustifiedInv
BY InitTypeOK DEF Init, JustifiedInv, TableRecorded, BlockersSaw, BlocksAreJustified

\* A step that records nothing keeps what was seen.
LEMMA SameAnswers ==
  ASSUME JustifiedInv, answers' = answers,
         \A p \in PalletIds : recent'[p] \in {recent[p], Never},
         \A c \in Callers : pc'[c] = "block" =>
           /\ pc[c] \in {"block", "lookup"} /\ pallet'[c] = pallet[c] /\ now'[c] = now[c]
           /\ pc[c] = "lookup" => InWindow(c)
  PROVE  TableRecorded' /\ BlockersSaw' /\ BlocksAreJustified'
<1>1. TableRecorded'
  BY DEF JustifiedInv, TableRecorded, Seen
<1>2. ASSUME NEW c \in Callers, pc'[c] = "block"
      PROVE  Seen(pallet[c], Threshold(c))
  <2>1. CASE pc[c] = "block"
    BY <2>1 DEF JustifiedInv, BlockersSaw
  <2>2. CASE pc[c] = "lookup"
    <3>1. /\ recent[pallet[c]] # Never /\ recent[pallet[c]] >= Threshold(c)
          /\ pallet[c] \in PalletIds
      BY <1>2, <2>2 DEF InWindow, JustifiedInv, TypeOK
    <3>2. PICK i \in 1..Len(answers) :
            answers[i].pallet = pallet[c] /\ answers[i].at >= recent[pallet[c]]
      BY <3>1 DEF JustifiedInv, TableRecorded, Seen
    <3>3. answers[i].at \in Int /\ recent[pallet[c]] \in Int /\ Threshold(c) \in Int
      <4>1. answers[i] \in Answer
        BY DEF JustifiedInv, TypeOK
      <4>2. answers[i].at \in Nat
        BY <4>1 DEF Answer
      <4> QED
        BY <3>1, <4>2, WindowAssumption DEF JustifiedInv, TypeOK, Threshold, Never
    <3>4. answers[i].at >= Threshold(c)
      BY <3>1, <3>2, <3>3
    <3> QED
      BY <3>2, <3>4 DEF Seen
  <2> QED
    BY <1>2, <2>1, <2>2
<1>3. BlockersSaw'
  BY <1>2 DEF BlockersSaw, Seen, Threshold
<1>4. BlocksAreJustified'
  BY DEF JustifiedInv, BlocksAreJustified, Repeats
<1> QED
  BY <1>1, <1>3, <1>4

LEMMA RecordJustified ==
  ASSUME JustifiedInv, NEW c \in Callers, NEW b \in BOOLEAN, Record(c, b),
         b => pc[c] = "block",
         \A d \in Callers : pc'[d] = "block" =>
           pc[d] = "block" /\ pallet'[d] = pallet[d] /\ now'[d] = now[d]
  PROVE  TableRecorded' /\ BlockersSaw' /\ BlocksAreJustified'
<1>1. PICK L \in Nat : L = Len(answers)
  BY DEF JustifiedInv, TypeOK
<1>2. /\ Len(answers') = L + 1
      /\ \A i \in 1..L : answers'[i] = answers[i] /\ i \in 1..(L + 1)
      /\ answers'[L + 1].pallet = pallet[c] /\ answers'[L + 1].at = now[c]
      /\ answers'[L + 1].blocked = b
      /\ recent'[pallet[c]] = now[c]
      /\ \A p \in PalletIds \ {pallet[c]} : recent'[p] = recent[p]
  <2>1. /\ Len(answers') = Len(answers) + 1
        /\ \A i \in 1..Len(answers) : answers'[i] = answers[i]
        /\ answers'[Len(answers) + 1] = [pallet |-> pallet[c], at |-> now[c], blocked |-> b]
        /\ recent'[pallet[c]] = now[c]
        /\ \A p \in PalletIds \ {pallet[c]} : recent'[p] = recent[p]
    BY RecordEffect DEF JustifiedInv
  <2>2. \A i \in 1..L : i \in 1..(L + 1)
    OBVIOUS
  <2> QED
    BY <1>1, <2>1, <2>2
<1>3. ASSUME NEW p, NEW t, Seen(p, t)
      PROVE  Seen(p, t)'
  BY <1>1, <1>2, <1>3 DEF Seen
<1>4. TableRecorded'
  <2>1. ASSUME NEW p \in PalletIds, recent'[p] # Never
        PROVE  \E i \in 1..Len(answers') : answers'[i].pallet = p /\ answers'[i].at >= recent'[p]
    <3>1. CASE p = pallet[c]
      <4>1. now[c] >= now[c] /\ L + 1 \in 1..Len(answers')
        BY <1>2 DEF JustifiedInv, TypeOK
      <4> QED
        BY <1>2, <3>1, <4>1
    <3>2. CASE p # pallet[c]
      <4>1. Seen(p, recent[p]) /\ recent'[p] = recent[p]
        BY <1>2, <2>1, <3>2 DEF JustifiedInv, TableRecorded
      <4> QED
        BY <1>1, <1>2, <4>1 DEF Seen
    <3> QED
      BY <3>1, <3>2
  <2> QED
    BY <2>1 DEF TableRecorded, Seen
<1>5. BlockersSaw'
  <2>1. ASSUME NEW d \in Callers, pc'[d] = "block"
        PROVE  \E i \in 1..Len(answers') :
                 answers'[i].pallet = pallet'[d] /\ answers'[i].at >= now'[d] - Window
    <3>1. Seen(pallet[d], Threshold(d)) /\ pallet'[d] = pallet[d] /\ now'[d] = now[d]
      BY <2>1 DEF JustifiedInv, BlockersSaw
    <3> QED
      BY <1>1, <1>2, <3>1 DEF Seen, Threshold
  <2> QED
    BY <2>1 DEF BlockersSaw, Seen, Threshold
<1>6. BlocksAreJustified'
  <2>1. ASSUME NEW j \in 1..Len(answers'), answers'[j].blocked
        PROVE  \E i \in 1..Len(answers') : Repeats(i, j)'
    <3>1. CASE j = L + 1
      <4>1. PICK i \in 1..L : answers[i].pallet = pallet[c] /\ answers[i].at >= now[c] - Window
        BY <1>1, <1>2, <2>1, <3>1 DEF JustifiedInv, BlockersSaw, Seen, Threshold
      <4> QED
        BY <1>2, <3>1, <4>1 DEF Repeats
    <3>2. CASE j \in 1..L
      <4>1. PICK i \in 1..L : Repeats(i, j)
        BY <1>1, <1>2, <2>1, <3>2 DEF JustifiedInv, BlocksAreJustified
      <4> QED
        BY <1>2, <3>2, <4>1 DEF Repeats
    <3> QED
      BY <1>2, <3>1, <3>2
  <2> QED
    BY <2>1 DEF BlocksAreJustified
<1> QED
  BY <1>4, <1>5, <1>6

LEMMA NextJustified == JustifiedInv /\ [Next]_vars => JustifiedInv'
<1> SUFFICES ASSUME JustifiedInv, [Next]_vars PROVE JustifiedInv'
  OBVIOUS
<1>0. TypeOK /\ TypeOK'
  BY NextTypeOK DEF JustifiedInv
<1> DEFINE Goal == TableRecorded' /\ BlockersSaw' /\ BlocksAreJustified'
<1>1. ASSUME NEW c \in Callers, NEW p \in PalletIds, ReadClock(c, p)
      PROVE  Goal
  <2>1. /\ answers' = answers /\ recent' = recent
        /\ \A d \in Callers : pc'[d] = "block" =>
             pc[d] = "block" /\ pallet'[d] = pallet[d] /\ now'[d] = now[d]
    BY <1>0, <1>1 DEF ReadClock, Goto, TypeOK
  <2> QED
    BY <2>1, SameAnswers
<1>2. ASSUME NEW c \in Callers, LookUp(c)
      PROVE  Goal
  <2>1. /\ answers' = answers /\ recent' = recent /\ pallet' = pallet /\ now' = now
        /\ \A d \in Callers : pc'[d] = "block" =>
             pc[d] = "block" \/ (pc[d] = "lookup" /\ InWindow(d))
    BY <1>0, <1>2 DEF LookUp, Goto, TypeOK
  <2> QED
    BY <2>1, SameAnswers
<1>3. ASSUME NEW c \in Callers, Block(c)
      PROVE  Goal
  <2>1. /\ Record(c, TRUE) /\ pc[c] = "block" /\ pallet' = pallet /\ now' = now
        /\ \A d \in Callers : pc'[d] = "block" => pc[d] = "block"
    BY <1>0, <1>3 DEF Block, Goto, TypeOK
  <2> QED
    BY <2>1, RecordJustified
<1>4. ASSUME NEW c \in Callers, Accept(c)
      PROVE  Goal
  <2>1. /\ Record(c, FALSE) /\ pallet' = pallet /\ now' = now
        /\ \A d \in Callers : pc'[d] = "block" => pc[d] = "block"
    BY <1>0, <1>4 DEF Accept, Goto, TypeOK
  <2> QED
    BY <2>1, RecordJustified
<1>5. ASSUME NEW c \in Callers, CheckCount(c) \/ EndVisit(c)
      PROVE  Goal
  <2>1. /\ answers' = answers /\ recent' = recent /\ pallet' = pallet /\ now' = now
        /\ \A d \in Callers : pc'[d] = "block" => pc[d] = "block"
    BY <1>0, <1>5 DEF CheckCount, EndVisit, Goto, TypeOK
  <2> QED
    BY <2>1, SameAnswers
<1>6. ASSUME NEW c \in Callers, NEW p \in PalletIds, VisitFresh(c, p) \/ VisitStale(c, p)
      PROVE  Goal
  <2>1. /\ answers' = answers /\ recent' = recent
        /\ \A d \in Callers : pc'[d] = "block" =>
             pc[d] = "block" /\ pallet'[d] = pallet[d] /\ now'[d] = now[d]
    BY <1>0, <1>6 DEF VisitFresh, VisitStale, Goto, TypeOK
  <2> QED
    BY <2>1, SameAnswers
<1>7. ASSUME NEW c \in Callers, Remove(c)
      PROVE  Goal
  <2>1. /\ answers' = answers /\ pallet' = pallet /\ now' = now
        /\ \A p \in PalletIds : recent'[p] \in {recent[p], Never}
        /\ \A d \in Callers : pc'[d] = "block" => pc[d] = "block"
    BY <1>0, <1>7 DEF Remove, Goto, TypeOK
  <2> QED
    BY <2>1, SameAnswers
<1>8. ASSUME Tick \/ UNCHANGED vars
      PROVE  Goal
  BY <1>8, SameAnswers DEF Tick, vars
<1> QED
  BY <1>0, <1>1, <1>2, <1>3, <1>4, <1>5, <1>6, <1>7, <1>8 DEF Next, Step, JustifiedInv

\* The guard refuses no scan without an earlier scan of the same pallet in the
\* window, whatever the threads inside IsBlocked do to each other's records.
THEOREM GuardInventsNoDuplicates == Spec => []BlocksAreJustified
<1>1. JustifiedInv => BlocksAreJustified
  BY DEF JustifiedInv
<1> QED
  BY <1>1, InitJustified, NextJustified, PTL DEF Spec

-----------------------------------------------------------------------------
(* Calls that do not overlap.  Then the threshold only rises from call to  *)
(* call, so a scan that the clean-up forgets, or that a later scan         *)
(* overwrites, stays forgotten for a reason: it is older than every window *)
(* to come.  Below, m is the time of the newest call.                      *)

Times(m) ==
  /\ m <= clock
  /\ \A i \in 1..Len(answers) : answers[i].at <= m

Kept(m) ==
  \A i \in 1..Len(answers) :
    answers[i].at <= recent[answers[i].pallet] \/ answers[i].at < m - Window

Busy(c) == pc[c] # "idle"

OneBusy(m) ==
  \A c \in Callers : Busy(c) => now[c] = m /\ \A d \in Callers \ {c} : ~Busy(d)

AcceptIsFresh(m) ==
  \A c \in Callers : pc[c] = "accept" =>
    \A i \in 1..Len(answers) : answers[i].pallet = pallet[c] => answers[i].at < m - Window

RemoveIsStale(m) ==
  \A c \in Callers : pc[c] = "remove" => recent[pallet[c]] < m - Window

AcceptedAreFresh ==
  \A i, j \in 1..Len(answers) : Repeats(i, j) => answers[j].blocked

Serial(m) ==
  /\ Times(m) /\ Kept(m) /\ OneBusy(m) /\ AcceptIsFresh(m) /\ RemoveIsStale(m)
  /\ AcceptedAreFresh

SerialInv == JustifiedInv /\ (~overlapped => \E m \in Nat : Serial(m))

LEMMA AnswerTypes ==
  ASSUME TypeOK
  PROVE  \A i \in 1..Len(answers) : answers[i].pallet \in PalletIds /\ answers[i].at \in Nat
<1>1. \A i \in 1..Len(answers) : answers[i] \in Answer
  BY DEF TypeOK
<1> QED
  BY <1>1 DEF Answer

LEMMA InitSerial == Init => SerialInv
<1> SUFFICES ASSUME Init PROVE SerialInv
  OBVIOUS
<1>1. JustifiedInv /\ Len(answers) = 0 /\ clock = 0 /\ \A c \in Callers : pc[c] = "idle"
  BY InitJustified DEF Init
<1>2. Serial(0)
  BY <1>1 DEF Serial, Times, Kept, OneBusy, Busy, AcceptIsFresh, RemoveIsStale, AcceptedAreFresh
<1> QED
  BY <1>1, <1>2 DEF SerialInv

\* Steps that record nothing.
LEMMA SerialQuiet ==
  ASSUME TypeOK, NEW m \in Nat, NEW k \in Nat, Times(m), Kept(m), AcceptedAreFresh,
         answers' = answers, k >= m, k <= clock',
         \/ recent' = recent
         \/ \E p \in PalletIds :
              recent[p] < m - Window /\ recent' = [recent EXCEPT ![p] = Never]
  PROVE  Times(k)' /\ Kept(k)' /\ AcceptedAreFresh'
<1>1. /\ m - Window \in Int /\ k - Window \in Int /\ k - Window >= m - Window
  BY WindowAssumption
<1>2. Times(k)'
  BY AnswerTypes DEF Times
<1>3. ASSUME NEW i \in 1..Len(answers)
      PROVE  answers[i].at <= recent'[answers[i].pallet] \/ answers[i].at < k - Window
  <2>1. /\ answers[i].at <= recent[answers[i].pallet] \/ answers[i].at < m - Window
        /\ answers[i].at \in Nat /\ answers[i].pallet \in PalletIds
    BY AnswerTypes DEF Kept
  <2>2. CASE recent' = recent
    BY <1>1, <2>1, <2>2
  <2>3. ASSUME NEW p \in PalletIds, recent[p] < m - Window,
               recent' = [recent EXCEPT ![p] = Never]
        PROVE  answers[i].at <= recent'[answers[i].pallet] \/ answers[i].at < k - Window
    <3>1. CASE answers[i].pallet = p
      <4>1. recent[p] \in Int
        BY DEF TypeOK, Never
      <4> QED
        BY <1>1, <2>1, <2>3, <3>1, <4>1
    <3>2. CASE answers[i].pallet # p
      <4>1. recent'[answers[i].pallet] = recent[answers[i].pallet]
        BY <2>1, <2>3, <3>2 DEF TypeOK
      <4> QED
        BY <1>1, <2>1, <4>1
    <3> QED
      BY <3>1, <3>2
  <2> QED
    BY <2>2, <2>3
<1>4. Kept(k)'
  BY <1>3 DEF Kept
<1>5. AcceptedAreFresh'
  BY DEF AcceptedAreFresh, Repeats
<1> QED
  BY <1>2, <1>4, <1>5

LEMMA SerialRecord ==
  ASSUME TypeOK, NEW m \in Nat, Serial(m), NEW c \in Callers, NEW b \in BOOLEAN, Record(c, b),
         Busy(c), ~b => pc[c] = "accept", now' = now, clock' = clock
  PROVE  Times(m)' /\ Kept(m)' /\ AcceptedAreFresh'
<1>1. PICK L \in Nat : L = Len(answers)
  BY DEF TypeOK
<1>2. /\ Len(answers') = L + 1
      /\ \A i \in 1..L : answers'[i] = answers[i]
      /\ answers'[L + 1] = [pallet |-> pallet[c], at |-> now[c], blocked |-> b]
      /\ recent'[pallet[c]] = now[c]
      /\ \A p \in PalletIds \ {pallet[c]} : recent'[p] = recent[p]
  BY <1>1, RecordEffect
<1>3. /\ now[c] = m
      /\ answers'[L + 1].pallet = pallet[c] /\ answers'[L + 1].at = m
      /\ answers'[L + 1].blocked = b
      /\ \A i \in 1..(L + 1) : i \in 1..L \/ i = L + 1
  BY <1>2 DEF Serial, OneBusy
<1>4. /\ m <= clock
      /\ \A i \in 1..L : /\ answers[i].at \in Nat /\ answers[i].at <= m
                         /\ answers[i].pallet \in PalletIds
                         /\ \/ answers[i].at <= recent[answers[i].pallet]
                            \/ answers[i].at < m - Window
  BY <1>1, AnswerTypes DEF Serial, Times, Kept
<1>5. Times(m)'
  <2>1. ASSUME NEW i \in 1..(L + 1)
        PROVE  answers'[i].at <= m
    BY <1>2, <1>3, <1>4
  <2> QED
    BY <1>2, <1>4, <2>1 DEF Times
<1>6. Kept(m)'
  <2>1. ASSUME NEW i \in 1..(L + 1)
        PROVE  answers'[i].at <= recent'[answers'[i].pallet] \/ answers'[i].at < m - Window
    <3>1. CASE i = L + 1
      BY <1>2, <1>3, <1>4, <3>1
    <3>2. CASE i \in 1..L /\ answers[i].pallet = pallet[c]
      BY <1>2, <1>3, <1>4, <3>2
    <3>3. CASE i \in 1..L /\ answers[i].pallet # pallet[c]
      BY <1>2, <1>4, <3>3
    <3> QED
      BY <1>3, <3>1, <3>2, <3>3
  <2> QED
    BY <1>2, <2>1 DEF Kept
<1>7. AcceptedAreFresh'
  <2>1. ASSUME NEW i \in 1..(L + 1), NEW j \in 1..(L + 1), Repeats(i, j)'
        PROVE  answers'[j].blocked
    <3>0. i < j /\ i \in 1..L
      BY <1>3, <2>1 DEF Repeats
    <3>1. CASE j \in 1..L
      <4>1. Repeats(i, j)
        BY <1>2, <2>1, <3>0, <3>1 DEF Repeats
      <4> QED
        BY <1>1, <1>2, <3>0, <3>1, <4>1 DEF Serial, AcceptedAreFresh
    <3>2. CASE j = L + 1
      <4>1. answers[i].pallet = pallet[c] /\ answers[i].at >= m - Window
        BY <1>2, <1>3, <2>1, <3>0, <3>2 DEF Repeats
      <4>2. m - Window \in Int
        BY WindowAssumption
      <4>3. b
        BY <1>1, <1>4, <3>0, <4>1, <4>2 DEF Serial, AcceptIsFresh
      <4> QED
        BY <1>3, <3>2, <4>3
    <3> QED
      BY <1>3, <3>1, <3>2
  <2> QED
    BY <1>2, <2>1 DEF AcceptedAreFresh
<1> QED
  BY <1>5, <1>6, <1>7

\* A call that begins while no other is under way is the newest.
LEMMA SerialReadClock ==
  ASSUME TypeOK, NEW m \in Nat, Serial(m), NEW k \in Nat, k = clock,
         NEW c \in Callers, NEW p \in PalletIds, ReadClock(c, p), Quiet
  PROVE  Serial(k)'
<1>1. /\ answers' = answers /\ recent' = recent /\ clock' = k
      /\ now'[c] = k /\ pc'[c] = "lookup"
      /\ \A d \in Callers \ {c} : pc'[d] = "idle"
  BY DEF ReadClock, Goto, Quiet, TypeOK
<1>2. k >= m /\ k <= clock'
  BY <1>1 DEF Serial, Times
<1>3. Times(k)' /\ Kept(k)' /\ AcceptedAreFresh'
  BY <1>1, <1>2, SerialQuiet DEF Serial
<1>4. OneBusy(k)' /\ AcceptIsFresh(k)' /\ RemoveIsStale(k)'
  BY <1>1 DEF OneBusy, Busy, AcceptIsFresh, RemoveIsStale
<1> QED
  BY <1>3, <1>4 DEF Serial

\* A step of the call under way leaves the others idle.
LEMMA SerialStep ==
  ASSUME TypeOK, NEW m \in Nat, Serial(m), NEW c \in Callers, Busy(c), NEW x,
         pc' = [pc EXCEPT ![c] = x], now' = now,
         Times(m)', Kept(m)', AcceptedAreFresh',
         x = "accept" => \A i \in 1..Len(answers') :
           answers'[i].pallet = pallet'[c] => answers'[i].at < m - Window,
         x = "remove" => recent'[pallet'[c]] < m - Window
  PROVE  Serial(m)'
<1>1. pc'[c] = x /\ now'[c] = m /\ \A d \in Callers \ {c} : pc'[d] = "idle"
  BY DEF TypeOK, Serial, OneBusy, Busy
<1>2. OneBusy(m)' /\ AcceptIsFresh(m)' /\ RemoveIsStale(m)'
  BY <1>1 DEF OneBusy, Busy, AcceptIsFresh, RemoveIsStale
<1> QED
  BY <1>2 DEF Serial

LEMMA NextSerial == SerialInv /\ [Next]_vars => SerialInv'
<1> SUFFICES ASSUME SerialInv, [Next]_vars, ~overlapped' PROVE \E m \in Nat : Serial(m)'
  BY NextJustified DEF SerialInv
<1>0. TypeOK /\ ~overlapped
  <2>1. ASSUME NEW c \in Callers, NEW p \in PalletIds, ReadClock(c, p)
        PROVE  ~overlapped
    BY <2>1 DEF ReadClock
  <2>2. ASSUME NEW c \in Callers, Step(c)
        PROVE  overlapped' = overlapped
    BY <2>2 DEF Step, LookUp, Block, Accept, CheckCount, VisitFresh, VisitStale, Remove, EndVisit
  <2>3. ASSUME Tick \/ UNCHANGED vars
        PROVE  overlapped' = overlapped
    BY <2>3 DEF Tick, vars
  <2>4. ~overlapped
    BY <2>1, <2>2, <2>3 DEF Next
  <2> QED
    BY <2>4 DEF SerialInv, JustifiedInv
<1>1. PICK m \in Nat : Serial(m)
  BY <1>0 DEF SerialInv
<1>2. /\ m <= clock /\ clock \in Nat /\ m >= m /\ m - Window \in Int
      /\ Times(m) /\ Kept(m) /\ AcceptedAreFresh /\ AcceptIsFresh(m) /\ RemoveIsStale(m)
  BY <1>0, <1>1, WindowAssumption DEF Serial, Times, TypeOK
<1>3. ASSUME NEW c \in Callers, NEW p \in PalletIds, ReadClock(c, p)
      PROVE  \E k \in Nat : Serial(k)'
  <2>1. Quiet
    BY <1>0, <1>3 DEF ReadClock
  <2>2. PICK k \in Nat : k = clock
    BY <1>2
  <2>3. Serial(k)'
    BY <1>0, <1>1, <1>3, <2>1, <2>2, SerialReadClock
  <2> QED
    BY <2>3
<1>4. ASSUME NEW c \in Callers, LookUp(c)
      PROVE  Serial(m)'
  <2>1. /\ answers' = answers /\ recent' = recent /\ clock' = clock /\ now' = now
        /\ pallet' = pallet /\ Busy(c) /\ now[c] = m
        /\ pc' = [pc EXCEPT ![c] = IF InWindow(c) THEN "block" ELSE "accept"]
    BY <1>1, <1>4 DEF LookUp, Goto, Busy, Serial, OneBusy
  <2>2. ASSUME ~InWindow(c), NEW i \in 1..Len(answers), answers[i].pallet = pallet[c]
        PROVE  answers[i].at < m - Window
    <3>1. /\ answers[i].at \in Nat /\ pallet[c] \in PalletIds
          /\ answers[i].at <= recent[pallet[c]] \/ answers[i].at < m - Window
      BY <1>0, <1>2, <2>2, AnswerTypes DEF Kept
    <3>2. recent[pallet[c]] \in Nat \union {-1}
      BY <1>0, <3>1 DEF TypeOK, Never
    <3>3. recent[pallet[c]] = -1 \/ recent[pallet[c]] < m - Window
      BY <1>2, <2>1, <2>2, <3>2 DEF InWindow, Never, Threshold
    <3> QED
      BY <1>2, <3>1, <3>2, <3>3
  <2>3. Times(m)' /\ Kept(m)' /\ AcceptedAreFresh'
    BY <1>0, <1>2, <2>1, SerialQuiet
  <2>4. CASE InWindow(c)
    BY <1>0, <1>1, <2>1, <2>3, <2>4, SerialStep
  <2>5. CASE ~InWindow(c)
    BY <1>0, <1>1, <2>1, <2>2, <2>3, <2>5, SerialStep
  <2> QED
    BY <2>4, <2>5
<1>5. ASSUME NEW c \in Callers, Block(c)
      PROVE  Serial(m)'
  <2>1. /\ Record(c, TRUE) /\ clock' = clock /\ now' = now /\ Busy(c)
        /\ pc' = [pc EXCEPT ![c] = "idle"]
    BY <1>5 DEF Block, Goto, Busy
  <2>2. Times(m)' /\ Kept(m)' /\ AcceptedAreFresh'
    BY <1>0, <1>1, <2>1, SerialRecord
  <2> QED
    BY <1>0, <1>1, <2>1, <2>2, SerialStep
<1>6. ASSUME NEW c \in Callers, Accept(c)
      PROVE  Serial(m)'
  <2>1. /\ Record(c, FALSE) /\ clock' = clock /\ now' = now /\ Busy(c) /\ pc[c] = "accept"
        /\ pc' = [pc EXCEPT ![c] = "count"]
    BY <1>6 DEF Accept, Goto, Busy
  <2>2. Times(m)' /\ Kept(m)' /\ AcceptedAreFresh'
    BY <1>0, <1>1, <2>1, SerialRecord
  <2> QED
    BY <1>0, <1>1, <2>1, <2>2, SerialStep
<1>7. ASSUME NEW c \in Callers, CheckCount(c) \/ EndVisit(c)
      PROVE  Serial(m)'
  <2>1. /\ answers' = answers /\ recent' = recent /\ clock' = clock /\ now' = now /\ Busy(c)
        /\ \E x \in {"idle", "visit"} : pc' = [pc EXCEPT ![c] = x]
    BY <1>7 DEF CheckCount, EndVisit, Goto, Busy
  <2>2. Times(m)' /\ Kept(m)' /\ AcceptedAreFresh'
    BY <1>0, <1>2, <2>1, SerialQuiet
  <2> QED
    BY <1>0, <1>1, <2>1, <2>2, SerialStep
<1>8. ASSUME NEW c \in Callers, NEW p \in PalletIds, VisitFresh(c, p)
      PROVE  Serial(m)'
  <2>1. /\ answers' = answers /\ recent' = recent /\ clock' = clock /\ now' = now /\ Busy(c)
        /\ pc[c] = "visit" /\ pc' = pc
    BY <1>8 DEF VisitFresh, Busy
  <2>2. pc' = [pc EXCEPT ![c] = "visit"]
    BY <1>0, <2>1 DEF TypeOK
  <2>3. Times(m)' /\ Kept(m)' /\ AcceptedAreFresh'
    BY <1>0, <1>2, <2>1, SerialQuiet
  <2> QED
    BY <1>0, <1>1, <2>1, <2>2, <2>3, SerialStep
<1>9. ASSUME NEW c \in Callers, NEW p \in PalletIds, VisitStale(c, p)
      PROVE  Serial(m)'
  <2>1. /\ answers' = answers /\ recent' = recent /\ clock' = clock /\ now' = now /\ Busy(c)
        /\ pc' = [pc EXCEPT ![c] = "remove"] /\ pallet'[c] = p /\ Stale(c, p)
    BY <1>0, <1>9 DEF VisitStale, Goto, Busy, TypeOK
  <2>2. recent'[pallet'[c]] < m - Window
    BY <1>1, <2>1 DEF Stale, Threshold, Serial, OneBusy
  <2>3. Times(m)' /\ Kept(m)' /\ AcceptedAreFresh'
    BY <1>0, <1>2, <2>1, SerialQuiet
  <2> QED
    BY <1>0, <1>1, <2>1, <2>2, <2>3, SerialStep
<1>10. ASSUME NEW c \in Callers, Remove(c)
       PROVE  Serial(m)'
  <2>1. /\ answers' = answers /\ clock' = clock /\ now' = now /\ Busy(c)
        /\ pc' = [pc EXCEPT ![c] = "visit"]
        /\ recent' = [recent EXCEPT ![pallet[c]] = Never]
        /\ pallet[c] \in PalletIds /\ recent[pallet[c]] < m - Window
    BY <1>0, <1>2, <1>10 DEF Remove, Goto, Busy, TypeOK, RemoveIsStale
  <2>2. Times(m)' /\ Kept(m)' /\ AcceptedAreFresh'
    BY <1>0, <1>2, <2>1, SerialQuiet
  <2> QED
    BY <1>0, <1>1, <2>1, <2>2, SerialStep
<1>11. ASSUME Tick \/ UNCHANGED vars
       PROVE  Serial(m)'
  <2>1. /\ answers' = answers /\ recent' = recent /\ now' = now /\ pc' = pc /\ pallet' = pallet
        /\ clock' \in {clock, clock + 1}
    BY <1>11 DEF Tick, vars
  <2>2. m <= clock'
    BY <1>2, <2>1
  <2>3. Times(m)' /\ Kept(m)' /\ AcceptedAreFresh'
    BY <1>0, <1>2, <2>1, <2>2, SerialQuiet
  <2> QED
    BY <1>1, <2>1, <2>3 DEF Serial, OneBusy, Busy, AcceptIsFresh, RemoveIsStale
<1> QED
  BY <1>3, <1>4, <1>5, <1>6, <1>7, <1>8, <1>9, <1>10, <1>11 DEF Next, Step

\* As long as no two calls overlap, the guard answers as if it remembered every
\* scan for ever, whatever its clean-up forgets and whichever threads call it.
THEOREM SerialGuardIsExact == Spec => []AnswersMatchHistory
<1>1. SerialInv => AnswersMatchHistory
  BY DEF SerialInv, Serial, JustifiedInv, BlocksAreJustified, AcceptedAreFresh,
         AnswersMatchHistory
<1> QED
  BY <1>1, InitSerial, NextSerial, PTL DEF Spec

-----------------------------------------------------------------------------
(* The size of the table.  While no calls overlap, the table is swept when *)
(* no call is between recording an accepted scan and the end of its        *)
(* clean-up; in between, what that clean-up has passed is in the window.   *)

SweptSince ==
  \E i \in 1..Len(answers) :
    /\ ~answers[i].blocked
    /\ \A j \in (i + 1)..Len(answers) : answers[j].blocked
    /\ \A p \in Recorded : recent[p] >= answers[i].at - Window

Swept == Cardinality(Recorded) <= CleanupLimit \/ SweptSince

SweepSteps == {"count", "visit", "remove"}

JustAccepted(c) ==
  /\ Len(answers) > 0
  /\ ~answers[Len(answers)].blocked
  /\ answers[Len(answers)].at = now[c]

PassedAreFresh(c) == \A p \in Recorded \ toVisit[c] : recent[p] >= Threshold(c)

Sweep ==
  /\ \A c \in Callers : /\ pc[c] \in SweepSteps => JustAccepted(c)
                        /\ pc[c] \in {"visit", "remove"} => PassedAreFresh(c)
                        /\ pc[c] = "block" => pallet[c] \in Recorded
  /\ (\A c \in Callers : pc[c] \notin SweepSteps) => Swept

SweepInv == SerialInv /\ IsFiniteSet(Recorded) /\ (~overlapped => Sweep)

LEMMA InitSweep == Init => SweepInv
<1> SUFFICES ASSUME Init PROVE SweepInv
  OBVIOUS
<1>1. Recorded = {} /\ \A c \in Callers : pc[c] = "idle"
  BY DEF Init, Recorded
<1>2. IsFiniteSet(Recorded) /\ Cardinality(Recorded) = 0
  BY <1>1, FS_EmptySet
<1>3. Sweep
  BY <1>1, <1>2, GuardBoundsAssumption DEF Sweep, SweepSteps, Swept
<1> QED
  BY <1>2, <1>3, InitSerial DEF SweepInv

\* A step adds at most one pallet to the table.
LEMMA RecordedStaysFinite ==
  ASSUME TypeOK, IsFiniteSet(Recorded), [Next]_vars
  PROVE  IsFiniteSet(Recorded')
<1>1. ASSUME recent' = recent
      PROVE  Recorded' = Recorded
  BY <1>1 DEF Recorded
<1>2. ASSUME NEW c \in Callers, NEW b \in BOOLEAN, Record(c, b)
      PROVE  Recorded' \subseteq Recorded \union {pallet[c]}
  BY <1>2, RecordEffect DEF Recorded
<1>3. ASSUME NEW c \in Callers, Remove(c)
      PROVE  Recorded' \subseteq Recorded
  BY <1>3 DEF Remove, Recorded, TypeOK
<1>4. \/ recent' = recent
      \/ \E c \in Callers : Remove(c) \/ \E b \in BOOLEAN : Record(c, b)
  BY DEF Next, Step, vars, ReadClock, LookUp, Block, Accept, CheckCount, VisitFresh, VisitStale,
         EndVisit, Tick
<1>5. \A p : IsFiniteSet(Recorded \union {p})
  BY FS_AddElement
<1> QED
  BY <1>1, <1>2, <1>3, <1>4, <1>5, FS_Subset

\* A step of the call under way, when no other is.
LEMMA SweepStep ==
  ASSUME TypeOK, NEW m \in Nat, Serial(m), NEW c \in Callers, Busy(c), NEW x,
         pc' = [pc EXCEPT ![c] = x],
         x \in SweepSteps => JustAccepted(c)',
         x \in {"visit", "remove"} => PassedAreFresh(c)',
         x = "block" => pallet'[c] \in Recorded',
         x \notin SweepSteps => Swept'
  PROVE  Sweep'
<1>1. pc'[c] = x /\ \A d \in Callers \ {c} : pc'[d] = "idle"
  BY DEF TypeOK, Serial, OneBusy, Busy
<1>2. ASSUME NEW d \in Callers
      PROVE  /\ pc'[d] \in SweepSteps => JustAccepted(d)'
             /\ pc'[d] \in {"visit", "remove"} => PassedAreFresh(d)'
             /\ pc'[d] = "block" => pallet'[d] \in Recorded'
  <2>1. CASE d = c
    BY <1>1, <2>1
  <2>2. CASE d # c
    BY <1>1, <2>2 DEF SweepSteps
  <2> QED
    BY <2>1, <2>2
<1>3. (\A d \in Callers : pc'[d] \notin SweepSteps) => Swept'
  BY <1>1
<1> QED
  BY <1>2, <1>3 DEF Sweep

LEMMA SameSwept ==
  ASSUME recent' = recent, answers' = answers, Swept
  PROVE  Swept'
BY DEF Swept, SweptSince, Recorded

\* A refused scan renews the record of a pallet that has one.
LEMMA BlockKeepsSwept ==
  ASSUME TypeOK, NEW m \in Nat, Serial(m), NEW c \in Callers, Busy(c), Record(c, TRUE),
         pallet[c] \in Recorded, Swept
  PROVE  Swept'
<1>1. PICK L \in Nat : L = Len(answers)
  BY DEF TypeOK
<1>2. /\ Len(answers') = L + 1
      /\ \A i \in 1..L : answers'[i] = answers[i]
      /\ answers'[L + 1] = [pallet |-> pallet[c], at |-> now[c], blocked |-> TRUE]
      /\ recent'[pallet[c]] = now[c]
      /\ \A p \in PalletIds \ {pallet[c]} : recent'[p] = recent[p]
  BY <1>1, RecordEffect
<1>3. answers'[L + 1].blocked /\ now[c] = m /\ now[c] # Never
  BY <1>2 DEF Serial, OneBusy, Never
<1>4. Recorded' = Recorded
  BY <1>2, <1>3 DEF Recorded
<1>5. CASE SweptSince
  <2>1. PICK i \in 1..L : /\ ~answers[i].blocked
                          /\ \A j \in (i + 1)..L : answers[j].blocked
                          /\ \A p \in Recorded : recent[p] >= answers[i].at - Window
    BY <1>1, <1>5 DEF SweptSince
  <2>2. /\ i \in 1..(L + 1) /\ i \in 1..L /\ ~answers'[i].blocked /\ answers'[i].at = answers[i].at
        /\ \A j \in (i + 1)..(L + 1) : j \in (i + 1)..L \/ j = L + 1
        /\ \A j \in (i + 1)..L : j \in 1..L
    BY <1>2, <2>1
  <2>3. \A j \in (i + 1)..(L + 1) : answers'[j].blocked
    BY <1>2, <1>3, <2>1, <2>2
  <2>4. m >= answers[i].at - Window
    BY <1>1, <2>2, AnswerTypes, WindowAssumption DEF Serial, Times
  <2>5. \A p \in Recorded' : recent'[p] >= answers'[i].at - Window
    <3>1. ASSUME NEW p \in Recorded
          PROVE  recent'[p] >= answers[i].at - Window
      <4>1. p \in PalletIds
        BY DEF Recorded
      <4> QED
        BY <1>2, <1>3, <2>1, <2>4, <4>1
    <3> QED
      BY <1>4, <2>2, <3>1
  <2> QED
    BY <1>2, <2>2, <2>3, <2>5 DEF Swept, SweptSince
<1>6. CASE Cardinality(Recorded) <= CleanupLimit
  BY <1>4, <1>6 DEF Swept
<1> QED
  BY <1>5, <1>6 DEF Swept

LEMMA NextSweep == SweepInv /\ [Next]_vars => SweepInv'
<1> SUFFICES ASSUME SweepInv, [Next]_vars PROVE SweepInv'
  OBVIOUS
<1>1. TypeOK /\ SerialInv' /\ IsFiniteSet(Recorded')
  <2>1. TypeOK
    BY DEF SweepInv, SerialInv, JustifiedInv
  <2> QED
    BY <2>1, NextSerial, RecordedStaysFinite DEF SweepInv
<1>2. ASSUME ~overlapped'
      PROVE  Sweep'
  <2>1. ASSUME NEW c \in Callers, NEW p \in PalletIds, ReadClock(c, p)
        PROVE  ~overlapped /\ Quiet
    BY <1>2, <2>1 DEF ReadClock
  <2>2. ASSUME NEW c \in Callers, Step(c)
        PROVE  ~overlapped
    BY <1>2, <2>2 DEF Step, LookUp, Block, Accept, CheckCount, VisitFresh, VisitStale, Remove, EndVisit
  <2>3. ASSUME Tick \/ UNCHANGED vars
        PROVE  ~overlapped
    BY <1>2, <2>3 DEF Tick, vars
  <2>4. ~overlapped
    BY <2>1, <2>2, <2>3 DEF Next
  <2>5. Sweep
    BY <2>4 DEF SweepInv
  <2>6. PICK m \in Nat : Serial(m)
    BY <2>4 DEF SweepInv, SerialInv
  \* The table is swept before the call under way has accepted its scan.
  <2>7. ASSUME NEW c \in Callers, Busy(c), pc[c] \notin SweepSteps
        PROVE  Swept
    <3>1. \A d \in Callers : d = c \/ pc[d] = "idle"
      BY <2>6, <2>7 DEF Serial, OneBusy, Busy
    <3> QED
      BY <2>5, <2>7, <3>1 DEF Sweep, SweepSteps
  <2>8. ASSUME NEW c \in Callers, NEW p \in PalletIds, ReadClock(c, p)
        PROVE  Sweep'
    <3>1. Quiet /\ recent' = recent /\ answers' = answers
      BY <2>1, <2>8 DEF ReadClock
    <3>2. Swept
      BY <2>5, <3>1 DEF Sweep, Quiet, SweepSteps
    <3>3. \A d \in Callers : pc'[d] \in {"idle", "lookup"}
      BY <1>1, <2>8, <3>1 DEF ReadClock, Goto, Quiet, TypeOK
    <3> QED
      BY <3>1, <3>2, <3>3, SameSwept DEF Sweep, SweepSteps
  <2>9. ASSUME NEW c \in Callers, LookUp(c)
        PROVE  Sweep'
    <3>1. /\ recent' = recent /\ answers' = answers /\ pallet' = pallet
          /\ Busy(c) /\ pc[c] \notin SweepSteps
      BY <2>9 DEF LookUp, Busy, SweepSteps
    <3>2. Swept'
      BY <2>7, <3>1, SameSwept
    <3>3. CASE InWindow(c)
      <4>1. pc' = [pc EXCEPT ![c] = "block"] /\ pallet'[c] \in Recorded'
        BY <1>1, <2>9, <3>1, <3>3 DEF LookUp, Goto, InWindow, Recorded, TypeOK
      <4> QED
        BY <1>1, <2>6, <3>1, <3>2, <4>1, SweepStep DEF SweepSteps
    <3>4. CASE ~InWindow(c)
      <4>1. pc' = [pc EXCEPT ![c] = "accept"]
        BY <2>9, <3>4 DEF LookUp, Goto
      <4> QED
        BY <1>1, <2>6, <3>1, <3>2, <4>1, SweepStep DEF SweepSteps
    <3> QED
      BY <3>3, <3>4
  <2>10. ASSUME NEW c \in Callers, Block(c)
         PROVE  Sweep'
    <3>1. /\ Record(c, TRUE) /\ pc' = [pc EXCEPT ![c] = "idle"]
          /\ Busy(c) /\ pc[c] \notin SweepSteps /\ pallet[c] \in Recorded
      BY <2>5, <2>10 DEF Block, Goto, Busy, SweepSteps, Sweep
    <3>2. Swept'
      BY <1>1, <2>6, <2>7, <3>1, BlockKeepsSwept
    <3> QED
      BY <1>1, <2>6, <3>1, <3>2, SweepStep DEF SweepSteps
  <2>11. ASSUME NEW c \in Callers, Accept(c)
         PROVE  Sweep'
    <3>1. Record(c, FALSE) /\ pc' = [pc EXCEPT ![c] = "count"] /\ Busy(c) /\ now' = now
      BY <2>11 DEF Accept, Goto, Busy
    <3>2. PICK L \in Nat : L = Len(answers)
      BY <1>1 DEF TypeOK
    <3>3. /\ Len(answers') = L + 1
          /\ answers'[L + 1] = [pallet |-> pallet[c], at |-> now[c], blocked |-> FALSE]
      BY <1>1, <3>1, <3>2, RecordEffect
    <3>4. JustAccepted(c)'
      BY <3>1, <3>3 DEF JustAccepted
    <3> QED
      BY <1>1, <2>6, <3>1, <3>4, SweepStep DEF SweepSteps
  <2>12. ASSUME NEW c \in Callers, CheckCount(c)
         PROVE  Sweep'
    <3>1. /\ Busy(c) /\ recent' = recent /\ answers' = answers /\ now' = now
          /\ JustAccepted(c) /\ Recorded' = Recorded
      BY <2>5, <2>12 DEF CheckCount, Busy, Sweep, SweepSteps, Recorded
    <3>2. Cardinality(Recorded) \in Nat
      BY FS_CardinalityType DEF SweepInv
    <3>3. CASE Cardinality(Recorded) > CleanupLimit
      <4>1. pc' = [pc EXCEPT ![c] = "visit"] /\ toVisit'[c] = PalletIds
        BY <1>1, <2>12, <3>3 DEF CheckCount, Goto, TypeOK
      <4>2. JustAccepted(c)' /\ PassedAreFresh(c)'
        BY <3>1, <4>1 DEF JustAccepted, PassedAreFresh, Recorded
      <4> QED
        BY <1>1, <2>6, <3>1, <4>1, <4>2, SweepStep DEF SweepSteps
    <3>4. CASE ~(Cardinality(Recorded) > CleanupLimit)
      <4>1. pc' = [pc EXCEPT ![c] = "idle"]
        BY <2>12, <3>4 DEF CheckCount, Goto
      <4>2. Swept'
        BY <3>1, <3>2, <3>4, GuardBoundsAssumption DEF Swept
      <4> QED
        BY <1>1, <2>6, <3>1, <4>1, <4>2, SweepStep DEF SweepSteps
    <3> QED
      BY <3>3, <3>4
  <2>13. ASSUME NEW c \in Callers, NEW p \in PalletIds, VisitFresh(c, p)
         PROVE  Sweep'
    <3>1. /\ Busy(c) /\ recent' = recent /\ answers' = answers /\ now' = now /\ pc' = pc
          /\ pc[c] = "visit" /\ ~Stale(c, p) /\ toVisit'[c] = toVisit[c] \ {p}
          /\ JustAccepted(c) /\ PassedAreFresh(c)
      BY <1>1, <2>5, <2>13 DEF VisitFresh, Busy, Sweep, SweepSteps, TypeOK
    <3>2. pc' = [pc EXCEPT ![c] = "visit"]
      BY <1>1, <3>1 DEF TypeOK
    <3>3. p \in Recorded => recent[p] >= Threshold(c)
      <4>1. Threshold(c) \in Int /\ recent[p] \in Int
        BY <1>1, WindowAssumption DEF Threshold, TypeOK, Never
      <4> QED
        BY <3>1, <4>1 DEF Stale, Recorded
    <3>4. PassedAreFresh(c)'
      BY <3>1, <3>3 DEF PassedAreFresh, Recorded, Threshold
    <3>5. JustAccepted(c)'
      BY <3>1 DEF JustAccepted
    <3> QED
      BY <1>1, <2>6, <3>1, <3>2, <3>4, <3>5, SweepStep DEF SweepSteps
  <2>14. ASSUME NEW c \in Callers, NEW p \in PalletIds, VisitStale(c, p)
         PROVE  Sweep'
    <3>1. /\ Busy(c) /\ recent' = recent /\ answers' = answers /\ now' = now /\ toVisit' = toVisit
          /\ pc' = [pc EXCEPT ![c] = "remove"]
          /\ JustAccepted(c) /\ PassedAreFresh(c)
      BY <2>5, <2>14 DEF VisitStale, Goto, Busy, Sweep, SweepSteps
    <3>2. JustAccepted(c)' /\ PassedAreFresh(c)'
      BY <3>1 DEF JustAccepted, PassedAreFresh, Recorded, Threshold
    <3> QED
      BY <1>1, <2>6, <3>1, <3>2, SweepStep DEF SweepSteps
  <2>15. ASSUME NEW c \in Callers, Remove(c)
         PROVE  Sweep'
    <3>1. /\ Busy(c) /\ answers' = answers /\ now' = now /\ pc' = [pc EXCEPT ![c] = "visit"]
          /\ recent' = [recent EXCEPT ![pallet[c]] = Never]
          /\ toVisit'[c] = toVisit[c] \ {pallet[c]}
          /\ JustAccepted(c) /\ PassedAreFresh(c)
      BY <1>1, <2>5, <2>15 DEF Remove, Goto, Busy, Sweep, SweepSteps, TypeOK
    <3>2. JustAccepted(c)'
      BY <3>1 DEF JustAccepted
    <3>3. PassedAreFresh(c)'
      BY <1>1, <3>1 DEF PassedAreFresh, Recorded, Threshold, TypeOK
    <3> QED
      BY <1>1, <2>6, <3>1, <3>2, <3>3, SweepStep DEF SweepSteps
  <2>16. ASSUME NEW c \in Callers, EndVisit(c)
         PROVE  Sweep'
    <3>1. /\ Busy(c) /\ recent' = recent /\ answers' = answers /\ now' = now
          /\ pc' = [pc EXCEPT ![c] = "idle"] /\ toVisit[c] = {}
          /\ JustAccepted(c) /\ PassedAreFresh(c)
      BY <2>5, <2>16 DEF EndVisit, Goto, Busy, Sweep, SweepSteps
    <3>2. PICK L \in Nat : L = Len(answers)
      BY <1>1 DEF TypeOK
    <3>3. L \in 1..L /\ (L + 1)..L = {}
      BY <3>1, <3>2 DEF JustAccepted
    <3>4. Swept
      BY <3>1, <3>2, <3>3 DEF JustAccepted, PassedAreFresh, Threshold, Swept, SweptSince
    <3>5. Swept'
      BY <3>1, <3>4, SameSwept
    <3> QED
      BY <1>1, <2>6, <3>1, <3>5, SweepStep DEF SweepSteps
  <2>17. ASSUME Tick \/ UNCHANGED vars
         PROVE  Sweep'
    <3>1. UNCHANGED <<recent, pc, pallet, now, toVisit, answers>>
      BY <2>17 DEF Tick, vars
    <3> QED
      BY <2>5, <3>1 DEF Sweep, SweepSteps, Swept, SweptSince, JustAccepted, PassedAreFresh, Recorded,
                        Threshold
  <2> QED
    BY <2>8, <2>9, <2>10, <2>11, <2>12, <2>13, <2>14, <2>15, <2>16, <2>17 DEF Next, Step
<1> QED
  BY <1>1, <1>2 DEF SweepInv

\* Between calls that do not overlap, the table is within its limit or holds only
\* pallets scanned in the window before the last accepted scan, for any limit and
\* any number of pallets.
THEOREM GuardTableIsSwept == Spec => []TableIsSwept
<1>1. SweepInv => TableIsSwept
  BY DEF SweepInv, Sweep, Swept, SweptSince, SweepSteps, TableIsSwept, Quiet
<1> QED
  BY <1>1, InitSweep, NextSweep, PTL DEF Spec
=============================================================================

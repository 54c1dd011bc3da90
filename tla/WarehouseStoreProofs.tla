------------------------ MODULE WarehouseStoreProofs ------------------------
(***************************************************************************)
(* Theorems about WarehouseStore, for every set of products, expiry dates  *)
(* and quantities, every variant limit and every bound: types, rules, stock *)
(* and undo, and that the tables implement the ledger.                     *)
(*                                                                         *)
(* Two things need care.  Totals and item rows are sums of bookings, which *)
(* are taken apart one booking at a time (FiniteSums).  And the tables     *)
(* choose a pallet by its item rows, the ledger by its bookings: the choice *)
(* is the same because an item row, being the sum of its bookings, is      *)
(* positive exactly while one is left.                                     *)
(***************************************************************************)
EXTENDS WarehouseStoreRefinement, FiniteSums, SequenceTheorems

-----------------------------------------------------------------------------
(* The variables have their types.                                         *)

LEMMA AuditType ==
  ASSUME NEW a \in AuditActions, NEW n \in PalletNumbers \union {NoPallet}, NEW q \in Nat,
         Audit(a, n, q)
  PROVE  audit' \in AuditRow
BY DEF Audit, AuditRow

LEMMA InitTypeOK == Init => TypeOK
BY DEF Init, TypeOK, EmptyItems, AuditRow, AuditActions

LEMMA PutColliType ==
  ASSUME TypeOK, NEW n \in PalletNumbers, NEW v \in Variants, NEW q \in Quantities,
         NEW createdNew \in BOOLEAN, PutColli(n, v, q, createdNew)
  PROVE  /\ items' \in [PalletNumbers -> [Variants -> Nat]]
         /\ total' \in [PalletNumbers -> Nat]
         /\ entries' \in Seq(Entry)
         /\ audit' \in AuditRow
<1>0. q \in Nat
  BY QuantitiesAssumption
<1>1. items' \in [PalletNumbers -> [Variants -> Nat]]
  BY <1>0 DEF TypeOK, PutColli
<1>2. total' \in [PalletNumbers -> Nat]
  BY <1>0 DEF TypeOK, PutColli
<1>3. [variant |-> v, qty |-> q, pallet |-> n, created |-> createdNew,
       confirmed |-> 0, moved |-> FALSE] \in Entry
  BY DEF Entry
<1>4. entries' \in Seq(Entry)
  BY <1>3 DEF TypeOK, PutColli
<1>5. audit' \in AuditRow
  BY <1>0, AuditType DEF PutColli, AuditActions
<1> QED
  BY <1>1, <1>2, <1>4, <1>5

LEMMA MarkedType ==
  ASSUME NEW e \in Entry
  PROVE  /\ Marked(e) \in Entry
         /\ Marked(e).variant = e.variant /\ Marked(e).qty = e.qty
         /\ Marked(e).pallet = e.pallet /\ Marked(e).created = e.created
<1> DEFINE c == IF e.confirmed < e.qty THEN e.confirmed + 1 ELSE e.confirmed
<1>1. e.qty \in Nat /\ c \in Nat
  <2>1. e.qty \in Quantities /\ e.confirmed \in Nat
    BY DEF Entry
  <2>2. e.qty \in Nat
    BY <2>1, QuantitiesAssumption
  <2>3. c = e.confirmed + 1 \/ c = e.confirmed
    OBVIOUS
  <2> HIDE DEF c
  <2> QED
    BY <2>1, <2>2, <2>3
<1>2. Marked(e) = [e EXCEPT !.confirmed = c, !.moved = (c >= e.qty)]
  BY DEF Marked
<1>3. (c >= e.qty) \in BOOLEAN
  BY <1>1
<1> HIDE DEF c
<1> QED
  BY <1>1, <1>2, <1>3 DEF Entry

LEMMA LastEntry ==
  ASSUME TypeOK, entries # <<>>
  PROVE  /\ Len(entries) \in 1..Len(entries)
         /\ entries[Len(entries)] \in Entry
         /\ entries[Len(entries)].pallet \in PalletNumbers
         /\ entries[Len(entries)].variant \in Variants
         /\ entries[Len(entries)].qty \in Nat \ {0}
<1>1. Len(entries) \in 1..Len(entries)
  BY DEF TypeOK
<1>2. entries[Len(entries)] \in Entry
  BY <1>1 DEF TypeOK
<1> QED
  BY <1>1, <1>2, QuantitiesAssumption DEF Entry

LEMMA UndoLastType ==
  ASSUME TypeOK, UndoLast
  PROVE  TypeOK'
<1> DEFINE e == entries[Len(entries)]
<1>1. /\ e.pallet \in PalletNumbers /\ e.variant \in Variants /\ e.qty \in Nat
      /\ entries' = SubSeq(entries, 1, Len(entries) - 1)
      /\ UndoRemovingPallet(e) \/ UndoKeepingPallet(e)
      /\ Audit("UNDO_LAST", e.pallet, e.qty)
  BY LastEntry DEF UndoLast
<1> HIDE DEF e
<1>2. entries' \in Seq(Entry)
  BY <1>1 DEF TypeOK
<1>3. audit' \in AuditRow
  BY <1>1, AuditType DEF AuditActions
<1>4. CASE UndoRemovingPallet(e)
  BY <1>1, <1>2, <1>3, <1>4 DEF UndoRemovingPallet, TypeOK, EmptyItems
<1>5. CASE UndoKeepingPallet(e)
  <2>1. \A quantity \in Nat : Decreased(quantity, e.qty) \in Nat
    BY <1>1 DEF Decreased
  <2> QED
    BY <1>1, <1>2, <1>3, <1>5, <2>1 DEF UndoKeepingPallet, TypeOK
<1> QED
  BY <1>1, <1>4, <1>5

LEMMA NextTypeOK == TypeOK /\ [Next]_vars => TypeOK'
<1> SUFFICES ASSUME TypeOK, [Next]_vars
             PROVE  TypeOK'
  OBVIOUS
<1>1. ASSUME NEW n \in PalletNumbers, NEW v \in Variants, NEW q \in Quantities,
             RegisterOnExisting(n, v, q)
      PROVE  TypeOK'
  BY <1>1, PutColliType DEF RegisterOnExisting, TypeOK
<1>2. ASSUME NEW n \in PalletNumbers, NEW v \in Variants, NEW q \in Quantities,
             RegisterOnNew(n, v, q)
      PROVE  TypeOK'
  BY <1>2, PutColliType DEF RegisterOnNew, TypeOK
<1>3. ASSUME NEW n \in PalletNumbers, ClosePallet(n)
      PROVE  TypeOK'
  BY <1>3, AuditType DEF ClosePallet, TypeOK, AuditActions
<1>4. ASSUME NEW n \in PalletNumbers, ConfirmLatestUnconfirmed(n)
      PROVE  TypeOK'
  <2>1. PICK i \in 1..Len(entries) :
          /\ entries' = [entries EXCEPT ![i] = Marked(@)]
          /\ Audit("CONFIRM_MOVE", n, 0)
          /\ UNCHANGED <<status, total, items>>
    BY <1>4 DEF ConfirmLatestUnconfirmed
  <2>2. entries' \in Seq(Entry)
    BY <2>1, MarkedType DEF TypeOK
  <2> QED
    BY <2>1, <2>2, AuditType DEF TypeOK, AuditActions
<1>5. CASE UndoLast
  BY <1>5, UndoLastType
<1>6. CASE ClearAllData
  <2>1. audit' \in AuditRow
    BY <1>6, AuditType DEF ClearAllData, AuditActions
  <2> QED
    BY <1>6, <2>1 DEF ClearAllData, TypeOK, EmptyItems
<1>7. CASE UNCHANGED vars
  BY <1>7 DEF TypeOK, vars
<1> QED
  BY <1>1, <1>2, <1>3, <1>4, <1>5, <1>6, <1>7 DEF Next, Register

\* Every variable keeps its type, whatever the constants are.
THEOREM TypeCorrect == Spec => []TypeOK
BY InitTypeOK, NextTypeOK, PTL DEF Spec
-----------------------------------------------------------------------------
(* Which variants a pallet carries.  A registration adds one variant to one *)
(* pallet; every other step only takes variants away and opens no pallet.   *)

StockShrinks ==
  \A m \in PalletNumbers :
    /\ VariantsOn(m)' \subseteq VariantsOn(m)
    /\ status'[m] = "open" => status[m] = "open"
    /\ status'[m] = "absent" => \/ status[m] = "absent" /\ total'[m] = total[m]
                                \/ VariantsOn(m)' = {} /\ total'[m] = 0
    /\ status[m] = "closed" => status'[m] \in {"closed", "absent"}
    /\ \A v \in Variants : items'[m][v] <= items[m][v]

LEMMA PutColliStock ==
  ASSUME TypeOK, NEW n \in PalletNumbers, NEW v \in Variants, NEW q \in Quantities,
         NEW createdNew \in BOOLEAN, PutColli(n, v, q, createdNew)
  PROVE  /\ VariantsOn(n)' = VariantsOn(n) \union {v}
         /\ \A m \in PalletNumbers \ {n} : items'[m] = items[m] /\ VariantsOn(m)' = VariantsOn(m)
         /\ total'[n] = total[n] + q
         /\ \A m \in PalletNumbers \ {n} : total'[m] = total[m]
<1>1. q \in Nat \ {0}
  BY QuantitiesAssumption
<1>2. /\ items'[n][v] = items[n][v] + q
      /\ \A w \in Variants \ {v} : items'[n][w] = items[n][w]
      /\ \A m \in PalletNumbers \ {n} : items'[m] = items[m]
  BY DEF PutColli, TypeOK
<1>3. items[n][v] \in Nat
  BY DEF TypeOK
<1>4. VariantsOn(n)' = VariantsOn(n) \union {v}
  BY <1>1, <1>2, <1>3 DEF VariantsOn
<1>5. \A m \in PalletNumbers \ {n} : VariantsOn(m)' = VariantsOn(m)
  BY <1>2 DEF VariantsOn
<1>6. total'[n] = total[n] + q /\ \A m \in PalletNumbers \ {n} : total'[m] = total[m]
  BY DEF PutColli, TypeOK
<1> QED
  BY <1>2, <1>4, <1>5, <1>6

\* A registration goes to an open pallet that takes the variant, or to a
\* number no pallet has.
LEMMA FreshNumber ==
  ASSUME TypeOK, NEW n \in PalletNumbers, IsNextPalletNumber(n)
  PROVE  status[n] = "absent"
<1> SUFFICES ASSUME n \in Live PROVE FALSE
  BY DEF Live
<1>1. n < n
  BY DEF IsNextPalletNumber
<1> QED
  BY <1>1 DEF PalletNumbers

LEMMA UndoLastShrinks ==
  ASSUME TypeOK, UndoLast
  PROVE  StockShrinks
<1> DEFINE e == entries[Len(entries)]
<1>0. /\ e.pallet \in PalletNumbers /\ e.variant \in Variants /\ e.qty \in Nat
      /\ UndoRemovingPallet(e) \/ UndoKeepingPallet(e)
  BY LastEntry DEF UndoLast
<1> HIDE DEF e
<1>1. PICK n \in PalletNumbers, x \in Variants, q \in Nat :
        n = e.pallet /\ x = e.variant /\ q = e.qty
  BY <1>0
<1>2. CASE UndoRemovingPallet(e)
  <2>1. /\ items'[n] = EmptyItems /\ total'[n] = 0 /\ status'[n] = "absent"
        /\ \A m \in PalletNumbers \ {n} :
             items'[m] = items[m] /\ status'[m] = status[m] /\ total'[m] = total[m]
        /\ status[n] # "absent"
    BY <1>1, <1>2 DEF UndoRemovingPallet, RemovesShell, TypeOK
  <2>2. ASSUME NEW m \in PalletNumbers, NEW v \in Variants
        PROVE  items'[m][v] <= items[m][v] /\ items'[m][v] \in Nat
    <3>1. items[m][v] \in Nat
      BY DEF TypeOK
    <3>2. items'[m][v] = items[m][v] \/ items'[m][v] = 0
      BY <2>1 DEF EmptyItems
    <3> QED
      BY <3>1, <3>2
  <2>3. \A m \in PalletNumbers : VariantsOn(m)' \subseteq VariantsOn(m)
    BY <2>2 DEF VariantsOn, TypeOK
  <2>4. VariantsOn(n)' = {}
    BY <2>1 DEF VariantsOn, EmptyItems
  <2> QED
    BY <2>1, <2>2, <2>3, <2>4 DEF StockShrinks
<1>3. CASE UndoKeepingPallet(e)
  <2>0. \A quantity \in Nat : Decreased(quantity, q) \in Nat /\ Decreased(quantity, q) <= quantity
    BY DEF Decreased
  <2>1. /\ status' = status
        /\ items'[n][x] = Decreased(items[n][x], q)
        /\ \A v \in Variants \ {x} : items'[n][v] = items[n][v]
        /\ \A m \in PalletNumbers \ {n} : items'[m] = items[m] /\ total'[m] = total[m]
        /\ status[n] = "absent" => total'[n] = total[n]
    BY <1>1, <1>3 DEF UndoKeepingPallet, TypeOK
  <2>2. ASSUME NEW m \in PalletNumbers, NEW v \in Variants
        PROVE  items'[m][v] <= items[m][v] /\ items'[m][v] \in Nat
    <3>1. items[m][v] \in Nat
      BY DEF TypeOK
    <3>2. CASE m = n /\ v = x
      BY <2>0, <2>1, <3>1, <3>2
    <3>3. CASE ~(m = n /\ v = x)
      BY <2>1, <3>1, <3>3
    <3> QED
      BY <3>2, <3>3
  <2>3. \A m \in PalletNumbers : VariantsOn(m)' \subseteq VariantsOn(m)
    BY <2>2 DEF VariantsOn, TypeOK
  <2> QED
    BY <2>1, <2>2, <2>3 DEF StockShrinks, TypeOK
<1> QED
  BY <1>0, <1>2, <1>3

LEMMA OtherStepsShrink ==
  ASSUME TypeOK, [Next]_vars, ~Register
  PROVE  StockShrinks
<1>1. ASSUME UNCHANGED <<total, items>>,
             \A m \in PalletNumbers : \/ status'[m] = status[m]
                                      \/ status[m] # "absent" /\ status'[m] = "closed"
      PROVE  StockShrinks
  <2>1. \A m \in PalletNumbers : \A v \in Variants : items'[m][v] <= items[m][v]
    BY <1>1 DEF TypeOK
  <2> QED
    BY <1>1, <2>1 DEF StockShrinks, VariantsOn
<1>2. ASSUME NEW n \in PalletNumbers, ClosePallet(n)
      PROVE  StockShrinks
  BY <1>1, <1>2 DEF ClosePallet, TypeOK
<1>3. ASSUME NEW n \in PalletNumbers, ConfirmLatestUnconfirmed(n)
      PROVE  StockShrinks
  BY <1>1, <1>3 DEF ConfirmLatestUnconfirmed
<1>4. CASE UndoLast
  BY <1>4, UndoLastShrinks
<1>5. CASE ClearAllData
  <2>1. \A m \in PalletNumbers : /\ VariantsOn(m)' = {} /\ total'[m] = 0
                                 /\ status'[m] = "absent"
                                 /\ \A v \in Variants : items'[m][v] = 0
    BY <1>5 DEF ClearAllData, VariantsOn, EmptyItems
  <2>2. \A m \in PalletNumbers : \A v \in Variants : items'[m][v] <= items[m][v]
    BY <2>1 DEF TypeOK
  <2> QED
    BY <2>1, <2>2 DEF StockShrinks
<1>6. CASE UNCHANGED vars
  BY <1>1, <1>6 DEF vars
<1> QED
  BY <1>2, <1>3, <1>4, <1>5, <1>6 DEF Next
-----------------------------------------------------------------------------
(* The rules of what may stand on a pallet.  Each rule alone is not kept by *)
(* a registration on a new pallet unless the number it takes is empty, nor  *)
(* is OneOpenPalletPerVariant unless a pallet that has the variant cannot   *)
(* be skipped for a conflict: together they are inductive.                  *)

StockInv ==
  /\ TypeOK
  /\ NoOrphanRows
  /\ NoMixedExpiry
  /\ VariantCap
  /\ OneOpenPalletPerVariant

LEMMA FiniteVariants == IsFiniteSet(Variants)
BY ProductsAssumption, ExpiriesAssumption, FS_Product DEF Variants

LEMMA InitStockInv == Init => StockInv
<1> SUFFICES ASSUME Init PROVE StockInv
  OBVIOUS
<1>1. \A n \in PalletNumbers : VariantsOn(n) = {} /\ total[n] = 0 /\ status[n] = "absent"
  BY DEF Init, VariantsOn, EmptyItems
<1>2. Cardinality({}) <= MaxVariants
  BY FS_EmptySet, MaxVariantsAssumption
<1> QED
  BY <1>1, <1>2, InitTypeOK DEF StockInv, NoOrphanRows, NoMixedExpiry, VariantCap, OneOpenPalletPerVariant

LEMMA ShrinkKeepsStockInv ==
  ASSUME StockInv, StockShrinks, TypeOK'
  PROVE  StockInv'
<1>1. NoOrphanRows'
  BY DEF StockInv, StockShrinks, NoOrphanRows
<1>2. NoMixedExpiry'
  BY DEF StockInv, StockShrinks, NoMixedExpiry
<1>3. VariantCap'
  <2> SUFFICES ASSUME NEW n \in PalletNumbers
               PROVE  Cardinality(VariantsOn(n)') <= MaxVariants
    BY DEF VariantCap
  <2>1. VariantsOn(n)' \subseteq VariantsOn(n) /\ VariantsOn(n) \subseteq Variants
    BY DEF StockShrinks, VariantsOn
  <2>2. IsFiniteSet(VariantsOn(n))
    BY <2>1, FiniteVariants, FS_Subset
  <2>3. /\ Cardinality(VariantsOn(n)') <= Cardinality(VariantsOn(n))
        /\ IsFiniteSet(VariantsOn(n)')
    BY <2>1, <2>2, FS_Subset
  <2>4. Cardinality(VariantsOn(n)') \in Nat /\ Cardinality(VariantsOn(n)) \in Nat
    BY <2>2, <2>3, FS_CardinalityType
  <2> QED
    BY <2>3, <2>4, MaxVariantsAssumption DEF StockInv, VariantCap
<1>4. OneOpenPalletPerVariant'
  BY DEF StockInv, StockShrinks, OneOpenPalletPerVariant
<1> QED
  BY <1>1, <1>2, <1>3, <1>4 DEF StockInv

\* One colli variant v added to pallet n, which is empty and new or a candidate.
LEMMA RegisterKeepsStockInv ==
  ASSUME StockInv, TypeOK',
         NEW n \in PalletNumbers, NEW v \in Variants, NEW q \in Quantities,
         RegisterOnExisting(n, v, q) \/ RegisterOnNew(n, v, q)
  PROVE  StockInv'
<1>1. PICK createdNew \in BOOLEAN : PutColli(n, v, q, createdNew)
  BY DEF RegisterOnExisting, RegisterOnNew
<1>2. /\ VariantsOn(n)' = VariantsOn(n) \union {v}
      /\ \A m \in PalletNumbers \ {n} : VariantsOn(m)' = VariantsOn(m) /\ total'[m] = total[m]
  BY <1>1, PutColliStock DEF StockInv
<1>3. /\ status'[n] = "open"
      /\ \A m \in PalletNumbers \ {n} : status'[m] = status[m]
  BY DEF RegisterOnExisting, RegisterOnNew, IsBestOpenPallet, Candidates, StockInv, TypeOK
<1>4. ~HasConflict(n, v) /\ (v \in VariantsOn(n) \/ Cardinality(VariantsOn(n)) < MaxVariants)
  <2>1. CASE RegisterOnExisting(n, v, q)
    BY <2>1 DEF RegisterOnExisting, IsBestOpenPallet, Candidates, HasExact, VariantsOn
  <2>2. CASE RegisterOnNew(n, v, q)
    <3>1. VariantsOn(n) = {}
      BY <2>2, FreshNumber DEF RegisterOnNew, StockInv, NoOrphanRows
    <3> QED
      BY <3>1, FS_EmptySet, MaxVariantsAssumption DEF HasConflict
  <2> QED
    BY <2>1, <2>2
<1>5. NoOrphanRows'
  BY <1>2, <1>3 DEF StockInv, NoOrphanRows
<1>6. NoMixedExpiry'
  <2>1. \A w \in VariantsOn(n) : ProductOf(w) = ProductOf(v) => w = v
    BY <1>4 DEF HasConflict
  <2>2. ASSUME NEW m \in PalletNumbers, NEW x \in VariantsOn(m)', NEW y \in VariantsOn(m)',
               ProductOf(x) = ProductOf(y)
        PROVE  x = y
    <3>1. CASE m = n
      BY <1>2, <2>1, <2>2, <3>1 DEF StockInv, NoMixedExpiry
    <3>2. CASE m # n
      BY <1>2, <2>2, <3>2 DEF StockInv, NoMixedExpiry
    <3> QED
      BY <3>1, <3>2
  <2> QED
    BY <2>2 DEF NoMixedExpiry
<1>7. VariantCap'
  <2>1. VariantsOn(n) \subseteq Variants
    BY DEF VariantsOn
  <2>2. IsFiniteSet(VariantsOn(n))
    BY <2>1, FiniteVariants, FS_Subset
  <2>3. Cardinality(VariantsOn(n)') <= MaxVariants
    <3>1. CASE v \in VariantsOn(n)
      <4>1. VariantsOn(n)' = VariantsOn(n)
        BY <1>2, <3>1
      <4> QED
        BY <4>1 DEF StockInv, VariantCap
    <3>2. CASE v \notin VariantsOn(n)
      <4>1. Cardinality(VariantsOn(n)') = Cardinality(VariantsOn(n)) + 1
        BY <1>2, <2>2, <3>2, FS_AddElement
      <4>2. Cardinality(VariantsOn(n)) \in Nat
        BY <2>2, FS_CardinalityType
      <4> QED
        BY <1>4, <3>2, <4>1, <4>2, MaxVariantsAssumption
    <3> QED
      BY <3>1, <3>2
  <2> QED
    BY <1>2, <2>3 DEF StockInv, VariantCap
<1>8. OneOpenPalletPerVariant'
  \* No other open pallet carries v.
  <2>1. ASSUME NEW m \in PalletNumbers \ {n}, status[m] = "open"
        PROVE  v \notin VariantsOn(m)
    <3> SUFFICES ASSUME v \in VariantsOn(m) PROVE FALSE
      OBVIOUS
    <3>1. ~HasConflict(m, v)
      BY DEF HasConflict, StockInv, NoMixedExpiry
    <3>2. HasExact(m, v) /\ m \in Candidates(v)
      BY <2>1, <3>1 DEF Candidates, HasExact, VariantsOn
    <3>3. RegisterOnExisting(n, v, q)
      BY <3>2 DEF RegisterOnNew
    <3>4. HasExact(n, v) /\ status[n] = "open"
      BY <3>2, <3>3 DEF RegisterOnExisting, IsBestOpenPallet, Candidates
    <3>5. v \in VariantsOn(n)
      BY <3>4 DEF HasExact, VariantsOn
    <3> QED
      BY <2>1, <3>4, <3>5 DEF StockInv, OneOpenPalletPerVariant
  \* What n carries besides v it carried before, as an open pallet.
  <2>2. VariantsOn(n) = {} \/ status[n] = "open"
    <3>1. CASE RegisterOnExisting(n, v, q)
      BY <3>1 DEF RegisterOnExisting, IsBestOpenPallet, Candidates
    <3>2. CASE RegisterOnNew(n, v, q)
      BY <3>2, FreshNumber DEF RegisterOnNew, StockInv, NoOrphanRows
    <3> QED
      BY <3>1, <3>2
  <2>3. ASSUME NEW m \in PalletNumbers \ {n}, status[m] = "open"
        PROVE  VariantsOn(m) \cap VariantsOn(n) = {}
    BY <2>2, <2>3 DEF StockInv, OneOpenPalletPerVariant
  <2>4. ASSUME NEW m \in PalletNumbers \ {n}, status'[m] = "open"
        PROVE  VariantsOn(m)' \cap VariantsOn(n)' = {}
    BY <1>2, <1>3, <2>1, <2>3, <2>4
  <2>5. ASSUME NEW l \in PalletNumbers \ {n}, NEW m \in PalletNumbers \ {n},
               status'[l] = "open", status'[m] = "open", l # m
        PROVE  VariantsOn(l)' \cap VariantsOn(m)' = {}
    BY <1>2, <1>3, <2>5 DEF StockInv, OneOpenPalletPerVariant
  <2> QED
    BY <2>4, <2>5 DEF OneOpenPalletPerVariant
<1> QED
  BY <1>5, <1>6, <1>7, <1>8 DEF StockInv

LEMMA NextStockInv == StockInv /\ [Next]_vars => StockInv'
<1> SUFFICES ASSUME StockInv, [Next]_vars PROVE StockInv'
  OBVIOUS
<1>1. TypeOK'
  BY NextTypeOK DEF StockInv
<1>2. CASE Register
  BY <1>1, <1>2, RegisterKeepsStockInv DEF Register
<1>3. CASE ~Register
  BY <1>1, <1>3, OtherStepsShrink, ShrinkKeepsStockInv DEF StockInv
<1> QED
  BY <1>2, <1>3

LEMMA StockInvCorrect == Spec => []StockInv
BY InitStockInv, NextStockInv, PTL DEF Spec

\* A pallet number without a row has no item rows and no quantity, so a number
\* that undo or clear gave back is handed out clean.
THEOREM OrphanRowsNever == Spec => []NoOrphanRows
<1>1. StockInv => NoOrphanRows
  BY DEF StockInv
<1> QED
  BY <1>1, StockInvCorrect, PTL

\* No pallet ever mixes two expiry dates of one product.
THEOREM MixedExpiryNever == Spec => []NoMixedExpiry
<1>1. StockInv => NoMixedExpiry
  BY DEF StockInv
<1> QED
  BY <1>1, StockInvCorrect, PTL

\* No pallet ever carries more variants than the configured limit.
THEOREM VariantCapKept == Spec => []VariantCap
<1>1. StockInv => VariantCap
  BY DEF StockInv
<1> QED
  BY <1>1, StockInvCorrect, PTL

\* No variant is ever spread over two open pallets.
THEOREM VariantsStayTogether == Spec => []OneOpenPalletPerVariant
<1>1. StockInv => OneOpenPalletPerVariant
  BY DEF StockInv
<1> QED
  BY <1>1, StockInvCorrect, PTL

\* Every pallet keeps the rules it is built by, for every limit of variants.
THEOREM PalletRulesKept == Spec => []PalletsFollowRules
<1>1. StockInv => PalletsFollowRules
  BY DEF StockInv, PalletsFollowRules
<1> QED
  BY <1>1, StockInvCorrect, PTL
-----------------------------------------------------------------------------
(* The scan entries and the totals.  That undo removes a pallet exactly with *)
(* its last entry rests on the totals: an entry marks the pallet balance it   *)
(* was booked on, and the balances of one pallet chain from entry to entry.   *)

\* Entry j is the next one after i on the same pallet.
Follows(j, i) ==
  /\ i < j /\ entries[i].pallet = entries[j].pallet
  /\ \A k \in (i + 1)..(j - 1) : entries[k].pallet # entries[j].pallet

Newest(i) == \A k \in (i + 1)..Len(entries) : entries[k].pallet # entries[i].pallet

ChainedBy(before) ==
  /\ \A i \in 1..Len(entries) : entries[i].created => before[i] = 0
  /\ \A i, j \in 1..Len(entries) : Follows(j, i) => before[j] = before[i] + entries[i].qty
  /\ \A i \in 1..Len(entries) : Newest(i) => total[entries[i].pallet] = before[i] + entries[i].qty

RunningBalance == \E before \in [1..Len(entries) -> Nat] : ChainedBy(before)

LedgerInv == StockInv /\ CreatorIsOldest /\ RunningBalance

LEMMA EntryTypes ==
  ASSUME TypeOK
  PROVE  /\ Len(entries) \in Nat
         /\ \A i \in 1..Len(entries) : /\ entries[i].pallet \in PalletNumbers
                                       /\ entries[i].variant \in Variants
                                       /\ entries[i].qty \in Nat \ {0}
<1>1. \A i \in 1..Len(entries) : entries[i] \in Entry
  BY DEF TypeOK
<1>2. \A e \in Entry : /\ e.pallet \in PalletNumbers /\ e.variant \in Variants
                       /\ e.qty \in Quantities
  BY DEF Entry
<1>3. \A q \in Quantities : q \in Nat \ {0}
  BY QuantitiesAssumption
<1>4. Len(entries) \in Nat
  BY DEF TypeOK
<1> QED
  BY <1>1, <1>2, <1>3, <1>4

LEMMA InitLedgerInv == Init => LedgerInv
<1> SUFFICES ASSUME Init PROVE LedgerInv
  OBVIOUS
<1>1. Len(entries) = 0 /\ Live = {}
  BY DEF Init, Live
<1>2. CreatorIsOldest
  BY <1>1 DEF CreatorIsOldest
<1>3. RunningBalance
  <2>1. ChainedBy([i \in 1..Len(entries) |-> 0])
    BY <1>1 DEF ChainedBy
  <2> QED
    BY <2>1 DEF RunningBalance
<1> QED
  BY <1>2, <1>3, InitStockInv DEF LedgerInv

\* Closing and confirming leave what the ledger is about alone.
LEMMA SameCreators ==
  ASSUME TypeOK, CreatorIsOldest,
         Len(entries') = Len(entries),
         \A i \in 1..Len(entries) :
           entries'[i].pallet = entries[i].pallet /\ entries'[i].created = entries[i].created,
         \A n \in PalletNumbers : status'[n] = "absent" <=> status[n] = "absent"
  PROVE  CreatorIsOldest'
<1>0. Len(entries) \in Nat /\ \A i \in 1..Len(entries) : entries[i].pallet \in PalletNumbers
  BY EntryTypes
<1>1. Live' = Live /\ \A n \in PalletNumbers : EntriesOf(n)' = EntriesOf(n)
  BY DEF Live, EntriesOf
<1>2. ASSUME NEW i \in 1..Len(entries)
      PROVE  /\ status'[entries'[i].pallet] # "absent"
             /\ entries'[i].created <=>
                  \A j \in 1..(i - 1) : entries'[j].pallet # entries'[i].pallet
  <2>1. \A j \in 1..(i - 1) : j \in 1..Len(entries)
    BY <1>0
  <2>2. /\ status[entries[i].pallet] # "absent"
        /\ entries[i].created <=> \A j \in 1..(i - 1) : entries[j].pallet # entries[i].pallet
    BY DEF CreatorIsOldest
  <2> QED
    BY <1>0, <2>1, <2>2
<1>3. \A n \in Live' : EntriesOf(n)' # {}
  BY <1>1 DEF CreatorIsOldest, Live
<1> QED
  BY <1>2, <1>3 DEF CreatorIsOldest

LEMMA SameLedger ==
  ASSUME LedgerInv,
         Len(entries') = Len(entries),
         \A i \in 1..Len(entries) :
           /\ entries'[i].pallet = entries[i].pallet /\ entries'[i].qty = entries[i].qty
           /\ entries'[i].created = entries[i].created,
         total' = total,
         \A n \in PalletNumbers : status'[n] = "absent" <=> status[n] = "absent",
         TypeOK
  PROVE  CreatorIsOldest' /\ RunningBalance'
<1>0. Len(entries) \in Nat
  BY EntryTypes
<1>2. CreatorIsOldest'
  BY SameCreators DEF LedgerInv
<1>3. RunningBalance'
  <2>1. PICK before \in [1..Len(entries) -> Nat] : ChainedBy(before)
    BY DEF LedgerInv, RunningBalance
  <2>2. ASSUME NEW i \in 1..Len(entries), NEW j \in 1..Len(entries), Follows(j, i)'
        PROVE  Follows(j, i)
    <3>1. \A k \in (i + 1)..(j - 1) : k \in 1..Len(entries)
      BY <1>0
    <3> QED
      BY <2>2, <3>1 DEF Follows
  <2>3. ASSUME NEW i \in 1..Len(entries), Newest(i)'
        PROVE  Newest(i)
    <3>1. \A k \in (i + 1)..Len(entries) : k \in 1..Len(entries)
      BY <1>0
    <3> QED
      BY <2>3, <3>1 DEF Newest
  <2>4. ChainedBy(before)'
    BY <2>1, <2>2, <2>3 DEF ChainedBy
  <2> QED
    BY <2>4 DEF RunningBalance
<1> QED
  BY <1>2, <1>3

LEMMA RegisterKeepsCreators ==
  ASSUME TypeOK, CreatorIsOldest,
         NEW n \in PalletNumbers, NEW v \in Variants, NEW q \in Quantities,
         RegisterOnExisting(n, v, q) \/ RegisterOnNew(n, v, q)
  PROVE  CreatorIsOldest'
<1>0. PICK L \in Nat : L = Len(entries)
  BY EntryTypes
<1>1. PICK c \in BOOLEAN :
        /\ PutColli(n, v, q, c)
        /\ c <=> status[n] = "absent"
  <2>1. CASE RegisterOnExisting(n, v, q)
    BY <2>1 DEF RegisterOnExisting, IsBestOpenPallet, Candidates
  <2>2. CASE RegisterOnNew(n, v, q)
    BY <2>2, FreshNumber DEF RegisterOnNew
  <2> QED
    BY <2>1, <2>2
<1>3. /\ L \in Nat /\ Len(entries') = L + 1
      /\ \A i \in 1..L : entries'[i] = entries[i]
      /\ entries'[L + 1].pallet = n /\ entries'[L + 1].qty = q /\ entries'[L + 1].created = c
  BY <1>0, <1>1 DEF PutColli, TypeOK
<1>4. \A i \in 1..L : entries[i].pallet \in PalletNumbers
  BY <1>0, EntryTypes
<1>5. status'[n] # "absent" /\ \A m \in PalletNumbers \ {n} : status'[m] = status[m]
  BY DEF RegisterOnExisting, RegisterOnNew, IsBestOpenPallet, Candidates, TypeOK
<1>2. c <=> \A j \in 1..L : entries[j].pallet # n
  <2>1. c => \A j \in 1..L : entries[j].pallet # n
    BY <1>0, <1>1 DEF CreatorIsOldest
  <2>2. ~c => EntriesOf(n) # {}
    BY <1>1 DEF CreatorIsOldest, Live
  <2> QED
    BY <1>0, <2>1, <2>2 DEF EntriesOf
<1>6. ASSUME NEW i \in 1..L
      PROVE  /\ status'[entries'[i].pallet] # "absent"
             /\ entries'[i].created <=>
                  \A j \in 1..(i - 1) : entries'[j].pallet # entries'[i].pallet
  <2>1. \A j \in 1..(i - 1) : j \in 1..L
    BY <1>3
  <2>2. /\ status[entries[i].pallet] # "absent"
        /\ entries[i].created <=> \A j \in 1..(i - 1) : entries[j].pallet # entries[i].pallet
    BY <1>0 DEF CreatorIsOldest
  <2> QED
    BY <1>3, <1>4, <1>5, <2>1, <2>2
<1>7. /\ status'[entries'[L + 1].pallet] # "absent"
      /\ entries'[L + 1].created <=>
           \A j \in 1..((L + 1) - 1) : entries'[j].pallet # entries'[L + 1].pallet
  BY <1>3, <1>5, <1>2
<1>8. ASSUME NEW m \in Live'
      PROVE  EntriesOf(m)' # {}
  <2>1. CASE m = n
    BY <1>3, <2>1 DEF EntriesOf
  <2>2. CASE m # n
    <3>1. EntriesOf(m) # {}
      BY <1>5, <1>8, <2>2 DEF Live, CreatorIsOldest
    <3>2. PICK i \in 1..L : entries[i].pallet = m
      BY <1>0, <3>1 DEF EntriesOf
    <3>3. i \in 1..Len(entries') /\ entries'[i].pallet = m
      BY <1>3, <3>2
    <3> QED
      BY <3>3 DEF EntriesOf
  <2> QED
    BY <2>1, <2>2
<1>9. \A i \in 1..Len(entries') : i \in 1..L \/ i = L + 1
  BY <1>3
<1> QED
  BY <1>6, <1>7, <1>8, <1>9 DEF CreatorIsOldest

LEMMA RegisterKeepsLedger ==
  ASSUME LedgerInv,
         NEW n \in PalletNumbers, NEW v \in Variants, NEW q \in Quantities,
         RegisterOnExisting(n, v, q) \/ RegisterOnNew(n, v, q)
  PROVE  CreatorIsOldest' /\ RunningBalance'
<1>0. PICK L \in Nat : L = Len(entries)
  BY EntryTypes DEF LedgerInv, StockInv
<1>1. PICK c \in BOOLEAN :
        /\ PutColli(n, v, q, c)
        /\ c <=> status[n] = "absent"
  <2>1. CASE RegisterOnExisting(n, v, q)
    BY <2>1 DEF RegisterOnExisting, IsBestOpenPallet, Candidates
  <2>2. CASE RegisterOnNew(n, v, q)
    BY <2>2, FreshNumber DEF RegisterOnNew, LedgerInv, StockInv
  <2> QED
    BY <2>1, <2>2
<1>2. q \in Nat
  BY QuantitiesAssumption
<1>3. /\ L \in Nat /\ Len(entries') = L + 1
      /\ \A i \in 1..L : entries'[i] = entries[i]
      /\ entries'[L + 1].pallet = n /\ entries'[L + 1].qty = q /\ entries'[L + 1].created = c
  BY <1>0, <1>1 DEF PutColli, LedgerInv, StockInv, TypeOK
<1>4. \A i \in 1..L : entries[i].pallet \in PalletNumbers
  BY <1>0, EntryTypes DEF LedgerInv, StockInv
<1>7. total'[n] = total[n] + q /\ \A m \in PalletNumbers \ {n} : total'[m] = total[m]
  BY <1>1, PutColliStock DEF LedgerInv, StockInv
<1>8. CreatorIsOldest'
  BY RegisterKeepsCreators DEF LedgerInv, StockInv
<1>9. RunningBalance'
  <2>1. PICK old \in [1..L -> Nat] : ChainedBy(old)
    BY <1>0 DEF LedgerInv, RunningBalance
  <2>2. total[n] \in Nat
    BY DEF LedgerInv, StockInv, TypeOK
  <2>3. PICK new \in [1..(L + 1) -> Nat] :
          new[L + 1] = total[n] /\ \A i \in 1..L : new[i] = old[i]
    <3> DEFINE f == [i \in 1..(L + 1) |-> IF i = L + 1 THEN total[n] ELSE old[i]]
    <3>1. f \in [1..(L + 1) -> Nat] /\ f[L + 1] = total[n] /\ \A i \in 1..L : f[i] = old[i]
      BY <1>0, <2>1, <2>2
    <3> QED
      BY <3>1
  <2>4. \A i \in 1..Len(entries') : i \in 1..L \/ i = L + 1
    BY <1>3
  \* A new pallet starts from zero.
  <2>5. ASSUME NEW i \in 1..Len(entries'), entries'[i].created
        PROVE  new[i] = 0
    <3>1. CASE i \in 1..L
      BY <1>0, <1>3, <2>1, <2>3, <2>5, <3>1 DEF ChainedBy
    <3>2. CASE i = L + 1
      BY <1>1, <1>3, <2>3, <2>5, <3>2 DEF LedgerInv, StockInv, NoOrphanRows
    <3> QED
      BY <2>4, <3>1, <3>2
  <2>6. ASSUME NEW i \in 1..Len(entries'), NEW j \in 1..Len(entries'), Follows(j, i)'
        PROVE  new[j] = new[i] + entries'[i].qty
    <3>0. i \in 1..L /\ i < j
      BY <1>3, <2>4, <2>6 DEF Follows
    <3>1. CASE j \in 1..L
      <4>1. Follows(j, i)
        <5>1. \A k \in (i + 1)..(j - 1) : k \in 1..L
          BY <1>3, <3>0, <3>1
        <5> QED
          BY <1>3, <2>6, <3>0, <3>1, <5>1 DEF Follows
      <4> QED
        BY <1>0, <1>3, <2>1, <2>3, <3>0, <3>1, <4>1 DEF ChainedBy
    <3>2. CASE j = L + 1
      <4>1. Newest(i) /\ entries[i].pallet = n
        BY <1>0, <1>3, <2>6, <3>0, <3>2 DEF Follows, Newest
      <4>2. total[n] = old[i] + entries[i].qty
        BY <1>0, <2>1, <3>0, <4>1 DEF ChainedBy
      <4> QED
        BY <1>3, <2>3, <3>0, <3>2, <4>2
    <3> QED
      BY <2>4, <3>1, <3>2
  <2>7. ASSUME NEW i \in 1..Len(entries'), Newest(i)'
        PROVE  total'[entries'[i].pallet] = new[i] + entries'[i].qty
    <3>1. CASE i \in 1..L
      <4>1. L + 1 \in (i + 1)..Len(entries')
        BY <1>3, <3>1
      <4>2. entries[i].pallet # n
        BY <1>3, <2>7, <3>1, <4>1 DEF Newest
      <4>3. Newest(i)
        BY <1>0, <1>3, <2>7, <3>1 DEF Newest
      <4> QED
        BY <1>0, <1>3, <1>4, <1>7, <2>1, <2>3, <3>1, <4>2, <4>3 DEF ChainedBy
    <3>2. CASE i = L + 1
      BY <1>3, <1>7, <2>3, <3>2
    <3> QED
      BY <2>4, <3>1, <3>2
  <2>8. ChainedBy(new)'
    BY <2>5, <2>6, <2>7 DEF ChainedBy
  <2> QED
    BY <1>3, <2>3, <2>8 DEF RunningBalance
<1> QED
  BY <1>8, <1>9

\* What undoing entry L = Len(entries), of quantity q on pallet n, comes to: the
\* pallet goes iff that entry made it, and its total was at least q.
LEMMA UndoEffect ==
  ASSUME LedgerInv, UndoLast, NEW L \in Nat, L = Len(entries),
         NEW n \in PalletNumbers, n = entries[L].pallet,
         NEW before \in [1..L -> Nat], ChainedBy(before)
  PROVE  /\ L \in 1..L
         /\ Len(entries') = L - 1 /\ \A i \in 1..(L - 1) : entries'[i] = entries[i]
         /\ total[n] = before[L] + entries[L].qty
         /\ total'[n] = before[L]
         /\ \A m \in PalletNumbers \ {n} : total'[m] = total[m] /\ status'[m] = status[m]
         /\ status'[n] = IF entries[L].created THEN "absent" ELSE status[n]
         /\ audit'.action = "UNDO_LAST" /\ audit'.pallet = n /\ audit'.qty = entries[L].qty
<1> DEFINE e == entries[Len(entries)]
<1>1. /\ entries' = SubSeq(entries, 1, Len(entries) - 1)
      /\ UndoRemovingPallet(e) \/ UndoKeepingPallet(e)
      /\ Audit("UNDO_LAST", e.pallet, e.qty)
      /\ e.qty \in Nat \ {0} /\ L \in 1..L
  BY LastEntry DEF UndoLast, LedgerInv, StockInv
<1>2. Len(entries') = L - 1 /\ \A i \in 1..(L - 1) : entries'[i] = entries[i]
  BY <1>1 DEF LedgerInv, StockInv, TypeOK
<1>3. Newest(L) /\ status[n] # "absent"
  BY <1>1 DEF Newest, LedgerInv, CreatorIsOldest
<1>4. total[n] = before[L] + e.qty /\ (e.created => before[L] = 0) /\ before[L] \in Nat
  BY <1>1, <1>3 DEF ChainedBy
<1>5. e.created <=> RemovesShell(e)
  BY <1>1, <1>3, <1>4 DEF RemovesShell
<1>6. /\ total'[n] = before[L]
      /\ \A m \in PalletNumbers \ {n} : total'[m] = total[m] /\ status'[m] = status[m]
      /\ status'[n] = IF e.created THEN "absent" ELSE status[n]
  <2>1. CASE UndoRemovingPallet(e)
    <3>1. e.created /\ before[L] = 0
      BY <1>4, <1>5, <2>1 DEF UndoRemovingPallet
    <3> QED
      BY <2>1, <3>1 DEF UndoRemovingPallet, LedgerInv, StockInv, TypeOK
  <2>2. CASE UndoKeepingPallet(e)
    <3>1. ~e.created
      BY <1>5, <2>2 DEF UndoKeepingPallet
    <3>2. Decreased(total[n], e.qty) = before[L]
      BY <1>1, <1>4 DEF Decreased
    <3> HIDE DEF e
    <3>3. n = e.pallet
      BY DEF e
    <3> QED
      BY <1>3, <2>2, <3>1, <3>2, <3>3 DEF UndoKeepingPallet, LedgerInv, StockInv, TypeOK
  <2> QED
    BY <1>1, <2>1, <2>2
<1>7. audit'.action = "UNDO_LAST" /\ audit'.pallet = n /\ audit'.qty = e.qty
  BY <1>1 DEF Audit
<1> QED
  BY <1>1, <1>2, <1>4, <1>6, <1>7

\* The pallet goes with the entry that made it, and only with that.
LEMMA UndoKeepsCreators ==
  ASSUME TypeOK, CreatorIsOldest, NEW L \in Nat, L = Len(entries), L \in 1..L,
         NEW n \in PalletNumbers, n = entries[L].pallet,
         Len(entries') = L - 1, \A i \in 1..(L - 1) : entries'[i] = entries[i],
         \A m \in PalletNumbers \ {n} : status'[m] = status[m],
         status'[n] = IF entries[L].created THEN "absent" ELSE status[n]
  PROVE  CreatorIsOldest'
<1>1. L = Len(entries)
  OBVIOUS
<1>2. L \in 1..L /\ \A i \in 1..L : entries[i].pallet \in PalletNumbers
  BY EntryTypes
<1>3. n = entries[L].pallet
  OBVIOUS
<1>4. /\ Len(entries') = L - 1 /\ \A i \in 1..(L - 1) : entries'[i] = entries[i]
      /\ \A m \in PalletNumbers \ {n} : status'[m] = status[m]
      /\ status'[n] = IF entries[L].created THEN "absent" ELSE status[n]
  OBVIOUS
<1>5. /\ \A i \in 1..L : /\ status[entries[i].pallet] # "absent"
                         /\ entries[i].created <=>
                              \A j \in 1..(i - 1) : entries[j].pallet # entries[i].pallet
      /\ \A m \in Live : EntriesOf(m) # {}
  BY <1>1 DEF CreatorIsOldest
<1>6. ASSUME NEW i \in 1..(L - 1)
      PROVE  /\ status'[entries'[i].pallet] # "absent"
             /\ entries'[i].created <=>
                  \A j \in 1..(i - 1) : entries'[j].pallet # entries'[i].pallet
  <2>0. i \in 1..L /\ \A j \in 1..(i - 1) : j \in 1..(L - 1)
    BY <1>2
  <2>1. entries'[i].created <=> \A j \in 1..(i - 1) : entries'[j].pallet # entries'[i].pallet
    <3>1. entries'[i] = entries[i] /\ \A j \in 1..(i - 1) : entries'[j] = entries[j]
      BY <1>4, <2>0
    <3>2. entries[i].created <=> \A j \in 1..(i - 1) : entries[j].pallet # entries[i].pallet
      BY <1>5, <2>0
    <3> QED
      BY <3>1, <3>2
  <2>2. CASE entries[i].pallet = n
    <3>1. ~entries[L].created
      BY <1>2, <1>3, <1>5, <2>2
    <3> QED
      BY <1>4, <1>5, <2>0, <2>1, <2>2, <3>1
  <2>3. CASE entries[i].pallet # n
    BY <1>2, <1>4, <1>5, <2>0, <2>1, <2>3
  <2> QED
    BY <2>2, <2>3
<1>7. ASSUME NEW m \in Live'
      PROVE  EntriesOf(m)' # {}
  <2>1. \E i \in 1..(L - 1) : entries[i].pallet = m
    <3>1. CASE m = n
      <4>1. ~entries[L].created
        BY <1>4, <1>7, <3>1 DEF Live
      <4> QED
        BY <1>2, <1>3, <1>5, <3>1, <4>1
    <3>2. CASE m # n
      <4>1. m \in Live
        BY <1>4, <1>7, <3>2 DEF Live
      <4>2. PICK i \in 1..L : entries[i].pallet = m
        BY <1>1, <1>5, <4>1 DEF EntriesOf
      <4>3. i \in 1..(L - 1)
        BY <1>2, <1>3, <3>2, <4>2
      <4> QED
        BY <4>2, <4>3
    <3> QED
      BY <3>1, <3>2
  <2> QED
    BY <1>4, <2>1 DEF EntriesOf
<1> QED
  BY <1>4, <1>6, <1>7 DEF CreatorIsOldest

LEMMA UndoKeepsLedger ==
  ASSUME LedgerInv, UndoLast
  PROVE  CreatorIsOldest' /\ RunningBalance'
<1>0. PICK L \in Nat : L = Len(entries)
  BY EntryTypes DEF LedgerInv, StockInv
<1>1. PICK before \in [1..L -> Nat] : ChainedBy(before)
  BY <1>0 DEF LedgerInv, RunningBalance
<1>2. L \in 1..L /\ \A i \in 1..L : entries[i].pallet \in PalletNumbers
  BY <1>0, LastEntry, EntryTypes DEF UndoLast, LedgerInv, StockInv
<1>3. PICK n \in PalletNumbers : n = entries[L].pallet
  BY <1>2
<1>4. /\ Len(entries') = L - 1 /\ \A i \in 1..(L - 1) : entries'[i] = entries[i]
      /\ total'[n] = before[L]
      /\ \A m \in PalletNumbers \ {n} : total'[m] = total[m] /\ status'[m] = status[m]
      /\ status'[n] = IF entries[L].created THEN "absent" ELSE status[n]
  BY <1>0, <1>1, <1>3, UndoEffect
<1>6. CreatorIsOldest'
  <2>1. TypeOK /\ CreatorIsOldest
    BY DEF LedgerInv, StockInv
  <2> QED
    BY <1>0, <1>2, <1>3, <1>4, <2>1, UndoKeepsCreators
<1>7. RunningBalance'
  <2>0. \A i \in 1..(L - 1) : i \in 1..L /\ entries'[i] = entries[i]
    BY <1>2, <1>4
  <2>1. PICK old \in [1..(L - 1) -> Nat] : \A i \in 1..(L - 1) : old[i] = before[i]
    <3> DEFINE f == [i \in 1..(L - 1) |-> before[i]]
    <3>1. f \in [1..(L - 1) -> Nat] /\ \A i \in 1..(L - 1) : f[i] = before[i]
      BY <1>1, <2>0
    <3> QED
      BY <3>1
  <2>2. ASSUME NEW i \in 1..(L - 1), entries'[i].created
        PROVE  old[i] = 0
    BY <1>0, <1>1, <2>0, <2>1, <2>2 DEF ChainedBy
  <2>3. ASSUME NEW i \in 1..(L - 1), NEW j \in 1..(L - 1), Follows(j, i)'
        PROVE  old[j] = old[i] + entries'[i].qty
    <3>1. \A k \in (i + 1)..(j - 1) : k \in 1..(L - 1)
      BY <1>2
    <3>2. Follows(j, i)
      BY <2>0, <2>3, <3>1 DEF Follows
    <3> QED
      BY <1>0, <1>1, <2>0, <2>1, <3>2 DEF ChainedBy
  <2>4. ASSUME NEW i \in 1..(L - 1), Newest(i)'
        PROVE  total'[entries'[i].pallet] = old[i] + entries'[i].qty
    <3>0. \A k \in (i + 1)..(L - 1) : k \in 1..(L - 1) /\ entries[k].pallet # entries[i].pallet
      <4>1. \A k \in (i + 1)..(L - 1) : k \in 1..(L - 1)
        BY <1>2
      <4>2. \A k \in (i + 1)..(L - 1) : entries'[k].pallet # entries'[i].pallet
        BY <1>4, <2>4 DEF Newest
      <4> QED
        BY <2>0, <4>1, <4>2
    <3>1. CASE entries[i].pallet = n
      <4>1. Follows(L, i)
        BY <1>2, <1>3, <3>0, <3>1 DEF Follows
      <4>2. before[L] = before[i] + entries[i].qty
        BY <1>0, <1>1, <1>2, <2>0, <4>1 DEF ChainedBy
      <4> QED
        BY <1>4, <2>0, <2>1, <3>1, <4>2
    <3>2. CASE entries[i].pallet # n
      <4>1. Newest(i)
        BY <1>0, <1>2, <1>3, <3>0, <3>2 DEF Newest
      <4>2. total[entries[i].pallet] = before[i] + entries[i].qty
        BY <1>0, <1>1, <2>0, <4>1 DEF ChainedBy
      <4> QED
        BY <1>2, <1>4, <2>0, <2>1, <3>2, <4>2
    <3> QED
      BY <3>1, <3>2
  <2>5. ChainedBy(old)'
    BY <1>4, <2>2, <2>3, <2>4 DEF ChainedBy
  <2> QED
    BY <1>4, <2>1, <2>5 DEF RunningBalance
<1> QED
  BY <1>6, <1>7

LEMMA NextLedgerInv == LedgerInv /\ [Next]_vars => LedgerInv'
<1> SUFFICES ASSUME LedgerInv, [Next]_vars PROVE LedgerInv'
  OBVIOUS
<1>1. StockInv' /\ TypeOK
  BY NextStockInv DEF LedgerInv, StockInv
<1>2. CASE Register
  BY <1>1, <1>2, RegisterKeepsLedger DEF Register, LedgerInv
<1>3. ASSUME NEW n \in PalletNumbers, ClosePallet(n)
      PROVE  CreatorIsOldest' /\ RunningBalance'
  <2>1. \A m \in PalletNumbers : status'[m] = "absent" <=> status[m] = "absent"
    BY <1>1, <1>3 DEF ClosePallet, TypeOK
  <2> QED
    BY <1>1, <1>3, <2>1, SameLedger DEF ClosePallet
<1>4. ASSUME NEW n \in PalletNumbers, ConfirmLatestUnconfirmed(n)
      PROVE  CreatorIsOldest' /\ RunningBalance'
  <2>1. PICK k \in 1..Len(entries) :
          /\ entries' = [entries EXCEPT ![k] = Marked(@)]
          /\ UNCHANGED <<status, total, items>>
    BY <1>4 DEF ConfirmLatestUnconfirmed
  <2>2. entries[k] \in Entry /\ Len(entries') = Len(entries)
    BY <1>1, <2>1 DEF TypeOK
  <2>3. entries'[k] = Marked(entries[k]) /\ \A i \in 1..Len(entries) \ {k} : entries'[i] = entries[i]
    BY <1>1, <2>1 DEF TypeOK
  <2>4. \A i \in 1..Len(entries) : /\ entries'[i].pallet = entries[i].pallet
                                  /\ entries'[i].qty = entries[i].qty
                                  /\ entries'[i].created = entries[i].created
    BY <2>2, <2>3, MarkedType
  <2> QED
    BY <1>1, <2>1, <2>2, <2>4, SameLedger
<1>5. CASE UndoLast
  BY <1>1, <1>5, UndoKeepsLedger DEF LedgerInv
<1>6. CASE ClearAllData
  <2>1. Len(entries') = 0 /\ Live' = {}
    BY <1>6 DEF ClearAllData, Live
  <2>2. CreatorIsOldest'
    BY <2>1 DEF CreatorIsOldest
  <2>3. PICK none \in [1..0 -> Nat] : TRUE
    <3>1. [i \in 1..0 |-> 0] \in [1..0 -> Nat]
      OBVIOUS
    <3> QED
      BY <3>1
  <2>4. ChainedBy(none)'
    BY <2>1 DEF ChainedBy
  <2> QED
    BY <1>1, <2>1, <2>2, <2>4 DEF RunningBalance, LedgerInv
<1>7. CASE UNCHANGED vars
  BY <1>1, <1>7, SameLedger DEF vars, LedgerInv
<1> QED
  BY <1>1, <1>2, <1>3, <1>4, <1>5, <1>6, <1>7 DEF Next, LedgerInv

LEMMA LedgerInvCorrect == Spec => []LedgerInv
BY InitLedgerInv, NextLedgerInv, PTL DEF Spec

\* The entry marked CreatedNewPallet is always the oldest of its pallet, every
\* entry has its pallet and every pallet an entry: undo, going back from the
\* newest entry, never leaves an empty pallet and never removes one in use.
THEOREM UndoFindsItsPallet == Spec => []CreatorIsOldest
<1>1. LedgerInv => CreatorIsOldest
  BY DEF LedgerInv
<1> QED
  BY <1>1, LedgerInvCorrect, PTL

\* No row without its bookings and no booking without its pallet, for every
\* sequence of operations.
THEOREM RowsAlwaysHaveBookings == Spec => []RowsHaveBookings
<1>1. LedgerInv => RowsHaveBookings
  BY DEF LedgerInv, StockInv, RowsHaveBookings
<1> QED
  BY <1>1, LedgerInvCorrect, PTL

LEMMA AuditStep ==
  ASSUME LedgerInv, [Next]_vars, vars' # vars, NEW n \in PalletNumbers
  PROVE  total'[n] = IF audit'.action = "CLEAR_ALL_DATA" THEN 0
                     ELSE IF audit'.pallet # n THEN total[n]
                     ELSE IF audit'.action = "REGISTER_COLLI" THEN total[n] + audit'.qty
                     ELSE IF audit'.action = "UNDO_LAST" THEN total[n] - audit'.qty
                     ELSE total[n]
<1>1. TypeOK
  BY DEF LedgerInv, StockInv
<1>2. ASSUME NEW m \in PalletNumbers, NEW v \in Variants, NEW q \in Quantities,
             RegisterOnExisting(m, v, q) \/ RegisterOnNew(m, v, q)
      PROVE  /\ audit'.action = "REGISTER_COLLI" /\ audit'.pallet = m /\ audit'.qty = q
             /\ total'[m] = total[m] + q
             /\ \A l \in PalletNumbers \ {m} : total'[l] = total[l]
  <2>1. PICK c \in BOOLEAN : PutColli(m, v, q, c)
    BY <1>2 DEF RegisterOnExisting, RegisterOnNew
  <2> QED
    BY <1>1, <2>1, PutColliStock DEF PutColli, Audit
<1>3. CASE Register
  BY <1>2, <1>3 DEF Register
<1>4. CASE \E m \in PalletNumbers : ClosePallet(m) \/ ConfirmLatestUnconfirmed(m)
  BY <1>4 DEF ClosePallet, ConfirmLatestUnconfirmed, Audit
<1>5. CASE UndoLast
  <2>1. PICK L \in Nat : L = Len(entries)
    BY <1>1, EntryTypes
  <2>2. PICK before \in [1..L -> Nat] : ChainedBy(before)
    BY <2>1 DEF LedgerInv, RunningBalance
  <2>3. PICK m \in PalletNumbers : m = entries[L].pallet
    BY <1>1, <1>5, <2>1, LastEntry DEF UndoLast
  <2>4. /\ total[m] = before[L] + entries[L].qty /\ total'[m] = before[L] /\ L \in 1..L
        /\ \A l \in PalletNumbers \ {m} : total'[l] = total[l]
        /\ audit'.action = "UNDO_LAST" /\ audit'.pallet = m /\ audit'.qty = entries[L].qty
    BY <1>5, <2>1, <2>2, <2>3, UndoEffect
  <2>5. entries[L].qty \in Nat /\ before[L] \in Nat
    BY <1>1, <1>5, <2>1, <2>4, LastEntry DEF UndoLast
  <2> QED
    BY <2>4, <2>5
<1>6. CASE ClearAllData
  BY <1>6 DEF ClearAllData, Audit
<1> QED
  BY <1>3, <1>4, <1>5, <1>6 DEF Next

\* Every change of every pallet total is the one the audit row written with it
\* states; undo in particular takes exactly what its row says.
THEOREM AuditIsComplete == Spec => AuditAccountsForStock
<1>1. LedgerInv /\ [Next]_vars =>
        [\A n \in PalletNumbers :
           total'[n] = IF audit'.action = "CLEAR_ALL_DATA" THEN 0
                       ELSE IF audit'.pallet # n THEN total[n]
                       ELSE IF audit'.action = "REGISTER_COLLI" THEN total[n] + audit'.qty
                       ELSE IF audit'.action = "UNDO_LAST" THEN total[n] - audit'.qty
                       ELSE total[n]]_vars
  BY AuditStep
<1> QED
  BY <1>1, LedgerInvCorrect, PTL DEF Spec, AuditAccountsForStock

\* A closed pallet receives no colli and is not reopened.
THEOREM ClosedPalletsStayClosed == Spec => ClosedStaysClosed
<1>1. TypeOK /\ [Next]_vars =>
        [\A n \in PalletNumbers : status[n] = "closed" =>
           /\ status'[n] \in {"closed", "absent"}
           /\ \A v \in Variants : items'[n][v] <= items[n][v]]_vars
  <2> SUFFICES ASSUME TypeOK, [Next]_vars, NEW n \in PalletNumbers, status[n] = "closed"
               PROVE  /\ status'[n] \in {"closed", "absent"}
                      /\ \A v \in Variants : items'[n][v] <= items[n][v]
    OBVIOUS
  <2>1. ASSUME NEW m \in PalletNumbers, NEW v \in Variants, NEW q \in Quantities,
               RegisterOnExisting(m, v, q) \/ RegisterOnNew(m, v, q)
        PROVE  status'[n] = status[n] /\ items'[n] = items[n]
    <3>1. status[m] # "closed"
      BY <2>1, FreshNumber DEF RegisterOnExisting, RegisterOnNew, IsBestOpenPallet, Candidates
    <3>2. PICK c \in BOOLEAN : PutColli(m, v, q, c)
      BY <2>1 DEF RegisterOnExisting, RegisterOnNew
    <3> QED
      BY <2>1, <3>1, <3>2, PutColliStock DEF RegisterOnExisting, RegisterOnNew, TypeOK
  <2>2. CASE Register
    BY <2>1, <2>2 DEF Register, TypeOK
  <2>3. CASE ~Register
    BY <2>3, OtherStepsShrink DEF StockShrinks
  <2> QED
    BY <2>2, <2>3
<1> QED
  BY <1>1, TypeCorrect, PTL DEF Spec, ClosedStaysClosed

-----------------------------------------------------------------------------
(* Confirmation.                                                           *)

LEMMA InitConfirmed == Init => ConfirmedWithinQuantity
BY DEF Init, ConfirmedWithinQuantity

LEMMA MarkedWithinQuantity ==
  ASSUME NEW e \in Entry, e.confirmed <= e.qty
  PROVE  /\ Marked(e).confirmed <= Marked(e).qty
         /\ Marked(e).moved <=> Marked(e).confirmed = Marked(e).qty
<1> DEFINE c == IF e.confirmed < e.qty THEN e.confirmed + 1 ELSE e.confirmed
<1>1. e.qty \in Nat /\ e.confirmed \in Nat
  <2>1. e.qty \in Quantities /\ e.confirmed \in Nat
    BY DEF Entry
  <2> QED
    BY <2>1, QuantitiesAssumption
<1>2. c <= e.qty /\ c \in Nat
  BY <1>1
<1>3. Marked(e) = [e EXCEPT !.confirmed = c, !.moved = (c >= e.qty)]
  BY DEF Marked
<1> HIDE DEF c
<1>4. Marked(e).confirmed = c /\ Marked(e).qty = e.qty /\ Marked(e).moved = (c >= e.qty)
  BY <1>3 DEF Entry
<1>5. (c >= e.qty) <=> c = e.qty
  BY <1>1, <1>2
<1> QED
  BY <1>2, <1>4, <1>5

LEMMA NextConfirmed ==
  ASSUME TypeOK, ConfirmedWithinQuantity, [Next]_vars
  PROVE  ConfirmedWithinQuantity'
<1>1. ASSUME NEW n \in PalletNumbers, NEW v \in Variants, NEW q \in Quantities,
             RegisterOnExisting(n, v, q) \/ RegisterOnNew(n, v, q)
      PROVE  ConfirmedWithinQuantity'
  <2>1. q \in Nat \ {0}
    BY QuantitiesAssumption
  <2>2. PICK c \in BOOLEAN : PutColli(n, v, q, c)
    BY <1>1 DEF RegisterOnExisting, RegisterOnNew
  <2>3. /\ Len(entries) \in Nat /\ Len(entries') = Len(entries) + 1
        /\ \A i \in 1..Len(entries) : entries'[i] = entries[i]
        /\ LET new == entries'[Len(entries) + 1]
           IN new.qty = q /\ new.confirmed = 0 /\ new.moved = FALSE
    BY <2>2 DEF PutColli, TypeOK
  <2>4. \A i \in 1..Len(entries') : i \in 1..Len(entries) \/ i = Len(entries) + 1
    BY <2>3
  <2> QED
    BY <2>1, <2>3, <2>4 DEF ConfirmedWithinQuantity
<1>2. ASSUME NEW n \in PalletNumbers, ConfirmLatestUnconfirmed(n)
      PROVE  ConfirmedWithinQuantity'
  <2>1. PICK k \in 1..Len(entries) : entries' = [entries EXCEPT ![k] = Marked(@)]
    BY <1>2 DEF ConfirmLatestUnconfirmed
  <2>2. /\ entries[k] \in Entry /\ Len(entries') = Len(entries) /\ entries'[k] = Marked(entries[k])
        /\ \A i \in 1..Len(entries) \ {k} : entries'[i] = entries[i]
    BY <2>1 DEF TypeOK
  <2> QED
    BY <2>2, MarkedWithinQuantity DEF ConfirmedWithinQuantity
<1>3. CASE UndoLast
  <2>1. /\ Len(entries') = Len(entries) - 1 /\ Len(entries) \in Nat
        /\ \A i \in 1..(Len(entries) - 1) : entries'[i] = entries[i]
    <3>1. entries' = SubSeq(entries, 1, Len(entries) - 1) /\ Len(entries) \in 1..Len(entries)
      BY <1>3, LastEntry DEF UndoLast
    <3>2. PICK L \in Nat : L = Len(entries)
      BY DEF TypeOK
    <3>3. Len(entries') = L - 1 /\ \A i \in 1..(L - 1) : entries'[i] = entries[i]
      BY <3>1, <3>2 DEF TypeOK
    <3> QED
      BY <3>2, <3>3
  <2>2. \A i \in 1..Len(entries') : i \in 1..Len(entries) /\ entries'[i] = entries[i]
    BY <2>1
  <2> QED
    BY <2>2 DEF ConfirmedWithinQuantity
<1>4. CASE ClearAllData
  BY <1>4 DEF ClearAllData, ConfirmedWithinQuantity
<1>5. CASE UNCHANGED entries
  BY <1>5 DEF ConfirmedWithinQuantity
<1> QED
  BY <1>1, <1>2, <1>3, <1>4, <1>5 DEF Next, Register, ClosePallet, vars

\* No entry is confirmed beyond its quantity and its moved flag is never out of
\* step with the count, however confirmations, undos and registrations mix.
THEOREM ConfirmationsFit == Spec => []ConfirmedWithinQuantity
<1>1. TypeOK /\ ConfirmedWithinQuantity /\ [Next]_vars => ConfirmedWithinQuantity'
  BY NextConfirmed
<1> QED
  BY <1>1, InitConfirmed, TypeCorrect, PTL DEF Spec

-----------------------------------------------------------------------------
(* The three tables tell the same story.                                   *)

EntryQty == [i \in 1..Len(entries) |-> entries[i].qty]
Bookings(n, v) == {i \in EntriesOf(n) : entries[i].variant = v}
RowsAddUp(n) == total[n] = SumFunctionOnSet(items[n], Variants)
BookingsAddUp(n, v) == items[n][v] = SumFunctionOnSet(EntryQty, Bookings(n, v))

LEMMA ConservationByParts ==
  Conservation <=> \A n \in PalletNumbers : RowsAddUp(n) /\ \A v \in Variants : BookingsAddUp(n, v)
BY DEF Conservation, RowsAddUp, BookingsAddUp, EntryQty, Bookings

LEMMA BookingsFinite ==
  ASSUME TypeOK, NEW n, NEW v
  PROVE  /\ IsFiniteSet(Bookings(n, v)) /\ Bookings(n, v) \subseteq 1..Len(entries)
         /\ \A i \in 1..Len(entries) : EntryQty[i] = entries[i].qty /\ EntryQty[i] \in Nat
<1>1. Bookings(n, v) \subseteq 1..Len(entries)
  BY DEF Bookings, EntriesOf
<1>2. IsFiniteSet(1..Len(entries))
  BY EntryTypes, FS_Interval
<1>3. \A i \in 1..Len(entries) : EntryQty[i] = entries[i].qty /\ EntryQty[i] \in Nat
  BY EntryTypes DEF EntryQty
<1> QED
  BY <1>1, <1>2, <1>3, FS_Subset

\* An operation that changes one item row of a pallet by d and its total by d.
LEMMA RowChange ==
  ASSUME TypeOK, TypeOK', NEW n \in PalletNumbers, RowsAddUp(n), NEW v \in Variants,
         \A w \in Variants \ {v} : items'[n][w] = items[n][w],
         total'[n] = total[n] - items[n][v] + items'[n][v]
  PROVE  RowsAddUp(n)'
<1>1. \A w \in Variants : items[n][w] \in Nat /\ items'[n][w] \in Nat
  BY DEF TypeOK
<1>2. SumFunctionOnSet(items'[n], Variants) = SumFunctionOnSet(items[n], Variants) - items[n][v] + items'[n][v]
  BY <1>1, FiniteVariants, SumChanges
<1> QED
  BY <1>2 DEF RowsAddUp

\* Entries that keep their pallet, variant and quantity add up to the same.
LEMMA SameBookings ==
  ASSUME TypeOK, TypeOK', Len(entries') = Len(entries),
         \A i \in 1..Len(entries) :
           /\ entries'[i].pallet = entries[i].pallet /\ entries'[i].qty = entries[i].qty
           /\ entries'[i].variant = entries[i].variant,
         NEW n \in PalletNumbers, NEW v \in Variants, BookingsAddUp(n, v),
         items'[n][v] = items[n][v]
  PROVE  BookingsAddUp(n, v)'
<1>1. Bookings(n, v)' = Bookings(n, v)
  BY DEF Bookings, EntriesOf
<1>2. EntryQty' = EntryQty
  BY DEF EntryQty
<1> QED
  BY <1>1, <1>2 DEF BookingsAddUp

LEMMA AppendedBooking ==
  ASSUME TypeOK, TypeOK', NEW e, entries' = Append(entries, e), e \in Entry,
         NEW n \in PalletNumbers, NEW v \in Variants, BookingsAddUp(n, v),
         items'[n][v] = items[n][v] + (IF e.pallet = n /\ e.variant = v THEN e.qty ELSE 0)
  PROVE  BookingsAddUp(n, v)'
<1> DEFINE L == Len(entries)
           B == Bookings(n, v)
<1>1. L \in Nat /\ Len(entries') = L + 1 /\ entries'[L + 1] = e
      /\ \A i \in 1..L : entries'[i] = entries[i]
  BY DEF TypeOK
<1>2. /\ IsFiniteSet(B) /\ B \subseteq 1..L
      /\ \A i \in 1..L : EntryQty[i] = entries[i].qty /\ EntryQty[i] \in Nat
  BY BookingsFinite
<1>3. \A i \in 1..(L + 1) : EntryQty'[i] = entries'[i].qty /\ EntryQty'[i] \in Nat
  <2>1. \A i \in 1..(L + 1) : entries'[i] \in Entry
    BY <1>1 DEF TypeOK
  <2>2. \A x \in Entry : x.qty \in Nat
    BY QuantitiesAssumption DEF Entry
  <2> QED
    BY <1>1, <2>1, <2>2 DEF EntryQty
<1>4. \A i \in 1..L : EntryQty'[i] = EntryQty[i]
  BY <1>1, <1>2, <1>3
<1>5. SumFunctionOnSet(EntryQty', B) = SumFunctionOnSet(EntryQty, B)
  BY <1>2, <1>4, SumCongruence
<1>6. Bookings(n, v)' = IF e.pallet = n /\ e.variant = v THEN B \union {L + 1} ELSE B
  BY <1>1 DEF Bookings, EntriesOf
<1>7. items[n][v] = SumFunctionOnSet(EntryQty, B) /\ items[n][v] \in Nat
  BY DEF BookingsAddUp, TypeOK
<1>8. CASE e.pallet = n /\ e.variant = v
  <2>1. L + 1 \notin B
    BY <1>1, <1>2
  <2>2. SumFunctionOnSet(EntryQty', B \union {L + 1}) = e.qty + SumFunctionOnSet(EntryQty', B)
    <3>1. \A y \in B \union {L + 1} : EntryQty'[y] \in Nat
      BY <1>1, <1>2, <1>3
    <3>2. EntryQty'[L + 1] = e.qty
      BY <1>1, <1>3
    <3> HIDE DEF B, L
    <3> QED
      BY <1>2, <2>1, <3>1, <3>2, SumAdds
  <2>3. e.qty \in Nat
    BY <1>1, <1>3
  <2> QED
    BY <1>5, <1>6, <1>7, <1>8, <2>2, <2>3 DEF BookingsAddUp
<1>9. CASE ~(e.pallet = n /\ e.variant = v)
  BY <1>5, <1>6, <1>7, <1>9 DEF BookingsAddUp
<1> QED
  BY <1>8, <1>9

\* Taking the newest entry back: what the other entries of its variant add up to.
LEMMA DroppedBooking ==
  ASSUME TypeOK, TypeOK', entries # <<>>, NEW L \in Nat, L = Len(entries),
         entries' = SubSeq(entries, 1, L - 1),
         NEW n \in PalletNumbers, NEW v \in Variants, BookingsAddUp(n, v)
  PROVE  /\ SumFunctionOnSet(EntryQty', Bookings(n, v)') \in Nat
         /\ items[n][v] = SumFunctionOnSet(EntryQty', Bookings(n, v)')
                          + (IF entries[L].pallet = n /\ entries[L].variant = v
                               THEN entries[L].qty ELSE 0)
<1> DEFINE B == Bookings(n, v)
<1>1. L \in 1..L /\ Len(entries') = L - 1 /\ \A i \in 1..(L - 1) : entries'[i] = entries[i]
  BY LastEntry DEF TypeOK
<1>2. /\ IsFiniteSet(B) /\ B \subseteq 1..L
      /\ \A i \in 1..L : EntryQty[i] = entries[i].qty /\ EntryQty[i] \in Nat
  BY BookingsFinite
<1>3. Bookings(n, v)' = B \ {L}
  BY <1>1 DEF Bookings, EntriesOf
<1>4. \A i \in B \ {L} : EntryQty'[i] = EntryQty[i]
  <2>1. \A i \in 1..(L - 1) : EntryQty'[i] = entries'[i].qty
    BY <1>1 DEF EntryQty
  <2>2. \A i \in B \ {L} : i \in 1..(L - 1)
    BY <1>2
  <2> QED
    BY <1>1, <1>2, <2>1, <2>2
<1>5. IsFiniteSet(B \ {L}) /\ \A i \in B : EntryQty[i] \in Nat
  BY <1>2, FS_RemoveElement
<1>6. /\ SumFunctionOnSet(EntryQty', B \ {L}) = SumFunctionOnSet(EntryQty, B \ {L})
      /\ SumFunctionOnSet(EntryQty, B \ {L}) \in Nat
  BY <1>4, <1>5, SumCongruence, SumIsNat
<1>7. items[n][v] = SumFunctionOnSet(EntryQty, B)
  BY DEF BookingsAddUp
<1>8. CASE entries[L].pallet = n /\ entries[L].variant = v
  <2>1. L \in B
    BY <1>1, <1>8 DEF Bookings, EntriesOf
  <2> HIDE DEF B
  <2>2. SumFunctionOnSet(EntryQty, B) = EntryQty[L] + SumFunctionOnSet(EntryQty, B \ {L})
    <3>1. IsFiniteSet(B)
      BY <1>2
    <3>2. \A x \in B : SumFunctionOnSet(EntryQty, B) = EntryQty[x] + SumFunctionOnSet(EntryQty, B \ {x})
      BY <1>5, <3>1, SumTakesAny
    <3> QED
      BY <2>1, <3>2
  <2>3. EntryQty[L] = entries[L].qty /\ EntryQty[L] \in Nat
    BY <1>1, <1>2
  <2> QED
    BY <1>3, <1>6, <1>7, <1>8, <2>2, <2>3
<1>9. CASE ~(entries[L].pallet = n /\ entries[L].variant = v)
  <2>1. B \ {L} = B
    BY <1>9 DEF Bookings, EntriesOf
  <2>2. SumFunctionOnSet(EntryQty', Bookings(n, v)') = SumFunctionOnSet(EntryQty, B)
    BY <1>3, <1>6, <2>1
  <2>3. SumFunctionOnSet(EntryQty, B) \in Nat
    BY <1>6, <2>1
  <2> QED
    BY <1>7, <1>9, <2>2, <2>3
<1> QED
  BY <1>8, <1>9

ConservationInv == LedgerInv /\ Conservation

LEMMA RegisterConserves ==
  ASSUME TypeOK, TypeOK', Conservation,
         NEW m \in PalletNumbers, NEW w \in Variants, NEW q \in Quantities,
         RegisterOnExisting(m, w, q) \/ RegisterOnNew(m, w, q),
         NEW n \in PalletNumbers
  PROVE  RowsAddUp(n)' /\ \A v \in Variants : BookingsAddUp(n, v)'
<1>1. PICK createdNew \in BOOLEAN : PutColli(m, w, q, createdNew)
  BY DEF RegisterOnExisting, RegisterOnNew
<1>2. RowsAddUp(n) /\ \A v \in Variants : BookingsAddUp(n, v)
  BY ConservationByParts
<1>3. q \in Nat
  BY QuantitiesAssumption
<1>4. /\ items' = [items EXCEPT ![m][w] = @ + q]
      /\ total'[m] = total[m] + q
      /\ \A l \in PalletNumbers \ {m} : total'[l] = total[l] /\ items'[l] = items[l]
  BY <1>1, PutColliStock DEF PutColli
<1>5. RowsAddUp(n)'
  <2>1. CASE n = m
    <3>1. items'[n][w] = items[n][w] + q /\ \A v \in Variants \ {w} : items'[n][v] = items[n][v]
      BY <1>4, <2>1 DEF TypeOK
    <3>2. total[n] \in Nat /\ items[n][w] \in Nat
      BY DEF TypeOK
    <3>3. total'[n] = total[n] - items[n][w] + items'[n][w]
      BY <1>3, <1>4, <2>1, <3>1, <3>2
    <3> QED
      BY <1>2, <3>1, <3>3, RowChange
  <2>2. CASE n # m
    BY <1>2, <1>4, <2>2 DEF RowsAddUp
  <2> QED
    BY <2>1, <2>2
<1>6. ASSUME NEW v \in Variants
      PROVE  BookingsAddUp(n, v)'
  <2> DEFINE e == [variant |-> w, qty |-> q, pallet |-> m,
                   created |-> createdNew, confirmed |-> 0, moved |-> FALSE]
  <2>1. entries' = Append(entries, e) /\ e \in Entry /\ e.pallet = m /\ e.variant = w /\ e.qty = q
    BY <1>1 DEF PutColli, Entry
  <2>2. items'[n][v] = items[n][v] + (IF m = n /\ w = v THEN q ELSE 0)
    <3>1. items[n][v] \in Nat
      BY DEF TypeOK
    <3> QED
      BY <1>3, <1>4, <3>1 DEF TypeOK
  <2> HIDE DEF e
  <2> QED
    BY <1>2, <2>1, <2>2, AppendedBooking
<1> QED
  BY <1>5, <1>6

LEMMA UndoConserves ==
  ASSUME ConservationInv, TypeOK', UndoLast, NEW n \in PalletNumbers
  PROVE  RowsAddUp(n)' /\ \A v \in Variants : BookingsAddUp(n, v)'
<1>0. TypeOK /\ LedgerInv /\ Conservation /\ entries # <<>>
  BY DEF ConservationInv, LedgerInv, StockInv, UndoLast
<1>1. PICK L \in Nat : L = Len(entries)
  BY <1>0, EntryTypes
<1>2. PICK before \in [1..L -> Nat] : ChainedBy(before)
  BY <1>0, <1>1 DEF LedgerInv, RunningBalance
<1> DEFINE e == entries[L]
<1>3. /\ L \in 1..L /\ e \in Entry /\ e.pallet \in PalletNumbers /\ e.variant \in Variants
      /\ e.qty \in Nat \ {0}
  BY <1>0, <1>1, LastEntry
<1>4. /\ entries' = SubSeq(entries, 1, L - 1)
      /\ UndoRemovingPallet(e) \/ UndoKeepingPallet(e)
  BY <1>1 DEF UndoLast
<1>5. /\ total'[e.pallet] = before[L] /\ total[e.pallet] = before[L] + e.qty
      /\ \A m \in PalletNumbers \ {e.pallet} : total'[m] = total[m]
      /\ Len(entries') = L - 1
  BY <1>0, <1>1, <1>2, <1>3, UndoEffect
<1>6. RowsAddUp(n) /\ \A v \in Variants : BookingsAddUp(n, v)
  BY <1>0, ConservationByParts
<1>7. ASSUME NEW v \in Variants
      PROVE  /\ SumFunctionOnSet(EntryQty', Bookings(n, v)') \in Nat
             /\ items[n][v] = SumFunctionOnSet(EntryQty', Bookings(n, v)')
                              + (IF e.pallet = n /\ e.variant = v THEN e.qty ELSE 0)
  BY <1>0, <1>1, <1>4, <1>6, DroppedBooking
<1>8. \A v \in Variants : items[n][v] \in Nat
  BY <1>0 DEF TypeOK
<1> HIDE DEF e
<1>9. CASE UndoKeepingPallet(e)
  <2>1. items' = [items EXCEPT ![e.pallet][e.variant] = Decreased(@, e.qty)]
    BY <1>9 DEF UndoKeepingPallet
  <2>2. ASSUME NEW v \in Variants
        PROVE  items'[n][v] = SumFunctionOnSet(EntryQty', Bookings(n, v)')
    <3>1. CASE e.pallet = n /\ e.variant = v
      <4>1. items'[n][v] = Decreased(items[n][v], e.qty)
        BY <1>0, <2>1, <3>1 DEF TypeOK
      <4> QED
        BY <1>3, <1>7, <3>1, <4>1 DEF Decreased
    <3>2. CASE ~(e.pallet = n /\ e.variant = v)
      <4>1. items'[n][v] = items[n][v]
        BY <1>0, <1>3, <2>1, <3>2 DEF TypeOK
      <4> QED
        BY <1>7, <3>2, <4>1
    <3> QED
      BY <3>1, <3>2
  <2>3. RowsAddUp(n)'
    <3>1. CASE n = e.pallet
      <4>1. \A v \in Variants \ {e.variant} : items'[n][v] = items[n][v]
        BY <1>0, <1>3, <2>1, <3>1 DEF TypeOK
      <4>2. items[n][e.variant] = items'[n][e.variant] + e.qty /\ items'[n][e.variant] \in Nat
        BY <1>3, <1>7, <2>2, <3>1
      <4>3. total'[n] = total[n] - items[n][e.variant] + items'[n][e.variant]
        BY <1>2, <1>3, <1>5, <3>1, <4>2
      <4> QED
        BY <1>0, <1>3, <1>6, <4>1, <4>3, RowChange
    <3>2. CASE n # e.pallet
      <4>1. items'[n] = items[n]
        BY <1>0, <1>3, <2>1, <3>2 DEF TypeOK
      <4> QED
        BY <1>5, <1>6, <3>2, <4>1 DEF RowsAddUp
    <3> QED
      BY <3>1, <3>2
  <2> QED
    BY <2>2, <2>3 DEF BookingsAddUp
<1>10. CASE UndoRemovingPallet(e)
  <2>1. CASE n # e.pallet
    <3>1. items'[n] = items[n] /\ total'[n] = total[n]
      BY <1>0, <1>3, <1>5, <1>10, <2>1 DEF UndoRemovingPallet, TypeOK
    <3>2. ASSUME NEW v \in Variants
          PROVE  items'[n][v] = SumFunctionOnSet(EntryQty', Bookings(n, v)')
      BY <1>7, <2>1, <3>1
    <3> QED
      BY <1>6, <3>1, <3>2 DEF BookingsAddUp, RowsAddUp
  <2>2. CASE n = e.pallet
    <3>1. items'[n] = EmptyItems /\ total'[n] = 0
      BY <1>0, <1>3, <1>10, <2>2 DEF UndoRemovingPallet, TypeOK
    <3>2. \A v \in Variants : items'[n][v] = 0
      BY <3>1 DEF EmptyItems
    <3>3. RowsAddUp(n)'
      BY <3>1, <3>2, FiniteVariants, SumZero DEF RowsAddUp
    <3>4. \A i \in 1..(L - 1) : entries[i].pallet # n
      <4>1. e.created
        BY <1>10 DEF UndoRemovingPallet, RemovesShell
      <4> QED
        BY <1>0, <1>1, <1>3, <2>2, <4>1 DEF e, LedgerInv, CreatorIsOldest
    <3>5. \A v \in Variants : Bookings(n, v)' = {}
      <4>1. \A i \in 1..(L - 1) : entries'[i] = entries[i]
        BY <1>0, <1>1, <1>4 DEF TypeOK
      <4> QED
        BY <1>5, <3>4, <4>1 DEF Bookings, EntriesOf
    <3> QED
      BY <3>2, <3>3, <3>5, SumOfNothing DEF BookingsAddUp
  <2> QED
    BY <2>1, <2>2
<1> QED
  BY <1>4, <1>9, <1>10

LEMMA InitConservationInv == Init => ConservationInv
<1> SUFFICES ASSUME Init PROVE Conservation
  BY InitLedgerInv DEF ConservationInv
<1>1. ASSUME NEW n \in PalletNumbers
      PROVE  RowsAddUp(n) /\ \A v \in Variants : BookingsAddUp(n, v)
  <2>1. total[n] = 0 /\ \A v \in Variants : items[n][v] = 0 /\ Bookings(n, v) = {}
    BY DEF Init, EmptyItems, Bookings, EntriesOf
  <2> QED
    BY <2>1, FiniteVariants, SumZero, SumOfNothing DEF RowsAddUp, BookingsAddUp
<1> QED
  BY <1>1, ConservationByParts

LEMMA NextConservationInv == ConservationInv /\ [Next]_vars => ConservationInv'
<1> SUFFICES ASSUME ConservationInv, [Next]_vars, NEW n \in PalletNumbers
             PROVE  RowsAddUp(n)' /\ \A v \in Variants : BookingsAddUp(n, v)'
  BY NextLedgerInv, ConservationByParts DEF ConservationInv, Conservation, RowsAddUp, BookingsAddUp, EntryQty, Bookings
<1>0. TypeOK /\ Conservation /\ TypeOK'
  BY NextTypeOK DEF ConservationInv, LedgerInv, StockInv
<1>1. RowsAddUp(n) /\ \A v \in Variants : BookingsAddUp(n, v)
  BY <1>0, ConservationByParts
<1>2. CASE Register
  BY <1>0, <1>2, RegisterConserves DEF Register
<1>3. CASE UndoLast
  BY <1>0, <1>3, UndoConserves
<1>4. ASSUME UNCHANGED <<total, items>>, Len(entries') = Len(entries),
             \A i \in 1..Len(entries) :
               /\ entries'[i].pallet = entries[i].pallet /\ entries'[i].qty = entries[i].qty
               /\ entries'[i].variant = entries[i].variant
      PROVE  RowsAddUp(n)' /\ \A v \in Variants : BookingsAddUp(n, v)'
  <2>1. RowsAddUp(n)'
    BY <1>1, <1>4 DEF RowsAddUp
  <2> QED
    BY <1>0, <1>1, <1>4, <2>1, SameBookings
<1>5. CASE (\E m \in PalletNumbers : ClosePallet(m)) \/ UNCHANGED vars
  BY <1>4, <1>5 DEF ClosePallet, vars
<1>6. ASSUME NEW m \in PalletNumbers, ConfirmLatestUnconfirmed(m)
      PROVE  RowsAddUp(n)' /\ \A v \in Variants : BookingsAddUp(n, v)'
  <2>1. PICK k \in 1..Len(entries) :
          /\ entries' = [entries EXCEPT ![k] = Marked(@)]
          /\ UNCHANGED <<status, total, items>>
    BY <1>6 DEF ConfirmLatestUnconfirmed
  <2>2. entries[k] \in Entry /\ Len(entries') = Len(entries)
    BY <1>0, <2>1 DEF TypeOK
  <2>3. entries'[k] = Marked(entries[k]) /\ \A i \in 1..Len(entries) \ {k} : entries'[i] = entries[i]
    BY <1>0, <2>1 DEF TypeOK
  <2>4. \A i \in 1..Len(entries) : /\ entries'[i].pallet = entries[i].pallet
                                  /\ entries'[i].qty = entries[i].qty
                                  /\ entries'[i].variant = entries[i].variant
    BY <2>2, <2>3, MarkedType
  <2> QED
    BY <1>4, <2>1, <2>2, <2>4
<1>7. CASE ClearAllData
  <2>1. total'[n] = 0 /\ \A v \in Variants : items'[n][v] = 0 /\ Bookings(n, v)' = {}
    BY <1>7 DEF ClearAllData, EmptyItems, Bookings, EntriesOf
  <2> QED
    BY <2>1, FiniteVariants, SumZero, SumOfNothing DEF RowsAddUp, BookingsAddUp
<1> QED
  BY <1>2, <1>3, <1>5, <1>6, <1>7 DEF Next

LEMMA ConservationInvCorrect == Spec => []ConservationInv
BY InitConservationInv, NextConservationInv, PTL DEF Spec

\* The total of a pallet row is always the sum of its item rows, and an item row
\* the sum of the scan entries behind it, whatever operations led here.
THEOREM StockIsConserved == Spec => []Conservation
<1>1. ConservationInv => Conservation
  BY DEF ConservationInv
<1> QED
  BY <1>1, ConservationInvCorrect, PTL

-----------------------------------------------------------------------------
(* Item rows and entries.                                                  *)

Booked(n, v) == \E i \in 1..Len(entries) : entries[i].pallet = n /\ entries[i].variant = v
RowsBooked == \A n \in PalletNumbers, v \in Variants : items[n][v] > 0 <=> Booked(n, v)

RowInv == LedgerInv /\ RowsBooked

\* An item row is the sum of positive quantities: it is there exactly while there
\* is one of them.
LEMMA StockIsBooked == ConservationInv => RowInv
<1> SUFFICES ASSUME ConservationInv, NEW n \in PalletNumbers, NEW v \in Variants
             PROVE  items[n][v] > 0 <=> Booked(n, v)
  BY DEF ConservationInv, RowInv, RowsBooked
<1>1. TypeOK
  BY DEF ConservationInv, LedgerInv, StockInv
<1>2. items[n][v] = SumFunctionOnSet(EntryQty, Bookings(n, v)) /\ items[n][v] \in Nat
  BY <1>1, ConservationByParts DEF ConservationInv, BookingsAddUp, TypeOK
<1>3. /\ IsFiniteSet(Bookings(n, v)) /\ Bookings(n, v) \subseteq 1..Len(entries)
      /\ \A i \in 1..Len(entries) : EntryQty[i] = entries[i].qty /\ EntryQty[i] \in Nat
  BY <1>1, BookingsFinite
<1>4. items[n][v] = 0 <=> \A i \in Bookings(n, v) : EntryQty[i] = 0
  BY <1>2, <1>3, SumZero
<1>5. \A i \in 1..Len(entries) : entries[i].qty > 0
  BY <1>1, EntryTypes, QuantitiesAssumption
<1> QED
  BY <1>2, <1>3, <1>4, <1>5 DEF Booked, Bookings, EntriesOf

LEMMA RowInvCorrect == Spec => []RowInv
BY ConservationInvCorrect, StockIsBooked, PTL

-----------------------------------------------------------------------------
(* Bookings.                                                               *)

LEMMA BookOfEntry ==
  ASSUME NEW es \in Seq(Entry)
  PROVE  /\ BookOf(es) \in Seq({Booking(e) : e \in Entry})
         /\ Len(BookOf(es)) = Len(es)
         /\ \A i \in 1..Len(es) : /\ BookOf(es)[i] = Booking(es[i])
                                  /\ BookOf(es)[i].pallet = es[i].pallet
                                  /\ BookOf(es)[i].variant = es[i].variant
                                  /\ BookOf(es)[i].qty = es[i].qty
                                  /\ BookOf(es)[i].confirmed = es[i].confirmed
<1>1. \A i \in 1..Len(es) : es[i] \in Entry
  OBVIOUS
<1>2. BookOf(es) \in [1..Len(es) -> {Booking(e) : e \in Entry}]
  BY <1>1 DEF BookOf
<1>3. \A i \in 1..Len(es) : BookOf(es)[i] = Booking(es[i])
  BY DEF BookOf
<1>4. BookOf(es) \in Seq({Booking(e) : e \in Entry}) /\ Len(BookOf(es)) = Len(es)
  BY <1>2
<1> QED
  BY <1>3, <1>4 DEF Booking

LEMMA AppendIs ==
  ASSUME NEW S, NEW s \in Seq(S), NEW x \in S
  PROVE  Append(s, x) = [i \in 1..(Len(s) + 1) |-> IF i = Len(s) + 1 THEN x ELSE s[i]]
<1>1. Len(Append(s, x)) = Len(s) + 1 /\ Append(s, x) \in Seq(S)
  OBVIOUS
<1>2. Append(s, x) \in [1..(Len(s) + 1) -> S]
  BY <1>1, LenProperties
<1>3. \A i \in 1..(Len(s) + 1) : Append(s, x)[i] = IF i = Len(s) + 1 THEN x ELSE s[i]
  <2>1. \A i \in 1..Len(s) : Append(s, x)[i] = s[i]
    OBVIOUS
  <2>2. Append(s, x)[Len(s) + 1] = x
    OBVIOUS
  <2> QED
    BY <2>1, <2>2
<1>4. Append(s, x) = [i \in 1..(Len(s) + 1) |-> Append(s, x)[i]]
  BY <1>2
<1> QED
  BY <1>3, <1>4

LEMMA BookOfAppend ==
  ASSUME NEW es \in Seq(Entry), NEW e \in Entry
  PROVE  BookOf(Append(es, e)) = Append(BookOf(es), Booking(e))
<1>1. Append(es, e) \in Seq(Entry) /\ Len(Append(es, e)) = Len(es) + 1
  OBVIOUS
<1>2. BookOf(Append(es, e)) = [i \in 1..(Len(es) + 1) |-> Booking(Append(es, e)[i])]
  BY <1>1 DEF BookOf
<1>3. Append(BookOf(es), Booking(e))
        = [i \in 1..(Len(es) + 1) |-> IF i = Len(es) + 1 THEN Booking(e) ELSE BookOf(es)[i]]
  <2>1. /\ BookOf(es) \in Seq({Booking(f) : f \in Entry}) /\ Len(BookOf(es)) = Len(es)
        /\ Booking(e) \in {Booking(f) : f \in Entry}
    BY BookOfEntry
  <2> QED
    BY <2>1, AppendIs
<1>4. \A i \in 1..(Len(es) + 1) :
        Booking(Append(es, e)[i]) = IF i = Len(es) + 1 THEN Booking(e) ELSE BookOf(es)[i]
  <2>1. /\ \A i \in 1..Len(es) : Append(es, e)[i] = es[i]
        /\ Append(es, e)[Len(es) + 1] = e
        /\ \A i \in 1..(Len(es) + 1) : i = Len(es) + 1 \/ i \in 1..Len(es)
    OBVIOUS
  <2> QED
    BY <2>1, BookOfEntry
<1> QED
  BY <1>2, <1>3, <1>4

LEMMA BookOfFront ==
  ASSUME NEW es \in Seq(Entry), es # <<>>
  PROVE  BookOf(SubSeq(es, 1, Len(es) - 1)) = SubSeq(BookOf(es), 1, Len(es) - 1)
<1> DEFINE front == SubSeq(es, 1, Len(es) - 1)
<1>1. Len(front) = Len(es) - 1 /\ \A i \in 1..(Len(es) - 1) : front[i] = es[i] /\ i \in 1..Len(es)
  <2>1. Len(es) \in Nat /\ Len(es) > 0
    OBVIOUS
  <2>2. \A i \in 1..(Len(es) - 1) : i \in 1..Len(es) /\ es[i] \in Entry
    BY <2>1
  <2>3. /\ Len(front) = IF 1 <= Len(es) - 1 THEN Len(es) - 1 - 1 + 1 ELSE 0
        /\ \A i \in 1..(Len(es) - 1 - 1 + 1) : front[i] = es[1 + i - 1]
    BY <2>1, <2>2, SubSeqProperties
  <2>4. \A i \in 1..(Len(es) - 1) : i \in 1..(Len(es) - 1 - 1 + 1) /\ 1 + i - 1 = i
    BY <2>1
  <2>5. \A i \in 1..(Len(es) - 1) : front[i] = es[i]
    BY <2>3, <2>4
  <2>6. (IF 1 <= Len(es) - 1 THEN Len(es) - 1 - 1 + 1 ELSE 0) = Len(es) - 1
    <3>1. ASSUME NEW k \in Nat, k > 0
          PROVE  (IF 1 <= k - 1 THEN k - 1 - 1 + 1 ELSE 0) = k - 1
      <4>1. CASE k = 1
        BY <4>1
      <4>2. CASE k > 1
        BY <4>2
      <4> QED
        BY <3>1, <4>1, <4>2
    <3> QED
      BY <2>1, <3>1
  <2> HIDE DEF front
  <2> QED
    BY <2>2, <2>3, <2>5, <2>6
<1>2. BookOf(front) = [i \in 1..(Len(es) - 1) |-> Booking(front[i])]
  BY <1>1 DEF BookOf
<1>3. SubSeq(BookOf(es), 1, Len(es) - 1) = [i \in 1..(Len(es) - 1) |-> BookOf(es)[i]]
  BY BookOfEntry, <1>1
<1>4. \A i \in 1..(Len(es) - 1) : Booking(front[i]) = BookOf(es)[i]
  BY BookOfEntry, <1>1
<1> QED
  BY <1>2, <1>3, <1>4

-----------------------------------------------------------------------------
(* The same pallets, the same loads, the same choices.                     *)

LEMMA LedgerView ==
  ASSUME RowInv
  PROVE  /\ entries \in Seq(Entry)
         /\ Ledger!Pallets = Live
         /\ \A n \in PalletNumbers, v \in Variants :
              /\ Ledger!Carries(n, v) <=> HasExact(n, v)
              /\ Ledger!Takes(n, v) <=> n \in Candidates(v)
<1>1. entries \in Seq(Entry) /\ Len(entries) \in Nat
  BY DEF RowInv, LedgerInv, StockInv, TypeOK
<1>2. /\ Len(BookOf(entries)) = Len(entries)
      /\ \A i \in 1..Len(entries) : /\ BookOf(entries)[i].pallet = entries[i].pallet
                                    /\ BookOf(entries)[i].variant = entries[i].variant
  BY <1>1, BookOfEntry
<1>3. Ledger!Pallets = Live
  <2>1. \A i \in 1..Len(entries) : entries[i].pallet \in Live
    BY EntryTypes DEF RowInv, LedgerInv, StockInv, CreatorIsOldest, Live
  <2>2. \A n \in Live : \E i \in 1..Len(entries) : entries[i].pallet = n
    BY DEF RowInv, LedgerInv, CreatorIsOldest, EntriesOf
  <2> QED
    BY <1>2, <2>1, <2>2 DEF Ledger!Pallets
<1>4. ASSUME NEW n \in PalletNumbers, NEW v \in Variants
      PROVE  Ledger!Carries(n, v) <=> HasExact(n, v)
  BY <1>2 DEF Ledger!Carries, HasExact, RowInv, RowsBooked, Booked
<1>5. \A n \in PalletNumbers : Ledger!Carried(n) = VariantsOn(n)
  BY <1>4 DEF Ledger!Carried, Ledger!Variants, Variants, VariantsOn, HasExact
<1>6. ASSUME NEW n \in PalletNumbers, NEW v \in Variants
      PROVE  Ledger!Takes(n, v) <=> n \in Candidates(v)
  <2>1. n \in Live \ ClosedPallets <=> status[n] = "open"
    BY DEF Live, ClosedPallets, RowInv, LedgerInv, StockInv, TypeOK
  <2>2. (\A w \in VariantsOn(n) : w[1] = v[1] => w = v) <=> ~HasConflict(n, v)
    BY DEF HasConflict, ProductOf
  <2>3. Ledger!Takes(n, v) <=>
          /\ status[n] = "open"
          /\ ~HasConflict(n, v)
          /\ HasExact(n, v) \/ Cardinality(VariantsOn(n)) < MaxVariants
    <3>1. n \in Ledger!Pallets \ ClosedPallets <=> status[n] = "open"
      BY <1>3, <2>1
    <3>2. (\A w \in Ledger!Carried(n) : w[1] = v[1] => w = v) <=> ~HasConflict(n, v)
      BY <1>5, <2>2
    <3>3. Ledger!Cardinality(Ledger!Carried(n)) = Cardinality(VariantsOn(n))
      BY <1>5 DEF Cardinality, Ledger!Cardinality
    <3> QED
      BY <1>4, <3>1, <3>2, <3>3 DEF Ledger!Takes
  <2> QED
    BY <2>3 DEF Candidates
<1> QED
  BY <1>1, <1>3, <1>4, <1>6

-----------------------------------------------------------------------------
(* Every step of the tables is one of the ledger.                          *)

LEMMA RegisterBooks ==
  ASSUME RowInv,
         NEW n \in PalletNumbers, NEW v \in Variants, NEW q \in Quantities, NEW c \in BOOLEAN,
         Len(entries) < MaxEntries, PutColli(n, v, q, c), ClosedPallets' = ClosedPallets
  PROVE  Ledger!Book(n, v, q)
<1> DEFINE e == [variant |-> v, qty |-> q, pallet |-> n,
                 created |-> c, confirmed |-> 0, moved |-> FALSE]
<1>1. entries \in Seq(Entry) /\ e \in Entry
  BY LedgerView DEF Entry
<1>2. Booking(e) = [pallet |-> n, variant |-> v, qty |-> q, confirmed |-> 0]
  BY DEF Booking
<1>3. entries' = Append(entries, e)
  BY DEF PutColli
<1>4. BookOf(entries') = Append(BookOf(entries), Booking(e))
  <2> HIDE DEF e
  <2> QED
    BY <1>1, <1>3, BookOfAppend
<1>5. Len(BookOf(entries)) < MaxEntries
  BY <1>1, BookOfEntry
<1> QED
  BY <1>2, <1>4, <1>5 DEF Ledger!Book

LEMMA RegisterImplements ==
  ASSUME RowInv,
         NEW n \in PalletNumbers, NEW v \in Variants, NEW q \in Quantities,
         RegisterOnExisting(n, v, q) \/ RegisterOnNew(n, v, q)
  PROVE  Ledger!Next
<1>1. CASE RegisterOnExisting(n, v, q)
  <2>1. ClosedPallets' = ClosedPallets
    BY <1>1 DEF RegisterOnExisting, ClosedPallets
  <2>2. Ledger!Book(n, v, q) /\ IsBestOpenPallet(n, v)
    BY <1>1, <2>1, RegisterBooks DEF RegisterOnExisting
  <2>3. Ledger!Takes(n, v)
    BY <2>2, LedgerView DEF IsBestOpenPallet
  <2>4. CASE HasExact(n, v)
    BY <2>2, <2>3, <2>4, LedgerView
    DEF Ledger!RegisterWithVariant, Ledger!Next, Ledger!PalletNumbers, Ledger!Variants,
        PalletNumbers, Variants
  <2>5. CASE ~HasExact(n, v)
    <3>1. \A m \in PalletNumbers : Ledger!Takes(m, v) => ~Ledger!Carries(m, v) /\ n <= m
      BY <2>2, <2>5, LedgerView DEF IsBestOpenPallet
    <3>2. Ledger!RegisterWithRoom(n, v, q)
      BY <2>2, <2>3, <3>1 DEF Ledger!RegisterWithRoom, Ledger!PalletNumbers, PalletNumbers
    <3> QED
      BY <3>2 DEF Ledger!Next, Ledger!PalletNumbers, Ledger!Variants, PalletNumbers, Variants
  <2> QED
    BY <2>4, <2>5
<1>2. CASE RegisterOnNew(n, v, q)
  <2>1. status[n] = "absent" /\ status' = [status EXCEPT ![n] = "open"]
    BY <1>2, FreshNumber DEF RegisterOnNew, RowInv, LedgerInv, StockInv
  <2>2. ClosedPallets' = ClosedPallets
    BY <2>1 DEF ClosedPallets, RowInv, LedgerInv, StockInv, TypeOK
  <2>3. Ledger!Book(n, v, q)
    BY <1>2, <2>2, RegisterBooks DEF RegisterOnNew
  <2>4. \A m \in PalletNumbers : ~Ledger!Takes(m, v)
    BY <1>2, LedgerView DEF RegisterOnNew
  <2>5. (\A m \in Live : m < n) /\ (n = 1 \/ n - 1 \in Live)
    BY <1>2 DEF RegisterOnNew, IsNextPalletNumber
  <2>6. Ledger!RegisterNewPallet(n, v, q)
    BY <2>3, <2>4, <2>5, LedgerView DEF Ledger!RegisterNewPallet, Ledger!PalletNumbers, PalletNumbers
  <2> QED
    BY <2>6 DEF Ledger!Next, Ledger!PalletNumbers, Ledger!Variants, PalletNumbers, Variants
<1> QED
  BY <1>1, <1>2

LEMMA CloseImplements ==
  ASSUME RowInv, NEW n \in PalletNumbers, ClosePallet(n)
  PROVE  Ledger!Next
<1>1. ClosedPallets' = ClosedPallets \union ({n} \cap Live)
  BY DEF ClosePallet, ClosedPallets, Live, RowInv, LedgerInv, StockInv, TypeOK
<1>2. BookOf(entries)' = BookOf(entries)
  BY DEF ClosePallet, BookOf
<1>3. Ledger!Close(n)
  BY <1>1, <1>2, LedgerView DEF Ledger!Close
<1> QED
  BY <1>3 DEF Ledger!Next, Ledger!PalletNumbers, PalletNumbers

LEMMA ConfirmEffect ==
  ASSUME TypeOK, NEW n \in PalletNumbers, ConfirmLatestUnconfirmed(n)
  PROVE  \E k \in 1..Len(entries) :
           /\ IsLatestUnconfirmed(k, n)
           /\ Len(entries') = Len(entries)
           /\ \A i \in 1..Len(entries) \ {k} : entries'[i] = entries[i]
           /\ entries'[k].pallet = entries[k].pallet /\ entries'[k].qty = entries[k].qty
           /\ entries'[k].variant = entries[k].variant
           /\ entries'[k].confirmed = entries[k].confirmed + 1
           /\ UNCHANGED <<status, total, items>>
<1>1. PICK k \in 1..Len(entries) :
        /\ IsLatestUnconfirmed(k, n)
        /\ entries' = [entries EXCEPT ![k] = Marked(@)]
        /\ UNCHANGED <<status, total, items>>
  BY DEF ConfirmLatestUnconfirmed
<1>2. /\ entries[k] \in Entry /\ Len(entries') = Len(entries)
      /\ entries'[k] = Marked(entries[k])
      /\ \A i \in 1..Len(entries) \ {k} : entries'[i] = entries[i]
  BY <1>1 DEF TypeOK
<1>3. entries[k].confirmed < entries[k].qty
  BY <1>1 DEF IsLatestUnconfirmed
<1>4. ASSUME NEW e \in Entry, e.confirmed < e.qty
      PROVE  /\ Marked(e).pallet = e.pallet /\ Marked(e).qty = e.qty
             /\ Marked(e).variant = e.variant /\ Marked(e).confirmed = e.confirmed + 1
  BY <1>4 DEF Marked, Entry
<1> QED
  BY <1>1, <1>2, <1>3, <1>4

LEMMA ConfirmImplements ==
  ASSUME RowInv, NEW n \in PalletNumbers, ConfirmLatestUnconfirmed(n)
  PROVE  Ledger!Next
<1>0. entries \in Seq(Entry) /\ Len(entries) \in Nat
  BY DEF RowInv, LedgerInv, StockInv, TypeOK
<1>1. PICK k \in 1..Len(entries) :
        /\ IsLatestUnconfirmed(k, n)
        /\ Len(entries') = Len(entries)
        /\ \A i \in 1..Len(entries) \ {k} : entries'[i] = entries[i]
        /\ entries'[k].pallet = entries[k].pallet /\ entries'[k].qty = entries[k].qty
        /\ entries'[k].variant = entries[k].variant
        /\ entries'[k].confirmed = entries[k].confirmed + 1
        /\ UNCHANGED <<status, total, items>>
  BY ConfirmEffect DEF RowInv, LedgerInv, StockInv
<1>2. /\ Len(BookOf(entries)) = Len(entries)
      /\ \A i \in 1..Len(entries) : /\ BookOf(entries)[i] = Booking(entries[i])
                                    /\ BookOf(entries)[i].pallet = entries[i].pallet
                                    /\ BookOf(entries)[i].qty = entries[i].qty
                                    /\ BookOf(entries)[i].confirmed = entries[i].confirmed
  BY <1>0, BookOfEntry
<1>3. /\ BookOf(entries)[k].pallet = n
      /\ BookOf(entries)[k].confirmed < BookOf(entries)[k].qty
      /\ \A j \in (k + 1)..Len(BookOf(entries)) :
           BookOf(entries)[j].pallet = n => BookOf(entries)[j].confirmed >= BookOf(entries)[j].qty
  BY <1>0, <1>1, <1>2 DEF IsLatestUnconfirmed
<1>4. BookOf(entries)' = [BookOf(entries) EXCEPT ![k].confirmed = @ + 1]
  <2>1. Booking(entries'[k]) = [Booking(entries[k]) EXCEPT !.confirmed = @ + 1]
    BY <1>1 DEF Booking
  <2>2. BookOf(entries') = [i \in 1..Len(entries) |-> Booking(entries'[i])]
    BY <1>1 DEF BookOf
  <2>3. \A i \in 1..Len(entries) :
          Booking(entries'[i]) = IF i = k THEN [Booking(entries[i]) EXCEPT !.confirmed = @ + 1]
                                 ELSE Booking(entries[i])
    BY <1>1, <2>1
  <2>4. BookOf(entries) = [i \in 1..Len(entries) |-> Booking(entries[i])]
    BY DEF BookOf
  <2> QED
    BY <2>2, <2>3, <2>4
<1>5. ClosedPallets' = ClosedPallets
  BY <1>1 DEF ClosedPallets
<1>6. Ledger!Confirm(n)
  BY <1>1, <1>2, <1>3, <1>4, <1>5 DEF Ledger!Confirm
<1> QED
  BY <1>6 DEF Ledger!Next, Ledger!PalletNumbers, PalletNumbers

LEMMA UndoImplements ==
  ASSUME RowInv, RowInv', UndoLast
  PROVE  Ledger!Next
<1>0. entries \in Seq(Entry) /\ entries # <<>> /\ Len(entries) \in Nat
  BY DEF RowInv, LedgerInv, StockInv, TypeOK, UndoLast
<1>1. BookOf(entries') = SubSeq(BookOf(entries), 1, Len(BookOf(entries)) - 1)
  BY <1>0, BookOfFront, BookOfEntry DEF UndoLast
<1>2. \A m \in PalletNumbers : status'[m] \in {status[m], "absent"}
  <2>1. PICK bal \in [1..Len(entries) -> Nat] : ChainedBy(bal)
    BY DEF RowInv, LedgerInv, RunningBalance
  <2>2. PICK n \in PalletNumbers : n = entries[Len(entries)].pallet
    BY <1>0, LastEntry DEF UndoLast, RowInv, LedgerInv, StockInv
  <2>3. PICK L \in Nat : L = Len(entries)
    BY <1>0
  <2> QED
    BY <2>1, <2>2, <2>3, UndoEffect DEF RowInv
<1>3. ClosedPallets' = ClosedPallets \cap Live'
  BY <1>2 DEF ClosedPallets, Live
<1>4. Live' = {BookOf(entries)[i].pallet : i \in 1..(Len(BookOf(entries)) - 1)}
  <2>0. PICK L \in Nat : L = Len(entries) /\ L > 0
    BY <1>0
  <2>1. /\ Len(BookOf(entries)) = L
        /\ \A i \in 1..L : /\ BookOf(entries)[i].pallet = entries[i].pallet
                           /\ entries[i].pallet \in PalletNumbers
    BY <1>0, <2>0, BookOfEntry, EntryTypes DEF RowInv, LedgerInv, StockInv
  <2>2. Len(entries') = L - 1 /\ \A i \in 1..(L - 1) : entries'[i] = entries[i] /\ i \in 1..L
    BY <1>0, <2>0 DEF UndoLast
  <2>3. /\ \A i \in 1..(L - 1) : status'[entries'[i].pallet] # "absent"
        /\ \A n \in Live' : \E i \in 1..(L - 1) : entries'[i].pallet = n
    BY <2>2 DEF RowInv, LedgerInv, CreatorIsOldest, EntriesOf
  <2>4. Live' = {entries[i].pallet : i \in 1..(L - 1)}
    BY <2>1, <2>2, <2>3 DEF Live
  <2> QED
    BY <2>1, <2>2, <2>4
<1>5. BookOf(entries) # <<>>
  <2>1. Len(BookOf(entries)) # 0
    <3>1. Len(entries) # 0
      BY <1>0
    <3> QED
      BY <1>0, <3>1, BookOfEntry
  <2> QED
    BY <2>1
<1>6. Ledger!Undo
  BY <1>1, <1>3, <1>4, <1>5 DEF Ledger!Undo
<1> QED
  BY <1>6 DEF Ledger!Next

LEMMA ClearImplements ==
  ASSUME ClearAllData
  PROVE  Ledger!Next
<1>1. ClosedPallets' = {}
  BY DEF ClearAllData, ClosedPallets
<1>2. BookOf(entries)' = <<>>
  BY DEF ClearAllData, BookOf
<1> QED
  BY <1>1, <1>2 DEF Ledger!Clear, Ledger!Next

LEMMA StepImplements ==
  RowInv /\ RowInv' /\ [Next]_vars => [Ledger!Next]_<<BookOf(entries), ClosedPallets>>
<1> SUFFICES ASSUME RowInv, RowInv', [Next]_vars
             PROVE  [Ledger!Next]_<<BookOf(entries), ClosedPallets>>
  OBVIOUS
<1>1. CASE UNCHANGED vars
  BY <1>1 DEF vars, BookOf, ClosedPallets
<1> QED
  BY <1>1, RegisterImplements, CloseImplements, ConfirmImplements, UndoImplements, ClearImplements
  DEF Next, Register

LEMMA InitImplements == Init => Ledger!Init
BY DEF Init, Ledger!Init, BookOf, ClosedPallets

\* Every behaviour of the repository's tables is a behaviour of the ledger.
THEOREM TablesImplementLedger == Spec => ImplementsLedger
<1>1. Spec => []RowInv
  BY RowInvCorrect
<1>2. Init => Ledger!Init
  BY InitImplements
<1>3. RowInv /\ RowInv' /\ [Next]_vars => [Ledger!Next]_<<BookOf(entries), ClosedPallets>>
  BY StepImplements
<1> QED
  BY <1>1, <1>2, <1>3, PTL DEF Spec, ImplementsLedger, Ledger!Spec
=============================================================================

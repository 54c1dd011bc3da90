--------------------------- MODULE WarehouseStore ---------------------------
(***************************************************************************)
(* The warehouse tables and the operations of the repository on them.      *)
(*                                                                         *)
(* Both repositories (SqliteWarehouseRepository, PostgresWarehouse-        *)
(* Repository) run every writing operation under one SemaphoreSlim(1,1)    *)
(* and inside one transaction, so an operation is one atomic action here.  *)
(* The steps an operation consists of, and what other requests do between  *)
(* them, are the subject of the modules that use this one.                 *)
(*                                                                         *)
(* Tables.  A pallet row is the pair status[n], total[n]; a PalletItems    *)
(* row of pallet n and variant v exists iff items[n][v] > 0 (the code      *)
(* inserts positive quantities and deletes a row that reaches zero).       *)
(* ScanEntries is a sequence in the order of the Id column.                *)
(* audit is the newest AuditEntries row.                                   *)
(***************************************************************************)
EXTENDS Integers, Sequences, FiniteSets, Functions

CONSTANTS
  Products,      \* normalised product numbers
  Expiries,      \* expiry dates, "NOEXP" among them
  Quantities,    \* quantities a registration may carry (RegisterColliAsync rejects <= 0)
  MaxVariants,   \* _maxVariantsPerPallet
  MaxPallet,     \* bound: highest pallet number
  MaxEntries     \* bound: live rows of ScanEntries

MaxInt32 == 2147483647

ASSUME ProductsAssumption   == IsFiniteSet(Products)
ASSUME ExpiriesAssumption   == IsFiniteSet(Expiries)
ASSUME QuantitiesAssumption == Quantities \subseteq Nat \ {0}
\* Math.Max(1, ...) in the constructors.
ASSUME MaxVariantsAssumption == MaxVariants \in Nat \ {0}
ASSUME BoundsAssumption == MaxPallet \in Nat /\ MaxEntries \in Nat
\* The range in which the int arithmetic of TotalQuantity is exact.
ASSUME NoOverflowAssumption == \A q \in Quantities : q * MaxEntries <= MaxInt32

VARIABLES
  status,   \* pallet number -> "absent", or Pallets.IsClosed as "open" / "closed"
  total,    \* pallet number -> Pallets.TotalQuantity
  items,    \* pallet number -> variant -> PalletItems.Quantity, 0 for no row
  entries,  \* ScanEntries, oldest first
  audit     \* newest row of AuditEntries

vars == <<status, total, items, entries, audit>>

PalletNumbers == 1..MaxPallet
Variants == Products \X Expiries
ProductOf(v) == v[1]

Entry == [variant   : Variants,
          qty       : Quantities,
          pallet    : PalletNumbers,
          created   : BOOLEAN,       \* CreatedNewPallet
          confirmed : Nat,           \* ConfirmedQuantity
          moved     : BOOLEAN]       \* ConfirmedMoved

NoPallet == 0
AuditActions == {"NONE", "REGISTER_COLLI", "CLOSE_PALLET", "CONFIRM_MOVE", "UNDO_LAST", "CLEAR_ALL_DATA",
                 "BACKUP_DATABASE", "RESTORE_DATABASE"}
AuditRow == [action : AuditActions, pallet : PalletNumbers \union {NoPallet}, qty : Nat]

Audit(action, n, q) == audit' = [action |-> action, pallet |-> n, qty |-> q]

TypeOK ==
  /\ status \in [PalletNumbers -> {"absent", "open", "closed"}]
  /\ total \in [PalletNumbers -> Nat]
  /\ items \in [PalletNumbers -> [Variants -> Nat]]
  /\ entries \in Seq(Entry)
  /\ audit \in AuditRow

EmptyItems == [v \in Variants |-> 0]

Init ==
  /\ status = [n \in PalletNumbers |-> "absent"]
  /\ total = [n \in PalletNumbers |-> 0]
  /\ items = [n \in PalletNumbers |-> EmptyItems]
  /\ entries = <<>>
  /\ audit = [action |-> "NONE", pallet |-> NoPallet, qty |-> 0]

-----------------------------------------------------------------------------
(* Choosing the pallet of a registration.                                  *)

Live == {n \in PalletNumbers : status[n] # "absent"}
VariantsOn(n) == {v \in Variants : items[n][v] > 0}
HasExact(n, v) == items[n][v] > 0
HasConflict(n, v) == \E w \in VariantsOn(n) : ProductOf(w) = ProductOf(v) /\ w # v

\* Mutants of Candidates: without the HasConflict test; with room for one
\* variant too many; with the cap for variants it has, too; without WHERE IsClosed = 0.
CandidatesMixingExpiries(v) ==
  {n \in PalletNumbers :
     status[n] = "open" /\ (HasExact(n, v) \/ Cardinality(VariantsOn(n)) < MaxVariants)}

CandidatesOverCap(v) ==
  {n \in PalletNumbers :
     /\ status[n] = "open" /\ ~HasConflict(n, v)
     /\ HasExact(n, v) \/ Cardinality(VariantsOn(n)) <= MaxVariants}

CandidatesBelowCap(v) ==
  {n \in PalletNumbers :
     status[n] = "open" /\ ~HasConflict(n, v) /\ Cardinality(VariantsOn(n)) < MaxVariants}

CandidatesClosedToo(v) ==
  {n \in Live : ~HasConflict(n, v) /\ (HasExact(n, v) \/ Cardinality(VariantsOn(n)) < MaxVariants)}

\* The open pallets the loop of FindBestOpenPalletAsync does not skip.
Candidates(v) ==
  {n \in PalletNumbers :
     /\ status[n] = "open"
     /\ ~HasConflict(n, v)
     /\ HasExact(n, v) \/ Cardinality(VariantsOn(n)) < MaxVariants}

\* ORDER BY HasExact DESC, number: exact matches first, then the lowest number.
IsBestOpenPallet(n, v) ==
  /\ n \in Candidates(v)
  /\ \A m \in Candidates(v) :
       IF HasExact(n, v) THEN HasExact(m, v) => n <= m
                         ELSE ~HasExact(m, v) /\ n <= m

\* GetNextPalletNumberAsync: MAX(number) + 1, or 1 on an empty table.
IsNextPalletNumber(n) ==
  /\ \A m \in Live : m < n
  /\ n = 1 \/ n - 1 \in Live

-----------------------------------------------------------------------------
(* The writing operations.                                                 *)

\* What a registration of q colli of v on pallet n writes.
PutColli(n, v, q, createdNew) ==
  /\ items' = [items EXCEPT ![n][v] = @ + q]
  /\ total' = [total EXCEPT ![n] = @ + q]
  /\ entries' = Append(entries, [variant |-> v, qty |-> q, pallet |-> n,
                                 created |-> createdNew, confirmed |-> 0, moved |-> FALSE])
  /\ Audit("REGISTER_COLLI", n, q)

RegisterOnExisting(n, v, q) ==
  /\ Len(entries) < MaxEntries
  /\ IsBestOpenPallet(n, v)
  /\ PutColli(n, v, q, FALSE)
  /\ UNCHANGED status

RegisterOnNew(n, v, q) ==
  /\ Len(entries) < MaxEntries
  /\ Candidates(v) = {}
  /\ IsNextPalletNumber(n)
  /\ status' = [status EXCEPT ![n] = "open"]
  /\ PutColli(n, v, q, TRUE)

\* UPDATE ... WHERE PalletId = id touches no row for an unknown pallet, but
\* the audit row is written all the same; nothing forbids closing twice.
ClosePallet(n) ==
  /\ status' = [status EXCEPT ![n] = IF @ = "absent" THEN @ ELSE "closed"]
  /\ Audit("CLOSE_PALLET", n, 0)
  /\ UNCHANGED <<total, items, entries>>

\* Mutant of IsLatestUnconfirmed: ORDER BY Id instead of ORDER BY Id DESC.
IsOldestUnconfirmed(i, n) ==
  /\ i \in 1..Len(entries)
  /\ entries[i].pallet = n /\ entries[i].confirmed < entries[i].qty
  /\ \A j \in 1..(i - 1) : entries[j].pallet = n => entries[j].confirmed >= entries[j].qty

\* GetLatestUnconfirmedEntryForPalletAsync: the newest such row.
IsLatestUnconfirmed(i, n) ==
  /\ i \in 1..Len(entries)
  /\ entries[i].pallet = n /\ entries[i].confirmed < entries[i].qty
  /\ \A j \in (i + 1)..Len(entries) :
       entries[j].pallet = n => entries[j].confirmed >= entries[j].qty

\* Mutant of Marked: the entry counts as moved with its first colli.
MarkedMovedAtOnce(e) ==
  [e EXCEPT !.confirmed = IF @ < e.qty THEN @ + 1 ELSE @, !.moved = TRUE]

\* MarkEntryConfirmedAsync: one colli per scan; moved once all are confirmed.
Marked(e) ==
  LET c == IF e.confirmed < e.qty THEN e.confirmed + 1 ELSE e.confirmed
  IN  [e EXCEPT !.confirmed = c, !.moved = (c >= e.qty)]

ConfirmLatestUnconfirmed(n) ==
  \E i \in 1..Len(entries) :
    /\ IsLatestUnconfirmed(i, n)
    /\ entries' = [entries EXCEPT ![i] = Marked(@)]
    /\ Audit("CONFIRM_MOVE", n, 0)
    /\ UNCHANGED <<status, total, items>>

\* Mutant of Decreased: one colli too many.
DecreasedOffByOne(quantity, q) == quantity - q - 1

\* DecreaseOrDeletePalletItemAsync: a row that would not stay positive goes;
\* the total of the pallet row is cut at zero likewise (Math.Max(0, updated)).
Decreased(quantity, q) == IF quantity - q > 0 THEN quantity - q ELSE 0

\* Mutant of RemovesShell: an empty pallet stays.
RemovesShellBelowZero(e) ==
  status[e.pallet] # "absent" /\ total[e.pallet] - e.qty < 0 /\ e.created

\* "Remove pallet shell when undoing the very first registration for that pallet."
RemovesShell(e) ==
  status[e.pallet] # "absent" /\ total[e.pallet] - e.qty <= 0 /\ e.created

\* Mutant of UndoRemovingPallet: without DeletePalletItemsAsync.
UndoLeavingItems(e) ==
  /\ RemovesShell(e)
  /\ status' = [status EXCEPT ![e.pallet] = "absent"]
  /\ total' = [total EXCEPT ![e.pallet] = 0]
  /\ UNCHANGED items

UndoRemovingPallet(e) ==
  /\ RemovesShell(e)
  /\ items' = [items EXCEPT ![e.pallet] = EmptyItems]
  /\ status' = [status EXCEPT ![e.pallet] = "absent"]
  /\ total' = [total EXCEPT ![e.pallet] = 0]

\* Mutant of UndoKeepingPallet: without UpdatePalletQuantityAsync.
UndoKeepingTotal(e) ==
  /\ ~RemovesShell(e)
  /\ items' = [items EXCEPT ![e.pallet][e.variant] = Decreased(@, e.qty)]
  /\ UNCHANGED <<status, total>>

UndoKeepingPallet(e) ==
  /\ ~RemovesShell(e)
  /\ items' = [items EXCEPT ![e.pallet][e.variant] = Decreased(@, e.qty)]
  /\ total' = [total EXCEPT ![e.pallet] =
                 IF status[e.pallet] = "absent" THEN @ ELSE Decreased(@, e.qty)]
  /\ UNCHANGED status

UndoLast ==
  /\ entries # <<>>
  /\ LET e == entries[Len(entries)]
     IN /\ entries' = SubSeq(entries, 1, Len(entries) - 1)
        /\ UndoRemovingPallet(e) \/ UndoKeepingPallet(e)
        /\ Audit("UNDO_LAST", e.pallet, e.qty)

ClearAllData ==
  /\ status' = [n \in PalletNumbers |-> "absent"]
  /\ total' = [n \in PalletNumbers |-> 0]
  /\ items' = [n \in PalletNumbers |-> EmptyItems]
  /\ entries' = <<>>
  /\ Audit("CLEAR_ALL_DATA", NoPallet, 0)

-----------------------------------------------------------------------------
Register ==
  \E n \in PalletNumbers, v \in Variants, q \in Quantities :
    RegisterOnExisting(n, v, q) \/ RegisterOnNew(n, v, q)

Next ==
  \/ Register
  \/ \E n \in PalletNumbers : ClosePallet(n)
  \/ \E n \in PalletNumbers : ConfirmLatestUnconfirmed(n)
  \/ UndoLast
  \/ ClearAllData

Spec == Init /\ [][Next]_vars
-----------------------------------------------------------------------------
(* Safety properties.                                                      *)

EntriesOf(n) == {i \in 1..Len(entries) : entries[i].pallet = n}

\* Conservation: the three tables always tell the same story.  The total of a
\* pallet row is the sum of its item rows, and every item row is the sum of the
\* scan entries of that variant on that pallet, whatever sequence of
\* registrations, undos and clears led here (RegisterAsync, UndoLastAsync).
Conservation ==
  \A n \in PalletNumbers :
    /\ total[n] = SumFunctionOnSet(items[n], Variants)
    /\ \A v \in Variants :
         items[n][v] = SumFunctionOnSet([i \in 1..Len(entries) |-> entries[i].qty],
                               {i \in EntriesOf(n) : entries[i].variant = v})

\* A number without a pallet row has no item rows and no quantity: undoing the
\* registration that made a pallet leaves nothing of it behind (UndoLastAsync).
NoOrphanRows ==
  \A n \in PalletNumbers :
    status[n] = "absent" => total[n] = 0 /\ VariantsOn(n) = {}

\* A pallet, open or closed, never carries one product with two expiry dates:
\* the HasConflict test of FindBestOpenPalletAsync keeps it so under undo, too.
NoMixedExpiry ==
  \A n \in PalletNumbers : \A v, w \in VariantsOn(n) :
    ProductOf(v) = ProductOf(w) => v = w

\* No pallet ever carries more than _maxVariantsPerPallet variants.
VariantCap == \A n \in PalletNumbers : Cardinality(VariantsOn(n)) <= MaxVariants

\* Colli of one variant are never spread over two open pallets: a pallet that has
\* the variant takes more of it, full or not, and FindBestOpenPalletAsync prefers it.
OneOpenPalletPerVariant ==
  \A m, n \in PalletNumbers :
    status[m] = "open" /\ status[n] = "open" /\ m # n
      => VariantsOn(m) \cap VariantsOn(n) = {}

\* Every pallet is one that FindBestOpenPalletAsync may build: within the limit of
\* variants, without mixed expiry dates, and no variant on two open pallets,
\* whatever undo and closing have done to the pallets it chose between.
PalletsFollowRules == NoMixedExpiry /\ VariantCap /\ OneOpenPalletPerVariant

\* Every entry belongs to a pallet that exists, every pallet has an entry, and
\* exactly its oldest entry is the one marked CreatedNewPallet.  So undo, which
\* goes from the newest entry back, removes the row at the right moment.
CreatorIsOldest ==
  /\ \A i \in 1..Len(entries) :
       /\ status[entries[i].pallet] # "absent"
       /\ entries[i].created <=> \A j \in 1..(i - 1) : entries[j].pallet # entries[i].pallet
  /\ \A n \in Live : EntriesOf(n) # {}

\* No pallet row, item row or total without the bookings behind it, and no booking
\* without its pallet: the test of UndoLastAsync that decides whether the row of a
\* pallet goes decides right after every sequence of operations.
RowsHaveBookings == NoOrphanRows /\ CreatorIsOldest

\* No entry is confirmed beyond its quantity, and ConfirmedMoved says exactly
\* that all of its colli are confirmed (MarkEntryConfirmedAsync).
ConfirmedWithinQuantity ==
  \A i \in 1..Len(entries) :
    /\ entries[i].confirmed <= entries[i].qty
    /\ entries[i].moved <=> entries[i].confirmed = entries[i].qty

\* A closed pallet never receives colli again and is never reopened; only undo
\* and clear take from it.
ClosedStaysClosed ==
  [][\A n \in PalletNumbers : status[n] = "closed" =>
       /\ status'[n] \in {"closed", "absent"}
       /\ \A v \in Variants : items'[n][v] <= items[n][v]]_vars

\* The audit trail accounts for the stock: every change of every pallet total is
\* the one its newest audit row states.  Undo in particular never takes less
\* than it reports (Math.Max(0, updated)) and never more (dropping the row).
AuditAccountsForStock ==
  [][\A n \in PalletNumbers :
       total'[n] = IF audit'.action = "CLEAR_ALL_DATA" THEN 0
                   ELSE IF audit'.pallet # n THEN total[n]
                   ELSE IF audit'.action = "REGISTER_COLLI" THEN total[n] + audit'.qty
                   ELSE IF audit'.action = "UNDO_LAST" THEN total[n] - audit'.qty
                   ELSE total[n]]_vars

\* "Numeric suffix keeps pallet IDs monotonic": a number that was given out and
\* then withdrawn by undo is not given out again, to a pallet that would answer
\* to the label printed for the first.
PalletIdsMonotonic ==
  [][\A n \in PalletNumbers :
       audit.action = "UNDO_LAST" /\ audit.pallet = n /\ status[n] = "absent"
         => status'[n] = "absent"]_vars
=============================================================================

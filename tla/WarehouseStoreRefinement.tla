---------------------- MODULE WarehouseStoreRefinement ----------------------
(***************************************************************************)
(* The tables implement the ledger: the bookings are the scan entries, the *)
(* closed pallets are the rows with IsClosed set.  Totals, item rows and   *)
(* the flags of the entries are the implementation's own business.         *)
(***************************************************************************)
EXTENDS WarehouseStore

Booking(e) == [pallet |-> e.pallet, variant |-> e.variant, qty |-> e.qty, confirmed |-> e.confirmed]
BookOf(es) == [i \in 1..Len(es) |-> Booking(es[i])]
ClosedPallets == {n \in PalletNumbers : status[n] = "closed"}

Ledger == INSTANCE PalletLedger WITH book <- BookOf(entries), closed <- ClosedPallets

\* Every behaviour of the tables is one of the ledger: which pallet a
\* registration goes to, what a confirmation marks and what an undo takes back
\* are what the bookings alone say they are.
ImplementsLedger == Ledger!Spec
=============================================================================

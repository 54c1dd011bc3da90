------------------------- MODULE LedgerWithBackups -------------------------
(***************************************************************************)
(* What the warehouse promises over the life of its database: a ledger     *)
(* that operators may back up and put back as a whole.  Starting, stopping, *)
(* crashing and migrating are nothing to it.                               *)
(***************************************************************************)
EXTENDS PalletLedger

CONSTANT Uploads   \* ledgers in files made elsewhere, as [book, closed]
VARIABLE kept      \* ledgers in the backups made here

Shows(file) == book = file.book /\ closed = file.closed

BackupsInit == (Init \/ \E file \in Uploads : Shows(file)) /\ kept = {}

Operate == Next /\ UNCHANGED kept
BackUp == kept' = kept \union {[book |-> book, closed |-> closed]} /\ UNCHANGED <<book, closed>>
Restore ==
  /\ \E file \in kept \union Uploads : book' = file.book /\ closed' = file.closed
  /\ UNCHANGED kept

BackupsNext == Operate \/ BackUp \/ Restore
BackupsSpec == BackupsInit /\ [][BackupsNext]_<<book, closed, kept>>
=============================================================================

------------------------ MODULE MCDuplicateScanGuard ------------------------
(* DuplicateScanGuard with two threads and three pallets, for TLC. *)
EXTENDS DuplicateScanGuard, TLC

CONSTANTS t1, t2, p1, p2, p3

TwoCallers == {t1, t2}
ThreePallets == {p1, p2, p3}

MCSymmetry == Permutations(ThreePallets) \union Permutations(TwoCallers)
=============================================================================

--------------------------- MODULE MCSortingFlow ---------------------------
(* SortingFlow with two products and pallets of one variant, for TLC. *)
EXTENDS SortingFlow, TLC

CONSTANTS milk, bread, early, s1, s2

MCProducts == {milk, bread}
MCExpiries == {early}
OneSlot == {s1}
TwoSlots == {s1, s2}
ListClosing == {"close awaited pallet from list"}
ProductSymmetry == Permutations(MCProducts)
BothSymmetries == Permutations(MCProducts) \union Permutations(TwoSlots)
=============================================================================

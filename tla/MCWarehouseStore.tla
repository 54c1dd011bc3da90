-------------------------- MODULE MCWarehouseStore --------------------------
(* WarehouseStore on a small warehouse, for TLC. *)
EXTENDS WarehouseStoreRefinement, TLC

CONSTANTS milk, bread, rice, early, late

MCProducts == {milk, bread, rice}
MCExpiries == {early, late}
MCSymmetry == Permutations(MCProducts) \union Permutations(MCExpiries)
=============================================================================

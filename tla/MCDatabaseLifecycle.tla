------------------------ MODULE MCDatabaseLifecycle ------------------------
(* DatabaseLifecycle with one product of two expiry dates, for TLC. *)
EXTENDS DatabaseLifecycleRefinement, TLC

CONSTANTS milk, early, late

MCProducts == {milk}
MCExpiries == {early, late}
MCSymmetry == Permutations(MCExpiries)
SqliteOnly == {"Sqlite"}
BothProviders == {"Sqlite", "Postgres"}
=============================================================================

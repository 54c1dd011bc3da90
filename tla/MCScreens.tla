----------------------------- MODULE MCScreens -----------------------------
(* StationScreens for TLC. *)
EXTENDS StationScreens
=============================================================================

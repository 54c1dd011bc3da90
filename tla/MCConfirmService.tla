-------------------------- MODULE MCConfirmService --------------------------
(* ConfirmService with two requests on two pallets of one product, for TLC. *)
EXTENDS ConfirmService

CONSTANTS milk, early, r1, r2

MCProducts == {milk}
MCExpiries == {early}
TwoRequests == {r1, r2}
=============================================================================

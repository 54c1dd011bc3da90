----------------------------- MODULE MCOverview -----------------------------
(* OverviewPage with one product, for TLC. *)
EXTENDS OverviewPage

CONSTANTS milk, early, s1, s2

MCProducts == {milk}
MCExpiries == {early}
TwoSlots == {s1, s2}
\* One number is the beginning of another.
PrintedNumbers == {<<0, 0, 1>>, <<1, 0, 0>>, <<1, 0, 0, 0>>}
EarlierShift ==
  {[book |-> <<[pallet |-> 1, variant |-> <<milk, early>>, qty |-> 1, confirmed |-> 0]>>,
    closed |-> {}]}
=============================================================================

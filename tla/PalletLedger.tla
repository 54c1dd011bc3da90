---------------------------- MODULE PalletLedger ----------------------------
(***************************************************************************)
(* What the warehouse promises, without its tables: the state is the list  *)
(* of the colli registered so far, and which pallets were closed.  A pallet *)
(* exists while something is booked on it and carries the variants booked  *)
(* on it; undo takes the newest booking back and nothing else.  There are  *)
(* no totals, item rows or CreatedNewPallet flags to get out of step.      *)
(***************************************************************************)
EXTENDS Integers, Sequences, FiniteSets

CONSTANTS Products, Expiries, Quantities, MaxVariants, MaxPallet, MaxEntries

VARIABLES
  book,     \* bookings [pallet, variant, qty, confirmed], oldest first
  closed    \* numbers of the closed pallets

PalletNumbers == 1..MaxPallet
Variants == Products \X Expiries

\* The pallets and what they carry, read off the bookings.
Pallets == {book[i].pallet : i \in 1..Len(book)}
Carries(n, v) == \E i \in 1..Len(book) : book[i].pallet = n /\ book[i].variant = v
Carried(n) == {v \in Variants : Carries(n, v)}

Init == book = <<>> /\ closed = {}

\* Open pallets that may take v: no other expiry of its product, room for it.
Takes(n, v) ==
  /\ n \in Pallets \ closed
  /\ \A w \in Carried(n) : w[1] = v[1] => w = v
  /\ Carries(n, v) \/ Cardinality(Carried(n)) < MaxVariants

Book(n, v, q) ==
  /\ Len(book) < MaxEntries
  /\ book' = Append(book, [pallet |-> n, variant |-> v, qty |-> q, confirmed |-> 0])
  /\ UNCHANGED closed

\* The pallet that already carries v, else the lowest number that takes it,
\* else the number after the highest in use.
RegisterWithVariant(n, v, q) == Book(n, v, q) /\ Takes(n, v) /\ Carries(n, v)

RegisterWithRoom(n, v, q) ==
  /\ Book(n, v, q)
  /\ Takes(n, v)
  /\ \A m \in PalletNumbers : Takes(m, v) => ~Carries(m, v) /\ n <= m

RegisterNewPallet(n, v, q) ==
  /\ Book(n, v, q)
  /\ \A m \in PalletNumbers : ~Takes(m, v)
  /\ \A m \in Pallets : m < n
  /\ n = 1 \/ n - 1 \in Pallets

Close(n) == closed' = closed \union ({n} \cap Pallets) /\ UNCHANGED book

\* One colli of the newest booking of n that has any left to confirm.
Confirm(n) ==
  \E i \in 1..Len(book) :
    /\ book[i].pallet = n /\ book[i].confirmed < book[i].qty
    /\ \A j \in (i + 1)..Len(book) : book[j].pallet = n => book[j].confirmed >= book[j].qty
    /\ book' = [book EXCEPT ![i].confirmed = @ + 1]
    /\ UNCHANGED closed

\* A pallet whose last booking goes is gone, closed or not.
Undo ==
  /\ book # <<>>
  /\ book' = SubSeq(book, 1, Len(book) - 1)
  /\ closed' = closed \cap {book[i].pallet : i \in 1..(Len(book) - 1)}

Clear == book' = <<>> /\ closed' = {}

Next ==
  \/ \E n \in PalletNumbers, v \in Variants, q \in Quantities :
       RegisterWithVariant(n, v, q) \/ RegisterWithRoom(n, v, q) \/ RegisterNewPallet(n, v, q)
  \/ \E n \in PalletNumbers : Close(n) \/ Confirm(n)
  \/ Undo
  \/ Clear

Spec == Init /\ [][Next]_<<book, closed>>
=============================================================================

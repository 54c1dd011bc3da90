----------------------------- MODULE ScanTyping -----------------------------
(***************************************************************************)
(* A scanner that works as a keyboard: the characters of a GS1 label reach *)
(* the product field one at a time, and the field is parsed and rewritten  *)
(* on each of them (onChange), before the next is appended to what it then *)
(* holds.                                                                  *)
(***************************************************************************)
EXTENDS ScanParsing

VARIABLES
  form,    \* what the two fields hold
  keys,    \* the characters still to come
  scan     \* history: the whole label

typingVars == <<form, keys, scan>>

TypingInit ==
  /\ form = EmptyForm
  /\ \E label \in Labels :   \* a GTIN-13 with the zero in front of it, and a date
       /\ label.order = <<1, 17>> /\ label.gtin[1] = 0 /\ label.date \in RealDates
       /\ scan = Compact(label, FALSE)
  /\ keys = scan

TypeKey ==
  /\ keys # None
  /\ form' = ProductFieldChanged(form, Append(form.product, Head(keys)))
  /\ keys' = Tail(keys)
  /\ UNCHANGED scan

TypingSpec == TypingInit /\ [][TypeKey]_typingVars

\* "GS1 payload (AI(01) + AI(17)) kan udfylde felter automatisk": the label that
\* was typed registers what the label read in one piece registers.
KeystrokesFillFields ==
  keys = None =>
    ValidateRegisterPayload(form) = ValidateRegisterPayload(ProductFieldChanged(EmptyForm, scan))
=============================================================================

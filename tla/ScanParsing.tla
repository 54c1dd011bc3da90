---------------------------- MODULE ScanParsing ----------------------------
(***************************************************************************)
(* What the pages and the server read in a scan: GS1 labels of a colli     *)
(* (gs1Parser, expiryNormalization, newSortingWorkflow), codes of a pallet *)
(* on either side, and the server's product numbers.                       *)
(*                                                                         *)
(* A text is a sequence of characters without surrounding blanks, in       *)
(* upper case.  A digit is the number it stands for; the other characters  *)
(* that mean something have numbers of their own, and Letter and Hash      *)
(* stand for one the server keeps and one it drops.  None (the empty text) *)
(* also stands for null.                                                   *)
(***************************************************************************)
EXTENDS Integers, Sequences, FiniteSets

CONSTANT Numbers   \* pallet numbers on labels, as they are printed

Digit == 0..9
GS == 10
OpenParen == 11
CloseParen == 12
Bracket == 13
Letter == 14
Hash == 15
P == 16
Dash == 17
Plus == 18
Colon == 19
Ae == 20

None == <<>>
ASSUME NumbersAssumption == \A number \in Numbers : number \in Seq(Digit) /\ number # None

Digits(text) == \A i \in DOMAIN text : text[i] \in Digit
Number(text) ==
  LET upTo[i \in 0..Len(text)] == IF i = 0 THEN 0 ELSE 10 * upTo[i - 1] + text[i]
  IN upTo[Len(text)]

Least(places) == CHOOSE i \in places : \A j \in places : i <= j
Kept(text, chars) ==
  LET upTo[i \in 0..Len(text)] ==
        IF i = 0 THEN <<>>
        ELSE upTo[i - 1] \o (IF text[i] \in chars THEN <<text[i]>> ELSE <<>>)
  IN upTo[Len(text)]

-----------------------------------------------------------------------------
(* Dates.                                                                  *)

DaysIn(year, month) ==
  CASE month \in {4, 6, 9, 11} -> 30
    [] month = 2 -> IF (year % 4) = 0 /\ ((year % 100) # 0 \/ (year % 400) = 0) THEN 29 ELSE 28
    [] OTHER -> 31

\* Date.UTC carries impossible months and days over and takes a year below 100
\* for one of the last century, so the date it returns is not the one asked for.
IsValidDate(year, month, day) ==
  year >= 100 /\ month \in 1..12 /\ day \in 1..DaysIn(year, month)

ToExpiryDateRaw(value) ==
  IF /\ Len(value) = 6 /\ Digits(value)
     /\ IsValidDate(2000 + Number(SubSeq(value, 1, 2)), Number(SubSeq(value, 3, 4)),
                    Number(SubSeq(value, 5, 6)))
  THEN <<2, 0>> \o value ELSE None

\* Mutant of NormalizeExpiryInput: every six digits become eight.
NormalizeSixDigits(raw) == IF Len(raw) = 6 /\ Digits(raw) THEN <<2, 0>> \o raw ELSE raw

\* Eight digits stay as they are, date or not.
NormalizeExpiryInput(raw) == IF ToExpiryDateRaw(raw) # None THEN ToExpiryDateRaw(raw) ELSE raw

-----------------------------------------------------------------------------
(* GS1 labels.  The fields of a text are the places where the parser finds *)
(* an application identifier it knows.                                     *)

Field(at, ai, value) == [at |-> at, ai |-> ai, value |-> value]
Before(text, from, stops) ==
  LET ends == {j \in from..Len(text) : text[j] \in stops}
  IN SubSeq(text, from, IF ends = {} THEN Len(text) ELSE Least(ends) - 1)

StripScannerPrefix(text) ==
  IF Len(text) >= 3 /\ text[1] = Bracket /\ {text[2], text[3]} \subseteq Digit \union {Letter, P}
  THEN SubSeq(text, 4, Len(text)) ELSE text

ParenthesizedFields(text) ==
  {Field(i, Number(SubSeq(text, i + 1, i + 2)),
         Before(Before(text, i + 4, {OpenParen, CloseParen}), 1, {GS})) :
     i \in {j \in 1..(Len(text) - 3) : /\ text[j] = OpenParen /\ text[j + 3] = CloseParen
                                       /\ Digits(SubSeq(text, j + 1, j + 2))}}

\* Mutant of CompactFields: a batch number ends where the text does.
CompactFieldsToLot(text) ==
  LET n == Len(text)
      From[i \in 1..(n + 16)] ==
        LET ai == SubSeq(text, i, i + 1)
            Value(k) == SubSeq(text, i + 2, IF i + 1 + k < n THEN i + 1 + k ELSE n)
        IN CASE i >= n -> {}
             [] i < n /\ ai = <<0, 1>> /\ Len(Value(14)) = 14 /\ Digits(Value(14)) ->
                  {Field(i, 1, Value(14))} \union From[i + 16]
             [] i < n /\ ai = <<1, 7>> -> {Field(i, 17, Value(6))} \union From[i + 8]
             [] i < n /\ ai = <<1, 0>> -> {}
             [] OTHER -> From[i + 1]
  IN From[1]

\* A GTIN of 14 digits, six characters of a date, a batch number up to the next
\* separator; everything else is passed over one character at a time.
CompactFields(text) ==
  LET n == Len(text)
      From[i \in 1..(n + 16)] ==
        LET ai == SubSeq(text, i, i + 1)
            Value(k) == SubSeq(text, i + 2, IF i + 1 + k < n THEN i + 1 + k ELSE n)
            ends == {j \in (i + 2)..n : text[j] = GS}
        IN CASE i >= n -> {}
             [] i < n /\ ai = <<0, 1>> /\ Len(Value(14)) = 14 /\ Digits(Value(14)) ->
                  {Field(i, 1, Value(14))} \union From[i + 16]
             [] i < n /\ ai = <<1, 7>> -> {Field(i, 17, Value(6))} \union From[i + 8]
             [] i < n /\ ai = <<1, 0>> -> IF ends = {} THEN {} ELSE From[Least(ends) + 1]
             [] OTHER -> From[i + 1]
  IN From[1]

\* The last field of an application identifier counts.
LastValue(fields) ==
  IF fields = {} THEN None
  ELSE (CHOOSE f \in fields : \A g \in fields : g.at <= f.at).value
Outcome(fields) ==
  [product |-> LastValue({f \in fields : f.ai = 1 /\ Len(f.value) = 14 /\ Digits(f.value)}),
   expiry  |-> ToExpiryDateRaw(LastValue({f \in fields : f.ai = 17}))]
NothingFound == [product |-> None, expiry |-> None]

ParseGs1ProductAndExpiry(text) ==
  LET payload == StripScannerPrefix(text)
      parenthesized == Outcome(ParenthesizedFields(payload))
  IN IF parenthesized # NothingFound THEN parenthesized ELSE Outcome(CompactFields(payload))

\* setProductNumber and setRegisterProductFromScan, on every change of the field.
ProductFieldChanged(form, value) ==
  LET scan == ParseGs1ProductAndExpiry(value)
  IN [product |-> IF scan.product # None THEN scan.product ELSE value,
      expiry  |-> IF scan.expiry # None THEN scan.expiry ELSE form.expiry]

ExpiryFieldChanged(form, value) == [form EXCEPT !.expiry = NormalizeExpiryInput(value)]

Refused == [product |-> None, expiry |-> None]
ValidateRegisterPayload(form) ==
  LET scan == ParseGs1ProductAndExpiry(form.product)
      manual == NormalizeExpiryInput(form.expiry)
      product == IF scan.product # None THEN scan.product ELSE form.product
      expiry == IF Len(manual) = 8 /\ Digits(manual) THEN manual ELSE scan.expiry
  IN IF product = None \/ expiry = None THEN Refused ELSE [product |-> product, expiry |-> expiry]

EmptyForm == [product |-> None, expiry |-> None]

-----------------------------------------------------------------------------
(* Pallet codes.                                                           *)

\* toPalletBarcodePayload: PALLET:P-001.
PalletBarcodePayload(id) == <<P, Letter, Letter, Letter, Letter, Letter, Colon>> \o id

Canonical(text) ==
  [i \in DOMAIN text |-> CASE text[i] = Plus -> Dash [] text[i] = Ae -> Colon [] OTHER -> text[i]]

\* Mutant of TryExtractPalletIdFromScan: the legacy separator is not translated.
TryExtractDashed(scan) ==
  LET at == {i \in 1..(Len(scan) - 2) : SubSeq(scan, i, i + 1) = <<P, Dash>> /\ scan[i + 2] \in Digit}
  IN IF at = {} THEN None
     ELSE <<P, Dash>> \o Before(scan, Least(at) + 2, 10..20)

\* The page: P- and the digits right behind it.
TryExtractPalletIdFromScan(scan) ==
  LET text == Canonical(scan)
      at == {i \in 1..(Len(text) - 2) : SubSeq(text, i, i + 1) = <<P, Dash>> /\ text[i + 2] \in Digit}
  IN IF at = {} THEN None
     ELSE <<P, Dash>> \o Before(text, Least(at) + 2, 10..20)

ValidateSuggestedPalletMatch(scan, expected) ==
  \/ expected = None \/ scan = None
  \/ TryExtractPalletIdFromScan(scan) \in {None, expected}

ResolvePalletCode(scan, expected) ==
  IF scan # None THEN scan
  ELSE IF expected # None THEN PalletBarcodePayload(expected) ELSE None

\* Mutant of TryParsePalletCode: the legacy separator is not translated.
TryParseUntranslated(scan) ==
  LET text == Kept(scan, Digit \union {Letter, P, Dash, Colon})
      at == {i \in 1..(Len(text) - 1) : SubSeq(text, i, i + 1) = <<P, Dash>>}
      digits == IF at = {} THEN None
                ELSE Kept(SubSeq(text, Least(at) + 2, Len(text)), Digit)
  IN IF digits = None THEN None ELSE <<P, Dash>> \o digits

\* Mutant of TryParsePalletCode: the digits right behind the sign, as on the page.
TryParseFirstDigits(scan) ==
  LET text == Kept(Canonical(scan), Digit \union {Letter, P, Dash, Colon})
      at == {i \in 1..(Len(text) - 1) : SubSeq(text, i, i + 1) = <<P, Dash>>}
      digits == IF at = {} THEN None ELSE Before(text, Least(at) + 2, 10..20)
  IN IF digits = None THEN None ELSE <<P, Dash>> \o digits

\* The server: P- and every digit behind it, noise or not between them.
TryParsePalletCode(scan) ==
  LET text == Kept(Canonical(scan), Digit \union {Letter, P, Dash, Colon})
      at == {i \in 1..(Len(text) - 1) : SubSeq(text, i, i + 1) = <<P, Dash>>}
      digits == IF at = {} THEN None
                ELSE Kept(SubSeq(text, Least(at) + 2, Len(text)), Digit)
  IN IF digits = None THEN None ELSE <<P, Dash>> \o digits

-----------------------------------------------------------------------------
(* Product numbers on the server.                                          *)

\* Mutant of IsValidCheckDigit: the weights start at the other end.
IsValidCheckDigitFromLeft(code) ==
  LET n == Len(code)
      sum[i \in 0..(n - 1)] == IF i = 0 THEN 0 ELSE sum[i - 1] + code[i] * (IF i % 2 = 0 THEN 3 ELSE 1)
  IN (10 - (sum[n - 1] % 10)) % 10 = code[n]

IsValidCheckDigit(code) ==
  LET n == Len(code)
      sum[i \in 0..(n - 1)] ==
        IF i = 0 THEN 0 ELSE sum[i - 1] + code[i] * (IF (n - i) % 2 = 1 THEN 3 ELSE 1)
  IN (10 - (sum[n - 1] % 10)) % 10 = code[n]

\* DefaultProductBarcodeNormalizer: UPC-A becomes EAN-13.
NormalizeProduct(raw) ==
  LET value == IF Len(raw) >= 3 /\ raw[1] = Bracket THEN SubSeq(raw, 4, Len(raw)) ELSE raw
  IN IF Len(value) = 12 /\ Digits(value) /\ IsValidCheckDigit(value) THEN <<0>> \o value ELSE value

-----------------------------------------------------------------------------
(* What each piece of code is for, over the labels and texts below.  These *)
(* are constants, so that TLC computes each only once; OverviewPage states *)
(* the properties of them.                                                 *)

Gtins == {<<0, 5, 7, 0, 1, 2, 3, 4, 5, 6, 7, 8, 9, 0>>, <<1, 0, 1, 7, 2, 6, 1, 2, 3, 1, 0, 1, 1, 7>>}
RealDates == {<<2, 6, 1, 2, 3, 1>>, <<2, 4, 0, 2, 2, 9>>}
NoDates == {<<2, 6, 0, 2, 2, 9>>, <<2, 6, 9, 9, 3, 1>>}
Lots == {<<Letter, Letter, 1, 2, 3>>, <<1, 7, 2, 6, 0, 1, 0, 1>>, <<0, 1>> \o [i \in 1..14 |-> 7]}

\* Labels with a product number, an expiry date and a batch number, or some of
\* them, in any order; the values may look like application identifiers.
Orders == {o \in UNION {[1..n -> {1, 17, 10}] : n \in 1..3} : \A i, j \in DOMAIN o : o[i] = o[j] => i = j}
Labels == [gtin : Gtins, date : RealDates \union NoDates, lot : Lots, order : Orders]
Value(label, ai) == CASE ai = 1 -> label.gtin [] ai = 17 -> label.date [] ai = 10 -> label.lot
Has(label, ai) == \E i \in DOMAIN label.order : label.order[i] = ai

Joined(parts) ==
  LET upTo[i \in 0..Len(parts)] == IF i = 0 THEN <<>> ELSE upTo[i - 1] \o parts[i]
  IN upTo[Len(parts)]

\* A separator is due behind a batch number that is not the last, and allowed
\* behind every element.
CompactPart(label, separated, i) ==
  LET ai == label.order[i]
  IN (<<ai \div 10, ai % 10>> \o Value(label, ai))
       \o IF separated \/ (ai = 10 /\ i < Len(label.order)) THEN <<GS>> ELSE <<>>
Compact(label, separated) == Joined([i \in DOMAIN label.order |-> CompactPart(label, separated, i)])

ParenthesizedPart(label, i) ==
  LET ai == label.order[i]
  IN <<OpenParen, ai \div 10, ai % 10, CloseParen>> \o Value(label, ai)
Parenthesized(label) == Joined([i \in DOMAIN label.order |-> ParenthesizedPart(label, i)])
ScannerPrefixes == {<<>>, <<Bracket, Letter, 3>>}
Printings(label) == {Compact(label, TRUE), Compact(label, FALSE), Parenthesized(label)}
Scans(label) == {prefix \o text : prefix \in ScannerPrefixes, text \in Printings(label)}

ReadExactly(label) ==
  LET expiry == IF Has(label, 17) /\ label.date \in RealDates THEN <<2, 0>> \o label.date ELSE None
  IN Has(label, 1) \/ expiry # None =>
       \A scan \in Scans(label) :
         LET form == ProductFieldChanged(EmptyForm, scan)
         IN /\ form.expiry = expiry
            /\ form.product = IF Has(label, 1) THEN label.gtin ELSE scan
EveryLabel == \A label \in Labels : ReadExactly(label)

\* Expiry dates of products that are sold now.
FirstOfMonth(y, m) == <<2, 0, y \div 10, y % 10, m \div 10, m % 10, 0, 1>>
WithTheCentury == {<<2, 0>> \o d : d \in RealDates}
FirstsOfMonths == {FirstOfMonth(y, m) : y \in 13..99, m \in 1..12}
Dates == WithTheCentury \union FirstsOfMonths
Typed(keys) ==
  LET form[i \in 0..Len(keys)] ==
        IF i = 0 THEN EmptyForm ELSE ExpiryFieldChanged(form[i - 1], Append(form[i - 1].expiry, keys[i]))
  IN form[Len(keys)].expiry
EveryDate == \A date \in Dates : Typed(date) = date /\ Typed(SubSeq(date, 3, 8)) = date

\* A label is P, a separator and a number, with or without PALLET: before them, in
\* the characters of either keyboard; the scanner may add one that means nothing.
PalletId(number) == <<P, Dash>> \o number
Separators == {Dash, Plus}
Fronts == {None} \union {<<P, Letter, Letter, Letter, Letter, Letter, colon>> : colon \in {Colon, Ae}}
Noise == {Hash, Letter, GS, Colon}
WithNoise(text, k, c) == SubSeq(text, 1, k) \o <<c>> \o SubSeq(text, k + 1, Len(text))
Noisy(text, from) == {text} \union {WithNoise(text, k, c) : k \in from..Len(text), c \in Noise}
NoisyFronts == UNION {Noisy(front, 0) : front \in Fronts}
Beginnings(number) == {SubSeq(number, 1, k) : k \in 1..Len(number)}

ReadAs(scan, expected) == TryParsePalletCode(ResolvePalletCode(scan, expected))

\* Noise before P or behind the last digit, and no scan at all.
ReadRight(number, scan) ==
  \A expected \in {PalletId(number), None} :
    ValidateSuggestedPalletMatch(scan, expected) /\ ReadAs(scan, expected) = PalletId(number)
EveryRightLabel ==
  \A number \in Numbers :
    /\ ReadAs(None, PalletId(number)) = PalletId(number)
    /\ \A front \in NoisyFronts, sep \in Separators, digits \in Noisy(number, Len(number)) :
         ReadRight(number, front \o <<P, sep>> \o digits)

\* Noise before P or behind the first digit; noise between P and the first digit,
\* where the page finds no code.
ReadAsPrinted(number, asked, scan) ==
  /\ ReadAs(scan, PalletId(asked)) = PalletId(number)
  /\ ValidateSuggestedPalletMatch(scan, PalletId(asked)) => asked \in Beginnings(number)
NotMisread(number, asked, scan) ==
  ReadAs(scan, PalletId(asked)) \in {None, PalletId(number)}
EveryNoisyLabel ==
  \A number, asked \in Numbers, front \in NoisyFronts, sep \in Separators :
    /\ \A digits \in Noisy(number, 1) :
         ReadAsPrinted(number, asked, front \o <<P, sep>> \o digits)
    /\ \A c \in Noise : \A sign \in {<<P, c, sep>>, <<P, sep, c>>} :
         NotMisread(number, asked, front \o sign \o number)

UpcCodes == {code \in [1..12 -> {0, 3, 7}] : Cardinality({i \in 1..12 : code[i] # 0}) <= 4}
UpcSum(code) ==
  3 * (code[1] + code[3] + code[5] + code[7] + code[9] + code[11])
    + code[2] + code[4] + code[6] + code[8] + code[10] + code[12]
EveryUpc ==
  \A code \in UpcCodes :
    NormalizeProduct(code) = NormalizeProduct(<<0>> \o code) <=> UpcSum(code) % 10 = 0
=============================================================================

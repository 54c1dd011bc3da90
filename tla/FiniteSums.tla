----------------------------- MODULE FiniteSums -----------------------------
(***************************************************************************)
(* What the proofs need of sums over finite sets, SumFunctionOnSet of the  *)
(* community modules: whatever order it takes the elements in, a sum is    *)
(* the value of any one element and the sum of the others.  And of         *)
(* functions defined by recursion over a range of numbers: that they exist *)
(* and are what their definition says.                                     *)
(***************************************************************************)
EXTENDS Integers, Functions, FiniteSetTheorems, WellFoundedInduction, TLAPS

-----------------------------------------------------------------------------
(* Facts about numbers and sums.  The library's induction theorems take an *)
(* operator as a parameter; here what induction would prove is proved from  *)
(* the smallest counterexample instead.                                     *)

\* A set of natural numbers has a least member.
LEMMA SmallestMember ==
  ASSUME NEW T, T \subseteq Nat, T # {}
  PROVE  \E x \in T : \A y \in T : x <= y
<1>1. PICK x \in T : \A y \in T : ~(<<y, x>> \in OpToRel(<, Nat))
  BY NatLessThanWellFounded, WFMin
<1>2. ASSUME NEW y \in T, y < x
      PROVE  <<y, x>> \in OpToRel(<, Nat)
  BY <1>2 DEF OpToRel
<1>3. \A y \in T : ~(y < x)
  BY <1>1, <1>2, Zenon
<1>4. \A y \in T : x <= y
  BY <1>3
<1> QED
  BY <1>4

-----------------------------------------------------------------------------
(* Recursive functions.  A definition f[i \in D] == ... chooses a function   *)
(* that F maps to itself; there is one when F's value at i depends on the   *)
(* values at places of lower rank only.                                     *)

Recursion(F, D, S, rank, n) ==
  /\ n \in Nat /\ rank \in [D -> 0..n] /\ S # {}
  /\ F \in [[D -> S] -> [D -> S]]
  /\ \A g, h \in [D -> S] : \A i \in D :
       (\A j \in D : rank[j] < rank[i] => g[j] = h[j]) => F[g][i] = F[h][i]

LEMMA RecursiveFunction ==
  ASSUME NEW F, NEW D, NEW S, NEW rank, NEW n, Recursion(F, D, S, rank, n)
  PROVE  \E g \in [D -> S] : F[g] = g
<1> USE DEF Recursion
<1> DEFINE Right(k) == \E g \in [D -> S] : \A i \in D : rank[i] < k => F[g][i] = g[i]
           Wrong == {k \in Nat : ~Right(k)}
<1>1. Wrong = {}
  <2> SUFFICES ASSUME Wrong # {} PROVE FALSE
    OBVIOUS
  <2>1. PICK k \in Wrong : \A m \in Wrong : k <= m
    <3>1. Wrong \subseteq Nat
      OBVIOUS
    <3> HIDE DEF Wrong
    <3> QED
      BY <3>1, SmallestMember
  <2>2. k # 0
    <3>1. PICK s : s \in S
      OBVIOUS
    <3>2. [i \in D |-> s] \in [D -> S]
      BY <3>1
    <3>3. \A i \in D : ~(rank[i] < 0)
      OBVIOUS
    <3>4. Right(0)
      BY <3>2, <3>3
    <3> QED
      BY <3>4
  <2>3. k - 1 \in Nat /\ Right(k - 1)
    <3>1. k \in Nat /\ k - 1 \in Nat /\ ~(k <= k - 1)
      BY <2>2
    <3>2. k - 1 \notin Wrong
      BY <2>1, <3>1
    <3> QED
      BY <3>1, <3>2
  <2>4. PICK g \in [D -> S] : \A i \in D : rank[i] < k - 1 => F[g][i] = g[i]
    BY <2>3
  <2>5. F[g] \in [D -> S]
    OBVIOUS
  <2>6. ASSUME NEW i \in D, rank[i] < k
        PROVE  F[F[g]][i] = F[g][i]
    <3>1. \A j \in D : rank[j] < rank[i] => F[g][j] = g[j]
      BY <2>4, <2>6
    <3> QED
      BY <2>5, <3>1
  <2> QED
    BY <2>5, <2>6
<1>2. Right(n + 1)
  <2>1. n + 1 \in Nat
    OBVIOUS
  <2> QED
    BY <1>1, <2>1
<1>3. PICK g \in [D -> S] : \A i \in D : rank[i] < n + 1 => F[g][i] = g[i]
  BY <1>2
<1>4. \A i \in D : F[g][i] = g[i]
  BY <1>3
<1> QED
  BY <1>4

\* Induction as far as n, for a set instead of a predicate.
LEMMA InductionTo ==
  ASSUME NEW n \in Nat, NEW Good, 0 \in Good, \A i \in 1..n : i - 1 \in Good => i \in Good
  PROVE  0..n \subseteq Good
<1> DEFINE Bad == {i \in 0..n : i \notin Good}
<1> SUFFICES ASSUME Bad # {} PROVE FALSE
  OBVIOUS
<1>1. PICK i \in Bad : \A j \in Bad : i <= j
  <2>1. Bad \subseteq Nat
    OBVIOUS
  <2> HIDE DEF Bad
  <2> QED
    BY <2>1, SmallestMember
<1>2. i \in 1..n /\ i - 1 \in 0..n /\ ~(i <= i - 1)
  BY <1>1
<1>3. i - 1 \in Good
  BY <1>1, <1>2
<1> QED
  BY <1>1, <1>2, <1>3

\* The recursive functions that go along a text: what begin is to become by the
\* steps 1..n.
Stepwise(n, S, begin, step) == n \in Nat /\ begin \in S /\ step \in [1..n -> [S -> S]]
Along(n, begin, step, g) == [i \in 0..n |-> IF i = 0 THEN begin ELSE step[i][g[i - 1]]]

LEMMA StepByStep ==
  ASSUME NEW n, NEW S, NEW begin, NEW step, Stepwise(n, S, begin, step)
  PROVE  \E g \in [0..n -> S] : g = Along(n, begin, step, g)
<1> DEFINE D == 0..n
           F == [g \in [D -> S] |-> Along(n, begin, step, g)]
           rank == [i \in D |-> i]
<1> USE DEF Stepwise, Along
<1>1. F \in [[D -> S] -> [D -> S]]
  OBVIOUS
<1>2. ASSUME NEW g \in [D -> S], NEW h \in [D -> S], NEW i \in D,
             \A j \in D : rank[j] < rank[i] => g[j] = h[j]
      PROVE  F[g][i] = F[h][i]
  BY <1>2
<1>3. n \in Nat /\ rank \in [D -> 0..n] /\ S # {}
  OBVIOUS
<1>4. Recursion(F, D, S, rank, n)
  <2> HIDE DEF F, rank, D
  <2> QED
    BY <1>1, <1>2, <1>3 DEF Recursion
<1>5. PICK g \in [D -> S] : F[g] = g
  BY <1>4, RecursiveFunction
<1> QED
  BY <1>5

-----------------------------------------------------------------------------
(* Sums over finite sets.  SumFunctionOnSet is a fold, that is, a recursive *)
(* function on SUBSET S applied to S; Chosen is the element the fold takes  *)
(* next and SumTable the function.                                          *)

Chosen(s) == CHOOSE x \in s : TRUE
SumBody(g, f, D) == [s \in D |-> IF s = {} THEN 0 ELSE f[Chosen(s)] + g[s \ {Chosen(s)}]]
SumTable(f, D) == CHOOSE g : g = SumBody(g, f, D)
UpTo(S, n) == {s \in SUBSET S : Cardinality(s) <= n}

LEMMA SumIsTable ==
  ASSUME NEW f, NEW S
  PROVE  SumFunctionOnSet(f, S) = SumTable(f, SUBSET S)[S]
BY DEF SumFunctionOnSet, SumTable, SumBody, Chosen, FoldFunctionOnSet, MapThenFoldSet

LEMMA ChosenMember ==
  ASSUME NEW s, s # {}
  PROVE  Chosen(s) \in s
BY DEF Chosen

LEMMA OneLess ==
  ASSUME NEW s, IsFiniteSet(s), NEW x \in s
  PROVE  /\ IsFiniteSet(s \ {x})
         /\ Cardinality(s) \in Nat /\ Cardinality(s \ {x}) = Cardinality(s) - 1
BY FS_CardinalityType, FS_RemoveElement

\* Of the counterexamples among the subsets of a finite set one is smallest: it
\* ceases to be one when any element is taken off.
LEMMA SmallestCounterexample ==
  ASSUME NEW S, IsFiniteSet(S), NEW Bad, Bad \subseteq SUBSET S, Bad # {}
  PROVE  \E s \in Bad : \A x \in s : s \ {x} \notin Bad
<1> DEFINE Sizes == {Cardinality(s) : s \in Bad}
<1>1. \A s \in SUBSET S : IsFiniteSet(s) /\ Cardinality(s) \in Nat
  BY FS_Subset, FS_CardinalityType
<1>2. Sizes \subseteq Nat /\ Sizes # {}
  BY <1>1
<1>3. PICK n \in Sizes : \A m \in Sizes : n <= m
  <2> HIDE DEF Sizes
  <2> QED
    BY <1>2, SmallestMember
<1>4. PICK s \in Bad : n = Cardinality(s)
  OBVIOUS
<1>5. \A t \in Bad : Cardinality(s) <= Cardinality(t)
  BY <1>3, <1>4
<1>6. ASSUME NEW x \in s, s \ {x} \in Bad
      PROVE  FALSE
  <2>1. Cardinality(s) \in Nat /\ Cardinality(s \ {x}) = Cardinality(s) - 1
    BY <1>1, OneLess
  <2> QED
    BY <1>5, <1>6, <2>1
<1> QED
  BY <1>6

\* Up to any size of its arguments, the table exists: the smallest size for which
\* it did not would be one above a size for which it does.
LEMMA TableUpTo ==
  ASSUME NEW f, NEW S, IsFiniteSet(S), NEW n \in Nat
  PROVE  \E g : g = SumBody(g, f, UpTo(S, n))
<1> DEFINE Missing == {k \in Nat : ~\E g : g = SumBody(g, f, UpTo(S, k))}
<1> SUFFICES ASSUME Missing # {}
             PROVE  FALSE
  OBVIOUS
<1>1. PICK k \in Missing : \A m \in Missing : k <= m
  <2>1. Missing \subseteq Nat
    OBVIOUS
  <2> HIDE DEF Missing
  <2> QED
    BY <2>1, SmallestMember
<1>2. \A s \in SUBSET S : IsFiniteSet(s) /\ Cardinality(s) \in Nat
  BY FS_Subset, FS_CardinalityType
<1>3. CASE k = 0
  <2>1. \A s \in UpTo(S, k) : s = {}
    BY <1>2, <1>3, FS_EmptySet DEF UpTo
  <2> DEFINE g == [s \in UpTo(S, k) |-> 0]
  <2>2. g = SumBody(g, f, UpTo(S, k))
    BY <2>1 DEF SumBody
  <2> QED
    BY <2>2, <1>1
<1>4. CASE k # 0
  <2>1. k - 1 \in Nat /\ k - 1 \notin Missing
    <3>1. k \in Nat
      OBVIOUS
    <3> HIDE DEF Missing
    <3> QED
      BY <1>1, <1>4, <3>1
  <2>2. PICK g : g = SumBody(g, f, UpTo(S, k - 1))
    BY <2>1
  <2> DEFINE h == SumBody(g, f, UpTo(S, k))
  <2>3. ASSUME NEW s \in UpTo(S, k), s # {}
        PROVE  s \ {Chosen(s)} \in UpTo(S, k - 1)
    BY <1>1, <1>2, <2>3, ChosenMember, FS_RemoveElement DEF UpTo
  <2>4. ASSUME NEW s \in UpTo(S, k - 1)
        PROVE  h[s] = g[s]
    <3>1. s \in UpTo(S, k)
      BY <1>1, <1>2 DEF UpTo
    <3> QED
      BY <2>2, <3>1 DEF SumBody
  <2>5. h = SumBody(h, f, UpTo(S, k))
    <3>1. ASSUME NEW s \in UpTo(S, k)
          PROVE  h[s] = SumBody(h, f, UpTo(S, k))[s]
      BY <2>3, <2>4 DEF SumBody
    <3> QED
      BY <3>1 DEF SumBody
  <2> QED
    BY <2>5, <1>1
<1> QED
  BY <1>3, <1>4

LEMMA TableExists ==
  ASSUME NEW f, NEW S, IsFiniteSet(S)
  PROVE  SumTable(f, SUBSET S) = SumBody(SumTable(f, SUBSET S), f, SUBSET S)
<1> DEFINE n == Cardinality(S)
<1>1. n \in Nat /\ \A s \in SUBSET S : Cardinality(s) <= n
  BY FS_Subset, FS_CardinalityType
<1>2. UpTo(S, n) = SUBSET S
  BY <1>1 DEF UpTo
<1>3. \E g : g = SumBody(g, f, SUBSET S)
  <2> HIDE DEF n
  <2> QED
    BY <1>1, <1>2, TableUpTo
<1> QED
  BY <1>3 DEF SumTable

LEMMA TableSteps ==
  ASSUME NEW f, NEW S, IsFiniteSet(S), NEW s \in SUBSET S
  PROVE  SumTable(f, SUBSET S)[s] =
           IF s = {} THEN 0 ELSE f[Chosen(s)] + SumTable(f, SUBSET S)[s \ {Chosen(s)}]
<1> DEFINE g == SumTable(f, SUBSET S)
<1>1. g = SumBody(g, f, SUBSET S)
  BY TableExists
<1> HIDE DEF g
<1>2. g[s] = SumBody(g, f, SUBSET S)[s]
  BY <1>1
<1>3. g[s] = IF s = {} THEN 0 ELSE f[Chosen(s)] + g[s \ {Chosen(s)}]
  BY <1>2 DEF SumBody
<1> QED
  BY <1>3 DEF g

\* The tables of a set and of a set around it agree.
LEMMA TablesAgree ==
  ASSUME NEW f, NEW S, IsFiniteSet(S), NEW T \in SUBSET S
  PROVE  SumTable(f, SUBSET S)[T] = SumTable(f, SUBSET T)[T]
<1> DEFINE Differ == {s \in SUBSET T : SumTable(f, SUBSET S)[s] # SumTable(f, SUBSET T)[s]}
<1>1. IsFiniteSet(T) /\ \A s \in SUBSET T : IsFiniteSet(s) /\ Cardinality(s) \in Nat
  BY FS_Subset, FS_CardinalityType
<1>2. ASSUME Differ # {}
      PROVE  FALSE
  <2>1. PICK s \in Differ : \A x \in s : s \ {x} \notin Differ
    <3>1. Differ \subseteq SUBSET S
      OBVIOUS
    <3> HIDE DEF Differ
    <3> QED
      BY <1>2, <3>1, SmallestCounterexample
  <2>2. s # {}
    BY <1>1, TableSteps
  <2>3. s \ {Chosen(s)} \notin Differ
    BY <2>1, <2>2, ChosenMember
  <2>4. SumTable(f, SUBSET S)[s \ {Chosen(s)}] = SumTable(f, SUBSET T)[s \ {Chosen(s)}]
    BY <2>3
  <2> QED
    BY <1>1, <2>2, <2>4, TableSteps
<1> QED
  BY <1>2

LEMMA SumOfNothing ==
  ASSUME NEW f
  PROVE  SumFunctionOnSet(f, {}) = 0
BY FS_EmptySet, TableSteps, SumIsTable

LEMMA SumTakesChosen ==
  ASSUME NEW f, NEW S, IsFiniteSet(S), S # {}
  PROVE  SumFunctionOnSet(f, S) = f[Chosen(S)] + SumFunctionOnSet(f, S \ {Chosen(S)})
<1> DEFINE R == S \ {Chosen(S)}
<1>1. SumTable(f, SUBSET S)[S] = f[Chosen(S)] + SumTable(f, SUBSET S)[R]
  BY TableSteps
<1>2. SumTable(f, SUBSET S)[R] = SumTable(f, SUBSET R)[R]
  BY TablesAgree
<1> QED
  BY <1>1, <1>2, SumIsTable

LEMMA SumIsNat ==
  ASSUME NEW f, NEW S, IsFiniteSet(S), \A x \in S : f[x] \in Nat
  PROVE  SumFunctionOnSet(f, S) \in Nat
<1> DEFINE Bad == {s \in SUBSET S : SumFunctionOnSet(f, s) \notin Nat}
<1>1. \A s \in SUBSET S : IsFiniteSet(s) /\ Cardinality(s) \in Nat
  BY FS_Subset, FS_CardinalityType
<1>2. ASSUME Bad # {}
      PROVE  FALSE
  <2>1. PICK s \in Bad : \A x \in s : s \ {x} \notin Bad
    <3>1. Bad \subseteq SUBSET S
      OBVIOUS
    <3> HIDE DEF Bad
    <3> QED
      BY <1>2, <3>1, SmallestCounterexample
  <2>2. s # {}
    BY SumOfNothing
  <2>3. s \ {Chosen(s)} \notin Bad
    BY <2>1, <2>2, ChosenMember
  <2>4. f[Chosen(s)] \in Nat /\ SumFunctionOnSet(f, s \ {Chosen(s)}) \in Nat
    BY <2>2, <2>3, ChosenMember
  <2> QED
    BY <1>1, <2>2, <2>4, SumTakesChosen
<1> QED
  BY <1>2

\* Whichever element is taken off, the rest adds up to the rest.
LEMMA SumTakesAny ==
  ASSUME NEW f, NEW S, IsFiniteSet(S), \A z \in S : f[z] \in Nat, NEW x \in S
  PROVE  SumFunctionOnSet(f, S) = f[x] + SumFunctionOnSet(f, S \ {x})
<1> DEFINE Bad == {s \in SUBSET S : \E y \in s : SumFunctionOnSet(f, s) # f[y] + SumFunctionOnSet(f, s \ {y})}
<1>1. \A s \in SUBSET S : IsFiniteSet(s) /\ Cardinality(s) \in Nat /\ SumFunctionOnSet(f, s) \in Nat
  BY FS_Subset, FS_CardinalityType, SumIsNat
<1>2. ASSUME Bad # {}
      PROVE  FALSE
  <2>1. PICK s \in Bad : \A z \in s : s \ {z} \notin Bad
    <3>1. Bad \subseteq SUBSET S
      OBVIOUS
    <3> HIDE DEF Bad
    <3> QED
      BY <1>2, <3>1, SmallestCounterexample
  <2>2. PICK y \in s : SumFunctionOnSet(f, s) # f[y] + SumFunctionOnSet(f, s \ {y})
    BY <2>1
  <2> DEFINE c == Chosen(s)
  <2>3. c \in s /\ SumFunctionOnSet(f, s) = f[c] + SumFunctionOnSet(f, s \ {c})
    BY <1>1, ChosenMember, SumTakesChosen
  <2> HIDE DEF c
  <2>4. c # y
    BY <2>2, <2>3
  <2>5. s \ {c} \notin Bad /\ s \ {y} \notin Bad
    BY <2>1, <2>2, <2>3
  <2>6. SumFunctionOnSet(f, s \ {c}) = f[y] + SumFunctionOnSet(f, (s \ {c}) \ {y})
    BY <2>2, <2>4, <2>5
  <2>7. SumFunctionOnSet(f, s \ {y}) = f[c] + SumFunctionOnSet(f, (s \ {y}) \ {c})
    BY <2>3, <2>4, <2>5
  <2>8. (s \ {c}) \ {y} = (s \ {y}) \ {c}
    OBVIOUS
  <2>9. f[c] \in Nat /\ f[y] \in Nat /\ SumFunctionOnSet(f, (s \ {y}) \ {c}) \in Nat
    BY <1>1, <2>2, <2>3
  <2>10. SumFunctionOnSet(f, s) = f[c] + (f[y] + SumFunctionOnSet(f, (s \ {y}) \ {c}))
    BY <2>3, <2>6, <2>8
  <2>11. f[y] + SumFunctionOnSet(f, s \ {y}) = f[y] + (f[c] + SumFunctionOnSet(f, (s \ {y}) \ {c}))
    BY <2>7
  <2> QED
    BY <2>2, <2>9, <2>10, <2>11
<1> QED
  BY <1>2

LEMMA SumAdds ==
  ASSUME NEW f, NEW S, IsFiniteSet(S), NEW x, x \notin S, \A y \in S \union {x} : f[y] \in Nat
  PROVE  SumFunctionOnSet(f, S \union {x}) = f[x] + SumFunctionOnSet(f, S)
<1>1. IsFiniteSet(S \union {x})
  BY FS_AddElement
<1>2. (S \union {x}) \ {x} = S
  OBVIOUS
<1> QED
  BY <1>1, <1>2, SumTakesAny

\* A sum depends on the values it adds up only.
LEMMA SumCongruence ==
  ASSUME NEW f, NEW g, NEW S, IsFiniteSet(S), \A x \in S : f[x] = g[x]
  PROVE  SumFunctionOnSet(f, S) = SumFunctionOnSet(g, S)
<1> DEFINE Bad == {s \in SUBSET S : SumFunctionOnSet(f, s) # SumFunctionOnSet(g, s)}
<1>1. \A s \in SUBSET S : IsFiniteSet(s) /\ Cardinality(s) \in Nat
  BY FS_Subset, FS_CardinalityType
<1>2. ASSUME Bad # {}
      PROVE  FALSE
  <2>1. PICK s \in Bad : \A x \in s : s \ {x} \notin Bad
    <3>1. Bad \subseteq SUBSET S
      OBVIOUS
    <3> HIDE DEF Bad
    <3> QED
      BY <1>2, <3>1, SmallestCounterexample
  <2>2. s # {}
    BY SumOfNothing
  <2>3. s \ {Chosen(s)} \notin Bad
    BY <2>1, <2>2, ChosenMember
  <2>4. f[Chosen(s)] = g[Chosen(s)] /\ SumFunctionOnSet(f, s \ {Chosen(s)}) = SumFunctionOnSet(g, s \ {Chosen(s)})
    BY <2>2, <2>3, ChosenMember
  <2> QED
    BY <1>1, <2>2, <2>4, SumTakesChosen
<1> QED
  BY <1>2

LEMMA SumChanges ==
  ASSUME NEW f, NEW g, NEW S, IsFiniteSet(S), NEW x \in S,
         \A y \in S : f[y] \in Nat /\ g[y] \in Nat,
         \A y \in S \ {x} : f[y] = g[y]
  PROVE  SumFunctionOnSet(g, S) = SumFunctionOnSet(f, S) - f[x] + g[x]
<1>1. IsFiniteSet(S \ {x})
  BY FS_RemoveElement
<1>2. SumFunctionOnSet(g, S \ {x}) = SumFunctionOnSet(f, S \ {x}) /\ SumFunctionOnSet(f, S \ {x}) \in Nat
  BY <1>1, SumCongruence, SumIsNat
<1>3. SumFunctionOnSet(f, S) = f[x] + SumFunctionOnSet(f, S \ {x}) /\ SumFunctionOnSet(g, S) = g[x] + SumFunctionOnSet(g, S \ {x})
  BY SumTakesAny
<1> QED
  BY <1>2, <1>3

LEMMA SumZero ==
  ASSUME NEW f, NEW S, IsFiniteSet(S), \A x \in S : f[x] \in Nat
  PROVE  SumFunctionOnSet(f, S) = 0 <=> \A x \in S : f[x] = 0
<1>1. ASSUME NEW x \in S, SumFunctionOnSet(f, S) = 0
      PROVE  f[x] = 0
  <2>1. IsFiniteSet(S \ {x}) /\ SumFunctionOnSet(f, S \ {x}) \in Nat
    BY FS_RemoveElement, SumIsNat
  <2> QED
    BY <1>1, <2>1, SumTakesAny
<1>2. ASSUME \A x \in S : f[x] = 0
      PROVE  SumFunctionOnSet(f, S) = 0
  <2> DEFINE Bad == {s \in SUBSET S : SumFunctionOnSet(f, s) # 0}
  <2>1. \A s \in SUBSET S : IsFiniteSet(s) /\ Cardinality(s) \in Nat
    BY FS_Subset, FS_CardinalityType
  <2>2. ASSUME Bad # {}
        PROVE  FALSE
    <3>1. PICK s \in Bad : \A x \in s : s \ {x} \notin Bad
      <4>1. Bad \subseteq SUBSET S
        OBVIOUS
      <4> HIDE DEF Bad
      <4> QED
        BY <2>2, <4>1, SmallestCounterexample
    <3>2. s # {}
      BY SumOfNothing
    <3>3. s \ {Chosen(s)} \notin Bad
      BY <3>1, <3>2, ChosenMember
    <3> QED
      BY <1>2, <2>1, <3>2, <3>3, ChosenMember, SumTakesChosen
  <2> QED
    BY <2>2
<1> QED
  BY <1>1, <1>2
=============================================================================

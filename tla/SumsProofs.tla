----------------------------- MODULE SumsProofs -----------------------------
(***************************************************************************)
(* What Sum computes, for every length and every integer-valued function.  *)
(* The inductions go through the least element of a set of naturals        *)
(* (NatMin): the library's induction rules take an operator, this one a    *)
(* set, so the provers can use it.  The second part says the same of the   *)
(* sums over finite sets that the community modules compute with folds.    *)
(***************************************************************************)
EXTENDS Sums, Functions, FiniteSetTheorems, WellFoundedInduction, TLAPS

\* g lists the prefix sums of f up to n.
IsPrefix(g, f, n) ==
  /\ g \in [0..n -> Int]
  /\ g[0] = 0
  /\ \A i \in 1..n : g[i] = g[i-1] + f[i]

\* f has integer values on 1..n.
IntegerTo(f, n) == \A i \in 1..n : f[i] \in Int

\* A non-empty set of naturals has a least element.
LEMMA NatMin ==
  ASSUME NEW T, T \subseteq Nat, T # {}
  PROVE  \E m \in T : \A k \in Nat : k < m => k \notin T
<1>1. PICK x \in T : \A y \in T : ~ (<<y, x>> \in OpToRel(<,Nat))
  BY NatLessThanWellFounded, WFMin
<1>2. \A k \in Nat : k < x => k \notin T
  BY <1>1 DEF OpToRel
<1> QED BY <1>2

\* Prefix sums exist for every length.
LEMMA PrefixExists ==
  ASSUME NEW n \in Nat, NEW f, IntegerTo(f, n)
  PROVE  \E g : IsPrefix(g, f, n)
<1> DEFINE T == {k \in 0..n : ~ \E g : IsPrefix(g, f, k)}
<1>1. SUFFICES ASSUME T # {} PROVE FALSE
  BY DEF T
<1>2. PICK m \in T : \A k \in Nat : k < m => k \notin T
  <2>1. T \subseteq Nat OBVIOUS
  <2> QED BY <2>1, <1>1, NatMin
<1>3. m # 0
  <2>1. IsPrefix([i \in 0..0 |-> 0], f, 0) BY DEF IsPrefix
  <2> QED BY <2>1
<1>4. m \in 1..n /\ m-1 \in 0..n /\ m-1 \in Nat BY <1>3
<1>5. PICK g : IsPrefix(g, f, m-1)
  <2>1. m-1 \notin T BY <1>2, <1>4
  <2> QED BY <2>1, <1>4
<1>6. IsPrefix([i \in 0..m |-> IF i = m THEN g[m-1] + f[m] ELSE g[i]], f, m)
  BY <1>4, <1>5, SMTT(30) DEF IsPrefix, IntegerTo
<1> QED BY <1>6

\* The recursive function of Sums has the prefix sums as its only solution.
LEMMA PrefixUnique ==
  ASSUME NEW n \in Nat, NEW f, IntegerTo(f, n), NEW g, IsPrefix(g, f, n)
  PROVE  PrefixSums(f, n) = g
<1> DEFINE D(S) == [i \in 0..n |-> IF i = 0 THEN 0 ELSE S[i-1] + f[i]]
           S == PrefixSums(f, n)
<1>1. g = D(g)
  BY SMT DEF IsPrefix
<1>2. S = D(S)
  <2> HIDE DEF D
  <2>1. S = CHOOSE R : R = D(R) BY DEF PrefixSums, D
  <2> QED BY <2>1, <1>1
<1> HIDE DEF S
<1>3. /\ S = [i \in 0..n |-> S[i]]
      /\ S[0] = 0
      /\ \A i \in 1..n : S[i] = S[i-1] + f[i]
  BY <1>2
<1> DEFINE T == {k \in 0..n : S[k] # g[k]}
<1>4. ASSUME T # {} PROVE FALSE
  <2>1. T \subseteq Nat OBVIOUS
  <2>2. PICK m \in T : \A k \in Nat : k < m => k \notin T
    BY <2>1, <1>4, NatMin
  <2>3. m # 0 BY <1>3 DEF IsPrefix
  <2>4. m \in 1..n /\ m-1 \in 0..n /\ m-1 \in Nat /\ m-1 < m BY <2>3
  <2>5. S[m-1] = g[m-1] BY <2>2, <2>4
  <2> QED BY <2>5, <2>4, <1>3 DEF IsPrefix
<1>5. \A k \in 0..n : S[k] = g[k] BY <1>4
<1> QED BY <1>5, <1>3 DEF IsPrefix, S

\* PrefixSums is a list of prefix sums, and Sum its last entry.
LEMMA PrefixSumsIs ==
  ASSUME NEW n \in Nat, NEW f, IntegerTo(f, n)
  PROVE  /\ IsPrefix(PrefixSums(f, n), f, n)
         /\ Sum(f, n) = PrefixSums(f, n)[n]
         /\ Sum(f, n) \in Int
<1>1. PICK g : IsPrefix(g, f, n) BY PrefixExists
<1>2. PrefixSums(f, n) = g BY <1>1, PrefixUnique
<1> QED BY <1>1, <1>2 DEF Sum, IsPrefix

\* Any list of prefix sums ends in the sum.
LEMMA SumIs ==
  ASSUME NEW n \in Nat, NEW f, IntegerTo(f, n), NEW g, IsPrefix(g, f, n)
  PROVE  Sum(f, n) = g[n]
BY PrefixUnique DEF Sum

\* Functions that agree on 1..n have the same sum.
LEMMA SumExt ==
  ASSUME NEW n \in Nat, NEW f, NEW h, IntegerTo(f, n), \A i \in 1..n : h[i] = f[i]
  PROVE  Sum(h, n) = Sum(f, n)
<1>1. IsPrefix(PrefixSums(f, n), h, n) BY PrefixSumsIs DEF IsPrefix
<1>2. IntegerTo(h, n) BY DEF IntegerTo
<1> QED BY <1>1, <1>2, SumIs, PrefixSumsIs

\* Changing one summand changes the sum by the difference.
LEMMA SumUpdate ==
  ASSUME NEW n \in Nat, NEW f, NEW h, IntegerTo(f, n), IntegerTo(h, n),
         NEW k \in 1..n, \A i \in 1..n : i # k => h[i] = f[i]
  PROVE  Sum(h, n) = Sum(f, n) + h[k] - f[k]
<1> DEFINE p == PrefixSums(f, n)
           q == [i \in 0..n |-> IF i >= k THEN p[i] + h[k] - f[k] ELSE p[i]]
<1>1. IsPrefix(p, f, n) /\ Sum(f, n) = p[n] BY PrefixSumsIs
<1> HIDE DEF p
<1>2. IsPrefix(q, h, n)
  <2>1. q \in [0..n -> Int] /\ q[0] = 0 BY <1>1, SMTT(20) DEF IsPrefix, IntegerTo
  <2>2. ASSUME NEW i \in 1..n PROVE q[i] = q[i-1] + h[i]
    <3>0. p[i] = p[i-1] + f[i] /\ p[i] \in Int /\ p[i-1] \in Int /\ f[i] \in Int /\ h[i] \in Int
          /\ f[k] \in Int /\ h[k] \in Int
      BY <1>1 DEF IsPrefix, IntegerTo
    <3>1. CASE i < k BY <3>0, <3>1
    <3>2. CASE i = k BY <3>0, <3>2
    <3>3. CASE i > k BY <3>0, <3>3
    <3> QED BY <3>1, <3>2, <3>3
  <2> QED BY <2>1, <2>2 DEF IsPrefix
<1>3. q[n] = p[n] + h[k] - f[k] OBVIOUS
<1> HIDE DEF q
<1> QED BY <1>1, <1>2, <1>3, SumIs

\* A sum of zeros is zero.
LEMMA SumZero ==
  ASSUME NEW n \in Nat, NEW f, \A i \in 1..n : f[i] = 0
  PROVE  Sum(f, n) = 0
<1>1. IsPrefix([i \in 0..n |-> 0], f, n) BY DEF IsPrefix
<1>2. IntegerTo(f, n) BY DEF IntegerTo
<1> QED BY <1>1, <1>2, SumIs

\* The sum of a pointwise sum is the sum of the sums.
LEMMA SumAdd ==
  ASSUME NEW n \in Nat, NEW f, NEW g, NEW h, IntegerTo(f, n), IntegerTo(g, n),
         \A i \in 1..n : h[i] = f[i] + g[i]
  PROVE  Sum(h, n) = Sum(f, n) + Sum(g, n)
<1> DEFINE p == PrefixSums(f, n)
           q == PrefixSums(g, n)
           r == [i \in 0..n |-> p[i] + q[i]]
<1>1. IsPrefix(p, f, n) /\ Sum(f, n) = p[n] BY PrefixSumsIs
<1>2. IsPrefix(q, g, n) /\ Sum(g, n) = q[n] BY PrefixSumsIs
<1> HIDE DEF p, q
<1>3. IsPrefix(r, h, n)
  <2>1. r \in [0..n -> Int] /\ r[0] = 0 BY <1>1, <1>2 DEF IsPrefix
  <2>2. ASSUME NEW i \in 1..n PROVE r[i] = r[i-1] + h[i]
    <3>1. p[i] = p[i-1] + f[i] /\ p[i] \in Int /\ p[i-1] \in Int /\ f[i] \in Int
      BY <1>1 DEF IsPrefix, IntegerTo
    <3>2. q[i] = q[i-1] + g[i] /\ q[i] \in Int /\ q[i-1] \in Int /\ g[i] \in Int
      BY <1>2 DEF IsPrefix, IntegerTo
    <3>3. r[i] = p[i] + q[i] /\ r[i-1] = p[i-1] + q[i-1] OBVIOUS
    <3>4. h[i] = f[i] + g[i] OBVIOUS
    <3> HIDE DEF r
    <3> QED BY <3>1, <3>2, <3>3, <3>4
  <2> QED BY <2>1, <2>2 DEF IsPrefix
<1>4. IntegerTo(h, n) BY DEF IntegerTo
<1>5. r[n] = p[n] + q[n] OBVIOUS
<1> HIDE DEF r
<1> QED BY <1>1, <1>2, <1>3, <1>4, <1>5, SumIs

\* A common factor comes out of a sum.
LEMMA SumScale ==
  ASSUME NEW n \in Nat, NEW f, NEW h, NEW c \in Int, IntegerTo(f, n),
         \A i \in 1..n : h[i] = c * f[i]
  PROVE  Sum(h, n) = c * Sum(f, n)
<1> DEFINE p == PrefixSums(f, n)
           r == [i \in 0..n |-> c * p[i]]
<1>1. IsPrefix(p, f, n) /\ Sum(f, n) = p[n] BY PrefixSumsIs
<1> HIDE DEF p
<1>2. IsPrefix(r, h, n)
  <2>1. r \in [0..n -> Int] /\ r[0] = 0 BY <1>1 DEF IsPrefix
  <2>2. ASSUME NEW i \in 1..n PROVE r[i] = r[i-1] + h[i]
    <3>1. p[i] = p[i-1] + f[i] /\ p[i-1] \in Int /\ f[i] \in Int
      BY <1>1 DEF IsPrefix, IntegerTo
    <3>2. r[i] = c * p[i] /\ r[i-1] = c * p[i-1] /\ h[i] = c * f[i] OBVIOUS
    <3> HIDE DEF r
    <3>3. c * (p[i-1] + f[i]) = c * p[i-1] + c * f[i] BY <3>1
    <3> QED BY <3>1, <3>2, <3>3
  <2> QED BY <2>1, <2>2 DEF IsPrefix
<1>3. IntegerTo(h, n) BY DEF IntegerTo
<1>4. r[n] = c * p[n] OBVIOUS
<1> HIDE DEF r
<1> QED BY <1>1, <1>2, <1>3, <1>4, SumIs

\* Every summand of a sum of naturals is at most the sum; so a sum of naturals is a
\* natural, and it is zero only if every summand is.
LEMMA SumBounds ==
  ASSUME NEW n \in Nat, NEW f, \A i \in 1..n : f[i] \in Nat
  PROVE  /\ Sum(f, n) \in Nat
         /\ \A k \in 1..n : f[k] <= Sum(f, n)
<1> DEFINE p == PrefixSums(f, n)
<1>0. IntegerTo(f, n) BY DEF IntegerTo
<1>1. IsPrefix(p, f, n) /\ Sum(f, n) = p[n] BY <1>0, PrefixSumsIs
<1> HIDE DEF p
<1> DEFINE Good(k) == p[k] >= 0 /\ \A j \in 1..k : f[j] <= p[k]
           T == {k \in 0..n : ~Good(k)}
<1>2. ASSUME T # {} PROVE FALSE
  <2>1. T \subseteq Nat OBVIOUS
  <2> HIDE DEF T
  <2>2. PICK m \in T : \A k \in Nat : k < m => k \notin T
    BY <2>1, <1>2, NatMin
  <2> USE DEF T
  <2>3. m # 0 BY <1>1 DEF IsPrefix
  <2>4. m \in 1..n /\ m-1 \in 0..n /\ m-1 \in Nat /\ m-1 < m BY <2>3
  <2>5. Good(m-1) BY <2>2, <2>4
  <2>6. p[m] = p[m-1] + f[m] /\ f[m] \in Nat /\ p[m-1] \in Int
    BY <1>1, <2>4 DEF IsPrefix
  <2>7. p[m] >= 0 /\ p[m] >= p[m-1] /\ p[m] >= f[m] BY <2>5, <2>6
  <2>8. ASSUME NEW j \in 1..m PROVE f[j] <= p[m]
    <3>1. CASE j = m BY <3>1, <2>7
    <3>2. CASE j # m
      <4>1. j \in 1..(m-1) BY <3>2, <2>4
      <4>2. f[j] <= p[m-1] BY <4>1, <2>5
      <4>3. f[j] \in Nat BY <4>1, <2>4
      <4> QED BY <4>2, <4>3, <2>6
    <3> QED BY <3>1, <3>2
  <2> QED BY <2>2, <2>7, <2>8
<1>3. Good(n) BY <1>2
<1>4. p[n] \in Int BY <1>1 DEF IsPrefix
<1> QED BY <1>1, <1>3, <1>4

-----------------------------------------------------------------------------
(***************************************************************************)
(* Sums over a finite set.  The folds of the community modules take the    *)
(* elements in the order of CHOOSE; SetSum is the sum taken that way, and  *)
(* the lemmas show that the order does not matter.                         *)
(***************************************************************************)
Chosen(s) == CHOOSE x \in s : TRUE

IntegerOn(f, S) == \A x \in S : f[x] \in Int

\* g gives the sum of f over every subset of S.
IsSetSum(g, f, S) ==
  /\ g \in [SUBSET S -> Int]
  /\ g[{}] = 0
  /\ \A s \in SUBSET S : s # {} => g[s] = f[Chosen(s)] + g[s \ {Chosen(s)}]

\* R solves the recursion that a fold unfolds to, whichever way its operation adds.
Unfolds(R, f, S) ==
  /\ R[{}] = 0
  /\ \A s \in SUBSET S : s # {} =>
       \/ R[s] = f[Chosen(s)] + R[s \ {Chosen(s)}]
       \/ R[s] = R[s \ {Chosen(s)}] + f[Chosen(s)]

SetSum(f, S) == (CHOOSE g : IsSetSum(g, f, S))[S]

\* A non-empty set of subsets of a finite set has a member none of whose members can be
\* taken out.
LEMMA SmallestSubset ==
  ASSUME NEW S, IsFiniteSet(S), NEW T, T \subseteq SUBSET S, T # {}
  PROVE  \E s \in T : \A x \in s : s \ {x} \notin T
<1>1. \A s \in T : IsFiniteSet(s) /\ Cardinality(s) \in Nat
  BY FS_Subset, FS_CardinalityType
<1> DEFINE K == {Cardinality(s) : s \in T}
<1>2. K \subseteq Nat /\ K # {} BY <1>1
<1>3. PICK m \in K : \A k \in Nat : k < m => k \notin K
  <2> HIDE DEF K
  <2> QED BY <1>2, NatMin
<1>4. PICK s \in T : Cardinality(s) = m BY <1>3
<1>5. ASSUME NEW x \in s, s \ {x} \in T PROVE FALSE
  <2>1. Cardinality(s \ {x}) = m - 1 BY <1>1, <1>4, FS_RemoveElement
  <2>2. m - 1 \in K /\ m - 1 \in Nat BY <2>1, <1>5, <1>1
  <2>3. m \in Nat BY <1>2
  <2> QED BY <1>3, <2>2, <2>3
<1> QED BY <1>5

LEMMA ChosenIn == ASSUME NEW s, s # {} PROVE Chosen(s) \in s
BY DEF Chosen

\* The sums over the subsets of a finite set exist.
LEMMA SetSumExists ==
  ASSUME NEW S, IsFiniteSet(S), NEW f, IntegerOn(f, S)
  PROVE  \E g : IsSetSum(g, f, S)
<1> DEFINE Small(k) == {s \in SUBSET S : Cardinality(s) <= k}
           IsLevel(g, k) == /\ g \in [Small(k) -> Int]
                            /\ g[{}] = 0
                            /\ \A s \in Small(k) :
                                 s # {} => g[s] = f[Chosen(s)] + g[s \ {Chosen(s)}]
           T == {k \in Nat : ~ \E g : IsLevel(g, k)}
<1>0. \A s \in SUBSET S : /\ IsFiniteSet(s) /\ Cardinality(s) \in Nat
                          /\ Cardinality(s) <= Cardinality(S)
                          /\ Cardinality(s) = 0 <=> s = {}
  BY FS_Subset, FS_CardinalityType, FS_EmptySet
<1>1. \A s \in SUBSET S : \A x \in s : Cardinality(s \ {x}) = Cardinality(s) - 1
  BY <1>0, FS_RemoveElement
<1>2. ASSUME T # {} PROVE FALSE
  <2>1. T \subseteq Nat OBVIOUS
  <2>2. PICK m \in T : \A k \in Nat : k < m => k \notin T
    <3> HIDE DEF T
    <3> QED BY <2>1, <1>2, NatMin
  <2>3. m # 0
    <3>1. Small(0) = {{}} BY <1>0
    <3>2. IsLevel([s \in {{}} |-> 0], 0) BY <3>1
    <3> QED BY <3>2, ZenonT(30)
  <2>4. m - 1 \in Nat BY <2>3
  <2>5. PICK g : IsLevel(g, m - 1)
    <3>0. m \in Nat /\ m - 1 < m OBVIOUS
    <3>1. m - 1 \notin T
      <4> HIDE DEF T
      <4> QED BY <2>2, <2>4, <3>0
    <3> HIDE DEF IsLevel
    <3> QED BY <3>1, <2>4
  <2> DEFINE h == [s \in Small(m) |-> IF s = {} THEN 0
                                      ELSE f[Chosen(s)] + g[s \ {Chosen(s)}]]
  <2>6. \A s \in Small(m) : s # {} =>
          /\ f[Chosen(s)] \in Int /\ s \ {Chosen(s)} \in Small(m - 1)
          /\ s \ {Chosen(s)} \in Small(m)
    BY <1>0, <1>1, <2>4, ChosenIn DEF IntegerOn
  <2>7. \A s \in Small(m - 1) : s \in Small(m) /\ h[s] = g[s]
    <3> SUFFICES ASSUME NEW s \in Small(m - 1) PROVE s \in Small(m) /\ h[s] = g[s]
      OBVIOUS
    <3>1. s \in Small(m) BY <1>0, <2>4
    <3>2. CASE s = {} BY <3>1, <3>2, <2>5
    <3>3. CASE s # {} BY <3>1, <3>3, <2>5
    <3> QED BY <3>1, <3>2, <3>3
  <2>8. IsLevel(h, m)
    <3>1. h \in [Small(m) -> Int] BY <2>5, <2>6
    <3>2. h[{}] = 0 BY <1>0
    <3>3. ASSUME NEW s \in Small(m), s # {} PROVE h[s] = f[Chosen(s)] + h[s \ {Chosen(s)}]
      <4>1. h[s \ {Chosen(s)}] = g[s \ {Chosen(s)}] BY <2>6, <2>7, <3>3
      <4>2. h[s] = f[Chosen(s)] + g[s \ {Chosen(s)}] BY <3>3
      <4> HIDE DEF h
      <4> QED BY <4>1, <4>2
    <3> HIDE DEF h
    <3> QED BY <3>1, <3>2, <3>3
  <2> QED BY <2>2, <2>8
<1>3. Cardinality(S) \in Nat BY FS_CardinalityType
<1>4. PICK g : IsLevel(g, Cardinality(S)) BY <1>2, <1>3
<1>5. Small(Cardinality(S)) = SUBSET S BY <1>0
<1> QED BY <1>4, <1>5 DEF IsSetSum

\* They are the only solution of the recursion.
LEMMA SetSumUnique ==
  ASSUME NEW S, IsFiniteSet(S), NEW f, IntegerOn(f, S), NEW g, IsSetSum(g, f, S),
         NEW R, Unfolds(R, f, S)
  PROVE  \A s \in SUBSET S : R[s] = g[s]
<1> DEFINE T == {s \in SUBSET S : R[s] # g[s]}
<1>1. SUFFICES ASSUME T # {} PROVE FALSE OBVIOUS
<1>2. PICK s \in T : \A x \in s : s \ {x} \notin T
  <2>1. T \subseteq SUBSET S OBVIOUS
  <2> HIDE DEF T
  <2> QED BY <2>1, <1>1, SmallestSubset
<1>3. s # {} BY DEF IsSetSum, Unfolds
<1> DEFINE c == Chosen(s)
<1>4. c \in s /\ f[c] \in Int BY <1>3, ChosenIn DEF IntegerOn
<1> HIDE DEF c
<1>5. s \in SUBSET S /\ s \ {c} \in SUBSET S /\ R[s] # g[s] OBVIOUS
<1>6. R[s \ {c}] = g[s \ {c}] BY <1>2, <1>4, <1>5
<1>7. g[s] = f[c] + g[s \ {c}] /\ g[s \ {c}] \in Int BY <1>3, <1>5 DEF IsSetSum, c
<1>8. R[s] = f[c] + R[s \ {c}] \/ R[s] = R[s \ {c}] + f[c] BY <1>3, <1>5 DEF c, Unfolds
<1> QED BY <1>4, <1>5, <1>6, <1>7, <1>8

\* The sums of f over the subsets of S, all at once.
LEMMA SetSumIs ==
  ASSUME NEW S, IsFiniteSet(S), NEW f, IntegerOn(f, S), NEW g, IsSetSum(g, f, S)
  PROVE  \A s \in SUBSET S : SetSum(f, s) = g[s]
<1> SUFFICES ASSUME NEW s \in SUBSET S PROVE SetSum(f, s) = g[s]
  OBVIOUS
<1> DEFINE h == CHOOSE r : IsSetSum(r, f, s)
<1>1. IsFiniteSet(s) /\ IntegerOn(f, s) BY FS_Subset DEF IntegerOn
<1>2. IsSetSum(h, f, s) BY <1>1, SetSumExists
<1> HIDE DEF h
<1>3. \A t \in SUBSET s : g[t] = h[t]
  <2>1. Unfolds(g, f, s) BY DEF IsSetSum, Unfolds
  <2> QED BY <1>1, <1>2, <2>1, SetSumUnique
<1> QED BY <1>3 DEF SetSum, h

\* A sum over a finite set is an integer, 0 for no elements, and any element may be the
\* first one added.
LEMMA SetSumStep ==
  ASSUME NEW S, IsFiniteSet(S), NEW f, IntegerOn(f, S)
  PROVE  /\ SetSum(f, S) \in Int
         /\ SetSum(f, {}) = 0
         /\ \A x \in S : SetSum(f, S) = f[x] + SetSum(f, S \ {x})
<1>1. PICK g : IsSetSum(g, f, S) BY SetSumExists
<1>2. \A s \in SUBSET S : SetSum(f, s) = g[s] BY <1>1, SetSumIs
<1>3. \A s \in SUBSET S : g[s] \in Int BY <1>1 DEF IsSetSum
<1> DEFINE T == {s \in SUBSET S : \E x \in s : g[s] # f[x] + g[s \ {x}]}
<1>4. ASSUME T # {} PROVE FALSE
  <2>1. PICK s \in T : \A x \in s : s \ {x} \notin T
    <3>1. T \subseteq SUBSET S OBVIOUS
    <3> HIDE DEF T
    <3> QED BY <3>1, <1>4, SmallestSubset
  <2>2. PICK x \in s : g[s] # f[x] + g[s \ {x}] OBVIOUS
  <2> DEFINE c == Chosen(s)
  <2>3. c \in s BY ChosenIn
  <2>4. g[s] = f[c] + g[s \ {c}] BY <1>1 DEF IsSetSum
  <2> HIDE DEF c
  <2>5. c # x BY <2>2, <2>4
  <2>6. s \ {c} \in SUBSET S /\ s \ {x} \in SUBSET S /\ (s \ {c}) \ {x} \in SUBSET S
    OBVIOUS
  <2>7. g[s \ {c}] = f[x] + g[(s \ {c}) \ {x}] BY <2>1, <2>3, <2>5, <2>6
  <2>8. g[s \ {x}] = f[c] + g[(s \ {x}) \ {c}] BY <2>1, <2>3, <2>5, <2>6
  <2>9. (s \ {x}) \ {c} = (s \ {c}) \ {x} OBVIOUS
  <2>10. f[c] \in Int /\ f[x] \in Int /\ g[(s \ {c}) \ {x}] \in Int
    BY <1>3, <2>3, <2>6 DEF IntegerOn
  <2>11. g[s \ {x}] = f[c] + g[(s \ {c}) \ {x}] BY <2>8, <2>9
  <2> HIDE DEF T
  <2> QED BY <2>2, <2>4, <2>7, <2>10, <2>11
<1>5. \A x \in S : g[S] = f[x] + g[S \ {x}] BY <1>4
<1>6. S \in SUBSET S /\ {} \in SUBSET S /\ \A x \in S : S \ {x} \in SUBSET S OBVIOUS
<1>7. g[{}] = 0 BY <1>1 DEF IsSetSum
<1> QED BY <1>2, <1>3, <1>5, <1>6, <1>7

\* The fold of the community modules computes the sum.
LEMMA FunctionSum ==
  ASSUME NEW S, IsFiniteSet(S), NEW f, IntegerOn(f, S)
  PROVE  SumFunctionOnSet(f, S) = SetSum(f, S)
<1> DEFINE D(R) == [s \in SUBSET S |-> IF s = {} THEN 0 ELSE f[Chosen(s)] + R[s \ {Chosen(s)}]]
           R == CHOOSE r : r = D(r)
<1>1. SumFunctionOnSet(f, S) = R[S]
  BY DEF SumFunctionOnSet, FoldFunctionOnSet, MapThenFoldSet, Chosen
<1>2. PICK g : IsSetSum(g, f, S) BY SetSumExists
<1>3. g = D(g) BY <1>2, ChosenIn DEF IsSetSum
<1>4. R = D(R)
  <2> HIDE DEF D
  <2> QED BY <1>3
<1> HIDE DEF R
<1>5. Unfolds(R, f, S) BY <1>4 DEF Unfolds
<1>6. R[S] = g[S] BY <1>2, <1>5, SetSumUnique
<1>7. SetSum(f, S) = g[S] BY <1>2, SetSumIs
<1> QED BY <1>1, <1>6, <1>7

\* Functions that agree on S have the same sum over S.
LEMMA SetSumExt ==
  ASSUME NEW S, IsFiniteSet(S), NEW f, NEW h, IntegerOn(f, S), \A x \in S : h[x] = f[x]
  PROVE  SetSum(h, S) = SetSum(f, S)
<1>1. IntegerOn(h, S) BY DEF IntegerOn
<1>2. PICK g : IsSetSum(g, f, S) BY SetSumExists
<1>3. IsSetSum(g, h, S) BY <1>2, ChosenIn DEF IsSetSum
<1> QED BY <1>1, <1>2, <1>3, SetSumIs

\* The sum of a pointwise sum is the sum of the sums.
LEMMA SetSumAdd ==
  ASSUME NEW S, IsFiniteSet(S), NEW f, NEW g, NEW h, IntegerOn(f, S), IntegerOn(g, S),
         \A x \in S : h[x] = f[x] + g[x]
  PROVE  SetSum(h, S) = SetSum(f, S) + SetSum(g, S)
<1> DEFINE T == {s \in SUBSET S : SetSum(h, s) # SetSum(f, s) + SetSum(g, s)}
<1>0. \A s \in SUBSET S :
        IsFiniteSet(s) /\ IntegerOn(f, s) /\ IntegerOn(g, s) /\ IntegerOn(h, s)
  BY FS_Subset DEF IntegerOn
<1>1. ASSUME T # {} PROVE FALSE
  <2>1. PICK s \in T : \A x \in s : s \ {x} \notin T
    <3>1. T \subseteq SUBSET S OBVIOUS
    <3> HIDE DEF T
    <3> QED BY <3>1, <1>1, SmallestSubset
  <2>2. s # {}
    <3>1. SetSum(f, {}) = 0 BY SetSumStep
    <3>2. SetSum(g, {}) = 0 BY SetSumStep
    <3>3. SetSum(h, {}) = 0 BY <1>0, SetSumStep
    <3> QED BY <3>1, <3>2, <3>3
  <2>3. PICK x \in s : TRUE BY <2>2
  <2>4. s \ {x} \in SUBSET S /\ s \in SUBSET S OBVIOUS
  <2>5. /\ SetSum(f, s) = f[x] + SetSum(f, s \ {x})
        /\ SetSum(g, s) = g[x] + SetSum(g, s \ {x})
        /\ SetSum(h, s) = h[x] + SetSum(h, s \ {x})
    BY <1>0, <2>3, <2>4, SetSumStep
  <2>6. SetSum(f, s \ {x}) \in Int /\ SetSum(g, s \ {x}) \in Int
    BY <1>0, <2>4, SetSumStep
  <2>7. SetSum(h, s \ {x}) = SetSum(f, s \ {x}) + SetSum(g, s \ {x}) BY <2>1, <2>4
  <2>8. SetSum(h, s) # SetSum(f, s) + SetSum(g, s) OBVIOUS
  <2>9. h[x] = f[x] + g[x] /\ f[x] \in Int /\ g[x] \in Int BY <2>4 DEF IntegerOn
  <2> HIDE DEF T
  <2> QED BY <2>5, <2>6, <2>7, <2>8, <2>9
<1> QED BY <1>1

\* A sum over S whose summands are zero outside a subset of S is the sum over the subset.
LEMMA SetSumSubset ==
  ASSUME NEW S, IsFiniteSet(S), NEW f, IntegerOn(f, S), NEW R \in SUBSET S,
         \A x \in S \ R : f[x] = 0
  PROVE  SetSum(f, S) = SetSum(f, R)
<1> DEFINE T == {s \in SUBSET S : R \subseteq s /\ SetSum(f, s) # SetSum(f, R)}
<1>1. ASSUME T # {} PROVE FALSE
  <2>1. PICK s \in T : \A x \in s : s \ {x} \notin T
    <3>1. T \subseteq SUBSET S OBVIOUS
    <3> HIDE DEF T
    <3> QED BY <3>1, <1>1, SmallestSubset
  <2>2. PICK x \in s : x \notin R BY <2>1
  <2>3. s \ {x} \in SUBSET S /\ R \subseteq s \ {x} BY <2>2
  <2>4. SetSum(f, s \ {x}) = SetSum(f, R) BY <2>1, <2>3
  <2>5. IsFiniteSet(s) /\ IntegerOn(f, s) /\ IsFiniteSet(s \ {x}) /\ IntegerOn(f, s \ {x})
    BY <2>3, FS_Subset DEF IntegerOn
  <2>6. SetSum(f, s) = f[x] + SetSum(f, s \ {x}) BY <2>5, SetSumStep
  <2>7. SetSum(f, s \ {x}) \in Int BY <2>5, SetSumStep
  <2>8. f[x] = 0 BY <2>2
  <2> QED BY <2>4, <2>6, <2>7, <2>8
<1> QED BY <1>1

\* A sum over S of naturals is at least the sum over any subset, and so a natural.
LEMMA SetSumMonotone ==
  ASSUME NEW S, IsFiniteSet(S), NEW f, \A x \in S : f[x] \in Nat, NEW R \in SUBSET S
  PROVE  SetSum(f, S) \in Nat /\ SetSum(f, R) \in Nat /\ SetSum(f, R) <= SetSum(f, S)
<1>0. \A s \in SUBSET S : IsFiniteSet(s) /\ IntegerOn(f, s) BY FS_Subset DEF IntegerOn
<1>1. SUFFICES ASSUME NEW Q \in SUBSET S
               PROVE  \A s \in SUBSET S : Q \subseteq s =>
                        SetSum(f, s) \in Int /\ SetSum(f, Q) <= SetSum(f, s)
  <2>1. SetSum(f, {}) = 0 BY <1>0, SetSumStep
  <2>2. SetSum(f, R) \in Int /\ SetSum(f, S) \in Int BY <1>0, SetSumStep
  <2>3. \A s \in SUBSET S : 0 <= SetSum(f, s) BY <1>1, <2>1
  <2>4. SetSum(f, R) <= SetSum(f, S) BY <1>1
  <2> QED BY <2>2, <2>3, <2>4
<1> DEFINE T == {s \in SUBSET S : Q \subseteq s /\ ~(SetSum(f, Q) <= SetSum(f, s))}
<1>2. ASSUME T # {} PROVE FALSE
  <2>1. PICK s \in T : \A x \in s : s \ {x} \notin T
    <3>1. T \subseteq SUBSET S OBVIOUS
    <3> HIDE DEF T
    <3> QED BY <3>1, <1>2, SmallestSubset
  <2>2. SetSum(f, s) \in Int /\ SetSum(f, Q) \in Int BY <1>0, SetSumStep
  <2>3. PICK x \in s : x \notin Q BY <2>1, <2>2
  <2>4. s \ {x} \in SUBSET S /\ Q \subseteq s \ {x} BY <2>3
  <2>5. SetSum(f, Q) <= SetSum(f, s \ {x}) BY <2>1, <2>4
  <2>6. SetSum(f, s) = f[x] + SetSum(f, s \ {x}) BY <1>0, <2>3, SetSumStep
  <2>7. SetSum(f, s \ {x}) \in Int BY <1>0, <2>4, SetSumStep
  <2>8. f[x] \in Nat /\ ~(SetSum(f, Q) <= SetSum(f, s)) OBVIOUS
  <2> HIDE DEF T
  <2> QED BY <2>2, <2>5, <2>6, <2>7, <2>8
<1> QED BY <1>0, <1>2, SetSumStep

\* What is summed per owner, over all the owners, is the total: every non-zero summand
\* has exactly one owner.
LEMMA SetSumByOwner ==
  ASSUME NEW S, IsFiniteSet(S), NEW n \in Nat, NEW a, IntegerTo(a, n), NEW who,
         \A i \in 1..n : a[i] # 0 => who[i] \in S
  PROVE  SetSum([x \in S |-> Sum([i \in 1..n |-> IF who[i] = x THEN a[i] ELSE 0], n)], S)
           = Sum(a, n)
<1> DEFINE Own(x) == [i \in 1..n |-> IF who[i] = x THEN a[i] ELSE 0]
           f      == [x \in S |-> Sum(Own(x), n)]
           Of(s)  == [i \in 1..n |-> IF who[i] \in s THEN a[i] ELSE 0]
           T      == {s \in SUBSET S : SetSum(f, s) # Sum(Of(s), n)}
<1>1. \A x : IntegerTo(Own(x), n) BY DEF IntegerTo
<1>2. \A s : IntegerTo(Of(s), n) BY DEF IntegerTo
<1>3. \A x \in S : f[x] = Sum(Own(x), n) /\ f[x] \in Int
  <2> HIDE DEF Own
  <2> QED BY <1>1, PrefixSumsIs
<1> HIDE DEF f
<1>4. \A s \in SUBSET S : IsFiniteSet(s) /\ IntegerOn(f, s)
  BY <1>3, FS_Subset DEF IntegerOn
<1>5. ASSUME T # {} PROVE FALSE
  <2>1. PICK s \in T : \A x \in s : s \ {x} \notin T
    <3>1. T \subseteq SUBSET S OBVIOUS
    <3> HIDE DEF T
    <3> QED BY <3>1, <1>5, SmallestSubset
  <2>2. s # {}
    <3>1. SetSum(f, {}) = 0 BY <1>4, SetSumStep
    <3>2. Sum(Of({}), n) = 0 BY SumZero
    <3> QED BY <3>1, <3>2
  <2>3. PICK x \in s : TRUE BY <2>2
  <2> DEFINE r == s \ {x}
  <2>4. r \in SUBSET S /\ x \in S OBVIOUS
  <2>5. SetSum(f, s) = f[x] + SetSum(f, r) BY <1>4, SetSumStep
  <2>6. SetSum(f, r) = Sum(Of(r), n) BY <2>1, <2>4
  <2>7. \A i \in 1..n : Of(s)[i] = Own(x)[i] + Of(r)[i] BY DEF IntegerTo
  <2>8. Sum(Of(s), n) = Sum(Own(x), n) + Sum(Of(r), n)
    <3> HIDE DEF Of, Own, r
    <3> QED BY <1>1, <1>2, <2>7, SumAdd
  <2>9. SetSum(f, s) # Sum(Of(s), n) OBVIOUS
  <2> HIDE DEF T, Of, Own, r
  <2> QED BY <1>3, <2>4, <2>5, <2>6, <2>8, <2>9
<1>6. SetSum(f, S) = Sum(Of(S), n) BY <1>5
<1>7. Sum(Of(S), n) = Sum(a, n)
  <2>1. \A i \in 1..n : Of(S)[i] = a[i] OBVIOUS
  <2> HIDE DEF Of
  <2> QED BY <2>1, SumExt
<1> QED BY <1>6, <1>7 DEF f

\* The sum over two disjoint sets.
LEMMA SetSumUnion ==
  ASSUME NEW S, IsFiniteSet(S), NEW f, IntegerOn(f, S), NEW P, NEW Q,
         S = P \cup Q, P \cap Q = {}
  PROVE  SetSum(f, S) = SetSum(f, P) + SetSum(f, Q)
<1> DEFINE a == [x \in S |-> IF x \in P THEN f[x] ELSE 0]
           b == [x \in S |-> IF x \in Q THEN f[x] ELSE 0]
<1>1. IsFiniteSet(P) /\ IsFiniteSet(Q) BY FS_Subset
<1>2. IntegerOn(a, S) /\ IntegerOn(b, S) /\ IntegerOn(f, P) /\ IntegerOn(f, Q)
  BY DEF IntegerOn
<1>3. \A x \in S : f[x] = a[x] + b[x] BY DEF IntegerOn
<1>4. /\ \A x \in P : a[x] = f[x]
      /\ \A x \in Q : b[x] = f[x]
      /\ \A x \in S \ P : a[x] = 0
      /\ \A x \in S \ Q : b[x] = 0
  OBVIOUS
<1>5. P \in SUBSET S /\ Q \in SUBSET S OBVIOUS
<1> HIDE DEF a, b
<1>6. SetSum(f, S) = SetSum(a, S) + SetSum(b, S) BY <1>2, <1>3, SetSumAdd
<1>7. SetSum(a, S) = SetSum(a, P) /\ SetSum(b, S) = SetSum(b, Q)
  BY <1>2, <1>4, <1>5, SetSumSubset
<1>8. SetSum(a, P) = SetSum(f, P) /\ SetSum(b, Q) = SetSum(f, Q)
  BY <1>1, <1>2, <1>4, SetSumExt
<1> QED BY <1>6, <1>7, <1>8

\* A smaller summand everywhere gives a smaller sum.
LEMMA SetSumLess ==
  ASSUME NEW S, IsFiniteSet(S), NEW f, NEW h, IntegerOn(f, S), IntegerOn(h, S),
         \A x \in S : f[x] <= h[x]
  PROVE  SetSum(f, S) <= SetSum(h, S)
<1> DEFINE d == [x \in S |-> h[x] - f[x]]
<1>1. \A x \in S : d[x] \in Nat /\ h[x] = f[x] + d[x] BY DEF IntegerOn
<1> HIDE DEF d
<1>2. IntegerOn(d, S) BY <1>1 DEF IntegerOn
<1>3. SetSum(h, S) = SetSum(f, S) + SetSum(d, S) BY <1>1, <1>2, SetSumAdd
<1>4. SetSum(d, S) \in Nat BY <1>1, SetSumMonotone
<1>5. SetSum(f, S) \in Int BY SetSumStep
<1> QED BY <1>3, <1>4, <1>5

\* A common factor can be taken out of a sum.
LEMMA SetSumScale ==
  ASSUME NEW S, IsFiniteSet(S), NEW f, NEW h, IntegerOn(f, S), NEW k \in Int,
         \A x \in S : h[x] = k * f[x]
  PROVE  SetSum(h, S) = k * SetSum(f, S)
<1> DEFINE T == {s \in SUBSET S : SetSum(h, s) # k * SetSum(f, s)}
<1>0. \A s \in SUBSET S : IsFiniteSet(s) /\ IntegerOn(f, s) /\ IntegerOn(h, s)
  BY FS_Subset DEF IntegerOn
<1>1. ASSUME T # {} PROVE FALSE
  <2>1. PICK s \in T : \A x \in s : s \ {x} \notin T
    <3>1. T \subseteq SUBSET S OBVIOUS
    <3> HIDE DEF T
    <3> QED BY <3>1, <1>1, SmallestSubset
  <2>2. s # {}
    <3>1. SetSum(f, {}) = 0 /\ SetSum(h, {}) = 0 BY <1>0, SetSumStep
    <3> QED BY <3>1
  <2>3. PICK x \in s : TRUE BY <2>2
  <2>4. s \ {x} \in SUBSET S /\ s \in SUBSET S OBVIOUS
  <2>5. /\ SetSum(f, s) = f[x] + SetSum(f, s \ {x})
        /\ SetSum(h, s) = h[x] + SetSum(h, s \ {x})
    BY <1>0, <2>3, <2>4, SetSumStep
  <2>6. SetSum(f, s \ {x}) \in Int /\ f[x] \in Int /\ h[x] = k * f[x]
    BY <1>0, <2>4, SetSumStep DEF IntegerOn
  <2>7. SetSum(h, s \ {x}) = k * SetSum(f, s \ {x}) BY <2>1, <2>4
  <2>8. SetSum(h, s) # k * SetSum(f, s) OBVIOUS
  <2>9. ASSUME NEW u \in Int, NEW v \in Int PROVE k * (u + v) = k * u + k * v
    OBVIOUS
  <2> HIDE DEF T
  <2>10. k * SetSum(f, s) = k * f[x] + k * SetSum(f, s \ {x}) BY <2>5, <2>6, <2>9
  <2> QED BY <2>5, <2>6, <2>7, <2>8, <2>10
<1> QED BY <1>1

\* Adding 1 for every element counts them.
LEMMA SetSumCount ==
  ASSUME NEW S, IsFiniteSet(S), NEW f, \A x \in S : f[x] = 1
  PROVE  SetSum(f, S) = Cardinality(S)
<1> DEFINE T == {s \in SUBSET S : SetSum(f, s) # Cardinality(s)}
<1>0. \A s \in SUBSET S : IsFiniteSet(s) /\ IntegerOn(f, s) /\ Cardinality(s) \in Nat
  BY FS_Subset, FS_CardinalityType DEF IntegerOn
<1>1. ASSUME T # {} PROVE FALSE
  <2>1. PICK s \in T : \A x \in s : s \ {x} \notin T
    <3>1. T \subseteq SUBSET S OBVIOUS
    <3> HIDE DEF T
    <3> QED BY <3>1, <1>1, SmallestSubset
  <2>2. s # {}
    <3>1. SetSum(f, {}) = 0 BY <1>0, SetSumStep
    <3> QED BY <3>1, FS_EmptySet
  <2>3. PICK x \in s : TRUE BY <2>2
  <2>4. s \ {x} \in SUBSET S /\ s \in SUBSET S OBVIOUS
  <2>5. SetSum(f, s) = 1 + SetSum(f, s \ {x})
    BY <1>0, <2>3, <2>4, SetSumStep
  <2>6. Cardinality(s \ {x}) = Cardinality(s) - 1 BY <1>0, <2>3, <2>4, FS_RemoveElement
  <2>7. SetSum(f, s \ {x}) = Cardinality(s \ {x}) BY <2>1, <2>4
  <2>8. SetSum(f, s) # Cardinality(s) /\ Cardinality(s) \in Nat BY <1>0
  <2> HIDE DEF T
  <2> QED BY <2>5, <2>6, <2>7, <2>8
<1> QED BY <1>1

\* The two sums agree on 1..n.
LEMMA IntervalSum ==
  ASSUME NEW n \in Nat, NEW f, IntegerTo(f, n)
  PROVE  Sum(f, n) = SetSum(f, 1..n)
<1> DEFINE p == PrefixSums(f, n)
           T == {k \in 0..n : SetSum(f, 1..k) # p[k]}
<1>1. IsPrefix(p, f, n) /\ Sum(f, n) = p[n] BY PrefixSumsIs
<1> HIDE DEF p
<1>2. \A k \in 0..n : IsFiniteSet(1..k) /\ IntegerOn(f, 1..k)
  BY FS_Interval DEF IntegerTo, IntegerOn
<1>3. ASSUME T # {} PROVE FALSE
  <2>1. PICK k \in T : \A j \in Nat : j < k => j \notin T
    <3>1. T \subseteq Nat OBVIOUS
    <3> HIDE DEF T
    <3> QED BY <3>1, <1>3, NatMin
  <2>2. k \in 0..n /\ SetSum(f, 1..k) # p[k] OBVIOUS
  <2>3. k # 0
    <3>1. 1..0 = {} OBVIOUS
    <3>2. SetSum(f, {}) = 0 BY <1>2, <3>1, SetSumStep
    <3> QED BY <2>2, <3>1, <3>2, <1>1 DEF IsPrefix
  <2>4. k \in 1..k /\ (1..k) \ {k} = 1..(k-1) /\ k - 1 \in 0..n /\ k \in 1..n
    BY <2>2, <2>3
  <2>5. SetSum(f, 1..k) = f[k] + SetSum(f, 1..(k-1))
    <3>1. SetSum(f, 1..k) = f[k] + SetSum(f, (1..k) \ {k}) BY <1>2, <2>2, <2>4, SetSumStep
    <3> QED BY <3>1, <2>4
  <2>6. SetSum(f, 1..(k-1)) = p[k-1] BY <2>1, <2>4
  <2>7. p[k] = p[k-1] + f[k] /\ f[k] \in Int /\ p[k-1] \in Int
    BY <1>1, <2>4 DEF IsPrefix, IntegerTo
  <2> HIDE DEF T
  <2> QED BY <2>2, <2>5, <2>6, <2>7
<1>4. SetSum(f, 1..n) = p[n] BY <1>3
<1> QED BY <1>1, <1>4

\* SumFunction adds up a function over its domain.
LEMMA SumFunctionIs ==
  ASSUME NEW S, IsFiniteSet(S), NEW f, DOMAIN f = S, IntegerOn(f, S)
  PROVE  SumFunction(f) = SetSum(f, S) /\ SumFunction(f) \in Int
BY FunctionSum, SetSumStep DEF SumFunction
=============================================================================

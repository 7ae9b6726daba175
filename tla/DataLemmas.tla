---------------------------- MODULE DataLemmas ------------------------------
(***************************************************************************)
(* What proofs need to know of data: sequences of anything, as the         *)
(* channels between processes are, induction over numbers and over finite  *)
(* sets, sums, and sequences that are joined.  The induction theorems of   *)
(* the library take a predicate as their parameter; here it is the set of  *)
(* those that have a property.                                             *)
(***************************************************************************)
EXTENDS Integers, FiniteSets, SequencesExt, Selection, FiniteSetTheorems, WellFoundedInduction, TLAPS

----------------------------------------------------------------------------
(* Sequences.                                                              *)

IsSeq(s) == \E S : s \in Seq(S)

\* The length of a sequence is a number, zero for the empty one only.
LEMMA SeqLength ==
  ASSUME NEW s, IsSeq(s)
  PROVE  Len(s) \in Nat /\ (Len(s) = 0 <=> s = <<>>)
BY DEF IsSeq

\* What is in a sequence is of its set.
LEMMA SeqElement ==
  ASSUME NEW S, NEW s \in Seq(S), NEW k \in DOMAIN s
  PROVE  s[k] \in S /\ k \in 1 .. Len(s) /\ Len(s) \in Nat
OBVIOUS

\* A sequence is a function on the first numbers.
LEMMA SeqDomain ==
  ASSUME NEW s, IsSeq(s)
  PROVE  DOMAIN s = 1 .. Len(s) /\ Len(s) \in Nat /\ s = [k \in 1 .. Len(s) |-> s[k]]
BY DEF IsSeq

\* A function on the first numbers is a sequence.
LEMMA FunctionIsSeq ==
  ASSUME NEW n \in Nat, NEW f, f = [k \in 1 .. n |-> f[k]]
  PROVE  IsSeq(f) /\ Len(f) = n
<1>1. f \in Seq({f[k] : k \in 1 .. n})
  OBVIOUS
<1>2. Len(f) = n
  BY <1>1
<1> QED
  BY <1>1, <1>2 DEF IsSeq

\* A sequence gets one more element at its end.
LEMMA SeqLonger ==
  ASSUME NEW s, IsSeq(s), NEW x
  PROVE  /\ IsSeq(s \o <<x>>)
         /\ Len(s \o <<x>>) = Len(s) + 1
         /\ \A k \in 1 .. Len(s) : (s \o <<x>>)[k] = s[k]
         /\ (s \o <<x>>)[Len(s) + 1] = x
<1>1. PICK S : s \in Seq(S)
  BY DEF IsSeq
<1>2. s \in Seq(S \cup {x}) /\ <<x>> \in Seq(S \cup {x})
  BY <1>1
<1>3. s \o <<x>> \in Seq(S \cup {x})
  BY <1>2
<1> QED
  BY <1>2, <1>3 DEF IsSeq

\* The same for the operator that names it.
LEMMA SeqAppend ==
  ASSUME NEW s, IsSeq(s), NEW x
  PROVE  /\ IsSeq(Append(s, x))
         /\ Len(Append(s, x)) = Len(s) + 1
         /\ \A k \in 1 .. Len(s) : Append(s, x)[k] = s[k]
         /\ Append(s, x)[Len(s) + 1] = x
<1>1. PICK S : s \in Seq(S)
  BY DEF IsSeq
<1>2. s \in Seq(S \cup {x})
  BY <1>1
<1> QED
  BY <1>2 DEF IsSeq

\* The places of the longer sequence.
LEMMA SeqPlaces ==
  ASSUME NEW s, IsSeq(s), NEW n, Len(n) = Len(s) + 1
  PROVE  /\ Len(s) \in Nat
         /\ Len(s) + 1 \in 1 .. Len(n)
         /\ \A k \in 1 .. Len(s) : k \in 1 .. Len(n)
         /\ \A k \in 1 .. Len(n) : k \in 1 .. Len(s) \/ k = Len(s) + 1
         /\ \A k, l \in 1 .. Len(n) : k < l => k \in 1 .. Len(s)
<1>1. Len(s) \in Nat
  BY SeqLength
<1> QED
  BY <1>1

\* Nothing is put at its end.
LEMMA SeqSame ==
  ASSUME NEW s, IsSeq(s)
  PROVE  s \o <<>> = s
BY DEF IsSeq

\* It is put at the end of nothing.
LEMMA SeqAfterNothing ==
  ASSUME NEW s, IsSeq(s)
  PROVE  <<>> \o s = s
BY DEF IsSeq

\* A sequence loses its first element.
LEMMA SeqShorter ==
  ASSUME NEW s, IsSeq(s), s # <<>>
  PROVE  /\ IsSeq(Tail(s))
         /\ Len(Tail(s)) = Len(s) - 1
         /\ \A k \in 1 .. Len(s) - 1 : Tail(s)[k] = s[k + 1]
         /\ Head(s) = s[1]
         /\ Len(s) \in Nat \ {0}
<1>1. PICK S : s \in Seq(S)
  BY DEF IsSeq
<1>2. Tail(s) \in Seq(S)
  BY <1>1
<1> QED
  BY <1>1, <1>2 DEF IsSeq

\* The places of the shorter sequence.
LEMMA SeqTailPlaces ==
  ASSUME NEW s, IsSeq(s), s # <<>>, NEW n, n = Tail(s)
  PROVE  /\ 1 \in 1 .. Len(s)
         /\ \A k \in 1 .. Len(n) : k + 1 \in 1 .. Len(s) /\ n[k] = s[k + 1] /\ k \in Nat /\ 1 < k + 1
         /\ \A k \in 1 .. Len(s) : k # 1 => k - 1 \in 1 .. Len(n) /\ n[k - 1] = s[k] /\ 1 < k
         /\ \A k, l \in 1 .. Len(n) : k < l => k + 1 < l + 1
<1>1. /\ Len(Tail(s)) = Len(s) - 1 /\ Len(s) \in Nat \ {0}
      /\ \A k \in 1 .. Len(s) - 1 : Tail(s)[k] = s[k + 1]
  BY SeqShorter
<1>2. \A k \in 1 .. Len(s) : k # 1 => k - 1 \in 1 .. Len(s) - 1 /\ (k - 1) + 1 = k /\ 1 < k
  BY <1>1
<1>3. \A k \in 1 .. Len(s) : k # 1 => Tail(s)[k - 1] = s[k]
  <2> TAKE k \in 1 .. Len(s)
  <2>1. PICK j : j = k - 1
    OBVIOUS
  <2> QED
    BY <1>1, <1>2, <2>1
<1> QED
  BY <1>1, <1>2, <1>3

----------------------------------------------------------------------------
(* Induction.                                                              *)

\* A set of numbers has a least one.
LEMMA LeastNumber ==
  ASSUME NEW T \in SUBSET Nat, T # {}
  PROVE  \E n \in T : \A m \in T : n <= m
<1> DEFINE R == OpToRel(<, Nat)
<1>1. IsWellFoundedOn(R, Nat)
  BY NatLessThanWellFounded
<1> HIDE DEF R
<1>2. \E x \in T : \A y \in T : ~(<<y, x>> \in R)
  BY <1>1, WFMin
<1>3. \A x, y \in Nat : x < y => <<x, y>> \in R
  BY DEF R, OpToRel
<1>4. PICK n \in T : \A m \in T : ~(<<m, n>> \in R)
  BY <1>2
<1>5. \A m \in T : ~(m < n)
  BY <1>3, <1>4
<1> QED
  BY <1>5

\* Induction: a set of numbers that has 0, and with a number the next, has them all.
LEMMA AllNumbers ==
  ASSUME NEW T \in SUBSET Nat, 0 \in T, \A n \in T : n + 1 \in T
  PROVE  T = Nat
<1>1. SUFFICES ASSUME Nat \ T # {} PROVE FALSE
  OBVIOUS
<1>2. PICK n \in Nat \ T : \A m \in Nat \ T : n <= m
  BY <1>1, LeastNumber
<1>3. n - 1 \in T
  BY <1>2
<1> QED
  BY <1>2, <1>3

\* Downwards: a number is in T when all greater ones up to n are.
LEMMA AllDownwards ==
  ASSUME NEW n \in Nat, NEW T, \A k \in 1 .. n : (\A j \in k + 1 .. n : j \in T) => k \in T
  PROVE  \A k \in 1 .. n : k \in T
<1> DEFINE U == {m \in Nat : m < n /\ n - m \notin T}
<1>1. SUFFICES ASSUME NEW k \in 1 .. n, k \notin T PROVE FALSE
  OBVIOUS
<1>2. n - k \in U /\ U \in SUBSET Nat
  BY <1>1
<1>3. PICK m \in U : \A l \in U : m <= l
  <2> HIDE DEF U
  <2> QED
    BY <1>2, LeastNumber
<1>4. n - m \in 1 .. n /\ n - m \notin T /\ m \in Nat
  BY <1>3
<1>5. ASSUME NEW j \in (n - m) + 1 .. n PROVE j \in T
  <2>1. n - j \in Nat /\ n - j < m /\ n - (n - j) = j /\ n - j < n
    BY <1>4
  <2>2. n - j \notin U
    <3> HIDE DEF U
    <3> QED
      BY <1>3, <1>4, <2>1
  <2> QED
    BY <2>1, <2>2
<1> QED
  BY <1>4, <1>5

\* Induction over the subsets of a finite set by their size.
LEMMA AllSubsets ==
  ASSUME NEW S, IsFiniteSet(S), NEW G \in SUBSET SUBSET S,
         \A s \in SUBSET S : (\A t \in SUBSET s : t # s => t \in G) => s \in G
  PROVE  G = SUBSET S
<1> DEFINE T == {n \in Nat : \A s \in SUBSET S : Cardinality(s) <= n => s \in G}
<1>1. \A s \in SUBSET S : IsFiniteSet(s) /\ Cardinality(s) \in Nat
  BY FS_Subset, FS_CardinalityType
<1>2. \A s \in SUBSET S : \A t \in SUBSET s : t # s => Cardinality(t) < Cardinality(s)
  BY <1>1, FS_Subset
<1>3. 0 \in T
  <2> SUFFICES ASSUME NEW s \in SUBSET S, Cardinality(s) <= 0 PROVE s \in G
    OBVIOUS
  <2>1. s = {}
    BY <1>1, FS_EmptySet
  <2> QED
    BY <2>1
<1>4. ASSUME NEW n \in T PROVE n + 1 \in T
  <2> SUFFICES ASSUME NEW s \in SUBSET S, Cardinality(s) <= n + 1 PROVE s \in G
    OBVIOUS
  <2>1. \A t \in SUBSET s : t # s => t \in SUBSET S /\ Cardinality(t) <= n
    BY <1>1, <1>2
  <2> QED
    BY <2>1
<1>5. T = Nat
  <2> HIDE DEF T
  <2>1. T \in SUBSET Nat
    BY DEF T
  <2> QED
    BY <1>3, <1>4, <2>1, AllNumbers
<1>6. \A s \in SUBSET S : s \in G
  BY <1>1, <1>5
<1> QED
  BY <1>6

\* Finitely many numbers have a bound.
LEMMA FiniteIsBounded ==
  ASSUME NEW S, IsFiniteSet(S), S \subseteq Nat
  PROVE  \E n \in Nat : \A x \in S : x <= n
<1> DEFINE G == {s \in SUBSET S : \E n \in Nat : \A x \in s : x <= n}
<1>1. ASSUME NEW s \in SUBSET S, \A t \in SUBSET s : t # s => t \in G
      PROVE  s \in G
  <2>1. CASE s = {}
    BY <2>1
  <2>2. CASE s # {}
    <3>1. PICK x \in s : TRUE
      BY <2>2
    <3>2. s \ {x} \in G /\ x \in Nat
      BY <1>1, <3>1
    <3>3. PICK n \in Nat : \A y \in s \ {x} : y <= n
      BY <3>2
    <3>4. \A y \in s : y \in Nat /\ y <= n + x
      <4> TAKE y \in s
      <4>1. y \in Nat /\ (y = x \/ y <= n)
        BY <3>3
      <4> QED
        BY <3>2, <4>1
    <3>5. n + x \in Nat
      BY <3>2
    <3> QED
      BY <3>4, <3>5
  <2> QED
    BY <2>1, <2>2
<1>2. G = SUBSET S
  <2> HIDE DEF G
  <2>1. G \in SUBSET SUBSET S
    BY DEF G
  <2> QED
    BY <1>1, <2>1, AllSubsets
<1> QED
  BY <1>2

----------------------------------------------------------------------------
(* Sums over finite sets.                                                  *)

Sum(v, S) == SumFunctionOnSet(v, S)

\* f has the sums of v over the subsets of S.
Chosen(s) == CHOOSE x \in s : TRUE
IsSums(f, v, S) ==
  /\ f[{}] = 0
  /\ \A s \in SUBSET S : s # {} => f[s] = v[Chosen(s)] + f[s \ {Chosen(s)}]

LEMMA ChosenIsIn == ASSUME NEW s, s # {} PROVE Chosen(s) \in s
BY DEF Chosen

\* The recursive definition has a solution.
LEMMA SumsExist ==
  ASSUME NEW S, IsFiniteSet(S), NEW v, \A x \in S : v[x] \in Int
  PROVE  \E f \in [SUBSET S -> Int] : IsSums(f, v, S)
<1> DEFINE Upto(n) == {s \in SUBSET S : Cardinality(s) <= n}
           Part(f, n) ==
             /\ f \in [Upto(n) -> Int]
             /\ f[{}] = 0
             /\ \A s \in Upto(n) : s # {} => f[s] = v[Chosen(s)] + f[s \ {Chosen(s)}]
           T == {n \in Nat : \E f : Part(f, n)}
<1>1. \A s \in SUBSET S : IsFiniteSet(s) /\ Cardinality(s) \in Nat
  BY FS_Subset, FS_CardinalityType
<1>2. \A s \in SUBSET S : s # {} => /\ Chosen(s) \in s /\ s \ {Chosen(s)} \in SUBSET S
                                    /\ Cardinality(s \ {Chosen(s)}) = Cardinality(s) - 1
  BY <1>1, ChosenIsIn, FS_RemoveElement
<1>3. \A s \in SUBSET S : Cardinality(s) = 0 <=> s = {}
  BY <1>1, FS_EmptySet
<1>4. 0 \in T
  <2>1. Part([s \in Upto(0) |-> 0], 0)
    BY <1>1, <1>3
  <2> QED
    BY <2>1
<1>5. ASSUME NEW n \in T PROVE n + 1 \in T
  <2>1. PICK f : Part(f, n)
    OBVIOUS
  <2> DEFINE g == [s \in Upto(n + 1) |-> IF s = {} THEN 0 ELSE v[Chosen(s)] + f[s \ {Chosen(s)}]]
  <2>2. \A s \in Upto(n + 1) : s # {} => s \ {Chosen(s)} \in Upto(n) /\ v[Chosen(s)] \in Int
    BY <1>1, <1>2
  <2>3. g \in [Upto(n + 1) -> Int]
    BY <2>1, <2>2
  <2>4. ASSUME NEW s \in Upto(n) PROVE g[s] = f[s]
    <3>1. s \in Upto(n + 1)
      BY <1>1
    <3>2. g[s] = IF s = {} THEN 0 ELSE v[Chosen(s)] + f[s \ {Chosen(s)}]
      BY <3>1
    <3> HIDE DEF g, Upto
    <3> QED
      BY <2>1, <3>2
  <2>5. g[{}] = 0
    BY <1>1, <1>3
  <2>6. Part(g, n + 1)
    <3> HIDE DEF Upto
    <3> QED
      BY <2>2, <2>3, <2>4, <2>5
  <2> HIDE DEF Part
  <2> QED
    BY <2>6
<1>6. T = Nat
  <2> HIDE DEF T
  <2>1. T \in SUBSET Nat
    BY DEF T
  <2> QED
    BY <1>4, <1>5, <2>1, AllNumbers
<1>7. Cardinality(S) \in T /\ Upto(Cardinality(S)) = SUBSET S
  BY <1>1, <1>6, FS_Subset
<1>8. PICK f : Part(f, Cardinality(S))
  BY <1>7
<1> QED
  BY <1>7, <1>8 DEF IsSums

\* It has only one.
LEMMA SumsAreUnique ==
  ASSUME NEW S, IsFiniteSet(S), NEW v, NEW f, NEW g, NEW U, IsSums(f, v, S), IsSums(g, v, U), S \subseteq U
  PROVE  \A s \in SUBSET S : f[s] = g[s]
<1> DEFINE G == {s \in SUBSET S : f[s] = g[s]}
<1>1. ASSUME NEW s \in SUBSET S, \A t \in SUBSET s : t # s => t \in G
      PROVE  s \in G
  <2>1. CASE s = {}
    BY <2>1 DEF IsSums
  <2>2. CASE s # {}
    <3>1. Chosen(s) \in s
      BY <2>2, ChosenIsIn
    <3>2. f[s \ {Chosen(s)}] = g[s \ {Chosen(s)}]
      BY <1>1, <3>1
    <3>3. s \in SUBSET U
      OBVIOUS
    <3> QED
      BY <2>2, <3>2, <3>3 DEF IsSums
  <2> QED
    BY <2>1, <2>2
<1>2. G = SUBSET S
  <2> HIDE DEF G
  <2>1. G \in SUBSET SUBSET S
    BY DEF G
  <2> QED
    BY <1>1, <2>1, AllSubsets
<1> QED
  BY <1>2

\* The operator of the library is this solution.
IsTable(f, v, S) ==
  /\ f \in [SUBSET S -> Int]
  /\ IsSums(f, v, S)
  /\ \A s \in SUBSET S : Sum(v, s) = f[s]

LEMMA SumIsSums ==
  ASSUME NEW S, IsFiniteSet(S), NEW v, \A x \in S : v[x] \in Int
  PROVE  \E f : IsTable(f, v, S)
<1>1. PICK f \in [SUBSET S -> Int] : IsSums(f, v, S)
  BY SumsExist
<1>2. ASSUME NEW s \in SUBSET S PROVE Sum(v, s) = f[s]
  <2> DEFINE F(h) == [r \in SUBSET s |-> IF r = {} THEN 0
                                         ELSE LET x == CHOOSE x \in r : TRUE IN v[x] + h[r \ {x}]]
             it == CHOOSE h : h = F(h)
             g == [r \in SUBSET s |-> f[r]]
  <2>1. g = F(g)
    <3>1. ASSUME NEW r \in SUBSET s, r # {} PROVE g[r] = v[Chosen(r)] + g[r \ {Chosen(r)}]
      <4>1. r \in SUBSET S /\ r \ {Chosen(r)} \in SUBSET s
        OBVIOUS
      <4> QED
        BY <1>1, <3>1, <4>1 DEF IsSums
    <3>2. g[{}] = 0
      BY <1>1 DEF IsSums
    <3> QED
      BY <3>1, <3>2 DEF Chosen
  <2>2. it = F(it)
    <3> HIDE DEF F
    <3> QED
      BY <2>1
  <2>3. Sum(v, s) = it[s]
    BY DEF Sum, SumFunctionOnSet, FoldFunctionOnSet, MapThenFoldSet
  <2> HIDE DEF it
  <2>4. IsSums(it, v, s)
    <3>1. it[{}] = F(it)[{}] /\ F(it)[{}] = 0
      BY <2>2
    <3>2. ASSUME NEW r \in SUBSET s, r # {} PROVE it[r] = v[Chosen(r)] + it[r \ {Chosen(r)}]
      <4>1. it[r] = F(it)[r]
        BY <2>2
      <4>2. F(it)[r] = v[Chosen(r)] + it[r \ {Chosen(r)}]
        BY <3>2 DEF Chosen
      <4> QED
        BY <4>1, <4>2
    <3> QED
      BY <3>1, <3>2 DEF IsSums
  <2>5. it[s] = f[s]
    BY <1>1, <2>4, FS_Subset, SumsAreUnique
  <2> QED
    BY <2>3, <2>5
<1> QED
  BY <1>1, <1>2 DEF IsTable

\* Of nothing.
LEMMA SumOfNone == ASSUME NEW v PROVE Sum(v, {}) = 0
<1>1. IsFiniteSet({}) /\ \A x \in {} : v[x] \in Int
  BY FS_EmptySet
<1>2. PICK f : IsTable(f, v, {})
  BY <1>1, SumIsSums
<1>3. {} \in SUBSET {}
  OBVIOUS
<1> QED
  BY <1>2, <1>3 DEF IsTable, IsSums

\* Any element may be taken first.
LEMMA SumOfOneMore ==
  ASSUME NEW S, IsFiniteSet(S), NEW v, \A x \in S : v[x] \in Int, NEW x \in S
  PROVE  /\ Sum(v, S) = v[x] + Sum(v, S \ {x})
         /\ Sum(v, S) \in Int /\ Sum(v, S \ {x}) \in Int
<1>1. PICK f : IsTable(f, v, S)
  BY SumIsSums
<1> DEFINE G == {s \in SUBSET S : \A y \in s : f[s] = v[y] + f[s \ {y}]}
<1>2. ASSUME NEW s \in SUBSET S, \A t \in SUBSET s : t # s => t \in G
      PROVE  s \in G
  <2> SUFFICES ASSUME NEW y \in s PROVE f[s] = v[y] + f[s \ {y}]
    OBVIOUS
  <2> DEFINE c == Chosen(s)
  <2>1. c \in s /\ f[s] = v[c] + f[s \ {c}]
    BY <1>1, ChosenIsIn DEF IsTable, IsSums
  <2> HIDE DEF c
  <2>2. CASE y = c
    BY <2>1, <2>2
  <2>3. CASE y # c
    <3>1. s \ {c} \in G /\ s \ {y} \in G
      BY <1>2, <2>1
    <3>2. f[s \ {c}] = v[y] + f[(s \ {c}) \ {y}]
      BY <2>3, <3>1
    <3>3. f[s \ {y}] = v[c] + f[(s \ {y}) \ {c}]
      BY <2>1, <2>3, <3>1
    <3>4. (s \ {c}) \ {y} = (s \ {y}) \ {c}
      OBVIOUS
    <3>5. v[y] \in Int /\ v[c] \in Int /\ f[(s \ {y}) \ {c}] \in Int
      BY <1>1, <2>1 DEF IsTable
    <3>6. PICK a \in Int, b \in Int, r \in Int :
            a = v[y] /\ b = v[c] /\ r = f[(s \ {y}) \ {c}]
      BY <3>5
    <3>7. b + (a + r) = a + (b + r)
      OBVIOUS
    <3> QED
      BY <2>1, <3>2, <3>3, <3>4, <3>6, <3>7
  <2> QED
    BY <2>2, <2>3
<1>3. G = SUBSET S
  <2> HIDE DEF G
  <2>1. G \in SUBSET SUBSET S
    BY DEF G
  <2> QED
    BY <1>2, <2>1, AllSubsets
<1>4. f[S] = v[x] + f[S \ {x}]
  BY <1>3
<1>5. S \ {x} \in SUBSET S /\ S \in SUBSET S
  OBVIOUS
<1> HIDE DEF G
<1> QED
  BY <1>1, <1>4, <1>5 DEF IsTable

\* Of any finite set.
LEMMA SumType ==
  ASSUME NEW S, IsFiniteSet(S), NEW v, \A x \in S : v[x] \in Int
  PROVE  Sum(v, S) \in Int
<1>1. PICK f : IsTable(f, v, S)
  BY SumIsSums
<1> QED
  BY <1>1 DEF IsTable

\* Equal terms have equal sums.
LEMMA SumOfSame ==
  ASSUME NEW S, IsFiniteSet(S), NEW v, NEW w, \A x \in S : v[x] \in Int /\ w[x] = v[x]
  PROVE  Sum(w, S) = Sum(v, S)
<1> DEFINE G == {s \in SUBSET S : Sum(w, s) = Sum(v, s)}
<1>1. ASSUME NEW s \in SUBSET S, \A t \in SUBSET s : t # s => t \in G
      PROVE  s \in G
  <2>1. CASE s = {}
    BY <2>1, SumOfNone
  <2>2. CASE s # {}
    <3>1. PICK x \in s : TRUE
      BY <2>2
    <3>2. s \ {x} \in G
      BY <1>1, <3>1
    <3>3. IsFiniteSet(s)
      BY FS_Subset
    <3>4. Sum(w, s) = w[x] + Sum(w, s \ {x}) /\ Sum(v, s) = v[x] + Sum(v, s \ {x})
      BY <3>3, SumOfOneMore
    <3> QED
      BY <3>2, <3>4
  <2> QED
    BY <2>1, <2>2
<1>2. G = SUBSET S
  <2> HIDE DEF G
  <2>1. G \in SUBSET SUBSET S
    BY DEF G
  <2> QED
    BY <1>1, <2>1, AllSubsets
<1> QED
  BY <1>2

\* Where some have the same and the others nothing.
LEMMA SumOfEqualShares ==
  ASSUME NEW S, IsFiniteSet(S), NEW A \in SUBSET S, NEW c \in Int,
         NEW v, \A x \in S : v[x] = IF x \in A THEN c ELSE 0
  PROVE  Sum(v, S) = Cardinality(A) * c
<1> DEFINE G == {s \in SUBSET S : Sum(v, s) = Cardinality(A \cap s) * c}
<1>1. ASSUME NEW s \in SUBSET S, \A t \in SUBSET s : t # s => t \in G
      PROVE  s \in G
  <2>1. CASE s = {}
    BY <2>1, SumOfNone, FS_EmptySet
  <2>2. CASE s # {}
    <3>1. PICK x \in s : TRUE
      BY <2>2
    <3>2. Sum(v, s \ {x}) = Cardinality(A \cap (s \ {x})) * c
      BY <1>1, <3>1
    <3>3. IsFiniteSet(s) /\ IsFiniteSet(A \cap s) /\ \A y \in s : v[y] \in Int
      BY FS_Subset
    <3>4. Sum(v, s) = v[x] + Sum(v, s \ {x})
      BY <3>3, SumOfOneMore
    <3>5. CASE x \in A
      <4>1. A \cap (s \ {x}) = (A \cap s) \ {x} /\ x \in A \cap s /\ v[x] = c
        BY <3>5
      <4>2. Cardinality((A \cap s) \ {x}) = Cardinality(A \cap s) - 1 /\ Cardinality(A \cap s) \in Nat
        BY <3>3, <4>1, FS_RemoveElement, FS_CardinalityType
      <4>3. PICK n \in Nat : n = Cardinality(A \cap s)
        BY <4>2
      <4>4. c + (n - 1) * c = n * c
        OBVIOUS
      <4> QED
        BY <3>2, <3>4, <4>1, <4>2, <4>3, <4>4
    <3>6. CASE x \notin A
      <4>1. A \cap (s \ {x}) = A \cap s /\ v[x] = 0
        BY <3>6
      <4>2. PICK n \in Nat : n = Cardinality(A \cap s)
        BY <3>3, FS_CardinalityType
      <4>3. 0 + n * c = n * c
        OBVIOUS
      <4> QED
        BY <3>2, <3>4, <4>1, <4>2, <4>3
    <3> QED
      BY <3>5, <3>6
  <2> QED
    BY <2>1, <2>2
<1>2. G = SUBSET S
  <2> HIDE DEF G
  <2>1. G \in SUBSET SUBSET S
    BY DEF G
  <2> QED
    BY <1>1, <2>1, AllSubsets
<1>3. A \cap S = A
  OBVIOUS
<1> QED
  BY <1>2, <1>3

----------------------------------------------------------------------------
(* Pieces, one after the other.                                            *)

IsPieces(seqs, n) ==
  /\ n \in Nat
  /\ seqs = [i \in 1 .. n |-> seqs[i]]
  /\ \A i \in 1 .. n : IsSeq(seqs[i])

\* The sum of the terms before the i-th.
SumBefore(v, i) == Sum(v, 1 .. i - 1)

LEMMA SumBeforeNext ==
  ASSUME NEW v, NEW n \in Nat, \A i \in 1 .. n : v[i] \in Nat
  PROVE  /\ SumBefore(v, 1) = 0
         /\ \A i \in 1 .. n : SumBefore(v, i + 1) = SumBefore(v, i) + v[i]
         /\ \A i \in 1 .. n + 1 : SumBefore(v, i) \in Nat
<1>1. SumBefore(v, 1) = 0
  <2>1. 1 .. 1 - 1 = {}
    OBVIOUS
  <2> QED
    BY <2>1, SumOfNone DEF SumBefore
<1>2. ASSUME NEW i \in 1 .. n
      PROVE  SumBefore(v, i + 1) = SumBefore(v, i) + v[i] /\ SumBefore(v, i) \in Int
  <2>1. i \in Nat /\ (1 .. i) \ {i} = 1 .. i - 1 /\ (i + 1) - 1 = i /\ i \in 1 .. i
    OBVIOUS
  <2>2. IsFiniteSet(1 .. i)
    BY <2>1, FS_Interval
  <2>3. \A j \in 1 .. i : v[j] \in Int
    BY <2>1
  <2>4. /\ Sum(v, 1 .. i) = v[i] + Sum(v, (1 .. i) \ {i})
        /\ Sum(v, 1 .. i) \in Int /\ Sum(v, (1 .. i) \ {i}) \in Int
    BY <2>1, <2>2, <2>3, SumOfOneMore
  <2>5. SumBefore(v, i + 1) = Sum(v, 1 .. i) /\ SumBefore(v, i) = Sum(v, 1 .. i - 1)
    BY <2>1 DEF SumBefore
  <2>6. PICK a \in Nat, b \in Int : a = v[i] /\ b = SumBefore(v, i)
    BY <2>1, <2>4, <2>5
  <2>7. SumBefore(v, i + 1) = a + b
    BY <2>1, <2>4, <2>5, <2>6
  <2> QED
    BY <2>6, <2>7
<1>3. \A i \in 1 .. n + 1 : SumBefore(v, i) \in Nat
  <2> DEFINE T == {m \in Nat : m <= n => SumBefore(v, m + 1) \in Nat}
  <2>1. 0 \in T
    BY <1>1
  <2>2. ASSUME NEW m \in T PROVE m + 1 \in T
    <3>1. CASE m + 1 <= n
      <4>1. m + 1 \in 1 .. n /\ m <= n
        BY <3>1
      <4>2. SumBefore(v, m + 1) \in Nat /\ v[m + 1] \in Nat
        BY <4>1
      <4>3. SumBefore(v, (m + 1) + 1) = SumBefore(v, m + 1) + v[m + 1]
        BY <1>2, <4>1
      <4> QED
        BY <4>2, <4>3
    <3>2. CASE ~(m + 1 <= n)
      BY <3>2
    <3> QED
      BY <3>1, <3>2
  <2>3. T = Nat
    <3> HIDE DEF T
    <3>1. T \in SUBSET Nat
      BY DEF T
    <3> QED
      BY <2>1, <2>2, <3>1, AllNumbers
  <2>4. ASSUME NEW i \in 1 .. n + 1 PROVE SumBefore(v, i) \in Nat
    <3>1. i - 1 \in Nat /\ i - 1 <= n /\ (i - 1) + 1 = i
      OBVIOUS
    <3>2. i - 1 \in T
      BY <2>3, <3>1
    <3> QED
      BY <3>1, <3>2
  <2> QED
    BY <2>4
<1> QED
  BY <1>1, <1>2, <1>3

\* Later terms come after earlier ones.
LEMMA SumBeforeGrows ==
  ASSUME NEW v, NEW n \in Nat, \A i \in 1 .. n : v[i] \in Nat,
         NEW i \in 1 .. n, NEW j \in 1 .. n + 1, i < j
  PROVE  SumBefore(v, i) + v[i] <= SumBefore(v, j)
<1> DEFINE T == {m \in Nat : i + 1 + m <= n + 1 => SumBefore(v, i + 1) <= SumBefore(v, i + 1 + m)}
<1>1. i \in Nat /\ j \in Nat /\ n \in Nat
  OBVIOUS
<1>2. 0 \in T
  <2>1. i + 1 + 0 = i + 1 /\ i + 1 \in 1 .. n + 1
    BY <1>1
  <2>2. SumBefore(v, i + 1) \in Nat
    BY <2>1, SumBeforeNext
  <2> QED
    BY <2>1, <2>2
<1>3. ASSUME NEW m \in T PROVE m + 1 \in T
  <2> SUFFICES ASSUME i + 1 + (m + 1) <= n + 1
               PROVE  SumBefore(v, i + 1) <= SumBefore(v, i + 1 + (m + 1))
    OBVIOUS
  <2>1. PICK k \in Nat : k = i + 1 + m
    BY <1>1
  <2>2. k \in 1 .. n /\ k + 1 = i + 1 + (m + 1) /\ k + 1 \in 1 .. n + 1 /\ i + 1 \in 1 .. n + 1
    BY <1>1, <2>1
  <2>3. SumBefore(v, i + 1) <= SumBefore(v, k)
    BY <1>1, <2>1, <2>2
  <2>4. SumBefore(v, k + 1) = SumBefore(v, k) + v[k] /\ v[k] \in Nat
    BY <2>2, SumBeforeNext
  <2>5. SumBefore(v, i + 1) \in Nat /\ SumBefore(v, k) \in Nat
    BY <1>1, <2>2, SumBeforeNext
  <2> QED
    BY <2>2, <2>3, <2>4, <2>5
<1>4. T = Nat
  <2> HIDE DEF T
  <2>1. T \in SUBSET Nat
    BY DEF T
  <2> QED
    BY <1>2, <1>3, <2>1, AllNumbers
<1>5. PICK m \in Nat : i + 1 + m = j
  <2>1. j - (i + 1) \in Nat /\ i + 1 + (j - (i + 1)) = j
    BY <1>1
  <2> QED
    BY <2>1
<1>6. SumBefore(v, i + 1) <= SumBefore(v, j)
  <2>1. m \in T
    BY <1>4
  <2> QED
    BY <1>1, <1>5, <2>1
<1>7. SumBefore(v, i + 1) = SumBefore(v, i) + v[i]
  BY SumBeforeNext
<1> QED
  BY <1>6, <1>7

\* The number of cells before the i-th piece.
Lens(seqs) == [i \in DOMAIN seqs |-> Len(seqs[i])]
Before(seqs, i) == SumBefore(Lens(seqs), i)

LEMMA BeforeNext ==
  ASSUME NEW seqs, NEW n, IsPieces(seqs, n)
  PROVE  /\ Before(seqs, 1) = 0
         /\ \A i \in 1 .. n : /\ Before(seqs, i + 1) = Before(seqs, i) + Len(seqs[i])
                              /\ Len(seqs[i]) \in Nat
         /\ \A i \in 1 .. n + 1 : Before(seqs, i) \in Nat
<1>1. n \in Nat /\ \A i \in 1 .. n : Lens(seqs)[i] = Len(seqs[i]) /\ Len(seqs[i]) \in Nat
  BY SeqLength DEF IsPieces, Lens
<1> QED
  BY <1>1, SumBeforeNext DEF Before

\* Later pieces begin later.
LEMMA BeforeGrows ==
  ASSUME NEW seqs, NEW n, IsPieces(seqs, n), NEW i \in 1 .. n, NEW j \in 1 .. n + 1, i < j
  PROVE  Before(seqs, i) + Len(seqs[i]) <= Before(seqs, j)
<1>1. n \in Nat /\ \A k \in 1 .. n : Lens(seqs)[k] = Len(seqs[k]) /\ Len(seqs[k]) \in Nat
  BY SeqLength DEF IsPieces, Lens
<1>2. SumBefore(Lens(seqs), i) + Lens(seqs)[i] <= SumBefore(Lens(seqs), j)
  BY <1>1, SumBeforeGrows
<1> QED
  BY <1>1, <1>2 DEF Before

\* Every place is in a piece.
InSomePiece(seqs, n, m) ==
  \E i \in 1 .. n : \E k \in 1 .. Len(seqs[i]) : m = Before(seqs, i) + k

LEMMA PieceAt ==
  ASSUME NEW seqs, NEW n, IsPieces(seqs, n), NEW m \in 1 .. Before(seqs, n + 1)
  PROVE  InSomePiece(seqs, n, m)
<1> DEFINE T == {j \in 1 .. n + 1 : m <= Before(seqs, j)}
<1>1. n \in Nat /\ n + 1 \in 1 .. n + 1
  BY DEF IsPieces
<1>2. Before(seqs, n + 1) \in Nat
  BY <1>1, BeforeNext
<1>3. T \in SUBSET Nat /\ n + 1 \in T
  BY <1>1, <1>2
<1>4. PICK j \in T : \A l \in T : j <= l
  <2> HIDE DEF T
  <2> QED
    BY <1>3, LeastNumber
<1>5. j # 1
  BY <1>2, BeforeNext
<1>6. PICK i \in 1 .. n : j = i + 1
  <2>1. j - 1 \in 1 .. n /\ j = (j - 1) + 1
    BY <1>1, <1>5
  <2> QED
    BY <2>1
<1>7. i \in 1 .. n + 1 /\ i \notin T
  BY <1>1, <1>4, <1>6
<1>8. /\ Before(seqs, j) = Before(seqs, i) + Len(seqs[i]) /\ Len(seqs[i]) \in Nat
      /\ Before(seqs, i) \in Nat
  BY <1>6, <1>7, BeforeNext
<1>9. Before(seqs, i) < m /\ m <= Before(seqs, j)
  BY <1>2, <1>7, <1>8
<1>10. m - Before(seqs, i) \in 1 .. Len(seqs[i]) /\ m = Before(seqs, i) + (m - Before(seqs, i))
  BY <1>2, <1>8, <1>9
<1> QED
  BY <1>10 DEF InSomePiece

\* What FlattenSeq makes of them.
IsFlat(f, seqs, n) ==
  f = [i \in 1 .. n |-> IF i = 1 THEN seqs[i] ELSE f[i - 1] \o seqs[i]]

LEMMA FlatExists ==
  ASSUME NEW seqs, NEW n \in Nat
  PROVE  \E f : IsFlat(f, seqs, n)
<1> DEFINE T == {m \in Nat : \E f : IsFlat(f, seqs, m)}
<1>1. 0 \in T
  <2>1. IsFlat([i \in 1 .. 0 |-> 0], seqs, 0)
    BY DEF IsFlat
  <2> QED
    BY <2>1
<1>2. ASSUME NEW m \in T PROVE m + 1 \in T
  <2>1. PICK f : IsFlat(f, seqs, m)
    OBVIOUS
  <2> DEFINE g == [i \in 1 .. m + 1 |-> IF i = 1 THEN seqs[i] ELSE f[i - 1] \o seqs[i]]
  <2>2. ASSUME NEW i \in 1 .. m PROVE g[i] = f[i]
    <3>1. f[i] = IF i = 1 THEN seqs[i] ELSE f[i - 1] \o seqs[i]
      BY <2>1 DEF IsFlat
    <3>2. i \in 1 .. m + 1
      OBVIOUS
    <3> QED
      BY <3>1, <3>2
  <2>3. \A i \in 1 .. m + 1 : i # 1 => i - 1 \in 1 .. m
    OBVIOUS
  <2>4. IsFlat(g, seqs, m + 1)
    BY <2>2, <2>3 DEF IsFlat
  <2>5. m + 1 \in Nat
    OBVIOUS
  <2> HIDE DEF g
  <2> QED
    BY <2>4, <2>5
<1>3. T = Nat
  <2> HIDE DEF T
  <2>1. T \in SUBSET Nat
    BY DEF T
  <2> QED
    BY <1>1, <1>2, <2>1, AllNumbers
<1> QED
  BY <1>3

\* Two sequences, one after the other.
LEMMA SeqConcat ==
  ASSUME NEW s, IsSeq(s), NEW t, IsSeq(t)
  PROVE  /\ IsSeq(s \o t)
         /\ Len(s \o t) = Len(s) + Len(t)
         /\ \A k \in 1 .. Len(s) : (s \o t)[k] = s[k]
         /\ \A k \in 1 .. Len(t) : (s \o t)[Len(s) + k] = t[k]
<1>1. PICK S : s \in Seq(S)
  BY DEF IsSeq
<1>2. PICK T : t \in Seq(T)
  BY DEF IsSeq
<1>3. s \in Seq(S \cup T) /\ t \in Seq(S \cup T)
  BY <1>1, <1>2
<1>4. s \o t \in Seq(S \cup T)
  BY <1>3
<1> QED
  BY <1>3, <1>4 DEF IsSeq

\* The pieces are found where they begin.
LEMMA FlattenIs ==
  ASSUME NEW seqs, NEW n, IsPieces(seqs, n)
  PROVE  /\ IsSeq(FlattenSeq(seqs))
         /\ Len(FlattenSeq(seqs)) = Before(seqs, n + 1)
         /\ \A i \in 1 .. n : \A k \in 1 .. Len(seqs[i]) :
              FlattenSeq(seqs)[Before(seqs, i) + k] = seqs[i][k]
<1>1. n \in Nat /\ Len(seqs) = n
  BY DEF IsPieces
<1>2. CASE n = 0
  <2>1. FlattenSeq(seqs) = seqs /\ seqs = <<>>
    BY <1>1, <1>2 DEF FlattenSeq, IsPieces
  <2>2. Before(seqs, n + 1) = 0
    BY <1>2, BeforeNext
  <2> QED
    BY <1>2, <2>1, <2>2 DEF IsSeq
<1>3. CASE n # 0
  <2>1. PICK f : IsFlat(f, seqs, n) /\ FlattenSeq(seqs) = f[n]
    <3> DEFINE F(h) == [i \in 1 .. n |-> IF i = 1 THEN seqs[i] ELSE h[i - 1] \o seqs[i]]
               it == CHOOSE h : h = F(h)
    <3>1. PICK h : h = F(h)
      BY <1>1, FlatExists DEF IsFlat
    <3>2. it = F(it)
      <4> HIDE DEF F
      <4> QED
        BY <3>1
    <3>3. FlattenSeq(seqs) = it[n]
      BY <1>1, <1>3 DEF FlattenSeq
    <3>4. IsFlat(it, seqs, n)
      <4> HIDE DEF it
      <4> QED
        BY <3>2 DEF IsFlat
    <3> HIDE DEF it
    <3> QED
      BY <3>3, <3>4
  <2> DEFINE Right(j) ==
               /\ IsSeq(f[j]) /\ Len(f[j]) = Before(seqs, j + 1)
               /\ \A i \in 1 .. j : \A k \in 1 .. Len(seqs[i]) :
                    f[j][Before(seqs, i) + k] = seqs[i][k]
             T == {m \in Nat : m + 1 <= n => Right(m + 1)}
  <2>2. 0 \in T
    <3>1. f[1] = seqs[1] /\ 1 \in 1 .. n
      BY <1>1, <1>3, <2>1 DEF IsFlat
    <3>2. IsSeq(seqs[1]) /\ Before(seqs, 1) = 0 /\ Before(seqs, 1 + 1) = Before(seqs, 1) + Len(seqs[1])
          /\ Len(seqs[1]) \in Nat
      BY <3>1, BeforeNext DEF IsPieces
    <3> QED
      BY <3>1, <3>2
  <2>3. ASSUME NEW m \in T PROVE m + 1 \in T
    <3> SUFFICES ASSUME (m + 1) + 1 <= n PROVE Right((m + 1) + 1)
      OBVIOUS
    <3>1. PICK j \in Nat : j = m + 1
      OBVIOUS
    <3>2. j \in 1 .. n /\ j + 1 \in 1 .. n /\ Right(j)
      BY <1>1, <3>1
    <3> HIDE DEF T
    <3>3. f[j + 1] = f[j] \o seqs[j + 1] /\ IsSeq(seqs[j + 1])
      <4>1. j + 1 # 1 /\ (j + 1) - 1 = j
        BY <3>2
      <4>2. \A i \in 1 .. n : f[i] = IF i = 1 THEN seqs[i] ELSE f[i - 1] \o seqs[i]
        BY <2>1 DEF IsFlat
      <4>3. f[j + 1] = f[(j + 1) - 1] \o seqs[j + 1]
        BY <3>2, <4>1, <4>2
      <4> QED
        BY <3>2, <4>1, <4>3 DEF IsPieces
    <3>4. /\ Before(seqs, (j + 1) + 1) = Before(seqs, j + 1) + Len(seqs[j + 1])
          /\ Len(seqs[j + 1]) \in Nat
      BY <3>2, BeforeNext
    <3>5. /\ IsSeq(f[j + 1])
          /\ Len(f[j + 1]) = Len(f[j]) + Len(seqs[j + 1])
          /\ \A k \in 1 .. Len(f[j]) : f[j + 1][k] = f[j][k]
          /\ \A k \in 1 .. Len(seqs[j + 1]) : f[j + 1][Len(f[j]) + k] = seqs[j + 1][k]
      <4>1. PICK s, t : s = f[j] /\ t = seqs[j + 1]
        OBVIOUS
      <4>2. IsSeq(s) /\ IsSeq(t)
        BY <3>2, <3>3, <4>1
      <4>3. /\ IsSeq(s \o t)
            /\ Len(s \o t) = Len(s) + Len(t)
            /\ \A k \in 1 .. Len(s) : (s \o t)[k] = s[k]
            /\ \A k \in 1 .. Len(t) : (s \o t)[Len(s) + k] = t[k]
        BY <4>2, SeqConcat
      <4> QED
        BY <3>3, <4>1, <4>3
    <3>6. ASSUME NEW i \in 1 .. j, NEW k \in 1 .. Len(seqs[i])
          PROVE  f[j + 1][Before(seqs, i) + k] = seqs[i][k]
      <4>1. i \in 1 .. n /\ j + 1 \in 1 .. n + 1 /\ i < j + 1
        <5> HIDE DEF Right
        <5> QED
          BY <1>1, <3>2
      <4>2. Before(seqs, i) + Len(seqs[i]) <= Before(seqs, j + 1)
        BY <4>1, BeforeGrows
      <4>3. Before(seqs, i) \in Nat /\ Len(seqs[i]) \in Nat /\ Before(seqs, j + 1) \in Nat
        <5>1. i \in 1 .. n + 1
          BY <1>1, <4>1
        <5> QED
          BY <4>1, <5>1, BeforeNext
      <4>4. Before(seqs, i) + k \in 1 .. Len(f[j])
        BY <3>2, <4>2, <4>3
      <4> QED
        BY <3>2, <3>5, <4>4
    <3>7. ASSUME NEW i \in 1 .. j + 1, NEW k \in 1 .. Len(seqs[i])
          PROVE  f[j + 1][Before(seqs, i) + k] = seqs[i][k]
      <4>1. i \in 1 .. j \/ i = j + 1
        OBVIOUS
      <4> QED
        BY <3>2, <3>5, <3>6, <4>1
    <3> QED
      BY <3>1, <3>2, <3>4, <3>5, <3>7
  <2>4. T = Nat
    <3> HIDE DEF T
    <3>1. T \in SUBSET Nat
      BY DEF T
    <3> QED
      BY <2>2, <2>3, <3>1, AllNumbers
  <2>5. n - 1 \in T /\ (n - 1) + 1 = n
    <3> HIDE DEF T
    <3>1. n - 1 \in Nat /\ (n - 1) + 1 = n
      BY <1>1, <1>3
    <3> QED
      BY <2>4, <3>1
  <2>6. Right(n)
    BY <1>1, <2>5
  <2> QED
    BY <2>1, <2>6
<1> QED
  BY <1>2, <1>3

\* f is made of the pieces.
Joins(f, seqs, n) ==
  /\ IsSeq(f) /\ Len(f) = Before(seqs, n + 1)
  /\ \A i \in 1 .. n : \A k \in 1 .. Len(seqs[i]) : f[Before(seqs, i) + k] = seqs[i][k]

LEMMA FlattenJoins ==
  ASSUME NEW seqs, NEW n, IsPieces(seqs, n)
  PROVE  Joins(FlattenSeq(seqs), seqs, n)
BY FlattenIs DEF Joins

----------------------------------------------------------------------------
(* Ranks.                                                                  *)

\* R orders the elements of S, of which p lists all in this order.
IsOrderOf(R, S) ==
  /\ \A x \in S : <<x, x>> \in R
  /\ \A x, y \in S : <<x, y>> \in R \/ <<y, x>> \in R
  /\ \A x, y \in S : <<x, y>> \in R /\ <<y, x>> \in R => x = y
  /\ \A x, y, z \in S : <<x, y>> \in R /\ <<y, z>> \in R => <<x, z>> \in R

Upto(R, S, x) == {y \in S : <<y, x>> \in R}

Lists(p, R, S) ==
  /\ p \in [1 .. Cardinality(S) -> S]
  /\ \A x \in S : \E r \in 1 .. Cardinality(S) : p[r] = x
  /\ \A a, b \in 1 .. Cardinality(S) : a < b => p[a] # p[b] /\ <<p[a], p[b]>> \in R

\* The number of elements up to an element is its place in the list.
Ranked(R, S) ==
  /\ Cardinality(S) \in Nat
  /\ \A x \in S : Cardinality(Upto(R, S, x)) \in 1 .. Cardinality(S)
  /\ \A x, y \in S : x # y /\ <<x, y>> \in R =>
       Cardinality(Upto(R, S, x)) < Cardinality(Upto(R, S, y))
  /\ \A r \in 1 .. Cardinality(S) : \E x \in S : Cardinality(Upto(R, S, x)) = r

LEMMA RanksAre ==
  ASSUME NEW S, IsFiniteSet(S), NEW R, IsOrderOf(R, S)
  PROVE  Ranked(R, S)
<1>1. Cardinality(S) \in Nat
  BY FS_CardinalityType
<1>2. ASSUME NEW x \in S
      PROVE  IsFiniteSet(Upto(R, S, x)) /\ Cardinality(Upto(R, S, x)) \in 1 .. Cardinality(S)
  <2>1. Upto(R, S, x) \in SUBSET S /\ x \in Upto(R, S, x)
    BY DEF Upto, IsOrderOf
  <2>2. IsFiniteSet(Upto(R, S, x)) /\ Cardinality(Upto(R, S, x)) <= Cardinality(S)
    BY <2>1, FS_Subset
  <2>3. Cardinality(Upto(R, S, x)) \in Nat /\ Cardinality(Upto(R, S, x)) # 0
    BY <2>1, <2>2, FS_CardinalityType, FS_EmptySet
  <2> QED
    BY <1>1, <2>2, <2>3
<1>3. ASSUME NEW x \in S, NEW y \in S, x # y, <<x, y>> \in R
      PROVE  Cardinality(Upto(R, S, x)) < Cardinality(Upto(R, S, y))
  <2>1. Upto(R, S, x) \in SUBSET Upto(R, S, y)
    BY <1>3 DEF Upto, IsOrderOf
  <2>2. y \in Upto(R, S, y) /\ y \notin Upto(R, S, x)
    BY <1>3 DEF Upto, IsOrderOf
  <2>3. /\ Cardinality(Upto(R, S, x)) <= Cardinality(Upto(R, S, y))
        /\ Cardinality(Upto(R, S, x)) # Cardinality(Upto(R, S, y))
    <3>1. IsFiniteSet(Upto(R, S, y))
      BY <1>2
    <3> QED
      BY <2>1, <2>2, <3>1, FS_Subset
  <2>4. Cardinality(Upto(R, S, x)) \in Nat /\ Cardinality(Upto(R, S, y)) \in Nat
    <3>1. Cardinality(Upto(R, S, x)) \in 1 .. Cardinality(S) /\ Cardinality(Upto(R, S, y)) \in 1 .. Cardinality(S)
      BY <1>2
    <3> QED
      BY <1>1, <3>1
  <2> QED
    BY <2>3, <2>4
<1>4. ASSUME NEW r \in 1 .. Cardinality(S)
      PROVE  \E x \in S : Cardinality(Upto(R, S, x)) = r
  <2> DEFINE f == [x \in S |-> Cardinality(Upto(R, S, x))]
  <2>1. f \in [S -> 1 .. Cardinality(S)]
    BY <1>2
  <2>2. \A x, y \in S : f[x] = f[y] => x = y
    <3> SUFFICES ASSUME NEW x \in S, NEW y \in S, f[x] = f[y], x # y PROVE FALSE
      OBVIOUS
    <3>1. f[x] < f[y] \/ f[y] < f[x]
      BY <1>3 DEF IsOrderOf
    <3>2. f[x] \in Nat /\ f[y] \in Nat
      <4>1. f[x] \in 1 .. Cardinality(S) /\ f[y] \in 1 .. Cardinality(S)
        BY <2>1
      <4> QED
        BY <1>1, <4>1
    <3> HIDE DEF f
    <3> QED
      BY <3>1, <3>2
  <2>3. f \in Injection(S, 1 .. Cardinality(S))
    <3> HIDE DEF f
    <3> QED
      BY <2>1, <2>2 DEF Injection, IsInjective
  <2>4. IsFiniteSet(1 .. Cardinality(S)) /\ Cardinality(1 .. Cardinality(S)) = Cardinality(S)
    <3>1. Cardinality(1 .. Cardinality(S)) = IF 1 > Cardinality(S) THEN 0 ELSE Cardinality(S) - 1 + 1
      BY <1>1, FS_Interval
    <3> QED
      BY <1>1, <3>1, FS_Interval
  <2>5. f \in Surjection(S, 1 .. Cardinality(S))
    <3> HIDE DEF f
    <3> QED
      BY <2>3, <2>4, FS_Injection
  <2>6. \E x \in S : f[x] = r
    <3> HIDE DEF f
    <3> QED
      BY <2>5 DEF Surjection
  <2> QED
    BY <2>6
<1> QED
  BY <1>1, <1>2, <1>3, <1>4 DEF Ranked

Enumerates(p, rank, R, S) ==
  /\ Lists(p, R, S)
  /\ \A s : ByRank(s, rank) = [r \in 1 .. Cardinality(S) |-> s[p[r]]]

LEMMA ByRankIs ==
  ASSUME NEW S, IsFiniteSet(S), NEW R, IsOrderOf(R, S), NEW rank,
         rank = [x \in S |-> Cardinality(Upto(R, S, x))]
  PROVE  \E p : Enumerates(p, rank, R, S)
<1> DEFINE n == Cardinality(S)
           p == [r \in 1 .. n |-> CHOOSE x \in S : rank[x] = r]
<1>1. Ranked(R, S) /\ DOMAIN rank = S /\ \A x \in S : rank[x] = Cardinality(Upto(R, S, x))
  BY RanksAre
<1>2. \A r \in 1 .. n : p[r] \in S /\ rank[p[r]] = r
  <2>1. \A r \in 1 .. n : \E x \in S : rank[x] = r
    BY <1>1 DEF Ranked
  <2> QED
    BY <2>1
<1>3. p \in [1 .. n -> S]
  BY <1>2
<1>4. \A s : ByRank(s, rank) = [r \in 1 .. n |-> s[p[r]]]
  BY <1>1 DEF ByRank
<1> HIDE DEF p
<1>5. ASSUME NEW x \in S PROVE \E r \in 1 .. n : p[r] = x
  <2>1. PICK r \in 1 .. n : r = Cardinality(Upto(R, S, x))
    BY <1>1 DEF Ranked
  <2>2. p[r] \in S /\ Cardinality(Upto(R, S, p[r])) = r
    BY <1>1, <1>2
  <2>3. r \in Nat /\ ~(r < r)
    BY <1>1 DEF Ranked
  <2>4. p[r] = x
    BY <1>1, <2>1, <2>2, <2>3 DEF IsOrderOf, Ranked
  <2> QED
    BY <2>4
<1>6. ASSUME NEW a \in 1 .. n, NEW b \in 1 .. n, a < b
      PROVE  p[a] # p[b] /\ <<p[a], p[b]>> \in R
  <2>1. /\ p[a] \in S /\ Cardinality(Upto(R, S, p[a])) = a
        /\ p[b] \in S /\ Cardinality(Upto(R, S, p[b])) = b
    BY <1>1, <1>2
  <2>2. a \in Nat /\ b \in Nat /\ a # b /\ ~(b < a)
    BY <1>1, <1>6 DEF Ranked
  <2>3. p[a] # p[b]
    BY <2>1, <2>2
  <2>4. ~(<<p[b], p[a]>> \in R)
    BY <1>1, <2>1, <2>2, <2>3 DEF Ranked
  <2> QED
    BY <2>1, <2>3, <2>4 DEF IsOrderOf
<1>7. Lists(p, R, S)
  BY <1>3, <1>5, <1>6 DEF Lists
<1> QED
  BY <1>4, <1>7 DEF Enumerates

\* AtPlaces takes the entries at these places, in ascending order.
Ascends(p, places) ==
  /\ p \in [1 .. Cardinality(places) -> places]
  /\ \A x \in places : \E r \in 1 .. Cardinality(places) : p[r] = x
  /\ \A a, b \in 1 .. Cardinality(places) : a < b => p[a] < p[b]

Picks(p, s, places) ==
  /\ Ascends(p, places)
  /\ AtPlaces(s, places) = [r \in 1 .. Cardinality(places) |-> s[p[r]]]

LEMMA AtPlacesIs ==
  ASSUME NEW s, NEW places, IsFiniteSet(places), places \subseteq Int
  PROVE  \E p : Picks(p, s, places)
<1> DEFINE R == {e \in places \X places : e[1] <= e[2]}
           rank == [x \in places |-> Cardinality({y \in places : y <= x})]
           n == Cardinality(places)
<1>1. IsOrderOf(R, places)
  BY DEF IsOrderOf
<1>2. rank = [x \in places |-> Cardinality(Upto(R, places, x))]
  <2>1. \A x \in places : Upto(R, places, x) = {y \in places : y <= x}
    BY DEF Upto
  <2> QED
    BY <2>1
<1>3. AtPlaces(s, places) = ByRank(s, rank)
  BY DEF AtPlaces
<1>4. \A x, y \in places : <<x, y>> \in R => x <= y
  OBVIOUS
<1> HIDE DEF R, rank
<1>5. PICK p : Lists(p, R, places) /\ ByRank(s, rank) = [r \in 1 .. n |-> s[p[r]]]
  <2>1. PICK p : Enumerates(p, rank, R, places)
    BY <1>1, <1>2, ByRankIs
  <2> QED
    BY <2>1 DEF Enumerates
<1>6. Ascends(p, places)
  <2>1. ASSUME NEW a \in 1 .. n, NEW b \in 1 .. n, a < b PROVE p[a] < p[b]
    <3>1. p[a] # p[b] /\ <<p[a], p[b]>> \in R /\ p[a] \in places /\ p[b] \in places
      BY <1>5, <2>1 DEF Lists
    <3>2. p[a] \in Int /\ p[b] \in Int /\ p[a] <= p[b]
      BY <1>4, <3>1
    <3> QED
      BY <3>1, <3>2
  <2> QED
    BY <1>5, <2>1 DEF Lists, Ascends
<1> QED
  BY <1>3, <1>5, <1>6 DEF Picks

\* Entries at some places make a list, each once if each was there once.
LEMMA PlacesHave ==
  ASSUME NEW s, IsSeq(s), NEW places, places \subseteq DOMAIN s
  PROVE  /\ IsSeq(AtPlaces(s, places))
         /\ ToSet(AtPlaces(s, places)) = {s[x] : x \in places}
         /\ (\A x, y \in places : s[x] = s[y] => x = y) => IsInjective(AtPlaces(s, places))
<1> DEFINE n == Cardinality(places)
           t == AtPlaces(s, places)
<1>1. IsFiniteSet(places) /\ places \subseteq Int /\ n \in Nat
  <2>1. DOMAIN s = 1 .. Len(s) /\ Len(s) \in Nat
    BY SeqDomain
  <2>2. IsFiniteSet(1 .. Len(s))
    BY <2>1, FS_Interval
  <2> QED
    BY <2>1, <2>2, FS_Subset, FS_CardinalityType
<1>2. PICK p : Picks(p, s, places)
  BY <1>1, AtPlacesIs
<1>3. t = [r \in 1 .. n |-> s[p[r]]] /\ Ascends(p, places)
  BY <1>2 DEF Picks
<1> HIDE DEF t
<1>4. IsSeq(t)
  <2>1. t = [r \in 1 .. n |-> t[r]]
    BY <1>3
  <2> QED
    BY <1>1, <2>1, FunctionIsSeq
<1>5. ToSet(t) = {s[x] : x \in places}
  <2>1. \A x \in places : \E r \in 1 .. n : t[r] = s[x]
    BY <1>3 DEF Ascends
  <2>2. \A r \in 1 .. n : p[r] \in places /\ t[r] = s[p[r]]
    BY <1>3 DEF Ascends
  <2> QED
    BY <1>3, <2>1, <2>2 DEF ToSet
<1>6. ASSUME \A x, y \in places : s[x] = s[y] => x = y PROVE IsInjective(t)
  <2> SUFFICES ASSUME NEW a \in 1 .. n, NEW b \in 1 .. n, t[a] = t[b] PROVE a = b
    BY <1>3 DEF IsInjective
  <2>1. p[a] = p[b]
    BY <1>3, <1>6 DEF Ascends
  <2>2. p[a] \in Int /\ a \in Int /\ b \in Int
    BY <1>1, <1>3 DEF Ascends
  <2> QED
    BY <1>3, <2>1, <2>2 DEF Ascends
<1> QED
  BY <1>4, <1>5, <1>6 DEF t

\* No place, or one.
LEMMA NoPlace == ASSUME NEW s PROVE AtPlaces(s, {}) = <<>>
<1>1. IsFiniteSet({}) /\ {} \subseteq Int /\ Cardinality({}) = 0
  BY FS_EmptySet
<1>2. PICK p : Picks(p, s, {})
  BY <1>1, AtPlacesIs
<1>3. AtPlaces(s, {}) = [r \in 1 .. 0 |-> s[p[r]]]
  BY <1>1, <1>2 DEF Picks
<1>4. 1 .. 0 = {}
  OBVIOUS
<1> QED
  BY <1>3, <1>4

LEMMA OnePlace == ASSUME NEW s, NEW i \in Int PROVE AtPlaces(s, {i}) = <<s[i]>>
<1>1. IsFiniteSet({i}) /\ {i} \subseteq Int /\ Cardinality({i}) = 1
  BY FS_Singleton
<1>2. PICK p : Picks(p, s, {i})
  BY <1>1, AtPlacesIs
<1>3. AtPlaces(s, {i}) = [r \in 1 .. 1 |-> s[p[r]]] /\ p \in [1 .. 1 -> {i}]
  BY <1>1, <1>2 DEF Picks, Ascends
<1>4. p[1] = i
  BY <1>3
<1>5. AtPlaces(s, {i}) = [r \in 1 .. 1 |-> s[i]]
  BY <1>3, <1>4
<1> QED
  BY <1>5
=============================================================================

----------------------------- MODULE Induction -----------------------------
(***************************************************************************)
(* Induction in terms of sets, over the natural numbers and over finite     *)
(* sets, and what it gives for folds, sums and cardinalities.  The proofs   *)
(* about transactions, funds, vesting, the market and votes use it for      *)
(* every loop over objects and every total that the code keeps.             *)
(***************************************************************************)
EXTENDS Integers, Sequences, FiniteSets, Summation, WellFoundedInduction, TLAPS

\* A set of naturals that is not empty has a least element.
LEMMA LeastNat ==
    ASSUME NEW T \in SUBSET Nat, T # {}
    PROVE  \E m \in T : \A k \in T : m <= k
<1> DEFINE R == OpToRel(<, Nat)
<1>1. IsWellFoundedOn(R, Nat)
  BY Zenon, NatLessThanWellFounded
<1>2. \A x, y \in Nat : y < x => <<y, x>> \in R
  BY DEF OpToRel
<1> HIDE DEF R
<1>3. \E m \in T : \A k \in T : ~ (<<k, m>> \in R)
  <2>1. T \subseteq Nat
    OBVIOUS
  <2> QED
    BY Zenon, <1>1, <2>1, WFMin
<1>4. PICK m \in T : \A k \in T : ~ (<<k, m>> \in R)
  BY Zenon, <1>3
<1>5. ASSUME NEW k \in T PROVE m <= k
  <2>1. m \in Nat /\ k \in Nat /\ (k < m => <<k, m>> \in R)
    BY Zenon, <1>2
  <2>2. ~(k < m)
    BY Zenon, <1>4, <2>1
  <2> QED
    BY <2>1, <2>2
<1> QED
  BY Zenon, <1>5

\* A set of naturals that holds 0 and the successor of each element is Nat.
LEMMA SetInduction ==
    ASSUME NEW S \in SUBSET Nat, 0 \in S, \A n \in S : n + 1 \in S
    PROVE  S = Nat
<1> SUFFICES ASSUME Nat \ S # {} PROVE FALSE
  BY Zenon
<1>1. PICK m \in Nat \ S : \A k \in Nat \ S : m <= k
  BY Zenon, LeastNat
<1>2. m - 1 \in Nat /\ m - 1 \in S
  BY <1>1
<1> QED
  BY <1>1, <1>2

(***************************************************************************)
(* Finite sets.  A set is finite when its elements can be listed; a list of *)
(* n + 1 elements without one of them is a list of n.                       *)
(***************************************************************************)
Listed(T, n) == \E f : \A x \in T : \E i \in 1..n : f[i] = x

LEMMA ListedFewer ==
    ASSUME NEW n \in Nat, NEW T, Listed(T, n + 1), NEW x \in T
    PROVE  Listed(T \ {x}, n)
<1>1. PICK f : \A z \in T : \E i \in 1..(n + 1) : f[i] = z
  BY Zenon DEF Listed
<1>2. PICK k \in 1..(n + 1) : f[k] = x
  BY Zenon, <1>1
<1> DEFINE g == [i \in 1..n |-> IF i = k THEN f[n + 1] ELSE f[i]]
<1>3. ASSUME NEW z \in T \ {x} PROVE \E i \in 1..n : g[i] = z
  <2>1. PICK i \in 1..(n + 1) : f[i] = z
    BY Zenon, <1>1
  <2>2. i # k
    BY Zenon, <1>2, <2>1
  <2>3. CASE i = n + 1
    <3>1. k \in 1..n /\ g[k] = z
      BY <1>2, <2>1, <2>2, <2>3
    <3> QED
      BY Zenon, <3>1
  <2>4. CASE i # n + 1
    <3>1. i \in 1..n /\ g[i] = z
      BY <2>1, <2>2, <2>4
    <3> QED
      BY Zenon, <3>1
  <2> QED
    BY Zenon, <2>3, <2>4
<1> HIDE DEF g
<1> QED
  BY Zenon, <1>3 DEF Listed

LEMMA ListedFacts ==
    /\ \A T : Listed(T, 0) => T = {}
    /\ Listed({}, 0)
    /\ \A T : \A n \in Nat : Listed(T, n) => Listed(T, n + 1)
    /\ \A S : IsFiniteSet(S) => \E n \in Nat : Listed(S, n) /\ \A T \in SUBSET S : Listed(T, n)
<1>1. ASSUME NEW T, Listed(T, 0) PROVE T = {}
  <2>1. 1..0 = {}
    OBVIOUS
  <2> QED
    BY Zenon, <1>1, <2>1 DEF Listed
<1>2. ASSUME NEW T, NEW n \in Nat, Listed(T, n) PROVE Listed(T, n + 1)
  <2>1. \A i \in 1..n : i \in 1..(n + 1)
    OBVIOUS
  <2> QED
    BY Zenon, <1>2, <2>1 DEF Listed
<1>3. ASSUME NEW S, IsFiniteSet(S) PROVE \E n \in Nat : Listed(S, n) /\ \A T \in SUBSET S : Listed(T, n)
  <2>1. PICK f \in Seq(S) : \A s \in S : \E n \in 1..Len(f) : f[n] = s
    BY Zenon, <1>3 DEF IsFiniteSet
  <2>2. Len(f) \in Nat
    BY <2>1
  <2> QED
    BY Zenon, <2>1, <2>2 DEF Listed
<1>4. Listed({}, 0)
  BY Zenon DEF Listed
<1> QED
  BY Zenon, <1>1, <1>2, <1>3, <1>4

\* A collection that has each subset of S all of whose subsets with one element less it has, has them all.
LEMMA SubsetStrong ==
    ASSUME NEW S, IsFiniteSet(S), NEW P, \A T \in SUBSET S : (\A x \in T : T \ {x} \in P) => T \in P
    PROVE  \A T \in SUBSET S : T \in P
<1> DEFINE N == {n \in Nat : \A T \in SUBSET S : Listed(T, n) => T \in P}
<1>1. 0 \in N
  <2>1. \A T \in SUBSET S : Listed(T, 0) => T \in P
    BY Zenon, ListedFacts
  <2> QED
    BY <2>1
<1>2. ASSUME NEW n \in N PROVE n + 1 \in N
  <2>1. n \in Nat /\ \A T \in SUBSET S : Listed(T, n) => T \in P
    OBVIOUS
  <2>2. ASSUME NEW T \in SUBSET S, Listed(T, n + 1) PROVE T \in P
    <3>1. ASSUME NEW x \in T PROVE T \ {x} \in P
      <4>1. Listed(T \ {x}, n) /\ T \ {x} \in SUBSET S
        BY Zenon, <2>1, <2>2, ListedFewer
      <4> QED
        BY Zenon, <2>1, <4>1
    <3> QED
      BY Zenon, <3>1
  <2> QED
    BY <2>1, <2>2
<1>3. N \in SUBSET Nat
  OBVIOUS
<1>4. PICK n \in Nat : \A T \in SUBSET S : Listed(T, n)
  BY Zenon, ListedFacts
<1>5. n \in N
  <2> HIDE DEF N
  <2> QED
    BY Zenon, <1>1, <1>2, <1>3, SetInduction
<1> QED
  BY <1>4, <1>5

\* A collection of subsets of S that has the empty set and grows by any element has S.
LEMMA SubsetInduction ==
    ASSUME NEW S, IsFiniteSet(S), NEW P \in SUBSET SUBSET S, {} \in P,
           \A T \in P : \A x \in S \ T : T \cup {x} \in P
    PROVE  S \in P
<1>1. ASSUME NEW T \in SUBSET S, \A x \in T : T \ {x} \in P PROVE T \in P
  <2>1. CASE T = {}
    BY Zenon, <2>1
  <2>2. CASE T # {}
    <3>1. PICK x \in T : TRUE
      BY Zenon, <2>2
    <3>2. T \ {x} \in P /\ x \in S \ (T \ {x}) /\ (T \ {x}) \cup {x} = T
      BY <1>1, <3>1
    <3> QED
      BY Zenon, <3>2
  <2> QED
    BY Zenon, <2>1, <2>2
<1> QED
  BY Zenon, <1>1, SubsetStrong

(***************************************************************************)
(* Folds.  A fold over S takes elements in the order in which ch chooses    *)
(* them; it[T] is its value on T.                                           *)
(***************************************************************************)
Chooses(ch, S) == \A T \in SUBSET S : T # {} => ch[T] \in T

SameStep(it, jt, S, ch) ==
    /\ it[{}] = jt[{}]
    /\ \A T \in SUBSET S : T # {} /\ it[T \ {ch[T]}] = jt[T \ {ch[T]}] => it[T] = jt[T]

FoldTable(it, S, V, base, ch, G) ==
    /\ it \in [SUBSET S -> V]
    /\ \A T \in SUBSET S : it[T] = IF T = {} THEN base ELSE G[ch[T]][it[T \ {ch[T]}]]

(***************************************************************************)
(* Induction along a fold: a collection of subsets of S that has the empty  *)
(* set, and every set from which the element that is chosen first has been  *)
(* taken.                                                                   *)
(***************************************************************************)
LEMMA ChoiceInduction ==
    ASSUME NEW S, IsFiniteSet(S), NEW ch, Chooses(ch, S), NEW P, {} \in P,
           \A T \in SUBSET S : T # {} /\ T \ {ch[T]} \in P => T \in P
    PROVE  \A T \in SUBSET S : T \in P
<1>1. ASSUME NEW T \in SUBSET S, \A x \in T : T \ {x} \in P PROVE T \in P
  <2>1. CASE T = {}
    BY Zenon, <2>1
  <2>2. CASE T # {}
    BY Zenon, <1>1, <2>2 DEF Chooses
  <2> QED
    BY Zenon, <2>1, <2>2
<1> QED
  BY Zenon, <1>1, SubsetStrong

ClosedAlong(P, S, ch) == \A T \in SUBSET S : T # {} /\ T \ {ch[T]} \in P => T \in P

LEMMA ChoiceClosed ==
    ASSUME NEW S, IsFiniteSet(S), NEW ch, Chooses(ch, S), NEW P, {} \in P, ClosedAlong(P, S, ch)
    PROVE  SUBSET S \subseteq P
<1>1. \A T \in SUBSET S : T # {} /\ T \ {ch[T]} \in P => T \in P
  BY Zenon DEF ClosedAlong
<1>2. \A T \in SUBSET S : T \in P
  BY SMT, <1>1, ChoiceInduction
<1> QED
  BY Zenon, <1>2

\* Two tables with the same equation are the same.
LEMMA FoldUnique ==
    ASSUME NEW S, IsFiniteSet(S), NEW ch, Chooses(ch, S), NEW it, NEW jt, SameStep(it, jt, S, ch)
    PROVE  \A T \in SUBSET S : it[T] = jt[T]
<1> DEFINE P == {T \in SUBSET S : it[T] = jt[T]}
<1>1. {} \in P
  BY DEF SameStep
<1>2. ASSUME NEW T \in SUBSET S, T # {}, T \ {ch[T]} \in P PROVE T \in P
  BY <1>2 DEF SameStep
<1>3. \A T \in SUBSET S : T \in P
  <2> HIDE DEF P
  <2> QED
    BY <1>1, <1>2, ChoiceInduction
<1> QED
  BY <1>3

LEMMA FoldExists ==
    ASSUME NEW S, IsFiniteSet(S), NEW V, NEW base \in V, NEW ch, Chooses(ch, S),
           NEW G \in [S -> [V -> V]]
    PROVE  \E it : FoldTable(it, S, V, base, ch, G)
<1> DEFINE Upto(n) == {T \in SUBSET S : Listed(T, n)}
           Next(it, T) == IF T = {} THEN base ELSE G[ch[T]][it[T \ {ch[T]}]]
           N == {n \in Nat : \E it \in [Upto(n) -> V] : \A T \in Upto(n) : it[T] = Next(it, T)}
<1>1. 0 \in N
  <2>1. \A T \in Upto(0) : T = {}
    BY Zenon, ListedFacts
  <2>2. [T \in Upto(0) |-> base] \in [Upto(0) -> V]
    OBVIOUS
  <2> HIDE DEF Upto
  <2> QED
    BY Zenon, <2>1, <2>2
<1>2. ASSUME NEW n \in N PROVE n + 1 \in N
  <2>1. PICK it \in [Upto(n) -> V] : \A T \in Upto(n) : it[T] = Next(it, T)
    BY Zenon
  <2>2. n \in Nat
    OBVIOUS
  <2>3. ASSUME NEW T \in Upto(n + 1), T # {}
        PROVE  ch[T] \in S /\ T \ {ch[T]} \in Upto(n)
    <3>1. T \in SUBSET S /\ Listed(T, n + 1) /\ ch[T] \in T
      BY Zenon, <2>3 DEF Chooses
    <3>2. Listed(T \ {ch[T]}, n)
      BY Zenon, <2>2, <3>1, ListedFewer
    <3> QED
      BY <3>1, <3>2
  <2>4. \A T \in Upto(n) : T \in Upto(n + 1)
    BY Zenon, <2>2, ListedFacts
  <2> DEFINE jt == [T \in Upto(n + 1) |-> Next(it, T)]
  <2> HIDE DEF Upto, N
  <2>5. jt \in [Upto(n + 1) -> V]
    BY <2>3
  <2>6. \A T \in Upto(n) : jt[T] = it[T]
    BY Zenon, <2>1, <2>4
  <2>7. \A T \in Upto(n + 1) : jt[T] = Next(jt, T)
    <3> SUFFICES ASSUME NEW T \in Upto(n + 1) PROVE jt[T] = Next(jt, T)
      BY Zenon
    <3>1. jt[T] = Next(it, T)
      OBVIOUS
    <3> HIDE DEF jt
    <3> QED
      BY <3>1, <2>3, <2>6
  <2> HIDE DEF jt, Next
  <2> QED
    BY <2>2, <2>5, <2>7 DEF N
<1>3. PICK n \in Nat : \A T \in SUBSET S : Listed(T, n)
  BY Zenon, ListedFacts
<1>4. n \in N /\ Upto(n) = SUBSET S
  <2>1. N \in SUBSET Nat
    OBVIOUS
  <2>2. Upto(n) = SUBSET S
    BY <1>3
  <2> HIDE DEF N, Upto
  <2>3. N = Nat
    BY <1>1, <1>2, <2>1, SetInduction
  <2> QED
    BY <1>3, <2>2, <2>3
<1> QED
  BY Zenon, <1>4 DEF FoldTable

(***************************************************************************)
(* Which sets are finite.                                                   *)
(***************************************************************************)
LEMMA FiniteEmpty == IsFiniteSet({})
<1>1. << >> \in Seq({})
  OBVIOUS
<1> QED
  BY Zenon, <1>1 DEF IsFiniteSet

LEMMA FiniteSubset ==
    ASSUME NEW S, IsFiniteSet(S), NEW T, T \subseteq S
    PROVE  IsFiniteSet(T)
<1>1. CASE T = {}
  BY <1>1, FiniteEmpty
<1>2. CASE T # {}
  <2>1. PICK t \in T : TRUE
    BY Zenon, <1>2
  <2>2. PICK f \in Seq(S) : \A s \in S : \E n \in 1..Len(f) : f[n] = s
    BY Zenon DEF IsFiniteSet
  <2> DEFINE g == [i \in 1..Len(f) |-> IF f[i] \in T THEN f[i] ELSE t]
  <2>3. g \in Seq(T) /\ Len(g) = Len(f)
    BY <2>1, <2>2
  <2>4. ASSUME NEW s \in T PROVE \E n \in 1..Len(g) : g[n] = s
    <3>1. PICK n \in 1..Len(f) : f[n] = s
      BY Zenon, <2>2
    <3>2. n \in 1..Len(g) /\ g[n] = s
      BY <2>3, <3>1
    <3> QED
      BY Zenon, <3>2
  <2> HIDE DEF g
  <2> QED
    BY Zenon, <2>3, <2>4 DEF IsFiniteSet
<1> QED
  BY Zenon, <1>1, <1>2

LEMMA FiniteUnion ==
    ASSUME NEW S, IsFiniteSet(S), NEW T, IsFiniteSet(T)
    PROVE  IsFiniteSet(S \cup T)
<1>1. PICK f \in Seq(S) : \A s \in S : \E n \in 1..Len(f) : f[n] = s
  BY Zenon DEF IsFiniteSet
<1>2. PICK g \in Seq(T) : \A s \in T : \E n \in 1..Len(g) : g[n] = s
  BY Zenon DEF IsFiniteSet
<1> DEFINE m == Len(f)
           h == [i \in 1..(m + Len(g)) |-> IF i <= m THEN f[i] ELSE g[i - m]]
<1>3. m \in Nat /\ Len(g) \in Nat /\ (\A i \in 1..m : f[i] \in S) /\ \A i \in 1..Len(g) : g[i] \in T
  BY <1>1, <1>2
<1>4. h \in Seq(S \cup T) /\ Len(h) = m + Len(g)
  <2> HIDE DEF m
  <2>1. \A i \in 1..(m + Len(g)) : h[i] \in S \cup T
    BY <1>3
  <2> QED
    BY <1>3, <2>1
<1>5. ASSUME NEW s \in S \cup T PROVE \E n \in 1..Len(h) : h[n] = s
  <2>1. CASE s \in S
    <3>1. PICK n \in 1..m : f[n] = s
      BY Zenon, <1>1, <2>1
    <3>2. n \in 1..Len(h) /\ h[n] = s
      BY <1>3, <1>4, <3>1
    <3> QED
      BY Zenon, <3>2
  <2>2. CASE s \in T
    <3>1. PICK n \in 1..Len(g) : g[n] = s
      BY Zenon, <1>2, <2>2
    <3>2. m + n \in 1..Len(h) /\ h[m + n] = s
      <4> HIDE DEF m
      <4>1. m + n \in 1..(m + Len(g)) /\ ~(m + n <= m) /\ (m + n) - m = n
        BY <1>3, <3>1
      <4> QED
        BY Zenon, <1>4, <3>1, <4>1
    <3> QED
      BY Zenon, <3>2
  <2> QED
    BY Zenon, <2>1, <2>2
<1> HIDE DEF h
<1> QED
  BY Zenon, <1>4, <1>5 DEF IsFiniteSet

LEMMA FiniteAdd ==
    ASSUME NEW S, IsFiniteSet(S), NEW x
    PROVE  IsFiniteSet(S \cup {x})
<1>1. <<x>> \in Seq({x}) /\ 1 \in 1..Len(<<x>>) /\ <<x>>[1] = x
  OBVIOUS
<1>2. IsFiniteSet({x})
  BY Zenon, <1>1 DEF IsFiniteSet
<1> QED
  BY Zenon, <1>2, FiniteUnion

LEMMA FiniteInterval ==
    ASSUME NEW a \in Int, NEW b \in Int
    PROVE  IsFiniteSet(a..b)
<1>1. CASE a > b
  <2>1. a..b = {}
    BY <1>1
  <2> QED
    BY <2>1, FiniteEmpty
<1>2. CASE a <= b
  <2> DEFINE n == b - a + 1
             f == [i \in 1..n |-> a + i - 1]
  <2>1. n \in Nat
    BY <1>2
  <2>2. f \in Seq(a..b) /\ Len(f) = n
    BY <2>1
  <2>3. ASSUME NEW x \in a..b PROVE \E i \in 1..Len(f) : f[i] = x
    <3>1. x - a + 1 \in 1..n /\ f[x - a + 1] = x
      BY <2>1
    <3> QED
      BY Zenon, <2>2, <3>1
  <2> HIDE DEF f
  <2> QED
    BY Zenon, <2>2, <2>3 DEF IsFiniteSet
<1> QED
  BY <1>1, <1>2

(***************************************************************************)
(* Sums.                                                                    *)
(***************************************************************************)
\* The table of a sum, entry by entry.
SumTable(it, f, S) ==
    it = [T \in SUBSET S |-> IF T = {} THEN 0 ELSE f[CHOOSE x \in T : TRUE] + it[T \ {CHOOSE x \in T : TRUE}]]

LEMMA SumExists ==
    ASSUME NEW S, IsFiniteSet(S), NEW f, \A x \in S : f[x] \in Int
    PROVE  \E it \in [SUBSET S -> Int] : SumTable(it, f, S) /\ SumOver(f, S) = it[S]
<1> DEFINE ch == [T \in SUBSET S |-> CHOOSE x \in T : TRUE]
           G == [x \in S |-> [v \in Int |-> f[x] + v]]
<1>1. Chooses(ch, S)
  BY DEF Chooses
<1>2. G \in [S -> [Int -> Int]]
  OBVIOUS
<1>3. PICK it : FoldTable(it, S, Int, 0, ch, G)
  <2>1. 0 \in Int
    OBVIOUS
  <2> HIDE DEF ch, G
  <2> QED
    BY Zenon, <1>1, <1>2, <2>1, FoldExists
<1>4. ASSUME NEW T \in SUBSET S
      PROVE  it[T] = IF T = {} THEN 0 ELSE f[CHOOSE x \in T : TRUE] + it[T \ {CHOOSE x \in T : TRUE}]
  BY ZenonT(60), <1>1, <1>3 DEF FoldTable, Chooses
<1>5. SumTable(it, f, S)
  BY <1>3, <1>4 DEF FoldTable, SumTable
<1> DEFINE jt == CHOOSE jt : SumTable(jt, f, S)
<1>6. SumTable(jt, f, S)
  BY <1>5
<1>7. SumOver(f, S) = jt[S]
  BY DEF SumOver, MapThenSumSet, MapThenFoldSet, SumTable
<1> HIDE DEF jt
<1>8. \A T \in SUBSET S : it[T] = jt[T]
  <2>1. it[{}] = jt[{}]
    BY <1>5, <1>6 DEF SumTable
  <2>2. ASSUME NEW T \in SUBSET S, T # {}, it[T \ {ch[T]}] = jt[T \ {ch[T]}]
        PROVE  it[T] = jt[T]
    <3>1. ch[T] = CHOOSE x \in T : TRUE
      OBVIOUS
    <3>2. it[T] = f[ch[T]] + it[T \ {ch[T]}]
      BY <1>5, <2>2, <3>1 DEF SumTable
    <3>3. jt[T] = f[ch[T]] + jt[T \ {ch[T]}]
      BY <1>6, <2>2, <3>1 DEF SumTable
    <3> QED
      BY <2>2, <3>2, <3>3
  <2>3. SameStep(it, jt, S, ch)
    BY <2>1, <2>2 DEF SameStep
  <2> HIDE DEF ch
  <2> QED
    BY <2>3, <1>1, FoldUnique
<1>9. jt \in [SUBSET S -> Int]
  BY <1>3, <1>6, <1>8 DEF FoldTable, SumTable
<1> QED
  BY <1>6, <1>7, <1>9

IntOn(f, S) == \A x \in S : f[x] \in Int

\* The entries of a table are the sums over the subsets.
LEMMA SumInTable ==
    ASSUME NEW S, IsFiniteSet(S), NEW f, IntOn(f, S), NEW it, SumTable(it, f, S), NEW U \in SUBSET S
    PROVE  SumOver(f, U) = it[U]
<1> DEFINE ch == [T \in SUBSET U |-> CHOOSE x \in T : TRUE]
<1>1. IsFiniteSet(U) /\ \A x \in U : f[x] \in Int
  BY FiniteSubset DEF IntOn
<1>2. PICK jt : SumTable(jt, f, U) /\ SumOver(f, U) = jt[U]
  BY Zenon, <1>1, SumExists
<1>3. ASSUME NEW T \in SUBSET U, T # {}, it[T \ {ch[T]}] = jt[T \ {ch[T]}]
      PROVE  it[T] = jt[T]
  <2>1. ch[T] = CHOOSE x \in T : TRUE
    OBVIOUS
  <2>2. it[T] = f[ch[T]] + it[T \ {ch[T]}]
    BY <1>3, <2>1 DEF SumTable
  <2>3. jt[T] = f[ch[T]] + jt[T \ {ch[T]}]
    BY <1>2, <1>3, <2>1 DEF SumTable
  <2> QED
    BY <1>3, <2>2, <2>3
<1>4. it[{}] = jt[{}]
  BY <1>2 DEF SumTable
<1>5. SameStep(it, jt, U, ch)
  BY <1>3, <1>4 DEF SameStep
<1>6. Chooses(ch, U)
  BY DEF Chooses
<1> HIDE DEF ch
<1>7. \A T \in SUBSET U : it[T] = jt[T]
  BY <1>1, <1>5, <1>6, FoldUnique
<1> QED
  BY <1>2, <1>7

LEMMA SumEmpty ==
    ASSUME NEW f
    PROVE  SumOver(f, {}) = 0
<1>1. IsFiniteSet({}) /\ \A x \in {} : f[x] \in Int
  BY FiniteEmpty
<1>2. PICK it : SumTable(it, f, {}) /\ SumOver(f, {}) = it[{}]
  BY Zenon, <1>1, SumExists
<1> QED
  BY <1>2 DEF SumTable

LEMMA SumInt ==
    ASSUME NEW S, IsFiniteSet(S), NEW f, IntOn(f, S)
    PROVE  SumOver(f, S) \in Int
<1>1. PICK it \in [SUBSET S -> Int] : SumOver(f, S) = it[S]
  BY Zenon, SumExists DEF IntOn
<1> QED
  BY <1>1

\* The sum takes any element off.
LEMMA SumTake ==
    ASSUME NEW S, IsFiniteSet(S), NEW f, IntOn(f, S), NEW y \in S
    PROVE  SumOver(f, S) = f[y] + SumOver(f, S \ {y})
<1>1. PICK it \in [SUBSET S -> Int] : SumTable(it, f, S)
  BY Zenon, SumExists DEF IntOn
<1> DEFINE Takes(T) == \A x \in T : it[T] = f[x] + it[T \ {x}]
           P == {T \in SUBSET S : Takes(T)}
<1>2. ASSUME NEW T \in SUBSET S, \A z \in T : T \ {z} \in P PROVE T \in P
  <2> SUFFICES ASSUME NEW x \in T
               PROVE  it[T] = f[x] + it[T \ {x}]
    OBVIOUS
  <2> DEFINE c == CHOOSE z \in T : TRUE
  <2>1. c \in T /\ it[T] = f[c] + it[T \ {c}]
    BY <1>1 DEF SumTable
  <2> HIDE DEF c
  <2>2. CASE x = c
    BY <2>1, <2>2
  <2>3. CASE x # c
    <3>1. Takes(T \ {c}) /\ Takes(T \ {x}) /\ x \in T \ {c} /\ c \in T \ {x}
      BY <1>2, <2>1, <2>3
    <3>2. it[T \ {c}] = f[x] + it[(T \ {c}) \ {x}]
      BY Zenon, <3>1
    <3>3. it[T \ {x}] = f[c] + it[(T \ {x}) \ {c}]
      BY Zenon, <3>1
    <3>4. (T \ {x}) \ {c} = (T \ {c}) \ {x}
      OBVIOUS
    <3> DEFINE r == it[(T \ {c}) \ {x}]
    <3>5. r \in Int /\ f[x] \in Int /\ f[c] \in Int
      BY <2>1 DEF IntOn
    <3>6. it[T \ {c}] = f[x] + r /\ it[T \ {x}] = f[c] + r
      BY Zenon, <3>2, <3>3, <3>4
    <3> HIDE DEF r, P, Takes
    <3>7. f[c] + (f[x] + r) = f[x] + (f[c] + r)
      BY <3>5
    <3> QED
      BY <3>6, <3>7, <2>1
  <2> QED
    BY Zenon, <2>2, <2>3
<1>3. S \in P
  <2>1. S \in SUBSET S
    OBVIOUS
  <2> HIDE DEF P
  <2> QED
    BY Zenon, <1>2, <2>1, SubsetStrong
<1>4. it[S] = f[y] + it[S \ {y}]
  BY <1>3
<1> QED
  BY <1>1, <1>4, SumInTable

LEMMA SumAdd ==
    ASSUME NEW S, IsFiniteSet(S), NEW f, NEW y, y \notin S, IntOn(f, S \cup {y})
    PROVE  SumOver(f, S \cup {y}) = f[y] + SumOver(f, S)
<1>1. IsFiniteSet(S \cup {y})
  BY FiniteAdd
<1>2. (S \cup {y}) \ {y} = S
  OBVIOUS
<1>3. SumOver(f, S \cup {y}) = f[y] + SumOver(f, (S \cup {y}) \ {y})
  BY <1>1, SumTake
<1> QED
  BY <1>2, <1>3

AgreeOn(f, g, S) == \A x \in S : f[x] = g[x]

\* The sum depends on the function's values on the set alone.
LEMMA SumCong ==
    ASSUME NEW S, IsFiniteSet(S), NEW f, NEW g, IntOn(f, S), AgreeOn(f, g, S)
    PROVE  SumOver(f, S) = SumOver(g, S)
<1> DEFINE P == {T \in SUBSET S : SumOver(f, T) = SumOver(g, T)}
<1>1. P \in SUBSET SUBSET S /\ {} \in P
  BY SumEmpty
<1>2. ASSUME NEW T \in P, NEW x \in S \ T PROVE T \cup {x} \in P
  <2>1. IsFiniteSet(T) /\ x \notin T /\ T \cup {x} \in SUBSET S
    BY FiniteSubset
  <2>2. IntOn(f, T \cup {x}) /\ IntOn(g, T \cup {x})
    BY DEF IntOn, AgreeOn
  <2>3. SumOver(f, T \cup {x}) = f[x] + SumOver(f, T) /\ SumOver(g, T \cup {x}) = g[x] + SumOver(g, T)
    BY Zenon, <2>1, <2>2, SumAdd
  <2> QED
    BY <2>1, <2>3 DEF AgreeOn
<1> HIDE DEF P
<1>3. S \in P
  BY Zenon, <1>1, <1>2, SubsetInduction
<1> QED
  BY <1>3 DEF P

AddsOn(h, f, g, S) == \A x \in S : h[x] = f[x] + g[x]

LEMMA SumPlus ==
    ASSUME NEW S, IsFiniteSet(S), NEW f, NEW g, NEW h, IntOn(f, S), IntOn(g, S), AddsOn(h, f, g, S)
    PROVE  SumOver(h, S) = SumOver(f, S) + SumOver(g, S)
<1> DEFINE P == {T \in SUBSET S : SumOver(h, T) = SumOver(f, T) + SumOver(g, T)}
<1>1. P \in SUBSET SUBSET S /\ {} \in P
  BY SumEmpty
<1>2. ASSUME NEW T \in P, NEW x \in S \ T PROVE T \cup {x} \in P
  <2>1. IsFiniteSet(T) /\ x \notin T /\ T \cup {x} \in SUBSET S
    BY FiniteSubset
  <2>2. IntOn(f, T \cup {x}) /\ IntOn(g, T \cup {x}) /\ IntOn(h, T \cup {x}) /\ IntOn(f, T) /\ IntOn(g, T)
    BY DEF IntOn, AddsOn
  <2>3. /\ SumOver(f, T \cup {x}) = f[x] + SumOver(f, T)
        /\ SumOver(g, T \cup {x}) = g[x] + SumOver(g, T)
        /\ SumOver(h, T \cup {x}) = h[x] + SumOver(h, T)
    BY Zenon, <2>1, <2>2, SumAdd
  <2>4. SumOver(f, T) \in Int /\ SumOver(g, T) \in Int /\ f[x] \in Int /\ g[x] \in Int
    BY <2>1, <2>2, SumInt DEF IntOn
  <2>5. SumOver(h, T) = SumOver(f, T) + SumOver(g, T) /\ h[x] = f[x] + g[x]
    BY DEF AddsOn
  <2>6. SumOver(h, T \cup {x}) = SumOver(f, T \cup {x}) + SumOver(g, T \cup {x})
    BY <2>3, <2>4, <2>5
  <2> QED
    BY <2>1, <2>6
<1> HIDE DEF P
<1>3. S \in P
  BY Zenon, <1>1, <1>2, SubsetInduction
<1> QED
  BY <1>3 DEF P

LEMMA SumUnion ==
    ASSUME NEW S, IsFiniteSet(S), NEW R, IsFiniteSet(R), R \cap S = {}, NEW f, IntOn(f, S), IntOn(f, R)
    PROVE  SumOver(f, R \cup S) = SumOver(f, R) + SumOver(f, S)
<1> DEFINE P == {T \in SUBSET S : SumOver(f, R \cup T) = SumOver(f, R) + SumOver(f, T)}
<1>0. SumOver(f, R) \in Int
  BY SumInt
<1>1. P \in SUBSET SUBSET S /\ {} \in P
  <2>1. R \cup {} = R
    OBVIOUS
  <2> QED
    BY <1>0, <2>1, SumEmpty
<1>2. ASSUME NEW T \in P, NEW x \in S \ T PROVE T \cup {x} \in P
  <2>1. IsFiniteSet(T) /\ x \notin T /\ T \cup {x} \in SUBSET S /\ IsFiniteSet(R \cup T) /\ x \notin R \cup T
    BY Zenon, FiniteSubset, FiniteUnion
  <2>2. IntOn(f, T \cup {x}) /\ IntOn(f, (R \cup T) \cup {x}) /\ IntOn(f, T)
    BY DEF IntOn
  <2>3. /\ SumOver(f, T \cup {x}) = f[x] + SumOver(f, T)
        /\ SumOver(f, (R \cup T) \cup {x}) = f[x] + SumOver(f, R \cup T)
    BY Zenon, <2>1, <2>2, SumAdd
  <2>4. SumOver(f, T) \in Int /\ f[x] \in Int
    BY <2>1, <2>2, SumInt DEF IntOn
  <2>5. SumOver(f, R \cup T) = SumOver(f, R) + SumOver(f, T)
    OBVIOUS
  <2>6. (R \cup T) \cup {x} = R \cup (T \cup {x})
    OBVIOUS
  <2>7. SumOver(f, R \cup (T \cup {x})) = SumOver(f, R) + SumOver(f, T \cup {x})
    <3>1. SumOver(f, R \cup (T \cup {x})) = f[x] + SumOver(f, R \cup T)
      BY <2>3, <2>6
    <3> HIDE DEF P
    <3>2. f[x] + (SumOver(f, R) + SumOver(f, T)) = SumOver(f, R) + (f[x] + SumOver(f, T))
      BY <1>0, <2>4
    <3> QED
      BY <2>3, <2>5, <3>1, <3>2
  <2> QED
    BY <2>1, <2>7
<1> HIDE DEF P
<1>3. S \in P
  BY Zenon, <1>1, <1>2, SubsetInduction
<1> QED
  BY <1>3 DEF P

LEMMA SumMinus ==
    ASSUME NEW S, IsFiniteSet(S), NEW R, R \subseteq S, NEW f, IntOn(f, S)
    PROVE  /\ SumOver(f, S) = SumOver(f, R) + SumOver(f, S \ R)
           /\ SumOver(f, S \ R) = SumOver(f, S) - SumOver(f, R)
<1>1. IsFiniteSet(R) /\ IsFiniteSet(S \ R) /\ R \cap (S \ R) = {} /\ R \cup (S \ R) = S
  BY FiniteSubset
<1>2. IntOn(f, R) /\ IntOn(f, S \ R)
  BY DEF IntOn
<1>3. SumOver(f, R \cup (S \ R)) = SumOver(f, R) + SumOver(f, S \ R)
  BY <1>1, <1>2, SumUnion
<1>4. SumOver(f, R) \in Int /\ SumOver(f, S \ R) \in Int
  BY <1>1, <1>2, SumInt
<1>5. SumOver(f, S) = SumOver(f, R) + SumOver(f, S \ R)
  BY <1>1, <1>3
<1> QED
  BY <1>4, <1>5

\* A change at one element changes the sum by as much.
LEMMA SumChange ==
    ASSUME NEW S, IsFiniteSet(S), NEW f, NEW g, NEW y \in S, IntOn(f, S), IntOn(g, S), AgreeOn(f, g, S \ {y})
    PROVE  SumOver(g, S) = SumOver(f, S) + (g[y] - f[y])
<1>1. IsFiniteSet(S \ {y}) /\ IntOn(f, S \ {y})
  BY FiniteSubset DEF IntOn
<1>2. SumOver(f, S \ {y}) = SumOver(g, S \ {y})
  BY <1>1, SumCong
<1>3. SumOver(f, S) = f[y] + SumOver(f, S \ {y}) /\ SumOver(g, S) = g[y] + SumOver(g, S \ {y})
  BY SumTake
<1>4. SumOver(f, S \ {y}) \in Int
  BY <1>1, SumInt
<1>5. f[y] \in Int /\ g[y] \in Int
  BY DEF IntOn
<1> QED
  BY <1>2, <1>3, <1>4, <1>5

NatOn(f, S) == \A x \in S : f[x] \in Nat

\* A sum of naturals is a natural, and no less than each of them.
LEMMA SumNat ==
    ASSUME NEW S, IsFiniteSet(S), NEW f, NatOn(f, S)
    PROVE  SumOver(f, S) \in Nat
<1> DEFINE P == {T \in SUBSET S : SumOver(f, T) \in Nat}
<1>1. P \in SUBSET SUBSET S /\ {} \in P
  BY SumEmpty
<1>2. ASSUME NEW T \in P, NEW x \in S \ T PROVE T \cup {x} \in P
  <2>1. IsFiniteSet(T) /\ x \notin T /\ T \cup {x} \in SUBSET S
    BY FiniteSubset
  <2>2. IntOn(f, T \cup {x})
    BY DEF IntOn, NatOn
  <2>3. SumOver(f, T \cup {x}) = f[x] + SumOver(f, T)
    BY <2>1, <2>2, SumAdd
  <2>4. SumOver(f, T) \in Nat /\ f[x] \in Nat
    BY DEF NatOn
  <2> QED
    BY <2>1, <2>3, <2>4
<1> HIDE DEF P
<1>3. S \in P
  BY Zenon, <1>1, <1>2, SubsetInduction
<1> QED
  BY <1>3 DEF P

LEMMA SumAtLeast ==
    ASSUME NEW S, IsFiniteSet(S), NEW f, NatOn(f, S), NEW R, R \subseteq S
    PROVE  SumOver(f, R) \in Nat /\ SumOver(f, R) <= SumOver(f, S)
<1>1. IsFiniteSet(R) /\ IsFiniteSet(S \ R) /\ NatOn(f, R) /\ NatOn(f, S \ R) /\ IntOn(f, S)
  BY FiniteSubset DEF NatOn, IntOn
<1>2. SumOver(f, R) \in Nat /\ SumOver(f, S \ R) \in Nat
  BY <1>1, SumNat
<1>3. SumOver(f, S) = SumOver(f, R) + SumOver(f, S \ R)
  BY <1>1, SumMinus
<1> QED
  BY <1>2, <1>3

PartOf(o, a, W) == {w \in W : o[w] = a}
ByPart(g, f, o, A, W) == \A a \in A : g[a] = SumOver(f, PartOf(o, a, W))

\* A sum taken owner by owner is the whole sum.
LEMMA SumPartition ==
    ASSUME NEW A, IsFiniteSet(A), NEW W, IsFiniteSet(W), NEW o, NEW f, NEW g,
           \A w \in W : o[w] \in A, IntOn(f, W), ByPart(g, f, o, A, W)
    PROVE  SumOver(g, A) = SumOver(f, W)
<1> DEFINE Part(B) == {w \in W : o[w] \in B}
<1> DEFINE P == {B \in SUBSET A : SumOver(g, B) = SumOver(f, Part(B))}
<1>1. P \in SUBSET SUBSET A /\ {} \in P
  <2>1. Part({}) = {}
    OBVIOUS
  <2> QED
    BY <2>1, SumEmpty
<1>2. \A B \in SUBSET A : IntOn(f, Part(B)) /\ IsFiniteSet(Part(B))
  BY FiniteSubset DEF IntOn
<1>3. ASSUME NEW a \in A PROVE g[a] \in Int /\ IsFiniteSet(PartOf(o, a, W)) /\ IntOn(f, PartOf(o, a, W))
  <2>1. IsFiniteSet(PartOf(o, a, W)) /\ IntOn(f, PartOf(o, a, W))
    BY FiniteSubset DEF IntOn, PartOf
  <2>2. SumOver(f, PartOf(o, a, W)) \in Int
    BY <2>1, SumInt
  <2> QED
    BY <2>1, <2>2 DEF ByPart
<1>4. ASSUME NEW B \in P, NEW a \in A \ B PROVE B \cup {a} \in P
  <2>1. IsFiniteSet(B) /\ a \notin B /\ B \cup {a} \in SUBSET A /\ B \in SUBSET A
    BY FiniteSubset
  <2>2. IntOn(g, B \cup {a})
    BY <1>3, <2>1 DEF IntOn
  <2>3. SumOver(g, B \cup {a}) = g[a] + SumOver(g, B)
    BY Zenon, <2>1, <2>2, SumAdd
  <2>4. PartOf(o, a, W) \cap Part(B) = {} /\ PartOf(o, a, W) \cup Part(B) = Part(B \cup {a})
    BY <2>1 DEF PartOf
  <2>5. SumOver(g, B) = SumOver(f, Part(B)) /\ g[a] = SumOver(f, PartOf(o, a, W))
    BY DEF ByPart
  <2>6. IsFiniteSet(Part(B)) /\ IntOn(f, Part(B))
    BY <1>2, <2>1
  <2>7. IsFiniteSet(PartOf(o, a, W)) /\ IntOn(f, PartOf(o, a, W))
    BY <1>3
  <2> HIDE DEF Part
  <2>8. SumOver(f, PartOf(o, a, W) \cup Part(B)) = SumOver(f, PartOf(o, a, W)) + SumOver(f, Part(B))
    BY <2>4, <2>6, <2>7, SumUnion
  <2>9. SumOver(g, B \cup {a}) = SumOver(f, Part(B \cup {a}))
    BY <2>3, <2>4, <2>5, <2>8
  <2> QED
    BY <2>1, <2>9
<1>5. Part(A) = W
  OBVIOUS
<1> HIDE DEF P, Part
<1>6. A \in P
  BY Zenon, <1>1, <1>4, SubsetInduction
<1> QED
  BY <1>5, <1>6 DEF P

\* A sum over a set that gains a member, or loses some, when every set has a function
\* of its own.
LEMMA SumGrow ==
    ASSUME NEW S, IsFiniteSet(S), NEW y, y \notin S, NEW f, NEW g,
           IntOn(f, S \cup {y}), AgreeOn(f, g, S)
    PROVE  SumOver(f, S \cup {y}) = SumOver(g, S) + f[y]
<1>1. IntOn(f, S) /\ f[y] \in Int
  BY DEF IntOn
<1>2. SumOver(f, S \cup {y}) = f[y] + SumOver(f, S)
  BY SumAdd
<1>3. SumOver(f, S) = SumOver(g, S) /\ SumOver(f, S) \in Int
  BY <1>1, SumCong, SumInt
<1> QED
  BY <1>1, <1>2, <1>3

LEMMA SumShrink ==
    ASSUME NEW S, IsFiniteSet(S), NEW R \in SUBSET S, NEW f, NEW g, NEW h,
           IntOn(f, S), AgreeOn(f, g, R), AgreeOn(f, h, S \ R)
    PROVE  SumOver(h, S \ R) = SumOver(f, S) - SumOver(g, R)
<1>1. IsFiniteSet(R) /\ IsFiniteSet(S \ R) /\ IntOn(f, R) /\ IntOn(f, S \ R)
  BY FiniteSubset DEF IntOn
<1>2. SumOver(f, R) = SumOver(g, R) /\ SumOver(f, S \ R) = SumOver(h, S \ R)
  BY <1>1, SumCong
<1>3. SumOver(f, S \ R) = SumOver(f, S) - SumOver(f, R)
  BY SumMinus
<1> QED
  BY <1>2, <1>3

\* A bound on every part bounds the sum.
BoundOn(f, m, n, g, S) == \A x \in S : f[x] * m <= n * g[x]

LEMMA SumBound ==
    ASSUME NEW S, IsFiniteSet(S), NEW f, IntOn(f, S), NEW g, IntOn(g, S), NEW m \in Nat,
           NEW n \in Nat, BoundOn(f, m, n, g, S)
    PROVE  SumOver(f, S) * m <= n * SumOver(g, S)
<1> DEFINE P == {T \in SUBSET S : SumOver(f, T) * m <= n * SumOver(g, T)}
<1>1. {} \in P
  <2>1. SumOver(f, {}) = 0 /\ SumOver(g, {}) = 0
    BY SumEmpty
  <2>2. 0 * m <= n * 0
    OBVIOUS
  <2> QED
    BY <2>1, <2>2
<1>2. ASSUME NEW T \in P, NEW x \in S \ T PROVE T \cup {x} \in P
  <2>1. /\ IsFiniteSet(T) /\ IntOn(f, T) /\ IntOn(g, T)
        /\ IntOn(f, T \cup {x}) /\ IntOn(g, T \cup {x})
    BY FiniteSubset DEF IntOn
  <2>2. SumOver(f, T) \in Int /\ SumOver(g, T) \in Int /\ f[x] \in Int /\ g[x] \in Int
    BY <2>1, SumInt DEF IntOn
  <2>3. SumOver(f, T \cup {x}) = f[x] + SumOver(f, T)
    BY Zenon, <2>1, SumAdd
  <2>4. SumOver(g, T \cup {x}) = g[x] + SumOver(g, T)
    BY Zenon, <2>1, SumAdd
  <2>5. f[x] * m <= n * g[x]
    BY DEF BoundOn
  <2>6. SumOver(f, T) * m <= n * SumOver(g, T)
    BY <1>2
  <2> DEFINE a == f[x]
             b == g[x]
             c == SumOver(f, T)
             d == SumOver(g, T)
  <2>7. a \in Int /\ b \in Int /\ c \in Int /\ d \in Int /\ a * m <= n * b /\ c * m <= n * d
    BY <2>2, <2>5, <2>6
  <2> HIDE DEF a, b, c, d
  <2>8. (a + c) * m <= n * (b + d)
    <3>1. (a + c) * m = a * m + c * m
      BY <2>7
    <3>2. n * (b + d) = n * b + n * d
      BY <2>7
    <3> QED
      BY <2>7, <3>1, <3>2
  <2> QED
    BY <2>3, <2>4, <2>8 DEF a, b, c, d
<1>3. P \in SUBSET SUBSET S
  OBVIOUS
<1> HIDE DEF P
<1>4. S \in P
  BY Zenon, <1>1, <1>2, <1>3, SubsetInduction
<1> QED
  BY <1>4 DEF P

\* g is f but at a, where it is y: the sum changes by what the value there does.
PutAt(g, f, a, y) == g = [f EXCEPT ![a] = y]

LEMMA SumPut ==
    ASSUME NEW S, IsFiniteSet(S), NEW f \in [S -> Nat], NEW a \in S, NEW y \in Nat, NEW g, PutAt(g, f, a, y)
    PROVE  g \in [S -> Nat] /\ SumOver(g, S) = SumOver(f, S) + (y - f[a])
<1>1. g \in [S -> Nat] /\ g[a] = y /\ \A x \in S \ {a} : f[x] = g[x]
  BY DEF PutAt
<1>2. IntOn(f, S) /\ IntOn(g, S) /\ AgreeOn(f, g, S \ {a})
  BY <1>1 DEF AgreeOn, IntOn
<1>3. SumOver(f, S) = f[a] + SumOver(f, S \ {a})
  BY <1>2, SumTake
<1>4. SumOver(g, S) = g[a] + SumOver(g, S \ {a})
  BY <1>2, SumTake
<1> DEFINE R == S \ {a}
<1>5. IsFiniteSet(R) /\ IntOn(f, R) /\ AgreeOn(f, g, R)
  BY <1>2, FiniteSubset DEF IntOn
<1> HIDE DEF R
<1>6. SumOver(f, R) = SumOver(g, R) /\ SumOver(f, R) \in Int
  BY <1>5, SumCong, SumInt
<1> QED
  BY <1>1, <1>3, <1>4, <1>6 DEF R

(***************************************************************************)
(* Cardinalities: a set has one element more than it has without one of     *)
(* them.                                                                    *)
(***************************************************************************)
CardTable(it, S) == it = [T \in SUBSET S |-> IF T = {} THEN 0 ELSE 1 + it[T \ {CHOOSE x : x \in T}]]

LEMMA CardinalitySum ==
    ASSUME NEW S, IsFiniteSet(S)
    PROVE  Cardinality(S) = SumOver([x \in S |-> 1], S)
<1> DEFINE one == [x \in S |-> 1]
           ch == [T \in SUBSET S |-> CHOOSE x : x \in T]
           jt == [T \in SUBSET S |-> SumOver(one, T)]
           it == CHOOSE it : CardTable(it, S)
<1>1. \A T \in SUBSET S : IsFiniteSet(T) /\ IntOn(one, T)
  BY FiniteSubset DEF IntOn
<1>2. ASSUME NEW T \in SUBSET S, T # {} PROVE SumOver(one, T) = 1 + SumOver(one, T \ {CHOOSE x : x \in T})
  <2> DEFINE c == CHOOSE x : x \in T
  <2>1. c \in T
    BY Zenon, <1>2
  <2> HIDE DEF c
  <2>2. one[c] = 1
    BY <2>1
  <2> HIDE DEF one
  <2>3. SumOver(one, T) = one[c] + SumOver(one, T \ {c})
    BY Zenon, <1>1, <2>1, SumTake
  <2> QED
    BY Zenon, <2>2, <2>3 DEF c
<1>3. SumOver(one, {}) = 0
  BY Zenon, SumEmpty
<1> HIDE DEF one
<1>4. CardTable(jt, S)
  <2>1. ASSUME NEW T \in SUBSET S PROVE jt[T] = IF T = {} THEN 0 ELSE 1 + jt[T \ {CHOOSE x : x \in T}]
    BY Zenon, <1>2, <1>3
  <2>2. jt = [T \in SUBSET S |-> jt[T]]
    OBVIOUS
  <2> HIDE DEF jt
  <2> QED
    BY Zenon, <2>1, <2>2 DEF CardTable
<1>5. CardTable(it, S)
  BY Zenon, <1>4
<1>6. Cardinality(S) = it[S]
  BY DEF Cardinality, CardTable
<1> HIDE DEF it
<1>7. SameStep(it, jt, S, ch)
  <2>1. it[{}] = jt[{}]
    BY Zenon, <1>4, <1>5 DEF CardTable
  <2>2. ASSUME NEW T \in SUBSET S, T # {}, it[T \ {ch[T]}] = jt[T \ {ch[T]}] PROVE it[T] = jt[T]
    <3>1. ch[T] = CHOOSE x : x \in T
      OBVIOUS
    <3> HIDE DEF jt, ch
    <3>2. it[T] = 1 + it[T \ {ch[T]}]
      BY <1>5, <2>2, <3>1 DEF CardTable
    <3>3. jt[T] = 1 + jt[T \ {ch[T]}]
      BY <1>4, <2>2, <3>1 DEF CardTable
    <3> QED
      BY Zenon, <2>2, <3>2, <3>3
  <2> HIDE DEF jt, ch
  <2> QED
    BY Zenon, <2>1, <2>2 DEF SameStep
<1>8. Chooses(ch, S)
  <2>1. \A T \in SUBSET S : T # {} => (CHOOSE x : x \in T) \in T
    BY Zenon
  <2> QED
    BY <2>1 DEF Chooses
<1>9. it[S] = jt[S]
  <2>1. S \in SUBSET S
    OBVIOUS
  <2> HIDE DEF jt, ch
  <2>2. \A T \in SUBSET S : it[T] = jt[T]
    BY <1>7, <1>8, FoldUnique
  <2> QED
    BY Zenon, <2>1, <2>2
<1> QED
  BY Zenon, <1>6, <1>9 DEF jt, one

LEMMA CardinalityEmpty == Cardinality({}) = 0
<1>1. Cardinality({}) = SumOver([x \in {} |-> 1], {})
  BY Zenon, FiniteEmpty, CardinalitySum
<1> QED
  BY Zenon, <1>1, SumEmpty

LEMMA CardinalityNat ==
    ASSUME NEW S, IsFiniteSet(S)
    PROVE  Cardinality(S) \in Nat
<1>1. NatOn([x \in S |-> 1], S)
  BY DEF NatOn
<1>2. SumOver([x \in S |-> 1], S) \in Nat
  BY Zenon, <1>1, SumNat
<1> QED
  BY Zenon, <1>2, CardinalitySum

LEMMA CardinalityMinus ==
    ASSUME NEW S, IsFiniteSet(S), NEW R, R \subseteq S
    PROVE  /\ IsFiniteSet(R) /\ IsFiniteSet(S \ R)
           /\ Cardinality(S \ R) = Cardinality(S) - Cardinality(R)
           /\ Cardinality(R) <= Cardinality(S)
<1> DEFINE f == [x \in S |-> 1]
           g == [x \in R |-> 1]
           h == [x \in S \ R |-> 1]
<1>1. IsFiniteSet(R) /\ IsFiniteSet(S \ R)
  BY FiniteSubset
<1>2. IntOn(f, S) /\ AgreeOn(f, g, R) /\ AgreeOn(f, h, S \ R)
  BY DEF IntOn, AgreeOn
<1>3. SumOver(h, S \ R) = SumOver(f, S) - SumOver(g, R)
  <2> HIDE DEF f, g, h
  <2> QED
    BY <1>2, SumShrink
<1>4. Cardinality(S) = SumOver(f, S) /\ Cardinality(R) = SumOver(g, R) /\ Cardinality(S \ R) = SumOver(h, S \ R)
  BY Zenon, <1>1, CardinalitySum
<1>5. Cardinality(S) \in Nat /\ Cardinality(R) \in Nat /\ Cardinality(S \ R) \in Nat
  BY Zenon, <1>1, CardinalityNat
<1> HIDE DEF f, g, h
<1>6. Cardinality(S \ R) = Cardinality(S) - Cardinality(R)
  BY Zenon, <1>3, <1>4
<1> QED
  BY <1>1, <1>5, <1>6

LEMMA CardinalityAdd ==
    ASSUME NEW S, IsFiniteSet(S), NEW x, x \notin S
    PROVE  Cardinality(S \cup {x}) = Cardinality(S) + 1
<1> DEFINE U == S \cup {x}
           f == [z \in U |-> 1]
           g == [z \in S |-> 1]
<1>1. IsFiniteSet(U) /\ IntOn(f, U) /\ AgreeOn(f, g, S) /\ f[x] = 1
  BY FiniteAdd DEF IntOn, AgreeOn
<1>2. Cardinality(S) = SumOver(g, S) /\ Cardinality(U) = SumOver(f, U)
  BY Zenon, <1>1, CardinalitySum
<1> HIDE DEF f, g
<1>3. SumOver(f, U) = SumOver(g, S) + f[x]
  BY <1>1, SumGrow
<1> QED
  BY Zenon, <1>1, <1>2, <1>3

\* A function that is constant on S sums to as much for each element of S.
ConstOn(f, k, S) == \A x \in S : f[x] = k

LEMMA SumSteady ==
    ASSUME NEW S, IsFiniteSet(S), NEW f, NEW k \in Int, ConstOn(f, k, S)
    PROVE  SumOver(f, S) = k * Cardinality(S)
<1> DEFINE P == {T \in SUBSET S : SumOver(f, T) = k * Cardinality(T)}
<1>1. P \in SUBSET SUBSET S /\ {} \in P
  <2>1. Cardinality({}) = 0 /\ k * 0 = 0
    BY CardinalityEmpty
  <2> QED
    BY <2>1, SumEmpty
<1>2. ASSUME NEW T \in P, NEW x \in S \ T PROVE T \cup {x} \in P
  <2>1. IsFiniteSet(T) /\ x \notin T /\ T \cup {x} \in SUBSET S
    BY FiniteSubset
  <2>2. IntOn(f, T \cup {x})
    BY DEF IntOn, ConstOn
  <2>3. SumOver(f, T \cup {x}) = f[x] + SumOver(f, T)
    BY <2>1, <2>2, SumAdd
  <2>4. Cardinality(T \cup {x}) = Cardinality(T) + 1 /\ Cardinality(T) \in Nat
    BY <2>1, CardinalityAdd, CardinalityNat
  <2>5. SumOver(f, T) = k * Cardinality(T) /\ f[x] = k
    BY DEF ConstOn
  <2>6. k + k * Cardinality(T) = k * (Cardinality(T) + 1)
    BY <2>4
  <2> QED
    BY <2>1, <2>3, <2>4, <2>5, <2>6
<1> HIDE DEF P
<1>3. S \in P
  BY Zenon, <1>1, <1>2, SubsetInduction
<1> QED
  BY <1>3 DEF P

(***************************************************************************)
(* A fold over a sequence takes its elements from the left: it is the last  *)
(* of a run of values, each from the one before and the next element.       *)
(***************************************************************************)
Greatest(n) == [T \in SUBSET (1..n) |-> CHOOSE x \in T : \A y \in T : x >= y]

LEMMA GreatestIn ==
    ASSUME NEW n \in Nat
    PROVE  /\ \A T \in SUBSET (1..n) : T # {} => /\ Greatest(n)[T] \in T
                                                 /\ \A y \in T : Greatest(n)[T] >= y
           /\ Chooses(Greatest(n), 1..n)
           /\ \A i \in 1..n : Greatest(n)[1..i] = i /\ (1..i) \ {i} = 1..(i - 1) /\ 1..i # {}
<1>1. ASSUME NEW T \in SUBSET (1..n), T # {}
      PROVE  \E x \in T : \A y \in T : x >= y
  <2> DEFINE U == {k \in Nat : \A y \in T : y <= k}
  <2>1. n \in U
    OBVIOUS
  <2>2. PICK m \in U : \A k \in U : m <= k
    BY Zenon, <2>1, LeastNat
  <2>3. m \in Nat /\ \A y \in T : y <= m
    BY <2>2
  <2>4. m \in T
    <3> SUFFICES ASSUME m \notin T PROVE FALSE
      OBVIOUS
    <3>1. PICK z \in T : TRUE
      BY Zenon, <1>1
    <3>2. m - 1 \in Nat /\ \A y \in T : y <= m - 1
      BY <2>3, <3>1
    <3>3. m - 1 \in U
      BY <3>2
    <3> HIDE DEF U
    <3> QED
      BY <2>2, <2>3, <3>3
  <2> QED
    BY <2>3, <2>4
<1>2. ASSUME NEW T \in SUBSET (1..n), T # {}
      PROVE  Greatest(n)[T] \in T /\ \A y \in T : Greatest(n)[T] >= y
  <2>1. \E x \in T : \A y \in T : x >= y
    BY <1>1, <1>2
  <2> QED
    BY Zenon, <2>1 DEF Greatest
<1>3. ASSUME NEW i \in 1..n PROVE Greatest(n)[1..i] = i /\ (1..i) \ {i} = 1..(i - 1) /\ 1..i # {}
  <2>1. 1..i \in SUBSET (1..n) /\ 1..i # {} /\ i \in 1..i
    OBVIOUS
  <2>2. Greatest(n)[1..i] \in 1..i /\ Greatest(n)[1..i] >= i
    BY Zenon, <1>2, <2>1
  <2> QED
    BY <2>1, <2>2
<1> QED
  BY Zenon, <1>2, <1>3 DEF Chooses

Runs(r, n, V, base, G) == /\ r \in [0..n -> V]
                          /\ r[0] = base
                          /\ \A i \in 1..n : r[i] = G[i][r[i - 1]]

LEMMA FoldRuns ==
    ASSUME NEW n \in Nat, NEW V, NEW base \in V, NEW G \in [1..n -> [V -> V]]
    PROVE  \E it : /\ FoldTable(it, 1..n, V, base, Greatest(n), G)
                   /\ Runs([i \in 0..n |-> it[1..i]], n, V, base, G)
<1>1. IsFiniteSet(1..n)
  BY FiniteInterval
<1>2. Chooses(Greatest(n), 1..n)
  BY GreatestIn
<1>3. PICK it : FoldTable(it, 1..n, V, base, Greatest(n), G)
  BY ZenonT(60), <1>1, <1>2, FoldExists
<1> DEFINE r == [i \in 0..n |-> it[1..i]]
<1>4. \A i \in 0..n : 1..i \in SUBSET (1..n)
  OBVIOUS
<1>5. it \in [SUBSET (1..n) -> V]
  BY <1>3 DEF FoldTable
<1>6. r \in [0..n -> V]
  BY <1>4, <1>5
<1>7. r[0] = base
  <2>1. 1..0 = {} /\ {} \in SUBSET (1..n)
    OBVIOUS
  <2>2. it[{}] = base
    BY Zenon, <1>3, <2>1 DEF FoldTable
  <2> QED
    BY <2>1, <2>2
<1>8. ASSUME NEW i \in 1..n PROVE r[i] = G[i][r[i - 1]]
  <2>1. Greatest(n)[1..i] = i /\ (1..i) \ {i} = 1..(i - 1) /\ 1..i # {}
    BY Zenon, GreatestIn
  <2>2. it[1..i] = G[Greatest(n)[1..i]][it[(1..i) \ {Greatest(n)[1..i]}]]
    <3> DEFINE T == 1..i
    <3>1. T \in SUBSET (1..n) /\ T # {}
      BY <1>4, <2>1
    <3> HIDE DEF T
    <3>2. it[T] = G[Greatest(n)[T]][it[T \ {Greatest(n)[T]}]]
      BY Zenon, <1>3, <3>1 DEF FoldTable
    <3> QED
      BY <3>2 DEF T
  <2>3. r[i] = it[1..i] /\ r[i - 1] = it[1..(i - 1)]
    OBVIOUS
  <2> QED
    BY Zenon, <2>1, <2>2, <2>3
<1> HIDE DEF r
<1>9. Runs(r, n, V, base, G)
  BY <1>6, <1>7, <1>8 DEF Runs
<1> QED
  BY Zenon, <1>3, <1>9 DEF r

\* Induction up to n, from 0 and from what holds below.
LEMMA InductionUpTo ==
    ASSUME NEW n \in Nat, NEW P \in SUBSET (0..n), 0 \in P,
           \A i \in 1..n : i - 1 \in P => i \in P
    PROVE  P = 0..n
<1> SUFFICES ASSUME (0..n) \ P # {} PROVE FALSE
  BY Zenon
<1>1. (0..n) \ P \in SUBSET Nat
  OBVIOUS
<1>2. PICK m \in (0..n) \ P : \A k \in (0..n) \ P : m <= k
  BY Zenon, <1>1, LeastNat
<1>3. m \in 1..n /\ m - 1 \in 0..n
  BY <1>2
<1>4. m - 1 \in P
  BY <1>2, <1>3
<1> QED
  BY <1>2, <1>3, <1>4

LEMMA StrongUpTo ==
    ASSUME NEW n \in Nat, NEW P,
           \A i \in 1..n : (\A m \in 1..(i - 1) : m \in P) => i \in P
    PROVE  \A i \in 1..n : i \in P
<1> SUFFICES ASSUME (1..n) \ P # {} PROVE FALSE
  OBVIOUS
<1>1. (1..n) \ P \in SUBSET Nat
  OBVIOUS
<1>2. PICK i \in (1..n) \ P : \A k \in (1..n) \ P : i <= k
  BY Zenon, <1>1, LeastNat
<1>3. \A m \in 1..(i - 1) : m \in P
  BY <1>2
<1> QED
  BY <1>2, <1>3


(***************************************************************************)
(* Division of natural numbers.                                             *)
(***************************************************************************)
LEMMA DivFacts ==
    ASSUME NEW a \in Nat, NEW b \in Nat \ {0}
    PROVE  a \div b \in Nat /\ (a \div b) * b <= a /\ a < (a \div b) * b + b
OBVIOUS

LEMMA MulMono ==
    ASSUME NEW a \in Int, NEW b \in Int, NEW c \in Nat, a <= b
    PROVE  a * c <= b * c
OBVIOUS

LEMMA MulCancel ==
    ASSUME NEW a \in Int, NEW b \in Int, NEW c \in Nat \ {0}, a * c <= b * c
    PROVE  a <= b
OBVIOUS

LEMMA MulNat ==
    ASSUME NEW a \in Nat, NEW b \in Nat
    PROVE  a * b \in Nat
OBVIOUS

LEMMA ModUnique ==
    ASSUME NEW x \in Nat, NEW r \in Nat \ {0}, NEW k \in Nat, x - k * r \in 0..(r - 1)
    PROVE  x % r = x - k * r
<1> DEFINE q == x \div r
           m == x % r
           d == x - k * r
<1>1. q \in Nat /\ m \in 0..(r - 1) /\ x = r * q + m
  OBVIOUS
<1>2. d \in 0..(r - 1) /\ x = k * r + d
  BY MulNat
<1> HIDE DEF q, m, d
<1>3. (q - k) * r = d - m
  <2>1. (q - k) * r = q * r - k * r
    BY <1>1
  <2>2. r * q = q * r /\ q * r \in Int /\ k * r \in Int
    BY <1>1
  <2> QED
    BY <1>1, <1>2, <2>1, <2>2
<1>4. ~(q - k >= 1)
  <2> SUFFICES ASSUME q - k >= 1 PROVE FALSE
    OBVIOUS
  <2>1. 1 * r <= (q - k) * r
    BY <1>1, MulMono
  <2> QED
    BY <1>1, <1>2, <1>3, <2>1
<1>5. ~(q - k <= -1)
  <2> SUFFICES ASSUME q - k <= -1 PROVE FALSE
    OBVIOUS
  <2>1. (q - k) * r <= (-1) * r
    BY <1>1, MulMono
  <2> QED
    BY <1>1, <1>2, <1>3, <2>1
<1>6. q = k
  BY <1>1, <1>4, <1>5
<1>7. m = d
  BY <1>1, <1>2, <1>3, <1>6
<1> QED
  BY <1>7 DEF m, d
=============================================================================

---------------------------- MODULE Sorting_proofs ----------------------------
(***************************************************************************)
(* What Sorted, Ascending and KeptAt return for every finite set.  A       *)
(* lemma cannot take an order as a parameter, so Ranks takes the set of    *)
(* elements before each one; each use of Sorted has its own corollary.     *)
(* LeastNumber is for arguments along a route or a list: what fails        *)
(* somewhere fails first at some place.                                    *)
(***************************************************************************)
EXTENDS Sorting, FiniteSetTheorems, WellFoundedInduction, TLAPS

\* A set of natural numbers that is not empty has a least element.
LEMMA LeastNumber ==
    ASSUME NEW S \in SUBSET Nat, S # {}
    PROVE  \E n \in S : \A k \in S : n <= k
<1>1. PICK n \in S : \A k \in S : ~ (<<k, n>> \in OpToRel(<, Nat))
  BY NatLessThanWellFounded, WFMin
<1>2. \A k \in S : ~ (k < n)
  BY <1>1 DEF OpToRel
<1> QED
  BY <1>2

\* In a finite set with a strict total order, given by the sets of the elements
\* before each one, every number below the cardinality is the rank of one element.
LEMMA Ranks ==
    ASSUME NEW S, IsFiniteSet(S), NEW below \in [S -> SUBSET S],
           \A x \in S : x \notin below[x],
           \A x, y \in S : x = y \/ x \in below[y] \/ y \in below[x],
           \A x, y \in S : x \in below[y] => below[x] \subseteq below[y]
    PROVE  /\ \A i \in 1 .. Cardinality(S) : \E x \in S : Cardinality(below[x]) = i - 1
           /\ \A x, y \in S : Cardinality(below[x]) = Cardinality(below[y]) => x = y
           /\ \A x, y \in S : x \in below[y] <=> Cardinality(below[x]) < Cardinality(below[y])
           /\ \A x \in S : Cardinality(below[x]) \in 0 .. Cardinality(S) - 1
<1> DEFINE Rank(x) == Cardinality(below[x])
           Ranking == [x \in S |-> Rank(x)]
<1>1. Cardinality(S) \in Nat
  BY FS_CardinalityType
<1>2. \A x \in S : IsFiniteSet(below[x]) /\ Rank(x) \in Nat
  <2> TAKE x \in S
  <2>1. below[x] \subseteq S
    OBVIOUS
  <2>2. IsFiniteSet(below[x])
    BY <2>1, FS_Subset
  <2> QED
    BY <2>2, FS_CardinalityType
<1>3. ASSUME NEW x \in S, NEW y \in S, x \in below[y] PROVE Rank(x) < Rank(y)
  <2>1. below[x] \cup {x} \subseteq below[y] /\ x \notin below[x]
    BY <1>3
  <2>2. Cardinality(below[x] \cup {x}) = Rank(x) + 1
    BY <1>2, <2>1, FS_AddElement
  <2>3. Cardinality(below[x] \cup {x}) <= Rank(y)
    BY <1>2, <2>1, FS_Subset
  <2> QED
    BY <1>2, <2>2, <2>3
<1>4. \A x, y \in S : x # y => Rank(x) < Rank(y) \/ Rank(y) < Rank(x)
  BY <1>3
<1>5. \A x, y \in S : Rank(x) = Rank(y) => x = y
  <2> HIDE DEF Rank
  <2> QED
    BY <1>2, <1>4
<1>6. \A x, y \in S : x \in below[y] <=> Rank(x) < Rank(y)
  <2> SUFFICES ASSUME NEW x \in S, NEW y \in S, Rank(x) < Rank(y)
               PROVE  x \in below[y]
    BY <1>3
  <2>1. x # y /\ y \notin below[x]
    <3> HIDE DEF Rank
    <3> QED
      BY <1>2, <1>3
  <2> QED
    BY <2>1
<1>7. \A x \in S : Rank(x) \in 0 .. Cardinality(S) - 1
  <2> TAKE x \in S
  <2>1. below[x] \cup {x} \subseteq S /\ x \notin below[x]
    OBVIOUS
  <2>2. Cardinality(below[x] \cup {x}) = Rank(x) + 1
    BY <1>2, <2>1, FS_AddElement
  <2>3. Cardinality(below[x] \cup {x}) <= Cardinality(S)
    BY <2>1, FS_Subset
  <2> HIDE DEF Rank
  <2> QED
    BY <1>1, <1>2, <2>2, <2>3
<1>8. \A i \in 1 .. Cardinality(S) : \E x \in S : Rank(x) = i - 1
  <2> DEFINE T == 0 .. Cardinality(S) - 1
  <2>1. IsFiniteSet(T) /\ Cardinality(T) = Cardinality(S)
    <3>1. 0 <= Cardinality(S)
      BY <1>1
    <3>2. Cardinality(S) - 1 \in Int /\ 0 \in Int
      BY <1>1
    <3> DEFINE m == Cardinality(S) - 1
    <3>3. /\ IsFiniteSet(0 .. m)
          /\ Cardinality(0 .. m) = IF 0 > m THEN 0 ELSE m - 0 + 1
      <4> HIDE DEF m
      <4> QED
        BY <3>2, FS_Interval DEF m
    <3>4. (IF 0 > m THEN 0 ELSE m - 0 + 1) = Cardinality(S)
      <4>1. \A n \in Nat : (IF 0 > n - 1 THEN 0 ELSE (n - 1) - 0 + 1) = n
        OBVIOUS
      <4> QED
        BY <1>1, <4>1
    <3> QED
      BY <3>3, <3>4
  <2>2. Ranking \in Injection(S, T)
    <3>1. Ranking \in [S -> T]
      BY <1>7
    <3>2. \A x, y \in S : Ranking[x] = Ranking[y] => x = y
      BY <1>5
    <3> HIDE DEF Ranking, T
    <3> QED
      BY <3>1, <3>2 DEF Injection, IsInjective
  <2>3. Ranking \in Surjection(S, T)
    <3> HIDE DEF Ranking, T
    <3> QED
      BY <2>1, <2>2, FS_Injection
  <2>4. ASSUME NEW i \in 1 .. Cardinality(S) PROVE i - 1 \in T
    BY <1>1
  <2>5. \A j \in T : \E x \in S : Ranking[x] = j
    <3> HIDE DEF Ranking, T
    <3> QED
      BY <2>3 DEF Surjection
  <2> HIDE DEF T
  <2> QED
    BY <2>4, <2>5
<1> QED
  BY <1>5, <1>6, <1>7, <1>8

\* Ascending(S) holds all elements of S, each at one place, in ascending order.
LEMMA AscendingOf ==
    ASSUME NEW S \in SUBSET Int, IsFiniteSet(S)
    PROVE  /\ Cardinality(S) \in Nat
           /\ Ascending(S) \in [1 .. Cardinality(S) -> S]
           /\ \A i \in 1 .. Cardinality(S) :
                 Cardinality({k \in S : k < Ascending(S)[i]}) = i - 1
           /\ \A n \in S : \E i \in 1 .. Cardinality(S) : Ascending(S)[i] = n
           /\ \A i, j \in 1 .. Cardinality(S) : i < j => Ascending(S)[i] < Ascending(S)[j]
           /\ \A i, j \in 1 .. Cardinality(S) : Ascending(S)[i] = Ascending(S)[j] => i = j
<1> DEFINE below == [n \in S |-> {k \in S : k < n}]
           A == Ascending(S)
           N == 1 .. Cardinality(S)
<1>1. Cardinality(S) \in Nat
  BY FS_CardinalityType
<1>2. below \in [S -> SUBSET S]
  OBVIOUS
<1>3. /\ \A x \in S : x \notin below[x]
      /\ \A x, y \in S : x = y \/ x \in below[y] \/ y \in below[x]
      /\ \A x, y \in S : x \in below[y] => below[x] \subseteq below[y]
  <2>1. \A x, y \in S : x \in below[y] <=> x < y
    OBVIOUS
  <2>2. \A x, y \in Int : ~ (x < x) /\ (x = y \/ x < y \/ y < x)
    OBVIOUS
  <2>3. \A x, y, z \in Int : x < y /\ z < x => z < y
    OBVIOUS
  <2> HIDE DEF below
  <2> QED
    BY <1>2, <2>1, <2>2, <2>3
<1>4. /\ \A i \in N : \E x \in S : Cardinality(below[x]) = i - 1
      /\ \A x, y \in S : x \in below[y] <=> Cardinality(below[x]) < Cardinality(below[y])
      /\ \A x \in S : Cardinality(below[x]) \in 0 .. Cardinality(S) - 1
      /\ \A x, y \in S : Cardinality(below[x]) = Cardinality(below[y]) => x = y
  <2> HIDE DEF below
  <2> QED
    BY <1>2, <1>3, Ranks
<1>5. \A x \in S : Cardinality(below[x]) = Cardinality({k \in S : k < x})
  OBVIOUS
<1>6. \A i \in N : A[i] \in S /\ Cardinality({k \in S : k < A[i]}) = i - 1
  <2> TAKE i \in N
  <2>1. A[i] = CHOOSE x \in S : Cardinality({k \in S : k < x}) = i - 1
    BY DEF Ascending, Sorted
  <2>2. \E x \in S : Cardinality({k \in S : k < x}) = i - 1
    BY <1>4, <1>5
  <2> HIDE DEF A
  <2>3. A[i] \in S /\ Cardinality({k \in S : k < A[i]}) = i - 1
    <3> HIDE DEF A
    <3> QED
      BY <2>1, <2>2
  <2> QED
    BY <2>3
<1>7. A \in [N -> S]
  <2> DEFINE Nth(i) == CHOOSE x \in S : Cardinality({k \in S : k < x}) = i - 1
  <2>1. A = [i \in N |-> Nth(i)]
    BY DEF Ascending, Sorted
  <2> HIDE DEF A, Nth
  <2>2. \A i \in N : Nth(i) \in S
    BY <1>6, <2>1
  <2> QED
    BY <2>1, <2>2
<1>8. \A i \in N : Cardinality(below[A[i]]) = i - 1
  <2> HIDE DEF A, below
  <2> QED
    BY <1>5, <1>6
<1>9. ASSUME NEW n \in S PROVE \E i \in N : A[i] = n
  <2> DEFINE i == Cardinality(below[n]) + 1
  <2>1. i \in N /\ Cardinality(below[n]) = i - 1
    BY <1>1, <1>4
  <2>2. Cardinality(below[A[i]]) = Cardinality(below[n])
    BY <1>8, <2>1
  <2> HIDE DEF A, below, i
  <2> QED
    BY <1>4, <1>6, <2>1, <2>2
<1>10. ASSUME NEW i \in N, NEW j \in N, i < j PROVE A[i] < A[j]
  <2>1. Cardinality(below[A[i]]) < Cardinality(below[A[j]])
    <3>1. i - 1 < j - 1
      BY <1>1, <1>10
    <3> HIDE DEF A, below
    <3> QED
      BY <1>8, <3>1
  <2>2. A[i] \in below[A[j]]
    <3> HIDE DEF A, below
    <3> QED
      BY <1>4, <1>6, <2>1
  <2> QED
    BY <1>6, <2>2
<1>11. ASSUME NEW i \in N, NEW j \in N, A[i] = A[j] PROVE i = j
  <2>1. i - 1 = j - 1
    BY <1>8, <1>11
  <2> QED
    BY <1>1, <2>1
<1> QED
  BY <1>1, <1>6, <1>7, <1>9, <1>10, <1>11

\* An element is where its rank says.
LEMMA AscendingAt ==
    ASSUME NEW S \in SUBSET Int, IsFiniteSet(S), NEW n \in S,
           NEW i \in 1 .. Cardinality(S), Cardinality({k \in S : k < n}) = i - 1
    PROVE  Ascending(S)[i] = n
<1>1. PICK j \in 1 .. Cardinality(S) : Ascending(S)[j] = n
  BY AscendingOf
<1>2. Cardinality({k \in S : k < n}) = j - 1
  <2>1. Cardinality({k \in S : k < Ascending(S)[j]}) = j - 1
    BY AscendingOf
  <2> QED
    BY <1>1, <2>1
<1>3. i = j
  <2>1. Cardinality(S) \in Nat /\ i - 1 = j - 1
    BY <1>2, FS_CardinalityType
  <2> QED
    BY <2>1
<1> QED
  BY <1>1, <1>3

\* A greater number comes last.
LEMMA AscendingLonger ==
    ASSUME NEW S \in SUBSET Int, IsFiniteSet(S), NEW n \in Int, \A k \in S : k < n
    PROVE  /\ IsFiniteSet(S \cup {n})
           /\ Cardinality(S \cup {n}) = Cardinality(S) + 1
           /\ \A i \in 1 .. Cardinality(S) : Ascending(S \cup {n})[i] = Ascending(S)[i]
           /\ Ascending(S \cup {n})[Cardinality(S) + 1] = n
<1> DEFINE L == S \cup {n}
<1>1. n \notin S
  OBVIOUS
<1>2. Cardinality(S) \in Nat /\ IsFiniteSet(L) /\ Cardinality(L) = Cardinality(S) + 1
  BY <1>1, FS_CardinalityType, FS_AddElement
<1>3. L \in SUBSET Int
  OBVIOUS
<1>4. ASSUME NEW i \in 1 .. Cardinality(S) PROVE Ascending(L)[i] = Ascending(S)[i]
  <2>1. /\ Ascending(S)[i] \in S
        /\ Cardinality({k \in S : k < Ascending(S)[i]}) = i - 1
    BY AscendingOf
  <2>2. {k \in L : k < Ascending(S)[i]} = {k \in S : k < Ascending(S)[i]}
    <3>1. \A m \in S : m \in Int /\ m < n /\ ~ (n < m)
      OBVIOUS
    <3> QED
      BY <2>1, <3>1
  <2>3. i \in 1 .. Cardinality(L) /\ Ascending(S)[i] \in L
    BY <1>2, <2>1
  <2> HIDE DEF L
  <2> QED
    BY <1>2, <1>3, <2>1, <2>2, <2>3, AscendingAt
<1>5. Ascending(L)[Cardinality(S) + 1] = n
  <2>1. {k \in L : k < n} = S
    <3>1. ~ (n < n)
      OBVIOUS
    <3> QED
      BY <3>1
  <2>2. Cardinality({k \in L : k < n}) = (Cardinality(S) + 1) - 1
    BY <1>2, <2>1
  <2>3. Cardinality(S) + 1 \in 1 .. Cardinality(L) /\ n \in L
    BY <1>2
  <2> HIDE DEF L
  <2> QED
    BY <1>2, <1>3, <2>2, <2>3, AscendingAt
<1> QED
  BY <1>2, <1>4, <1>5

\* KeptAt returns the elements at the places, each once, in order.
LEMMA KeptAtOf ==
    ASSUME NEW T, NEW seq \in Seq(T), NEW places \in SUBSET DOMAIN seq
    PROVE  /\ IsFiniteSet(places) /\ Cardinality(places) \in Nat
           /\ KeptAt(seq, places) \in Seq(T)
           /\ DOMAIN KeptAt(seq, places) = 1 .. Cardinality(places)
           /\ Len(KeptAt(seq, places)) = Cardinality(places)
           /\ \A i \in 1 .. Cardinality(places) :
                 /\ Ascending(places)[i] \in places
                 /\ KeptAt(seq, places)[i] = seq[Ascending(places)[i]]
           /\ \A n \in places : \E i \in 1 .. Cardinality(places) : Ascending(places)[i] = n
<1>1. DOMAIN seq = 1 .. Len(seq) /\ Len(seq) \in Nat
  OBVIOUS
<1>2. IsFiniteSet(1 .. Len(seq))
  BY <1>1, FS_Interval
<1>3. IsFiniteSet(places) /\ places \in SUBSET Int
  BY <1>1, <1>2, FS_Subset
<1>4. /\ Cardinality(places) \in Nat
      /\ \A i \in 1 .. Cardinality(places) : Ascending(places)[i] \in places
      /\ \A n \in places : \E i \in 1 .. Cardinality(places) : Ascending(places)[i] = n
  BY <1>3, AscendingOf
<1>5. \A n \in places : seq[n] \in T
  BY <1>1
<1> DEFINE A == Ascending(places)
           N == Cardinality(places)
<1>6. KeptAt(seq, places) = [i \in 1 .. N |-> seq[A[i]]]
  BY DEF KeptAt
<1>7. KeptAt(seq, places) \in [1 .. N -> T]
  BY <1>4, <1>5, <1>6
<1>8. KeptAt(seq, places) \in Seq(T) /\ Len(KeptAt(seq, places)) = N
  <2> HIDE DEF N
  <2>1. N \in Nat
    BY <1>4 DEF N
  <2> QED
    BY <1>6, <1>7, <2>1
<1> QED
  BY <1>3, <1>4, <1>6, <1>8
================================================================================

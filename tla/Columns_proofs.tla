---------------------------- MODULE Columns_proofs -----------------------------
(***************************************************************************)
(* What the edges of a plan are worth.  A sum over a finite set does not   *)
(* depend on the order in which it is added up; added up along the routes  *)
(* of the trucks, the costs of the edges are the orders' revenues and the  *)
(* ways to them, and so what Checker::Check returns.  And the edges of     *)
(* every route that a truck can drive are columns: none of the tests of    *)
(* CreateModel and not the filter leaves one out.                          *)
(***************************************************************************)
EXTENDS Columns, Checker_proofs

-----------------------------------------------------------------------------
(***************************************************************************)
(* Sums.                                                                   *)
(***************************************************************************)
\* Among sets of elements of a finite set there is one that is not in the sets any more
\* when an element is taken out of it.
LEMMA MinimalSet ==
    ASSUME NEW S, IsFiniteSet(S), NEW Sets \in SUBSET (SUBSET S), Sets # {}
    PROVE  \E T \in Sets : \A x \in T : T \ {x} \notin Sets
<1>1. \A T \in SUBSET S : IsFiniteSet(T) /\ Cardinality(T) \in Nat
  BY FS_Subset, FS_CardinalityType
<1> DEFINE Sizes == {Cardinality(T) : T \in Sets}
<1>2. Sizes \in SUBSET Nat /\ Sizes # {}
  BY <1>1
<1>3. PICK n \in Sizes : \A k \in Sizes : n <= k
  BY <1>2, LeastNumber
<1>4. PICK T \in Sets : n = Cardinality(T)
  BY <1>3
<1>5. ASSUME NEW x \in T PROVE T \ {x} \notin Sets
  <2>1. Cardinality(T \ {x}) = Cardinality(T) - 1
    BY <1>1, FS_RemoveElement
  <2>2. Cardinality(T) \in Nat /\ ~ (Cardinality(T) <= Cardinality(T) - 1)
    BY <1>1
  <2> QED
    BY <1>3, <1>4, <2>1, <2>2
<1> QED
  BY <1>5

\* One step of the recursion by which the library defines a sum.
SumStep(f, sums, s) ==
    IF s = {} THEN 0 ELSE f[CHOOSE x \in s : TRUE] + sums[s \ {CHOOSE x \in s : TRUE}]

\* The recursion has a solution on the subsets of a finite set.
LEMMA SumsExist ==
    ASSUME NEW f, NEW S, IsFiniteSet(S)
    PROVE  \E sums : sums = [s \in SUBSET S |-> SumStep(f, sums, s)]
<1>1. \A T \in SUBSET S : IsFiniteSet(T) /\ Cardinality(T) \in Nat
  BY FS_Subset, FS_CardinalityType
<1> DEFINE Small(n) == {s \in SUBSET S : Cardinality(s) <= n}
           Solves(sums, n) == sums = [s \in Small(n) |-> SumStep(f, sums, s)]
           Missing == {n \in Nat : ~ \E sums : Solves(sums, n)}
<1>2. ASSUME Missing # {} PROVE FALSE
  <2>1. PICK n \in Missing : \A k \in Missing : n <= k
    BY <1>2, LeastNumber
  <2>2. ASSUME n = 0 PROVE FALSE
    <3>1. \A s \in Small(0) : s = {}
      <4> SUFFICES ASSUME NEW s \in Small(0) PROVE s = {}
        OBVIOUS
      <4>1. Cardinality(s) = 0
        BY <1>1
      <4> QED
        BY <1>1, <4>1, FS_EmptySet
    <3>2. Solves([s \in Small(0) |-> 0], 0)
      BY <3>1 DEF SumStep
    <3> QED
      BY <2>1, <2>2, <3>2
  <2>3. n - 1 \in Nat /\ n \in Nat /\ ~ (n <= n - 1)
    BY <2>1, <2>2
  <2>4. PICK sums : Solves(sums, n - 1)
    BY <2>1, <2>3
  <2> DEFINE next == [s \in Small(n) |-> SumStep(f, sums, s)]
  <2>5. ASSUME NEW s \in Small(n) PROVE next[s] = SumStep(f, next, s)
    <3> DEFINE x == CHOOSE x \in s : TRUE
    <3>1. CASE s = {}
      BY <2>5, <3>1 DEF SumStep
    <3>2. CASE s # {}
      <4>1. x \in s
        BY <3>2
      <4>2. Cardinality(s \ {x}) = Cardinality(s) - 1 /\ Cardinality(s) \in Nat
        BY <1>1, <4>1, FS_RemoveElement
      <4>3. s \ {x} \in Small(n - 1) /\ s \ {x} \in Small(n)
        BY <2>3, <4>2
      <4>4. next[s \ {x}] = sums[s \ {x}]
        BY <2>4, <4>3
      <4> QED
        BY <3>2, <4>4 DEF SumStep
    <3> QED
      BY <3>1, <3>2
  <2>6. Solves(next, n)
    <3>1. next = [s \in Small(n) |-> next[s]]
      OBVIOUS
    <3> HIDE DEF next, Small
    <3> QED
      BY <2>5, <3>1
  <2> QED
    BY <2>1, <2>6
<1>3. Cardinality(S) \in Nat /\ Small(Cardinality(S)) = SUBSET S
  <2>1. \A s \in SUBSET S : Cardinality(s) <= Cardinality(S)
    BY FS_Subset
  <2> QED
    BY <1>1, <2>1
<1>4. PICK sums : Solves(sums, Cardinality(S))
  BY <1>2, <1>3
<1> QED
  BY <1>3, <1>4

LEMMA SumIs ==
    ASSUME NEW f, NEW S, IsFiniteSet(S)
    PROVE  \E sums : /\ sums = [s \in SUBSET S |-> SumStep(f, sums, s)]
                     /\ SumFunctionOnSet(f, S) = sums[S]
<1> DEFINE sums == CHOOSE sums : sums = [s \in SUBSET S |-> SumStep(f, sums, s)]
<1>1. sums = [s \in SUBSET S |-> SumStep(f, sums, s)]
  BY SumsExist
<1>2. SumFunctionOnSet(f, S) = sums[S]
  BY DEF SumFunctionOnSet, FoldFunctionOnSet, MapThenFoldSet, SumStep
<1> QED
  BY <1>1, <1>2

\* The sum takes out the chosen element first.
LEMMA SumChosen ==
    ASSUME NEW f, NEW S, IsFiniteSet(S)
    PROVE  SumFunctionOnSet(f, S) =
              IF S = {} THEN 0
              ELSE f[CHOOSE x \in S : TRUE] + SumFunctionOnSet(f, S \ {CHOOSE x \in S : TRUE})
<1>1. PICK sums : /\ sums = [s \in SUBSET S |-> SumStep(f, sums, s)]
                  /\ SumFunctionOnSet(f, S) = sums[S]
  BY SumIs
<1>2. CASE S = {}
  BY <1>1, <1>2 DEF SumStep
<1>3. CASE S # {}
  <2> DEFINE x == CHOOSE x \in S : TRUE
             R == S \ {x}
  <2>1. IsFiniteSet(R)
    BY FS_Subset
  <2>2. PICK rest : /\ rest = [s \in SUBSET R |-> SumStep(f, rest, s)]
                    /\ SumFunctionOnSet(f, R) = rest[R]
    BY <2>1, SumIs
  <2> DEFINE Differ == {s \in SUBSET R : sums[s] # rest[s]}
  <2>3. ASSUME Differ # {} PROVE FALSE
    <3>1. PICK T \in Differ : \A y \in T : T \ {y} \notin Differ
      <4>1. Differ \in SUBSET (SUBSET R)
        OBVIOUS
      <4> HIDE DEF Differ
      <4> QED
        BY <2>1, <2>3, <4>1, MinimalSet
    <3>2. T \in SUBSET R /\ T \in SUBSET S
      BY <3>1
    <3>3. sums[T] = SumStep(f, sums, T) /\ rest[T] = SumStep(f, rest, T)
      BY <1>1, <2>2, <3>2
    <3>4. T # {} => LET y == CHOOSE y \in T : TRUE IN sums[T \ {y}] = rest[T \ {y}]
      BY <3>1, <3>2
    <3>5. SumStep(f, sums, T) = SumStep(f, rest, T)
      BY <3>4 DEF SumStep
    <3> QED
      BY <3>1, <3>3, <3>5
  <2>4. sums[R] = rest[R]
    BY <2>3
  <2>5. sums[S] = f[x] + sums[R]
    BY <1>1, <1>3 DEF SumStep
  <2> QED
    BY <1>1, <1>3, <2>2, <2>4, <2>5
<1> QED
  BY <1>2, <1>3

LEMMA SumType ==
    ASSUME NEW S, IsFiniteSet(S), NEW f, \A x \in S : f[x] \in Int
    PROVE  SumFunctionOnSet(f, S) \in Int
<1> DEFINE Bad == {T \in SUBSET S : SumFunctionOnSet(f, T) \notin Int}
<1>1. ASSUME Bad # {} PROVE FALSE
  <2>1. PICK T \in Bad : \A x \in T : T \ {x} \notin Bad
    <3>1. Bad \in SUBSET (SUBSET S)
      OBVIOUS
    <3> HIDE DEF Bad
    <3> QED
      BY <1>1, <3>1, MinimalSet
  <2>2. IsFiniteSet(T) /\ T \in SUBSET S
    BY <2>1, FS_Subset
  <2> DEFINE y == CHOOSE y \in T : TRUE
  <2>3. SumFunctionOnSet(f, T) = IF T = {} THEN 0 ELSE f[y] + SumFunctionOnSet(f, T \ {y})
    BY <2>2, SumChosen
  <2>4. CASE T = {}
    BY <2>1, <2>3, <2>4
  <2>5. CASE T # {}
    <3>1. y \in T
      BY <2>5
    <3> HIDE DEF y
    <3>2. SumFunctionOnSet(f, T \ {y}) \in Int /\ f[y] \in Int
      BY <2>1, <2>2, <3>1
    <3> QED
      BY <2>1, <2>3, <2>5, <3>2
  <2> QED
    BY <2>4, <2>5
<1> QED
  BY <1>1

\* It does not matter which element is taken out first.
LEMMA SumWithout ==
    ASSUME NEW S, IsFiniteSet(S), NEW f, \A x \in S : f[x] \in Int, NEW x \in S
    PROVE  SumFunctionOnSet(f, S) = f[x] + SumFunctionOnSet(f, S \ {x})
<1> DEFINE Bad == {T \in SUBSET S : \E z \in T : SumFunctionOnSet(f, T) #
                                                   f[z] + SumFunctionOnSet(f, T \ {z})}
<1>1. \A T \in SUBSET S : IsFiniteSet(T) /\ SumFunctionOnSet(f, T) \in Int
  BY FS_Subset, SumType
<1>2. ASSUME Bad # {} PROVE FALSE
  <2>1. PICK T \in Bad : \A z \in T : T \ {z} \notin Bad
    <3>1. Bad \in SUBSET (SUBSET S)
      OBVIOUS
    <3> HIDE DEF Bad
    <3> QED
      BY <1>2, <3>1, MinimalSet
  <2>2. PICK z \in T : SumFunctionOnSet(f, T) # f[z] + SumFunctionOnSet(f, T \ {z})
    BY <2>1
  <2> DEFINE y == CHOOSE y \in T : TRUE
  <2>3. T \in SUBSET S /\ y \in T
    BY <2>1, <2>2
  <2>4. SumFunctionOnSet(f, T) = f[y] + SumFunctionOnSet(f, T \ {y})
    BY <1>1, <2>3, SumChosen
  <2> HIDE DEF y
  <2>5. y # z
    BY <2>2, <2>4
  <2>6. SumFunctionOnSet(f, T \ {y}) = f[z] + SumFunctionOnSet(f, (T \ {y}) \ {z})
    <3>1. T \ {y} \in SUBSET S /\ T \ {y} \notin Bad /\ z \in T \ {y}
      BY <2>1, <2>2, <2>3, <2>5
    <3> QED
      BY <3>1
  <2>7. SumFunctionOnSet(f, T \ {z}) = f[y] + SumFunctionOnSet(f, (T \ {z}) \ {y})
    <3>1. T \ {z} \in SUBSET S /\ T \ {z} \notin Bad /\ y \in T \ {z}
      BY <2>1, <2>2, <2>3, <2>5
    <3> QED
      BY <3>1
  <2> DEFINE rest == SumFunctionOnSet(f, (T \ {y}) \ {z})
  <2>8. (T \ {y}) \ {z} = (T \ {z}) \ {y}
    OBVIOUS
  <2>9. f[y] \in Int /\ f[z] \in Int /\ rest \in Int
    BY <1>1, <2>2, <2>3
  <2>10. SumFunctionOnSet(f, T \ {z}) = f[y] + rest
    BY <2>7, <2>8
  <2>11. SumFunctionOnSet(f, T) = f[y] + (f[z] + rest)
    BY <2>4, <2>6
  <2> HIDE DEF rest
  <2> QED
    BY <2>2, <2>9, <2>10, <2>11
<1> QED
  BY <1>2

LEMMA SumEmpty == \A f : SumFunctionOnSet(f, {}) = 0
BY SumChosen, FS_EmptySet

\* total is 0 for no elements and grows by f[x] with every element x.
Counts(f, S, total) ==
    /\ \A x \in S : f[x] \in Int
    /\ total \in [SUBSET S -> Int]
    /\ total[{}] = 0
    /\ \A T \in SUBSET S : \A x \in T : total[T] = f[x] + total[T \ {x}]

\* Only the sum does.
LEMMA SumUnique ==
    ASSUME NEW S, IsFiniteSet(S), NEW f, NEW total, Counts(f, S, total)
    PROVE  SumFunctionOnSet(f, S) = total[S]
<1> USE DEF Counts
<1> DEFINE Bad == {T \in SUBSET S : SumFunctionOnSet(f, T) # total[T]}
<1>1. ASSUME Bad # {} PROVE FALSE
  <2>1. PICK T \in Bad : \A x \in T : T \ {x} \notin Bad
    <3>1. Bad \in SUBSET (SUBSET S)
      OBVIOUS
    <3> HIDE DEF Bad
    <3> QED
      BY <1>1, <3>1, MinimalSet
  <2>2. T # {}
    BY <2>1, SumEmpty
  <2>3. PICK x \in T : TRUE
    BY <2>2
  <2>4. IsFiniteSet(T) /\ T \in SUBSET S /\ T \ {x} \in SUBSET S /\ T \ {x} \notin Bad
    BY <2>1, <2>3, FS_Subset
  <2>5. SumFunctionOnSet(f, T) = f[x] + SumFunctionOnSet(f, T \ {x})
    BY <2>3, <2>4, SumWithout
  <2> QED
    BY <2>1, <2>3, <2>4, <2>5
<1> QED
  BY <1>1

LEMMA SumSame ==
    ASSUME NEW S, IsFiniteSet(S), NEW f, NEW g, \A x \in S : f[x] \in Int /\ f[x] = g[x]
    PROVE  SumFunctionOnSet(f, S) = SumFunctionOnSet(g, S)
<1> DEFINE total == [T \in SUBSET S |-> SumFunctionOnSet(g, T)]
<1>1. \A T \in SUBSET S : IsFiniteSet(T) /\ SumFunctionOnSet(g, T) \in Int
  BY FS_Subset, SumType
<1>2. total \in [SUBSET S -> Int] /\ total[{}] = 0
  BY <1>1, SumEmpty
<1>3. ASSUME NEW T \in SUBSET S, NEW x \in T PROVE total[T] = f[x] + total[T \ {x}]
  <2>1. SumFunctionOnSet(g, T) = g[x] + SumFunctionOnSet(g, T \ {x})
    BY <1>1, SumWithout
  <2> QED
    BY <2>1
<1> HIDE DEF total
<1>4. SumFunctionOnSet(f, S) = total[S]
  <2>1. \A x \in S : f[x] \in Int
    OBVIOUS
  <2>2. Counts(f, S, total)
    BY <1>2, <1>3, <2>1 DEF Counts
  <2> QED
    BY <2>2, SumUnique
<1> QED
  BY <1>4 DEF total

LEMMA SumPlus ==
    ASSUME NEW S, IsFiniteSet(S), NEW f, NEW g, NEW h,
           \A x \in S : f[x] \in Int /\ g[x] \in Int /\ h[x] = f[x] + g[x]
    PROVE  SumFunctionOnSet(h, S) = SumFunctionOnSet(f, S) + SumFunctionOnSet(g, S)
<1> DEFINE total == [T \in SUBSET S |-> SumFunctionOnSet(f, T) + SumFunctionOnSet(g, T)]
<1>1. \A T \in SUBSET S : /\ IsFiniteSet(T)
                          /\ SumFunctionOnSet(f, T) \in Int
                          /\ SumFunctionOnSet(g, T) \in Int
  BY FS_Subset, SumType
<1>2. total \in [SUBSET S -> Int] /\ total[{}] = 0
  BY <1>1, SumEmpty
<1>3. ASSUME NEW T \in SUBSET S, NEW x \in T PROVE total[T] = h[x] + total[T \ {x}]
  <2> DEFINE R == T \ {x}
  <2>1. /\ SumFunctionOnSet(f, T) = f[x] + SumFunctionOnSet(f, R)
        /\ SumFunctionOnSet(g, T) = g[x] + SumFunctionOnSet(g, R)
    BY <1>1, SumWithout
  <2>2. /\ total[T] = SumFunctionOnSet(f, T) + SumFunctionOnSet(g, T)
        /\ total[R] = SumFunctionOnSet(f, R) + SumFunctionOnSet(g, R)
        /\ R \in SUBSET S /\ x \in S
    OBVIOUS
  <2> DEFINE fR == SumFunctionOnSet(f, R)
             gR == SumFunctionOnSet(g, R)
  <2>3. fR \in Int /\ gR \in Int /\ f[x] \in Int /\ g[x] \in Int /\ h[x] = f[x] + g[x]
    BY <1>1, <2>2
  <2>4. total[T] = (f[x] + fR) + (g[x] + gR) /\ total[R] = fR + gR
    BY <2>1, <2>2
  <2> HIDE DEF total, fR, gR
  <2>5. total[T] = h[x] + total[R]
    BY <2>3, <2>4
  <2> QED
    BY <2>5
<1> HIDE DEF total
<1>4. SumFunctionOnSet(h, S) = total[S]
  <2>1. \A x \in S : h[x] \in Int
    OBVIOUS
  <2>2. Counts(h, S, total)
    BY <1>2, <1>3, <2>1 DEF Counts
  <2> QED
    BY <2>2, SumUnique
<1> QED
  BY <1>4 DEF total

\* Elements that count 0 may be left out.
LEMMA SumOfPart ==
    ASSUME NEW S, IsFiniteSet(S), NEW R \in SUBSET S, NEW f, \A x \in S : f[x] \in Int,
           \A x \in S \ R : f[x] = 0
    PROVE  SumFunctionOnSet(f, S) = SumFunctionOnSet(f, R)
<1> DEFINE total == [T \in SUBSET S |-> SumFunctionOnSet(f, T \cap R)]
<1>1. \A T \in SUBSET S : IsFiniteSet(T \cap R) /\ SumFunctionOnSet(f, T \cap R) \in Int
  <2> TAKE T \in SUBSET S
  <2>1. IsFiniteSet(T \cap R)
    BY FS_Subset
  <2> QED
    BY <2>1, SumType
<1>2. total \in [SUBSET S -> Int] /\ total[{}] = 0
  <2>1. {} \cap R = {} /\ {} \in SUBSET S
    OBVIOUS
  <2> QED
    BY <1>1, <2>1, SumEmpty
<1>3. ASSUME NEW T \in SUBSET S, NEW x \in T PROVE total[T] = f[x] + total[T \ {x}]
  <2>1. CASE x \in R
    <3>1. SumFunctionOnSet(f, T \cap R) = f[x] + SumFunctionOnSet(f, (T \cap R) \ {x})
      BY <1>1, <2>1, SumWithout
    <3>2. (T \cap R) \ {x} = (T \ {x}) \cap R
      OBVIOUS
    <3> QED
      BY <3>1, <3>2
  <2>2. CASE x \notin R
    <3>1. T \cap R = (T \ {x}) \cap R /\ f[x] = 0
      BY <2>2
    <3>2. total[T] = total[T \ {x}] /\ total[T \ {x}] \in Int
      BY <1>2, <3>1
    <3> HIDE DEF total
    <3> QED
      BY <3>1, <3>2
  <2> QED
    BY <2>1, <2>2
<1> HIDE DEF total
<1>4. SumFunctionOnSet(f, S) = total[S]
  <2>1. \A x \in S : f[x] \in Int
    OBVIOUS
  <2>2. Counts(f, S, total)
    BY <1>2, <1>3, <2>1 DEF Counts
  <2> QED
    BY <2>2, SumUnique
<1>5. S \cap R = R
  OBVIOUS
<1> QED
  BY <1>4, <1>5 DEF total

LEMMA SumZero ==
    ASSUME NEW S, IsFiniteSet(S), NEW f, \A x \in S : f[x] = 0
    PROVE  SumFunctionOnSet(f, S) = 0
<1>1. {} \in SUBSET S /\ (\A x \in S : f[x] \in Int) /\ \A x \in S \ {} : f[x] = 0
  OBVIOUS
<1>2. SumFunctionOnSet(f, S) = SumFunctionOnSet(f, {})
  BY <1>1, SumOfPart
<1> QED
  BY <1>2, SumEmpty

LEMMA SumNegated ==
    ASSUME NEW S, IsFiniteSet(S), NEW f, NEW g, \A x \in S : f[x] \in Int /\ g[x] = - f[x]
    PROVE  SumFunctionOnSet(g, S) = - SumFunctionOnSet(f, S)
<1> DEFINE zero == [x \in S |-> 0]
<1>1. \A x \in S : f[x] \in Int /\ g[x] \in Int /\ zero[x] = f[x] + g[x]
  OBVIOUS
<1>2. \A x \in S : zero[x] = 0
  OBVIOUS
<1> HIDE DEF zero
<1>3. SumFunctionOnSet(zero, S) = SumFunctionOnSet(f, S) + SumFunctionOnSet(g, S)
  BY <1>1, SumPlus
<1>4. SumFunctionOnSet(zero, S) = 0
  BY <1>2, SumZero
<1>5. SumFunctionOnSet(f, S) \in Int /\ SumFunctionOnSet(g, S) \in Int
  BY <1>1, SumType
<1> QED
  BY <1>3, <1>4, <1>5

\* Summing over places is summing over what is there, when no element is at two places.
LEMMA SumOver ==
    ASSUME NEW S, IsFiniteSet(S), NEW e, \A x, y \in S : e[x] = e[y] => x = y,
           NEW f, NEW g, \A x \in S : f[e[x]] \in Int /\ g[x] = f[e[x]]
    PROVE  SumFunctionOnSet(g, S) = SumFunctionOnSet(f, {e[x] : x \in S})
<1> DEFINE At(T) == {e[x] : x \in T}
           total == [T \in SUBSET S |-> SumFunctionOnSet(f, At(T))]
<1>1. \A T \in SUBSET S : IsFiniteSet(At(T)) /\ SumFunctionOnSet(f, At(T)) \in Int
  <2> TAKE T \in SUBSET S
  <2>1. IsFiniteSet(T)
    BY FS_Subset
  <2>2. IsFiniteSet(At(T))
    <3>1. [x \in T |-> e[x]] \in Surjection(T, At(T))
      BY DEF Surjection
    <3> QED
      BY <2>1, <3>1, FS_Surjection
  <2>3. \A y \in At(T) : f[y] \in Int
    OBVIOUS
  <2> HIDE DEF At
  <2> QED
    BY <2>2, <2>3, SumType
<1>2. total \in [SUBSET S -> Int] /\ total[{}] = 0
  <2>1. At({}) = {} /\ {} \in SUBSET S
    OBVIOUS
  <2> HIDE DEF At
  <2> QED
    BY <1>1, <2>1, SumEmpty
<1>3. ASSUME NEW T \in SUBSET S, NEW x \in T PROVE total[T] = g[x] + total[T \ {x}]
  <2>1. At(T) \ {e[x]} = At(T \ {x}) /\ e[x] \in At(T)
    OBVIOUS
  <2>2. \A y \in At(T) : f[y] \in Int
    OBVIOUS
  <2>3. total[T] = SumFunctionOnSet(f, At(T)) /\ total[T \ {x}] = SumFunctionOnSet(f, At(T \ {x}))
    OBVIOUS
  <2> HIDE DEF At, total
  <2>4. SumFunctionOnSet(f, At(T)) = f[e[x]] + SumFunctionOnSet(f, At(T) \ {e[x]})
    BY <1>1, <2>1, <2>2, SumWithout
  <2> QED
    BY <2>1, <2>3, <2>4
<1> HIDE DEF total
<1>4. SumFunctionOnSet(g, S) = total[S]
  <2>1. \A x \in S : g[x] \in Int
    OBVIOUS
  <2>2. Counts(g, S, total)
    BY <1>2, <1>3, <2>1 DEF Counts
  <2> QED
    BY <2>2, SumUnique
<1> QED
  BY <1>4 DEF total

-----------------------------------------------------------------------------
(***************************************************************************)
(* Sums along routes.                                                      *)
(***************************************************************************)
\* The places of every truck's route, the fake first order at place 0 included, and
\* those of real orders.
Places(len) == UNION {{t} \X (0 .. len[t]) : t \in DOMAIN len}
Legs(len) == UNION {{t} \X (1 .. len[t]) : t \in DOMAIN len}

LEMMA PlacesAre ==
    ASSUME NEW T, IsFiniteSet(T), NEW len \in [T -> Nat]
    PROVE  /\ IsFiniteSet(Places(len))
           /\ Legs(len) \in SUBSET Places(len)
           /\ \A t, i : <<t, i>> \in Places(len) <=> t \in T /\ i \in 0 .. len[t]
           /\ \A t, i : <<t, i>> \in Legs(len) <=> t \in T /\ i \in 1 .. len[t]
           /\ \A p \in Places(len) : p = <<p[1], p[2]>>
<1>1. ASSUME NEW t \in T PROVE IsFiniteSet({t} \X (0 .. len[t]))
  <2>1. IsFiniteSet({t})
    BY FS_Singleton
  <2>2. IsFiniteSet(0 .. len[t])
    BY FS_Interval
  <2> QED
    BY <2>1, <2>2, FS_Product
<1> DEFINE Rows == {{t} \X (0 .. len[t]) : t \in T}
<1>2. IsFiniteSet(Rows)
  <2>1. [t \in T |-> {t} \X (0 .. len[t])] \in Surjection(T, Rows)
    BY DEF Surjection
  <2> QED
    BY <2>1, FS_Surjection
<1>3. Places(len) = UNION Rows
  BY DEF Places
<1>4. IsFiniteSet(Places(len))
  BY <1>1, <1>2, <1>3, FS_UNION
<1>5. \A t, i : <<t, i>> \in Places(len) <=> t \in T /\ i \in 0 .. len[t]
  BY DEF Places
<1>6. \A t, i : <<t, i>> \in Legs(len) <=> t \in T /\ i \in 1 .. len[t]
  BY DEF Legs
<1>7. \A p \in Places(len) : p = <<p[1], p[2]>>
  BY DEF Places
<1>8. Legs(len) \in SUBSET Places(len)
  BY DEF Legs, Places
<1> QED
  BY <1>4, <1>5, <1>6, <1>7, <1>8

\* What an edge costs: the order that it leaves, and the way to the next one or, after
\* the last one, what the end costs.
Priced(T, len, edge, cost, move, order, whole, last) ==
    /\ \A p, q \in Places(len) : edge[p] = edge[q] => p = q
    /\ \A l \in Legs(len) : move[l] \in Int /\ order[l] \in Int /\ whole[l] = move[l] + order[l]
    /\ \A t \in T : last[t] \in Int
    /\ \A t \in T : \A i \in 0 .. len[t] :
          cost[edge[<<t, i>>]] = (IF i = len[t] THEN last[t] ELSE move[<<t, i + 1>>])
                                    + (IF i = 0 THEN 0 ELSE order[<<t, i>>])

\* Added up over all routes: every order and the way to it, and every end.
LEMMA SumOfRoutes ==
    ASSUME NEW T, IsFiniteSet(T), NEW len \in [T -> Nat], NEW edge, NEW cost, NEW move,
           NEW order, NEW whole, NEW last,
           Priced(T, len, edge, cost, move, order, whole, last)
    PROVE  SumFunctionOnSet(cost, {edge[p] : p \in Places(len)})
              = SumFunctionOnSet(whole, Legs(len)) + SumFunctionOnSet(last, T)
<1> USE DEF Priced
<1> DEFINE P == Places(len)
           L == Legs(len)
           Inner == {p \in P : p[2] # len[p[1]]}
           Ends == {p \in P : p[2] = len[p[1]]}
           way == [p \in P |-> IF p[2] = len[p[1]] THEN 0 ELSE move[<<p[1], p[2] + 1>>]]
           end == [p \in P |-> IF p[2] = len[p[1]] THEN last[p[1]] ELSE 0]
           left == [p \in P |-> IF p[2] = 0 THEN 0 ELSE order[p]]
           on == [p \in P |-> way[p] + end[p]]
           all == [p \in P |-> on[p] + left[p]]
<1>1. /\ IsFiniteSet(P) /\ IsFiniteSet(L) /\ L \in SUBSET P
      /\ \A t, i : <<t, i>> \in P <=> t \in T /\ i \in 0 .. len[t]
      /\ \A t, i : <<t, i>> \in L <=> t \in T /\ i \in 1 .. len[t]
      /\ \A p \in P : p = <<p[1], p[2]>> /\ p[1] \in T /\ p[2] \in 0 .. len[p[1]]
  BY PlacesAre, FS_Subset
<1>2. \A p \in P : p[2] # len[p[1]] => <<p[1], p[2] + 1>> \in L
  <2> SUFFICES ASSUME NEW p \in P, p[2] # len[p[1]] PROVE <<p[1], p[2] + 1>> \in L
    OBVIOUS
  <2> DEFINE n == len[p[1]]
             i == p[2]
  <2>1. p[1] \in T /\ n \in Nat /\ i \in 0 .. n /\ i # n
    BY <1>1
  <2> HIDE DEF n, i
  <2>2. i + 1 \in 1 .. n
    BY <2>1
  <2> QED
    BY <1>1, <2>1, <2>2 DEF n, i
<1>3. \A p \in P : p[2] # 0 => p \in L
  BY <1>1
<1> HIDE DEF P, L
<1>4. \A p \in P : way[p] \in Int /\ end[p] \in Int /\ left[p] \in Int
  <2> TAKE p \in P
  <2>1. way[p] \in Int
    BY <1>2 DEF L
  <2>2. end[p] \in Int
    BY <1>1
  <2>3. left[p] \in Int
    BY <1>3 DEF L
  <2> QED
    BY <2>1, <2>2, <2>3
<1>5. \A p \in P : cost[edge[p]] = all[p] /\ all[p] \in Int /\ on[p] \in Int
  <2> TAKE p \in P
  <2>1. cost[edge[p]] = (IF p[2] = len[p[1]] THEN last[p[1]] ELSE move[<<p[1], p[2] + 1>>])
                           + (IF p[2] = 0 THEN 0 ELSE order[p])
    BY <1>1
  <2>2. on[p] = IF p[2] = len[p[1]] THEN last[p[1]] ELSE move[<<p[1], p[2] + 1>>]
    <3>1. CASE p[2] = len[p[1]]
      BY <1>1, <3>1
    <3>2. CASE p[2] # len[p[1]]
      BY <1>2, <3>2 DEF L
    <3> QED
      BY <3>1, <3>2
  <2>3. all[p] = on[p] + left[p] /\ on[p] = way[p] + end[p]
    OBVIOUS
  <2> QED
    BY <1>4, <2>1, <2>2, <2>3
<1>6. SumFunctionOnSet(cost, {edge[p] : p \in P}) = SumFunctionOnSet(all, P)
  <2>1. \A p, q \in P : edge[p] = edge[q] => p = q
    BY DEF P
  <2>2. \A p \in P : cost[edge[p]] \in Int /\ all[p] = cost[edge[p]]
    BY <1>5
  <2> HIDE DEF all
  <2> QED
    BY <1>1, <2>1, <2>2, SumOver
<1>7. SumFunctionOnSet(all, P)
         = (SumFunctionOnSet(way, P) + SumFunctionOnSet(end, P)) + SumFunctionOnSet(left, P)
  <2>1. /\ \A p \in P : way[p] \in Int /\ end[p] \in Int /\ on[p] = way[p] + end[p]
        /\ \A p \in P : on[p] \in Int /\ left[p] \in Int /\ all[p] = on[p] + left[p]
    BY <1>4, <1>5
  <2> HIDE DEF way, end, left, on, all
  <2>2. SumFunctionOnSet(all, P) = SumFunctionOnSet(on, P) + SumFunctionOnSet(left, P)
    BY <1>1, <2>1, SumPlus
  <2>3. SumFunctionOnSet(on, P) = SumFunctionOnSet(way, P) + SumFunctionOnSet(end, P)
    BY <1>1, <2>1, SumPlus
  <2> QED
    BY <2>2, <2>3
<1>8. SumFunctionOnSet(left, P) = SumFunctionOnSet(order, L)
  <2>1. \A p \in P \ L : left[p] = 0
    BY <1>3
  <2>2. \A l \in L : l \in P /\ l[2] # 0
    BY <1>1
  <2>3. \A l \in L : left[l] \in Int /\ left[l] = order[l]
    BY <1>4, <2>2
  <2> HIDE DEF left
  <2>4. SumFunctionOnSet(left, P) = SumFunctionOnSet(left, L)
    BY <1>1, <1>4, <2>1, SumOfPart
  <2>5. SumFunctionOnSet(left, L) = SumFunctionOnSet(order, L)
    BY <1>1, <2>3, SumSame
  <2> QED
    BY <2>4, <2>5
<1>9. SumFunctionOnSet(way, P) = SumFunctionOnSet(move, L)
  <2> DEFINE next == [p \in Inner |-> <<p[1], p[2] + 1>>]
  <2>1. IsFiniteSet(Inner) /\ Inner \in SUBSET P
    BY <1>1, FS_Subset
  <2>2. \A p \in P \ Inner : way[p] = 0
    OBVIOUS
  <2>3. SumFunctionOnSet(way, P) = SumFunctionOnSet(way, Inner)
    <3> HIDE DEF way, Inner
    <3> QED
      BY <1>1, <1>4, <2>1, <2>2, SumOfPart
  <2>4. \A p, q \in Inner : next[p] = next[q] => p = q
    BY <1>1
  <2>5. {next[p] : p \in Inner} = L
    <3>1. \A p \in Inner : next[p] \in L
      BY <1>2
    <3>2. ASSUME NEW l \in L PROVE \E p \in Inner : next[p] = l
      <4>1. l = <<l[1], l[2]>> /\ l[1] \in T /\ l[2] \in 1 .. len[l[1]] /\ len[l[1]] \in Nat
        BY <1>1
      <4>2. <<l[1], l[2] - 1>> \in P /\ l[2] - 1 # len[l[1]]
        BY <1>1, <4>1
      <4>3. <<l[1], l[2] - 1>> \in Inner /\ (l[2] - 1) + 1 = l[2]
        BY <4>1, <4>2
      <4> QED
        BY <4>1, <4>3
    <3> QED
      BY <3>1, <3>2
  <2>6. \A p \in Inner : move[next[p]] \in Int /\ way[p] = move[next[p]]
    BY <1>2 DEF L
  <2> HIDE DEF way, next, Inner
  <2>7. SumFunctionOnSet(way, Inner) = SumFunctionOnSet(move, {next[p] : p \in Inner})
    BY <2>1, <2>4, <2>6, SumOver
  <2> QED
    BY <2>3, <2>5, <2>7
<1>10. SumFunctionOnSet(end, P) = SumFunctionOnSet(last, T)
  <2> DEFINE truck == [p \in Ends |-> p[1]]
  <2>1. IsFiniteSet(Ends) /\ Ends \in SUBSET P
    BY <1>1, FS_Subset
  <2>2. \A p \in P \ Ends : end[p] = 0
    OBVIOUS
  <2>3. SumFunctionOnSet(end, P) = SumFunctionOnSet(end, Ends)
    <3> HIDE DEF end, Ends
    <3> QED
      BY <1>1, <1>4, <2>1, <2>2, SumOfPart
  <2>4. \A p, q \in Ends : truck[p] = truck[q] => p = q
    BY <1>1
  <2>5. {truck[p] : p \in Ends} = T
    <3>1. \A p \in Ends : truck[p] \in T
      BY <1>1
    <3>2. ASSUME NEW t \in T PROVE \E p \in Ends : truck[p] = t
      <4>1. <<t, len[t]>> \in P
        BY <1>1
      <4>2. <<t, len[t]>> \in Ends
        BY <4>1
      <4> QED
        BY <4>2
    <3> QED
      BY <3>1, <3>2
  <2>6. \A p \in Ends : last[truck[p]] \in Int /\ end[p] = last[truck[p]]
    BY <1>1
  <2> HIDE DEF end, truck, Ends
  <2>7. SumFunctionOnSet(end, Ends) = SumFunctionOnSet(last, {truck[p] : p \in Ends})
    BY <2>1, <2>4, <2>6, SumOver
  <2> QED
    BY <2>3, <2>5, <2>7
<1>11. SumFunctionOnSet(whole, L) = SumFunctionOnSet(move, L) + SumFunctionOnSet(order, L)
  <2>1. \A l \in L : move[l] \in Int /\ order[l] \in Int /\ whole[l] = move[l] + order[l]
    BY DEF L
  <2> QED
    BY <1>1, <2>1, SumPlus
<1>12. /\ SumFunctionOnSet(move, L) \in Int
       /\ SumFunctionOnSet(order, L) \in Int
       /\ SumFunctionOnSet(last, T) \in Int
  <2>1. \A l \in L : move[l] \in Int /\ order[l] \in Int
    BY DEF L
  <2> QED
    BY <1>1, <2>1, SumType
<1> QED
  BY <1>6, <1>7, <1>8, <1>9, <1>10, <1>11, <1>12 DEF P, L

-----------------------------------------------------------------------------
(***************************************************************************)
(* The edges of a route that a truck can drive are columns.                *)
(***************************************************************************)
\* What a Data object is, field by field.
LEMMA DataIs ==
    ASSUME NEW d, IsData(d)
    PROVE  /\ Len(d.orders) \in Nat /\ DOMAIN d.orders = 1 .. Len(d.orders)
           /\ Len(d.trucks) \in Nat /\ DOMAIN d.trucks = 1 .. Len(d.trucks)
           /\ \A o \in DOMAIN d.orders : d.orders[o] \in Order
           /\ \A t \in DOMAIN d.trucks : d.trucks[t] \in Truck
           /\ ffo_pos \notin DOMAIN d.orders /\ flo_pos \notin DOMAIN d.orders
           /\ ffo_pos # flo_pos
           /\ DOMAIN d.dists \subseteq City \X City
           /\ d.dists \in [DOMAIN d.dists -> Nat]
           /\ d.speed \in Nat \ {0}
<1>1. d.orders \in Seq(Order) /\ d.trucks \in Seq(Truck)
  BY DEF IsData
<1>2. /\ Len(d.orders) \in Nat /\ DOMAIN d.orders = 1 .. Len(d.orders)
      /\ Len(d.trucks) \in Nat /\ DOMAIN d.trucks = 1 .. Len(d.trucks)
  BY <1>1
<1> QED
  BY <1>1, <1>2 DEF IsData, ffo_pos, flo_pos

\* What the variables of one truck do not know of the others: the truck drives the
\* route, and takes no order twice.
Driven(d, t, route) ==
    /\ route \in Seq(DOMAIN d.orders)
    /\ \A i, j \in 1 .. Len(route) : route[i] = route[j] => i = j
    /\ \A i \in 1 .. Len(route) :
          MoveBetweenOrders(d, d.trucks[t],
                            IF i = 1 THEN make_ffo(d.trucks[t])
                                     ELSE EndOf(d.orders[route[i - 1]]),
                            d.orders[route[i]])

From(route, i) == IF i = 0 THEN ffo_pos ELSE route[i]
To(route, i) == IF i = Len(route) THEN flo_pos ELSE route[i + 1]

RouteEdges(t, route) == {<<t, From(route, i), To(route, i)>> : i \in 0 .. Len(route)}

LEMMA RouteTimes ==
    ASSUME NEW d, IsData(d), ForwardOrders(d), NEW t \in DOMAIN d.trucks, NEW route,
           Driven(d, t, route)
    PROVE  \A i \in 1 .. Len(route) :
              d.trucks[t].init_time <= d.orders[route[i]].start_time
<1> DEFINE StartOf(i) == d.orders[route[i]].start_time
           FinishOf(i) == d.orders[route[i]].finish_time
           init == d.trucks[t].init_time
           Late == {i \in 1 .. Len(route) : ~ (init <= StartOf(i))}
<1>1. /\ Len(route) \in Nat /\ init \in Nat
      /\ \A i \in 1 .. Len(route) :
            StartOf(i) \in Nat /\ FinishOf(i) \in Nat /\ StartOf(i) < FinishOf(i)
  <2>1. (\A o \in DOMAIN d.orders : d.orders[o] \in Order) /\ d.trucks[t] \in Truck
    BY DataIs
  <2>2. route \in Seq(DOMAIN d.orders)
    BY DEF Driven
  <2> QED
    BY <2>1, <2>2 DEF Order, Truck, ForwardOrders
<1>2. \A a, b \in City : TravelTime(d, a, b) \in Nat \/ ~HasRoad(d, a, b)
  <2> SUFFICES ASSUME NEW a \in City, NEW b \in City, HasRoad(d, a, b)
               PROVE  TravelTime(d, a, b) \in Nat
    OBVIOUS
  <2>1. GetDistance(d, a, b) \in Nat /\ d.speed \in Nat \ {0}
    BY DataIs DEF HasRoad, GetDistance
  <2> QED
    BY <2>1 DEF TravelTime
<1>3. \A i \in 1 .. Len(route) : i = 1 => init <= StartOf(i)
  <2> SUFFICES ASSUME NEW i \in 1 .. Len(route), i = 1 PROVE init <= StartOf(i)
    OBVIOUS
  <2>1. CanReach(d, make_ffo(d.trucks[t]), d.orders[route[i]])
    BY DEF Driven, MoveBetweenOrders
  <2>2. d.trucks[t].init_city \in City /\ d.orders[route[i]].from_city \in City
    BY <1>1, DataIs DEF Driven, Order, Truck
  <2>3. TravelTime(d, d.trucks[t].init_city, d.orders[route[i]].from_city) \in Nat
    BY <1>2, <2>1, <2>2 DEF CanReach, make_ffo
  <2> QED
    BY <1>1, <2>1, <2>3 DEF CanReach, make_ffo
<1>4. \A i \in 1 .. Len(route) : i # 1 => FinishOf(i - 1) <= StartOf(i)
  <2> SUFFICES ASSUME NEW i \in 1 .. Len(route), i # 1 PROVE FinishOf(i - 1) <= StartOf(i)
    OBVIOUS
  <2>1. CanReach(d, EndOf(d.orders[route[i - 1]]), d.orders[route[i]])
    BY DEF Driven, MoveBetweenOrders
  <2>2. i - 1 \in 1 .. Len(route) /\ route[i - 1] \in DOMAIN d.orders /\ route[i] \in DOMAIN d.orders
    <3>1. i - 1 \in 1 .. Len(route)
      BY <1>1
    <3>2. \A k \in 1 .. Len(route) : route[k] \in DOMAIN d.orders
      BY DEF Driven
    <3> QED
      BY <3>1, <3>2
  <2>3. d.orders[route[i - 1]].to_city \in City /\ d.orders[route[i]].from_city \in City
    BY <2>2, DataIs DEF Order
  <2>4. TravelTime(d, d.orders[route[i - 1]].to_city,
                   d.orders[route[i]].from_city) \in Nat
    BY <1>2, <2>1, <2>3 DEF CanReach, EndOf
  <2> QED
    BY <1>1, <2>1, <2>2, <2>4 DEF CanReach, EndOf
<1> HIDE DEF StartOf, FinishOf, init
<1>5. Late = {}
  <2> SUFFICES ASSUME Late # {} PROVE FALSE
    OBVIOUS
  <2>1. PICK i \in Late : \A k \in Late : i <= k
    <3>1. Late \in SUBSET Nat
      BY <1>1
    <3> QED
      BY <3>1, LeastNumber
  <2>2. i \in 1 .. Len(route) /\ i # 1 /\ ~ (init <= StartOf(i))
    BY <1>3, <2>1
  <2>3. i - 1 \in 1 .. Len(route) /\ ~ (i <= i - 1)
    BY <1>1, <2>2
  <2>4. init <= StartOf(i - 1)
    BY <2>1, <2>3
  <2> QED
    BY <1>1, <1>4, <2>2, <2>3, <2>4
<1> QED
  BY <1>5 DEF StartOf, init

LEMMA RouteVariables ==
    ASSUME NEW d, IsData(d), ForwardOrders(d), NEW t \in DOMAIN d.trucks, NEW route,
           Driven(d, t, route)
    PROVE  RouteEdges(t, route) \subseteq AllVariables(d)
<1> SUFFICES ASSUME NEW i \in 0 .. Len(route)
             PROVE  <<t, From(route, i), To(route, i)>> \in AllVariables(d)
  BY DEF RouteEdges
<1>1. /\ route \in Seq(DOMAIN d.orders) /\ Len(route) \in Nat
      /\ \A k \in 1 .. Len(route) : route[k] \in DOMAIN d.orders /\ CanPick(d, t, route[k])
  <2>1. \A k \in 1 .. Len(route) : d.trucks[t].init_time <= d.orders[route[k]].start_time
    BY RouteTimes
  <2> QED
    BY <2>1 DEF Driven, CanPick, MoveBetweenOrders
<1>2. /\ i = 0 => From(route, i) = ffo_pos
      /\ i # 0 => From(route, i) = route[i] /\ i \in 1 .. Len(route)
      /\ i = Len(route) => To(route, i) = flo_pos
      /\ i # Len(route) => To(route, i) = route[i + 1] /\ i + 1 \in 1 .. Len(route)
  BY <1>1 DEF From, To
<1>3. From(route, i) \in Nodes(d) /\ To(route, i) \in Nodes(d)
  BY <1>1, <1>2 DEF Nodes
<1>4. HasVariable(d, t, From(route, i), To(route, i))
  <2>1. CASE i = 0 /\ i = Len(route)
    BY <1>2, <2>1 DEF HasVariable
  <2>2. CASE i = 0 /\ i # Len(route)
    <3>1. CanMove(d, t, make_ffo(d.trucks[t]), route[i + 1])
      BY <1>2, <2>2 DEF Driven, CanMove
    <3> QED
      BY <1>1, <1>2, <2>2, <3>1 DEF HasVariable
  <2>3. CASE i # 0 /\ i = Len(route)
    BY <1>1, <1>2, <2>3 DEF HasVariable
  <2>4. CASE i # 0 /\ i # Len(route)
    <3>1. i + 1 # 1 /\ (i + 1) - 1 = i /\ i + 1 # i
      <4>1. i \in Nat
        BY <1>1
      <4>2. \A n \in Nat : n # 0 => n + 1 # 1 /\ (n + 1) - 1 = n /\ n + 1 # n
        OBVIOUS
      <4> QED
        BY <2>4, <4>1, <4>2
    <3>2. MoveBetweenOrders(d, d.trucks[t], EndOf(d.orders[route[i]]),
                            d.orders[route[i + 1]])
      <4>1. \A k \in 1 .. Len(route) : k # 1 =>
               MoveBetweenOrders(d, d.trucks[t], EndOf(d.orders[route[k - 1]]),
                                 d.orders[route[k]])
        BY DEF Driven
      <4>2. i + 1 \in 1 .. Len(route)
        BY <1>2, <2>4
      <4>3. MoveBetweenOrders(d, d.trucks[t], EndOf(d.orders[route[(i + 1) - 1]]),
                              d.orders[route[i + 1]])
        BY <3>1, <4>1, <4>2
      <4>4. route[(i + 1) - 1] = route[i]
        BY <3>1
      <4> QED
        BY <4>3, <4>4
    <3>3. CanMove(d, t, d.orders[route[i]], route[i + 1])
      BY <3>2 DEF CanMove, MoveBetweenOrders, CanReach, EndOf
    <3>4. route[i] # route[i + 1]
      BY <1>2, <2>4, <3>1 DEF Driven
    <3> QED
      BY <1>1, <1>2, <2>4, <3>3, <3>4 DEF HasVariable
  <2> QED
    BY <2>1, <2>2, <2>3, <2>4
<1> QED
  BY <1>3, <1>4 DEF AllVariables

\* The filter keeps the edges of a route: each lies on the way from the fake first
\* to the fake last order.
LEMMA RouteBetween ==
    ASSUME NEW d, IsData(d), ForwardOrders(d), NEW t \in DOMAIN d.trucks, NEW route,
           Driven(d, t, route)
    PROVE  \A i \in 0 .. Len(route) :
              Ahead(d, AllVariables(d), t, From(route, i)) /\ Behind(d, AllVariables(d), t, To(route, i))
<1>1. /\ Len(route) \in Nat
      /\ \A i \in 0 .. Len(route) :
            /\ <<t, From(route, i), To(route, i)>> \in AllVariables(d)
            /\ From(route, i) \in Nodes(d) /\ To(route, i) \in Nodes(d)
  <2>1. Len(route) \in Nat
    BY DEF Driven
  <2>2. \A i \in 0 .. Len(route) : <<t, From(route, i), To(route, i)>> \in AllVariables(d)
    BY RouteVariables DEF RouteEdges
  <2> QED
    BY <2>1, <2>2 DEF AllVariables
<1>2. /\ From(route, 0) = ffo_pos /\ To(route, Len(route)) = flo_pos
      /\ \A i \in 0 .. Len(route) : i # 0 => From(route, i) = To(route, i - 1)
  BY <1>1 DEF From, To
<1>3. ASSUME NEW S \in SUBSET Nodes(d), ffo_pos \in S,
             \A e \in AllVariables(d) : e[1] = t /\ e[2] \in S => e[3] \in S
      PROVE  \A i \in 0 .. Len(route) : From(route, i) \in S
  <2> DEFINE Out == {i \in 0 .. Len(route) : From(route, i) \notin S}
  <2> SUFFICES ASSUME Out # {} PROVE FALSE
    OBVIOUS
  <2>1. Out \in SUBSET Nat
    BY <1>1
  <2>2. PICK i \in Out : \A k \in Out : i <= k
    BY <2>1, LeastNumber
  <2>3. i \in 0 .. Len(route) /\ i # 0
    BY <1>2, <1>3, <2>2
  <2>4. i - 1 \in 0 .. Len(route) /\ ~ (i <= i - 1)
    BY <1>1, <2>3
  <2>5. From(route, i - 1) \in S
    BY <2>2, <2>4
  <2>6. To(route, i - 1) \in S
    BY <1>1, <1>3, <2>4, <2>5
  <2> QED
    BY <1>2, <2>2, <2>3, <2>6
<1>4. ASSUME NEW S \in SUBSET Nodes(d), flo_pos \in S,
             \A e \in AllVariables(d) : e[1] = t /\ e[3] \in S => e[2] \in S
      PROVE  \A i \in 0 .. Len(route) : To(route, i) \in S
  <2> DEFINE Out == {n \in 0 .. Len(route) : To(route, Len(route) - n) \notin S}
  <2>1. Out \in SUBSET Nat
    BY <1>1
  <2>2. ASSUME Out # {} PROVE FALSE
    <3>1. PICK n \in Out : \A k \in Out : n <= k
      BY <2>1, <2>2, LeastNumber
    <3>2. n \in 0 .. Len(route) /\ Len(route) - 0 = Len(route)
      BY <1>1, <3>1
    <3>3. n # 0
      BY <1>2, <1>4, <3>1, <3>2
    <3>4. n - 1 \in 0 .. Len(route) /\ ~ (n <= n - 1)
      BY <1>1, <3>2, <3>3
    <3>5. To(route, Len(route) - (n - 1)) \in S
      BY <3>1, <3>4
    <3> DEFINE i == Len(route) - (n - 1)
    <3>6. i \in 0 .. Len(route) /\ i # 0 /\ i - 1 = Len(route) - n
      BY <1>1, <3>2, <3>4
    <3>7. <<t, From(route, i), To(route, i)>> \in AllVariables(d)
      BY <1>1, <3>6
    <3>8. From(route, i) \in S
      BY <1>4, <3>5, <3>7
    <3>9. To(route, i - 1) \in S
      BY <1>2, <3>6, <3>8
    <3> QED
      BY <3>1, <3>6, <3>9
  <2> SUFFICES ASSUME NEW i \in 0 .. Len(route) PROVE To(route, i) \in S
    OBVIOUS
  <2>3. Len(route) - i \in 0 .. Len(route) /\ Len(route) - (Len(route) - i) = i
    BY <1>1
  <2> QED
    BY <2>2, <2>3
<1>5. \A i \in 0 .. Len(route) : Ahead(d, AllVariables(d), t, From(route, i))
  BY <1>1, <1>3 DEF Ahead
<1>6. \A i \in 0 .. Len(route) : Behind(d, AllVariables(d), t, To(route, i))
  BY <1>1, <1>4 DEF Behind
<1> QED
  BY <1>5, <1>6

\* The nodes that a route's edges lead from and to: every one but once, and each order of
\* the route is at its place in both.
RouteLeads(d, t, route) ==
    /\ RouteEdges(t, route) \in SUBSET ((DOMAIN d.trucks) \X Nodes(d) \X Nodes(d))
    /\ \A i, j \in 0 .. Len(route) : From(route, i) = From(route, j) => i = j
    /\ \A i, j \in 0 .. Len(route) : To(route, i) = To(route, j) => i = j
    /\ \A i \in 1 .. Len(route) : From(route, i) = route[i] /\ To(route, i - 1) = route[i]
    /\ \A i \in 0 .. Len(route), o \in DOMAIN d.orders :
          (From(route, i) = o <=> i # 0 /\ route[i] = o)
    /\ \A i \in 0 .. Len(route), o \in DOMAIN d.orders :
          (To(route, i) = o <=> i # Len(route) /\ route[i + 1] = o)

LEMMA RouteEnds ==
    ASSUME NEW d, IsData(d), NEW t \in DOMAIN d.trucks, NEW route, Driven(d, t, route)
    PROVE  RouteLeads(d, t, route)
<1>1. /\ Len(route) \in Nat
      /\ \A i \in 1 .. Len(route) : route[i] \in DOMAIN d.orders
      /\ \A i, j \in 1 .. Len(route) : route[i] = route[j] => i = j
      /\ ffo_pos \notin DOMAIN d.orders /\ flo_pos \notin DOMAIN d.orders
  BY DataIs DEF Driven
<1>2. \A i \in 0 .. Len(route) : i # 0 => i \in 1 .. Len(route)
  BY <1>1
<1>3. \A i \in 0 .. Len(route) : i # Len(route) => i + 1 \in 1 .. Len(route)
  BY <1>1
<1>4. \A i \in 0 .. Len(route) : From(route, i) \in Nodes(d) /\ To(route, i) \in Nodes(d)
  BY <1>1, <1>2, <1>3 DEF From, To, Nodes
<1>5. \A i, j \in 0 .. Len(route) : From(route, i) = From(route, j) => i = j
  BY <1>1, <1>2 DEF From
<1>6. \A i, j \in 0 .. Len(route) : To(route, i) = To(route, j) => i = j
  <2> SUFFICES ASSUME NEW i \in 0 .. Len(route), NEW j \in 0 .. Len(route),
                      To(route, i) = To(route, j)
               PROVE  i = j
    OBVIOUS
  <2>1. CASE i = Len(route) \/ j = Len(route)
    BY <1>1, <1>3, <2>1 DEF To
  <2>2. CASE i # Len(route) /\ j # Len(route)
    <3>1. route[i + 1] = route[j + 1]
      BY <2>2 DEF To
    <3>2. i + 1 = j + 1
      BY <1>1, <1>3, <2>2, <3>1
    <3>3. i \in Nat /\ j \in Nat
      BY <1>1
    <3> QED
      BY <3>2, <3>3
  <2> QED
    BY <2>1, <2>2
<1>7. \A i \in 1 .. Len(route) : From(route, i) = route[i] /\ To(route, i - 1) = route[i]
  <2> SUFFICES ASSUME NEW i \in 1 .. Len(route)
               PROVE  From(route, i) = route[i] /\ To(route, i - 1) = route[i]
    OBVIOUS
  <2>1. i # 0 /\ i - 1 # Len(route) /\ (i - 1) + 1 = i
    BY <1>1
  <2> QED
    BY <2>1 DEF From, To
<1>8. \A i \in 0 .. Len(route), o \in DOMAIN d.orders : (From(route, i) = o <=> i # 0 /\ route[i] = o)
  BY <1>1 DEF From
<1>9. \A i \in 0 .. Len(route), o \in DOMAIN d.orders :
         (To(route, i) = o <=> i # Len(route) /\ route[i + 1] = o)
  BY <1>1 DEF To
<1>10. RouteEdges(t, route) \in SUBSET ((DOMAIN d.trucks) \X Nodes(d) \X Nodes(d))
  <2> DEFINE T == DOMAIN d.trucks
             N == Nodes(d)
  <2>1. \A i \in 0 .. Len(route) : <<t, From(route, i), To(route, i)>> \in T \X N \X N
    BY <1>4
  <2> HIDE DEF T, N
  <2>2. RouteEdges(t, route) \in SUBSET (T \X N \X N)
    BY <2>1 DEF RouteEdges
  <2> QED
    BY <2>2 DEF T, N
<1> QED
  BY <1>5, <1>6, <1>7, <1>8, <1>9, <1>10 DEF RouteLeads

-----------------------------------------------------------------------------
(***************************************************************************)
(* What the edges of a plan are worth.                                     *)
(***************************************************************************)
\* Where there is a road, it has a length and a duration.
LEMMA RoadIs ==
    ASSUME NEW p, p.speed \in Nat \ {0}, p.dists \in [DOMAIN p.dists -> Nat],
           NEW from, NEW to, HasRoad(p, from, to)
    PROVE  GetDistance(p, from, to) \in Nat /\ TravelTime(p, from, to) \in Nat
<1>1. GetDistance(p, from, to) \in Nat
  BY DEF HasRoad, GetDistance
<1> QED
  BY <1>1 DEF TravelTime

\* The costs are whole numbers.
LEMMA CostsAre ==
    ASSUME NEW d, IsData(d), HasAmounts(d)
    PROVE  /\ d.speed \in Nat \ {0} /\ d.dists \in [DOMAIN d.dists -> Nat]
           /\ d.costs.free_km_cost \in Nat /\ d.costs.free_hour_cost \in Nat
           /\ d.costs.duty_km_cost \in Nat /\ d.costs.duty_hour_cost \in Nat
           /\ d.costs.wait_cost \in Nat
           /\ \A minutes, cost \in Int : TimeCost(d, minutes, cost) \in Int
           /\ \A distance, cost \in Int : RoadCost(d, distance, cost) \in Int
<1>1. d.speed \in Nat \ {0} /\ d.dists \in [DOMAIN d.dists -> Nat] /\ d.costs \in Params
  BY DEF IsData, HasAmounts
<1> QED
  BY <1>1 DEF Params, TimeCost, RoadCost

\* What a move costs and what an order pays are whole numbers.
LEMMA MoveIsNumber ==
    ASSUME NEW d, IsData(d), HasAmounts(d), NEW previous, NEW current,
           previous.finish_time \in Int, current.start_time \in Int,
           HasRoad(d, previous.to_city, current.from_city)
    PROVE  CostMovingBetweenOrders(d, previous, current) \in Int
<1>1. /\ GetDistance(d, previous.to_city, current.from_city) \in Nat
      /\ TravelTime(d, previous.to_city, current.from_city) \in Nat
  BY CostsAre, RoadIs
<1>2. \A a \in Nat : GetFreeMovementCost(d, a) \in Int
  BY CostsAre DEF GetFreeMovementCost, RoadCost
<1>3. \A a \in Int : TimeCost(d, a, d.costs.wait_cost) \in Int
  BY CostsAre DEF TimeCost
<1> QED
  BY <1>1, <1>2, <1>3 DEF CostMovingBetweenOrders

LEMMA OrderIsNumber ==
    ASSUME NEW d, IsData(d), HasAmounts(d), NEW o \in DOMAIN d.orders
    PROVE  GetRealOrderRevenue(d, o) \in Int
<1>1. d.orders[o].start_time \in Int /\ d.orders[o].finish_time \in Int
  <2>1. d.orders[o] \in Order
    BY DataIs
  <2> QED
    BY <2>1 DEF Order
<1>2. d.amounts[o].distance \in Nat /\ d.amounts[o].revenue \in Int
  BY DEF HasAmounts
<1>3. Minutes(d.orders[o].finish_time, d.orders[o].start_time) \in Int
  BY <1>1, UIntRangeAssumption DEF Minutes
<1>4. \A a \in Int : TimeCost(d, a, d.costs.duty_hour_cost) \in Int
  BY CostsAre DEF TimeCost
<1>5. \A a \in Nat : RoadCost(d, a, d.costs.duty_km_cost) \in Int
  BY CostsAre DEF RoadCost
<1> QED
  BY <1>2, <1>3, <1>4, <1>5 DEF GetRealOrderRevenue

\* The move to the fake last order costs nothing.
LEMMA StayIsFree ==
    ASSUME NEW d, IsData(d), HasAmounts(d), NEW order, order.finish_time \in Int
    PROVE  CostMovingBetweenOrders(d, order, make_flo(order)) = 0
<1>1. make_flo(order).from_city = order.to_city /\ make_flo(order).start_time = order.finish_time
  BY DEF make_flo
<1>2. GetDistance(d, order.to_city, order.to_city) = 0
  BY DEF GetDistance
<1>3. TravelTime(d, order.to_city, order.to_city) = 0
  <2>1. d.speed \in Nat \ {0}
    BY CostsAre
  <2> QED
    BY <1>2, <2>1 DEF TravelTime
<1>4. GetFreeMovementCost(d, 0) = 0
  BY CostsAre DEF GetFreeMovementCost, RoadCost
<1>5. TimeCost(d, 0, d.costs.wait_cost) = 0
  BY CostsAre DEF TimeCost
<1>6. order.finish_time - (order.finish_time + 0) = 0
  OBVIOUS
<1> QED
  BY <1>1, <1>2, <1>3, <1>4, <1>5, <1>6 DEF CostMovingBetweenOrders

\* What the edges of a plan cost: their columns, and for each truck's last one something
\* more.
Costs(d, plan, last, cost) ==
    /\ DOMAIN plan = DOMAIN d.trucks
    /\ \A t \in DOMAIN plan : Driven(d, t, plan[t]) /\ last[t] \in Int
    /\ \A e \in EdgesOf(plan) :
          cost[e] = ColCost(d, e) + (IF e[3] = flo_pos THEN last[e[1]] ELSE 0)

\* They add up to what the checker pays for the plan.
LEMMA RevenueOfEdges ==
    ASSUME NEW d, IsData(d), HasAmounts(d), NEW plan, NEW last, NEW cost,
           Costs(d, plan, last, cost)
    PROVE  /\ SummaryRevenue(d, plan) \in Int
           /\ SumFunctionOnSet(cost, EdgesOf(plan))
                 = SummaryRevenue(d, plan) + SumFunctionOnSet(last, DOMAIN plan)
<1> USE DEF Costs
<1> DEFINE T == DOMAIN plan
           len == [t \in T |-> Len(plan[t])]
           edge == [p \in Places(len) |-> <<p[1], From(plan[p[1]], p[2]), To(plan[p[1]], p[2])>>]
           move == [l \in Legs(len) |->
                       CostMovingBetweenOrders(d, Previous(d, plan, l[1], l[2]),
                                               d.orders[plan[l[1]][l[2]]])]
           order == [l \in Legs(len) |-> GetRealOrderRevenue(d, plan[l[1]][l[2]])]
           whole == [l \in Legs(len) |->
                       CostMovingBetweenOrders(d, Previous(d, plan, l[1], l[2]),
                                               d.orders[plan[l[1]][l[2]]])
                       + GetRealOrderRevenue(d, plan[l[1]][l[2]])]
<1>1. /\ \A t \in T : /\ Driven(d, t, plan[t]) /\ Len(plan[t]) \in Nat
                       /\ DOMAIN plan[t] = 1 .. Len(plan[t])
                       /\ \A i \in 1 .. Len(plan[t]) : plan[t][i] \in DOMAIN d.orders
      /\ IsFiniteSet(T) /\ T = DOMAIN d.trucks /\ len \in [T -> Nat]
  <2>1. \A t \in T : plan[t] \in Seq(DOMAIN d.orders)
    BY DEF Driven
  <2>2. \A t \in T : /\ Len(plan[t]) \in Nat /\ DOMAIN plan[t] = 1 .. Len(plan[t])
                     /\ \A i \in 1 .. Len(plan[t]) : plan[t][i] \in DOMAIN d.orders
    BY <2>1
  <2>3. IsFiniteSet(T)
    <3>1. Len(d.trucks) \in Nat /\ DOMAIN d.trucks = 1 .. Len(d.trucks)
      BY DataIs
    <3> QED
      BY <3>1, FS_Interval
  <2>4. len \in [T -> Nat]
    BY <2>2
  <2> QED
    BY <2>2, <2>3, <2>4
<1>2. /\ \A t, i : <<t, i>> \in Places(len) <=> t \in T /\ i \in 0 .. Len(plan[t])
      /\ \A t, i : <<t, i>> \in Legs(len) <=> t \in T /\ i \in 1 .. Len(plan[t])
      /\ \A p \in Places(len) : p = <<p[1], p[2]>>
      /\ Legs(len) \subseteq Places(len)
  <2>1. \A t \in T : len[t] = Len(plan[t])
    OBVIOUS
  <2>2. /\ \A t, i : <<t, i>> \in Places(len) <=> t \in T /\ i \in 0 .. len[t]
        /\ \A t, i : <<t, i>> \in Legs(len) <=> t \in T /\ i \in 1 .. len[t]
        /\ \A p \in Places(len) : p = <<p[1], p[2]>>
        /\ Legs(len) \subseteq Places(len)
    <3> HIDE DEF len, T
    <3> QED
      BY <1>1, PlacesAre
  <2> HIDE DEF len
  <2> QED
    BY <2>1, <2>2
<1> HIDE DEF len
<1>3. \A p \in Places(len) : /\ p[1] \in T /\ p[2] \in 0 .. Len(plan[p[1]]) /\ p[2] \in Nat
  BY <1>1, <1>2
<1>4. EdgesOf(plan) = {edge[p] : p \in Places(len)}
  <2>1. EdgesOf(plan) = UNION {RouteEdges(t, plan[t]) : t \in T}
    BY DEF EdgesOf, RouteEdges, From, To
  <2>2. ASSUME NEW p \in Places(len) PROVE edge[p] \in EdgesOf(plan)
    BY <1>3, <2>1, <2>2 DEF RouteEdges
  <2>3. ASSUME NEW e \in EdgesOf(plan) PROVE \E p \in Places(len) : edge[p] = e
    <3>1. PICK t \in T : e \in RouteEdges(t, plan[t])
      BY <2>1
    <3>2. PICK i \in 0 .. Len(plan[t]) : e = <<t, From(plan[t], i), To(plan[t], i)>>
      BY <3>1 DEF RouteEdges
    <3>3. <<t, i>> \in Places(len) /\ edge[<<t, i>>] = e
      BY <1>2, <3>2
    <3> QED
      BY <3>3
  <2> HIDE DEF edge
  <2> QED
    BY <2>2, <2>3
<1>5. \A p, q \in Places(len) : edge[p] = edge[q] => p = q
  <2> SUFFICES ASSUME NEW p \in Places(len), NEW q \in Places(len), edge[p] = edge[q]
               PROVE  p = q
    OBVIOUS
  <2>1. p[1] = q[1] /\ From(plan[p[1]], p[2]) = From(plan[q[1]], q[2])
    OBVIOUS
  <2>2. \A t \in T : \A i, j \in 0 .. Len(plan[t]) :
           From(plan[t], i) = From(plan[t], j) => i = j
    BY <1>1, RouteEnds DEF RouteLeads
  <2>3. p[2] = q[2]
    BY <1>3, <2>1, <2>2
  <2> QED
    BY <1>2, <2>1, <2>3
<1>6. ASSUME NEW t \in T, NEW i \in 1 .. Len(plan[t])
      PROVE  /\ CostMovingBetweenOrders(d, Previous(d, plan, t, i), d.orders[plan[t][i]]) \in Int
             /\ GetRealOrderRevenue(d, plan[t][i]) \in Int
  <2> DEFINE previous == Previous(d, plan, t, i)
             current == d.orders[plan[t][i]]
  <2>1. plan[t][i] \in DOMAIN d.orders /\ current \in Order /\ d.trucks[t] \in Truck
    BY <1>1, DataIs
  <2>2. MoveBetweenOrders(d, d.trucks[t], previous, current)
    BY <1>1 DEF Driven, Previous
  <2>3. HasRoad(d, previous.to_city, current.from_city)
    BY <2>2 DEF MoveBetweenOrders, CanReach
  <2>4. previous.finish_time \in Int
    <3>1. CASE i = 1
      BY <2>1, <3>1 DEF Previous, make_ffo, Truck
    <3>2. CASE i # 1
      <4>1. i - 1 \in 1 .. Len(plan[t])
        BY <1>1, <3>2
      <4>2. d.orders[plan[t][i - 1]] \in Order
        BY <1>1, <4>1, DataIs
      <4> QED
        BY <3>2, <4>2 DEF Previous, EndOf, Order
    <3> QED
      BY <3>1, <3>2
  <2>5. current.start_time \in Int
    BY <2>1 DEF Order
  <2> HIDE DEF previous, current
  <2>6. CostMovingBetweenOrders(d, previous, current) \in Int
    BY <2>3, <2>4, <2>5, MoveIsNumber
  <2> QED
    BY <2>1, <2>6, OrderIsNumber DEF previous, current
<1>7. \A l \in Legs(len) : move[l] \in Int /\ order[l] \in Int /\ whole[l] = move[l] + order[l]
  BY <1>2, <1>3, <1>6
<1>8. ASSUME NEW t \in T, NEW i \in 0 .. Len(plan[t])
      PROVE  cost[edge[<<t, i>>]] = (IF i = Len(plan[t]) THEN last[t] ELSE move[<<t, i + 1>>])
                                       + (IF i = 0 THEN 0 ELSE order[<<t, i>>])
  <2> DEFINE from == From(plan[t], i)
             to == To(plan[t], i)
             e == <<t, from, to>>
             from_order == IF from = ffo_pos THEN make_ffo(d.trucks[t]) ELSE d.orders[from]
             to_order == IF to = flo_pos THEN make_flo(from_order) ELSE d.orders[to]
             pay == IF i = 0 THEN 0 ELSE order[<<t, i>>]
  <2>1. <<t, i>> \in Places(len) /\ edge[<<t, i>>] = e /\ e \in EdgesOf(plan)
    BY <1>2, <1>4
  <2>2. /\ from = ffo_pos <=> i = 0
        /\ i # 0 => /\ i \in 1 .. Len(plan[t]) /\ from = plan[t][i] /\ from \in DOMAIN d.orders
                    /\ <<t, i>> \in Legs(len)
        /\ to = flo_pos <=> i = Len(plan[t])
        /\ i # Len(plan[t]) => /\ i + 1 \in 1 .. Len(plan[t]) /\ to = plan[t][i + 1]
                               /\ <<t, i + 1>> \in Legs(len)
    <3>1. ffo_pos \notin DOMAIN d.orders /\ flo_pos \notin DOMAIN d.orders
      BY DataIs
    <3> QED
      BY <1>1, <1>2, <3>1 DEF From, To
  <2>3. cost[e] = ColCost(d, e) + (IF to = flo_pos THEN last[t] ELSE 0)
    BY <2>1
  <2>4. ColCost(d, e) = CostMovingBetweenOrders(d, from_order, to_order)
                           + (IF from = ffo_pos THEN 0 ELSE GetRealOrderRevenue(d, from))
    BY DEF ColCost
  <2>5. pay = (IF from = ffo_pos THEN 0 ELSE GetRealOrderRevenue(d, from)) /\ pay \in Int
    BY <1>7, <2>2
  <2>6. from_order.finish_time \in Int
    <3>1. d.trucks[t] \in Truck /\ (i # 0 => d.orders[from] \in Order)
      BY <1>1, <2>2, DataIs
    <3> QED
      BY <2>2, <3>1 DEF make_ffo, Truck, Order
  <2>7. CASE i = Len(plan[t])
    <3>1. to_order = make_flo(from_order)
      BY <2>2, <2>7
    <3> HIDE DEF from_order, to_order
    <3>2. CostMovingBetweenOrders(d, from_order, to_order) = 0
      BY <2>6, <3>1, StayIsFree
    <3> HIDE DEF from, to, e, pay
    <3> QED
      BY <2>1, <2>2, <2>3, <2>4, <2>5, <2>7, <3>2 DEF pay
  <2>8. CASE i # Len(plan[t])
    <3>1. to_order = d.orders[plan[t][i + 1]]
      BY <2>2, <2>8
    <3>2. CostMovingBetweenOrders(d, from_order, to_order)
             = CostMovingBetweenOrders(d, Previous(d, plan, t, i + 1), to_order)
      <4>1. CASE i = 0
        BY <2>2, <4>1 DEF Previous
      <4>2. CASE i # 0
        <5>1. i + 1 # 1 /\ (i + 1) - 1 = i
          BY <2>2, <4>2
        <5>2. Previous(d, plan, t, i + 1) = EndOf(d.orders[plan[t][i]])
          BY <5>1 DEF Previous
        <5>3. from_order = d.orders[plan[t][i]]
          BY <2>2, <4>2
        <5> HIDE DEF from_order, to_order
        <5> QED
          BY <5>2, <5>3 DEF CostMovingBetweenOrders, EndOf
      <4> QED
        BY <4>1, <4>2
    <3>3. CostMovingBetweenOrders(d, from_order, to_order) = move[<<t, i + 1>>]
      <4> HIDE DEF from_order
      <4> QED
        BY <2>2, <2>8, <3>1, <3>2
    <3>4. move[<<t, i + 1>>] \in Int
      BY <1>7, <2>2, <2>8
    <3> HIDE DEF from_order, to_order, from, to, e, move, order
    <3> QED
      BY <2>1, <2>2, <2>3, <2>4, <2>5, <2>8, <3>3, <3>4
  <2> QED
    BY <2>7, <2>8
<1>9. SumFunctionOnSet(cost, {edge[p] : p \in Places(len)})
         = SumFunctionOnSet(whole, Legs(len)) + SumFunctionOnSet(last, T)
  <2>1. IsFiniteSet(T) /\ len \in [T -> Nat] /\ \A t \in T : last[t] \in Int
    BY <1>1
  <2>2. \A t \in T : len[t] = Len(plan[t])
    BY DEF len
  <2> HIDE DEF edge, move, order, whole, T
  <2>3. \A t \in T : \A i \in 0 .. len[t] :
           cost[edge[<<t, i>>]] = (IF i = len[t] THEN last[t] ELSE move[<<t, i + 1>>])
                                     + (IF i = 0 THEN 0 ELSE order[<<t, i>>])
    BY <1>8, <2>2
  <2> QED
    <3>1. Priced(T, len, edge, cost, move, order, whole, last)
      BY <1>5, <1>7, <2>1, <2>3 DEF Priced
    <3> QED
      BY <2>1, <3>1, SumOfRoutes
<1>10. SummaryRevenue(d, plan) = SumFunctionOnSet(whole, Legs(len))
  <2>1. UNION {{t} \X DOMAIN plan[t] : t \in DOMAIN d.trucks} = Legs(len)
    <3>1. \A t \in T : DOMAIN plan[t] = 1 .. len[t]
      BY <1>1 DEF len
    <3> QED
      BY <1>1, <3>1 DEF Legs, len
  <2>2. DOMAIN whole = Legs(len)
    OBVIOUS
  <2> QED
    BY <2>1, <2>2 DEF SummaryRevenue, SumFunction
<1>11. SumFunctionOnSet(whole, Legs(len)) \in Int
  <2>1. IsFiniteSet(Legs(len))
    <3>1. IsFiniteSet(T) /\ len \in [T -> Nat]
      BY <1>1
    <3> HIDE DEF T
    <3> QED
      BY <3>1, PlacesAre, FS_Subset
  <2>2. \A l \in Legs(len) : whole[l] \in Int
    BY <1>7
  <2> HIDE DEF whole
  <2> QED
    BY <2>1, <2>2, SumType
<1> HIDE DEF edge, whole
<1> QED
  BY <1>4, <1>9, <1>10, <1>11

\* In a plan that the checker accepts and that has no order twice every truck can drive
\* its route.
LEMMA PlanIsDriven ==
    ASSUME NEW d, NEW plan \in Solution(d), Accepts(d, plan), NoRepeats(plan)
    PROVE  /\ DOMAIN plan = DOMAIN d.trucks
           /\ \A t \in DOMAIN plan : Driven(d, t, plan[t])
<1>1. /\ DOMAIN plan = DOMAIN d.trucks
      /\ \A t \in DOMAIN plan : /\ plan[t] \in Seq(DOMAIN d.orders)
                               /\ DOMAIN plan[t] = 1 .. Len(plan[t])
  BY DEF Solution
<1>2. \A t \in DOMAIN plan : \A i, j \in 1 .. Len(plan[t]) : plan[t][i] = plan[t][j] => i = j
  BY <1>1 DEF NoRepeats
<1> QED
  BY <1>1, <1>2 DEF Driven, Accepts, Previous

\* Nothing that CreateModel tests for and not the filter leaves out an edge of a plan.
LEMMA EdgesKept ==
    ASSUME NEW d, IsData(d), ForwardOrders(d),
           NEW plan, DOMAIN plan = DOMAIN d.trucks, \A t \in DOMAIN plan : Driven(d, t, plan[t])
    PROVE  EdgesOf(plan) \subseteq Kept(d)
<1> SUFFICES ASSUME NEW t \in DOMAIN d.trucks PROVE RouteEdges(t, plan[t]) \subseteq Kept(d)
  BY DEF EdgesOf, RouteEdges, From, To
<1>1. RouteEdges(t, plan[t]) \subseteq AllVariables(d)
  BY RouteVariables
<1>2. \A i \in 0 .. Len(plan[t]) : /\ Ahead(d, AllVariables(d), t, From(plan[t], i))
                                   /\ Behind(d, AllVariables(d), t, To(plan[t], i))
  BY RouteBetween
<1>3. \A e \in RouteEdges(t, plan[t]) : /\ Ahead(d, AllVariables(d), e[1], e[2])
                                        /\ Behind(d, AllVariables(d), e[1], e[3])
  BY <1>2 DEF RouteEdges
<1> QED
  BY <1>1, <1>3 DEF Kept

\* The parts of a variable, and the fields that its cost is made of.
LEMMA VariableIs ==
    ASSUME NEW d, IsData(d), HasAmounts(d), NEW e \in AllVariables(d)
    PROVE  /\ e = <<e[1], e[2], e[3]>>
           /\ e[1] \in DOMAIN d.trucks
           /\ e[2] \in DOMAIN d.orders \cup {ffo_pos}
           /\ e[3] \in DOMAIN d.orders \cup {flo_pos}
           /\ ColCost(d, e) \in Int
<1>1. /\ e = <<e[1], e[2], e[3]>>
      /\ e[1] \in DOMAIN d.trucks /\ e[2] \in Nodes(d) /\ e[3] \in Nodes(d)
      /\ HasVariable(d, e[1], e[2], e[3])
  BY DEF AllVariables
<1>2. ffo_pos \notin DOMAIN d.orders /\ flo_pos \notin DOMAIN d.orders /\ ffo_pos # flo_pos
  BY DataIs
<1>3. e[2] \in DOMAIN d.orders \cup {ffo_pos} /\ e[3] \in DOMAIN d.orders \cup {flo_pos}
  BY <1>1, <1>2 DEF HasVariable
<1>4. d.trucks[e[1]] \in Truck /\ \A o \in DOMAIN d.orders : d.orders[o] \in Order
  BY <1>1, DataIs
<1> DEFINE from_order == IF e[2] = ffo_pos THEN make_ffo(d.trucks[e[1]]) ELSE d.orders[e[2]]
           to_order == IF e[3] = flo_pos THEN make_flo(from_order) ELSE d.orders[e[3]]
<1>5. from_order.finish_time \in Int
  BY <1>3, <1>4 DEF make_ffo, Truck, Order
<1>6. to_order.start_time \in Int /\ HasRoad(d, from_order.to_city, to_order.from_city)
  <2>1. CASE e[3] = flo_pos
    BY <1>5, <2>1 DEF make_flo, HasRoad
  <2>2. CASE e[3] # flo_pos
    <3>1. e[3] \in DOMAIN d.orders /\ d.orders[e[3]].start_time \in Int
      BY <1>3, <1>4, <2>2 DEF Order
    <3>2. CanMove(d, e[1], from_order, e[3])
      BY <1>1, <1>2, <1>3, <2>2 DEF HasVariable
    <3> QED
      BY <2>2, <3>1, <3>2 DEF CanMove, MoveBetweenOrders, CanReach
  <2> QED
    BY <2>1, <2>2
<1>7. ColCost(d, e) = CostMovingBetweenOrders(d, from_order, to_order)
                         + (IF e[2] = ffo_pos THEN 0 ELSE GetRealOrderRevenue(d, e[2]))
  BY DEF ColCost
<1> HIDE DEF from_order, to_order
<1>8. CostMovingBetweenOrders(d, from_order, to_order) \in Int
  BY <1>5, <1>6, MoveIsNumber
<1>9. e[2] # ffo_pos => GetRealOrderRevenue(d, e[2]) \in Int
  BY <1>3, OrderIsNumber
<1> QED
  BY <1>1, <1>3, <1>7, <1>8, <1>9
================================================================================

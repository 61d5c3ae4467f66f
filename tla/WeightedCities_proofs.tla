------------------------ MODULE WeightedCities_proofs ------------------------
(***************************************************************************)
(* That what SetData hands to the inner solver is the caller's data with   *)
(* one edge for every weight: the data keep their type, real orders keep   *)
(* their positions, every weight finds its own edge, and an edge pays the  *)
(* bonus of one of its weights but for a minute's rounding.  All of it     *)
(* follows from DataInv, which says which weights the data was made with;  *)
(* they need not be those that the caller has now.  The cost vector of     *)
(* CreateModel adds up, over the edges of a plan, to what the checker pays *)
(* less the fines for standing.                                            *)
(***************************************************************************)
EXTENDS WeightedCities, Columns_proofs

\* The parts of a triple.
LEMMA EntryOf ==
    ASSUME NEW k \in Entries
    PROVE  /\ k = <<k[1], k[2], k[3]>>
           /\ k[1] \in Nat \ {0} /\ k[2] \in (Nat \ {0}) \cup {-1}
           /\ k[3] \in City /\ k[3] \in Nat
<1>1. k \in (Nat \ {0}) \X ((Nat \ {0}) \cup {-1}) \X City
  BY CallsAssumption DEF ffo_pos
<1>2. k = <<k[1], k[2], k[3]>>
  BY <1>1
<1>3. k[1] \in Nat \ {0} /\ k[2] \in (Nat \ {0}) \cup {-1} /\ k[3] \in City
  BY <1>1
<1>4. k[3] \in Nat
  BY <1>3, CallsAssumption
<1> QED
  BY <1>2, <1>3, <1>4

\* The iteration of the two maps is a strict total order of the triples.
LEMMA BeforeIsOrder ==
    /\ \A k \in Entries : ~ Before(k, k)
    /\ \A k, l \in Entries : k = l \/ Before(k, l) \/ Before(l, k)
    /\ \A k, l, n \in Entries : Before(k, l) /\ Before(n, k) => Before(n, l)
<1>1. \A k \in Entries : ~ Before(k, k)
  BY EntryOf DEF Before
<1>2. ASSUME NEW k \in Entries, NEW l \in Entries
      PROVE  k = l \/ Before(k, l) \/ Before(l, k)
  <2>1. k[1] = l[1] /\ k[2] = l[2] /\ k[3] = l[3] => k = l
    BY EntryOf
  <2> QED
    BY <2>1, EntryOf DEF Before, ffo_pos
<1>3. ASSUME NEW k \in Entries, NEW l \in Entries, NEW n \in Entries,
             Before(k, l), Before(n, k)
      PROVE  Before(n, l)
  BY <1>3, EntryOf DEF Before, ffo_pos
<1> QED
  BY <1>1, <1>2, <1>3

\* What the iteration comes to before k.
Earlier(S, k) == {l \in S : Before(l, k)}

\* The triples of a map in the order of its iteration: each of them at one place.
LEMMA EntriesSorted ==
    ASSUME NEW S \in SUBSET Entries, IsFiniteSet(S)
    PROVE  LET N == 1 .. Cardinality(S)
           IN  /\ Cardinality(S) \in Nat
               /\ \A i \in N : /\ Sorted(S, Before)[i] \in S
                               /\ Cardinality(Earlier(S, Sorted(S, Before)[i])) = i - 1
               /\ \A k \in S : \E i \in N : Sorted(S, Before)[i] = k
               /\ \A i, j \in N : Sorted(S, Before)[i] = Sorted(S, Before)[j] => i = j
<1> DEFINE below == [k \in S |-> {l \in S : Before(l, k)}]
           A == Sorted(S, Before)
           N == 1 .. Cardinality(S)
<1>1. below \in [S -> SUBSET S]
  OBVIOUS
<1>2. \A k, l \in S : k \in below[l] <=> Before(k, l)
  OBVIOUS
<1>3. /\ \A x \in S : x \notin below[x]
      /\ \A x, y \in S : x = y \/ x \in below[y] \/ y \in below[x]
      /\ \A x, y \in S : x \in below[y] => below[x] \subseteq below[y]
  <2> HIDE DEF below
  <2> QED
    BY <1>1, <1>2, BeforeIsOrder
<1>4. /\ \A i \in N : \E x \in S : Cardinality(below[x]) = i - 1
      /\ \A x, y \in S : Cardinality(below[x]) = Cardinality(below[y]) => x = y
      /\ \A x \in S : Cardinality(below[x]) \in 0 .. Cardinality(S) - 1
  <2> HIDE DEF below
  <2> QED
    BY <1>1, <1>3, Ranks
<1>5. \A i \in N : A[i] \in S /\ Cardinality(below[A[i]]) = i - 1
  <2> TAKE i \in N
  <2>1. A[i] = CHOOSE x \in S : Cardinality({l \in S : Before(l, x)}) = i - 1
    BY DEF Sorted
  <2>2. \A x \in S : below[x] = {l \in S : Before(l, x)}
    OBVIOUS
  <2>3. \E x \in S : Cardinality({l \in S : Before(l, x)}) = i - 1
    <3> HIDE DEF below
    <3> QED
      BY <1>4, <2>2
  <2>4. A[i] \in S /\ Cardinality({l \in S : Before(l, A[i])}) = i - 1
    <3> HIDE DEF A
    <3> QED
      BY <2>1, <2>3
  <2> HIDE DEF A, below
  <2> QED
    BY <2>2, <2>4
<1>6. \A i \in N : Earlier(S, A[i]) = below[A[i]]
  BY <1>5 DEF Earlier
<1>7. SUFFICES /\ Cardinality(S) \in Nat
               /\ \A k \in S : \E i \in N : A[i] = k
               /\ \A i, j \in N : A[i] = A[j] => i = j
  BY <1>5, <1>6
<1>8. Cardinality(S) \in Nat
  BY FS_CardinalityType
<1> HIDE DEF A, below
<1>9. ASSUME NEW k \in S PROVE \E i \in N : A[i] = k
  <2> DEFINE i == Cardinality(below[k]) + 1
  <2>1. i \in N /\ Cardinality(below[k]) = i - 1
    BY <1>4, <1>8
  <2> HIDE DEF i
  <2>2. Cardinality(below[A[i]]) = Cardinality(below[k]) /\ A[i] \in S
    BY <1>5, <2>1
  <2> QED
    BY <1>4, <2>1, <2>2
<1>10. ASSUME NEW i \in N, NEW j \in N, A[i] = A[j] PROVE i = j
  <2>1. i - 1 = j - 1
    BY <1>5, <1>10
  <2> QED
    BY <1>8, <2>1
<1> QED
  BY <1>8, <1>9, <1>10

\* Nothing comes before the first.
LEMMA FirstEntry ==
    ASSUME NEW S \in SUBSET Entries, IsFiniteSet(S), S # {}
    PROVE  /\ Sorted(S, Before)[1] \in S
           /\ \A l \in S : ~ Before(l, Sorted(S, Before)[1])
<1> DEFINE first == Sorted(S, Before)[1]
<1>1. 1 \in 1 .. Cardinality(S)
  BY FS_CardinalityType, FS_EmptySet
<1>2. first \in S /\ Cardinality(Earlier(S, first)) = 0
  BY <1>1, EntriesSorted
<1>3. Earlier(S, first) = {}
  BY <1>2, FS_Subset, FS_EmptySet DEF Earlier
<1> QED
  BY <1>2, <1>3 DEF Earlier

\* Every weight shares its key with just one maker.
LEMMA MakersOf ==
    ASSUME NEW d, NEW w, DOMAIN w \in SUBSET Entries, IsFiniteSet(DOMAIN w)
    PROVE  LET N == 1 .. Cardinality(MakerSet(d, w))
           IN  /\ Cardinality(MakerSet(d, w)) \in Nat
               /\ Makers(d, w) \in [N -> MakerSet(d, w)]
               /\ \A i, j \in N : EdgeKey(d, Makers(d, w)[i]) = EdgeKey(d, Makers(d, w)[j]) => i = j
               /\ \A k \in DOMAIN w : \E i \in N : EdgeKey(d, Makers(d, w)[i]) = EdgeKey(d, k)
<1> DEFINE S == MakerSet(d, w)
           A == Makers(d, w)
           N == 1 .. Cardinality(S)
           Key(k) == EdgeKey(d, k)
<1>1. S \in SUBSET Entries /\ S \subseteq DOMAIN w /\ IsFiniteSet(S)
  BY FS_Subset DEF MakerSet
<1>2. /\ Cardinality(S) \in Nat
      /\ \A i \in N : A[i] \in S
      /\ \A k \in S : \E i \in N : A[i] = k
      /\ \A i, j \in N : A[i] = A[j] => i = j
  <2> HIDE DEF S
  <2> QED
    BY <1>1, EntriesSorted DEF Makers, S
<1>3. A = [i \in N |-> A[i]]
  BY DEF Makers, Sorted
<1>4. \A k \in S, l \in DOMAIN w : Before(l, k) => Key(l) # Key(k)
  BY DEF MakerSet
<1> HIDE DEF Key, A, S
<1>5. A \in [N -> S]
  BY <1>2, <1>3
<1>6. ASSUME NEW i \in N, NEW j \in N, Key(A[i]) = Key(A[j]) PROVE i = j
  <2>1. ~ Before(A[i], A[j]) /\ ~ Before(A[j], A[i])
    BY <1>1, <1>2, <1>4, <1>6
  <2>2. A[i] \in Entries /\ A[j] \in Entries
    BY <1>1, <1>2
  <2> QED
    BY <1>2, <2>1, <2>2, BeforeIsOrder
<1>7. ASSUME NEW k \in DOMAIN w PROVE \E i \in N : Key(A[i]) = Key(k)
  <2> DEFINE T == {l \in DOMAIN w : Key(l) = Key(k)}
             first == Sorted(T, Before)[1]
  <2>1. T \in SUBSET Entries /\ IsFiniteSet(T) /\ k \in T
    BY FS_Subset
  <2>2. first \in T /\ \A l \in T : ~ Before(l, first)
    <3> HIDE DEF T
    <3> QED
      BY <2>1, FirstEntry
  <2>3. first \in S
    <3>1. first \in DOMAIN w /\ Key(first) = Key(k)
      BY <2>2
    <3> HIDE DEF first
    <3>2. ASSUME NEW l \in DOMAIN w, Before(l, first) PROVE Key(l) # Key(first)
      BY <2>2, <3>1, <3>2
    <3> QED
      BY <3>1, <3>2 DEF S, MakerSet, Key
  <2>4. Key(first) = Key(k)
    <3> HIDE DEF first
    <3> QED
      BY <2>2
  <2> QED
    BY <1>2, <2>3, <2>4
<1> QED
  BY <1>2, <1>5, <1>6, <1>7 DEF Key, A, S

-----------------------------------------------------------------------------
AmountsOf == [distance : Nat, revenue : Int]

\* What the inputs are, field by field.
LEMMA InputIs ==
    ASSUME NEW d \in Inputs
    PROVE  /\ IsData(d) /\ HasAmounts(d)
           /\ d.trucks \in Seq(Truck) /\ d.orders \in Seq(Order)
           /\ d.amounts \in [DOMAIN d.orders -> AmountsOf]
           /\ d.costs \in Params /\ d.speed \in Nat \ {0}
           /\ DOMAIN d.dists \subseteq City \X City /\ d.dists \in [DOMAIN d.dists -> Nat]
           /\ d.trucks # <<>>
BY InputsAssumption DEF IsData, HasAmounts, AmountsOf

\* Weights that fit the data: where each leads from, and the road.
LEMMA LastOrderIs ==
    ASSUME NEW d \in Inputs, NEW w, IsWeights(w), Fits(d, w), NEW k \in DOMAIN w
    PROVE  LET last == LastOrder(d, k)
           IN  /\ k \in Entries /\ k[1] \in DOMAIN d.trucks /\ k[3] \in City
               /\ last = [to_city |-> last.to_city, finish_time |-> last.finish_time]
               /\ last.to_city \in City /\ last.finish_time \in Nat
               /\ HasRoad(d, last.to_city, k[3])
               /\ GetDistance(d, last.to_city, k[3]) \in Nat
               /\ TravelTime(d, last.to_city, k[3]) \in Nat
               /\ TravelTime(d, last.to_city, k[3]) < UIntRange
<1> DEFINE last == LastOrder(d, k)
<1>1. k \in Entries /\ k[3] \in City
  BY EntryOf DEF IsWeights
<1>2. /\ k[1] \in DOMAIN d.trucks
      /\ k[2] \in DOMAIN d.orders \cup {ffo_pos}
      /\ HasRoad(d, last.to_city, k[3])
  BY DEF Fits
<1>3. /\ last = [to_city |-> last.to_city, finish_time |-> last.finish_time]
      /\ last.to_city \in City /\ last.finish_time \in Nat
  <2>1. CASE k[2] = ffo_pos
    <3>1. d.trucks[k[1]] \in Truck
      BY <1>2, InputIs
    <3>2. last = [to_city |-> d.trucks[k[1]].init_city, finish_time |-> d.trucks[k[1]].init_time]
      BY <2>1 DEF LastOrder, make_ffo
    <3> QED
      BY <3>1, <3>2 DEF Truck
  <2>2. CASE k[2] # ffo_pos
    <3>1. d.orders[k[2]] \in Order
      BY <1>2, <2>2, InputIs
    <3>2. last = [to_city |-> d.orders[k[2]].to_city, finish_time |-> d.orders[k[2]].finish_time]
      BY <2>2 DEF LastOrder, EndOf
    <3> QED
      BY <3>1, <3>2 DEF Order
  <2> QED
    BY <2>1, <2>2
<1> HIDE DEF last
<1>4. GetDistance(d, last.to_city, k[3]) \in Nat /\ TravelTime(d, last.to_city, k[3]) \in Nat
  BY <1>2, InputIs, RoadIs
<1>5. TravelTime(d, last.to_city, k[3]) < UIntRange
  <2>1. \A a, b \in City : HasRoad(d, a, b) => TravelTime(d, a, b) < UIntRange
    <3> TAKE a, b \in City
    <3>1. <<a, b>> \in City \X City /\ <<a, b>>[1] = a /\ <<a, b>>[2] = b
      OBVIOUS
    <3> QED
      BY <3>1, DurationsAssumption
  <2> QED
    BY <1>1, <1>2, <1>3, <2>1
<1> QED
  BY <1>1, <1>2, <1>3, <1>4, <1>5 DEF last

\* The edge of a weight is an order, and its amounts are what they should be.
LEMMA EdgeIs ==
    ASSUME NEW d \in Inputs, NEW w, IsWeights(w), Fits(d, w), NEW k \in DOMAIN w
    PROVE  /\ FreeMovementEdge(d, k) \in Order
           /\ EdgeAmounts(d, k, w[k]) \in AmountsOf
<1> DEFINE last == LastOrder(d, k)
           travel == TravelTime(d, last.to_city, k[3])
           distance == GetDistance(d, last.to_city, k[3])
<1>1. /\ k \in Entries /\ k[1] \in DOMAIN d.trucks /\ k[3] \in City
      /\ last.to_city \in City /\ last.finish_time \in Nat
      /\ distance \in Nat /\ travel \in Nat
  BY LastOrderIs
<1>2. /\ d.trucks[k[1]].mask_load_type \in SUBSET LoadType
      /\ d.trucks[k[1]].mask_trailer_type \in SUBSET TrailerType
  <2>1. d.trucks[k[1]] \in Truck
    BY <1>1, InputIs
  <2> QED
    BY <2>1 DEF Truck
<1>3. d.trucks[k[1]].mask_load_type \cup PositionBits(k[1]) \in SUBSET Nat
  <2>1. PositionBits(k[1]) \in SUBSET Nat
    BY <1>1, EntryOf DEF PositionBits, LOAD_TYPE_COUNT
  <2> QED
    BY <1>2, <2>1 DEF LoadType, LOAD_TYPE_COUNT
<1>4. last.finish_time + (IF travel = 0 THEN 1 ELSE travel) \in Nat
  BY <1>1
<1>5. FreeMovementEdge(d, k) \in Order
  BY <1>1, <1>2, <1>3, <1>4 DEF FreeMovementEdge, Order
<1>6. EdgeAmounts(d, k, w[k]) \in AmountsOf
  <2>1. w[k] \in Int
    BY DEF IsWeights
  <2>2. d.costs.duty_km_cost \in Nat /\ d.costs.duty_hour_cost \in Nat /\ d.speed \in Nat
    BY InputIs DEF Params
  <2>3. RoadCost(d, distance, d.costs.duty_km_cost) \in Int
    BY <1>1, <2>2 DEF RoadCost
  <2>4. 60 * distance * d.costs.duty_hour_cost \in Int
    BY <1>1, <2>2
  <2> QED
    BY <1>1, <2>1, <2>3, <2>4 DEF EdgeAmounts, AmountsOf
<1> QED
  BY <1>5, <1>6

\* The elements of two sequences, one after the other.
LEMMA Concatenated ==
    ASSUME NEW T, NEW s \in Seq(T), NEW u \in Seq(T)
    PROVE  /\ s \o u \in Seq(T) /\ DOMAIN (s \o u) = 1 .. Len(s) + Len(u)
           /\ s \o u \in [1 .. Len(s) + Len(u) -> T]
           /\ \A i \in 1 .. Len(s) : (s \o u)[i] = s[i]
           /\ \A i \in 1 .. Len(u) : (s \o u)[Len(s) + i] = u[i]
<1>1. s \o u \in Seq(T) /\ Len(s \o u) = Len(s) + Len(u) /\ Len(s) \in Nat /\ Len(u) \in Nat
  OBVIOUS
<1>2. \A i \in 1 .. Len(s) + Len(u) : (s \o u)[i] = IF i <= Len(s) THEN s[i] ELSE u[i - Len(s)]
  OBVIOUS
<1>3. ASSUME NEW i \in 1 .. Len(s) PROVE (s \o u)[i] = s[i]
  BY <1>1, <1>2
<1>4. ASSUME NEW i \in 1 .. Len(u) PROVE (s \o u)[Len(s) + i] = u[i]
  <2>1. /\ Len(s) + i \in 1 .. Len(s) + Len(u)
        /\ ~ (Len(s) + i <= Len(s)) /\ (Len(s) + i) - Len(s) = i
    BY <1>1
  <2> QED
    BY <1>2, <2>1
<1>5. s \o u \in [1 .. Len(s) + Len(u) -> T]
  <2>1. \A q \in Seq(T) : q \in [1 .. Len(q) -> T]
    OBVIOUS
  <2> QED
    BY <1>1, <2>1
<1>6. DOMAIN (s \o u) = 1 .. Len(s) + Len(u)
  BY <1>5
<1> QED
  BY <1>1, <1>3, <1>4, <1>5, <1>6

\* The modified data: the input, with one more order for every maker.
LEMMA Modified ==
    ASSUME NEW d \in Inputs, NEW w, IsWeights(w), IsFiniteSet(DOMAIN w), Fits(d, w)
    PROVE  LET D == ModifyData(d, w)
               n == Len(d.orders)
               m == Cardinality(MakerSet(d, w))
           IN  /\ n \in Nat /\ m \in Nat
               /\ D.trucks = d.trucks /\ D.dists = d.dists
               /\ D.speed = d.speed /\ D.costs = d.costs
               /\ DOMAIN d.orders = 1 .. n /\ DOMAIN D.orders = 1 .. n + m
               /\ \A o \in 1 .. n : D.orders[o] = d.orders[o] /\ D.amounts[o] = d.amounts[o]
               /\ \A i \in 1 .. m :
                     /\ D.orders[n + i] = FreeMovementEdge(d, Makers(d, w)[i])
                     /\ D.amounts[n + i] = EdgeAmounts(d, Makers(d, w)[i], w[Makers(d, w)[i]])
               /\ IsData(D) /\ HasAmounts(D)
<1> DEFINE D == ModifyData(d, w)
           n == Len(d.orders)
           m == Cardinality(MakerSet(d, w))
           makers == Makers(d, w)
           edges == [i \in DOMAIN makers |-> FreeMovementEdge(d, makers[i])]
           amounts == [i \in DOMAIN makers |-> EdgeAmounts(d, makers[i], w[makers[i]])]
<1>1. m \in Nat /\ makers \in [1 .. m -> DOMAIN w]
  <2>1. m \in Nat /\ makers \in [1 .. m -> MakerSet(d, w)]
    BY MakersOf DEF IsWeights
  <2>2. MakerSet(d, w) \subseteq DOMAIN w
    BY DEF MakerSet
  <2> QED
    BY <2>1, <2>2
<1>2. n \in Nat /\ DOMAIN d.orders = 1 .. n /\ d.orders \in Seq(Order)
  BY InputIs
<1>3. d.amounts \in Seq(AmountsOf) /\ Len(d.amounts) = n
  <2>1. d.amounts \in [1 .. n -> AmountsOf]
    BY <1>2, InputIs
  <2> QED
    BY <1>2, <2>1
<1>4. edges \in Seq(Order) /\ Len(edges) = m /\ \A i \in 1 .. m : edges[i] = FreeMovementEdge(d, makers[i])
  <2>1. edges \in [1 .. m -> Order]
    BY <1>1, EdgeIs
  <2> QED
    BY <1>1, <2>1
<1>5. /\ amounts \in Seq(AmountsOf) /\ Len(amounts) = m
      /\ \A i \in 1 .. m : amounts[i] = EdgeAmounts(d, makers[i], w[makers[i]])
  <2>1. amounts \in [1 .. m -> AmountsOf]
    BY <1>1, EdgeIs
  <2> QED
    BY <1>1, <2>1
<1>6. D = [d EXCEPT !.orders = d.orders \o edges, !.amounts = d.amounts \o amounts]
  BY DEF ModifyData
<1>7. DOMAIN d = {"trucks", "orders", "dists", "speed", "costs", "amounts"}
  BY InputsAssumption
<1> HIDE DEF D, makers, edges, amounts, m
<1>8. /\ D.trucks = d.trucks /\ D.dists = d.dists /\ D.speed = d.speed /\ D.costs = d.costs
      /\ D.orders = d.orders \o edges /\ D.amounts = d.amounts \o amounts
  BY <1>6, <1>7
<1>9. /\ D.orders \in Seq(Order) /\ DOMAIN D.orders = 1 .. n + m
      /\ \A o \in 1 .. n : D.orders[o] = d.orders[o]
      /\ \A i \in 1 .. m : D.orders[n + i] = edges[i]
  BY <1>2, <1>4, <1>8, Concatenated
<1>10. /\ D.amounts \in [1 .. n + m -> AmountsOf]
       /\ \A o \in 1 .. n : D.amounts[o] = d.amounts[o]
       /\ \A i \in 1 .. m : D.amounts[n + i] = amounts[i]
  <2>1. /\ d.amounts \in Seq(AmountsOf) /\ Len(d.amounts) = n
        /\ amounts \in Seq(AmountsOf) /\ Len(amounts) = m
        /\ D.amounts = d.amounts \o amounts
    BY <1>3, <1>5, <1>8
  <2>2. \A s, u \in Seq(AmountsOf) :
           /\ s \o u \in [1 .. Len(s) + Len(u) -> AmountsOf]
           /\ \A o \in 1 .. Len(s) : (s \o u)[o] = s[o]
           /\ \A i \in 1 .. Len(u) : (s \o u)[Len(s) + i] = u[i]
    BY Concatenated
  <2> HIDE DEF n
  <2> QED
    BY <2>1, <2>2
<1>11. IsData(D)
  BY <1>8, <1>9, InputIs DEF IsData
<1>12. HasAmounts(D)
  BY <1>8, <1>9, <1>10, InputIs DEF HasAmounts, AmountsOf
<1> QED
  BY <1>1, <1>2, <1>4, <1>5, <1>8, <1>9, <1>10, <1>11, <1>12 DEF D, m, makers

-----------------------------------------------------------------------------
\* The free-movement orders of the modified data are the edges of the makers.
LEMMA FreeOrderIs ==
    ASSUME NEW d \in Inputs, NEW w, IsWeights(w), IsFiniteSet(DOMAIN w), Fits(d, w),
           NEW o \in DOMAIN ModifyData(d, w).orders \ DOMAIN d.orders
    PROVE  LET D == ModifyData(d, w)
               i == o - Len(d.orders)
               k == Makers(d, w)[i]
               last == LastOrder(d, k)
           IN  /\ i \in 1 .. Cardinality(MakerSet(d, w)) /\ k \in DOMAIN w
               /\ D.orders[o] = FreeMovementEdge(d, k)
               /\ D.amounts[o] = EdgeAmounts(d, k, w[k])
               /\ D.orders[o].order_id = 0
               /\ D.orders[o].from_city = last.to_city /\ D.orders[o].to_city = k[3]
               /\ D.orders[o].start_time = last.finish_time
               /\ EdgeKey(d, k) = <<D.orders[o].from_city, D.orders[o].to_city, D.orders[o].start_time>>
<1> DEFINE D == ModifyData(d, w)
           n == Len(d.orders)
           m == Cardinality(MakerSet(d, w))
           i == o - n
           k == Makers(d, w)[i]
<1>1. /\ n \in Nat /\ m \in Nat
      /\ DOMAIN d.orders = 1 .. n /\ DOMAIN D.orders = 1 .. n + m
      /\ \A j \in 1 .. m :
            /\ D.orders[n + j] = FreeMovementEdge(d, Makers(d, w)[j])
            /\ D.amounts[n + j] = EdgeAmounts(d, Makers(d, w)[j], w[Makers(d, w)[j]])
  BY Modified
<1>2. i \in 1 .. m /\ n + i = o
  <2>1. o \in (1 .. n + m) \ (1 .. n)
    BY <1>1
  <2> HIDE DEF n, m
  <2> QED
    BY <1>1, <2>1
<1>3. k \in DOMAIN w
  <2>1. k \in MakerSet(d, w)
    <3>1. Makers(d, w) \in [1 .. m -> MakerSet(d, w)]
      BY MakersOf DEF IsWeights
    <3> HIDE DEF m, i
    <3> QED
      BY <1>2, <3>1
  <2> QED
    BY <2>1 DEF MakerSet
<1>4. D.orders[o] = FreeMovementEdge(d, k) /\ D.amounts[o] = EdgeAmounts(d, k, w[k])
  <2> HIDE DEF D, n, m, i
  <2> QED
    BY <1>1, <1>2
<1> HIDE DEF D, k, i, m, n
<1>5. /\ D.orders[o].order_id = 0
      /\ D.orders[o].from_city = LastOrder(d, k).to_city /\ D.orders[o].to_city = k[3]
      /\ D.orders[o].start_time = LastOrder(d, k).finish_time
  BY <1>4 DEF FreeMovementEdge
<1>6. EdgeKey(d, k) = <<D.orders[o].from_city, D.orders[o].to_city, D.orders[o].start_time>>
  BY <1>5 DEF EdgeKey
<1> QED
  BY <1>2, <1>3, <1>4, <1>5, <1>6 DEF D, k, i, m, n

\* An hour's cost for some minutes, and what is left of the cost of a road when it
\* is charged.
MinutesCost(minutes, hour, speed) == minutes * hour * speed
LeftOver(distance, minutes, hour, speed) ==
    60 * distance * hour - MinutesCost(minutes, hour, speed)

\* What rounding a duration down to minutes, or up to the first one, leaves.
LEMMA RoundingError ==
    ASSUME NEW distance \in Nat, NEW speed \in Nat \ {0}, NEW hour \in Nat,
           NEW travel, travel = (distance * 60) \div speed
    PROVE  /\ travel = 0 => /\ - MinutesCost(1, hour, speed) <= LeftOver(distance, 1, hour, speed)
                            /\ LeftOver(distance, 1, hour, speed) <= 0
           /\ 0 <= LeftOver(distance, travel, hour, speed)
           /\ \/ LeftOver(distance, travel, hour, speed) < MinutesCost(1, hour, speed)
              \/ LeftOver(distance, travel, hour, speed) = 0
<1> DEFINE rest == (distance * 60) % speed
<1>1. distance * 60 \in Nat
  OBVIOUS
<1>2. /\ travel \in Nat /\ rest \in 0 .. speed - 1
      /\ distance * 60 = speed * travel + rest
  <2> DEFINE q == distance * 60
  <2> HIDE DEF q
  <2>1. q \in Nat
    BY <1>1 DEF q
  <2>2. (q \div speed) \in Nat /\ (q % speed) \in 0 .. speed - 1 /\ q = speed * (q \div speed) + (q % speed)
    BY <2>1
  <2> QED
    BY <2>2 DEF q
<1> HIDE DEF rest
<1>3. 60 * distance * hour = hour * (speed * travel) + hour * rest
  <2>1. 60 * distance * hour = hour * (distance * 60)
    OBVIOUS
  <2>2. hour * (distance * 60) = hour * (speed * travel + rest)
    BY <1>2
  <2>3. \A a, b \in Int : hour * (a + b) = hour * a + hour * b
    OBVIOUS
  <2>4. speed * travel \in Int /\ rest \in Int
    BY <1>2
  <2>5. hour * (speed * travel + rest) = hour * (speed * travel) + hour * rest
    BY <2>3, <2>4
  <2> QED
    BY <2>1, <2>2, <2>5
<1>4. hour * (speed * travel) = travel * hour * speed
  BY <1>2
<1>5. 0 <= hour * rest /\ (hour * rest < hour * speed \/ hour * rest = 0)
  <2>1. CASE hour = 0
    BY <1>2, <2>1
  <2>2. CASE hour > 0
    <3>1. hour * (speed - rest) > 0
      BY <1>2, <2>2
    <3>2. hour * (speed - rest) = hour * speed - hour * rest
      BY <1>2
    <3> QED
      BY <1>2, <2>2, <3>1, <3>2
  <2> QED
    BY <2>1, <2>2
<1>6. 60 * distance * hour - travel * hour * speed = hour * rest
  BY <1>2, <1>3, <1>4
<1>7. 1 * hour * speed = hour * speed /\ hour * speed \in Nat /\ hour * rest \in Nat
  BY <1>2
<1>8. travel = 0 => 60 * distance * hour = hour * rest
  BY <1>2, <1>3
<1> QED
  BY <1>5, <1>6, <1>7, <1>8 DEF MinutesCost, LeftOver

\* The checker's revenue of a free-movement order is its bonus and that error.
LEMMA EdgePays ==
    ASSUME NEW d \in Inputs, NEW w, IsWeights(w), IsFiniteSet(DOMAIN w), Fits(d, w),
           NEW o \in DOMAIN ModifyData(d, w).orders \ DOMAIN d.orders
    PROVE  LET D == ModifyData(d, w)
               k == Makers(d, w)[o - Len(d.orders)]
               order == D.orders[o]
               error == GetRealOrderRevenue(D, o) - w[k]
               minute == TimeCost(D, 1, D.costs.duty_hour_cost)
           IN  IF TravelTime(D, order.from_city, order.to_city) = 0
               THEN - minute <= error /\ error <= 0
               ELSE 0 <= error /\ (error < minute \/ error = 0)
<1> DEFINE D == ModifyData(d, w)
           k == Makers(d, w)[o - Len(d.orders)]
           order == D.orders[o]
           last == LastOrder(d, k)
           distance == GetDistance(d, last.to_city, k[3])
           travel == TravelTime(d, last.to_city, k[3])
           hour == d.costs.duty_hour_cost
           minutes == IF travel = 0 THEN 1 ELSE travel
           road == RoadCost(d, distance, d.costs.duty_km_cost)
           error == GetRealOrderRevenue(D, o) - w[k]
           minute == TimeCost(D, 1, D.costs.duty_hour_cost)
<1>1. /\ k \in DOMAIN w
      /\ order = FreeMovementEdge(d, k) /\ D.amounts[o] = EdgeAmounts(d, k, w[k])
      /\ order.from_city = last.to_city /\ order.to_city = k[3]
      /\ order.start_time = last.finish_time
  BY FreeOrderIs
<1>2. D.dists = d.dists /\ D.speed = d.speed /\ D.costs = d.costs
  BY Modified
<1>3. /\ last.finish_time \in Nat /\ distance \in Nat /\ travel \in Nat /\ travel < UIntRange
  <2> HIDE DEF k
  <2> QED
    BY <1>1, LastOrderIs
<1>4. d.speed \in Nat \ {0} /\ hour \in Nat /\ d.costs.duty_km_cost \in Nat /\ w[k] \in Int
  BY <1>1, InputIs DEF Params, IsWeights
<1>5. order.finish_time = last.finish_time + minutes
  <2>1. order.finish_time = FreeMovementEdge(d, k).finish_time
    BY <1>1
  <2> HIDE DEF k, order
  <2>2. FreeMovementEdge(d, k).finish_time = last.finish_time + minutes
    BY DEF FreeMovementEdge
  <2> QED
    BY <2>1, <2>2
<1>6. TravelTime(D, order.from_city, order.to_city) = travel
  BY <1>1, <1>2 DEF TravelTime, GetDistance
<1>7. Minutes(order.finish_time, order.start_time) = minutes
  <2>1. minutes \in 0 .. UIntRange - 1 /\ UIntRange \in Nat \ {0}
    BY <1>3, DurationsAssumption, UIntRangeAssumption
  <2>2. order.finish_time - order.start_time = minutes
    <3> HIDE DEF minutes, order, last
    <3> QED
      BY <1>1, <1>3, <1>5, <2>1
  <2> HIDE DEF minutes, order
  <2> QED
    BY <2>1, <2>2 DEF Minutes
<1>8. D.amounts[o].distance = distance /\ D.amounts[o].revenue = road + 60 * distance * hour + w[k]
  BY <1>1 DEF EdgeAmounts
<1>9. travel = (distance * 60) \div d.speed
  BY DEF TravelTime
<1>10. GetRealOrderRevenue(D, o)
          = (road + 60 * distance * hour + w[k]) - (minutes * hour * d.speed) - road
  <2>1. RoadCost(D, distance, D.costs.duty_km_cost) = road
    BY <1>2 DEF RoadCost
  <2>2. TimeCost(D, minutes, D.costs.duty_hour_cost) = minutes * hour * d.speed
    BY <1>2 DEF TimeCost
  <2> HIDE DEF road, minutes, distance, hour, k
  <2> QED
    BY <1>2, <1>7, <1>8, <2>1, <2>2 DEF GetRealOrderRevenue
<1>11. minute = MinutesCost(1, hour, d.speed)
  BY <1>2 DEF TimeCost, MinutesCost
<1>12. road \in Int
  <2> HIDE DEF distance
  <2> QED
    BY <1>3, <1>4 DEF RoadCost
<1> HIDE DEF D, k, order, last, distance, travel, hour, road
<1>13. error = LeftOver(distance, minutes, hour, d.speed)
  <2>1. 60 * distance * hour \in Int /\ minutes * hour * d.speed \in Int
    BY <1>3, <1>4
  <2> HIDE DEF minutes
  <2> QED
    BY <1>4, <1>10, <1>12, <2>1 DEF LeftOver, MinutesCost
<1> HIDE DEF error, minute
<1>14. /\ travel = 0 => /\ - MinutesCost(1, hour, d.speed) <= LeftOver(distance, 1, hour, d.speed)
                        /\ LeftOver(distance, 1, hour, d.speed) <= 0
       /\ 0 <= LeftOver(distance, travel, hour, d.speed)
       /\ \/ LeftOver(distance, travel, hour, d.speed) < MinutesCost(1, hour, d.speed)
          \/ LeftOver(distance, travel, hour, d.speed) = 0
  BY <1>3, <1>4, <1>9, RoundingError
<1>15. CASE travel = 0
  <2>1. minutes = 1
    BY <1>15
  <2> HIDE DEF minutes
  <2>2. - minute <= error /\ error <= 0
    BY <1>11, <1>13, <1>14, <1>15, <2>1
  <2> QED
    BY <1>6, <1>15, <2>2 DEF D, k, order, error, minute
<1>16. CASE travel # 0
  <2>1. minutes = travel
    BY <1>16
  <2> HIDE DEF minutes
  <2>2. 0 <= error /\ (error < minute \/ error = 0)
    BY <1>11, <1>13, <1>14, <2>1
  <2> QED
    BY <1>6, <1>16, <2>2 DEF D, k, order, error, minute
<1> QED
  BY <1>15, <1>16

-----------------------------------------------------------------------------
\* What a column may be, with the fine that its cost is less.
LEMMA ColumnIs ==
    ASSUME IsData(data_), HasAmounts(data_), time_boundary_ \in Int, NEW e \in Kept(data_)
    PROVE  /\ e \in Nat \X Int \X Int
           /\ ColCost(data_, e) - Fine(e) \in Int
<1>1. e \in AllVariables(data_)
  BY DEF Kept
<1>2. /\ e = <<e[1], e[2], e[3]>>
      /\ e[1] \in DOMAIN data_.trucks
      /\ e[2] \in DOMAIN data_.orders \cup {ffo_pos}
      /\ e[3] \in DOMAIN data_.orders \cup {flo_pos}
      /\ ColCost(data_, e) \in Int
  BY <1>1, VariableIs
<1>3. e[1] \in Nat /\ e[2] \in Int /\ e[3] \in Int
  <2>1. DOMAIN data_.trucks \subseteq Nat /\ DOMAIN data_.orders \subseteq Nat
    BY DataIs
  <2> QED
    BY <1>2, <2>1 DEF ffo_pos, flo_pos
<1>4. Fine(e) \in Int
  <2> DEFINE last == IF e[2] = ffo_pos THEN make_ffo(data_.trucks[e[1]]) ELSE data_.orders[e[2]]
  <2>1. data_.trucks[e[1]] \in Truck /\ \A o \in DOMAIN data_.orders : data_.orders[o] \in Order
    BY <1>2, DataIs
  <2>2. last.finish_time \in Int
    BY <1>2, <2>1 DEF make_ffo, Truck, Order
  <2>3. data_.costs.wait_cost \in Int /\ data_.speed \in Int
    BY CostsAre
  <2> HIDE DEF last
  <2>4. TimeCost(data_, time_boundary_ - last.finish_time, data_.costs.wait_cost) \in Int
    BY <2>2, <2>3 DEF TimeCost
  <2> QED
    BY <2>4 DEF Fine, last
<1> QED
  BY <1>2, <1>3, <1>4

-----------------------------------------------------------------------------
\* Weights are added one by one.
Finite == IsFiniteSet(DOMAIN weights) /\ IsFiniteSet(DOMAIN edges_w_vecs_)

\* What the inner solver is given is the last input with an edge for every weight.
DataInv ==
    IsSet =>
        /\ given \in Inputs
        /\ Fits(given, edges_w_vecs_)
        /\ data_ = ModifyData(given, edges_w_vecs_)

\* The inductive invariant.
Inv == TypeOK /\ Finite /\ DataInv

\* AddWeight makes the map longer by one triple at most.
LEMMA AddedIs ==
    ASSUME NEW w, IsWeights(w), IsFiniteSet(DOMAIN w), NEW k \in Entries, NEW weight \in Weights
    PROVE  /\ IsWeights(Added(w, k, weight)) /\ IsFiniteSet(DOMAIN Added(w, k, weight))
           /\ Cardinality(DOMAIN w) \in Nat
           /\ Cardinality(DOMAIN Added(w, k, weight)) \in Nat
           /\ Cardinality(DOMAIN Added(w, k, weight)) <= Cardinality(DOMAIN w) + 1
<1>1. DOMAIN Added(w, k, weight) = DOMAIN w \cup {k}
  BY DEF Added
<1>2. weight \in Int
  BY CallsAssumption
<1>3. \A l \in DOMAIN w : w[l] \in Int
  BY DEF IsWeights
<1>4. Added(w, k, weight) \in [DOMAIN w \cup {k} -> Int]
  BY <1>2, <1>3 DEF Added
<1>5. IsWeights(Added(w, k, weight))
  BY <1>1, <1>4 DEF IsWeights
<1>6. /\ IsFiniteSet(DOMAIN w \cup {k}) /\ Cardinality(DOMAIN w) \in Nat
      /\ Cardinality(DOMAIN w \cup {k}) \in Nat
      /\ Cardinality(DOMAIN w \cup {k}) <= Cardinality(DOMAIN w) + 1
  <2> DEFINE S == DOMAIN w
  <2>1. /\ IsFiniteSet(S \cup {k})
        /\ Cardinality(S \cup {k}) = IF k \in S THEN Cardinality(S) ELSE Cardinality(S) + 1
    BY FS_AddElement
  <2>2. Cardinality(S) \in Nat /\ Cardinality(S \cup {k}) \in Nat
    BY <2>1, FS_CardinalityType
  <2> HIDE DEF S
  <2>3. Cardinality(S \cup {k}) <= Cardinality(S) + 1
    BY <2>1, <2>2
  <2> QED
    BY <2>1, <2>2, <2>3 DEF S
<1> QED
  BY <1>1, <1>5, <1>6

\* No data yet, and no weights.
LEMMA InitInv == Init => Inv
<1> SUFFICES ASSUME Init PROVE Inv
  OBVIOUS
<1>1. IsFiniteSet({}) /\ Cardinality({}) = 0
  BY FS_EmptySet
<1>2. DOMAIN NoWeights = {} /\ IsWeights(NoWeights)
  BY DEF NoWeights, IsWeights
<1>3. DOMAIN NoModel = {} /\ NoModel \in [{} -> Int]
  BY DEF NoModel
<1>4. 0 \in 0 .. MaxAdds
  BY CallsAssumption
<1> QED
  BY <1>1, <1>2, <1>3, <1>4 DEF Init, Inv, TypeOK, Finite, DataInv, IsSet

\* Each operation keeps the invariant.  AddWeight changes the caller's weights only.
LEMMA AddWeightInv == Inv /\ AddWeight => Inv'
<1> SUFFICES ASSUME Inv, AddWeight PROVE Inv'
  OBVIOUS
<1>1. PICK k \in Entries, weight \in Weights : weights' = Added(weights, k, weight)
  BY DEF AddWeight
<1>2. /\ IsWeights(weights) /\ IsFiniteSet(DOMAIN weights)
      /\ adds \in 0 .. MaxAdds /\ adds < MaxAdds /\ adds' = adds + 1
      /\ Cardinality(DOMAIN weights) <= adds
  BY DEF Inv, TypeOK, Finite, AddWeight
<1>3. /\ IsWeights(weights') /\ IsFiniteSet(DOMAIN weights')
      /\ Cardinality(DOMAIN weights') <= adds + 1
  BY <1>1, <1>2, AddedIs
<1>4. adds' \in 0 .. MaxAdds
  BY <1>2, CallsAssumption
<1>5. /\ edges_w_vecs_' = edges_w_vecs_ /\ time_boundary_' = time_boundary_ /\ given' = given
      /\ data_' = data_ /\ col_cost' = col_cost /\ last_call' = last_call
  BY DEF AddWeight
<1>6. TypeOK'
  BY <1>2, <1>3, <1>4, <1>5 DEF Inv, TypeOK, IsWeights, IsSet
<1>7. Finite' /\ DataInv'
  BY <1>3, <1>5 DEF Inv, Finite, DataInv, IsSet
<1> QED
  BY <1>6, <1>7 DEF Inv

\* So does Reset.
LEMMA ResetInv == Inv /\ Reset => Inv'
<1> SUFFICES ASSUME Inv, Reset PROVE Inv'
  OBVIOUS
<1>1. IsFiniteSet({}) /\ Cardinality({}) = 0
  BY FS_EmptySet
<1>2. DOMAIN NoWeights = {} /\ IsWeights(NoWeights)
  BY DEF NoWeights, IsWeights
<1>3. 0 \in 0 .. MaxAdds
  BY CallsAssumption
<1>4. /\ edges_w_vecs_' = edges_w_vecs_ /\ time_boundary_' = time_boundary_ /\ given' = given
      /\ data_' = data_ /\ col_cost' = col_cost /\ last_call' = last_call
      /\ weights' = NoWeights /\ adds' = 0
  BY DEF Reset
<1>5. TypeOK'
  BY <1>1, <1>2, <1>3, <1>4 DEF Inv, TypeOK, IsSet
<1>6. Finite' /\ DataInv'
  BY <1>1, <1>2, <1>4 DEF Inv, Finite, DataInv, IsSet
<1> QED
  BY <1>5, <1>6 DEF Inv

\* What the two calls of SetData have in common.
LEMMA LoadKeeps ==
    ASSUME NEW d \in Inputs, NEW call \in {"SetData", "SetDataWithWeights"},
           NEW w, IsWeights(w), IsFiniteSet(DOMAIN w), Load(d, w, call)
    PROVE  /\ given' = d /\ col_cost' = NoModel
           /\ last_call' \in {call, "aborted"}
           /\ IsSet' => Fits(d, w) /\ data_' = ModifyData(d, w)
           /\ IsSet' => IsData(data_') /\ HasAmounts(data_')
<1>1. /\ given' = d /\ col_cost' = NoModel
      /\ last_call' \in {call, "aborted"}
      /\ IsSet' => Fits(d, w) /\ data_' = ModifyData(d, w)
  BY DEF Load, IsSet
<1>2. Fits(d, w) => IsData(ModifyData(d, w)) /\ HasAmounts(ModifyData(d, w))
  BY Modified
<1> QED
  BY <1>1, <1>2

\* SetData(data) modifies the data with the weights of an earlier call.
LEMMA SetDataInv ==
    ASSUME Inv, NEW d \in Inputs, SetData(d)
    PROVE  Inv'
<1>1. IsWeights(edges_w_vecs_) /\ IsFiniteSet(DOMAIN edges_w_vecs_)
  BY DEF Inv, TypeOK, Finite
<1>2. /\ weights' = weights /\ adds' = adds
      /\ edges_w_vecs_' = edges_w_vecs_ /\ time_boundary_' = time_boundary_
  BY DEF SetData
<1>3. /\ given' = d /\ col_cost' = NoModel
      /\ last_call' \in {"SetData", "aborted"}
      /\ IsSet' => Fits(d, edges_w_vecs_) /\ data_' = ModifyData(d, edges_w_vecs_)
      /\ IsSet' => IsData(data_') /\ HasAmounts(data_')
  BY <1>1, LoadKeeps DEF SetData
<1>4. DOMAIN NoModel = {} /\ NoModel \in [{} -> Int]
  BY DEF NoModel
<1>5. TypeOK'
  BY <1>2, <1>3, <1>4 DEF Inv, TypeOK, IsWeights
<1>6. Finite' /\ DataInv'
  BY <1>2, <1>3 DEF Inv, Finite, DataInv
<1> QED
  BY <1>5, <1>6 DEF Inv

\* SetData with three arguments copies the weights first.
LEMMA SetDataWithWeightsInv ==
    ASSUME Inv, NEW d \in Inputs, NEW t \in Boundaries, SetDataWithWeights(d, t)
    PROVE  Inv'
<1>1. IsWeights(weights) /\ IsFiniteSet(DOMAIN weights)
  BY DEF Inv, TypeOK, Finite
<1>2. /\ weights' = weights /\ adds' = adds
      /\ edges_w_vecs_' = weights /\ time_boundary_' = t
  BY DEF SetDataWithWeights
<1>3. /\ given' = d /\ col_cost' = NoModel
      /\ last_call' \in {"SetDataWithWeights", "aborted"}
      /\ IsSet' => Fits(d, weights) /\ data_' = ModifyData(d, weights)
      /\ IsSet' => IsData(data_') /\ HasAmounts(data_')
  BY <1>1, LoadKeeps DEF SetDataWithWeights
<1>4. DOMAIN NoModel = {} /\ NoModel \in [{} -> Int]
  BY DEF NoModel
<1>5. TypeOK'
  BY <1>2, <1>3, <1>4 DEF Inv, TypeOK, IsWeights
<1>6. Finite' /\ DataInv'
  BY <1>1, <1>2, <1>3 DEF Inv, Finite, DataInv
<1> QED
  BY <1>5, <1>6 DEF Inv

\* CreateModel only adds the costs of the columns.
LEMMA CreateModelInv == Inv /\ CreateModel => Inv'
<1> SUFFICES ASSUME Inv, CreateModel PROVE Inv'
  OBVIOUS
<1>1. /\ weights' = weights /\ adds' = adds /\ edges_w_vecs_' = edges_w_vecs_
      /\ time_boundary_' = time_boundary_ /\ given' = given /\ data_' = data_
  BY DEF CreateModel
<1>2. last_call' \in {last_call, "aborted"}
      /\ (col_cost' = col_cost \/ col_cost' = [e \in Kept(data_) |-> ColCost(data_, e) - Fine(e)])
  BY DEF CreateModel
<1>3. IsData(data_) /\ HasAmounts(data_) /\ time_boundary_ \in Int
  BY CallsAssumption DEF CreateModel, Inv, TypeOK, IsSet, NoBoundary
<1>4. /\ \A e \in Kept(data_) : e \in Nat \X Int \X Int
      /\ \A e \in Kept(data_) : ColCost(data_, e) - Fine(e) \in Int
  BY <1>3, ColumnIs
<1>5. DOMAIN col_cost' \subseteq Nat \X Int \X Int /\ col_cost' \in [DOMAIN col_cost' -> Int]
  BY <1>2, <1>4 DEF Inv, TypeOK
<1>6. TypeOK'
  BY <1>1, <1>2, <1>5 DEF Inv, TypeOK, IsWeights, IsSet
<1>7. Finite' /\ DataInv'
  BY <1>1, <1>2 DEF Inv, Finite, DataInv, IsSet
<1> QED
  BY <1>6, <1>7 DEF Inv

\* The invariant is about the variables only.
LEMMA StutterInv == Inv /\ UNCHANGED vars => Inv'
BY DEF vars, Inv, TypeOK, Finite, DataInv, IsWeights, IsSet

\* Every step keeps the invariant.
LEMMA NextInv == Inv /\ [Next]_vars => Inv'
BY AddWeightInv, ResetInv, SetDataInv, SetDataWithWeightsInv, CreateModelInv, StutterInv
   DEF Next, Terminated

\* So it holds at every moment.
LEMMA InvHolds == Spec => []Inv
<1>1. Inv /\ [Next]_vars => Inv'
  BY NextInv
<1> QED
  BY InitInv, <1>1, PTL DEF Spec

\* Whatever weights are added and whichever data they are given with, what SetData
\* makes of it is a Data object again, and every column has a whole number for its
\* cost.
THEOREM WeightedTypeCorrect == Spec => []TypeOK
<1>1. Inv => TypeOK
  BY DEF Inv
<1> QED
  BY <1>1, InvHolds, PTL

\* In the state that the invariant describes.
LEMMA RealFirst == Inv => RealOrdersFirst
<1> SUFFICES ASSUME Inv, IsSet
             PROVE  /\ RealOrders \subseteq DOMAIN data_.orders
                    /\ \A o \in RealOrders : /\ data_.orders[o] = given.orders[o]
                                             /\ data_.amounts[o] = given.amounts[o]
                    /\ \A o \in FreeOrders : data_.orders[o].order_id = 0
  BY DEF RealOrdersFirst
<1> DEFINE n == Len(given.orders)
           m == Cardinality(MakerSet(given, edges_w_vecs_))
<1>1. /\ given \in Inputs /\ IsWeights(edges_w_vecs_) /\ IsFiniteSet(DOMAIN edges_w_vecs_)
      /\ Fits(given, edges_w_vecs_) /\ data_ = ModifyData(given, edges_w_vecs_)
  BY DEF Inv, TypeOK, Finite, DataInv
<1>2. /\ n \in Nat /\ m \in Nat /\ DOMAIN given.orders = 1 .. n /\ DOMAIN data_.orders = 1 .. n + m
      /\ \A o \in 1 .. n : data_.orders[o] = given.orders[o] /\ data_.amounts[o] = given.amounts[o]
  BY <1>1, Modified
<1>3. \A o \in FreeOrders : data_.orders[o].order_id = 0
  BY <1>1, FreeOrderIs DEF FreeOrders, RealOrders
<1> QED
  BY <1>2, <1>3 DEF RealOrders

\* "Free-movement orders always being added right after all real orders": a position
\* in a solution is the same real order in the caller's data, or no order of it.
THEOREM RealOrdersStay == Spec => []RealOrdersFirst
BY RealFirst, InvHolds, PTL

\* In the state that the invariant describes.
LEMMA EdgesFound == Inv => EdgeOfWeight
<1> SUFFICES ASSUME Inv, IsSet PROVE EdgeOfWeight
  BY DEF EdgeOfWeight
<1> DEFINE w == edges_w_vecs_
           n == Len(given.orders)
           m == Cardinality(MakerSet(given, w))
           makers == Makers(given, w)
<1>1. /\ given \in Inputs /\ IsWeights(w) /\ IsFiniteSet(DOMAIN w)
      /\ Fits(given, w) /\ data_ = ModifyData(given, w)
  BY DEF Inv, TypeOK, Finite, DataInv
<1>2. n \in Nat /\ m \in Nat /\ DOMAIN given.orders = 1 .. n /\ DOMAIN data_.orders = 1 .. n + m
  BY <1>1, Modified
<1>3. /\ DOMAIN makers = 1 .. m
      /\ \A i, j \in 1 .. m : EdgeKey(given, makers[i]) = EdgeKey(given, makers[j]) => i = j
      /\ \A k \in DOMAIN w : \E i \in 1 .. m : EdgeKey(given, makers[i]) = EdgeKey(given, k)
  BY <1>1, MakersOf DEF IsWeights
<1>4. \A o \in FreeOrders :
         /\ o - n \in 1 .. m
         /\ EdgeKey(given, makers[o - n])
               = <<data_.orders[o].from_city, data_.orders[o].to_city, data_.orders[o].start_time>>
  BY <1>1, FreeOrderIs DEF FreeOrders, RealOrders
<1>5. \A i \in 1 .. m : n + i \in FreeOrders /\ (n + i) - n = i
  BY <1>2 DEF FreeOrders, RealOrders
<1>6. \A k \in DOMAIN w : LastOrder(given, k) = [to_city |-> LastOrder(given, k).to_city,
                                                 finish_time |-> LastOrder(given, k).finish_time]
  BY <1>1, LastOrderIs
<1> HIDE DEF w, makers, n, m
<1>7. ASSUME NEW k \in DOMAIN w
      PROVE  LET pos == n + edge_to_pos(given, w, k)
             IN /\ pos \in FreeOrders
                /\ EndOf(data_.orders[pos]).to_city = k[3]
                /\ [to_city |-> data_.orders[pos].from_city,
                    finish_time |-> data_.orders[pos].start_time] = LastOrder(given, k)
  <2> DEFINE i == edge_to_pos(given, w, k)
             pos == n + i
             last == LastOrder(given, k)
  <2>1. i \in 1 .. m /\ EdgeKey(given, makers[i]) = EdgeKey(given, k)
    <3>1. i = CHOOSE j \in 1 .. m : EdgeKey(given, makers[j]) = EdgeKey(given, k)
      BY <1>3 DEF edge_to_pos, makers
    <3> HIDE DEF i
    <3> QED
      BY <1>3, <3>1
  <2> HIDE DEF i
  <2>2. pos \in FreeOrders /\ pos - n = i
    BY <1>5, <2>1
  <2>3. <<data_.orders[pos].from_city, data_.orders[pos].to_city, data_.orders[pos].start_time>>
           = <<last.to_city, k[3], last.finish_time>>
    BY <1>4, <2>1, <2>2 DEF EdgeKey
  <2>4. /\ data_.orders[pos].from_city = last.to_city /\ data_.orders[pos].to_city = k[3]
        /\ data_.orders[pos].start_time = last.finish_time
    BY <2>3
  <2> HIDE DEF pos, last
  <2>5. [to_city |-> data_.orders[pos].from_city, finish_time |-> data_.orders[pos].start_time] = last
    BY <1>6, <2>4 DEF last
  <2> QED
    BY <2>2, <2>4, <2>5 DEF EndOf, pos, last, i
<1>8. ASSUME NEW o \in FreeOrders, NEW u \in FreeOrders,
             data_.orders[o].from_city = data_.orders[u].from_city,
             data_.orders[o].to_city = data_.orders[u].to_city,
             data_.orders[o].start_time = data_.orders[u].start_time
      PROVE  o = u
  <2>1. o - n = u - n
    BY <1>3, <1>4, <1>8
  <2>2. o \in Int /\ u \in Int
    BY <1>2 DEF FreeOrders
  <2> QED
    BY <1>2, <2>1, <2>2
<1> QED
  BY <1>7, <1>8 DEF EdgeOfWeight, w, n

\* The position that GetFreeMovementEdges gives for a weight holds the edge from where
\* and when the weight's order ends to the weight's city, and no edge is made twice.
THEOREM EdgesCorrect == Spec => []EdgeOfWeight
BY EdgesFound, InvHolds, PTL

\* In the state that the invariant describes.
LEMMA BonusesPaid == Inv => BonusPaid
<1> SUFFICES ASSUME Inv, IsSet, NEW o \in FreeOrders
             PROVE  \E k \in DOMAIN edges_w_vecs_ :
                       LET order == data_.orders[o]
                           error == GetRealOrderRevenue(data_, o) - edges_w_vecs_[k]
                           minute == TimeCost(data_, 1, data_.costs.duty_hour_cost)
                       IN /\ EdgeKey(given, k) = <<order.from_city, order.to_city, order.start_time>>
                          /\ IF TravelTime(data_, order.from_city, order.to_city) = 0
                             THEN - minute <= error /\ error <= 0
                             ELSE 0 <= error /\ (error < minute \/ error = 0)
  BY DEF BonusPaid
<1> DEFINE k == Makers(given, edges_w_vecs_)[o - Len(given.orders)]
           order == data_.orders[o]
           error == GetRealOrderRevenue(data_, o) - edges_w_vecs_[k]
           minute == TimeCost(data_, 1, data_.costs.duty_hour_cost)
<1>1. /\ given \in Inputs /\ IsWeights(edges_w_vecs_) /\ IsFiniteSet(DOMAIN edges_w_vecs_)
      /\ Fits(given, edges_w_vecs_) /\ data_ = ModifyData(given, edges_w_vecs_)
  BY DEF Inv, TypeOK, Finite, DataInv
<1>2. o \in DOMAIN data_.orders \ DOMAIN given.orders
  BY DEF FreeOrders, RealOrders
<1>3. /\ k \in DOMAIN edges_w_vecs_
      /\ EdgeKey(given, k) = <<order.from_city, order.to_city, order.start_time>>
  BY <1>1, <1>2, FreeOrderIs
<1>4. IF TravelTime(data_, order.from_city, order.to_city) = 0
      THEN - minute <= error /\ error <= 0
      ELSE 0 <= error /\ (error < minute \/ error = 0)
  BY <1>1, <1>2, EdgePays
<1> HIDE DEF k
<1> QED
  BY <1>3, <1>4

\* What the checker would pay for an edge is the bonus of one of its weights, but for
\* less than a minute of the driver's time: the compensation of AddFreeMovementEdge
\* makes up for GetRealOrderRevenue.
THEOREM BonusesCorrect == Spec => []BonusPaid
BY BonusesPaid, InvHolds, PTL

-----------------------------------------------------------------------------
\* The costs of the columns are those of the data and the boundary that are set now: both
\* of them are set by SetData only, which throws the model away.
ModelInv ==
    col_cost # NoModel =>
        /\ IsSet
        /\ col_cost = [e \in Kept(data_) |-> ColCost(data_, e) - Fine(e)]

LEMMA ModelStep == ModelInv /\ [Next]_vars => ModelInv'
<1> SUFFICES ASSUME ModelInv, [Next]_vars PROVE ModelInv'
  OBVIOUS
<1>1. CASE AddWeight \/ Reset \/ UNCHANGED vars
  <2>1. /\ data_' = data_ /\ time_boundary_' = time_boundary_
        /\ col_cost' = col_cost /\ last_call' = last_call
    BY <1>1 DEF AddWeight, Reset, vars
  <2> QED
    BY <2>1 DEF ModelInv, IsSet, Fine
<1>2. ASSUME NEW d \in Inputs, SetData(d) \/ \E t \in Boundaries : SetDataWithWeights(d, t)
      PROVE  ModelInv'
  <2>1. col_cost' = NoModel
    BY <1>2 DEF SetData, SetDataWithWeights, Load
  <2> QED
    BY <2>1 DEF ModelInv
<1>3. CASE CreateModel
  <2>1. /\ data_' = data_ /\ time_boundary_' = time_boundary_ /\ col_cost = NoModel
        /\ \/ col_cost' = col_cost
           \/ /\ last_call' = last_call
              /\ col_cost' = [e \in Kept(data_) |-> ColCost(data_, e) - Fine(e)]
        /\ IsSet
    BY <1>3 DEF CreateModel, IsSet
  <2> QED
    BY <2>1 DEF ModelInv, IsSet, Fine
<1> QED
  BY <1>1, <1>2, <1>3 DEF Next, Terminated

\* The fine of a plan's edges is what its trucks pay for standing where they end.
LEMMA FineIsStanding ==
    ASSUME IsData(data_), time_boundary_ \in Int, time_boundary_ = NoBoundary \/ time_boundary_ \in Nat,
           NEW plan, DOMAIN plan = DOMAIN data_.trucks,
           \A t \in DOMAIN plan : Driven(data_, t, plan[t]), NEW e \in EdgesOf(plan)
    PROVE  Fine(e) = IF e[3] = flo_pos THEN Standing(plan, e[1]) ELSE 0
<1>1. PICK t \in DOMAIN plan : e \in RouteEdges(t, plan[t])
  BY DEF EdgesOf, RouteEdges, From, To
<1>2. PICK i \in 0 .. Len(plan[t]) : e = <<t, From(plan[t], i), To(plan[t], i)>>
  BY <1>1 DEF RouteEdges
<1>3. /\ plan[t] \in Seq(DOMAIN data_.orders) /\ Len(plan[t]) \in Nat
      /\ \A j \in 1 .. Len(plan[t]) : plan[t][j] \in DOMAIN data_.orders
  BY DEF Driven
<1>4. /\ ffo_pos \notin DOMAIN data_.orders /\ flo_pos \notin DOMAIN data_.orders
      /\ data_.trucks[t] \in Truck /\ \A o \in DOMAIN data_.orders : data_.orders[o] \in Order
  BY DataIs
<1>5. CASE i # Len(plan[t])
  <2>1. e[3] = plan[t][i + 1] /\ i + 1 \in 1 .. Len(plan[t])
    BY <1>2, <1>3, <1>5 DEF To
  <2>2. e[3] # flo_pos
    BY <1>3, <1>4, <2>1
  <2> QED
    BY <2>2 DEF Fine
<1>6. CASE i = Len(plan[t])
  <2> DEFINE last == IF e[2] = ffo_pos THEN make_ffo(data_.trucks[e[1]]) ELSE data_.orders[e[2]]
  <2>1. e[1] = t /\ e[3] = flo_pos /\ e[2] = From(plan[t], Len(plan[t]))
    BY <1>2, <1>6 DEF To
  <2>2. last.finish_time = LastEnd(data_, plan, t).finish_time /\ last.finish_time \in Nat
    <3>1. CASE plan[t] = <<>>
      <4>1. Len(plan[t]) = 0
        BY <3>1
      <4>2. e[2] = ffo_pos
        BY <2>1, <4>1 DEF From
      <4> QED
        BY <1>4, <2>1, <3>1, <4>2 DEF LastEnd, make_ffo, Truck
    <3>2. CASE plan[t] # <<>>
      <4>1. Len(plan[t]) # 0 /\ Len(plan[t]) \in 1 .. Len(plan[t])
        BY <1>3, <3>2
      <4>2. e[2] = plan[t][Len(plan[t])] /\ e[2] \in DOMAIN data_.orders
        BY <1>3, <2>1, <4>1 DEF From
      <4>3. last = data_.orders[e[2]]
        BY <1>4, <4>2
      <4> QED
        BY <1>4, <3>2, <4>2, <4>3 DEF LastEnd, EndOf, Order
    <3> QED
      BY <3>1, <3>2
  <2> HIDE DEF last
  <2>3. Fine(e) = IF time_boundary_ # NoBoundary /\ time_boundary_ > last.finish_time
                  THEN TimeCost(data_, time_boundary_ - last.finish_time, data_.costs.wait_cost)
                  ELSE 0
    BY <2>1 DEF Fine, last
  <2>4. time_boundary_ > last.finish_time => time_boundary_ # NoBoundary
    BY <2>2 DEF NoBoundary
  <2> QED
    BY <2>1, <2>2, <2>3, <2>4 DEF Standing
<1> QED
  BY <1>5, <1>6

\* The solo plans are plans that the trucks can drive.
LEMMA SoloDriven ==
    ASSUME NEW plan \in SoloPlans(MaxLegs)
    PROVE  /\ DOMAIN plan = DOMAIN data_.trucks
           /\ \A t \in DOMAIN plan : Driven(data_, t, plan[t])
<1>1. Accepts(data_, plan) /\ NoRepeats(plan)
  BY DEF SoloPlans
<1>2. PICK route \in BoundedSeq(DOMAIN data_.orders, MaxLegs) :
         plan \in [DOMAIN data_.trucks -> {<<>>, route}]
  BY DEF SoloPlans
<1>3. route \in Seq(DOMAIN data_.orders)
  <2>1. PICK n \in 0 .. MaxLegs : route \in [1 .. n -> DOMAIN data_.orders]
    BY <1>2 DEF BoundedSeq, SeqOf
  <2>2. n \in Nat
    BY <2>1, CallsAssumption
  <2> QED
    BY <2>1, <2>2
<1>4. plan \in Solution(data_)
  <2>1. <<>> \in Seq(DOMAIN data_.orders)
    OBVIOUS
  <2> QED
    BY <1>2, <1>3, <2>1 DEF Solution
<1> QED
  BY <1>1, <1>4, PlanIsDriven

\* In the state that the invariants describe.
LEMMA PlansCharged == Inv /\ ModelInv => StandingCharged
<1> SUFFICES ASSUME Inv, ModelInv, col_cost # NoModel, ForwardOrders(data_),
                    NEW plan \in SoloPlans(MaxLegs)
             PROVE  /\ EdgesOf(plan) \subseteq DOMAIN col_cost
                    /\ SumFunctionOnSet(col_cost, EdgesOf(plan))
                          = SummaryRevenue(data_, plan)
                            - SumFunction([t \in DOMAIN data_.trucks |-> Standing(plan, t)])
  BY DEF StandingCharged
<1> DEFINE standing == [t \in DOMAIN data_.trucks |-> Standing(plan, t)]
           last == [t \in DOMAIN data_.trucks |-> - Standing(plan, t)]
<1>1. /\ IsData(data_) /\ HasAmounts(data_)
      /\ time_boundary_ \in Int /\ (time_boundary_ = NoBoundary \/ time_boundary_ \in Nat)
      /\ col_cost = [e \in Kept(data_) |-> ColCost(data_, e) - Fine(e)]
  BY CallsAssumption DEF Inv, TypeOK, ModelInv, NoBoundary
<1>2. /\ DOMAIN plan = DOMAIN data_.trucks
      /\ \A t \in DOMAIN plan : Driven(data_, t, plan[t])
  BY SoloDriven
<1>3. EdgesOf(plan) \subseteq Kept(data_)
  BY <1>1, <1>2, EdgesKept
<1>4. ASSUME NEW t \in DOMAIN data_.trucks PROVE Standing(plan, t) \in Int
  <2>1. LastEnd(data_, plan, t).finish_time \in Nat
    <3>1. plan[t] \in Seq(DOMAIN data_.orders) /\ data_.trucks[t] \in Truck
      BY <1>1, <1>2, DataIs DEF Driven
    <3>2. CASE plan[t] = <<>>
      BY <3>1, <3>2 DEF LastEnd, make_ffo, Truck
    <3>3. CASE plan[t] # <<>>
      <4>1. plan[t][Len(plan[t])] \in DOMAIN data_.orders
        BY <3>1, <3>3
      <4>2. data_.orders[plan[t][Len(plan[t])]] \in Order
        BY <1>1, <4>1, DataIs
      <4> QED
        BY <3>3, <4>2 DEF LastEnd, EndOf, Order
    <3> QED
      BY <3>2, <3>3
  <2>2. data_.costs.wait_cost \in Nat /\ data_.speed \in Nat
    BY <1>1, CostsAre
  <2>3. \A minutes \in Int : TimeCost(data_, minutes, data_.costs.wait_cost) \in Int
    BY <2>2 DEF TimeCost
  <2> QED
    BY <1>1, <2>1, <2>3 DEF Standing
<1>5. ASSUME NEW e \in EdgesOf(plan)
      PROVE  col_cost[e] = ColCost(data_, e) + (IF e[3] = flo_pos THEN last[e[1]] ELSE 0)
  <2>1. e \in AllVariables(data_) /\ col_cost[e] = ColCost(data_, e) - Fine(e)
    BY <1>1, <1>3 DEF Kept
  <2>2. e[1] \in DOMAIN data_.trucks /\ ColCost(data_, e) \in Int
    BY <1>1, <2>1, VariableIs
  <2>3. Fine(e) = IF e[3] = flo_pos THEN Standing(plan, e[1]) ELSE 0
    BY <1>1, <1>2, FineIsStanding
  <2>4. last[e[1]] = - Standing(plan, e[1]) /\ Standing(plan, e[1]) \in Int
    BY <1>4, <2>2
  <2> HIDE DEF last
  <2> QED
    BY <2>1, <2>2, <2>3, <2>4
<1>6. \A t \in DOMAIN plan : last[t] \in Int /\ standing[t] \in Int /\ last[t] = - standing[t]
  BY <1>2, <1>4
<1>7. DOMAIN standing = DOMAIN plan
  BY <1>2
<1> HIDE DEF last, standing
<1>8. /\ SummaryRevenue(data_, plan) \in Int
      /\ SumFunctionOnSet(col_cost, EdgesOf(plan))
            = SummaryRevenue(data_, plan) + SumFunctionOnSet(last, DOMAIN plan)
  <2>1. Costs(data_, plan, last, col_cost)
    BY <1>2, <1>5, <1>6 DEF Costs
  <2> QED
    BY <1>1, <2>1, RevenueOfEdges
<1>9. IsFiniteSet(DOMAIN plan)
  <2>1. Len(data_.trucks) \in Nat /\ DOMAIN data_.trucks = 1 .. Len(data_.trucks)
    BY <1>1, DataIs
  <2> QED
    BY <1>2, <2>1, FS_Interval
<1>10. SumFunctionOnSet(last, DOMAIN plan) = - SumFunctionOnSet(standing, DOMAIN plan)
  BY <1>6, <1>9, SumNegated
<1>11. SumFunction(standing) = SumFunctionOnSet(standing, DOMAIN plan)
  BY <1>7 DEF SumFunction
<1>12. SumFunctionOnSet(standing, DOMAIN plan) \in Int
  BY <1>6, <1>9, SumType
<1>13. EdgesOf(plan) \subseteq DOMAIN col_cost
  BY <1>1, <1>3
<1> QED
  BY <1>8, <1>10, <1>11, <1>12, <1>13 DEF standing

\* For whatever costs, distances and boundary, the columns of a plan add up to what the
\* checker pays for it, less the fine of every truck for standing until the boundary.
THEOREM StandingIsCharged == Spec => []StandingCharged
<1>1. Init => ModelInv
  BY DEF Init, ModelInv
<1>2. Spec => []ModelInv
  BY <1>1, ModelStep, PTL DEF Spec
<1> QED
  BY <1>2, InvHolds, PlansCharged, PTL
=============================================================================

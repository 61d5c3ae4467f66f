-------------------------- MODULE ChainSolver_proofs --------------------------
(***************************************************************************)
(* For every input and every length: the chains fit their arrays, their    *)
(* trucks can drive them, no truck has one twice, every obligation order   *)
(* that can follow a chain is in one, and the plan read back from the rows *)
(* is valid.                                                               *)
(***************************************************************************)
EXTENDS ChainSolver, Checker_proofs, SequenceTheorems

\* The i-th place of Ascending(S) holds an element of S, and i - 1 are less than it.
LEMMA AscendingMember ==
    ASSUME NEW S \in SUBSET Nat, IsFiniteSet(S), NEW i \in 1 .. Cardinality(S)
    PROVE  /\ Ascending(S)[i] \in S
           /\ Cardinality({k \in S : k < Ascending(S)[i]}) = i - 1
BY AscendingOf
-----------------------------------------------------------------------------
\* What the assumptions say of the data at hand.
LEMMA DataFacts ==
    ASSUME data \in Inputs
    PROVE  /\ IsData(data)
           /\ Trucks = 1 .. Len(data.trucks) /\ Len(data.trucks) \in Nat \ {0}
           /\ Orders \in SUBSET Nat /\ IsFiniteSet(Orders)
           /\ ffo_pos \notin Orders
           /\ City \in SUBSET Nat /\ IsFiniteSet(City)
           /\ \A t \in Trucks : data.trucks[t] \in Truck
           /\ \A o \in Orders : data.orders[o] \in Order
<1>1. IsData(data) /\ City \in SUBSET Nat /\ IsFiniteSet(City)
  BY InputsAssumption
<1>2. data.trucks \in Seq(Truck) /\ data.trucks # <<>> /\ data.orders \in Seq(Order)
  BY <1>1 DEF IsData
<1>3. Trucks = 1 .. Len(data.trucks) /\ Len(data.trucks) \in Nat \ {0}
  BY <1>2 DEF Trucks
<1>4. Orders = 1 .. Len(data.orders) /\ Len(data.orders) \in Nat
  BY <1>2 DEF Orders
<1>5. IsFiniteSet(Orders)
  BY <1>4, FS_Interval
<1>6. \A t \in Trucks : data.trucks[t] \in Truck
  BY <1>2 DEF Trucks
<1>7. \A o \in Orders : data.orders[o] \in Order
  BY <1>2 DEF Orders
<1> QED
  BY <1>1, <1>3, <1>4, <1>5, <1>6, <1>7 DEF ffo_pos

\* Where a chain ends is a city and a time.
LEMMA ChainEndType ==
    ASSUME data \in Inputs, NEW t \in Trucks, NEW chain \in Chain
    PROVE  /\ ChainEnd(t, chain).to_city \in City
           /\ ChainEnd(t, chain).finish_time \in Nat
           /\ chain.orders # <<>> => LastPos(chain) \in Orders
<1>1. chain.orders \in Seq(Orders)
  BY DEF Chain
<1>2. CASE chain.orders = <<>>
  BY <1>2, DataFacts DEF ChainEnd, make_ffo, Truck
<1>3. CASE chain.orders # <<>>
  <2>1. LastPos(chain) \in Orders
    BY <1>1, <1>3 DEF LastPos
  <2>2. data.orders[LastPos(chain)] \in Order
    BY <2>1, DataFacts
  <2> QED
    BY <1>3, <2>1, <2>2 DEF ChainEnd, EndOf, Order
<1> QED
  BY <1>2, <1>3

\* The chains that a step makes out of a chain: one order longer, or closed by a
\* free-movement order.
Longer(t, chain, new) ==
    \E o \in Successors(t, chain) : new = [chain EXCEPT !.orders = Append(@, o)]

FreeEdge(t, chain, city) ==
    <<ChainEnd(t, chain).to_city, city, ChainEnd(t, chain).finish_time>>

ClosedBy(t, chain, new) ==
    \E city \in CitiesAfter(t, LastPos(chain)) :
        new = [chain EXCEPT !.free = {FreeEdge(t, chain, city)}]

LEMMA LongerType ==
    ASSUME data \in Inputs, NEW t \in Trucks, NEW chain \in Chain, NEW new,
           Longer(t, chain, new)
    PROVE  /\ new \in Chain
           /\ new.free = chain.free
           /\ Len(new.orders) = Len(chain.orders) + 1
           /\ \A i \in 1 .. Len(chain.orders) : new.orders[i] = chain.orders[i]
           /\ new.orders[Len(chain.orders) + 1] \in Successors(t, chain)
<1>1. PICK o \in Successors(t, chain) : new = [chain EXCEPT !.orders = Append(@, o)]
  BY DEF Longer
<1>2. chain.orders \in Seq(Orders) /\ o \in Orders
  BY DEF Chain, Successors
<1>3. /\ Append(chain.orders, o) \in Seq(Orders)
      /\ Len(Append(chain.orders, o)) = Len(chain.orders) + 1
      /\ \A i \in 1 .. Len(chain.orders) : Append(chain.orders, o)[i] = chain.orders[i]
      /\ Append(chain.orders, o)[Len(chain.orders) + 1] = o
  BY <1>2, AppendProperties
<1>4. new.orders = Append(chain.orders, o) /\ new.free = chain.free /\ new \in Chain
  BY <1>1, <1>3 DEF Chain
<1> QED
  BY <1>3, <1>4

LEMMA LongerSize ==
    ASSUME data \in Inputs, NEW t \in Trucks, NEW chain \in Chain, NEW new,
           Longer(t, chain, new)
    PROVE  new.free = chain.free /\ Len(new.orders) = Len(chain.orders) + 1
BY LongerType

LEMMA ClosedByType ==
    ASSUME data \in Inputs, NEW t \in Trucks, NEW chain \in Chain, NEW new,
           ClosedBy(t, chain, new)
    PROVE  /\ new \in Chain
           /\ new.orders = chain.orders
           /\ \E city \in CitiesAfter(t, LastPos(chain)) :
                 new.free = {FreeEdge(t, chain, city)}
<1>1. PICK city \in CitiesAfter(t, LastPos(chain)) :
          new = [chain EXCEPT !.free = {FreeEdge(t, chain, city)}]
  BY DEF ClosedBy
<1>2. FreeEdge(t, chain, city) \in FreeKey
  BY ChainEndType DEF FreeEdge, FreeKey, CitiesAfter
<1> QED
  BY <1>1, <1>2 DEF Chain

\* The sequences of new chains.
LEMMA ExtendedType ==
    ASSUME data \in Inputs, NEW t \in Trucks, NEW chain \in Chain,
           NEW kept \in SUBSET Successors(t, chain)
    PROVE  /\ Extended(chain, kept) \in Seq(Chain)
           /\ \A i \in DOMAIN Extended(chain, kept) :
                 Longer(t, chain, Extended(chain, kept)[i])
<1>1. kept \in SUBSET Nat /\ IsFiniteSet(kept)
  BY DataFacts, FS_Subset DEF Successors
<1>2. Cardinality(kept) \in Nat
  BY <1>1, FS_CardinalityType
<1>3. DOMAIN Extended(chain, kept) = 1 .. Cardinality(kept)
  BY DEF Extended
<1>4. ASSUME NEW i \in 1 .. Cardinality(kept)
      PROVE  /\ Longer(t, chain, Extended(chain, kept)[i])
             /\ Extended(chain, kept)[i] \in Chain
  <2>1. Ascending(kept)[i] \in kept
    BY <1>1, AscendingMember
  <2>2. Extended(chain, kept)[i] =
            [chain EXCEPT !.orders = Append(@, Ascending(kept)[i])]
    BY DEF Extended
  <2>3. Longer(t, chain, Extended(chain, kept)[i])
    BY <2>1, <2>2 DEF Longer
  <2> QED
    BY <2>3, LongerType
<1>5. Extended(chain, kept) \in [1 .. Cardinality(kept) -> Chain]
  BY <1>4 DEF Extended
<1> QED
  BY <1>2, <1>3, <1>4, <1>5

LEMMA ClosedType ==
    ASSUME data \in Inputs, NEW t \in Trucks, NEW chain \in Chain
    PROVE  /\ Closed(t, chain) \in Seq(Chain)
           /\ \A i \in DOMAIN Closed(t, chain) : ClosedBy(t, chain, Closed(t, chain)[i])
<1> DEFINE cities == CitiesAfter(t, LastPos(chain))
<1>1. cities \in SUBSET Nat /\ IsFiniteSet(cities)
  BY DataFacts, FS_Subset DEF CitiesAfter
<1>2. Cardinality(cities) \in Nat
  BY <1>1, FS_CardinalityType
<1>3. DOMAIN Closed(t, chain) = 1 .. Cardinality(cities)
  BY DEF Closed
<1>4. ASSUME NEW i \in 1 .. Cardinality(cities)
      PROVE  /\ ClosedBy(t, chain, Closed(t, chain)[i])
             /\ Closed(t, chain)[i] \in Chain
  <2>1. Ascending(cities)[i] \in cities
    BY <1>1, AscendingMember
  <2>2. Closed(t, chain)[i] =
            [chain EXCEPT !.free = {FreeEdge(t, chain, Ascending(cities)[i])}]
    BY DEF Closed, FreeEdge
  <2>3. ClosedBy(t, chain, Closed(t, chain)[i])
    BY <2>1, <2>2 DEF ClosedBy
  <2> QED
    BY <2>3, ClosedByType
<1>5. Closed(t, chain) \in [1 .. Cardinality(cities) -> Chain]
  BY <1>4 DEF Closed
<1> QED
  BY <1>2, <1>3, <1>4, <1>5

LEMMA EmptyChainType ==
    ASSUME data \in Inputs
    PROVE  EmptyChain \in Chain /\ Len(EmptyChain.orders) = 0 /\ EmptyChain.free = {}
BY DEF EmptyChain, Chain

-----------------------------------------------------------------------------
\* Every order of a chain ends before a later one starts.
InTime(chain) ==
    \A i, j \in DOMAIN chain.orders : i < j =>
        data.orders[chain.orders[i]].finish_time
            <= data.orders[chain.orders[j]].start_time

LEMMA LongerDrivable ==
    ASSUME data \in Inputs, NEW t \in Trucks, NEW chain \in Chain, NEW new,
           Longer(t, chain, new), Drivable(t, chain), chain.free = {}
    PROVE  Drivable(t, new)
<1> DEFINE n == Len(chain.orders)
<1>1. /\ new \in Chain
      /\ new.free = {}
      /\ Len(new.orders) = n + 1
      /\ \A i \in 1 .. n : new.orders[i] = chain.orders[i]
      /\ new.orders[n + 1] \in Successors(t, chain)
  BY LongerType
<1>2. chain.orders \in Seq(Orders) /\ new.orders \in Seq(Orders)
  BY <1>1 DEF Chain
<1>3. n \in Nat /\ DOMAIN chain.orders = 1 .. n /\ DOMAIN new.orders = 1 .. n + 1
  BY <1>1, <1>2
<1>4. ASSUME NEW i \in DOMAIN new.orders
      PROVE  MoveBetweenOrders(data, data.trucks[t],
                               IF i = 1 THEN make_ffo(data.trucks[t])
                                        ELSE EndOf(data.orders[new.orders[i - 1]]),
                               data.orders[new.orders[i]])
  <2>1. CASE i \in 1 .. n
    <3>1. new.orders[i] = chain.orders[i] /\ i \in DOMAIN chain.orders
      BY <1>1, <1>3, <2>1
    <3>2. i # 1 => new.orders[i - 1] = chain.orders[i - 1]
      BY <1>1, <1>3, <2>1
    <3> QED
      BY <3>1, <3>2 DEF Drivable
  <2>2. CASE i = n + 1
    <3>1. ChainEnd(t, chain) = IF i = 1 THEN make_ffo(data.trucks[t])
                                        ELSE EndOf(data.orders[new.orders[i - 1]])
      <4>1. CASE chain.orders = <<>>
        BY <1>2, <1>3, <2>2, <4>1 DEF ChainEnd
      <4>2. CASE chain.orders # <<>>
        <5>1. i # 1 /\ i - 1 \in 1 .. n /\ i - 1 = n
          BY <1>2, <1>3, <2>2, <4>2
        <5>2. new.orders[i - 1] = LastPos(chain)
          BY <1>1, <4>2, <5>1 DEF LastPos
        <5> QED
          BY <4>2, <5>1, <5>2 DEF ChainEnd
      <4> QED
        BY <4>1, <4>2
    <3> QED
      BY <1>1, <2>2, <3>1 DEF Successors
  <2> QED
    BY <1>3, <2>1, <2>2
<1> QED
  BY <1>1, <1>4 DEF Drivable

LEMMA ClosedByDrivable ==
    ASSUME data \in Inputs, NEW t \in Trucks, NEW chain \in Chain, NEW new,
           ClosedBy(t, chain, new), Drivable(t, chain)
    PROVE  Drivable(t, new)
<1>1. PICK city \in CitiesAfter(t, LastPos(chain)) :
          new.free = {FreeEdge(t, chain, city)}
  BY ClosedByType
<1>2. new.orders = chain.orders
  BY ClosedByType
<1>3. LastPos(new) = LastPos(chain) /\ ChainEnd(t, new) = ChainEnd(t, chain)
  BY <1>2 DEF LastPos, ChainEnd
<1>4. ASSUME NEW edge \in new.free
      PROVE  /\ edge[1] = ChainEnd(t, new).to_city
             /\ edge[3] = ChainEnd(t, new).finish_time
             /\ <<t, LastPos(new), edge[2]>> \in data.edges_w_vecs
  <2>1. edge = FreeEdge(t, chain, city)
    BY <1>1
  <2> QED
    BY <1>3, <2>1 DEF FreeEdge, CitiesAfter
<1> QED
  BY <1>2, <1>4 DEF Drivable

LEMMA EmptyDrivable ==
    ASSUME NEW t
    PROVE  Drivable(t, EmptyChain)
BY DEF Drivable, EmptyChain

\* An order that fits after a chain starts after all orders of the chain have ended.
LEMMA LongerInTime ==
    ASSUME data \in Inputs, ForwardOrders(data),
           NEW t \in Trucks, NEW chain \in Chain, NEW new,
           Longer(t, chain, new), InTime(chain)
    PROVE  InTime(new)
<1> DEFINE n == Len(chain.orders)
<1>1. /\ new \in Chain
      /\ Len(new.orders) = n + 1
      /\ \A i \in 1 .. n : new.orders[i] = chain.orders[i]
      /\ new.orders[n + 1] \in Successors(t, chain)
  BY LongerType
<1>2. chain.orders \in Seq(Orders) /\ new.orders \in Seq(Orders)
  BY <1>1 DEF Chain
<1>3. n \in Nat /\ DOMAIN chain.orders = 1 .. n /\ DOMAIN new.orders = 1 .. n + 1
  BY <1>1, <1>2
<1>4. \A i \in DOMAIN new.orders : new.orders[i] \in Orders
  BY <1>2
<1>5. \A o \in Orders : /\ data.orders[o].start_time \in Nat
                        /\ data.orders[o].finish_time \in Nat
                        /\ data.orders[o].start_time < data.orders[o].finish_time
                        /\ data.orders[o].from_city \in City
  BY DataFacts DEF ForwardOrders, Orders, Order
<1>6. ASSUME NEW i \in 1 .. n
      PROVE  data.orders[new.orders[i]].finish_time
                <= data.orders[new.orders[n + 1]].start_time
  <2>1. chain.orders # <<>> /\ n \in 1 .. n
    BY <1>2, <1>3
  <2>2. ChainEnd(t, chain) = EndOf(data.orders[chain.orders[n]])
    BY <2>1 DEF ChainEnd, LastPos
  <2> DEFINE last == data.orders[chain.orders[n]]
             next == data.orders[new.orders[n + 1]]
  <2>3. chain.orders[n] \in Orders /\ new.orders[n + 1] \in Orders
    BY <1>2, <1>3, <1>4, <2>1
  <2>4. CanReach(data, EndOf(last), next)
    BY <1>1, <2>2 DEF Successors, MoveBetweenOrders
  <2>5. last.to_city \in City /\ next.from_city \in City
    BY <2>3, DataFacts DEF Order
  <2>6. TravelTime(data, last.to_city, next.from_city) \in Nat
    <3>1. HasRoad(data, last.to_city, next.from_city)
      BY <2>4 DEF CanReach, EndOf
    <3>2. GetDistance(data, last.to_city, next.from_city) \in Nat
      BY <3>1, DataFacts DEF GetDistance, HasRoad, IsData
    <3>3. data.speed \in Nat \ {0}
      BY DataFacts DEF IsData
    <3>4. \A a \in Nat, b \in Nat \ {0} : (a * 60) \div b \in Nat
      OBVIOUS
    <3> QED
      BY <3>2, <3>3, <3>4 DEF TravelTime
  <2>7. last.finish_time <= next.start_time
    <3> DEFINE way == TravelTime(data, last.to_city, next.from_city)
    <3>1. last.finish_time + way <= next.start_time
      BY <2>4 DEF CanReach, EndOf
    <3>2. last.finish_time \in Nat /\ next.start_time \in Nat /\ way \in Nat
      BY <1>5, <2>3, <2>6
    <3> HIDE DEF last, next, way
    <3> QED
      BY <3>1, <3>2
  <2>8. CASE i = n
    BY <1>1, <2>7, <2>8
  <2>9. CASE i < n
    <3>1. data.orders[chain.orders[i]].finish_time <= last.start_time
      BY <1>3, <2>1, <2>9 DEF InTime
    <3>2. chain.orders[i] \in Orders /\ new.orders[i] = chain.orders[i]
      BY <1>1, <1>2, <1>3
    <3>3. data.orders[chain.orders[i]].finish_time \in Nat
      BY <1>5, <3>2
    <3>4. /\ last.start_time \in Nat /\ last.finish_time \in Nat
          /\ next.start_time \in Nat /\ last.start_time < last.finish_time
      BY <1>5, <2>3
    <3>5. data.orders[chain.orders[i]].finish_time <= next.start_time
      <4> HIDE DEF last, next
      <4> QED
        BY <2>7, <3>1, <3>3, <3>4
    <3> QED
      BY <3>2, <3>5
  <2> QED
    BY <1>3, <2>8, <2>9
<1>7. ASSUME NEW i \in DOMAIN new.orders, NEW j \in DOMAIN new.orders, i < j
      PROVE  data.orders[new.orders[i]].finish_time
                <= data.orders[new.orders[j]].start_time
  <2>1. i \in 1 .. n
    BY <1>3, <1>7
  <2>2. CASE j = n + 1
    BY <1>6, <2>1, <2>2
  <2>3. CASE j \in 1 .. n
    BY <1>1, <1>3, <1>7, <2>1, <2>3 DEF InTime
  <2> QED
    BY <1>3, <2>2, <2>3
<1> QED
  BY <1>7 DEF InTime

-----------------------------------------------------------------------------
\* What is true of every chain, and how long those of the truck at hand are in a
\* round of Merge: the chains of this round are one order longer than the others.
ChainOK(t, chain) ==
    /\ Len(chain.orders) <= IF pc = "first" THEN 1 ELSE mx_chain_len
    /\ chain.free = {} \/ \E edge : chain.free = {edge}
    /\ pc \in {"first", "merge"} => chain.free = {}
    /\ Drivable(t, chain)
    /\ ForwardOrders(data) => InTime(chain)

Has(t, chain) == \E i \in DOMAIN chains[t] : chains[t][i] = chain

ChainsOK == \A t \in Trucks, chain \in Chain : Has(t, chain) => ChainOK(t, chain)

RoundOK ==
    pc = "merge" =>
        /\ round + 1 <= n_times
        /\ \A t \in Trucks : t > truck_pos =>
              \A i \in DOMAIN chains[t] : Len(chains[t][i].orders) <= 1
        /\ \A i \in DOMAIN chains[truck_pos] :
              Len(chains[truck_pos][i].orders) <=
                  IF i <= cur_size THEN round + 1 ELSE round + 2

NothingPicked == [t \in Trucks |-> 0]

PickedOK ==
    /\ pc \notin {"readback", "done", "aborted"} => picked = NothingPicked
    /\ pc = "readback" =>
          \/ picked \in Solutions
          \/ Solutions = {} /\ picked = NothingPicked

ChainInv == TypeOK /\ ChainsOK /\ RoundOK /\ PickedOK

\* The data never change, and what is defined by them alone does not either.
LEMMA SameData ==
    ASSUME data' = data
    PROVE  /\ Trucks' = Trucks
           /\ Orders' = Orders
           /\ Chain' = Chain
           /\ NothingPicked' = NothingPicked
           /\ \A t, chain : Drivable(t, chain)' = Drivable(t, chain)
           /\ \A chain : InTime(chain)' = InTime(chain)
<1>1. Trucks' = Trucks /\ Orders' = Orders
  BY DEF Trucks, Orders
<1>2. \A t, chain : ChainEnd(t, chain)' = ChainEnd(t, chain)
  BY DEF ChainEnd, LastPos
<1>3. \A t, chain : Drivable(t, chain)' = Drivable(t, chain)
  BY <1>2 DEF Drivable, LastPos
<1> QED
  BY <1>1, <1>3 DEF Chain, NothingPicked, InTime

\* Where the chains after a step come from.
Stays(t, i) == i \in DOMAIN chains[t] /\ chains'[t][i] = chains[t][i]

LEMMA FirstOrigin ==
    ASSUME TypeOK, InitFirstEdge
    PROVE  /\ chains' \in [Trucks -> Seq(Chain)]
           /\ \A t \in Trucks : \A i \in DOMAIN chains'[t] :
                 Stays(t, i) \/ Longer(t, EmptyChain, chains'[t][i])
<1>1. PICK kept \in Kept(Successors(truck_pos, EmptyChain)) :
          chains' = [chains EXCEPT ![truck_pos] = Extended(EmptyChain, kept)]
  BY DEF InitFirstEdge
<1>2. /\ data \in Inputs /\ truck_pos \in Trucks
      /\ chains \in [Trucks -> Seq(Chain)]
      /\ EmptyChain \in Chain
      /\ kept \in SUBSET Successors(truck_pos, EmptyChain)
  BY EmptyChainType DEF TypeOK, Kept
<1>3. /\ Extended(EmptyChain, kept) \in Seq(Chain)
      /\ \A i \in DOMAIN Extended(EmptyChain, kept) :
            Longer(truck_pos, EmptyChain, Extended(EmptyChain, kept)[i])
  BY <1>2, ExtendedType
<1> QED
  BY <1>1, <1>2, <1>3 DEF Stays

LEMMA MergeOrigin ==
    ASSUME TypeOK, MergeChain
    PROVE  /\ chains' \in [Trucks -> Seq(Chain)]
           /\ Len(chains'[truck_pos]) >= Len(chains[truck_pos])
           /\ \A t \in Trucks : \A i \in DOMAIN chains'[t] :
                 \/ Stays(t, i)
                 \/ /\ t = truck_pos
                    /\ i > cur_size
                    /\ Longer(t, chains[t][chain_pos + 1], chains'[t][i])
<1> DEFINE old == chains[truck_pos]
           chain == old[chain_pos + 1]
<1>1. PICK kept \in Kept(Successors(truck_pos, chain)) :
          chains' = [chains EXCEPT ![truck_pos] = @ \o Extended(chain, kept)]
  BY DEF MergeChain
<1>2. /\ data \in Inputs /\ truck_pos \in Trucks
      /\ chains \in [Trucks -> Seq(Chain)]
      /\ old \in Seq(Chain)
      /\ cur_size \in 0 .. Len(old) /\ chain_pos \in 0 .. cur_size /\ chain_pos < cur_size
      /\ kept \in SUBSET Successors(truck_pos, chain)
  BY DEF TypeOK, Kept, MergeChain
<1>3. chain \in Chain
  BY <1>2
<1> DEFINE more == Extended(chain, kept)
<1>4. more \in Seq(Chain) /\ \A i \in DOMAIN more : Longer(truck_pos, chain, more[i])
  BY <1>2, <1>3, ExtendedType
<1>5. chains' = [chains EXCEPT ![truck_pos] = old \o more]
  BY <1>1
<1> HIDE DEF more
<1>6. /\ old \o more \in Seq(Chain)
      /\ Len(old \o more) = Len(old) + Len(more)
      /\ \A i \in 1 .. Len(old) + Len(more) :
            (old \o more)[i] = IF i <= Len(old) THEN old[i] ELSE more[i - Len(old)]
  BY <1>2, <1>4, ConcatProperties
<1>7. chains' \in [Trucks -> Seq(Chain)] /\ chains'[truck_pos] = old \o more
  BY <1>2, <1>5, <1>6
<1>8. ASSUME NEW i \in DOMAIN chains'[truck_pos]
      PROVE  \/ Stays(truck_pos, i)
             \/ i > cur_size /\ Longer(truck_pos, chain, chains'[truck_pos][i])
  <2>1. i \in 1 .. Len(old) + Len(more) /\ Len(old) \in Nat /\ Len(more) \in Nat
    BY <1>2, <1>4, <1>6, <1>7
  <2>2. CASE i <= Len(old)
    BY <1>2, <1>6, <1>7, <2>1, <2>2 DEF Stays
  <2>3. CASE i > Len(old)
    <3>1. i - Len(old) \in DOMAIN more
      BY <1>4, <2>1, <2>3
    <3>2. chains'[truck_pos][i] = more[i - Len(old)]
      BY <1>6, <1>7, <2>1, <2>3
    <3> QED
      BY <1>2, <1>4, <2>1, <2>3, <3>1, <3>2
  <2> QED
    BY <2>1, <2>2, <2>3
<1>9. ASSUME NEW t \in Trucks, t # truck_pos, NEW i \in DOMAIN chains'[t]
      PROVE  Stays(t, i)
  BY <1>2, <1>5, <1>9 DEF Stays
<1>10. Len(chains'[truck_pos]) >= Len(old)
  BY <1>2, <1>4, <1>6, <1>7
<1> QED
  BY <1>7, <1>8, <1>9, <1>10

LEMMA WeightsOrigin ==
    ASSUME TypeOK, AddWeightsEdges
    PROVE  /\ chains' \in [Trucks -> Seq(Chain)]
           /\ Len(chains'[truck_pos]) >= Len(chains[truck_pos])
           /\ chains[truck_pos][chain_pos + 1] \in Chain
           /\ chain_pos + 1 \in DOMAIN chains[truck_pos]
           /\ \A t \in Trucks : \A i \in DOMAIN chains'[t] :
                 \/ Stays(t, i)
                 \/ /\ t = truck_pos
                    /\ ClosedBy(t, chains[t][chain_pos + 1], chains'[t][i])
<1> DEFINE old == chains[truck_pos]
           chain == old[chain_pos + 1]
           closed == Closed(truck_pos, chain)
<1>1. /\ data \in Inputs /\ truck_pos \in Trucks
      /\ chains \in [Trucks -> Seq(Chain)]
      /\ old \in Seq(Chain)
      /\ cur_size \in 0 .. Len(old) /\ chain_pos \in 0 .. cur_size /\ chain_pos < cur_size
  BY DEF TypeOK, AddWeightsEdges
<1>2. chain_pos + 1 \in 1 .. Len(old) /\ chain \in Chain
  BY <1>1
<1>3. closed \in Seq(Chain) /\ \A i \in DOMAIN closed : ClosedBy(truck_pos, chain, closed[i])
  BY <1>1, <1>2, ClosedType
<1>4. chains' = IF closed = <<>> THEN chains
                ELSE [chains EXCEPT ![truck_pos] =
                         [old EXCEPT ![chain_pos + 1] = closed[1]] \o Tail(closed)]
  BY DEF AddWeightsEdges
<1> HIDE DEF closed
<1>5. CASE closed = <<>>
  BY <1>1, <1>2, <1>4, <1>5 DEF Stays
<1>6. CASE closed # <<>>
  <2> DEFINE replaced == [old EXCEPT ![chain_pos + 1] = closed[1]]
             more == Tail(closed)
  <2>1. 1 \in DOMAIN closed /\ closed[1] \in Chain
    BY <1>3, <1>6
  <2>2. replaced \in Seq(Chain) /\ Len(replaced) = Len(old)
    BY <1>1, <1>2, <2>1, ExceptSeq
  <2>3. /\ more \in Seq(Chain)
        /\ \A i \in 1 .. Len(more) : i + 1 \in DOMAIN closed /\ more[i] = closed[i + 1]
    BY <1>3, <1>6, HeadTailProperties
  <2>4. \A i \in 1 .. Len(old) : replaced[i] = IF i = chain_pos + 1 THEN closed[1] ELSE old[i]
    <3>1. DOMAIN old = 1 .. Len(old)
      BY <1>1
    <3> HIDE DEF old
    <3> QED
      BY <3>1
  <2>5. chains' = [chains EXCEPT ![truck_pos] = replaced \o more]
    BY <1>4, <1>6
  <2> HIDE DEF replaced, more
  <2>6. /\ replaced \o more \in Seq(Chain)
        /\ Len(replaced \o more) = Len(old) + Len(more)
        /\ \A i \in 1 .. Len(old) + Len(more) :
              (replaced \o more)[i] =
                  IF i <= Len(old) THEN replaced[i] ELSE more[i - Len(old)]
    <3>1. /\ replaced \o more \in Seq(Chain)
          /\ Len(replaced \o more) = Len(replaced) + Len(more)
          /\ \A i \in 1 .. Len(replaced) + Len(more) :
                (replaced \o more)[i] =
                    IF i <= Len(replaced) THEN replaced[i] ELSE more[i - Len(replaced)]
      BY <2>2, <2>3, ConcatProperties
    <3> QED
      BY <2>2, <3>1
  <2>7. chains' \in [Trucks -> Seq(Chain)] /\ chains'[truck_pos] = replaced \o more
    BY <1>1, <2>5, <2>6
  <2>8. ASSUME NEW i \in DOMAIN chains'[truck_pos]
        PROVE  Stays(truck_pos, i) \/ ClosedBy(truck_pos, chain, chains'[truck_pos][i])
    <3>1. i \in 1 .. Len(old) + Len(more) /\ Len(old) \in Nat /\ Len(more) \in Nat
      BY <1>1, <2>3, <2>6, <2>7
    <3>2. CASE i = chain_pos + 1
      <4>1. chains'[truck_pos][i] = closed[1]
        BY <1>2, <2>4, <2>6, <2>7, <3>1, <3>2
      <4> QED
        BY <1>3, <2>1, <4>1
    <3>3. CASE i # chain_pos + 1 /\ i <= Len(old)
      BY <1>1, <2>4, <2>6, <2>7, <3>1, <3>3 DEF Stays
    <3>4. CASE i > Len(old)
      <4>1. i - Len(old) \in 1 .. Len(more)
        BY <3>1, <3>4
      <4>2. chains'[truck_pos][i] = more[i - Len(old)]
        BY <2>6, <2>7, <3>1, <3>4
      <4> QED
        BY <1>3, <2>3, <4>1, <4>2
    <3> QED
      BY <3>1, <3>2, <3>3, <3>4
  <2>9. ASSUME NEW t \in Trucks, t # truck_pos, NEW i \in DOMAIN chains'[t]
        PROVE  Stays(t, i)
    BY <1>1, <2>5, <2>9 DEF Stays
  <2>10. Len(chains'[truck_pos]) >= Len(old)
    BY <1>1, <2>3, <2>6, <2>7
  <2>11. chain_pos + 1 \in DOMAIN old
    BY <1>1, <1>2
  <2> QED
    BY <1>2, <2>7, <2>8, <2>9, <2>10, <2>11
<1> QED
  BY <1>5, <1>6

LEMMA FirstWeightsOrigin ==
    ASSUME TypeOK, AddFirstWeightsEdges
    PROVE  /\ chains' \in [Trucks -> Seq(Chain)]
           /\ Len(chains'[truck_pos]) >= Len(chains[truck_pos])
           /\ \A t \in Trucks : \A i \in DOMAIN chains'[t] :
                 Stays(t, i) \/ ClosedBy(t, EmptyChain, chains'[t][i])
<1> DEFINE old == chains[truck_pos]
           more == Closed(truck_pos, EmptyChain)
<1>1. /\ data \in Inputs /\ truck_pos \in Trucks
      /\ chains \in [Trucks -> Seq(Chain)]
      /\ old \in Seq(Chain)
      /\ EmptyChain \in Chain
  BY EmptyChainType DEF TypeOK
<1>2. more \in Seq(Chain) /\ \A i \in DOMAIN more : ClosedBy(truck_pos, EmptyChain, more[i])
  BY <1>1, ClosedType
<1>3. chains' = [chains EXCEPT ![truck_pos] = old \o more]
  BY DEF AddFirstWeightsEdges
<1> HIDE DEF more
<1>4. /\ old \o more \in Seq(Chain)
      /\ Len(old \o more) = Len(old) + Len(more)
      /\ \A i \in 1 .. Len(old) + Len(more) :
            (old \o more)[i] = IF i <= Len(old) THEN old[i] ELSE more[i - Len(old)]
  BY <1>1, <1>2, ConcatProperties
<1>5. chains' \in [Trucks -> Seq(Chain)] /\ chains'[truck_pos] = old \o more
  BY <1>1, <1>3, <1>4
<1>6. ASSUME NEW i \in DOMAIN chains'[truck_pos]
      PROVE  Stays(truck_pos, i) \/ ClosedBy(truck_pos, EmptyChain, chains'[truck_pos][i])
  <2>1. i \in 1 .. Len(old) + Len(more) /\ Len(old) \in Nat /\ Len(more) \in Nat
    BY <1>1, <1>2, <1>4, <1>5
  <2>2. CASE i <= Len(old)
    BY <1>1, <1>4, <1>5, <2>1, <2>2 DEF Stays
  <2>3. CASE i > Len(old)
    <3>1. i - Len(old) \in DOMAIN more
      BY <1>2, <2>1, <2>3
    <3>2. chains'[truck_pos][i] = more[i - Len(old)]
      BY <1>4, <1>5, <2>1, <2>3
    <3> QED
      BY <1>2, <3>1, <3>2
  <2> QED
    BY <2>1, <2>2, <2>3
<1>7. ASSUME NEW t \in Trucks, t # truck_pos, NEW i \in DOMAIN chains'[t]
      PROVE  Stays(t, i)
  BY <1>1, <1>3, <1>7 DEF Stays
<1>8. Len(chains'[truck_pos]) >= Len(old)
  BY <1>1, <1>2, <1>4, <1>5
<1> QED
  BY <1>5, <1>6, <1>7, <1>8

-----------------------------------------------------------------------------
LEMMA InitInv == Init => ChainInv
<1> SUFFICES ASSUME Init PROVE ChainInv
  OBVIOUS
<1>1. data \in Inputs /\ 1 \in Trucks /\ EmptyChain \in Chain
  BY DataFacts, EmptyChainType DEF Init
<1>2. \A t \in Trucks : chains[t] = <<>>
  BY DEF Init
<1>3. 0 \in 0 .. mx_chain_len - 1
  BY LengthAssumption
<1>4. TypeOK
  BY <1>1, <1>3 DEF Init, TypeOK
<1>5. ChainsOK
  BY <1>2 DEF ChainsOK, Has
<1> QED
  BY <1>4, <1>5 DEF Init, ChainInv, RoundOK, PickedOK, NothingPicked

\* The next loop begins with the chains that its truck has.
LEMMA EnterType ==
    ASSUME TypeOK, data' = data, chains' \in [Trucks -> Seq(Chain)],
           NEW t \in Trucks, NEW loop, Enter(loop, t)
    PROVE  /\ truck_pos' \in Trucks
           /\ round' \in 0 .. mx_chain_len - 1
           /\ cur_size' \in 0 .. Len(chains'[truck_pos'])
           /\ chain_pos' \in 0 .. cur_size'
           /\ pc' = loop
<1>1. Len(chains'[t]) \in Nat
  OBVIOUS
<1> QED
  BY <1>1, LengthAssumption DEF Enter

LEMMA NextTruck ==
    ASSUME TypeOK
    PROVE  /\ 1 \in Trucks
           /\ truck_pos < Len(data.trucks) => truck_pos + 1 \in Trucks
BY DataFacts DEF TypeOK

LEMMA TypeStep == TypeOK /\ PickedOK /\ [Next]_vars => TypeOK'
<1> SUFFICES ASSUME TypeOK, PickedOK, [Next]_vars PROVE TypeOK'
  OBVIOUS
<1> DEFINE LoopsOK ==
        /\ truck_pos' \in Trucks
        /\ round' \in 0 .. mx_chain_len - 1
        /\ cur_size' \in 0 .. Len(chains'[truck_pos'])
        /\ chain_pos' \in 0 .. cur_size'
<1>1. /\ data \in Inputs /\ chains \in [Trucks -> Seq(Chain)] /\ truck_pos \in Trucks
      /\ round \in 0 .. mx_chain_len - 1
      /\ Len(chains[truck_pos]) \in Nat
      /\ cur_size \in 0 .. Len(chains[truck_pos]) /\ chain_pos \in 0 .. cur_size
      /\ plan \in [Trucks -> Chain]
  BY DEF TypeOK
<1>2. data' = data
  BY DEF Next, InitFirstEdge, MergeChain, NextRound, MergeDone, AddWeightsEdges,
         AddFirstWeightsEdges, HighsSolves, HighsFails, ReadBack, Terminated, vars
<1>3. Trucks' = Trucks /\ Chain' = Chain
  BY <1>2, SameData
\* While the chains are made nothing is picked.
<1>4. ASSUME pc \in {"first", "merge", "weights"},
             UNCHANGED <<picked, plan>>,
             chains' \in [Trucks -> Seq(Chain)], LoopsOK,
             pc' \in {"first", "merge", "weights", "rows"}
      PROVE  TypeOK'
  <2>1. picked' = NothingPicked
    BY <1>4 DEF PickedOK
  <2>2. picked' \in [Trucks -> Nat] /\ \A t \in Trucks : picked'[t] <= Len(chains'[t])
    <3>1. \A t \in Trucks : Len(chains'[t]) \in Nat
      BY <1>4
    <3> QED
      BY <2>1, <3>1 DEF NothingPicked
  <2> QED
    BY <1>1, <1>2, <1>3, <1>4, <2>2 DEF TypeOK
<1>5. CASE InitFirstEdge
  <2>1. chains' \in [Trucks -> Seq(Chain)]
    BY <1>5, FirstOrigin
  <2>2. \E t \in Trucks, loop \in {"first", "merge", "weights"} : Enter(loop, t)
    BY <1>5, NextTruck DEF InitFirstEdge
  <2>3. LoopsOK /\ pc' \in {"first", "merge", "weights"}
    BY <1>2, <2>1, <2>2, EnterType
  <2> QED
    BY <1>4, <1>5, <2>1, <2>3 DEF InitFirstEdge
<1>6. CASE MergeChain
  <2>1. chains' \in [Trucks -> Seq(Chain)] /\ Len(chains'[truck_pos]) >= Len(chains[truck_pos])
    BY <1>6, MergeOrigin
  <2>2. Len(chains'[truck_pos]) \in Nat
    BY <1>1, <2>1
  <2>3. LoopsOK
    BY <1>1, <1>6, <2>1, <2>2 DEF MergeChain
  <2> QED
    BY <1>4, <1>6, <2>1, <2>3 DEF MergeChain
<1>7. CASE NextRound
  <2>1. LoopsOK
    BY <1>1, <1>7, LengthAssumption DEF NextRound, n_times
  <2> QED
    BY <1>1, <1>4, <1>7, <2>1 DEF NextRound
<1>8. CASE MergeDone
  <2>1. \E t \in Trucks, loop \in {"merge", "weights"} : Enter(loop, t)
    BY <1>8, NextTruck DEF MergeDone
  <2>2. chains' \in [Trucks -> Seq(Chain)]
    BY <1>1, <1>8 DEF MergeDone
  <2>3. LoopsOK /\ pc' \in {"merge", "weights"}
    BY <1>2, <2>1, <2>2, EnterType
  <2> QED
    BY <1>4, <1>8, <2>2, <2>3 DEF MergeDone
<1>9. CASE AddWeightsEdges
  <2>1. chains' \in [Trucks -> Seq(Chain)] /\ Len(chains'[truck_pos]) >= Len(chains[truck_pos])
    BY <1>9, WeightsOrigin
  <2>2. Len(chains'[truck_pos]) \in Nat
    BY <1>1, <2>1
  <2>3. LoopsOK
    BY <1>1, <1>9, <2>1, <2>2 DEF AddWeightsEdges
  <2> QED
    BY <1>4, <1>9, <2>1, <2>3 DEF AddWeightsEdges
<1>10. CASE AddFirstWeightsEdges
  <2>1. chains' \in [Trucks -> Seq(Chain)] /\ Len(chains'[truck_pos]) >= Len(chains[truck_pos])
    BY <1>10, FirstWeightsOrigin
  <2>2. CASE truck_pos < Len(data.trucks)
    <3>1. Enter("weights", truck_pos + 1) /\ truck_pos + 1 \in Trucks
      BY <1>10, <2>2, NextTruck DEF AddFirstWeightsEdges
    <3>2. LoopsOK /\ pc' = "weights"
      BY <1>2, <2>1, <3>1, EnterType
    <3> QED
      BY <1>4, <1>10, <2>1, <3>2 DEF AddFirstWeightsEdges
  <2>3. CASE ~ (truck_pos < Len(data.trucks))
    <3>1. pc' = "rows" /\ UNCHANGED <<truck_pos, round, cur_size, chain_pos>>
      BY <1>10, <2>3 DEF AddFirstWeightsEdges
    <3>2. Len(chains'[truck_pos]) \in Nat
      BY <1>1, <2>1
    <3>3. LoopsOK
      BY <1>1, <2>1, <3>1, <3>2
    <3> QED
      BY <1>4, <1>10, <2>1, <3>1, <3>3 DEF AddFirstWeightsEdges
  <2> QED
    BY <2>2, <2>3
<1>11. CASE HighsSolves
  <2>1. picked' \in [Trucks -> UNION {0 .. Len(chains[t]) : t \in Trucks}]
    BY <1>11 DEF HighsSolves, Solutions
  <2>2. \A t \in Trucks : picked'[t] <= Len(chains[t])
    BY <1>11 DEF HighsSolves, Solutions
  <2>3. \A t \in Trucks : picked'[t] \in Nat
    BY <2>1
  <2>4. picked' \in [Trucks -> Nat]
    BY <2>1, <2>3
  <2> QED
    BY <1>2, <1>3, <1>11, <2>2, <2>4 DEF TypeOK, HighsSolves
<1>12. CASE HighsFails
  BY <1>2, <1>3, <1>12 DEF TypeOK, HighsFails
<1>13. CASE ReadBack
  <2>1. ASSUME NEW t \in Trucks PROVE Pick(picked, t) \in Chain
    <3>1. chains[t] \in Seq(Chain) /\ picked[t] \in Nat /\ picked[t] <= Len(chains[t])
      BY DEF TypeOK
    <3>2. picked[t] # 0 => chains[t][picked[t]] \in Chain
      BY <3>1
    <3> QED
      BY <1>1, <3>2, EmptyChainType DEF Pick
  <2>2. plan' \in [Trucks -> Chain]
    BY <1>13, <2>1 DEF ReadBack
  <2> QED
    BY <1>2, <1>3, <1>13, <2>2 DEF TypeOK, ReadBack
<1>14. CASE Terminated \/ UNCHANGED vars
  BY <1>2, <1>3, <1>14 DEF TypeOK, Terminated, vars
<1> QED
  BY <1>5, <1>6, <1>7, <1>8, <1>9, <1>10, <1>11, <1>12, <1>13, <1>14 DEF Next

-----------------------------------------------------------------------------
\* What makes a chain fine after a step.
LEMMA FineNext ==
    ASSUME data' = data
    PROVE  \A t, chain :
              /\ Len(chain.orders) <= IF pc' = "first" THEN 1 ELSE mx_chain_len
              /\ chain.free = {} \/ \E edge : chain.free = {edge}
              /\ pc' \in {"first", "merge"} => chain.free = {}
              /\ Drivable(t, chain)
              /\ ForwardOrders(data) => InTime(chain)
              => ChainOK(t, chain)'
BY SameData DEF ChainOK, ForwardOrders

\* A chain that a step leaves alone stays fine, as no step goes back to an earlier
\* loop.
LEMMA StaysFine ==
    ASSUME data' = data,
           pc' = "first" => pc = "first",
           pc' = "merge" => pc \in {"first", "merge"}
    PROVE  \A t, chain : chain \in Chain /\ ChainOK(t, chain) => ChainOK(t, chain)'
<1> SUFFICES ASSUME NEW t, NEW chain, chain \in Chain, ChainOK(t, chain)
             PROVE  ChainOK(t, chain)'
  OBVIOUS
<1>1. Len(chain.orders) \in Nat
  BY DEF Chain
<1>2. Len(chain.orders) <= IF pc' = "first" THEN 1 ELSE mx_chain_len
  BY <1>1, LengthAssumption DEF ChainOK
<1> QED
  BY <1>2, FineNext DEF ChainOK

LEMMA ChainsStep == ChainInv /\ [Next]_vars => ChainsOK'
<1> SUFFICES ASSUME ChainInv, [Next]_vars PROVE ChainsOK'
  OBVIOUS
<1>0. data \in Inputs
  BY DEF ChainInv, TypeOK
<1>1. /\ TypeOK /\ data \in Inputs /\ chains \in [Trucks -> Seq(Chain)]
      /\ truck_pos \in Trucks /\ round \in Nat
      /\ cur_size \in 0 .. Len(chains[truck_pos]) /\ chain_pos \in 0 .. cur_size
  BY DEF ChainInv, TypeOK
<1>2. data' = data
  BY DEF Next, InitFirstEdge, MergeChain, NextRound, MergeDone, AddWeightsEdges,
         AddFirstWeightsEdges, HighsSolves, HighsFails, ReadBack, Terminated, vars
<1>3. /\ pc' = "first" => pc = "first"
      /\ pc' = "merge" => pc \in {"first", "merge"}
  BY DEF Next, InitFirstEdge, MergeChain, NextRound, MergeDone, AddWeightsEdges, Enter,
         AddFirstWeightsEdges, HighsSolves, HighsFails, ReadBack, Terminated, vars
<1>4. Trucks' = Trucks /\ Chain' = Chain
  BY <1>2, SameData
<1>5. \A t \in Trucks : \A i \in DOMAIN chains[t] :
          chains[t][i] \in Chain /\ ChainOK(t, chains[t][i])
  BY <1>1 DEF ChainInv, ChainsOK, Has
<1>6. ASSUME NEW t \in Trucks, NEW i, Stays(t, i), NEW new, new = chains'[t][i]
      PROVE  ChainOK(t, new)'
  BY <1>2, <1>3, <1>5, <1>6, StaysFine DEF Stays
<1>7. CASE InitFirstEdge
  <2>1. ASSUME NEW t \in Trucks, NEW new, Longer(t, EmptyChain, new)
        PROVE  ChainOK(t, new)'
    <3> DEFINE chain == EmptyChain
    <3>0. Longer(t, chain, new)
      BY <2>1
    <3>1. /\ chain \in Chain /\ chain.free = {} /\ Len(chain.orders) = 0
          /\ Drivable(t, chain) /\ InTime(chain)
      BY <1>1, EmptyChainType, EmptyDrivable DEF InTime, EmptyChain
    <3> HIDE DEF chain
    <3>2. new.free = chain.free /\ Len(new.orders) = Len(chain.orders) + 1
      BY <1>0, <3>0, <3>1, LongerSize
    <3>3. Drivable(t, new)
      BY <1>0, <3>0, <3>1, LongerDrivable
    <3>4. ForwardOrders(data) => InTime(new)
      BY <1>0, <3>0, <3>1, LongerInTime
    <3>5. Len(new.orders) <= IF pc' = "first" THEN 1 ELSE mx_chain_len
      BY <3>1, <3>2, LengthAssumption
    <3>6. new.free = {}
      BY <3>1, <3>2
    <3> QED
      BY <1>2, <3>3, <3>4, <3>5, <3>6, FineNext
  <2> QED
    BY <1>1, <1>4, <1>6, <1>7, <2>1, FirstOrigin DEF ChainsOK, Has
<1>8. CASE MergeChain
  <2>1. ASSUME NEW t \in Trucks, t = truck_pos, NEW new,
               Longer(t, chains[t][chain_pos + 1], new)
        PROVE  ChainOK(t, new)'
    <3> DEFINE chain == chains[t][chain_pos + 1]
    <3>1. chain_pos < cur_size /\ pc = "merge" /\ pc' = "merge"
      BY <1>8 DEF MergeChain
    <3>2. chain_pos + 1 \in DOMAIN chains[t] /\ chain_pos + 1 <= cur_size
      BY <1>1, <2>1, <3>1
    <3>3. chain \in Chain /\ ChainOK(t, chain)
      BY <1>5, <3>2
    <3>4. chain.free = {} /\ Drivable(t, chain) /\ (ForwardOrders(data) => InTime(chain))
      BY <3>1, <3>3 DEF ChainOK
    <3>5. Len(chain.orders) \in Nat /\ Len(chain.orders) <= round + 1 /\ round + 1 <= n_times
      BY <2>1, <3>1, <3>2, <3>3 DEF ChainInv, RoundOK, Chain
    <3>6. Longer(t, chain, new)
      BY <2>1
    <3> HIDE DEF chain
    <3>7. new.free = chain.free /\ Len(new.orders) = Len(chain.orders) + 1
      BY <1>0, <3>3, <3>6, LongerSize
    <3>8. Drivable(t, new)
      BY <1>0, <3>3, <3>4, <3>6, LongerDrivable
    <3>9. ForwardOrders(data) => InTime(new)
      BY <1>0, <3>3, <3>4, <3>6, LongerInTime
    <3>10. Len(new.orders) <= mx_chain_len
      BY <1>1, <3>5, <3>7, LengthAssumption DEF n_times
    <3>11. Len(new.orders) <= IF pc' = "first" THEN 1 ELSE mx_chain_len
      BY <3>1, <3>10
    <3>12. new.free = {}
      BY <3>4, <3>7
    <3> QED
      BY <1>2, <3>8, <3>9, <3>11, <3>12, FineNext
  <2> QED
    BY <1>1, <1>4, <1>6, <1>8, <2>1, MergeOrigin DEF ChainsOK, Has
\* A chain closed by a free-movement order.
<1>9. ASSUME NEW t \in Trucks, NEW chain \in Chain, NEW new, ClosedBy(t, chain, new),
             Len(chain.orders) <= mx_chain_len, Drivable(t, chain),
             ForwardOrders(data) => InTime(chain),
             pc' \notin {"first", "merge"}
      PROVE  ChainOK(t, new)'
  <2>1. new.orders = chain.orders /\ \E edge : new.free = {edge}
    <3>1. PICK city \in CitiesAfter(t, LastPos(chain)) :
              new.free = {FreeEdge(t, chain, city)}
      BY <1>0, <1>9, ClosedByType
    <3>2. new.orders = chain.orders
      BY <1>0, <1>9, ClosedByType
    <3> QED
      BY <3>1, <3>2
  <2>2. Drivable(t, new)
    BY <1>0, <1>9, ClosedByDrivable
  <2>3. ForwardOrders(data) => InTime(new)
    BY <1>9, <2>1 DEF InTime
  <2> QED
    BY <1>2, <1>9, <2>1, <2>2, <2>3, FineNext
<1>10. CASE AddWeightsEdges
  <2>1. pc = "weights" /\ pc' = "weights"
    BY <1>10 DEF AddWeightsEdges
  <2>2. ASSUME NEW t \in Trucks, t = truck_pos, NEW new,
               ClosedBy(t, chains[t][chain_pos + 1], new)
        PROVE  ChainOK(t, new)'
    <3> DEFINE chain == chains[t][chain_pos + 1]
    <3>1. chain \in Chain /\ ChainOK(t, chain)
      BY <1>1, <1>5, <1>10, <2>2, WeightsOrigin
    <3>2. Len(chain.orders) <= mx_chain_len /\ Drivable(t, chain)
      BY <2>1, <3>1 DEF ChainOK
    <3>3. ForwardOrders(data) => InTime(chain)
      BY <3>1 DEF ChainOK
    <3>4. pc' \notin {"first", "merge"}
      BY <2>1
    <3>5. ClosedBy(t, chain, new)
      BY <2>2
    <3> HIDE DEF chain
    <3> QED
      BY <1>9, <3>1, <3>2, <3>3, <3>4, <3>5
  <2> QED
    BY <1>1, <1>4, <1>6, <1>10, <2>2, WeightsOrigin DEF ChainsOK, Has
<1>11. CASE AddFirstWeightsEdges
  <2>1. pc' \in {"weights", "rows"}
    BY <1>11 DEF AddFirstWeightsEdges, Enter
  <2>2. ASSUME NEW t \in Trucks, NEW new, ClosedBy(t, EmptyChain, new)
        PROVE  ChainOK(t, new)'
    <3>1. /\ EmptyChain \in Chain /\ Len(EmptyChain.orders) <= mx_chain_len
          /\ Drivable(t, EmptyChain) /\ InTime(EmptyChain)
      BY <1>1, EmptyChainType, EmptyDrivable, LengthAssumption DEF InTime, EmptyChain
    <3>2. pc' \notin {"first", "merge"}
      BY <2>1
    <3> QED
      BY <1>9, <2>2, <3>1, <3>2
  <2> QED
    BY <1>1, <1>4, <1>6, <1>11, <2>2, FirstWeightsOrigin DEF ChainsOK, Has
<1>12. CASE UNCHANGED chains
  <2>1. \A t \in Trucks : \A i \in DOMAIN chains'[t] : Stays(t, i)
    BY <1>12 DEF Stays
  <2> QED
    BY <1>4, <1>6, <2>1 DEF ChainsOK, Has
<1> QED
  BY <1>7, <1>8, <1>10, <1>11, <1>12
  DEF Next, NextRound, MergeDone, HighsSolves, HighsFails, ReadBack, Terminated, vars

LEMMA RoundStep == ChainInv /\ [Next]_vars => RoundOK'
<1> SUFFICES ASSUME ChainInv, [Next]_vars PROVE RoundOK'
  OBVIOUS
<1>1. /\ TypeOK /\ data \in Inputs /\ chains \in [Trucks -> Seq(Chain)]
      /\ truck_pos \in Trucks /\ round \in Nat
      /\ cur_size \in 0 .. Len(chains[truck_pos]) /\ chain_pos \in 0 .. cur_size
  BY DEF ChainInv, TypeOK
<1>2. \A t \in Trucks : \A i \in DOMAIN chains[t] :
          chains[t][i] \in Chain /\ Len(chains[t][i].orders) \in Nat
  <2>1. \A t \in Trucks : \A i \in DOMAIN chains[t] : chains[t][i] \in Chain
    BY <1>1
  <2>2. \A chain \in Chain : Len(chain.orders) \in Nat
    BY DEF Chain
  <2> QED
    BY <2>1, <2>2
<1>3. data' = data
  BY DEF Next, InitFirstEdge, MergeChain, NextRound, MergeDone, AddWeightsEdges,
         AddFirstWeightsEdges, HighsSolves, HighsFails, ReadBack, Terminated, vars
<1>4. Trucks' = Trucks /\ Trucks \in SUBSET Nat
  BY <1>1, <1>3, SameData, DataFacts
\* The loop of a truck begins with chains of one order.
<1>5. ASSUME NEW t \in Trucks, Enter("merge", t), mx_chain_len > 1,
             chains' \in [Trucks -> Seq(Chain)],
             \A u \in Trucks : u >= t =>
                 \A i \in DOMAIN chains'[u] : Len(chains'[u][i].orders) <= 1
      PROVE  RoundOK'
  <2>1. truck_pos' = t /\ round' = 0 /\ cur_size' = Len(chains'[t])
    BY <1>5 DEF Enter
  <2>2. t \in Nat /\ \A u \in Trucks : u \in Nat
    BY <1>4
  <2>3. round' + 1 <= n_times'
    BY <2>1, <1>5, LengthAssumption DEF n_times
  <2>4. \A u \in Trucks : u > t => \A i \in DOMAIN chains'[u] : Len(chains'[u][i].orders) <= 1
    BY <1>5, <2>2
  <2>5. DOMAIN chains'[t] = 1 .. cur_size'
    BY <1>5, <2>1
  <2>6. \A i \in DOMAIN chains'[t] : i <= cur_size' /\ Len(chains'[t][i].orders) <= 1
    BY <1>5, <2>1, <2>2, <2>5
  <2> QED
    BY <1>4, <2>1, <2>3, <2>4, <2>6 DEF RoundOK
<1>6. CASE InitFirstEdge
  <2>1. \A t \in Trucks : \A i \in DOMAIN chains[t] : Len(chains[t][i].orders) <= 1
    BY <1>1, <1>2, <1>6 DEF ChainInv, ChainsOK, ChainOK, Has, InitFirstEdge
  <2>2. ASSUME NEW t \in Trucks, NEW i \in DOMAIN chains'[t]
        PROVE  Len(chains'[t][i].orders) <= 1
    <3>1. CASE Stays(t, i)
      BY <2>1, <3>1 DEF Stays
    <3>2. CASE Longer(t, EmptyChain, chains'[t][i])
      BY <1>1, <3>2, LongerSize, EmptyChainType DEF EmptyChain
    <3> QED
      BY <1>1, <1>6, <3>1, <3>2, FirstOrigin
  <2>3. CASE pc' = "merge"
    <3>1. Enter("merge", 1) /\ mx_chain_len > 1 /\ 1 \in Trucks
      BY <1>1, <1>6, <2>3, NextTruck DEF InitFirstEdge, Enter
    <3>2. chains' \in [Trucks -> Seq(Chain)]
      BY <1>1, <1>6, FirstOrigin
    <3> QED
      BY <1>5, <2>2, <3>1, <3>2
  <2> QED
    BY <2>3 DEF RoundOK
<1>7. CASE MergeChain
  <2>1. /\ chain_pos < cur_size /\ pc = "merge"
        /\ UNCHANGED <<truck_pos, round, cur_size>>
    BY <1>7 DEF MergeChain
  <2>2. /\ round + 1 <= n_times
        /\ \A t \in Trucks : t > truck_pos =>
              \A i \in DOMAIN chains[t] : Len(chains[t][i].orders) <= 1
        /\ \A i \in DOMAIN chains[truck_pos] :
              Len(chains[truck_pos][i].orders) <=
                  IF i <= cur_size THEN round + 1 ELSE round + 2
    BY <2>1 DEF ChainInv, RoundOK
  <2>3. ASSUME NEW t \in Trucks, t > truck_pos, NEW i \in DOMAIN chains'[t]
        PROVE  Len(chains'[t][i].orders) <= 1
    <3>1. t # truck_pos
      BY <1>1, <1>4, <2>3
    <3>2. Stays(t, i)
      BY <1>1, <1>7, <3>1, MergeOrigin
    <3> QED
      BY <2>2, <2>3, <3>2 DEF Stays
  <2>4. ASSUME NEW i \in DOMAIN chains'[truck_pos]
        PROVE  Len(chains'[truck_pos][i].orders) <=
                   IF i <= cur_size THEN round + 1 ELSE round + 2
    <3>1. CASE Stays(truck_pos, i)
      BY <2>2, <3>1 DEF Stays
    <3>2. CASE i > cur_size /\ Longer(truck_pos, chains[truck_pos][chain_pos + 1],
                                      chains'[truck_pos][i])
      <4>1. chain_pos + 1 \in DOMAIN chains[truck_pos] /\ chain_pos + 1 <= cur_size
        BY <1>1, <2>1
      <4>2. Len(chains[truck_pos][chain_pos + 1].orders) <= round + 1
        BY <2>2, <4>1
      <4>3. /\ chains[truck_pos][chain_pos + 1] \in Chain
            /\ Len(chains[truck_pos][chain_pos + 1].orders) \in Nat
        BY <1>1, <1>2, <4>1
      <4>4. Len(chains'[truck_pos][i].orders)
                = Len(chains[truck_pos][chain_pos + 1].orders) + 1
        BY <1>1, <3>2, <4>3, LongerSize
      <4>5. Len(chains'[truck_pos][i].orders) <= round + 2
        BY <1>1, <4>2, <4>3, <4>4
      <4>6. i \in Nat /\ cur_size \in Nat
        <5>1. chains' \in [Trucks -> Seq(Chain)]
          BY <1>1, <1>7, MergeOrigin
        <5> QED
          BY <1>1, <5>1
      <4> QED
        BY <3>2, <4>5, <4>6
    <3> QED
      BY <1>1, <1>7, <3>1, <3>2, MergeOrigin
  <2> QED
    BY <1>4, <2>1, <2>2, <2>3, <2>4 DEF RoundOK, n_times
<1>8. CASE NextRound
  <2>1. /\ pc = "merge" /\ round + 1 < n_times
        /\ round' = round + 1 /\ cur_size' = Len(chains[truck_pos])
        /\ UNCHANGED <<chains, truck_pos>>
    BY <1>8 DEF NextRound
  <2>2. /\ \A t \in Trucks : t > truck_pos =>
              \A i \in DOMAIN chains[t] : Len(chains[t][i].orders) <= 1
        /\ \A i \in DOMAIN chains[truck_pos] :
              Len(chains[truck_pos][i].orders) <=
                  IF i <= cur_size THEN round + 1 ELSE round + 2
    BY <2>1 DEF ChainInv, RoundOK
  <2>3. \A i \in DOMAIN chains[truck_pos] :
            i <= cur_size' /\ Len(chains[truck_pos][i].orders) <= round' + 1
    BY <1>1, <1>2, <2>1, <2>2
  <2>4. round' + 1 <= n_times
    BY <1>1, <2>1, LengthAssumption DEF n_times
  <2> QED
    BY <1>4, <2>1, <2>2, <2>3, <2>4 DEF RoundOK, n_times
<1>9. CASE MergeDone
  <2>1. pc = "merge" /\ UNCHANGED chains
    BY <1>9 DEF MergeDone
  <2>2. /\ round + 1 <= n_times
        /\ \A t \in Trucks : t > truck_pos =>
              \A i \in DOMAIN chains[t] : Len(chains[t][i].orders) <= 1
    BY <2>1 DEF ChainInv, RoundOK
  <2>3. CASE pc' = "merge"
    <3>1. Enter("merge", truck_pos + 1) /\ truck_pos + 1 \in Trucks
      BY <1>1, <1>9, <2>3, NextTruck DEF MergeDone, Enter
    <3>2. mx_chain_len > 1
      BY <1>1, <2>2, LengthAssumption DEF n_times
    <3>3. \A u \in Trucks : u >= truck_pos + 1 => u > truck_pos
      BY <1>1, <1>4
    <3> QED
      BY <1>1, <1>5, <2>1, <2>2, <3>1, <3>2, <3>3
  <2> QED
    BY <2>3 DEF RoundOK
<1>10. CASE AddWeightsEdges \/ AddFirstWeightsEdges \/ HighsSolves \/ HighsFails \/ ReadBack
  <2>1. pc' # "merge"
    BY <1>10 DEF AddWeightsEdges, AddFirstWeightsEdges, Enter, HighsSolves, HighsFails, ReadBack
  <2> QED
    BY <2>1 DEF RoundOK
<1>11. CASE Terminated \/ UNCHANGED vars
  BY <1>4, <1>11 DEF ChainInv, RoundOK, Terminated, vars, n_times
<1> QED
  BY <1>6, <1>7, <1>8, <1>9, <1>10, <1>11 DEF Next

\* What the rows admit depends on the data and the chains only.
LEMMA SameRows ==
    ASSUME data' = data, chains' = chains
    PROVE  /\ Solutions' = Solutions
           /\ Required' = Required
           /\ \A choice, t : Pick(choice, t)' = Pick(choice, t)
<1>1. Trucks' = Trucks /\ Orders' = Orders
  BY SameData
<1>2. \A choice, t : Pick(choice, t)' = Pick(choice, t)
  BY DEF Pick
<1>3. Required' = Required
  BY <1>1 DEF Required
<1> QED
  BY <1>1, <1>2, <1>3 DEF Solutions

LEMMA PickedStep == ChainInv /\ [Next]_vars => PickedOK'
<1> SUFFICES ASSUME ChainInv, [Next]_vars PROVE PickedOK'
  OBVIOUS
<1>1. data' = data
  BY DEF Next, InitFirstEdge, MergeChain, NextRound, MergeDone, AddWeightsEdges,
         AddFirstWeightsEdges, HighsSolves, HighsFails, ReadBack, Terminated, vars
<1>2. NothingPicked' = NothingPicked
  BY <1>1, SameData
<1>3. CASE InitFirstEdge \/ MergeChain \/ NextRound \/ MergeDone
           \/ AddWeightsEdges \/ AddFirstWeightsEdges
  <2>1. /\ pc \in {"first", "merge", "weights"}
        /\ pc' \in {"first", "merge", "weights", "rows"}
        /\ picked' = picked
    BY <1>3 DEF InitFirstEdge, MergeChain, NextRound, MergeDone, AddWeightsEdges,
                AddFirstWeightsEdges, Enter
  <2> QED
    BY <1>2, <2>1 DEF ChainInv, PickedOK
<1>4. CASE HighsSolves
  <2>1. chains' = chains /\ pc' = "readback" /\ picked' \in Solutions
    BY <1>4 DEF HighsSolves
  <2> QED
    BY <1>1, <2>1, SameRows DEF PickedOK
<1>5. CASE HighsFails
  <2>1. /\ chains' = chains /\ picked' = picked /\ pc = "rows"
        /\ pc' \in {"readback", "aborted"} /\ Solutions = {}
    BY <1>5 DEF HighsFails
  <2>2. picked = NothingPicked
    BY <2>1 DEF ChainInv, PickedOK
  <2> QED
    BY <1>1, <1>2, <2>1, <2>2, SameRows DEF PickedOK
<1>6. CASE ReadBack
  BY <1>6 DEF ReadBack, PickedOK
<1>7. CASE Terminated \/ UNCHANGED vars
  <2>1. chains' = chains /\ picked' = picked /\ pc' = pc
    BY <1>7 DEF Terminated, vars
  <2> QED
    BY <1>1, <1>2, <2>1, SameRows DEF ChainInv, PickedOK
<1> QED
  BY <1>3, <1>4, <1>5, <1>6, <1>7 DEF Next

LEMMA ChainInvariant == Spec => []ChainInv
<1>1. Init => ChainInv
  BY InitInv
<1>2. ChainInv /\ [Next]_vars => ChainInv'
  BY TypeStep, ChainsStep, RoundStep, PickedStep DEF ChainInv
<1> QED
  BY <1>1, <1>2, PTL DEF Spec

\* Types; the loops stay within the chains that there are.
THEOREM ChainTypeCorrect == Spec => []TypeOK
<1>1. ChainInv => TypeOK
  BY DEF ChainInv
<1> QED
  BY <1>1, ChainInvariant, PTL

\* No chain is written past the end of its array, whatever its length and whatever the
\* free-movement order that closes it.
THEOREM ChainsFit == Spec => []WithinArray
<1>1. ChainInv => WithinArray
  <2> SUFFICES ASSUME ChainInv, NEW t \in Trucks, NEW i \in DOMAIN chains[t]
               PROVE  Len(chains[t][i].orders) + Cardinality(chains[t][i].free) <= MX_LEN
    BY DEF WithinArray
  <2> DEFINE chain == chains[t][i]
  <2>1. chain \in Chain /\ ChainOK(t, chain)
    BY DEF ChainInv, TypeOK, ChainsOK, Has
  <2> HIDE DEF chain
  <2>2. Len(chain.orders) \in Nat
    BY <2>1 DEF Chain
  <2>3. Len(chain.orders) <= mx_chain_len
    BY <2>1, <2>2, LengthAssumption DEF ChainOK
  <2>4. Cardinality(chain.free) \in {0, 1}
    BY <2>1, FS_EmptySet, FS_Singleton DEF ChainOK
  <2>5. Len(chain.orders) + Cardinality(chain.free) <= MX_LEN
    BY <2>2, <2>3, <2>4, LengthAssumption
  <2> QED
    BY <2>5 DEF chain
<1> QED
  BY <1>1, ChainInvariant, PTL

\* Every chain is one that its truck can drive by the checker's rules.
THEOREM EveryChainDrivable == Spec => []ChainsDrivable
<1>1. ChainInv => ChainsDrivable
  BY DEF ChainInv, TypeOK, ChainsOK, ChainOK, Has, ChainsDrivable
<1> QED
  BY <1>1, ChainInvariant, PTL

-----------------------------------------------------------------------------
\* PlanValid of a given plan.
Real(p) == [t \in Trucks |-> p[t].orders]

Valid(p) ==
    /\ Accepts(data, Real(p))
    /\ NoRepeats(Real(p))
    /\ \A t, u \in Trucks : t # u => p[t].free \cap p[u].free = {}
    /\ Required \subseteq Served(Real(p)) \/ Solutions = {}

ForwardInputs == \A d \in Inputs : ForwardOrders(d)

\* A truck's chain can be driven, and serves no order twice.
LEMMA PickedFine ==
    ASSUME ChainInv, NEW t \in Trucks
    PROVE  /\ Pick(picked, t) \in Chain
           /\ Drivable(t, Pick(picked, t))
           /\ ForwardOrders(data) => InTime(Pick(picked, t))
<1>1. /\ data \in Inputs /\ chains[t] \in Seq(Chain)
      /\ picked[t] \in Nat /\ picked[t] <= Len(chains[t])
  BY DEF ChainInv, TypeOK
<1>2. CASE picked[t] = 0
  BY <1>1, <1>2, EmptyChainType, EmptyDrivable DEF Pick, InTime, EmptyChain
<1>3. CASE picked[t] # 0
  <2>1. picked[t] \in DOMAIN chains[t] /\ chains[t][picked[t]] \in Chain
    BY <1>1, <1>3
  <2>2. ChainOK(t, chains[t][picked[t]])
    BY <2>1 DEF ChainInv, ChainsOK, Has
  <2> QED
    BY <1>3, <2>1, <2>2 DEF Pick, ChainOK
<1> QED
  BY <1>2, <1>3

LEMMA PickedValid ==
    ASSUME ChainInv, ForwardInputs, pc = "readback"
    PROVE  \A p : p = [t \in Trucks |-> Pick(picked, t)] => Valid(p)
<1> SUFFICES ASSUME NEW p, p = [t \in Trucks |-> Pick(picked, t)] PROVE Valid(p)
  OBVIOUS
<1>1. data \in Inputs /\ ForwardOrders(data) /\ Trucks = DOMAIN data.trucks
  BY DEF ChainInv, TypeOK, ForwardInputs, Trucks
<1>2. \A t \in Trucks : /\ p[t] = Pick(picked, t)
                        /\ p[t] \in Chain
                        /\ Drivable(t, p[t])
                        /\ InTime(p[t])
  BY <1>1, PickedFine
<1>3. \A t \in Trucks : Real(p)[t] = p[t].orders
  BY DEF Real
<1>4. \A t \in Trucks : p[t].orders \in Seq(Orders)
  BY <1>2 DEF Chain
<1>5. Accepts(data, Real(p))
  <2> SUFFICES ASSUME NEW t \in Trucks, NEW i \in DOMAIN Real(p)[t]
               PROVE  MoveBetweenOrders(data, data.trucks[t], Previous(data, Real(p), t, i),
                                        data.orders[Real(p)[t][i]])
    BY <1>1 DEF Accepts
  <2>1. i \in DOMAIN p[t].orders
    BY <1>3
  <2> QED
    BY <1>2, <1>3, <2>1 DEF Drivable, Previous
<1>6. \/ picked \in Solutions
      \/ Solutions = {} /\ picked = NothingPicked
  BY DEF ChainInv, PickedOK
<1>7. ASSUME NEW t \in Trucks, NEW u \in Trucks, t # u
      PROVE  Disjoint(p[t], p[u])
  <2>1. CASE picked \in Solutions
    BY <1>2, <1>7, <2>1 DEF Solutions
  <2>2. CASE picked = NothingPicked
    BY <1>2, <2>2 DEF NothingPicked, Pick, EmptyChain, Disjoint, OrdersOf
  <2> QED
    BY <1>6, <2>1, <2>2
<1>8. NoRepeats(Real(p))
  <2> SUFFICES ASSUME NEW t \in Trucks, NEW u \in Trucks,
                      NEW i \in DOMAIN p[t].orders, NEW j \in DOMAIN p[u].orders,
                      p[t].orders[i] = p[u].orders[j]
               PROVE  t = u /\ i = j
    BY <1>3 DEF NoRepeats, Real
  <2>1. t = u
    <3>1. p[t].orders[i] \in OrdersOf(p[t]) /\ p[t].orders[i] \in OrdersOf(p[u])
      BY DEF OrdersOf
    <3> QED
      BY <1>7, <3>1 DEF Disjoint
  <2>2. p[t].orders[i] \in Orders
    BY <1>4
  <2>3. ~ (data.orders[p[t].orders[i]].finish_time <= data.orders[p[t].orders[i]].start_time)
    BY <1>1, <2>2, DataFacts DEF ForwardOrders, Orders, Order
  <2>4. i \in Nat /\ j \in Nat
    BY <1>4
  <2>5. ~ (i < j) /\ ~ (j < i)
    BY <1>2, <2>1, <2>3 DEF InTime
  <2> QED
    BY <2>1, <2>4, <2>5
<1>9. \A t, u \in Trucks : t # u => p[t].free \cap p[u].free = {}
  BY <1>7 DEF Disjoint
<1>10. Required \subseteq Served(Real(p)) \/ Solutions = {}
  <2>1. SUFFICES ASSUME picked \in Solutions, NEW o \in Required
                 PROVE  o \in Served(Real(p))
    BY <1>6
  <2>2. Required \subseteq UNION {OrdersOf(Pick(picked, t)) : t \in Trucks}
    BY <2>1 DEF Solutions
  <2>3. PICK t \in Trucks : o \in OrdersOf(Pick(picked, t))
    BY <2>1, <2>2
  <2>4. PICK i \in DOMAIN p[t].orders : o = p[t].orders[i]
    BY <1>2, <2>3 DEF OrdersOf
  <2>5. t \in DOMAIN Real(p) /\ i \in DOMAIN Real(p)[t] /\ Real(p)[t][i] = o
    BY <1>3, <2>4 DEF Real
  <2> QED
    BY <2>5 DEF Served
<1> QED
  BY <1>5, <1>8, <1>9, <1>10 DEF Valid

LEMMA SameValid ==
    ASSUME data' = data, chains' = chains
    PROVE  \A p : Valid(p)' = Valid(p)
<1>1. Trucks' = Trucks /\ Required' = Required /\ Solutions' = Solutions
  BY SameData, SameRows
<1>2. \A p : Real(p)' = Real(p)
  BY <1>1 DEF Real
<1> QED
  BY <1>1, <1>2 DEF Valid

\* For orders that end after they start, the plan read back is one that the checker
\* accepts, serves no order and no free-movement order twice, and serves every obligation
\* order that is in a chain unless the rows have no solution.
THEOREM PlanAccepted ==
    ASSUME ForwardInputs
    PROVE  Spec => []PlanValid
<1>1. PlanValid <=> (pc = "done" => Valid(plan))
  BY DEF PlanValid, Valid, Real
<1>2. Init => PlanValid
  BY DEF Init, PlanValid
<1>3. ChainInv /\ PlanValid /\ [Next]_vars => PlanValid'
  <2> SUFFICES ASSUME ChainInv, PlanValid, [Next]_vars, pc' = "done"
               PROVE  Valid(plan)'
    BY <1>1 DEF PlanValid, Valid, Real
  <2>1. CASE ReadBack
    <3>1. data' = data /\ chains' = chains /\ pc = "readback"
      BY <2>1 DEF ReadBack
    <3>2. \A p : p = [t \in Trucks |-> Pick(picked, t)] => Valid(p)'
      BY <3>1, PickedValid, SameValid
    <3>3. plan' = [t \in Trucks |-> Pick(picked, t)]
      BY <2>1 DEF ReadBack
    <3> QED
      BY <3>2, <3>3
  <2>2. CASE Terminated \/ UNCHANGED vars
    <3>1. data' = data /\ chains' = chains /\ plan' = plan /\ pc = "done"
      BY <2>2 DEF Terminated, vars
    <3>2. \A p : p = plan => Valid(p)'
      BY <1>1, <3>1, SameValid
    <3> QED
      BY <3>1, <3>2
  <2> QED
    BY <2>1, <2>2 DEF Next, InitFirstEdge, MergeChain, NextRound, MergeDone, AddWeightsEdges,
                      AddFirstWeightsEdges, Enter, HighsSolves, HighsFails
<1> QED
  BY <1>2, <1>3, ChainInvariant, PTL DEF Spec

-----------------------------------------------------------------------------
\* The places of Ascending(S) hold different elements, and all of S.
LEMMA AscendingOnce ==
    ASSUME NEW S \in SUBSET Nat, IsFiniteSet(S)
    PROVE  /\ \A i, j \in 1 .. Cardinality(S) : Ascending(S)[i] = Ascending(S)[j] => i = j
           /\ \A n \in S : \E i \in 1 .. Cardinality(S) : Ascending(S)[i] = n
BY AscendingOf

\* A chain is made longer in different ways, one for every order kept.
LEMMA ExtendedPlace ==
    ASSUME data \in Inputs, NEW t \in Trucks, NEW chain \in Chain,
           NEW kept \in SUBSET Successors(t, chain), NEW i \in DOMAIN Extended(chain, kept)
    PROVE  /\ i \in 1 .. Cardinality(kept)
           /\ chain.orders \in Seq(Orders)
           /\ Ascending(kept)[i] \in Orders
           /\ Extended(chain, kept)[i].orders = Append(chain.orders, Ascending(kept)[i])
<1>1. kept \in SUBSET Nat /\ IsFiniteSet(kept) /\ kept \subseteq Orders
  BY DataFacts, FS_Subset DEF Successors
<1>2. i \in 1 .. Cardinality(kept)
  BY DEF Extended
<1>3. chain.orders \in Seq(Orders) /\ chain \in [orders : Seq(Orders), free : SUBSET FreeKey]
  BY DEF Chain
<1>4. Ascending(kept)[i] \in Orders
  BY <1>1, <1>2, AscendingMember
<1> QED
  BY <1>2, <1>3, <1>4 DEF Extended

LEMMA ExtendedOnce ==
    ASSUME data \in Inputs, NEW t \in Trucks, NEW chain \in Chain,
           NEW kept \in SUBSET Successors(t, chain),
           NEW i \in DOMAIN Extended(chain, kept), NEW j \in DOMAIN Extended(chain, kept),
           Extended(chain, kept)[i] = Extended(chain, kept)[j]
    PROVE  i = j
<1>1. kept \in SUBSET Nat /\ IsFiniteSet(kept)
  BY DataFacts, FS_Subset DEF Successors
<1>2. Append(chain.orders, Ascending(kept)[i]) = Append(chain.orders, Ascending(kept)[j])
  BY ExtendedPlace
<1>3. Ascending(kept)[i] = Ascending(kept)[j]
  BY <1>2, ExtendedPlace, AppendInjective
<1> QED
  BY <1>1, <1>3, ExtendedPlace, AscendingOnce

LEMMA ExtendedOnto ==
    ASSUME data \in Inputs, NEW t \in Trucks, NEW chain \in Chain,
           NEW kept \in SUBSET Successors(t, chain), NEW o \in kept
    PROVE  \E i \in DOMAIN Extended(chain, kept) :
              Extended(chain, kept)[i].orders = Append(chain.orders, o)
<1>1. kept \in SUBSET Nat /\ IsFiniteSet(kept)
  BY DataFacts, FS_Subset DEF Successors
<1>2. PICK i \in 1 .. Cardinality(kept) : Ascending(kept)[i] = o
  BY <1>1, AscendingOnce
<1>3. i \in DOMAIN Extended(chain, kept)
  BY DEF Extended
<1> QED
  BY <1>2, <1>3, ExtendedPlace

LEMMA ClosedOnce ==
    ASSUME data \in Inputs, NEW t \in Trucks, NEW chain \in Chain,
           NEW i \in DOMAIN Closed(t, chain), NEW j \in DOMAIN Closed(t, chain),
           Closed(t, chain)[i] = Closed(t, chain)[j]
    PROVE  i = j
<1> DEFINE cities == CitiesAfter(t, LastPos(chain))
<1>1. cities \in SUBSET Nat /\ IsFiniteSet(cities)
  BY DataFacts, FS_Subset DEF CitiesAfter
<1>2. i \in 1 .. Cardinality(cities) /\ j \in 1 .. Cardinality(cities)
  BY DEF Closed
<1>3. \A k \in 1 .. Cardinality(cities) :
         Closed(t, chain)[k].free = {FreeEdge(t, chain, Ascending(cities)[k])}
  BY DEF Closed, FreeEdge, Chain
<1>4. FreeEdge(t, chain, Ascending(cities)[i]) = FreeEdge(t, chain, Ascending(cities)[j])
  BY <1>2, <1>3
<1>5. Ascending(cities)[i] = Ascending(cities)[j]
  BY <1>4 DEF FreeEdge
<1> HIDE DEF cities
<1> QED
  BY <1>1, <1>2, <1>5, AscendingOnce

LEMMA SameChain ==
    ASSUME NEW a \in Chain, NEW b \in Chain, a.orders = b.orders, a.free = b.free
    PROVE  a = b
<1>1. \A c \in Chain : c = [orders |-> c.orders, free |-> c.free]
  BY DEF Chain
<1> QED
  BY <1>1

\* The chains that a step adds to those of the truck at hand.
LEMMA FirstShape ==
    ASSUME TypeOK, InitFirstEdge
    PROVE  /\ \A t \in Trucks : t # truck_pos => chains'[t] = chains[t]
           /\ \A i, j \in DOMAIN chains'[truck_pos] :
                 chains'[truck_pos][i] = chains'[truck_pos][j] => i = j
           /\ \A i \in DOMAIN chains'[truck_pos] :
                 Longer(truck_pos, EmptyChain, chains'[truck_pos][i])
           /\ \A o \in Successors(truck_pos, EmptyChain) : data.orders[o].obligation =>
                 \E j \in DOMAIN chains'[truck_pos] :
                     chains'[truck_pos][j].orders = Append(EmptyChain.orders, o)
<1>1. PICK kept \in Kept(Successors(truck_pos, EmptyChain)) :
          chains' = [chains EXCEPT ![truck_pos] = Extended(EmptyChain, kept)]
  BY DEF InitFirstEdge
<1>2. /\ data \in Inputs /\ truck_pos \in Trucks
      /\ chains \in [Trucks -> Seq(Chain)]
      /\ EmptyChain \in Chain
      /\ kept \in SUBSET Successors(truck_pos, EmptyChain)
      /\ \A o \in Successors(truck_pos, EmptyChain) :
            data.orders[o].obligation => o \in kept
  BY EmptyChainType DEF TypeOK, Kept
<1> DEFINE more == Extended(EmptyChain, kept)
<1>3. chains'[truck_pos] = more /\ \A t \in Trucks : t # truck_pos => chains'[t] = chains[t]
  BY <1>1, <1>2
<1>4. \A i, j \in DOMAIN more : more[i] = more[j] => i = j
  BY <1>2, ExtendedOnce
<1>5. \A i \in DOMAIN more : Longer(truck_pos, EmptyChain, more[i])
  BY <1>2, ExtendedType
<1>6. \A o \in kept : \E i \in DOMAIN more : more[i].orders = Append(EmptyChain.orders, o)
  BY <1>2, ExtendedOnto
<1> HIDE DEF more
<1>7. /\ \A i, j \in DOMAIN chains'[truck_pos] :
            chains'[truck_pos][i] = chains'[truck_pos][j] => i = j
      /\ \A i \in DOMAIN chains'[truck_pos] :
            Longer(truck_pos, EmptyChain, chains'[truck_pos][i])
  BY <1>3, <1>4, <1>5
<1>8. \A o \in Successors(truck_pos, EmptyChain) : data.orders[o].obligation =>
         \E j \in DOMAIN chains'[truck_pos] :
             chains'[truck_pos][j].orders = Append(EmptyChain.orders, o)
  BY <1>2, <1>3, <1>6
<1> QED
  BY <1>3, <1>7, <1>8

LEMMA MergeShape ==
    ASSUME TypeOK, MergeChain
    PROVE  LET old == chains[truck_pos]
               new == chains'[truck_pos]
               chain == old[chain_pos + 1]
           IN  /\ chain_pos + 1 \in 1 .. Len(old) /\ chain \in Chain
               /\ \A t \in Trucks : t # truck_pos => chains'[t] = chains[t]
               /\ \A i \in 1 .. Len(old) : i \in DOMAIN new /\ new[i] = old[i]
               /\ \A i \in DOMAIN new :
                     \/ i \in 1 .. Len(old)
                     \/ i > Len(old) /\ Longer(truck_pos, chain, new[i])
               /\ \A i, j \in DOMAIN new :
                     i > Len(old) /\ j > Len(old) /\ new[i] = new[j] => i = j
               /\ \A o \in Successors(truck_pos, chain) : data.orders[o].obligation =>
                     \E j \in DOMAIN new : new[j].orders = Append(chain.orders, o)
<1> DEFINE old == chains[truck_pos]
           new == chains'[truck_pos]
           chain == old[chain_pos + 1]
<1>1. PICK kept \in Kept(Successors(truck_pos, chain)) :
          chains' = [chains EXCEPT ![truck_pos] = old \o Extended(chain, kept)]
  BY DEF MergeChain
<1>2. /\ data \in Inputs /\ truck_pos \in Trucks
      /\ chains \in [Trucks -> Seq(Chain)]
      /\ old \in Seq(Chain)
      /\ cur_size \in 0 .. Len(old) /\ chain_pos \in 0 .. cur_size /\ chain_pos < cur_size
      /\ kept \in SUBSET Successors(truck_pos, chain)
      /\ \A o \in Successors(truck_pos, chain) : data.orders[o].obligation => o \in kept
  BY DEF TypeOK, Kept, MergeChain
<1>3. chain_pos + 1 \in 1 .. Len(old) /\ chain \in Chain
  BY <1>2
<1> DEFINE more == Extended(chain, kept)
<1>4. /\ more \in Seq(Chain)
      /\ \A i \in DOMAIN more : Longer(truck_pos, chain, more[i])
      /\ \A i, j \in DOMAIN more : more[i] = more[j] => i = j
      /\ \A o \in kept : \E i \in DOMAIN more : more[i].orders = Append(chain.orders, o)
  <2> HIDE DEF chain
  <2>1. more \in Seq(Chain) /\ \A i \in DOMAIN more : Longer(truck_pos, chain, more[i])
    BY <1>2, <1>3, ExtendedType
  <2>2. \A i, j \in DOMAIN more : more[i] = more[j] => i = j
    BY <1>2, <1>3, ExtendedOnce
  <2>3. \A o \in kept : \E i \in DOMAIN more : more[i].orders = Append(chain.orders, o)
    BY <1>2, <1>3, ExtendedOnto
  <2> QED
    BY <2>1, <2>2, <2>3
<1>5. new = old \o more /\ \A t \in Trucks : t # truck_pos => chains'[t] = chains[t]
  BY <1>1, <1>2
<1> HIDE DEF more
<1>6. /\ Len(old) \in Nat /\ Len(more) \in Nat
      /\ DOMAIN more = 1 .. Len(more)
      /\ DOMAIN new = 1 .. Len(old) + Len(more)
      /\ \A i \in 1 .. Len(old) + Len(more) :
            new[i] = IF i <= Len(old) THEN old[i] ELSE more[i - Len(old)]
  BY <1>2, <1>4, <1>5, ConcatProperties
<1> HIDE DEF old, new, chain
<1>7. \A i \in 1 .. Len(old) : i \in DOMAIN new /\ new[i] = old[i]
  BY <1>6
<1>8. ASSUME NEW i \in DOMAIN new, i \notin 1 .. Len(old)
      PROVE  i > Len(old) /\ i - Len(old) \in DOMAIN more /\ new[i] = more[i - Len(old)]
  BY <1>6, <1>8
<1>9. ASSUME NEW i \in DOMAIN new, NEW j \in DOMAIN new,
             i > Len(old), j > Len(old), new[i] = new[j]
      PROVE  i = j
  <2>1. i - Len(old) = j - Len(old)
    BY <1>4, <1>6, <1>8, <1>9
  <2> QED
    BY <1>6, <2>1
<1>10. ASSUME NEW o \in kept
       PROVE  \E j \in DOMAIN new : new[j].orders = Append(chain.orders, o)
  <2>1. PICK i \in DOMAIN more : more[i].orders = Append(chain.orders, o)
    BY <1>4
  <2>2. i + Len(old) \in DOMAIN new /\ new[i + Len(old)] = more[i]
    BY <1>6
  <2> QED
    BY <2>1, <2>2
<1> QED
  BY <1>2, <1>3, <1>4, <1>5, <1>7, <1>8, <1>9, <1>10 DEF old, new, chain

LEMMA WeightsShape ==
    ASSUME TypeOK, AddWeightsEdges, chains' # chains
    PROVE  LET old == chains[truck_pos]
               new == chains'[truck_pos]
               chain == old[chain_pos + 1]
               Old(i) == i \in 1 .. Len(old) /\ i # chain_pos + 1
           IN  /\ chain_pos + 1 \in 1 .. Len(old) /\ chain \in Chain
               /\ \A t \in Trucks : t # truck_pos => chains'[t] = chains[t]
               /\ \A i \in 1 .. Len(old) : i \in DOMAIN new
               /\ \A i \in DOMAIN new :
                     \/ Old(i) /\ new[i] = old[i]
                     \/ ~Old(i) /\ ClosedBy(truck_pos, chain, new[i])
               /\ \A i, j \in DOMAIN new : ~Old(i) /\ ~Old(j) /\ new[i] = new[j] => i = j
<1> DEFINE old == chains[truck_pos]
           new == chains'[truck_pos]
           chain == old[chain_pos + 1]
           closed == Closed(truck_pos, chain)
           Old(i) == i \in 1 .. Len(old) /\ i # chain_pos + 1
<1>1. /\ data \in Inputs /\ truck_pos \in Trucks
      /\ chains \in [Trucks -> Seq(Chain)]
      /\ old \in Seq(Chain)
      /\ cur_size \in 0 .. Len(old) /\ chain_pos \in 0 .. cur_size /\ chain_pos < cur_size
  BY DEF TypeOK, AddWeightsEdges
<1>2. chain_pos + 1 \in 1 .. Len(old) /\ chain \in Chain
  BY <1>1
<1>3. /\ closed \in Seq(Chain)
      /\ \A i \in DOMAIN closed : ClosedBy(truck_pos, chain, closed[i])
      /\ \A i, j \in DOMAIN closed : closed[i] = closed[j] => i = j
  BY <1>1, <1>2, ClosedType, ClosedOnce
<1>4. /\ closed # <<>>
      /\ chains' = [chains EXCEPT ![truck_pos] =
                       [old EXCEPT ![chain_pos + 1] = closed[1]] \o Tail(closed)]
  BY DEF AddWeightsEdges
<1> HIDE DEF closed
<1> DEFINE replaced == [old EXCEPT ![chain_pos + 1] = closed[1]]
           more == Tail(closed)
<1>5. 1 \in DOMAIN closed /\ closed[1] \in Chain
  BY <1>3, <1>4
<1>6. replaced \in Seq(Chain) /\ Len(replaced) = Len(old)
  BY <1>1, <1>2, <1>5, ExceptSeq
<1>7. /\ more \in Seq(Chain)
      /\ \A i \in 1 .. Len(more) : i + 1 \in DOMAIN closed /\ more[i] = closed[i + 1]
  BY <1>3, <1>4, HeadTailProperties
<1>8. \A i \in 1 .. Len(old) : replaced[i] = IF i = chain_pos + 1 THEN closed[1] ELSE old[i]
  <2>1. DOMAIN old = 1 .. Len(old)
    BY <1>1
  <2> HIDE DEF old
  <2> QED
    BY <2>1
<1>9. new = replaced \o more /\ \A t \in Trucks : t # truck_pos => chains'[t] = chains[t]
  BY <1>1, <1>4
<1> HIDE DEF replaced, more
<1>10. /\ Len(old) \in Nat /\ Len(more) \in Nat /\ chain_pos \in Nat
       /\ DOMAIN new = 1 .. Len(old) + Len(more)
       /\ \A i \in 1 .. Len(old) + Len(more) :
             new[i] = IF i <= Len(old) THEN replaced[i] ELSE more[i - Len(old)]
  <2>1. /\ replaced \o more \in Seq(Chain)
        /\ Len(replaced \o more) = Len(replaced) + Len(more)
        /\ \A i \in 1 .. Len(replaced) + Len(more) :
              (replaced \o more)[i] =
                  IF i <= Len(replaced) THEN replaced[i] ELSE more[i - Len(replaced)]
    BY <1>6, <1>7, ConcatProperties
  <2> QED
    BY <1>1, <1>6, <1>7, <1>9, <2>1
<1> DEFINE place(i) == IF i = chain_pos + 1 THEN 1 ELSE i - Len(old) + 1
<1> HIDE DEF old, new, chain
<1>11. \A i \in 1 .. Len(old) : i \in DOMAIN new
  BY <1>10
<1>12. \A i \in DOMAIN new : Old(i) => new[i] = old[i]
  BY <1>8, <1>10
<1>13. ASSUME NEW i \in DOMAIN new, ~Old(i)
       PROVE  place(i) \in DOMAIN closed /\ new[i] = closed[place(i)]
  <2>1. CASE i = chain_pos + 1
    BY <1>2, <1>5, <1>8, <1>10, <2>1
  <2>2. CASE i # chain_pos + 1
    <3>1. i > Len(old) /\ i - Len(old) \in 1 .. Len(more)
      BY <1>10, <1>13, <2>2
    <3>2. new[i] = more[i - Len(old)]
      BY <1>10, <3>1
    <3> QED
      BY <1>7, <2>2, <3>1, <3>2
  <2> QED
    BY <2>1, <2>2
<1>14. ASSUME NEW i \in DOMAIN new, NEW j \in DOMAIN new, ~Old(i), ~Old(j), new[i] = new[j]
       PROVE  i = j
  <2>1. place(i) = place(j)
    BY <1>3, <1>13, <1>14
  <2> QED
    BY <1>2, <1>10, <1>14, <2>1
<1> HIDE DEF place
<1> QED
  BY <1>2, <1>3, <1>9, <1>11, <1>12, <1>13, <1>14 DEF old, new, chain

LEMMA FirstWeightsShape ==
    ASSUME TypeOK, AddFirstWeightsEdges
    PROVE  LET old == chains[truck_pos]
               new == chains'[truck_pos]
           IN  /\ \A t \in Trucks : t # truck_pos => chains'[t] = chains[t]
               /\ \A i \in 1 .. Len(old) : i \in DOMAIN new /\ new[i] = old[i]
               /\ \A i \in DOMAIN new :
                     \/ i \in 1 .. Len(old)
                     \/ i > Len(old) /\ ClosedBy(truck_pos, EmptyChain, new[i])
               /\ \A i, j \in DOMAIN new :
                     i > Len(old) /\ j > Len(old) /\ new[i] = new[j] => i = j
<1> DEFINE old == chains[truck_pos]
           new == chains'[truck_pos]
           more == Closed(truck_pos, EmptyChain)
<1>1. /\ data \in Inputs /\ truck_pos \in Trucks
      /\ chains \in [Trucks -> Seq(Chain)]
      /\ old \in Seq(Chain)
      /\ EmptyChain \in Chain
  BY EmptyChainType DEF TypeOK
<1>2. /\ more \in Seq(Chain)
      /\ \A i \in DOMAIN more : ClosedBy(truck_pos, EmptyChain, more[i])
      /\ \A i, j \in DOMAIN more : more[i] = more[j] => i = j
  BY <1>1, ClosedType, ClosedOnce
<1>3. chains' = [chains EXCEPT ![truck_pos] = old \o more]
  BY DEF AddFirstWeightsEdges
<1>4. new = old \o more /\ \A t \in Trucks : t # truck_pos => chains'[t] = chains[t]
  BY <1>1, <1>3
<1> HIDE DEF more
<1>5. /\ Len(old) \in Nat /\ Len(more) \in Nat
      /\ DOMAIN more = 1 .. Len(more)
      /\ DOMAIN new = 1 .. Len(old) + Len(more)
      /\ \A i \in 1 .. Len(old) + Len(more) :
            new[i] = IF i <= Len(old) THEN old[i] ELSE more[i - Len(old)]
  BY <1>1, <1>2, <1>4, ConcatProperties
<1> HIDE DEF old, new
<1>6. \A i \in 1 .. Len(old) : i \in DOMAIN new /\ new[i] = old[i]
  BY <1>5
<1>7. ASSUME NEW i \in DOMAIN new, i \notin 1 .. Len(old)
      PROVE  i > Len(old) /\ i - Len(old) \in DOMAIN more /\ new[i] = more[i - Len(old)]
  BY <1>5, <1>7
<1>8. ASSUME NEW i \in DOMAIN new, NEW j \in DOMAIN new,
             i > Len(old), j > Len(old), new[i] = new[j]
      PROVE  i = j
  <2>1. i - Len(old) = j - Len(old)
    BY <1>2, <1>5, <1>7, <1>8
  <2> QED
    BY <1>5, <2>1
<1> QED
  BY <1>2, <1>4, <1>6, <1>7, <1>8 DEF old, new

-----------------------------------------------------------------------------
(***************************************************************************)
(* No chain twice.  A round of Merge goes through chains that no earlier   *)
(* turn went through, so that the chains it makes are new; the free-       *)
(* movement orders are added to chains that differ in their real orders.   *)
(***************************************************************************)
\* A chain is another one with one order more.
OneMore(chain, new) ==
    /\ new.free = chain.free
    /\ \E o \in Nat : new.orders = Append(chain.orders, o)

\* No real order is in a chain from AddFirstWeightsEdges only.
NoneEmpty ==
    \A t \in Trucks :
        pc \in {"first", "merge"} \/ (pc = "weights" /\ t >= truck_pos) =>
            \A i \in DOMAIN chains[t] : chains[t][i].orders # <<>>

\* The longer chains of a truck come from those that Merge has been through.
MergeOnce ==
    pc = "merge" =>
        \A i \in DOMAIN chains[truck_pos] :
            \/ Len(chains[truck_pos][i].orders) = 1
            \/ \E k \in 1 .. chain_pos :
                  OneMore(chains[truck_pos][k], chains[truck_pos][i])

\* The closed chains of a truck come from those that AddWeightsEdges has been
\* through, and these differ in their real orders.
WeightsOnce ==
    pc = "weights" =>
        /\ \A t \in Trucks : t > truck_pos =>
              \A i \in DOMAIN chains[t] : chains[t][i].free = {}
        /\ \A i, j \in 1 .. cur_size :
              chains[truck_pos][i].orders = chains[truck_pos][j].orders => i = j
        /\ \A i \in 1 .. cur_size : i > chain_pos => chains[truck_pos][i].free = {}
        /\ \A i \in DOMAIN chains[truck_pos] : chains[truck_pos][i].free # {} =>
              \E k \in 1 .. chain_pos :
                  chains[truck_pos][k].orders = chains[truck_pos][i].orders

OnceInv == ChainsOnce /\ NoneEmpty /\ MergeOnce /\ WeightsOnce

LEMMA ChainSize ==
    ASSUME data \in Inputs, NEW chain \in Chain
    PROVE  /\ chain.orders \in Seq(Nat)
           /\ Len(chain.orders) \in Nat
           /\ chain.orders = <<>> <=> Len(chain.orders) = 0
<1>1. chain.orders \in Seq(Orders)
  BY DEF Chain
<1>2. chain.orders \in Seq(Nat)
  BY <1>1, DataFacts
<1> QED
  BY <1>2

LEMMA LongerOneMore ==
    ASSUME data \in Inputs, NEW t \in Trucks, NEW chain \in Chain, NEW new,
           Longer(t, chain, new)
    PROVE  OneMore(chain, new) /\ new \in Chain /\ Len(new.orders) = Len(chain.orders) + 1
<1>1. PICK o \in Successors(t, chain) : new = [chain EXCEPT !.orders = Append(@, o)]
  BY DEF Longer
<1>2. new.orders = Append(chain.orders, o) /\ new.free = chain.free
  BY <1>1 DEF Chain
<1>3. o \in Nat
  BY DataFacts DEF Successors
<1> QED
  BY <1>2, <1>3, LongerType DEF OneMore

LEMMA OneMoreOnce ==
    ASSUME data \in Inputs, NEW a \in Chain, NEW b \in Chain, NEW new,
           OneMore(a, new), OneMore(b, new)
    PROVE  a = b
<1>1. PICK o \in Nat : new.orders = Append(a.orders, o)
  BY DEF OneMore
<1>2. PICK q \in Nat : new.orders = Append(b.orders, q)
  BY DEF OneMore
<1>3. Append(a.orders, o) = Append(b.orders, q)
  BY <1>1, <1>2
<1>4. a.orders \in Seq(Nat) /\ b.orders \in Seq(Nat)
  BY ChainSize
<1>5. a.orders = b.orders
  <2>1. \A r, s \in Seq(Nat), d, e \in Nat : Append(r, d) = Append(s, e) => r = s
    BY AppendInjective
  <2> QED
    BY <1>3, <1>4, <2>1
<1> QED
  BY <1>5, SameChain DEF OneMore

LEMMA InitOnce == Init => OnceInv
BY DEF Init, OnceInv, ChainsOnce, NoneEmpty, MergeOnce, WeightsOnce

\* A loop begins with chains that differ in their real orders.
LEMMA EnterOnce ==
    ASSUME data \in Inputs, data' = data, chains' \in [Trucks -> Seq(Chain)],
           RoundOK', ChainsOnce', NoneEmpty',
           NEW t \in Trucks, NEW loop, Enter(loop, t),
           loop = "weights" =>
              \A u \in Trucks : u >= t => \A i \in DOMAIN chains'[u] : chains'[u][i].free = {}
    PROVE  MergeOnce' /\ WeightsOnce'
<1>1. /\ truck_pos' = t /\ round' = 0 /\ chain_pos' = 0 /\ pc' = loop
      /\ cur_size' = Len(chains'[t])
      /\ Trucks' = Trucks /\ Trucks \in SUBSET Nat
  BY SameData, DataFacts DEF Enter
<1>2. DOMAIN chains'[t] = 1 .. cur_size' /\ cur_size' \in Nat
  BY <1>1
<1>3. \A u \in Trucks : \A i \in DOMAIN chains'[u] : chains'[u][i] \in Chain
  OBVIOUS
<1>4. MergeOnce'
  <2> SUFFICES ASSUME pc' = "merge", NEW i \in DOMAIN chains'[t]
               PROVE  Len(chains'[t][i].orders) = 1
    BY <1>1 DEF MergeOnce
  <2>1. Len(chains'[t][i].orders) <= 1
    BY <1>1, <1>2 DEF RoundOK
  <2>2. chains'[t][i].orders # <<>>
    BY <1>1 DEF NoneEmpty
  <2>3. Len(chains'[t][i].orders) \in Nat /\ Len(chains'[t][i].orders) # 0
    BY <1>3, <2>2, ChainSize
  <2>4. \A n \in Nat : n <= 1 /\ n # 0 => n = 1
    OBVIOUS
  <2> QED
    BY <2>1, <2>3, <2>4
<1>5. WeightsOnce'
  <2> SUFFICES ASSUME pc' = "weights" PROVE WeightsOnce'
    BY DEF WeightsOnce
  <2>1. \A u \in Trucks : u >= t => \A i \in DOMAIN chains'[u] : chains'[u][i].free = {}
    BY <1>1
  <2>2. \A i \in DOMAIN chains'[t] : chains'[t][i].free = {}
    BY <1>1, <2>1
  <2>3. ASSUME NEW i \in 1 .. cur_size', NEW j \in 1 .. cur_size',
               chains'[t][i].orders = chains'[t][j].orders
        PROVE  i = j
    <3>1. i \in DOMAIN chains'[t] /\ j \in DOMAIN chains'[t]
      BY <1>2
    <3>2. /\ chains'[t][i] \in Chain /\ chains'[t][j] \in Chain
          /\ chains'[t][i].free = chains'[t][j].free
      BY <1>3, <2>2, <3>1
    <3>3. chains'[t][i] = chains'[t][j]
      BY <2>3, <3>2, SameChain
    <3> QED
      BY <1>1, <3>1, <3>3 DEF ChainsOnce
  <2>4. \A u \in Trucks : u > t => u >= t
    BY <1>1
  <2> QED
    BY <1>1, <1>2, <2>1, <2>2, <2>3, <2>4 DEF WeightsOnce
<1> QED
  BY <1>4, <1>5

\* Of two chains of a truck, which one is new does not matter.
LEMMA MergeKeepsOnce ==
    ASSUME ChainInv, OnceInv, MergeChain
    PROVE  OnceInv'
<1> DEFINE old == chains[truck_pos]
           new == chains'[truck_pos]
           chain == old[chain_pos + 1]
<1>1. /\ TypeOK /\ data \in Inputs /\ truck_pos \in Trucks /\ old \in Seq(Chain)
      /\ chain_pos \in Nat
      /\ pc = "merge" /\ pc' = "merge" /\ truck_pos' = truck_pos
      /\ chain_pos' = chain_pos + 1 /\ data' = data
  BY DEF ChainInv, TypeOK, MergeChain
<1>2. Trucks' = Trucks
  BY <1>1, SameData
<1>3. /\ chain_pos + 1 \in 1 .. Len(old) /\ chain \in Chain
      /\ \A t \in Trucks : t # truck_pos => chains'[t] = chains[t]
      /\ \A i \in 1 .. Len(old) : i \in DOMAIN new /\ new[i] = old[i]
      /\ \A i \in DOMAIN new :
            \/ i \in 1 .. Len(old)
            \/ i > Len(old) /\ Longer(truck_pos, chain, new[i])
      /\ \A i, j \in DOMAIN new : i > Len(old) /\ j > Len(old) /\ new[i] = new[j] => i = j
  BY <1>1, MergeShape
<1>4. /\ DOMAIN old = 1 .. Len(old) /\ Len(old) \in Nat
      /\ \A i \in DOMAIN old : old[i] \in Chain
  BY <1>1
<1>5. /\ \A i, j \in DOMAIN old : old[i] = old[j] => i = j
      /\ \A i \in DOMAIN old : old[i].orders # <<>>
      /\ \A i \in DOMAIN old : Len(old[i].orders) = 1
                                  \/ \E k \in 1 .. chain_pos : OneMore(old[k], old[i])
  BY <1>1 DEF OnceInv, ChainsOnce, NoneEmpty, MergeOnce
<1> HIDE DEF old, new, chain
<1>6. ASSUME NEW i \in DOMAIN new, i > Len(old)
      PROVE  /\ OneMore(chain, new[i]) /\ new[i] \in Chain
             /\ Len(new[i].orders) # 1 /\ new[i].orders # <<>>
  <2>1. Longer(truck_pos, chain, new[i])
    BY <1>3, <1>4, <1>6
  <2>2. OneMore(chain, new[i]) /\ new[i] \in Chain /\ Len(new[i].orders) = Len(chain.orders) + 1
    BY <1>1, <1>3, <2>1, LongerOneMore
  <2>3. Len(chain.orders) \in Nat /\ Len(chain.orders) # 0
    BY <1>1, <1>3, <1>4, <1>5, ChainSize DEF chain
  <2>4. Len(new[i].orders) # 1 /\ Len(new[i].orders) # 0
    BY <2>2, <2>3
  <2>5. new[i].orders # <<>>
    BY <1>1, <2>2, <2>4, ChainSize
  <2> QED
    BY <2>2, <2>4, <2>5
\* A chain that there was is not made again.
<1>7. ASSUME NEW i \in 1 .. Len(old), NEW j \in DOMAIN new, j > Len(old), old[i] = new[j]
      PROVE  FALSE
  <2>1. OneMore(chain, old[i]) /\ Len(old[i].orders) # 1
    BY <1>6, <1>7
  <2>2. PICK k \in 1 .. chain_pos : OneMore(old[k], old[i])
    <3>1. i \in DOMAIN old /\ Len(old[i].orders) # 1
      BY <1>4, <2>1
    <3> QED
      BY <1>5, <3>1
  <2>3. k \in DOMAIN old /\ chain_pos + 1 \in DOMAIN old /\ k # chain_pos + 1
    BY <1>1, <1>3, <1>4
  <2>4. old[k] = chain
    BY <1>1, <1>3, <1>4, <2>1, <2>2, <2>3, OneMoreOnce
  <2> QED
    BY <1>5, <2>3, <2>4 DEF chain
<1>8. ChainsOnce'
  <2>1. ASSUME NEW i \in DOMAIN new, NEW j \in DOMAIN new, new[i] = new[j]
        PROVE  i = j
    <3>1. CASE i \in 1 .. Len(old) /\ j \in 1 .. Len(old)
      BY <1>3, <1>4, <1>5, <2>1, <3>1
    <3>2. CASE i \in 1 .. Len(old) /\ j > Len(old)
      BY <1>3, <1>7, <2>1, <3>2
    <3>3. CASE i > Len(old) /\ j \in 1 .. Len(old)
      BY <1>3, <1>7, <2>1, <3>3
    <3>4. CASE i > Len(old) /\ j > Len(old)
      BY <1>3, <2>1, <3>4
    <3> QED
      BY <1>3, <3>1, <3>2, <3>3, <3>4
  <2> QED
    BY <1>2, <1>3, <2>1 DEF OnceInv, ChainsOnce, new
<1>9. NoneEmpty'
  <2>1. \A i \in DOMAIN new : new[i].orders # <<>>
    BY <1>3, <1>4, <1>5, <1>6
  <2> QED
    BY <1>1, <1>2, <1>3, <2>1 DEF OnceInv, NoneEmpty, new
<1>10. MergeOnce'
  <2> SUFFICES ASSUME NEW i \in DOMAIN new
               PROVE  \/ Len(new[i].orders) = 1
                      \/ \E k \in 1 .. chain_pos + 1 : OneMore(new[k], new[i])
    BY <1>1 DEF MergeOnce, new
  <2>1. CASE i \in 1 .. Len(old)
    <3>1. CASE Len(old[i].orders) = 1
      BY <1>3, <2>1, <3>1
    <3>2. CASE \E k \in 1 .. chain_pos : OneMore(old[k], old[i])
      <4>1. PICK k \in 1 .. chain_pos : OneMore(old[k], old[i])
        BY <3>2
      <4>2. k \in 1 .. Len(old) /\ k \in 1 .. chain_pos + 1
        BY <1>1, <1>3, <1>4
      <4> QED
        BY <1>3, <2>1, <4>1, <4>2
    <3> QED
      BY <1>4, <1>5, <2>1, <3>1, <3>2
  <2>2. CASE i > Len(old)
    <3>1. chain_pos + 1 \in 1 .. chain_pos + 1 /\ new[chain_pos + 1] = chain
      BY <1>1, <1>3 DEF chain
    <3> QED
      BY <1>6, <2>2, <3>1
  <2> QED
    BY <1>3, <2>1, <2>2
<1>11. WeightsOnce'
  BY <1>1 DEF WeightsOnce
<1> QED
  BY <1>8, <1>9, <1>10, <1>11 DEF OnceInv

LEMMA WeightsKeepOnce ==
    ASSUME ChainInv, OnceInv, AddWeightsEdges
    PROVE  OnceInv'
<1> DEFINE old == chains[truck_pos]
           new == chains'[truck_pos]
           chain == old[chain_pos + 1]
           Old(i) == i \in 1 .. Len(old) /\ i # chain_pos + 1
<1>1. /\ TypeOK /\ data \in Inputs /\ truck_pos \in Trucks /\ old \in Seq(Chain)
      /\ Trucks \in SUBSET Nat
      /\ cur_size \in 0 .. Len(old) /\ chain_pos \in Nat /\ chain_pos < cur_size
      /\ pc = "weights" /\ pc' = "weights"
      /\ truck_pos' = truck_pos /\ chain_pos' = chain_pos + 1
      /\ data' = data /\ cur_size' = cur_size
  BY DataFacts DEF ChainInv, TypeOK, AddWeightsEdges
<1>2. Trucks' = Trucks
  BY <1>1, SameData
<1>3. MergeOnce'
  BY <1>1 DEF MergeOnce
<1>4. CASE chains' = chains
  <2>1. ChainsOnce' /\ NoneEmpty'
    BY <1>1, <1>2, <1>4 DEF OnceInv, ChainsOnce, NoneEmpty
  <2>2. 1 .. chain_pos \subseteq 1 .. chain_pos + 1 /\ cur_size \in Nat
    BY <1>1
  <2>3. \A i \in 1 .. cur_size : i > chain_pos + 1 => i > chain_pos
    BY <1>1
  <2>4. WeightsOnce'
    BY <1>1, <1>2, <1>4, <2>2, <2>3 DEF OnceInv, WeightsOnce
  <2> QED
    BY <1>3, <2>1, <2>4 DEF OnceInv
<1>5. CASE chains' # chains
  <2>1. /\ chain_pos + 1 \in 1 .. Len(old) /\ chain \in Chain
        /\ \A t \in Trucks : t # truck_pos => chains'[t] = chains[t]
        /\ \A i \in 1 .. Len(old) : i \in DOMAIN new
        /\ \A i \in DOMAIN new :
              \/ Old(i) /\ new[i] = old[i]
              \/ ~Old(i) /\ ClosedBy(truck_pos, chain, new[i])
        /\ \A i, j \in DOMAIN new : ~Old(i) /\ ~Old(j) /\ new[i] = new[j] => i = j
    BY <1>1, <1>5, WeightsShape
  <2>2. DOMAIN old = 1 .. Len(old) /\ Len(old) \in Nat /\ cur_size \in Nat
    BY <1>1
  <2>3. /\ \A i, j \in DOMAIN old : old[i] = old[j] => i = j
        /\ \A i \in DOMAIN old : old[i].orders # <<>>
        /\ \A i, j \in 1 .. cur_size : old[i].orders = old[j].orders => i = j
        /\ \A i \in 1 .. cur_size : i > chain_pos => old[i].free = {}
        /\ \A i \in DOMAIN old : old[i].free # {} =>
              \E k \in 1 .. chain_pos : old[k].orders = old[i].orders
    BY <1>1 DEF OnceInv, ChainsOnce, NoneEmpty, WeightsOnce
  <2> HIDE DEF old, new, chain
  <2>4. ASSUME NEW i \in DOMAIN new, ~Old(i)
        PROVE  new[i].orders = chain.orders /\ new[i].free # {}
    <3>1. ClosedBy(truck_pos, chain, new[i])
      BY <2>1, <2>4
    <3>2. PICK city \in CitiesAfter(truck_pos, LastPos(chain)) :
              new[i].free = {FreeEdge(truck_pos, chain, city)}
      BY <1>1, <2>1, <3>1, ClosedByType
    <3>3. new[i].orders = chain.orders
      BY <1>1, <2>1, <3>1, ClosedByType
    <3> QED
      BY <3>2, <3>3
  \* Only the chain itself has its real orders.
  <2>5. ASSUME NEW i \in DOMAIN new, NEW j \in DOMAIN new, Old(i), ~Old(j), new[i] = new[j]
        PROVE  FALSE
    <3>1. i \in DOMAIN old /\ old[i].free # {} /\ old[i].orders = chain.orders
      BY <2>1, <2>2, <2>4, <2>5
    <3>2. PICK k \in 1 .. chain_pos : old[k].orders = chain.orders
      BY <2>3, <3>1
    <3>3. k \in 1 .. cur_size /\ chain_pos + 1 \in 1 .. cur_size /\ k # chain_pos + 1
      BY <1>1, <2>2
    <3> QED
      BY <2>3, <3>2, <3>3 DEF chain
  <2>6. ChainsOnce'
    <3>1. ASSUME NEW i \in DOMAIN new, NEW j \in DOMAIN new, new[i] = new[j]
          PROVE  i = j
      <4>1. CASE Old(i) /\ Old(j)
        BY <2>1, <2>2, <2>3, <3>1, <4>1
      <4>2. CASE Old(i) /\ ~Old(j)
        BY <2>5, <3>1, <4>2
      <4>3. CASE ~Old(i) /\ Old(j)
        BY <2>5, <3>1, <4>3
      <4>4. CASE ~Old(i) /\ ~Old(j)
        BY <2>1, <3>1, <4>4
      <4> QED
        BY <4>1, <4>2, <4>3, <4>4
    <3> QED
      BY <1>2, <2>1, <3>1 DEF OnceInv, ChainsOnce, new
  <2>7. \A i \in 1 .. Len(old) : new[i].orders = old[i].orders
    BY <2>1, <2>4 DEF chain
  <2>8. NoneEmpty'
    <3>1. \A i \in DOMAIN new : new[i].orders # <<>>
      <4>1. chain.orders # <<>>
        BY <2>1, <2>2, <2>3 DEF chain
      <4> QED
        BY <2>1, <2>2, <2>3, <2>4, <4>1
    <3> QED
      BY <1>1, <1>2, <2>1, <3>1 DEF OnceInv, NoneEmpty, new
  <2>9. WeightsOnce'
    <3>1. \A t \in Trucks : t > truck_pos => \A i \in DOMAIN chains'[t] : chains'[t][i].free = {}
      <4>1. \A t \in Trucks : t > truck_pos => t # truck_pos
        BY <1>1
      <4> QED
        BY <1>1, <2>1, <4>1 DEF OnceInv, WeightsOnce
    <3>2. ASSUME NEW i \in 1 .. cur_size, NEW j \in 1 .. cur_size,
                 new[i].orders = new[j].orders
          PROVE  i = j
      <4>1. i \in 1 .. Len(old) /\ j \in 1 .. Len(old)
        BY <1>1, <2>2 DEF old
      <4> QED
        BY <2>3, <2>7, <3>2, <4>1
    <3>3. ASSUME NEW i \in 1 .. cur_size, i > chain_pos + 1 PROVE new[i].free = {}
      <4>1. i \in 1 .. Len(old) /\ i # chain_pos + 1 /\ i > chain_pos
        BY <1>1, <2>2, <3>3 DEF old
      <4> QED
        BY <2>1, <2>3, <4>1
    <3>4. ASSUME NEW i \in DOMAIN new, new[i].free # {}
          PROVE  \E k \in 1 .. chain_pos + 1 : new[k].orders = new[i].orders
      <4>1. CASE Old(i)
        <5>1. PICK k \in 1 .. chain_pos : old[k].orders = old[i].orders
          BY <2>1, <2>2, <2>3, <3>4, <4>1
        <5>2. k \in 1 .. Len(old) /\ k \in 1 .. chain_pos + 1
          BY <1>1, <2>1, <2>2
        <5> QED
          BY <2>7, <4>1, <5>1, <5>2
      <4>2. CASE ~Old(i)
        <5>1. chain_pos + 1 \in 1 .. chain_pos + 1 /\ new[chain_pos + 1].orders = chain.orders
          BY <1>1, <2>1, <2>7 DEF chain
        <5> QED
          BY <2>4, <4>2, <5>1
      <4> QED
        BY <4>1, <4>2
    <3> QED
      BY <1>1, <1>2, <3>1, <3>2, <3>3, <3>4 DEF WeightsOnce, new
  <2> QED
    BY <1>3, <2>6, <2>8, <2>9 DEF OnceInv
<1> QED
  BY <1>4, <1>5

LEMMA FirstKeepsOnce ==
    ASSUME ChainInv, RoundOK', OnceInv, InitFirstEdge
    PROVE  OnceInv'
<1> DEFINE new == chains'[truck_pos]
<1>1. /\ TypeOK /\ data \in Inputs /\ truck_pos \in Trucks /\ pc = "first"
      /\ data' = data /\ chains' \in [Trucks -> Seq(Chain)]
      /\ chains \in [Trucks -> Seq(Chain)]
  BY FirstOrigin DEF ChainInv, TypeOK, InitFirstEdge
<1>2. Trucks' = Trucks
  BY <1>1, SameData
<1>3. /\ \A t \in Trucks : t # truck_pos => chains'[t] = chains[t]
      /\ \A i, j \in DOMAIN new : new[i] = new[j] => i = j
      /\ \A i \in DOMAIN new : Longer(truck_pos, EmptyChain, new[i])
  BY <1>1, FirstShape
<1>4. ASSUME NEW i \in DOMAIN new PROVE new[i].orders # <<>> /\ new[i].free = {}
  <2>1. EmptyChain \in Chain /\ Len(EmptyChain.orders) = 0 /\ EmptyChain.free = {}
    BY <1>1, EmptyChainType
  <2>2. /\ OneMore(EmptyChain, new[i]) /\ new[i] \in Chain
        /\ Len(new[i].orders) = Len(EmptyChain.orders) + 1
    BY <1>1, <1>3, <2>1, LongerOneMore
  <2>3. Len(new[i].orders) # 0
    BY <2>1, <2>2
  <2> QED
    BY <1>1, <2>1, <2>2, <2>3, ChainSize DEF OneMore
<1>5. ChainsOnce'
  BY <1>2, <1>3 DEF OnceInv, ChainsOnce
<1>6. \A t \in Trucks : \A i \in DOMAIN chains'[t] :
         chains'[t][i].orders # <<>> /\ chains'[t][i].free = {}
  <2>1. ASSUME NEW t \in Trucks, t # truck_pos, NEW i \in DOMAIN chains'[t]
        PROVE  chains'[t][i].orders # <<>> /\ chains'[t][i].free = {}
    <3>1. i \in DOMAIN chains[t] /\ chains'[t][i] = chains[t][i]
      BY <1>3, <2>1
    <3>2. chains[t][i] \in Chain
      BY <1>1, <3>1
    <3> QED
      BY <1>1, <3>1, <3>2 DEF ChainInv, ChainsOK, Has, ChainOK, OnceInv, NoneEmpty
  <2> QED
    BY <1>4, <2>1
<1>7. NoneEmpty'
  BY <1>2, <1>6 DEF NoneEmpty
<1>8. PICK t \in Trucks, loop \in {"first", "merge", "weights"} : Enter(loop, t)
  BY <1>1, NextTruck DEF InitFirstEdge
<1>9. MergeOnce' /\ WeightsOnce'
  BY <1>1, <1>5, <1>6, <1>7, <1>8, EnterOnce
<1> QED
  BY <1>5, <1>7, <1>9 DEF OnceInv

LEMMA FirstWeightsKeepOnce ==
    ASSUME ChainInv, RoundOK', OnceInv, AddFirstWeightsEdges
    PROVE  OnceInv'
<1> DEFINE old == chains[truck_pos]
           new == chains'[truck_pos]
<1>1. /\ TypeOK /\ data \in Inputs /\ truck_pos \in Trucks /\ pc = "weights"
      /\ old \in Seq(Chain) /\ EmptyChain \in Chain
      /\ data' = data /\ chains' \in [Trucks -> Seq(Chain)]
      /\ Trucks \in SUBSET Nat
  <2>1. /\ TypeOK /\ data \in Inputs /\ truck_pos \in Trucks /\ pc = "weights"
        /\ old \in Seq(Chain) /\ data' = data
    BY DEF ChainInv, TypeOK, AddFirstWeightsEdges
  <2>2. chains' \in [Trucks -> Seq(Chain)]
    BY <2>1, FirstWeightsOrigin
  <2> QED
    BY <2>1, <2>2, EmptyChainType, DataFacts
<1>2. Trucks' = Trucks
  BY <1>1, SameData
<1>3. /\ \A t \in Trucks : t # truck_pos => chains'[t] = chains[t]
      /\ \A i \in 1 .. Len(old) : i \in DOMAIN new /\ new[i] = old[i]
      /\ \A i \in DOMAIN new :
            \/ i \in 1 .. Len(old)
            \/ i > Len(old) /\ ClosedBy(truck_pos, EmptyChain, new[i])
      /\ \A i, j \in DOMAIN new : i > Len(old) /\ j > Len(old) /\ new[i] = new[j] => i = j
  BY <1>1, FirstWeightsShape
<1>4. DOMAIN old = 1 .. Len(old) /\ Len(old) \in Nat
  BY <1>1
<1>5. /\ \A i, j \in DOMAIN old : old[i] = old[j] => i = j
      /\ \A i \in DOMAIN old : old[i].orders # <<>>
  BY <1>1 DEF OnceInv, ChainsOnce, NoneEmpty
<1>6. ASSUME NEW i \in DOMAIN new, i > Len(old) PROVE new[i].orders = <<>>
  <2>1. ClosedBy(truck_pos, EmptyChain, new[i])
    BY <1>3, <1>4, <1>6
  <2>2. new[i].orders = EmptyChain.orders
    BY <1>1, <2>1, ClosedByType
  <2> QED
    BY <2>2 DEF EmptyChain
<1> HIDE DEF old, new
<1>7. ChainsOnce'
  <2>1. ASSUME NEW i \in DOMAIN new, NEW j \in DOMAIN new, new[i] = new[j]
        PROVE  i = j
    <3>1. CASE i \in 1 .. Len(old) /\ j \in 1 .. Len(old)
      BY <1>3, <1>4, <1>5, <2>1, <3>1
    <3>2. CASE i \in 1 .. Len(old) /\ j > Len(old)
      BY <1>3, <1>4, <1>5, <1>6, <2>1, <3>2
    <3>3. CASE i > Len(old) /\ j \in 1 .. Len(old)
      BY <1>3, <1>4, <1>5, <1>6, <2>1, <3>3
    <3>4. CASE i > Len(old) /\ j > Len(old)
      BY <1>3, <2>1, <3>4
    <3> QED
      BY <1>3, <3>1, <3>2, <3>3, <3>4
  <2> QED
    BY <1>2, <1>3, <2>1 DEF OnceInv, ChainsOnce, new
<1>8. CASE truck_pos < Len(data.trucks)
  <2>1. Enter("weights", truck_pos + 1) /\ truck_pos + 1 \in Trucks
    BY <1>1, <1>8, NextTruck DEF AddFirstWeightsEdges
  <2>2. pc' = "weights" /\ truck_pos' = truck_pos + 1
    BY <2>1 DEF Enter
  <2>3. \A t \in Trucks : t >= truck_pos + 1 => t > truck_pos /\ t # truck_pos /\ t >= truck_pos
    BY <1>1
  <2>4. NoneEmpty'
    BY <1>1, <1>2, <1>3, <2>2, <2>3 DEF OnceInv, NoneEmpty
  <2>5. \A t \in Trucks : t >= truck_pos + 1 =>
            \A i \in DOMAIN chains'[t] : chains'[t][i].free = {}
    BY <1>1, <1>3, <2>3 DEF OnceInv, WeightsOnce
  <2>6. MergeOnce' /\ WeightsOnce'
    BY <1>1, <1>7, <2>1, <2>4, <2>5, EnterOnce
  <2> QED
    BY <1>7, <2>4, <2>6 DEF OnceInv
<1>9. CASE ~(truck_pos < Len(data.trucks))
  <2>1. pc' = "rows"
    BY <1>9 DEF AddFirstWeightsEdges
  <2> QED
    BY <1>7, <2>1 DEF OnceInv, NoneEmpty, MergeOnce, WeightsOnce
<1> QED
  BY <1>8, <1>9

LEMMA OnceStep == ChainInv /\ ChainInv' /\ OnceInv /\ [Next]_vars => OnceInv'
<1> SUFFICES ASSUME ChainInv, ChainInv', OnceInv, [Next]_vars PROVE OnceInv'
  OBVIOUS
<1>1. /\ TypeOK /\ data \in Inputs /\ RoundOK'
      /\ chains \in [Trucks -> Seq(Chain)] /\ truck_pos \in Trucks
  BY DEF ChainInv, TypeOK
<1>2. CASE InitFirstEdge
  BY <1>1, <1>2, FirstKeepsOnce
<1>3. CASE MergeChain
  BY <1>3, MergeKeepsOnce
<1>4. CASE AddWeightsEdges
  BY <1>4, WeightsKeepOnce
<1>5. CASE AddFirstWeightsEdges
  BY <1>1, <1>5, FirstWeightsKeepOnce
<1>6. ASSUME UNCHANGED <<data, chains>> PROVE ChainsOnce' /\ Trucks' = Trucks
  BY <1>6 DEF OnceInv, ChainsOnce, Trucks
<1>7. CASE NextRound
  <2>1. /\ UNCHANGED <<data, chains, truck_pos, chain_pos>> /\ pc = "merge" /\ pc' = "merge"
    BY <1>7 DEF NextRound
  <2> QED
    BY <1>6, <2>1 DEF OnceInv, NoneEmpty, MergeOnce, WeightsOnce
<1>8. CASE MergeDone
  <2>1. UNCHANGED <<data, chains>> /\ pc = "merge"
    BY <1>8 DEF MergeDone
  <2>2. NoneEmpty'
    BY <1>6, <2>1 DEF OnceInv, NoneEmpty
  <2>3. \A t \in Trucks : \A i \in DOMAIN chains[t] : chains[t][i].free = {}
    <3>1. \A t \in Trucks : \A i \in DOMAIN chains[t] : chains[t][i] \in Chain
      BY <1>1
    <3> QED
      BY <2>1, <3>1 DEF ChainInv, ChainsOK, Has, ChainOK
  <2>4. PICK t \in Trucks, loop \in {"merge", "weights"} : Enter(loop, t)
    BY <1>1, <1>8, NextTruck DEF MergeDone
  <2>5. MergeOnce' /\ WeightsOnce'
    BY <1>1, <1>6, <2>1, <2>2, <2>3, <2>4, EnterOnce
  <2> QED
    BY <1>6, <2>1, <2>2, <2>5 DEF OnceInv
<1>9. CASE HighsSolves \/ HighsFails \/ ReadBack
  <2>1. UNCHANGED <<data, chains>> /\ pc' \notin {"first", "merge", "weights"}
    BY <1>9 DEF HighsSolves, HighsFails, ReadBack
  <2> QED
    BY <1>6, <2>1 DEF OnceInv, NoneEmpty, MergeOnce, WeightsOnce
<1>10. CASE Terminated \/ UNCHANGED vars
  <2>1. UNCHANGED <<data, chains, truck_pos, chain_pos, cur_size, pc>>
    BY <1>10 DEF Terminated, vars
  <2> QED
    BY <1>6, <2>1 DEF OnceInv, NoneEmpty, MergeOnce, WeightsOnce
<1> QED
  BY <1>2, <1>3, <1>4, <1>5, <1>7, <1>8, <1>9, <1>10 DEF Next

\* No truck has a chain twice, whatever the data and the greatest length: every turn
\* of Merge goes through a chain that no earlier turn has been through.
THEOREM NoChainTwice == Spec => []ChainsOnce
<1>1. Init => ChainInv /\ OnceInv
  BY InitInv, InitOnce
<1>2. ChainInv /\ OnceInv /\ [Next]_vars => (ChainInv /\ OnceInv)'
  <2> SUFFICES ASSUME ChainInv, OnceInv, [Next]_vars PROVE ChainInv' /\ OnceInv'
    OBVIOUS
  <2>1. ChainInv'
    BY TypeStep, ChainsStep, RoundStep, PickedStep DEF ChainInv
  <2> QED
    BY <2>1, OnceStep
<1>3. OnceInv => ChainsOnce
  BY DEF OnceInv
<1> QED
  BY <1>1, <1>2, <1>3, PTL DEF Spec

-----------------------------------------------------------------------------
(***************************************************************************)
(* Obligation orders in chains.  A round makes the chains it goes through  *)
(* longer and leaves chains that are one order longer than those, so that  *)
(* what the last round leaves are chains of the greatest length.           *)
(***************************************************************************)
\* The obligation orders that truck t can drive after a chain follow it in chains
\* of their own.
Continued(t, chain) ==
    \A o \in Successors(t, chain) : data.orders[o].obligation =>
        \E j \in DOMAIN chains[t] : chains[t][j].orders = Append(chain.orders, o)

FirstContinued ==
    \A t \in Trucks : pc # "first" \/ t < truck_pos => Continued(t, EmptyChain)

\* Merge has been through all rounds of the truck.
Merged(t) == pc \in {"weights", "rows"} \/ (pc = "merge" /\ t < truck_pos)

AllContinued ==
    \A t \in Trucks, chain \in Chain :
        Merged(t) /\ Has(t, chain) /\ Len(chain.orders) < mx_chain_len
            => Continued(t, chain)

PastContinued ==
    pc = "merge" =>
        \A t \in Trucks, chain \in Chain :
            t = truck_pos /\ (\E i \in 1 .. chain_pos : chains[t][i] = chain)
                => Continued(t, chain)

\* The chains that Merge has not been through are long enough for its round.
MergeLengths ==
    pc = "merge" =>
        \A i \in DOMAIN chains[truck_pos] :
            /\ i > chain_pos => Len(chains[truck_pos][i].orders) >= round + 1
            /\ i > cur_size => Len(chains[truck_pos][i].orders) >= round + 2

ContinuedInv == FirstContinued /\ AllContinued /\ PastContinued /\ MergeLengths

\* What follows a chain depends on its real orders only.
LEMMA SuccessorsSame ==
    ASSUME NEW t, NEW chain, NEW other, chain.orders = other.orders
    PROVE  Successors(t, chain) = Successors(t, other)
BY DEF Successors, ChainEnd, LastPos

LEMMA ContinuedSame ==
    ASSUME NEW t, NEW chain, NEW other, chain.orders = other.orders, Continued(t, chain)
    PROVE  Continued(t, other)
BY SuccessorsSame DEF Continued

LEMMA SuccessorsStay ==
    ASSUME data' = data
    PROVE  \A t, chain : Successors(t, chain)' = Successors(t, chain)
BY DEF Successors, ChainEnd, LastPos, Orders

\* Once there, chains are made longer by nothing and lose no real order.
LEMMA ContinuedStays ==
    ASSUME data' = data, NEW t, NEW chain, Continued(t, chain),
           \A j \in DOMAIN chains[t] : \E k \in DOMAIN chains'[t] :
               chains'[t][k].orders = chains[t][j].orders
    PROVE  Continued(t, chain)'
<1> SUFFICES ASSUME NEW o \in Successors(t, chain), data.orders[o].obligation
             PROVE  \E k \in DOMAIN chains'[t] :
                        chains'[t][k].orders = Append(chain.orders, o)
  BY SuccessorsStay DEF Continued
<1>1. PICK j \in DOMAIN chains[t] : chains[t][j].orders = Append(chain.orders, o)
  BY DEF Continued
<1>2. PICK k \in DOMAIN chains'[t] : chains'[t][k].orders = chains[t][j].orders
  OBVIOUS
<1> QED
  BY <1>1, <1>2

LEMMA InitContinued == Init => ContinuedInv
<1> SUFFICES ASSUME Init PROVE ContinuedInv
  OBVIOUS
<1>1. data \in Inputs /\ pc = "first" /\ truck_pos = 1
  BY DEF Init
<1>2. \A t \in Trucks : ~ (t < truck_pos)
  BY <1>1, DataFacts
<1> QED
  BY <1>1, <1>2 DEF ContinuedInv, FirstContinued, AllContinued, Merged, PastContinued,
                    MergeLengths

LEMMA EnterContinued ==
    ASSUME data \in Inputs, data' = data, chains' \in [Trucks -> Seq(Chain)], NoneEmpty',
           NEW t \in Trucks, NEW loop, Enter(loop, t)
    PROVE  PastContinued' /\ MergeLengths'
<1>1. /\ truck_pos' = t /\ round' = 0 /\ chain_pos' = 0 /\ pc' = loop
      /\ cur_size' = Len(chains'[t])
      /\ Trucks' = Trucks
  BY SameData DEF Enter
<1>2. PastContinued'
  BY <1>1 DEF PastContinued
<1>3. MergeLengths'
  <2> SUFFICES ASSUME pc' = "merge", NEW i \in DOMAIN chains'[t]
               PROVE  ~ (i > cur_size') /\ Len(chains'[t][i].orders) >= 1
    BY <1>1 DEF MergeLengths
  <2>1. i \in 1 .. Len(chains'[t]) /\ Len(chains'[t]) \in Nat /\ chains'[t][i] \in Chain
    OBVIOUS
  <2>2. chains'[t][i].orders # <<>>
    BY <1>1 DEF NoneEmpty
  <2>3. Len(chains'[t][i].orders) \in Nat /\ Len(chains'[t][i].orders) # 0
    BY <2>1, <2>2, ChainSize
  <2>4. \A n \in Nat : n # 0 => n >= 1
    OBVIOUS
  <2> QED
    BY <1>1, <2>1, <2>3, <2>4
<1> QED
  BY <1>2, <1>3

LEMMA FirstKeepsContinued ==
    ASSUME ChainInv, ContinuedInv, NoneEmpty', InitFirstEdge
    PROVE  ContinuedInv'
<1>1. /\ TypeOK /\ data \in Inputs /\ truck_pos \in Trucks /\ pc = "first"
      /\ data' = data
  BY DEF ChainInv, TypeOK, InitFirstEdge
<1>2. /\ chains' \in [Trucks -> Seq(Chain)]
      /\ Trucks' = Trucks /\ Chain' = Chain
      /\ Trucks = 1 .. Len(data.trucks) /\ Len(data.trucks) \in Nat
  BY <1>1, FirstOrigin, SameData, DataFacts
<1>3. \A t \in Trucks : t # truck_pos => chains'[t] = chains[t]
  BY <1>1, FirstShape
<1>5. ASSUME NEW t \in Trucks, t = truck_pos PROVE Continued(t, EmptyChain)'
  BY <1>1, <1>5, FirstShape, SuccessorsStay DEF Continued
<1>6. ASSUME NEW t \in Trucks, t < truck_pos PROVE Continued(t, EmptyChain)'
  <2>1. Continued(t, EmptyChain) /\ t # truck_pos
    BY <1>1, <1>2, <1>6 DEF ContinuedInv, FirstContinued
  <2> QED
    BY <1>1, <1>3, <2>1, ContinuedStays
<1>7. FirstContinued'
  <2> SUFFICES ASSUME NEW t \in Trucks, pc' # "first" \/ t < truck_pos'
               PROVE  Continued(t, EmptyChain)'
    BY <1>2 DEF FirstContinued
  <2>1. t <= truck_pos
    <3>1. CASE truck_pos < Len(data.trucks)
      <4>1. truck_pos' = truck_pos + 1 /\ pc' = "first"
        BY <3>1 DEF InitFirstEdge, Enter
      <4> QED
        BY <1>1, <1>2, <4>1
    <3>2. CASE ~ (truck_pos < Len(data.trucks))
      BY <1>1, <1>2, <3>2
    <3> QED
      BY <3>1, <3>2
  <2>2. t = truck_pos \/ t < truck_pos
    BY <1>1, <1>2, <2>1
  <2> QED
    BY <1>5, <1>6, <2>2
<1>8. PICK u \in Trucks, loop \in {"first", "merge", "weights"} : Enter(loop, u)
  BY <1>1, NextTruck DEF InitFirstEdge
<1>9. PastContinued' /\ MergeLengths'
  BY <1>1, <1>2, <1>8, EnterContinued
<1>10. AllContinued'
  <2> SUFFICES ASSUME NEW t \in Trucks, NEW chain \in Chain, Merged(t)',
                      Has(t, chain)', Len(chain.orders) < mx_chain_len
               PROVE  FALSE
    BY <1>2 DEF AllContinued
  <2>1. pc' = loop /\ truck_pos' = u
    BY <1>8 DEF Enter
  <2>2. CASE loop = "weights"
    <3>1. mx_chain_len = 1 /\ u = 1
      BY <1>1, <1>2, <2>1, <2>2, LengthAssumption DEF InitFirstEdge, Enter
    <3>2. chain.orders # <<>>
      BY <1>2, <2>1, <2>2, <3>1 DEF Has, NoneEmpty
    <3>3. Len(chain.orders) \in Nat /\ Len(chain.orders) # 0
      BY <1>1, <3>2, ChainSize
    <3> QED
      BY <3>1, <3>3
  <2>3. CASE loop = "merge"
    <3>1. u = 1 /\ t < u
      BY <2>1, <2>3 DEF InitFirstEdge, Enter, Merged
    <3> QED
      BY <1>2, <3>1
  <2>4. CASE loop = "first"
    BY <2>1, <2>4 DEF Merged
  <2> QED
    BY <2>2, <2>3, <2>4
<1> QED
  BY <1>7, <1>9, <1>10 DEF ContinuedInv

LEMMA MergeKeepsContinued ==
    ASSUME ChainInv, ContinuedInv, MergeChain
    PROVE  ContinuedInv'
<1> DEFINE old == chains[truck_pos]
           new == chains'[truck_pos]
           last == old[chain_pos + 1]
<1>1. /\ TypeOK /\ data \in Inputs /\ truck_pos \in Trucks /\ old \in Seq(Chain)
      /\ chain_pos \in Nat /\ round \in Nat /\ cur_size \in 0 .. Len(old)
      /\ pc = "merge" /\ pc' = "merge" /\ truck_pos' = truck_pos /\ round' = round
      /\ chain_pos' = chain_pos + 1 /\ data' = data /\ cur_size' = cur_size
  BY DEF ChainInv, TypeOK, MergeChain
<1>2. Trucks' = Trucks /\ Chain' = Chain /\ Trucks \in SUBSET Nat
  BY <1>1, SameData, DataFacts
<1>3. /\ chain_pos + 1 \in 1 .. Len(old) /\ last \in Chain
      /\ \A t \in Trucks : t # truck_pos => chains'[t] = chains[t]
      /\ \A i \in 1 .. Len(old) : i \in DOMAIN new /\ new[i] = old[i]
      /\ \A i \in DOMAIN new :
            \/ i \in 1 .. Len(old)
            \/ i > Len(old) /\ Longer(truck_pos, last, new[i])
  BY <1>1, MergeShape
<1>4. \A o \in Successors(truck_pos, last) : data.orders[o].obligation =>
         \E j \in DOMAIN new : new[j].orders = Append(last.orders, o)
  BY <1>1, MergeShape
<1>5. /\ DOMAIN old = 1 .. Len(old) /\ Len(old) \in Nat
      /\ \A i \in DOMAIN old : old[i] \in Chain
  BY <1>1
<1>6. ASSUME NEW t \in Trucks, NEW chain, Continued(t, chain)
      PROVE  Continued(t, chain)'
  <2>1. \A j \in DOMAIN chains[t] : \E k \in DOMAIN chains'[t] :
            chains'[t][k].orders = chains[t][j].orders
    <3>1. CASE t = truck_pos
      <4>1. \A j \in DOMAIN old : j \in DOMAIN new /\ new[j].orders = old[j].orders
        BY <1>3, <1>5
      <4> QED
        BY <3>1, <4>1
    <3>2. CASE t # truck_pos
      BY <1>3, <3>2
    <3> QED
      BY <3>1, <3>2
  <2> QED
    BY <1>1, <1>6, <2>1, ContinuedStays
<1>7. FirstContinued'
  BY <1>1, <1>2, <1>6 DEF ContinuedInv, FirstContinued
<1>8. AllContinued'
  <2> SUFFICES ASSUME NEW t \in Trucks, NEW chain \in Chain, Merged(t)',
                      Has(t, chain)', Len(chain.orders) < mx_chain_len
               PROVE  Continued(t, chain)'
    BY <1>2 DEF AllContinued
  <2>1. Merged(t) /\ t # truck_pos
    BY <1>1, <1>2 DEF Merged
  <2>2. Has(t, chain)
    BY <1>3, <2>1 DEF Has
  <2> QED
    BY <1>6, <2>1, <2>2 DEF ContinuedInv, AllContinued
<1>9. PastContinued'
  <2> SUFFICES ASSUME NEW t \in Trucks, NEW chain \in Chain, t = truck_pos,
                      NEW i \in 1 .. chain_pos + 1, new[i] = chain
               PROVE  Continued(t, chain)'
    BY <1>1, <1>2 DEF PastContinued
  <2>1. i \in 1 .. Len(old) /\ old[i] = chain
    BY <1>1, <1>3, <1>5
  <2>2. CASE i = chain_pos + 1
    BY <1>1, <1>4, <2>1, <2>2, SuccessorsStay DEF Continued
  <2>3. CASE i # chain_pos + 1
    <3>1. i \in 1 .. chain_pos
      BY <1>1, <2>3
    <3>2. Continued(t, chain)
      BY <1>1, <2>1, <3>1 DEF ContinuedInv, PastContinued
    <3> QED
      BY <1>6, <3>2
  <2> QED
    BY <2>2, <2>3
<1>10. MergeLengths'
  <2>1. \A i \in DOMAIN old : /\ i > chain_pos => Len(old[i].orders) >= round + 1
                              /\ i > cur_size => Len(old[i].orders) >= round + 2
    BY <1>1 DEF ContinuedInv, MergeLengths
  <2> SUFFICES ASSUME NEW i \in DOMAIN new
               PROVE  /\ i > chain_pos + 1 => Len(new[i].orders) >= round + 1
                      /\ i > cur_size => Len(new[i].orders) >= round + 2
    BY <1>1 DEF MergeLengths
  <2> HIDE DEF old, new, last
  <2>2. CASE i \in 1 .. Len(old)
    BY <1>1, <1>3, <1>5, <2>1, <2>2
  <2>3. CASE i > Len(old)
    <3>1. Longer(truck_pos, last, new[i])
      BY <1>3, <1>5, <2>3
    <3>2. Len(new[i].orders) = Len(last.orders) + 1
      BY <1>1, <1>3, <3>1, LongerSize
    <3>3. Len(last.orders) \in Nat
      BY <1>1, <1>3, ChainSize
    <3>4. Len(last.orders) >= round + 1
      BY <1>1, <1>3, <1>5, <2>1 DEF last
    <3>5. Len(new[i].orders) >= round + 2 /\ Len(new[i].orders) >= round + 1
      BY <1>1, <3>2, <3>3, <3>4
    <3> QED
      BY <3>5
  <2> QED
    BY <1>3, <2>2, <2>3
<1> QED
  BY <1>7, <1>8, <1>9, <1>10 DEF ContinuedInv

LEMMA RoundKeepsContinued ==
    ASSUME ChainInv, ContinuedInv, NextRound
    PROVE  ContinuedInv'
<1>1. /\ UNCHANGED <<data, chains, truck_pos, chain_pos>> /\ pc = "merge" /\ pc' = "merge"
      /\ round' = round + 1 /\ cur_size' = Len(chains[truck_pos]) /\ chain_pos = cur_size
      /\ round \in Nat /\ chain_pos \in Nat /\ chains[truck_pos] \in Seq(Chain)
      /\ data \in Inputs
  BY DEF NextRound, ChainInv, TypeOK
<1>2. Trucks' = Trucks /\ Chain' = Chain
  BY <1>1, SameData
<1>3. ASSUME NEW t \in Trucks, NEW chain, Continued(t, chain)
      PROVE  Continued(t, chain)'
  BY <1>1, <1>3, ContinuedStays
<1>4. FirstContinued' /\ AllContinued' /\ PastContinued'
  <2>1. FirstContinued'
    BY <1>1, <1>2, <1>3 DEF ContinuedInv, FirstContinued
  <2>2. AllContinued'
    BY <1>1, <1>2, <1>3 DEF ContinuedInv, AllContinued, Merged, Has
  <2>3. PastContinued'
    BY <1>1, <1>2, <1>3 DEF ContinuedInv, PastContinued
  <2> QED
    BY <2>1, <2>2, <2>3
<1>5. MergeLengths'
  <2> DEFINE old == chains[truck_pos]
  <2>1. /\ \A i \in DOMAIN old : i > cur_size => Len(old[i].orders) >= round + 2
        /\ DOMAIN old = 1 .. Len(old) /\ Len(old) \in Nat
    BY <1>1 DEF ContinuedInv, MergeLengths
  <2>2. \A i \in DOMAIN old : Len(old[i].orders) \in Nat
    BY <1>1, ChainSize
  <2>3. \A n \in Nat : n >= round + 2 => n >= (round + 1) + 1
    BY <1>1
  <2>4. \A i \in DOMAIN old : ~ (i > cur_size')
    BY <1>1, <2>1
  <2>5. \A i \in DOMAIN old : i > chain_pos => Len(old[i].orders) >= round' + 1
    BY <1>1, <2>1, <2>2, <2>3
  <2> QED
    BY <1>1, <2>4, <2>5 DEF MergeLengths
<1> QED
  BY <1>4, <1>5 DEF ContinuedInv

LEMMA MergeDoneKeepsContinued ==
    ASSUME ChainInv, ContinuedInv, NoneEmpty', MergeDone
    PROVE  ContinuedInv'
<1>1. /\ TypeOK /\ data \in Inputs /\ truck_pos \in Trucks /\ pc = "merge"
      /\ UNCHANGED <<data, chains>> /\ chains \in [Trucks -> Seq(Chain)]
      /\ round \in Nat /\ chain_pos \in Nat /\ chain_pos = cur_size
      /\ round + 1 >= n_times
  BY DEF ChainInv, TypeOK, MergeDone
<1>2. /\ Trucks' = Trucks /\ Chain' = Chain
      /\ Trucks = 1 .. Len(data.trucks) /\ Len(data.trucks) \in Nat
  BY <1>1, SameData, DataFacts
<1>3. ASSUME NEW t \in Trucks, NEW chain, Continued(t, chain)
      PROVE  Continued(t, chain)'
  BY <1>1, <1>3, ContinuedStays
<1>4. PICK u \in Trucks, loop \in {"merge", "weights"} : Enter(loop, u)
  BY <1>1, NextTruck DEF MergeDone
<1>5. PastContinued' /\ MergeLengths'
  BY <1>1, <1>2, <1>4, EnterContinued
<1>6. FirstContinued'
  BY <1>1, <1>2, <1>3 DEF ContinuedInv, FirstContinued
\* What the last round has not gone through has the greatest length.
<1>7. ASSUME NEW chain \in Chain, Has(truck_pos, chain), Len(chain.orders) < mx_chain_len
      PROVE  Continued(truck_pos, chain)
  <2>1. PICK i \in DOMAIN chains[truck_pos] : chains[truck_pos][i] = chain
    BY <1>7 DEF Has
  <2>2. i \in Nat \ {0}
    BY <1>1, <2>1
  <2>3. ~ (i > cur_size)
    <3>1. Len(chain.orders) \in Nat
      BY <1>1, ChainSize
    <3>2. i > cur_size => Len(chain.orders) >= round + 2
      BY <1>1, <2>1 DEF ContinuedInv, MergeLengths
    <3>3. round + 2 >= mx_chain_len /\ mx_chain_len \in Nat
      BY <1>1, LengthAssumption DEF n_times
    <3> QED
      BY <1>1, <1>7, <3>1, <3>2, <3>3
  <2>4. i \in 1 .. chain_pos
    BY <1>1, <2>2, <2>3
  <2> QED
    BY <1>1, <2>1, <2>4 DEF ContinuedInv, PastContinued
<1>8. AllContinued'
  <2> SUFFICES ASSUME NEW t \in Trucks, NEW chain \in Chain, Merged(t)',
                      Has(t, chain)', Len(chain.orders) < mx_chain_len
               PROVE  Continued(t, chain)
    BY <1>2, <1>3 DEF AllContinued
  <2>1. Has(t, chain)
    BY <1>1 DEF Has
  <2>2. t <= truck_pos
    <3>1. CASE truck_pos < Len(data.trucks)
      <4>1. truck_pos' = truck_pos + 1 /\ pc' = "merge"
        BY <3>1 DEF MergeDone, Enter
      <4> QED
        BY <1>1, <1>2, <4>1 DEF Merged
    <3>2. CASE ~ (truck_pos < Len(data.trucks))
      BY <1>1, <1>2, <3>2
    <3> QED
      BY <3>1, <3>2
  <2>3. CASE t = truck_pos
    BY <1>7, <2>1, <2>3
  <2>4. CASE t # truck_pos
    <3>1. Merged(t)
      BY <1>1, <1>2, <2>2, <2>4 DEF Merged
    <3> QED
      BY <2>1, <3>1 DEF ContinuedInv, AllContinued
  <2> QED
    BY <2>3, <2>4
<1> QED
  BY <1>5, <1>6, <1>8 DEF ContinuedInv

\* To close a chain changes no real order and makes no chain of other real orders.
LEMMA WeightsKeepContinued ==
    ASSUME ChainInv, ContinuedInv, AddWeightsEdges
    PROVE  ContinuedInv'
<1> DEFINE old == chains[truck_pos]
           new == chains'[truck_pos]
           closed == old[chain_pos + 1]
<1>1. /\ TypeOK /\ data \in Inputs /\ truck_pos \in Trucks /\ data' = data
      /\ pc = "weights" /\ pc' = "weights" /\ old \in Seq(Chain)
  BY DEF AddWeightsEdges, ChainInv, TypeOK
<1>2. Trucks' = Trucks /\ Chain' = Chain
  BY <1>1, SameData
<1>3. CASE chains' = chains
  <2>1. ASSUME NEW t \in Trucks, NEW chain, Continued(t, chain)
        PROVE  Continued(t, chain)'
    BY <1>1, <1>3, <2>1, ContinuedStays
  <2>2. FirstContinued'
    BY <1>1, <1>2, <2>1 DEF ContinuedInv, FirstContinued
  <2>3. AllContinued'
    BY <1>1, <1>2, <1>3, <2>1 DEF ContinuedInv, AllContinued, Merged, Has
  <2> QED
    BY <1>1, <2>2, <2>3 DEF ContinuedInv, PastContinued, MergeLengths
<1>4. CASE chains' # chains
  <2>1. /\ chain_pos + 1 \in 1 .. Len(old) /\ closed \in Chain
        /\ \A t \in Trucks : t # truck_pos => chains'[t] = chains[t]
        /\ \A i \in 1 .. Len(old) : i \in DOMAIN new
        /\ \A i \in DOMAIN new :
              \/ i \in 1 .. Len(old) /\ i # chain_pos + 1 /\ new[i] = old[i]
              \/ /\ ~ (i \in 1 .. Len(old) /\ i # chain_pos + 1)
                 /\ ClosedBy(truck_pos, closed, new[i])
    BY <1>1, <1>4, WeightsShape
  <2>2. DOMAIN old = 1 .. Len(old)
    BY <1>1
  <2> HIDE DEF old, new, closed
  <2>3. \A i \in DOMAIN new : \E j \in DOMAIN old :
            new[i].orders = old[j].orders /\ (i \in DOMAIN old => i = j)
    <3> SUFFICES ASSUME NEW i \in DOMAIN new
                 PROVE  \E j \in DOMAIN old :
                            new[i].orders = old[j].orders /\ (i \in DOMAIN old => i = j)
      OBVIOUS
    <3>1. CASE i \in 1 .. Len(old) /\ i # chain_pos + 1
      BY <2>1, <2>2, <3>1
    <3>2. CASE ~ (i \in 1 .. Len(old) /\ i # chain_pos + 1)
      <4>1. ClosedBy(truck_pos, closed, new[i])
        BY <2>1, <3>2
      <4>2. new[i].orders = closed.orders
        BY <1>1, <2>1, <4>1, ClosedByType
      <4> QED
        BY <2>1, <2>2, <3>2, <4>2 DEF closed
    <3> QED
      BY <3>1, <3>2
  <2>4. \A j \in DOMAIN old : \E k \in DOMAIN new : new[k].orders = old[j].orders
    BY <2>1, <2>2, <2>3
  <2>5. ASSUME NEW t \in Trucks, NEW chain, Continued(t, chain)
        PROVE  Continued(t, chain)'
    <3>1. \A j \in DOMAIN chains[t] : \E k \in DOMAIN chains'[t] :
              chains'[t][k].orders = chains[t][j].orders
      BY <2>1, <2>4 DEF old, new
    <3> QED
      BY <1>1, <2>5, <3>1, ContinuedStays
  <2>6. FirstContinued'
    BY <1>1, <1>2, <2>5 DEF ContinuedInv, FirstContinued
  <2>7. AllContinued'
    <3> SUFFICES ASSUME NEW t \in Trucks, NEW chain \in Chain,
                        Has(t, chain)', Len(chain.orders) < mx_chain_len
                 PROVE  Continued(t, chain)
      BY <1>2, <2>5 DEF AllContinued
    <3>1. PICK i \in DOMAIN chains'[t] : chains'[t][i] = chain
      BY DEF Has
    <3>2. PICK j \in DOMAIN chains[t] : chains[t][j].orders = chain.orders
      BY <2>1, <2>3, <3>1 DEF old, new
    <3>3. chains[t][j] \in Chain /\ Has(t, chains[t][j])
      BY <1>1 DEF TypeOK, Has
    <3>4. Continued(t, chains[t][j])
      BY <1>1, <3>2, <3>3 DEF ContinuedInv, AllContinued, Merged
    <3> QED
      BY <3>2, <3>4, ContinuedSame
  <2> QED
    BY <1>1, <2>6, <2>7 DEF ContinuedInv, PastContinued, MergeLengths
<1> QED
  BY <1>3, <1>4

LEMMA FirstWeightsKeepContinued ==
    ASSUME ChainInv, ContinuedInv, AddFirstWeightsEdges
    PROVE  ContinuedInv'
<1> DEFINE old == chains[truck_pos]
           new == chains'[truck_pos]
<1>1. /\ TypeOK /\ data \in Inputs /\ truck_pos \in Trucks /\ data' = data
      /\ pc = "weights" /\ pc' \in {"weights", "rows"} /\ old \in Seq(Chain)
      /\ EmptyChain \in Chain
  <2>1. pc' \in {"weights", "rows"} /\ pc = "weights" /\ data' = data
    BY DEF AddFirstWeightsEdges, Enter
  <2> QED
    BY <2>1, EmptyChainType DEF ChainInv, TypeOK
<1>2. Trucks' = Trucks /\ Chain' = Chain
  BY <1>1, SameData
<1>3. /\ \A t \in Trucks : t # truck_pos => chains'[t] = chains[t]
      /\ \A i \in 1 .. Len(old) : i \in DOMAIN new /\ new[i] = old[i]
      /\ \A i \in DOMAIN new :
            \/ i \in 1 .. Len(old)
            \/ i > Len(old) /\ ClosedBy(truck_pos, EmptyChain, new[i])
  BY <1>1, FirstWeightsShape
<1>4. DOMAIN old = 1 .. Len(old)
  BY <1>1
<1> HIDE DEF old, new
<1>5. ASSUME NEW t \in Trucks, NEW chain, Continued(t, chain)
      PROVE  Continued(t, chain)'
  <2>1. \A j \in DOMAIN chains[t] : \E k \in DOMAIN chains'[t] :
            chains'[t][k].orders = chains[t][j].orders
    BY <1>3, <1>4 DEF old, new
  <2> QED
    BY <1>1, <1>5, <2>1, ContinuedStays
<1>6. FirstContinued'
  BY <1>1, <1>2, <1>5 DEF ContinuedInv, FirstContinued
<1>7. AllContinued'
  <2> SUFFICES ASSUME NEW t \in Trucks, NEW chain \in Chain,
                      Has(t, chain)', Len(chain.orders) < mx_chain_len
               PROVE  Continued(t, chain)
    BY <1>2, <1>5 DEF AllContinued
  <2>1. PICK i \in DOMAIN chains'[t] : chains'[t][i] = chain
    BY DEF Has
  <2>2. CASE i \in DOMAIN chains[t] /\ chains[t][i] = chain
    <3>1. Has(t, chain) /\ Merged(t)
      BY <1>1, <2>2 DEF Has, Merged
    <3> QED
      BY <3>1 DEF ContinuedInv, AllContinued
  <2>3. CASE ~ (i \in DOMAIN chains[t] /\ chains[t][i] = chain)
    <3>1. t = truck_pos /\ ClosedBy(truck_pos, EmptyChain, chain)
      BY <1>3, <1>4, <2>1, <2>3 DEF old, new
    <3>2. chain.orders = EmptyChain.orders
      BY <1>1, <3>1, ClosedByType
    <3>3. Continued(t, EmptyChain)
      BY <1>1 DEF ContinuedInv, FirstContinued
    <3> QED
      BY <3>2, <3>3, ContinuedSame
  <2> QED
    BY <2>2, <2>3
<1> QED
  BY <1>1, <1>6, <1>7 DEF ContinuedInv, PastContinued, MergeLengths

LEMMA ContinuedStep ==
    ChainInv /\ OnceInv' /\ ContinuedInv /\ [Next]_vars => ContinuedInv'
<1> SUFFICES ASSUME ChainInv, OnceInv', ContinuedInv, [Next]_vars PROVE ContinuedInv'
  OBVIOUS
<1>1. data \in Inputs /\ NoneEmpty'
  BY DEF ChainInv, TypeOK, OnceInv
<1>2. CASE InitFirstEdge
  BY <1>1, <1>2, FirstKeepsContinued
<1>3. CASE MergeChain
  BY <1>3, MergeKeepsContinued
<1>4. CASE NextRound
  BY <1>4, RoundKeepsContinued
<1>5. CASE MergeDone
  BY <1>1, <1>5, MergeDoneKeepsContinued
<1>6. CASE AddWeightsEdges
  BY <1>6, WeightsKeepContinued
<1>7. CASE AddFirstWeightsEdges
  BY <1>7, FirstWeightsKeepContinued
<1>8. ASSUME UNCHANGED <<data, chains>> PROVE
      /\ Trucks' = Trucks /\ Chain' = Chain
      /\ \A t \in Trucks : \A chain : Continued(t, chain) => Continued(t, chain)'
  <2>1. Trucks' = Trucks /\ Chain' = Chain
    BY <1>1, <1>8, SameData
  <2>2. ASSUME NEW t \in Trucks, NEW chain, Continued(t, chain)
        PROVE  Continued(t, chain)'
    BY <1>8, <2>2, ContinuedStays
  <2> QED
    BY <2>1, <2>2
<1>9. CASE HighsSolves \/ HighsFails \/ ReadBack
  <2>1. /\ UNCHANGED <<data, chains>> /\ pc \in {"rows", "readback"}
        /\ pc' \in {"readback", "aborted", "done"}
    BY <1>9 DEF HighsSolves, HighsFails, ReadBack
  <2>2. FirstContinued'
    BY <1>8, <2>1 DEF ContinuedInv, FirstContinued
  <2> QED
    BY <2>1, <2>2 DEF ContinuedInv, AllContinued, Merged, PastContinued, MergeLengths
<1>10. CASE Terminated \/ UNCHANGED vars
  <2>1. UNCHANGED vars
    BY <1>10 DEF Terminated
  <2>2. UNCHANGED <<data, chains, truck_pos, round, chain_pos, cur_size, pc>>
    BY <2>1 DEF vars
  <2>3. FirstContinued'
    BY <1>8, <2>2 DEF ContinuedInv, FirstContinued
  <2>4. AllContinued'
    BY <1>8, <2>2 DEF ContinuedInv, AllContinued, Merged, Has
  <2>5. PastContinued'
    BY <1>8, <2>2 DEF ContinuedInv, PastContinued
  <2>6. MergeLengths'
    BY <2>2 DEF ContinuedInv, MergeLengths
  <2> QED
    BY <2>3, <2>4, <2>5, <2>6 DEF ContinuedInv
<1> QED
  BY <1>2, <1>3, <1>4, <1>5, <1>6, <1>7, <1>9, <1>10 DEF Next

\* Whatever the data and the greatest length, an obligation order that a truck can
\* drive after one of its chains is in a chain of its own: no round of Merge stops
\* before the chains it would have made longer, and none is dropped for what it pays.
THEOREM ObligationsInChains == Spec => []ObligationsExtended
<1>1. Init => ChainInv /\ OnceInv /\ ContinuedInv
  BY InitInv, InitOnce, InitContinued
<1>2. ChainInv /\ OnceInv /\ ContinuedInv /\ [Next]_vars
        => (ChainInv /\ OnceInv /\ ContinuedInv)'
  <2> SUFFICES ASSUME ChainInv, OnceInv, ContinuedInv, [Next]_vars
               PROVE  ChainInv' /\ OnceInv' /\ ContinuedInv'
    OBVIOUS
  <2>1. ChainInv'
    BY TypeStep, ChainsStep, RoundStep, PickedStep DEF ChainInv
  <2>2. OnceInv'
    BY <2>1, OnceStep
  <2> QED
    BY <2>1, <2>2, ContinuedStep
<1>3. ChainInv /\ ContinuedInv => ObligationsExtended
  <2> SUFFICES ASSUME ChainInv, ContinuedInv, pc \in {"weights", "rows"},
                      NEW t \in Trucks, NEW i \in DOMAIN chains[t],
                      Len(chains[t][i].orders) < mx_chain_len
               PROVE  Continued(t, chains[t][i])
    BY DEF ObligationsExtended, Continued
  <2>1. chains[t][i] \in Chain /\ Has(t, chains[t][i]) /\ Merged(t)
    BY DEF ChainInv, TypeOK, Has, Merged
  <2> QED
    BY <2>1 DEF ContinuedInv, AllContinued
<1> QED
  BY <1>1, <1>2, <1>3, PTL DEF Spec
==============================================================================

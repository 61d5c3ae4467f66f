---------------------------- MODULE Loading_proofs ----------------------------
(***************************************************************************)
(* Whatever the sheets hold, and in whatever order the two calls of        *)
(* squeeze_city are made for a road and std::sort leaves equal times: the  *)
(* ids are the places of the cities in the order in which they were met,   *)
(* what is held is typed, the parameters are the sheet's, no move of a     *)
(* truck changes but after an end that wraps, and no row is lost.          *)
(*                                                                         *)
(* RowsInv is the invariant behind the last two: it says, for every stage  *)
(* of the loading, what each truck, order and road is in terms of its row. *)
(***************************************************************************)
EXTENDS Loading, Sorting_proofs, SequenceTheorems

\* CitiesInverse, of the maps that squeeze_city is given.
MutualInverse(ids) ==
    /\ ids.cur \in Nat \ {0}
    /\ DOMAIN ids.to_real = 1 .. ids.cur - 1
    /\ \A id \in DOMAIN ids.to_real :
          /\ ids.to_real[id] \in DOMAIN ids.to_id
          /\ ids.to_id[ids.to_real[id]] = id
    /\ \A city \in DOMAIN ids.to_id :
          /\ ids.to_id[city] \in DOMAIN ids.to_real
          /\ ids.to_real[ids.to_id[city]] = city

CitiesInv == MutualInverse(Ids)

\* squeeze_city keeps the maps each other's inverse, and the city has an id then.
LEMMA SqueezeKeeps ==
    ASSUME NEW ids, NEW city, MutualInverse(ids)
    PROVE  MutualInverse(squeeze_city(ids, city))
<1>1. CASE city \in DOMAIN ids.to_id
  BY <1>1 DEF squeeze_city
<1>2. CASE city \notin DOMAIN ids.to_id
  <2> DEFINE new == squeeze_city(ids, city)
  <2>1. /\ new.cur = ids.cur + 1
        /\ new.to_id = Put(ids.to_id, city, ids.cur)
        /\ new.to_real = Put(ids.to_real, ids.cur, city)
    BY <1>2 DEF squeeze_city
  <2>2. ids.cur \in Nat \ {0} /\ ids.cur \notin DOMAIN ids.to_real
    BY DEF MutualInverse
  <2>3. /\ DOMAIN new.to_id = DOMAIN ids.to_id \cup {city}
        /\ new.to_id[city] = ids.cur
        /\ \A c \in DOMAIN ids.to_id : c # city => new.to_id[c] = ids.to_id[c]
    <3> HIDE DEF new
    <3> QED
      BY <2>1, <2>2 DEF Put
  <2>4. /\ DOMAIN new.to_real = DOMAIN ids.to_real \cup {ids.cur}
        /\ new.to_real[ids.cur] = city
        /\ \A i \in DOMAIN ids.to_real : i # ids.cur => new.to_real[i] = ids.to_real[i]
    <3> HIDE DEF new
    <3> QED
      BY <2>1, <2>2 DEF Put
  <2>5. new.cur \in Nat \ {0} /\ DOMAIN new.to_real = 1 .. new.cur - 1
    BY <2>1, <2>2, <2>4 DEF MutualInverse
  <2>6. ASSUME NEW id \in DOMAIN new.to_real
        PROVE  new.to_real[id] \in DOMAIN new.to_id /\ new.to_id[new.to_real[id]] = id
    <3>1. CASE id = ids.cur
      BY <3>1, <2>3, <2>4
    <3>2. CASE id # ids.cur
      <4>1. id \in DOMAIN ids.to_real /\ new.to_real[id] = ids.to_real[id]
        BY <3>2, <2>4
      <4>2. ids.to_real[id] \in DOMAIN ids.to_id /\ ids.to_id[ids.to_real[id]] = id
        BY <4>1 DEF MutualInverse
      <4> QED
        BY <4>1, <4>2, <2>3, <1>2
    <3> QED
      BY <3>1, <3>2
  <2>7. ASSUME NEW c \in DOMAIN new.to_id
        PROVE  new.to_id[c] \in DOMAIN new.to_real /\ new.to_real[new.to_id[c]] = c
    <3>1. CASE c = city
      BY <3>1, <2>3, <2>4
    <3>2. CASE c # city
      <4>1. c \in DOMAIN ids.to_id /\ new.to_id[c] = ids.to_id[c]
        BY <3>2, <2>3
      <4>2. ids.to_id[c] \in DOMAIN ids.to_real /\ ids.to_real[ids.to_id[c]] = c
        BY <4>1 DEF MutualInverse
      <4> QED
        BY <4>1, <4>2, <2>2, <2>4
    <3> QED
      BY <3>1, <3>2
  <2> QED
    BY <2>5, <2>6, <2>7 DEF MutualInverse
<1> QED
  BY <1>1, <1>2

LEMMA KeepsInverse ==
    ASSUME NEW ids, MutualInverse(ids), Keep(ids)
    PROVE  CitiesInv'
BY DEF Keep, MutualInverse, CitiesInv, Ids

LEMMA CitiesInit == Init => CitiesInv
<1> SUFFICES ASSUME Init PROVE CitiesInv
  OBVIOUS
<1>1. cur = 1 /\ DOMAIN id_to_real_city = {} /\ DOMAIN real_city_to_id = {}
  BY DEF Init, NoElements
<1> QED
  BY <1>1 DEF CitiesInv, MutualInverse, Ids

LEMMA CitiesNext == CitiesInv /\ [Next]_vars => CitiesInv'
<1> SUFFICES ASSUME CitiesInv, [Next]_vars PROVE CitiesInv'
  OBVIOUS
<1>1. CASE UNCHANGED squeezing
  BY <1>1 DEF squeezing, CitiesInv, Ids, MutualInverse
<1>2. CASE SqueezeTruck
  <2>1. Keep(squeeze_city(Ids, trucks[item].init_city))
    BY <1>2 DEF SqueezeTruck
  <2> QED
    BY <2>1, SqueezeKeeps, KeepsInverse DEF CitiesInv
<1>3. CASE SqueezeOrder
  <2> DEFINE from == squeeze_city(Ids, orders[item].from_city)
  <2>1. Keep(squeeze_city(from, orders[item].to_city))
    BY <1>3 DEF SqueezeOrder
  <2>2. MutualInverse(from)
    BY SqueezeKeeps DEF CitiesInv
  <2>3. MutualInverse(squeeze_city(from, orders[item].to_city))
    BY <2>2, SqueezeKeeps
  <2> QED
    BY <2>1, <2>3, KeepsInverse
<1>4. CASE SqueezeDist
  <2>1. PICK first, second : Keep(squeeze_city(squeeze_city(Ids, first), second))
    BY <1>4 DEF SqueezeDist
  <2>2. MutualInverse(squeeze_city(Ids, first))
    BY SqueezeKeeps DEF CitiesInv
  <2>3. MutualInverse(squeeze_city(squeeze_city(Ids, first), second))
    BY <2>2, SqueezeKeeps
  <2> QED
    BY <2>1, <2>3, KeepsInverse
<1>5. CASE SqueezeNext
  BY <1>5 DEF SqueezeNext, CitiesInv, Ids, MutualInverse
<1>6. CASE ReadParam \/ ReadTruck \/ ReadOrder \/ ReadDist \/ NextSheet
  BY <1>6, <1>1 DEF ReadParam, ReadTruck, ReadOrder, ReadDist, NextSheet
<1>7. CASE ShiftTimestamps \/ FilterTrucks \/ FilterOrders \/ Terminated \/ UNCHANGED vars
  BY <1>7, <1>1 DEF ShiftTimestamps, FilterTrucks, FilterOrders, Terminated, vars
<1> QED
  BY <1>2, <1>3, <1>4, <1>5, <1>6, <1>7 DEF Next

\* For all sheets, id_to_real_city and the ids that the data holds are each
\* other's inverse at every moment (SqueezeCitiesIds in data.cpp).
THEOREM CitiesCorrect == Spec => []CitiesInverse
<1>1. CitiesInv => CitiesInverse
  BY DEF CitiesInv, MutualInverse, Ids, CitiesInverse
<1> QED
  BY <1>1, CitiesInit, CitiesNext, PTL DEF Spec

-----------------------------------------------------------------------------
(***************************************************************************)
(* Types.                                                                  *)
(***************************************************************************)
LoadedOrder == [order_id : Nat \ {0}, obligation : BOOLEAN,
                start_time : Nat, finish_time : Nat,
                from_city : Nat, to_city : Nat,
                mask_load_type : SUBSET LoadType,
                mask_trailer_type : SUBSET FullMaskTrailerType]

\* A row that is being read is in its sheet, and none before it was empty.
InSheet(sheet, first) ==
    /\ row <= Len(sheet) + 1
    /\ \A i \in 1 .. row - 1 : sheet[i][first] # Empty

ReadingOK ==
    /\ pc = "params" => InSheet(file.params, "first")
    /\ pc = "trucks" => InSheet(file.trucks, "truck_id")
    /\ pc = "orders" => InSheet(file.orders, "order_id")
    /\ pc = "dists" => InSheet(file.dists, "from")

TypeInv == TypeOK /\ CitiesInv /\ IsFiniteSet(DOMAIN dists) /\ ReadingOK

LEMMA FileTypes ==
    ASSUME file \in Files
    PROVE  /\ file.params \in Seq(ParamRow) /\ file.trucks \in Seq(TruckRow)
           /\ file.orders \in Seq(OrderRow) /\ file.dists \in Seq(DistRow)
BY FilesAssumption

\* The masks of rows that do not end the process.
LEMMA MaskTypes ==
    /\ \A word \in DOMAIN LoadMasks : LoadMasks[word] \in SUBSET LoadType
    /\ \A words : GetMaskTrailerType(words) \in SUBSET FullMaskTrailerType
<1>1. DOMAIN LoadMasks = {"rear", "full", "side_rear", "top_rear"}
  BY DEF LoadMasks
<1>2. /\ LoadMasks["rear"] = {0} /\ LoadMasks["full"] = {3}
      /\ LoadMasks["side_rear"] = {0, 1} /\ LoadMasks["top_rear"] = {0, 2}
  BY DEF LoadMasks
<1>3. {0, 1, 2, 3} \subseteq LoadType
  BY DEF LoadType, LOAD_TYPE_COUNT
<1>4. 0 \in FullMaskTrailerType
  BY DEF FullMaskTrailerType
<1> QED
  BY <1>1, <1>2, <1>3, <1>4 DEF GetMaskTrailerType

LEMMA TruckOfType ==
    ASSUME NEW r \in TruckRow, TruckGiven(r), r.load_type \in DOMAIN LoadMasks
    PROVE  TruckOf(r) \in LoadedTruck
<1>1. r.truck_id \in Nat /\ r.init_time \in Nat /\ r.init_city \in Nat
  BY LimitsAssumption DEF TruckRow, TruckGiven, Number, Cell, TimeCell, Empty, Text
<1> QED
  BY <1>1, MaskTypes DEF TruckOf, LoadedTruck

LEMMA OrderOfType ==
    ASSUME NEW r \in OrderRow, OrderGiven(r), r.order_id # 0,
           r.load_type \in DOMAIN LoadMasks
    PROVE  OrderOf(r) \in LoadedOrder
<1>1. /\ r.order_id \in Nat /\ r.start_time \in Nat /\ r.finish_time \in Nat
      /\ r.from_city \in Nat /\ r.to_city \in Nat /\ r.obligation \in BOOLEAN
  BY LimitsAssumption DEF OrderRow, OrderGiven, Number, Cell, TimeCell, Empty, Text
<1> QED
  BY <1>1, MaskTypes DEF OrderOf, LoadedOrder

\* The least time is a time, and no later than any that is counted.
LEMMA LeastTime ==
    ASSUME NEW times \in SUBSET Nat
    PROVE  Least(times) \in Nat /\ \A time \in times : Least(times) <= time
<1> DEFINE all == times \cup {UIntRange - 1}
<1>1. all \in SUBSET Nat /\ all # {}
  BY LimitsAssumption
<1>2. \E m \in all : \A time \in all : m <= time
  <2> HIDE DEF all
  <2> QED
    BY <1>1, LeastNumber
<1>3. Least(times) \in all /\ \A time \in all : Least(times) <= time
  BY <1>2 DEF Least
<1> QED
  BY <1>1, <1>3

\* The places at which a time is before the bound.
EarlyPlaces(objects, time, bound) == {i \in DOMAIN objects : objects[i][time] < bound}

\* What a filter of main makes of a sequence: elements of it, the first ones before
\* the bound, as many as count.
LEMMA FirstBeforeOf ==
    ASSUME NEW T, NEW objects \in Seq(T), NEW time, NEW bound, NEW count \in Nat
    PROVE  LET places == EarlyPlaces(objects, time, bound)
               first == FirstBefore(objects, time, bound, count)
           IN  /\ first \in Seq(T)
               /\ Cardinality(places) \in Nat
               /\ Len(first) = IF Cardinality(places) < count
                               THEN Cardinality(places) ELSE count
               /\ \A i \in DOMAIN first : /\ i \in 1 .. Cardinality(places)
                                          /\ first[i] = objects[Ascending(places)[i]]
<1> DEFINE places == {i \in DOMAIN objects : objects[i][time] < bound}
           early == KeptAt(objects, places)
           first == FirstBefore(objects, time, bound, count)
           size == IF Cardinality(places) < count THEN Cardinality(places) ELSE count
<1>1. /\ early \in Seq(T) /\ Len(early) = Cardinality(places) /\ Cardinality(places) \in Nat
      /\ \A i \in 1 .. Cardinality(places) : early[i] = objects[Ascending(places)[i]]
  <2>1. places \in SUBSET DOMAIN objects
    OBVIOUS
  <2> HIDE DEF places
  <2> QED
    BY <2>1, KeptAtOf
<1>2. first = SubSeq(early, 1, size)
  <2>1. first = SubSeq(early, 1, IF Len(early) < count THEN Len(early) ELSE count)
    BY DEF FirstBefore
  <2> HIDE DEF first, early, places
  <2> QED
    BY <1>1, <2>1
<1>3. size \in Nat /\ size <= Len(early) /\ size <= Cardinality(places)
  <2> HIDE DEF early, places
  <2> QED
    BY <1>1
<1>4. /\ first \in Seq(T) /\ Len(first) = size
      /\ \A i \in 1 .. size : first[i] = early[i]
  <2> HIDE DEF first, early, places, size
  <2> QED
    BY <1>1, <1>2, <1>3
<1>5. ASSUME NEW i \in DOMAIN first
      PROVE  i \in 1 .. Cardinality(places) /\ first[i] = objects[Ascending(places)[i]]
  <2> HIDE DEF first, early, places, size
  <2>1. i \in 1 .. size
    BY <1>3, <1>4
  <2>2. i \in 1 .. Cardinality(places)
    BY <1>1, <1>3, <2>1
  <2> QED
    BY <1>1, <1>4, <2>1, <2>2
<1> HIDE DEF first, places
<1>6. /\ first \in Seq(T) /\ Cardinality(places) \in Nat /\ Len(first) = size
      /\ \A i \in DOMAIN first : /\ i \in 1 .. Cardinality(places)
                                 /\ first[i] = objects[Ascending(places)[i]]
  BY <1>1, <1>4, <1>5
<1>7. places = EarlyPlaces(objects, time, bound)
  BY DEF EarlyPlaces, places
<1> QED
  BY <1>6, <1>7 DEF first

\* xs is ys in another order.
Reordered(xs, ys) ==
    /\ DOMAIN xs = DOMAIN ys
    /\ \E f \in [DOMAIN ys -> DOMAIN ys] :
          /\ \A i, j \in DOMAIN ys : f[i] = f[j] => i = j
          /\ \A i \in DOMAIN ys : xs[i] = ys[f[i]]

\* Sorting changes the places only.
LEMMA SortedByTimeOf ==
    ASSUME NEW T, NEW objects \in Seq(T), NEW time, NEW sorted \in SortedByTime(objects, time)
    PROVE  sorted \in Seq(T) /\ Len(sorted) = Len(objects) /\ Reordered(sorted, objects)
<1>1. PICK f \in [DOMAIN objects -> DOMAIN objects] :
         /\ \A i, j \in DOMAIN objects : f[i] = f[j] => i = j
         /\ sorted = [i \in DOMAIN objects |-> objects[f[i]]]
  BY DEF SortedByTime
<1>2. Len(objects) \in Nat /\ DOMAIN objects = 1 .. Len(objects)
      /\ \A i \in DOMAIN objects : objects[i] \in T
  OBVIOUS
<1>3. sorted \in [1 .. Len(objects) -> T]
  BY <1>1, <1>2
<1>4. Reordered(sorted, objects)
  BY <1>1 DEF Reordered
<1> QED
  BY <1>2, <1>3, <1>4

-----------------------------------------------------------------------------
\* After squeeze_city the city has an id, and other ids are what they were.
LEMMA SqueezedIds ==
    ASSUME NEW ids, NEW city, MutualInverse(ids)
    PROVE  LET new == squeeze_city(ids, city)
           IN  /\ MutualInverse(new)
               /\ ids.cur \in Nat /\ new.cur \in Nat /\ ids.cur <= new.cur
               /\ city \in DOMAIN new.to_id
               /\ DOMAIN ids.to_id \subseteq DOMAIN new.to_id
               /\ \A c \in DOMAIN ids.to_id : new.to_id[c] = ids.to_id[c]
               /\ \A c \in DOMAIN new.to_id : new.to_id[c] \in 1 .. new.cur - 1
<1> DEFINE new == squeeze_city(ids, city)
<1>1. MutualInverse(new)
  BY SqueezeKeeps
<1>2. ids.cur \in Nat /\ new.cur \in Nat
  <2> HIDE DEF new
  <2> QED
    BY <1>1 DEF MutualInverse
<1>3. \A c \in DOMAIN new.to_id : new.to_id[c] \in 1 .. new.cur - 1
  <2> HIDE DEF new
  <2> QED
    BY <1>1 DEF MutualInverse
<1>4. CASE city \in DOMAIN ids.to_id
  BY <1>1, <1>2, <1>3, <1>4 DEF squeeze_city
<1>5. CASE city \notin DOMAIN ids.to_id
  <2>1. /\ new.cur = ids.cur + 1
        /\ new.to_id = Put(ids.to_id, city, ids.cur)
    BY <1>5 DEF squeeze_city
  <2>2. /\ DOMAIN new.to_id = DOMAIN ids.to_id \cup {city}
        /\ \A c \in DOMAIN ids.to_id : new.to_id[c] = ids.to_id[c]
    <3>1. /\ DOMAIN Put(ids.to_id, city, ids.cur) = DOMAIN ids.to_id \cup {city}
          /\ \A c \in DOMAIN ids.to_id :
                c # city => Put(ids.to_id, city, ids.cur)[c] = ids.to_id[c]
      BY DEF Put
    <3>2. \A c \in DOMAIN ids.to_id : c # city
      BY <1>5
    <3> HIDE DEF new
    <3> QED
      BY <2>1, <3>1, <3>2
  <2>3. ids.cur <= new.cur
    <3> HIDE DEF new
    <3> QED
      BY <1>2, <2>1
  <2> HIDE DEF new
  <2>4. city \in DOMAIN new.to_id /\ DOMAIN ids.to_id \subseteq DOMAIN new.to_id
    BY <2>2
  <2> QED
    BY <1>1, <1>2, <1>3, <2>2, <2>3, <2>4 DEF new
<1> QED
  BY <1>4, <1>5

\* The roads in the order of the map: each of them at one place.
LEMMA RoadsSorted ==
    ASSUME NEW roads \in SUBSET (Nat \X Nat), IsFiniteSet(roads)
    PROVE  LET N == 1 .. Cardinality(roads)
           IN  /\ Cardinality(roads) \in Nat
               /\ \A i \in N : Sorted(roads, Before)[i] \in roads
               /\ \A pair \in roads : \E i \in N : Sorted(roads, Before)[i] = pair
               /\ \A i, j \in N : Sorted(roads, Before)[i] = Sorted(roads, Before)[j] => i = j
<1> DEFINE below == [pair \in roads |-> {p \in roads : Before(p, pair)}]
           A == Sorted(roads, Before)
           N == 1 .. Cardinality(roads)
<1>1. Cardinality(roads) \in Nat
  BY FS_CardinalityType
<1>2. below \in [roads -> SUBSET roads]
  OBVIOUS
<1>3. \A p \in roads : p[1] \in Nat /\ p[2] \in Nat /\ p = <<p[1], p[2]>>
  OBVIOUS
<1>4. \A p, q \in roads : p \in below[q] <=> Before(p, q)
  OBVIOUS
<1>5. \A p \in roads : ~ Before(p, p)
  BY <1>3 DEF Before
<1>6. ASSUME NEW p \in roads, NEW q \in roads PROVE p = q \/ Before(p, q) \/ Before(q, p)
  <2>1. p[1] \in Nat /\ p[2] \in Nat /\ q[1] \in Nat /\ q[2] \in Nat
    BY <1>3
  <2>2. p[1] = q[1] /\ p[2] = q[2] => p = q
    BY <1>3
  <2> QED
    BY <2>1, <2>2 DEF Before
<1>7. \A p, q, r \in roads : Before(p, q) /\ Before(r, p) => Before(r, q)
  BY <1>3 DEF Before
<1>8. /\ \A x \in roads : x \notin below[x]
      /\ \A x, y \in roads : x = y \/ x \in below[y] \/ y \in below[x]
      /\ \A x, y \in roads : x \in below[y] => below[x] \subseteq below[y]
  <2> HIDE DEF below
  <2> QED
    BY <1>2, <1>4, <1>5, <1>6, <1>7
<1>9. /\ \A i \in N : \E x \in roads : Cardinality(below[x]) = i - 1
      /\ \A x \in roads : Cardinality(below[x]) \in 0 .. Cardinality(roads) - 1
      /\ \A x, y \in roads : Cardinality(below[x]) = Cardinality(below[y]) => x = y
  <2> HIDE DEF below
  <2> QED
    BY <1>2, <1>8, Ranks
<1>10. \A i \in N : A[i] \in roads /\ Cardinality(below[A[i]]) = i - 1
  <2> TAKE i \in N
  <2>1. A[i] = CHOOSE x \in roads : Cardinality({p \in roads : Before(p, x)}) = i - 1
    BY DEF Sorted
  <2>2. \A x \in roads : below[x] = {p \in roads : Before(p, x)}
    OBVIOUS
  <2>3. \E x \in roads : Cardinality({p \in roads : Before(p, x)}) = i - 1
    <3> HIDE DEF below
    <3> QED
      BY <1>9, <2>2
  <2>4. A[i] \in roads /\ Cardinality({p \in roads : Before(p, A[i])}) = i - 1
    <3> HIDE DEF A
    <3> QED
      BY <2>1, <2>3
  <2> HIDE DEF A, below
  <2> QED
    BY <2>2, <2>4
<1>11. ASSUME NEW pair \in roads PROVE \E i \in N : A[i] = pair
  <2> DEFINE i == Cardinality(below[pair]) + 1
  <2>1. i \in N /\ Cardinality(below[pair]) = i - 1
    BY <1>1, <1>9
  <2>2. Cardinality(below[A[i]]) = Cardinality(below[pair])
    <3> HIDE DEF A, below, i
    <3> QED
      BY <1>10, <2>1
  <2> HIDE DEF A, below, i
  <2> QED
    BY <1>9, <1>10, <2>1, <2>2
<1>12. ASSUME NEW i \in N, NEW j \in N, A[i] = A[j] PROVE i = j
  <2>1. i - 1 = j - 1
    <3> HIDE DEF A, below
    <3> QED
      BY <1>10, <1>12
  <2> QED
    BY <1>1, <2>1
<1> QED
  BY <1>1, <1>10, <1>11, <1>12

-----------------------------------------------------------------------------
LEMMA TypeInit == Init => TypeInv
<1> SUFFICES ASSUME Init PROVE TypeInv
  OBVIOUS
<1>1. CitiesInv
  BY CitiesInit
<1>2. DOMAIN NoElements = {} /\ NoElements \in [DOMAIN NoElements -> Nat]
  BY DEF NoElements
<1>3. trucks = <<>> /\ orders = <<>>
  BY DEF Init
<1>4. params \in [{ParamNames[i] : i \in DOMAIN ParamNames} -> Nat]
  BY DEF Init
<1>5. TypeOK
  BY <1>2, <1>3, <1>4 DEF Init, TypeOK
<1>6. IsFiniteSet(DOMAIN dists)
  BY <1>2, FS_EmptySet DEF Init
<1>7. ReadingOK
  <2>1. Len(file.params) \in Nat
    BY FileTypes DEF Init
  <2> QED
    BY <2>1 DEF Init, ReadingOK, InSheet
<1> QED
  BY <1>1, <1>5, <1>6, <1>7 DEF TypeInv

\* What a step that reads a row needs to know of it.
LEMMA RowInSheet ==
    ASSUME NEW T, NEW sheet \in Seq(T), NEW first,
           row \in Nat \ {0}, InSheet(sheet, first), ~EndOfSheet(sheet, first)
    PROVE  /\ row \in DOMAIN sheet /\ sheet[row] \in T
           /\ row' = row + 1 => InSheet(sheet, first)'
           /\ row' = row => InSheet(sheet, first)'
<1>1. row \in DOMAIN sheet /\ sheet[row][first] # Empty
  BY DEF EndOfSheet
<1>2. row \in 1 .. Len(sheet) /\ Len(sheet) \in Nat /\ sheet[row] \in T
  BY <1>1
<1>3. ASSUME row' = row + 1 PROVE InSheet(sheet, first)'
  <2>1. \A i \in 1 .. row' - 1 : i \in 1 .. row - 1 \/ i = row
    BY <1>2, <1>3
  <2>2. row' <= Len(sheet) + 1
    BY <1>2, <1>3
  <2> QED
    BY <1>1, <2>1, <2>2 DEF InSheet
<1>4. ASSUME row' = row PROVE InSheet(sheet, first)'
  BY <1>4 DEF InSheet
<1> QED
  BY <1>1, <1>2, <1>3, <1>4

LEMMA ReadParamType ==
    ASSUME TypeInv, CitiesInv', ReadParam
    PROVE  TypeInv'
<1>1. pc = "params" /\ ~EndOfSheet(file.params, "first") /\ file \in Files
  BY DEF ReadParam, TypeInv, TypeOK
<1>2. UNCHANGED <<file, trucks, orders, dists, min_timestamp, squeezing>>
  BY DEF ReadParam
<1>3. InSheet(file.params, "first") /\ row \in Nat \ {0}
  BY <1>1 DEF TypeInv, ReadingOK, TypeOK
<1> DEFINE r == file.params[row]
<1>4. r \in ParamRow
  BY <1>1, <1>3, FileTypes, RowInSheet
<1>5. \/ /\ Number(r.value) /\ row' = row + 1 /\ pc' = pc
         /\ params' = [n \in DOMAIN params |->
                          IF n \in Assigned(r.name) THEN r.value ELSE params[n]]
      \/ pc' = "aborted" /\ row' = row /\ params' = params
  BY DEF ReadParam
<1>6. params' \in [{ParamNames[i] : i \in DOMAIN ParamNames} -> Nat]
  <2>1. params \in [{ParamNames[i] : i \in DOMAIN ParamNames} -> Nat]
    BY DEF TypeInv, TypeOK
  <2>2. Number(r.value) => r.value \in Nat
    BY <1>4 DEF ParamRow, Cell, Number, Empty, Text
  <2> HIDE DEF r
  <2> QED
    BY <1>5, <2>1, <2>2
<1>7. row' \in Nat \ {0} /\ pc' \in {"params", "aborted"}
  BY <1>1, <1>3, <1>5
<1>8. ReadingOK'
  <2>1. InSheet(file.params, "first")'
    <3> DEFINE sheet == file.params
    <3>1. sheet \in Seq(ParamRow) /\ sheet' = sheet
      BY <1>1, <1>2, FileTypes
    <3>2. row' = row + 1 \/ row' = row
      BY <1>5
    <3> HIDE DEF sheet
    <3>3. InSheet(sheet, "first")'
      BY <1>1, <1>3, <3>1, <3>2, RowInSheet DEF sheet
    <3> QED
      BY <3>3 DEF sheet
  <2> QED
    BY <1>7, <2>1 DEF ReadingOK
<1>9. TypeOK'
  BY <1>2, <1>6, <1>7 DEF TypeInv, TypeOK, squeezing
<1> QED
  BY <1>2, <1>8, <1>9 DEF TypeInv

LEMMA ReadTruckType ==
    ASSUME TypeInv, CitiesInv', ReadTruck
    PROVE  TypeInv'
<1>1. pc = "trucks" /\ ~EndOfSheet(file.trucks, "truck_id") /\ file \in Files
  BY DEF ReadTruck, TypeInv, TypeOK
<1>2. UNCHANGED <<file, params, orders, dists, min_timestamp, squeezing>>
  BY DEF ReadTruck
<1>3. InSheet(file.trucks, "truck_id") /\ row \in Nat \ {0}
  BY <1>1 DEF TypeInv, ReadingOK, TypeOK
<1> DEFINE r == file.trucks[row]
<1>4. r \in TruckRow
  BY <1>1, <1>3, FileTypes, RowInSheet
<1>5. \/ /\ TruckGiven(r) => r.load_type \in DOMAIN LoadMasks
         /\ row' = row + 1 /\ pc' = pc
         /\ trucks' = IF TruckGiven(r) THEN Append(trucks, TruckOf(r)) ELSE trucks
      \/ pc' = "aborted" /\ row' = row /\ trucks' = trucks
  BY DEF ReadTruck, MasksReadable
<1>6. trucks' \in Seq(LoadedTruck)
  <2>1. trucks \in Seq(LoadedTruck)
    BY DEF TypeInv, TypeOK
  <2>2. TruckGiven(r) /\ r.load_type \in DOMAIN LoadMasks => TruckOf(r) \in LoadedTruck
    BY <1>4, TruckOfType
  <2> HIDE DEF r
  <2> QED
    BY <1>5, <2>1, <2>2
<1>7. row' \in Nat \ {0} /\ pc' \in {"trucks", "aborted"}
  BY <1>1, <1>3, <1>5
<1>8. ReadingOK'
  <2>1. InSheet(file.trucks, "truck_id")'
    BY <1>1, <1>2, <1>3, <1>5, FileTypes, RowInSheet DEF InSheet
  <2> QED
    BY <1>7, <2>1 DEF ReadingOK
<1>9. TypeOK'
  BY <1>2, <1>6, <1>7 DEF TypeInv, TypeOK, squeezing
<1> QED
  BY <1>2, <1>8, <1>9 DEF TypeInv

LEMMA ReadOrderType ==
    ASSUME TypeInv, CitiesInv', ReadOrder
    PROVE  TypeInv'
<1>1. pc = "orders" /\ ~EndOfSheet(file.orders, "order_id") /\ file \in Files
  BY DEF ReadOrder, TypeInv, TypeOK
<1>2. UNCHANGED <<file, params, trucks, dists, min_timestamp, squeezing>>
  BY DEF ReadOrder
<1>3. InSheet(file.orders, "order_id") /\ row \in Nat \ {0}
  BY <1>1 DEF TypeInv, ReadingOK, TypeOK
<1> DEFINE r == file.orders[row]
<1>4. r \in OrderRow
  BY <1>1, <1>3, FileTypes, RowInSheet
<1>5. \/ /\ OrderGiven(r) => r.order_id # 0 /\ r.load_type \in DOMAIN LoadMasks
         /\ row' = row + 1 /\ pc' = pc
         /\ orders' = IF OrderGiven(r) THEN Append(orders, OrderOf(r)) ELSE orders
      \/ pc' = "aborted" /\ row' = row /\ orders' = orders
  BY DEF ReadOrder, MasksReadable
<1>6. orders' \in Seq(LoadedOrder)
  <2>1. orders \in Seq(LoadedOrder)
    BY DEF TypeInv, TypeOK, LoadedOrder
  <2>2. OrderGiven(r) /\ r.order_id # 0 /\ r.load_type \in DOMAIN LoadMasks
          => OrderOf(r) \in LoadedOrder
    BY <1>4, OrderOfType
  <2> HIDE DEF r
  <2> QED
    BY <1>5, <2>1, <2>2
<1>7. row' \in Nat \ {0} /\ pc' \in {"orders", "aborted"}
  BY <1>1, <1>3, <1>5
<1>8. ReadingOK'
  <2>1. InSheet(file.orders, "order_id")'
    BY <1>1, <1>2, <1>3, <1>5, FileTypes, RowInSheet DEF InSheet
  <2> QED
    BY <1>7, <2>1 DEF ReadingOK
<1>9. TypeOK'
  BY <1>2, <1>6, <1>7 DEF TypeInv, TypeOK, squeezing, LoadedOrder
<1> QED
  BY <1>2, <1>8, <1>9 DEF TypeInv

\* An assignment to an element of a map from roads to metres.
LEMMA PutType ==
    ASSUME NEW map, DOMAIN map \subseteq Nat \X Nat, map \in [DOMAIN map -> Nat],
           IsFiniteSet(DOMAIN map), NEW key \in Nat \X Nat, NEW value \in Nat
    PROVE  /\ DOMAIN Put(map, key, value) \subseteq Nat \X Nat
           /\ Put(map, key, value) \in [DOMAIN Put(map, key, value) -> Nat]
           /\ IsFiniteSet(DOMAIN Put(map, key, value))
<1>1. DOMAIN Put(map, key, value) = DOMAIN map \cup {key}
  BY DEF Put
<1>2. IsFiniteSet(DOMAIN map \cup {key})
  BY FS_AddElement
<1>3. Put(map, key, value) \in [DOMAIN map \cup {key} -> Nat]
  BY DEF Put
<1> QED
  BY <1>1, <1>2, <1>3

LEMMA ReadDistType ==
    ASSUME TypeInv, CitiesInv', ReadDist
    PROVE  TypeInv'
<1>1. pc = "dists" /\ ~EndOfSheet(file.dists, "from") /\ file \in Files
  BY DEF ReadDist, TypeInv, TypeOK
<1>2. UNCHANGED <<file, params, trucks, orders, min_timestamp, squeezing, pc>> /\ row' = row + 1
  BY DEF ReadDist
<1>3. InSheet(file.dists, "from") /\ row \in Nat \ {0}
  BY <1>1 DEF TypeInv, ReadingOK, TypeOK
<1> DEFINE r == file.dists[row]
<1>4. r \in DistRow
  BY <1>1, <1>3, FileTypes, RowInSheet
<1>5. dists' = IF DistGiven(r) THEN Put(dists, <<r.from, r.to>>, r.d) ELSE dists
  BY DEF ReadDist
<1>6. /\ DOMAIN dists' \subseteq Nat \X Nat
      /\ dists' \in [DOMAIN dists' -> Nat]
      /\ IsFiniteSet(DOMAIN dists')
  <2>1. /\ DOMAIN dists \subseteq Nat \X Nat
        /\ dists \in [DOMAIN dists -> Nat]
        /\ IsFiniteSet(DOMAIN dists)
    BY DEF TypeInv, TypeOK
  <2>2. DistGiven(r) => r.from \in Nat /\ r.to \in Nat /\ r.d \in Nat
    BY <1>4 DEF DistGiven, DistRow, Cell, Number, Empty, Text
  <2>3. CASE DistGiven(r)
    <3> DEFINE key == <<r.from, r.to>>
    <3>1. key \in Nat \X Nat /\ r.d \in Nat
      BY <2>2, <2>3
    <3>2. dists' = Put(dists, key, r.d)
      BY <1>5, <2>3
    <3> HIDE DEF key, r
    <3> QED
      BY <2>1, <3>1, <3>2, PutType
  <2>4. CASE ~DistGiven(r)
    BY <1>5, <2>1, <2>4
  <2> QED
    BY <2>3, <2>4
<1>7. ReadingOK'
  <2>1. InSheet(file.dists, "from")'
    BY <1>1, <1>2, <1>3, FileTypes, RowInSheet DEF InSheet
  <2> QED
    BY <1>1, <1>2, <2>1 DEF ReadingOK
<1>8. TypeOK'
  BY <1>1, <1>2, <1>3, <1>6 DEF TypeInv, TypeOK, squeezing
<1> QED
  BY <1>6, <1>7, <1>8 DEF TypeInv

LEMMA NextSheetType ==
    ASSUME TypeInv, CitiesInv', NextSheet
    PROVE  TypeInv'
<1>1. /\ row' = 1 /\ pc' \in {"trucks", "orders", "dists", "shift"}
      /\ UNCHANGED <<file, loaded, min_timestamp, squeezing>>
  BY DEF NextSheet
<1>2. ReadingOK'
  <2>1. /\ Len(file.trucks) \in Nat /\ Len(file.orders) \in Nat /\ Len(file.dists) \in Nat
    BY FileTypes DEF TypeInv, TypeOK
  <2>2. \A i \in 1 .. row' - 1 : FALSE
    BY <1>1
  <2> QED
    BY <1>1, <2>1, <2>2 DEF ReadingOK, InSheet
<1>3. TypeOK'
  BY <1>1 DEF TypeInv, TypeOK, loaded, squeezing
<1> QED
  BY <1>1, <1>2, <1>3 DEF TypeInv, loaded

\* After the sheets are read, what is read of them does not matter.
LEMMA PastReading ==
    ASSUME pc' \notin {"params", "trucks", "orders", "dists"}
    PROVE  ReadingOK'
BY DEF ReadingOK

\* EarliestTime is no later than a truck or an order starts.
LEMMA EarliestTimeOf ==
    ASSUME trucks \in Seq(LoadedTruck), orders \in Seq(LoadedOrder)
    PROVE  /\ EarliestTime \in Nat
           /\ \A t \in DOMAIN trucks : EarliestTime <= trucks[t].init_time
           /\ \A o \in DOMAIN orders : EarliestTime <= orders[o].start_time
<1> DEFINE times == {trucks[t].init_time : t \in DOMAIN trucks}
                       \cup {orders[o].start_time : o \in DOMAIN orders}
<1>1. \A t \in DOMAIN trucks : trucks[t].init_time \in Nat
  <2>1. \A t \in DOMAIN trucks : trucks[t] \in LoadedTruck
    OBVIOUS
  <2> HIDE DEF times
  <2> QED
    BY <2>1 DEF LoadedTruck
<1>2. \A o \in DOMAIN orders : orders[o].start_time \in Nat
  <2>1. \A o \in DOMAIN orders : orders[o] \in LoadedOrder
    OBVIOUS
  <2> HIDE DEF times
  <2> QED
    BY <2>1 DEF LoadedOrder
<1>3. times \in SUBSET Nat
  BY <1>1, <1>2
<1>4. Least(times) \in Nat /\ \A time \in times : Least(times) <= time
  <2> HIDE DEF times
  <2> QED
    BY <1>3, LeastTime
<1>5. EarliestTime = Least(times)
  BY DEF EarliestTime
<1>6. \A t \in DOMAIN trucks : trucks[t].init_time \in times
  OBVIOUS
<1>7. \A o \in DOMAIN orders : orders[o].start_time \in times
  OBVIOUS
<1> HIDE DEF times
<1> QED
  BY <1>4, <1>5, <1>6, <1>7

LEMMA ShiftType ==
    ASSUME TypeInv, CitiesInv', ShiftTimestamps
    PROVE  TypeInv'
<1>1. /\ trucks \in Seq(LoadedTruck) /\ orders \in Seq(LoadedOrder)
  BY DEF TypeInv, TypeOK, LoadedOrder
<1>2. /\ min_timestamp' = EarliestTime
      /\ trucks' = [t \in DOMAIN trucks |-> [trucks[t] EXCEPT !.init_time = @ - EarliestTime]]
      /\ orders' = [o \in DOMAIN orders |-> Shifted(orders[o], EarliestTime)]
      /\ pc' = "squeeze_trucks"
      /\ UNCHANGED <<file, row, params, dists, squeezing>>
  BY DEF ShiftTimestamps
<1>3. /\ EarliestTime \in Nat
      /\ \A t \in DOMAIN trucks : EarliestTime <= trucks[t].init_time
      /\ \A o \in DOMAIN orders : EarliestTime <= orders[o].start_time
  BY <1>1, EarliestTimeOf
<1> DEFINE min == EarliestTime
<1> HIDE DEF min
<1>4. \A t \in DOMAIN trucks : [trucks[t] EXCEPT !.init_time = @ - min] \in LoadedTruck
  <2> TAKE t \in DOMAIN trucks
  <2>1. trucks[t] \in LoadedTruck
    BY <1>1
  <2>2. trucks[t].init_time - min \in Nat
    <3>1. trucks[t].init_time \in Nat /\ min \in Nat /\ min <= trucks[t].init_time
      BY <1>3, <2>1 DEF min, LoadedTruck
    <3> QED
      BY <3>1
  <2> QED
    BY <2>1, <2>2 DEF LoadedTruck
<1>5. \A o \in DOMAIN orders : Shifted(orders[o], min) \in LoadedOrder
  <2> TAKE o \in DOMAIN orders
  <2>1. orders[o] \in LoadedOrder
    BY <1>1
  <2>2. orders[o].start_time - min \in Nat
    <3>1. orders[o].start_time \in Nat /\ min \in Nat /\ min <= orders[o].start_time
      BY <1>3, <2>1 DEF min, LoadedOrder
    <3> QED
      BY <3>1
  <2>3. (orders[o].finish_time - min) % UIntRange \in Nat
    <3>1. orders[o].finish_time \in Nat /\ min \in Nat
      BY <1>3, <2>1 DEF min, LoadedOrder
    <3>2. orders[o].finish_time - min \in Int
      BY <3>1
    <3> QED
      BY <3>2, LimitsAssumption
  <2> QED
    BY <2>1, <2>2, <2>3 DEF LoadedOrder, Shifted
<1>6. trucks' \in Seq(LoadedTruck)
  <2>1. trucks' = [t \in 1 .. Len(trucks) |-> [trucks[t] EXCEPT !.init_time = @ - min]]
    BY <1>1, <1>2 DEF min
  <2>2. trucks' \in [1 .. Len(trucks) -> LoadedTruck]
    BY <1>1, <1>4, <2>1
  <2> QED
    BY <1>1, <2>2
<1>7. orders' \in Seq(LoadedOrder)
  <2>1. orders' = [o \in 1 .. Len(orders) |-> Shifted(orders[o], min)]
    BY <1>1, <1>2 DEF min
  <2>2. orders' \in [1 .. Len(orders) -> LoadedOrder]
    BY <1>1, <1>5, <2>1
  <2> QED
    BY <1>1, <2>2
<1>8. TypeOK'
  BY <1>2, <1>3, <1>6, <1>7 DEF TypeInv, TypeOK, LoadedOrder, squeezing
<1> QED
  BY <1>2, <1>8, PastReading DEF TypeInv

\* The ids in squeezed_dists stay ids.
LEMMA SqueezedType ==
    ASSUME TypeOK, cur' \in Nat, cur <= cur', UNCHANGED squeezed_dists
    PROVE  /\ (DOMAIN squeezed_dists \subseteq (1 .. cur - 1) \X (1 .. cur - 1))'
           /\ (squeezed_dists \in [DOMAIN squeezed_dists -> Nat])'
<1>1. cur \in Nat /\ DOMAIN squeezed_dists \subseteq (1 .. cur - 1) \X (1 .. cur - 1)
  BY DEF TypeOK
<1>2. 1 .. cur - 1 \subseteq 1 .. cur' - 1
  BY <1>1
<1>3. DOMAIN squeezed_dists \subseteq (1 .. cur' - 1) \X (1 .. cur' - 1)
  BY <1>1, <1>2
<1> QED
  BY <1>3 DEF TypeOK

LEMMA SqueezeTruckType ==
    ASSUME TypeInv, CitiesInv', SqueezeTruck
    PROVE  TypeInv'
<1> DEFINE city == trucks[item].init_city
           ids == squeeze_city(Ids, city)
<1>1. /\ pc = "squeeze_trucks" /\ item <= Len(trucks)
      /\ Keep(ids) /\ trucks' = [trucks EXCEPT ![item].init_city = ids.to_id[@]]
      /\ item' = item + 1
      /\ UNCHANGED <<file, row, params, orders, dists, min_timestamp, squeezed_dists, pc>>
  BY DEF SqueezeTruck
<1>2. trucks \in Seq(LoadedTruck) /\ item \in Nat \ {0} /\ item \in DOMAIN trucks
  BY <1>1 DEF TypeInv, TypeOK
<1>3. /\ ids.cur \in Nat /\ Ids.cur <= ids.cur
      /\ city \in DOMAIN ids.to_id
      /\ \A c \in DOMAIN ids.to_id : ids.to_id[c] \in 1 .. ids.cur - 1
  <2>1. MutualInverse(Ids)
    BY DEF TypeInv, CitiesInv
  <2> QED
    BY <2>1, SqueezedIds
<1>4. cur' \in Nat /\ cur <= cur' /\ ids.to_id[city] \in Nat
  <2> HIDE DEF city, ids
  <2> QED
    BY <1>1, <1>3 DEF Keep, Ids
<1>5. trucks' \in Seq(LoadedTruck)
  <2>1. [trucks[item] EXCEPT !.init_city = ids.to_id[city]] \in LoadedTruck
    <3> HIDE DEF ids, city
    <3>1. trucks[item] \in LoadedTruck
      BY <1>2
    <3> QED
      BY <3>1, <1>4 DEF LoadedTruck
  <2>2. trucks' = [trucks EXCEPT ![item] = [trucks[item] EXCEPT !.init_city = ids.to_id[city]]]
    BY <1>1, <1>2
  <2> HIDE DEF ids, city
  <2> QED
    BY <1>2, <2>1, <2>2, ExceptSeq
<1>6. cur' \in Nat \ {0}
  BY DEF CitiesInv, MutualInverse, Ids
<1>7. TypeOK'
  <2>1. /\ (DOMAIN squeezed_dists \subseteq (1 .. cur - 1) \X (1 .. cur - 1))'
        /\ (squeezed_dists \in [DOMAIN squeezed_dists -> Nat])'
    BY <1>1, <1>4, SqueezedType DEF TypeInv
  <2>2. item' \in Nat \ {0}
    BY <1>1, <1>2
  <2> HIDE DEF ids, city
  <2> QED
    BY <1>1, <1>5, <1>6, <2>1, <2>2 DEF TypeInv, TypeOK
<1> QED
  BY <1>1, <1>7, PastReading DEF TypeInv

\* The same of two calls.
LEMMA TwoSqueezed ==
    ASSUME NEW ids, NEW a, NEW b, MutualInverse(ids)
    PROVE  LET new == squeeze_city(squeeze_city(ids, a), b)
           IN  /\ MutualInverse(new)
               /\ ids.cur \in Nat /\ new.cur \in Nat /\ ids.cur <= new.cur
               /\ a \in DOMAIN new.to_id /\ b \in DOMAIN new.to_id
               /\ DOMAIN ids.to_id \subseteq DOMAIN new.to_id
               /\ \A c \in DOMAIN ids.to_id : new.to_id[c] = ids.to_id[c]
               /\ \A c \in DOMAIN new.to_id : new.to_id[c] \in 1 .. new.cur - 1
<1> DEFINE mid == squeeze_city(ids, a)
           new == squeeze_city(mid, b)
<1>1. /\ MutualInverse(mid)
      /\ ids.cur \in Nat /\ mid.cur \in Nat /\ ids.cur <= mid.cur
      /\ a \in DOMAIN mid.to_id
      /\ DOMAIN ids.to_id \subseteq DOMAIN mid.to_id
      /\ \A c \in DOMAIN ids.to_id : mid.to_id[c] = ids.to_id[c]
  BY SqueezedIds
<1>2. /\ MutualInverse(new)
      /\ new.cur \in Nat /\ mid.cur <= new.cur
      /\ b \in DOMAIN new.to_id
      /\ DOMAIN mid.to_id \subseteq DOMAIN new.to_id
      /\ \A c \in DOMAIN mid.to_id : new.to_id[c] = mid.to_id[c]
      /\ \A c \in DOMAIN new.to_id : new.to_id[c] \in 1 .. new.cur - 1
  <2> HIDE DEF mid
  <2> QED
    BY <1>1, SqueezedIds
<1>3. /\ MutualInverse(new)
      /\ ids.cur \in Nat /\ new.cur \in Nat /\ ids.cur <= new.cur
      /\ a \in DOMAIN new.to_id /\ b \in DOMAIN new.to_id
      /\ DOMAIN ids.to_id \subseteq DOMAIN new.to_id
      /\ \A c \in DOMAIN ids.to_id : new.to_id[c] = ids.to_id[c]
      /\ \A c \in DOMAIN new.to_id : new.to_id[c] \in 1 .. new.cur - 1
  <2> HIDE DEF mid, new
  <2>1. ids.cur <= new.cur
    BY <1>1, <1>2
  <2>2. \A c \in DOMAIN ids.to_id : c \in DOMAIN mid.to_id
    BY <1>1
  <2> QED
    BY <1>1, <1>2, <2>1, <2>2
<1> QED
  BY <1>3

LEMMA SqueezeOrderType ==
    ASSUME TypeInv, CitiesInv', SqueezeOrder
    PROVE  TypeInv'
<1> DEFINE from == orders[item].from_city
           to == orders[item].to_city
           ids == squeeze_city(squeeze_city(Ids, from), to)
<1>1. /\ pc = "squeeze_orders" /\ item <= Len(orders)
      /\ Keep(ids)
      /\ orders' = [orders EXCEPT ![item].from_city = ids.to_id[@],
                                  ![item].to_city = ids.to_id[@]]
      /\ item' = item + 1
      /\ UNCHANGED <<file, row, params, trucks, dists, min_timestamp, squeezed_dists, pc>>
  BY DEF SqueezeOrder
<1>2. orders \in Seq(LoadedOrder) /\ item \in Nat \ {0} /\ item \in DOMAIN orders
  BY <1>1 DEF TypeInv, TypeOK, LoadedOrder
<1>3. /\ ids.cur \in Nat /\ Ids.cur <= ids.cur
      /\ from \in DOMAIN ids.to_id /\ to \in DOMAIN ids.to_id
      /\ \A c \in DOMAIN ids.to_id : ids.to_id[c] \in 1 .. ids.cur - 1
  <2>1. MutualInverse(Ids)
    BY DEF TypeInv, CitiesInv
  <2> QED
    BY <2>1, TwoSqueezed
<1>4. /\ cur' \in Nat /\ cur <= cur'
      /\ ids.to_id[from] \in Nat /\ ids.to_id[to] \in Nat
  <2> HIDE DEF from, to, ids
  <2> QED
    BY <1>1, <1>3 DEF Keep, Ids
<1>5. orders' \in Seq(LoadedOrder)
  <2> DEFINE new == [orders[item] EXCEPT !.from_city = ids.to_id[from],
                                         !.to_city = ids.to_id[to]]
  <2>1. new \in LoadedOrder
    <3> HIDE DEF ids, from, to
    <3>1. orders[item] \in LoadedOrder
      BY <1>2
    <3> QED
      BY <3>1, <1>4 DEF LoadedOrder
  <2>2. orders' = [orders EXCEPT ![item] = new]
    <3>1. orders[item] \in LoadedOrder
      BY <1>2
    <3> HIDE DEF ids
    <3> QED
      BY <1>1, <1>2, <3>1 DEF LoadedOrder
  <2> HIDE DEF new
  <2> QED
    BY <1>2, <2>1, <2>2, ExceptSeq
<1>6. cur' \in Nat \ {0}
  BY DEF CitiesInv, MutualInverse, Ids
<1>7. /\ (DOMAIN squeezed_dists \subseteq (1 .. cur - 1) \X (1 .. cur - 1))'
      /\ (squeezed_dists \in [DOMAIN squeezed_dists -> Nat])'
  <2> HIDE DEF from, to, ids
  <2> QED
    BY <1>1, <1>4, SqueezedType DEF TypeInv
<1>8. TypeOK'
  <2>1. /\ item' \in Nat \ {0} /\ pc' = pc
        /\ UNCHANGED <<file, row, params, trucks, dists, min_timestamp>>
    BY <1>1, <1>2
  <2> QED
    BY ONLY TypeInv, <1>5, <1>6, <1>7, <2>1 DEF TypeInv, TypeOK, LoadedOrder
<1> QED
  BY <1>1, <1>8, PastReading DEF TypeInv

LEMMA SqueezeDistType ==
    ASSUME TypeInv, CitiesInv', SqueezeDist
    PROVE  TypeInv'
<1> DEFINE pair == Sorted(DOMAIN dists, Before)[item]
<1>1. /\ pc = "squeeze_dists" /\ item <= Cardinality(DOMAIN dists) /\ item' = item + 1
      /\ UNCHANGED <<file, row, loaded, min_timestamp, pc>>
  BY DEF SqueezeDist
<1>2. PICK first, second :
         LET ids == squeeze_city(squeeze_city(Ids, first), second)
             key == <<ids.to_id[pair[1]], ids.to_id[pair[2]]>>
         IN /\ {first, second} = {pair[1], pair[2]}
            /\ Keep(ids)
            /\ squeezed_dists' = IF key \in DOMAIN squeezed_dists
                                 THEN squeezed_dists
                                 ELSE Put(squeezed_dists, key, dists[pair])
  BY DEF SqueezeDist
<1> DEFINE ids == squeeze_city(squeeze_city(Ids, first), second)
           key == <<ids.to_id[pair[1]], ids.to_id[pair[2]]>>
<1>3. /\ item \in Nat \ {0} /\ IsFiniteSet(DOMAIN dists) /\ dists \in [DOMAIN dists -> Nat]
      /\ DOMAIN dists \in SUBSET (Nat \X Nat)
  BY DEF TypeInv, TypeOK
<1>4. pair \in DOMAIN dists
  <2>1. item \in 1 .. Cardinality(DOMAIN dists)
    BY <1>1, <1>3, FS_CardinalityType
  <2> QED
    BY <1>3, <2>1, RoadsSorted
<1> HIDE DEF pair
<1>5. /\ ids.cur \in Nat /\ Ids.cur <= ids.cur
      /\ first \in DOMAIN ids.to_id /\ second \in DOMAIN ids.to_id
      /\ \A c \in DOMAIN ids.to_id : ids.to_id[c] \in 1 .. ids.cur - 1
  <2>1. MutualInverse(Ids)
    BY DEF TypeInv, CitiesInv
  <2> QED
    BY <2>1, TwoSqueezed
<1>6. /\ Keep(ids)
      /\ squeezed_dists' = IF key \in DOMAIN squeezed_dists
                           THEN squeezed_dists ELSE Put(squeezed_dists, key, dists[pair])
      /\ pair[1] \in {first, second} /\ pair[2] \in {first, second}
  <2>1. {first, second} = {pair[1], pair[2]}
    BY <1>2
  <2> QED
    BY <1>2, <2>1
<1> HIDE DEF ids
<1>7. cur' = ids.cur /\ cur' \in Nat /\ cur <= cur' /\ key \in (1 .. cur' - 1) \X (1 .. cur' - 1)
  <2>1. pair[1] \in DOMAIN ids.to_id /\ pair[2] \in DOMAIN ids.to_id
    BY <1>5, <1>6
  <2> QED
    BY <1>5, <1>6, <2>1 DEF Keep, Ids
<1>8. /\ DOMAIN squeezed_dists' \subseteq (1 .. cur' - 1) \X (1 .. cur' - 1)
      /\ squeezed_dists' \in [DOMAIN squeezed_dists' -> Nat]
  <2>1. /\ cur \in Nat
        /\ DOMAIN squeezed_dists \subseteq (1 .. cur - 1) \X (1 .. cur - 1)
        /\ squeezed_dists \in [DOMAIN squeezed_dists -> Nat]
    BY DEF TypeInv, TypeOK
  <2>2. 1 .. cur - 1 \subseteq 1 .. cur' - 1
    BY <1>7, <2>1
  <2>3. DOMAIN squeezed_dists \subseteq (1 .. cur' - 1) \X (1 .. cur' - 1)
    BY <2>1, <2>2
  <2>4. dists[pair] \in Nat
    BY <1>3, <1>4
  <2> HIDE DEF key
  <2>5. CASE key \in DOMAIN squeezed_dists
    BY <1>6, <2>1, <2>3, <2>5
  <2>6. CASE key \notin DOMAIN squeezed_dists
    <3>1. squeezed_dists' = Put(squeezed_dists, key, dists[pair])
      BY <1>6, <2>6
    <3>2. DOMAIN squeezed_dists' = DOMAIN squeezed_dists \cup {key}
      BY <3>1 DEF Put
    <3>3. squeezed_dists' \in [DOMAIN squeezed_dists \cup {key} -> Nat]
      BY <2>1, <2>4, <3>1 DEF Put
    <3> QED
      BY <1>7, <2>3, <3>2, <3>3
  <2> QED
    BY <2>5, <2>6
<1>9. cur' \in Nat \ {0}
  BY DEF CitiesInv, MutualInverse, Ids
<1>10. TypeOK'
  BY <1>1, <1>3, <1>8, <1>9 DEF TypeInv, TypeOK, loaded
<1> QED
  BY <1>1, <1>10, PastReading DEF TypeInv, loaded

LEMMA SqueezeNextType ==
    ASSUME TypeInv, CitiesInv', SqueezeNext
    PROVE  TypeInv'
<1>1. /\ pc' \in {"squeeze_orders", "squeeze_dists", "filter"} /\ item' = 1
      /\ dists' = dists \/ dists' = squeezed_dists
      /\ UNCHANGED <<file, row, params, trucks, orders, min_timestamp, id_to_real_city,
                     real_city_to_id, cur, squeezed_dists>>
  BY DEF SqueezeNext
<1>2. /\ DOMAIN squeezed_dists \subseteq Nat \X Nat
      /\ IsFiniteSet(DOMAIN squeezed_dists)
  <2>1. /\ cur \in Nat \ {0}
        /\ DOMAIN squeezed_dists \subseteq (1 .. cur - 1) \X (1 .. cur - 1)
    BY DEF TypeInv, TypeOK
  <2>2. 1 .. cur - 1 \subseteq Nat /\ IsFiniteSet(1 .. cur - 1)
    BY <2>1, FS_Interval
  <2>3. IsFiniteSet((1 .. cur - 1) \X (1 .. cur - 1))
    BY <2>2, FS_Product
  <2> QED
    BY <2>1, <2>2, <2>3, FS_Subset
<1>3. TypeOK'
  BY <1>1, <1>2 DEF TypeInv, TypeOK
<1>4. IsFiniteSet(DOMAIN dists)'
  BY <1>1, <1>2 DEF TypeInv
<1> QED
  BY <1>1, <1>3, <1>4, PastReading DEF TypeInv

LEMMA FilterTrucksType ==
    ASSUME TypeInv, CitiesInv', FilterTrucks
    PROVE  TypeInv'
<1> DEFINE first == FirstBefore(trucks, "init_time", TruckTimeBound, MaxTrucks)
<1>1. /\ trucks' \in SortedByTime(first, "init_time") /\ pc' = "filter_orders"
      /\ UNCHANGED <<file, row, params, orders, dists, min_timestamp, squeezing>>
  BY DEF FilterTrucks
<1>2. trucks \in Seq(LoadedTruck)
  BY DEF TypeInv, TypeOK
<1>3. first \in Seq(LoadedTruck)
  BY <1>2, FirstBeforeOf, LimitsAssumption
<1>4. trucks' \in Seq(LoadedTruck)
  <2> HIDE DEF first
  <2> QED
    BY <1>1, <1>3, SortedByTimeOf
<1>5. TypeOK'
  BY <1>1, <1>4 DEF TypeInv, TypeOK, squeezing
<1> QED
  BY <1>1, <1>5, PastReading DEF TypeInv

LEMMA FilterOrdersType ==
    ASSUME TypeInv, CitiesInv', FilterOrders
    PROVE  TypeInv'
<1> DEFINE first == FirstBefore(orders, "start_time", OrderTimeBound, MaxOrders)
<1>1. PICK filtered \in SortedByTime(first, "start_time") :
         orders' = [o \in DOMAIN filtered |-> [filtered[o] EXCEPT !.obligation = FALSE]]
  BY DEF FilterOrders
<1>2. /\ pc' = "solve"
      /\ UNCHANGED <<file, row, params, trucks, dists, min_timestamp, squeezing>>
  BY DEF FilterOrders
<1>3. orders \in Seq(LoadedOrder)
  BY DEF TypeInv, TypeOK, LoadedOrder
<1>4. first \in Seq(LoadedOrder)
  BY <1>3, FirstBeforeOf, LimitsAssumption
<1>5. filtered \in Seq(LoadedOrder)
  <2> HIDE DEF first
  <2> QED
    BY <1>1, <1>4, SortedByTimeOf
<1>6. orders' \in Seq(LoadedOrder)
  <2>1. \A o \in DOMAIN filtered : [filtered[o] EXCEPT !.obligation = FALSE] \in LoadedOrder
    <3> TAKE o \in DOMAIN filtered
    <3>1. filtered[o] \in LoadedOrder
      BY <1>5
    <3> QED
      BY <3>1 DEF LoadedOrder
  <2>2. DOMAIN filtered = 1 .. Len(filtered) /\ Len(filtered) \in Nat
    BY <1>5
  <2>3. orders' \in [1 .. Len(filtered) -> LoadedOrder]
    BY <1>1, <2>1, <2>2
  <2> QED
    BY <2>2, <2>3
<1>7. TypeOK'
  BY ONLY TypeInv, <1>2, <1>6 DEF TypeInv, TypeOK, LoadedOrder, squeezing
<1> QED
  BY <1>2, <1>7, PastReading DEF TypeInv

LEMMA TypeNext == TypeInv /\ [Next]_vars => TypeInv'
<1> SUFFICES ASSUME TypeInv, [Next]_vars PROVE TypeInv'
  OBVIOUS
<1>1. CitiesInv'
  BY CitiesNext DEF TypeInv
<1>2. CASE ReadParam
  BY <1>1, <1>2, ReadParamType
<1>3. CASE ReadTruck
  BY <1>1, <1>3, ReadTruckType
<1>4. CASE ReadOrder
  BY <1>1, <1>4, ReadOrderType
<1>5. CASE ReadDist
  BY <1>1, <1>5, ReadDistType
<1>6. CASE NextSheet
  BY <1>1, <1>6, NextSheetType
<1>7. CASE ShiftTimestamps
  BY <1>1, <1>7, ShiftType
<1>8. CASE SqueezeTruck
  BY <1>1, <1>8, SqueezeTruckType
<1>9. CASE SqueezeOrder
  BY <1>1, <1>9, SqueezeOrderType
<1>10. CASE SqueezeDist
  BY <1>1, <1>10, SqueezeDistType
<1>11. CASE SqueezeNext
  BY <1>1, <1>11, SqueezeNextType
<1>12. CASE FilterTrucks
  BY <1>1, <1>12, FilterTrucksType
<1>13. CASE FilterOrders
  BY <1>1, <1>13, FilterOrdersType
<1>14. CASE UNCHANGED vars
  BY <1>1, <1>14 DEF vars, TypeInv, TypeOK, ReadingOK, InSheet, loaded, squeezing
<1>15. CASE Terminated
  BY <1>14, <1>15 DEF Terminated
<1> QED
  BY <1>2, <1>3, <1>4, <1>5, <1>6, <1>7, <1>8, <1>9, <1>10, <1>11, <1>12, <1>13, <1>14,
     <1>15 DEF Next

\* For all sheets, what Data holds at every moment is typed, times that were shifted
\* and ids that were squeezed included.
THEOREM LoadingTypeCorrect == Spec => []TypeOK
<1>1. TypeInv => TypeOK
  BY DEF TypeInv
<1> QED
  BY <1>1, TypeInit, TypeNext, PTL DEF Spec

-----------------------------------------------------------------------------
(***************************************************************************)
(* The parameters.                                                         *)
(***************************************************************************)
\* When a sheet ends, the rows that were read are its rows.
LEMMA RowsRead ==
    ASSUME NEW T, NEW sheet \in Seq(T), NEW first,
           row \in Nat \ {0}, InSheet(sheet, first), EndOfSheet(sheet, first)
    PROVE  Rows(sheet, first) = SubSeq(sheet, 1, row - 1)
<1> DEFINE ends == {i \in DOMAIN sheet : sheet[i][first] = Empty}
           last == IF ends = {} THEN Len(sheet)
                                ELSE (CHOOSE i \in ends : \A j \in ends : i <= j) - 1
<1>1. Len(sheet) \in Nat /\ DOMAIN sheet = 1 .. Len(sheet) /\ row <= Len(sheet) + 1
  BY DEF InSheet
<1>2. Rows(sheet, first) = SubSeq(sheet, 1, last)
  BY DEF Rows
<1>3. \A i \in ends : i \in Nat /\ row <= i
  <2> TAKE i \in ends
  <2>1. i \in Nat /\ i \notin 1 .. row - 1 /\ 1 <= i
    BY <1>1 DEF InSheet
  <2> QED
    BY <2>1
<1>4. last = row - 1
  <2>1. CASE row \in DOMAIN sheet
    <3>1. row \in ends
      BY <2>1 DEF EndOfSheet
    <3> HIDE DEF ends
    <3>2. (CHOOSE i \in ends : \A j \in ends : i <= j) = row
      <4>1. \A j \in ends : row <= j
        BY <1>3
      <4>2. \A i \in ends : (\A j \in ends : i <= j) => i = row
        BY <1>3, <3>1
      <4> QED
        BY <3>1, <4>1, <4>2
    <3> QED
      BY <3>1, <3>2
  <2>2. CASE row \notin DOMAIN sheet
    <3>1. row = Len(sheet) + 1
      BY <1>1, <2>2
    <3>2. ends = {}
      <4>1. \A i \in ends : i \in 1 .. Len(sheet)
        BY <1>1
      <4> HIDE DEF ends
      <4> QED
        BY <1>1, <1>3, <3>1, <4>1
    <3> QED
      BY <1>1, <3>1, <3>2
  <2> QED
    BY <2>1, <2>2
<1> QED
  BY <1>2, <1>4

\* The place of a name among the cases.
CaseOf(name) == CHOOSE i \in DOMAIN ParamNames : ParamNames[i] = name

LEMMA CasesOf ==
    /\ DOMAIN ParamNames = 1 .. 6
    /\ \A i, j \in 1 .. 6 : ParamNames[i] = ParamNames[j] => i = j
    /\ \A i \in 1 .. 6 : CaseOf(ParamNames[i]) = i
<1>1. DOMAIN ParamNames = 1 .. 6
  BY DEF ParamNames
<1>2. \A i, j \in 1 .. 6 : ParamNames[i] = ParamNames[j] => i = j
  BY DEF ParamNames
<1> QED
  BY <1>1, <1>2 DEF CaseOf

\* A row sets its own parameter and none whose case comes before.
LEMMA AssignedFrom ==
    ASSUME NEW m \in {ParamNames[i] : i \in DOMAIN ParamNames},
           NEW n \in {ParamNames[i] : i \in DOMAIN ParamNames}
    PROVE  /\ n \in Assigned(n)
           /\ CaseOf(m) < CaseOf(n) => m \notin Assigned(n)
<1>1. PICK i \in 1 .. 6 : m = ParamNames[i]
  BY CasesOf
<1>2. PICK j \in 1 .. 6 : n = ParamNames[j]
  BY CasesOf
<1>3. Assigned(n) = {ParamNames[k] : k \in {k \in 1 .. 6 : \E l \in 1 .. k : ParamNames[l] = n}}
  BY CasesOf DEF Assigned, FallThrough
<1>4. \A k \in 1 .. 6 : (\E l \in 1 .. k : ParamNames[l] = n) <=> j <= k
  <2> TAKE k \in 1 .. 6
  <2>1. \A l \in 1 .. k : l \in 1 .. 6 /\ l <= k
    OBVIOUS
  <2>2. j <= k => j \in 1 .. k
    OBVIOUS
  <2> QED
    BY <1>2, <2>1, <2>2, CasesOf
<1>5. n \in Assigned(n)
  BY <1>2, <1>3, <1>4
<1>6. ASSUME i < j PROVE m \notin Assigned(n)
  <2>1. \A k \in 1 .. 6 : j <= k => ParamNames[k] # m
    BY <1>1, <1>6, CasesOf
  <2> QED
    BY <1>3, <1>4, <2>1
<1>7. CaseOf(m) = i /\ CaseOf(n) = j
  BY <1>1, <1>2, CasesOf
<1> QED
  BY <1>5, <1>6, <1>7

\* No row after the i-th, up to the n-th, names its parameter or one of a case before.
Stands(i, n) ==
    \A j \in 1 .. n : i < j => CaseOf(file.params[i].name) < CaseOf(file.params[j].name)

\* So params has what the row says.
ParamsRead(n) ==
    /\ \A i \in 1 .. n : file.params[i].name \in {ParamNames[k] : k \in DOMAIN ParamNames}
    /\ \A i \in 1 .. n :
          Stands(i, n) => params[file.params[i].name] = file.params[i].value

ParamsInv ==
    /\ pc = "params" => ParamsRead(row - 1)
    /\ ParamsAsInFile

LEMMA ParamsInit == Init => ParamsInv
<1> SUFFICES ASSUME Init PROVE ParamsInv
  OBVIOUS
<1>1. pc = "params" /\ row = 1
  BY DEF Init
<1>2. 1 .. row - 1 = {}
  BY <1>1
<1> QED
  BY <1>1, <1>2 DEF ParamsInv, ParamsRead, ParamsAsInFile

LEMMA ReadParamKeeps ==
    ASSUME TypeInv, ParamsInv, ReadParam
    PROVE  ParamsInv'
<1>1. pc = "params" /\ file' = file /\ row \in Nat \ {0} /\ pc' # "trucks"
  BY DEF ReadParam, TypeInv, TypeOK
<1>2. ParamsRead(row - 1)
  BY <1>1 DEF ParamsInv
<1>3. ParamsAsInFile'
  BY <1>1 DEF ParamsAsInFile
<1> DEFINE r == file.params[row]
           names == {ParamNames[k] : k \in DOMAIN ParamNames}
<1>4. DOMAIN params = names
  BY DEF TypeInv, TypeOK
<1>5. CASE r.name \in DOMAIN params /\ Number(r.value)
  <2>1. /\ row' = row + 1
        /\ params' = [n \in DOMAIN params |->
                         IF n \in Assigned(r.name) THEN r.value ELSE params[n]]
    BY <1>5 DEF ReadParam
  <2>2. \A i \in 1 .. row : i \in 1 .. row - 1 \/ i = row
    BY <1>1
  <2>3. \A i \in 1 .. row : file.params[i].name \in names
    BY <1>2, <1>4, <1>5, <2>2 DEF ParamsRead
  <2>4. ASSUME NEW i \in 1 .. row, Stands(i, row)
        PROVE  params'[file.params[i].name] = file.params[i].value
    <3>1. CASE i = row
      <4>1. r.name \in Assigned(r.name)
        BY <1>4, <1>5, AssignedFrom
      <4> HIDE DEF r, names
      <4> QED
        BY <1>5, <2>1, <3>1, <4>1 DEF r
    <3>2. CASE i \in 1 .. row - 1
      <4> DEFINE q == file.params[i]
      <4>1. CaseOf(q.name) < CaseOf(r.name)
        <5>1. i \in 1 .. row /\ row \in 1 .. row /\ i < row
          BY <1>1, <3>2
        <5> QED
          BY <2>4, <5>1 DEF Stands
      <4>2. q.name \notin Assigned(r.name)
        BY <1>4, <1>5, <2>3, <4>1, AssignedFrom
      <4>3. Stands(i, row - 1)
        <5>1. \A k \in 1 .. row - 1 : k \in 1 .. row
          BY <1>1
        <5> QED
          BY <2>4, <5>1 DEF Stands
      <4>4. params[q.name] = q.value
        BY <1>2, <3>2, <4>3 DEF ParamsRead
      <4>5. q.name \in DOMAIN params
        BY <1>4, <2>3
      <4> HIDE DEF q, r, names
      <4> QED
        BY <2>1, <4>2, <4>4, <4>5 DEF q
    <3> QED
      BY <2>2, <2>4, <3>1, <3>2
  <2>5. row' - 1 = row
    BY <1>1, <2>1
  <2>6. ParamsRead(row - 1)'
    BY <1>1, <2>3, <2>4, <2>5 DEF ParamsRead, Stands
  <2> QED
    BY <1>3, <2>6 DEF ParamsInv
<1>6. CASE ~(r.name \in DOMAIN params /\ Number(r.value))
  <2>1. pc' = "aborted"
    BY <1>6 DEF ReadParam
  <2> QED
    BY <1>3, <2>1 DEF ParamsInv
<1> QED
  BY <1>5, <1>6

LEMMA ParamsSheetEnds ==
    ASSUME TypeInv, ParamsInv, NextSheet, pc = "params"
    PROVE  ParamsInv'
<1>1. /\ pc' = "trucks" /\ EndOfSheet(file.params, "first")
      /\ UNCHANGED <<file, params>>
  BY DEF NextSheet, loaded
<1> DEFINE sheet == file.params
           rows == Rows(sheet, "first")
<1>2. /\ row \in Nat \ {0} /\ sheet \in Seq(ParamRow) /\ row <= Len(sheet) + 1
      /\ InSheet(sheet, "first")
  BY FileTypes DEF TypeInv, TypeOK, ReadingOK, InSheet
<1>3. rows = SubSeq(sheet, 1, row - 1)
  BY <1>1, <1>2, RowsRead
<1>4. DOMAIN rows = 1 .. row - 1 /\ \A i \in 1 .. row - 1 : rows[i] = sheet[i]
  <2> HIDE DEF rows, sheet
  <2> QED
    BY <1>2, <1>3
<1>5. ParamsRead(row - 1)
  BY DEF ParamsInv
<1>6. ASSUME NEW i \in DOMAIN rows,
             \A j \in DOMAIN rows : i < j => CaseOf(rows[i].name) < CaseOf(rows[j].name)
      PROVE  params[rows[i].name] = rows[i].value
  <2>1. i \in 1 .. row - 1 /\ rows[i] = sheet[i]
    BY <1>4
  <2>2. Stands(i, row - 1)
    BY <1>4, <1>6, <2>1 DEF Stands
  <2>3. params[sheet[i].name] = sheet[i].value
    BY <1>5, <2>1, <2>2 DEF ParamsRead
  <2> HIDE DEF rows, sheet
  <2> QED
    BY <2>1, <2>3
<1>7. \A i \in DOMAIN rows :
         (\A j \in DOMAIN rows : i < j => CaseOf(rows[i].name) < CaseOf(rows[j].name))
         => params'[rows[i].name] = rows[i].value
  BY <1>1, <1>6
<1>8. ParamsAsInFile'
  <2>1. rows' = rows
    BY <1>1
  <2> HIDE DEF rows
  <2> QED
    BY <1>1, <1>7, <2>1 DEF ParamsAsInFile, CaseOf, rows
<1> QED
  BY <1>1, <1>8 DEF ParamsInv

LEMMA ParamsNext == TypeInv /\ ParamsInv /\ [Next]_vars => ParamsInv'
<1> SUFFICES ASSUME TypeInv, ParamsInv, [Next]_vars PROVE ParamsInv'
  OBVIOUS
<1>1. CASE ReadParam
  BY <1>1, ReadParamKeeps
<1>2. CASE NextSheet
  <2>1. CASE pc = "params"
    BY <1>2, <2>1, ParamsSheetEnds
  <2>2. CASE pc # "params"
    BY <1>2, <2>2 DEF NextSheet, ParamsInv, ParamsAsInFile
  <2> QED
    BY <2>1, <2>2
<1>3. CASE ReadTruck
  <2>1. pc = "trucks" /\ UNCHANGED <<file, params>> /\ pc' # "params"
    BY <1>3 DEF ReadTruck
  <2>2. ParamsAsInFile'
    BY <2>1 DEF ParamsInv, ParamsAsInFile
  <2> QED
    BY <2>1, <2>2 DEF ParamsInv
<1>4. ASSUME pc' \notin {"params", "trucks"} PROVE ParamsInv'
  BY <1>4 DEF ParamsInv, ParamsAsInFile
<1>5. CASE ReadOrder
  BY <1>4, <1>5 DEF ReadOrder
<1>6. CASE ReadDist
  BY <1>4, <1>6 DEF ReadDist
<1>7. CASE ShiftTimestamps
  BY <1>4, <1>7 DEF ShiftTimestamps
<1>8. CASE SqueezeTruck
  BY <1>4, <1>8 DEF SqueezeTruck
<1>9. CASE SqueezeOrder
  BY <1>4, <1>9 DEF SqueezeOrder
<1>10. CASE SqueezeDist
  BY <1>4, <1>10 DEF SqueezeDist
<1>11. CASE SqueezeNext
  BY <1>4, <1>11 DEF SqueezeNext
<1>12. CASE FilterTrucks
  BY <1>4, <1>12 DEF FilterTrucks
<1>13. CASE FilterOrders
  BY <1>4, <1>13 DEF FilterOrders
<1>14. CASE UNCHANGED vars
  <2>1. UNCHANGED <<file, row, params, pc>>
    BY <1>14 DEF vars, loaded
  <2>2. ParamsAsInFile'
    BY <2>1 DEF ParamsInv, ParamsAsInFile
  <2>3. (pc = "params" => ParamsRead(row - 1))'
    BY <2>1 DEF ParamsInv, ParamsRead, Stands
  <2> QED
    BY <2>2, <2>3 DEF ParamsInv
<1>15. CASE Terminated
  BY <1>14, <1>15 DEF Terminated
<1> QED
  BY <1>1, <1>2, <1>3, <1>5, <1>6, <1>7, <1>8, <1>9, <1>10, <1>11, <1>12, <1>13, <1>14,
     <1>15 DEF Next

\* For all sheets of parameters, although no case of the switch ends with a break,
\* Params holds what a row says unless a later row names the same parameter or one
\* whose case comes before (params.cpp).
THEOREM ParamsCorrect == Spec => []ParamsAsInFile
<1>1. ParamsInv => ParamsAsInFile
  BY DEF ParamsInv
<1> QED
  BY <1>1, TypeInit, TypeNext, ParamsInit, ParamsNext, PTL DEF Spec
-----------------------------------------------------------------------------
(***************************************************************************)
(* The objects and their rows.                                             *)
(***************************************************************************)
\* The rows of a set, and WithNumbers as one.
Among(rows, G) == KeptAt(rows, {i \in DOMAIN rows : rows[i] \in G})

LEMMA WithNumbersAmong ==
    /\ \A rows \in Seq(TruckRow) :
          WithNumbers(rows, TruckGiven) = Among(rows, {r \in TruckRow : TruckGiven(r)})
    /\ \A rows \in Seq(OrderRow) :
          WithNumbers(rows, OrderGiven) = Among(rows, {r \in OrderRow : OrderGiven(r)})
    /\ \A rows \in Seq(DistRow) :
          WithNumbers(rows, DistGiven) = Among(rows, {r \in DistRow : DistGiven(r)})
<1>1. ASSUME NEW rows \in Seq(TruckRow)
      PROVE  WithNumbers(rows, TruckGiven) = Among(rows, {r \in TruckRow : TruckGiven(r)})
  <2>1. {i \in DOMAIN rows : TruckGiven(rows[i])}
          = {i \in DOMAIN rows : rows[i] \in {r \in TruckRow : TruckGiven(r)}}
    OBVIOUS
  <2> QED
    BY <2>1 DEF WithNumbers, Among
<1>2. ASSUME NEW rows \in Seq(OrderRow)
      PROVE  WithNumbers(rows, OrderGiven) = Among(rows, {r \in OrderRow : OrderGiven(r)})
  <2>1. {i \in DOMAIN rows : OrderGiven(rows[i])}
          = {i \in DOMAIN rows : rows[i] \in {r \in OrderRow : OrderGiven(r)}}
    OBVIOUS
  <2> QED
    BY <2>1 DEF WithNumbers, Among
<1>3. ASSUME NEW rows \in Seq(DistRow)
      PROVE  WithNumbers(rows, DistGiven) = Among(rows, {r \in DistRow : DistGiven(r)})
  <2>1. {i \in DOMAIN rows : DistGiven(rows[i])}
          = {i \in DOMAIN rows : rows[i] \in {r \in DistRow : DistGiven(r)}}
    OBVIOUS
  <2> QED
    BY <2>1 DEF WithNumbers, Among
<1> QED
  BY <1>1, <1>2, <1>3

LEMMA AmongOf ==
    ASSUME NEW T, NEW rows \in Seq(T), NEW G
    PROVE  /\ Among(rows, G) \in Seq(T)
           /\ \A i \in DOMAIN Among(rows, G) : Among(rows, G)[i] \in G
<1> DEFINE places == {i \in DOMAIN rows : rows[i] \in G}
<1>1. places \in SUBSET DOMAIN rows
  OBVIOUS
<1>2. \A i \in places : rows[i] \in G
  OBVIOUS
<1>3. Among(rows, G) = KeptAt(rows, places)
  BY DEF Among
<1> HIDE DEF places
<1> QED
  BY <1>1, <1>2, <1>3, KeptAtOf

\* One row more.
LEMMA AmongLonger ==
    ASSUME NEW T, NEW sheet \in Seq(T), NEW G, NEW n \in DOMAIN sheet
    PROVE  Among(SubSeq(sheet, 1, n), G)
             = IF sheet[n] \in G THEN Append(Among(SubSeq(sheet, 1, n - 1), G), sheet[n])
                                 ELSE Among(SubSeq(sheet, 1, n - 1), G)
<1> DEFINE before == SubSeq(sheet, 1, n - 1)
           with == SubSeq(sheet, 1, n)
           S == {i \in 1 .. n - 1 : sheet[i] \in G}
<1>1. n \in Nat \ {0} /\ n <= Len(sheet) /\ Len(sheet) \in Nat
  OBVIOUS
<1>2. /\ DOMAIN before = 1 .. n - 1 /\ before \in Seq(T)
      /\ \A i \in 1 .. n - 1 : before[i] = sheet[i]
      /\ DOMAIN with = 1 .. n /\ with \in Seq(T)
      /\ \A i \in 1 .. n : with[i] = sheet[i]
  BY <1>1
<1> HIDE DEF before, with
<1>3. {i \in DOMAIN before : before[i] \in G} = S
  BY <1>2
<1>4. {i \in DOMAIN with : with[i] \in G} = IF sheet[n] \in G THEN S \cup {n} ELSE S
  <2>1. \A i : i \in 1 .. n <=> i \in 1 .. n - 1 \/ i = n
    BY <1>1
  <2>2. CASE sheet[n] \in G
    BY <1>2, <2>1, <2>2
  <2>3. CASE sheet[n] \notin G
    BY <1>2, <2>1, <2>3
  <2> QED
    BY <2>2, <2>3
<1>5. /\ S \in SUBSET DOMAIN before /\ S \in SUBSET Int
      /\ \A k \in S : k < n
  BY <1>1, <1>2
<1> HIDE DEF S
<1>6. /\ IsFiniteSet(S) /\ Cardinality(S) \in Nat
      /\ KeptAt(before, S) \in Seq(T) /\ Len(KeptAt(before, S)) = Cardinality(S)
      /\ \A i \in 1 .. Cardinality(S) : /\ Ascending(S)[i] \in S
                                        /\ KeptAt(before, S)[i] = before[Ascending(S)[i]]
  BY <1>2, <1>5, KeptAtOf
<1>7. CASE sheet[n] \notin G
  <2>1. \A i \in 1 .. Cardinality(S) :
           before[Ascending(S)[i]] = with[Ascending(S)[i]]
    <3> TAKE i \in 1 .. Cardinality(S)
    <3>1. Ascending(S)[i] \in 1 .. n - 1
      BY <1>2, <1>5, <1>6
    <3>2. Ascending(S)[i] \in 1 .. n
      BY <1>1, <3>1
    <3> QED
      BY <1>2, <3>1, <3>2
  <2>2. KeptAt(with, S) = KeptAt(before, S)
    BY <2>1 DEF KeptAt
  <2> QED
    BY <1>3, <1>4, <1>7, <2>2 DEF Among, before, with
<1>8. CASE sheet[n] \in G
  <2> DEFINE L == S \cup {n}
             kept == KeptAt(before, S)
             longer == KeptAt(with, L)
  <2>1. /\ Cardinality(L) = Cardinality(S) + 1
        /\ \A i \in 1 .. Cardinality(S) : Ascending(L)[i] = Ascending(S)[i]
        /\ Ascending(L)[Cardinality(S) + 1] = n
    <3>1. S \in SUBSET Int /\ n \in Int /\ IsFiniteSet(S) /\ \A k \in S : k < n
      BY <1>1, <1>5, <1>6
    <3> QED
      BY <3>1, AscendingLonger
  <2>2. L \in SUBSET DOMAIN with
    <3>1. \A k \in S : k \in 1 .. n
      <4>1. \A k \in 1 .. n - 1 : k \in 1 .. n
        BY <1>1
      <4> QED
        BY <1>2, <1>5, <4>1
    <3>2. n \in 1 .. n
      BY <1>1
    <3> QED
      BY <1>2, <3>1, <3>2
  <2>3. /\ longer \in Seq(T) /\ Len(longer) = Cardinality(S) + 1
        /\ \A i \in 1 .. Cardinality(L) : longer[i] = with[Ascending(L)[i]]
    <3> HIDE DEF L
    <3> QED
      BY <1>2, <2>1, <2>2, KeptAtOf
  <2>4. \A i \in 1 .. Cardinality(S) : longer[i] = kept[i]
    <3> TAKE i \in 1 .. Cardinality(S)
    <3>1. i \in 1 .. Cardinality(L)
      BY <1>6, <2>1
    <3>2. longer[i] = with[Ascending(S)[i]]
      BY <2>1, <2>3, <3>1
    <3>3. Ascending(S)[i] \in 1 .. n - 1 /\ Ascending(S)[i] \in 1 .. n
      BY <1>1, <1>2, <1>5, <1>6
    <3> QED
      BY <1>2, <1>6, <3>2, <3>3
  <2>5. longer[Cardinality(S) + 1] = sheet[n]
    <3>1. Cardinality(S) + 1 \in 1 .. Cardinality(L)
      BY <1>6, <2>1
    <3>2. n \in 1 .. n
      BY <1>1
    <3> QED
      BY <1>2, <2>1, <2>3, <3>1, <3>2
  <2>6. sheet[n] \in T
    OBVIOUS
  <2>7. longer = Append(kept, sheet[n])
    <3> HIDE DEF longer, kept
    <3>1. kept \in Seq(T) /\ Len(kept) = Cardinality(S)
      BY <1>6 DEF kept
    <3>2. /\ Append(kept, sheet[n]) \in Seq(T)
          /\ Len(Append(kept, sheet[n])) = Cardinality(S) + 1
          /\ \A i \in 1 .. Cardinality(S) : Append(kept, sheet[n])[i] = kept[i]
          /\ Append(kept, sheet[n])[Cardinality(S) + 1] = sheet[n]
      BY <2>6, <3>1
    <3>3. \A i \in 1 .. Len(longer) : longer[i] = Append(kept, sheet[n])[i]
      BY <1>6, <2>3, <2>4, <2>5, <3>2
    <3> QED
      BY <2>3, <3>2, <3>3, SeqEqual
  <2> QED
    BY <1>3, <1>4, <1>8, <2>7 DEF Among, before, with
<1> QED
  BY <1>7, <1>8
-----------------------------------------------------------------------------
(***************************************************************************)
(* What has become of the rows, from the first sheet to the filters.       *)
(***************************************************************************)
\* What Data has for a city: its id, once it is named.
CityIs(held, city, ids, named) ==
    IF named THEN city \in DOMAIN ids /\ held = ids[city] ELSE held = city

\* The truck and the order that a row has become, the times shifted by min.
TruckIs(truck, r, min, ids, named) ==
    /\ truck.truck_id = r.truck_id
    /\ truck.mask_load_type = LoadMasks[r.load_type]
    /\ truck.mask_trailer_type = GetMaskTrailerType(r.trailer_type)
    /\ truck.init_time = r.init_time - min
    /\ CityIs(truck.init_city, r.init_city, ids, named)

OrderIs(order, r, min, ids, named) ==
    /\ order.order_id = r.order_id
    /\ order.mask_load_type = LoadMasks[r.load_type]
    /\ order.mask_trailer_type = GetMaskTrailerType(r.trailer_type)
    /\ order.start_time = r.start_time - min
    /\ order.finish_time = (r.finish_time - min) % UIntRange
    /\ CityIs(order.from_city, r.from_city, ids, named)
    /\ CityIs(order.to_city, r.to_city, ids, named)

\* The first n have ids where they had cities.
TrucksAre(ts, rows, n, min, ids) ==
    /\ Len(ts) = Len(rows)
    /\ \A i \in 1 .. Len(ts) : TruckIs(ts[i], rows[i], min, ids, i <= n)

OrdersAre(os, rows, n, min, ids) ==
    /\ Len(os) = Len(rows)
    /\ \A i \in 1 .. Len(os) : OrderIs(os[i], rows[i], min, ids, i <= n)

TrucksInv ==
    /\ pc = "params" => trucks = <<>>
    /\ pc = "trucks" =>
          TrucksAre(trucks, WithNumbers(SubSeq(file.trucks, 1, row - 1), TruckGiven),
                    0, min_timestamp, real_city_to_id)
    /\ pc \in {"orders", "dists", "shift"} =>
          TrucksAre(trucks, TruckRows, 0, min_timestamp, real_city_to_id)
    /\ pc = "squeeze_trucks" =>
          TrucksAre(trucks, TruckRows, item - 1, min_timestamp, real_city_to_id)
    /\ pc \in {"squeeze_orders", "squeeze_dists", "filter"} =>
          TrucksAre(trucks, TruckRows, Len(trucks), min_timestamp, real_city_to_id)

OrdersInv ==
    /\ pc \in {"params", "trucks"} => orders = <<>>
    /\ pc = "orders" =>
          OrdersAre(orders, WithNumbers(SubSeq(file.orders, 1, row - 1), OrderGiven),
                    0, min_timestamp, real_city_to_id)
    /\ pc \in {"dists", "shift", "squeeze_trucks"} =>
          OrdersAre(orders, OrderRows, 0, min_timestamp, real_city_to_id)
    /\ pc = "squeeze_orders" =>
          OrdersAre(orders, OrderRows, item - 1, min_timestamp, real_city_to_id)
    /\ pc \in {"squeeze_dists", "filter", "filter_orders"} =>
          OrdersAre(orders, OrderRows, Len(orders), min_timestamp, real_city_to_id)

Pair(r) == <<r.from, r.to>>
Named(pair, ids) == <<ids[pair[1]], ids[pair[2]]>>
IsNamed(pair, ids) == pair[1] \in DOMAIN ids /\ pair[2] \in DOMAIN ids

DistsAre(roads, rows) ==
    /\ DOMAIN roads = {Pair(rows[i]) : i \in DOMAIN rows}
    /\ \A i \in DOMAIN rows : IsLast(rows, i) => roads[Pair(rows[i])] = rows[i].d

\* The first n roads, in the order of the map, are squeezed.
SqueezedAre(squeezed, roads, n, ids) ==
    LET pairs == Sorted(DOMAIN roads, Before)
    IN /\ n <= Cardinality(DOMAIN roads)
       /\ DOMAIN squeezed = {Named(pairs[i], ids) : i \in 1 .. n}
       /\ \A i \in 1 .. n : IsNamed(pairs[i], ids)
                             /\ squeezed[Named(pairs[i], ids)] = roads[pairs[i]]

DistsById(squeezed, rows, ids) ==
    /\ DOMAIN squeezed = {Named(Pair(rows[i]), ids) : i \in DOMAIN rows}
    /\ \A i \in DOMAIN rows :
          /\ IsNamed(Pair(rows[i]), ids)
          /\ IsLast(rows, i) => squeezed[Named(Pair(rows[i]), ids)] = rows[i].d

DistsInv ==
    /\ pc \in {"params", "trucks", "orders"} => dists = NoElements
    /\ pc = "dists" =>
          DistsAre(dists, WithNumbers(SubSeq(file.dists, 1, row - 1), DistGiven))
    /\ pc \in {"shift", "squeeze_trucks", "squeeze_orders", "squeeze_dists"} =>
          DistsAre(dists, DistRows)
    /\ pc = "squeeze_dists" =>
          SqueezedAre(squeezed_dists, dists, item - 1, real_city_to_id)
    /\ pc \in {"filter", "filter_orders", "solve"} =>
          DistsById(dists, DistRows, real_city_to_id)

StageInv ==
    /\ pc \in {"params", "trucks", "orders", "dists", "shift"} => min_timestamp = 0
    /\ pc \in {"params", "trucks", "orders", "dists", "shift", "squeeze_trucks",
               "squeeze_orders"} => squeezed_dists = NoElements
    /\ pc \in {"params", "trucks", "orders", "dists", "shift"} => item = 1

RowsInv == StageInv /\ TrucksInv /\ OrdersInv /\ DistsInv
-----------------------------------------------------------------------------
LEMMA ModOf ==
    ASSUME NEW a \in 0 .. UIntRange - 1
    PROVE  a % UIntRange = a
BY LimitsAssumption

LEMMA ModOfNegative ==
    ASSUME NEW a \in Int, a < 0, a + UIntRange \in 0 .. UIntRange - 1
    PROVE  a % UIntRange = a + UIntRange
BY LimitsAssumption

\* A time before min wraps to one that is later than any time after min.
LEMMA WrappedEnd ==
    ASSUME NEW finish \in 0 .. UIntRange - 1, NEW begin \in 0 .. UIntRange - 1, NEW min \in Nat,
           ~(finish >= min), begin - min \in Nat
    PROVE  (finish - min) % UIntRange \in Nat /\ (finish - min) % UIntRange > begin - min
<1> DEFINE a == finish - min
<1>1. UIntRange \in Nat \ {0} /\ a \in Int /\ a < 0 /\ min <= begin
  BY LimitsAssumption
<1>2. a + UIntRange \in 0 .. UIntRange - 1 /\ a + UIntRange > begin - min
  BY <1>1
<1> HIDE DEF a
<1>3. a % UIntRange = a + UIntRange
  BY <1>1, <1>2, ModOfNegative
<1> QED
  BY <1>2, <1>3 DEF a

\* A cell with a number is one.
LEMMA NumberOf ==
    /\ \A r \in TruckRow : TruckGiven(r) =>
          r.truck_id \in Nat /\ r.init_time \in 0 .. UIntRange - 1 /\ r.init_city \in Nat
    /\ \A r \in OrderRow : OrderGiven(r) =>
          /\ r.order_id \in Nat
          /\ r.start_time \in 0 .. UIntRange - 1 /\ r.finish_time \in 0 .. UIntRange - 1
          /\ r.from_city \in Nat /\ r.to_city \in Nat
    /\ \A r \in DistRow : DistGiven(r) => r.from \in Nat /\ r.to \in Nat /\ r.d \in Nat
<1>1. \A c \in Cell : Number(c) => c \in Nat
  BY DEF Cell, Number, Empty, Text
<1>2. \A c \in TimeCell : Number(c) => c \in 0 .. UIntRange - 1
  BY DEF TimeCell, Number, Empty, Text
<1>3. ASSUME NEW r \in TruckRow, TruckGiven(r)
      PROVE  r.truck_id \in Nat /\ r.init_time \in 0 .. UIntRange - 1 /\ r.init_city \in Nat
  BY <1>1, <1>2, <1>3 DEF TruckRow, TruckGiven
<1>4. ASSUME NEW r \in OrderRow, OrderGiven(r)
      PROVE  /\ r.order_id \in Nat
             /\ r.start_time \in 0 .. UIntRange - 1 /\ r.finish_time \in 0 .. UIntRange - 1
             /\ r.from_city \in Nat /\ r.to_city \in Nat
  BY <1>1, <1>2, <1>4 DEF OrderRow, OrderGiven
<1>5. ASSUME NEW r \in DistRow, DistGiven(r)
      PROVE  r.from \in Nat /\ r.to \in Nat /\ r.d \in Nat
  BY <1>1, <1>5 DEF DistRow, DistGiven
<1> QED
  BY <1>3, <1>4, <1>5

\* The rows of a sheet are rows of it.
LEMMA RowsOf ==
    ASSUME NEW T, NEW sheet \in Seq(T), NEW first
    PROVE  Rows(sheet, first) \in Seq(T)
<1> DEFINE ends == {i \in DOMAIN sheet : sheet[i][first] = Empty}
           least == CHOOSE i \in ends : \A j \in ends : i <= j
           last == IF ends = {} THEN Len(sheet) ELSE least - 1
<1>1. Len(sheet) \in Nat /\ DOMAIN sheet = 1 .. Len(sheet)
  OBVIOUS
<1>2. Rows(sheet, first) = SubSeq(sheet, 1, last)
  BY DEF Rows
<1>3. last \in Nat /\ last <= Len(sheet)
  <2>1. CASE ends = {}
    BY <1>1, <2>1
  <2>2. CASE ends # {}
    <3>1. ends \in SUBSET Nat /\ \A i \in ends : 1 <= i /\ i <= Len(sheet)
      BY <1>1
    <3>2. least \in ends
      <4> HIDE DEF ends
      <4>1. \E i \in ends : \A j \in ends : i <= j
        BY <2>2, <3>1, LeastNumber
      <4> QED
        BY <4>1
    <3> HIDE DEF ends, least
    <3>3. least \in Nat /\ 1 <= least /\ least <= Len(sheet)
      BY <3>1, <3>2
    <3> QED
      BY <1>1, <2>2, <3>3
  <2> QED
    BY <2>1, <2>2
<1> HIDE DEF last
<1> QED
  BY <1>1, <1>2, <1>3

\* The rows that Data is made of.
LEMMA SheetRows ==
    ASSUME file \in Files
    PROVE  /\ TruckRows \in Seq({r \in TruckRow : TruckGiven(r)})
           /\ OrderRows \in Seq({r \in OrderRow : OrderGiven(r)})
           /\ DistRows \in Seq({r \in DistRow : DistGiven(r)})
<1>1. /\ Rows(file.trucks, "truck_id") \in Seq(TruckRow)
      /\ Rows(file.orders, "order_id") \in Seq(OrderRow)
      /\ Rows(file.dists, "from") \in Seq(DistRow)
  BY FileTypes, RowsOf
<1>2. ASSUME NEW T, NEW rows \in Seq(T), NEW G PROVE Among(rows, G) \in Seq(G)
  <2> DEFINE kept == Among(rows, G)
  <2>1. kept \in Seq(T) /\ \A i \in DOMAIN kept : kept[i] \in G
    BY AmongOf
  <2> HIDE DEF kept
  <2>2. Len(kept) \in Nat /\ DOMAIN kept = 1 .. Len(kept)
    BY <2>1
  <2>3. kept \in [1 .. Len(kept) -> G]
    BY <2>1, <2>2
  <2>4. kept \in Seq(G)
    BY <2>2, <2>3
  <2> QED
    BY <2>4 DEF kept
<1>3. TruckRows \in Seq({r \in TruckRow : TruckGiven(r)})
  BY <1>1, <1>2, WithNumbersAmong DEF TruckRows
<1>4. OrderRows \in Seq({r \in OrderRow : OrderGiven(r)})
  BY <1>1, <1>2, WithNumbersAmong DEF OrderRows
<1>5. DistRows \in Seq({r \in DistRow : DistGiven(r)})
  BY <1>1, <1>2, WithNumbersAmong DEF DistRows
<1> QED
  BY <1>3, <1>4, <1>5

\* The rows before the first one, one row more, and all of a sheet.
LEMMA SheetGrows ==
    ASSUME NEW T, NEW sheet \in Seq(T), NEW G
    PROVE  /\ Len(Among(SubSeq(sheet, 1, 0), G)) = 0
           /\ \A n \in DOMAIN sheet : SubSeq(sheet, 1, n - 1) \in Seq(T)
<1>1. SubSeq(sheet, 1, 0) \in Seq(T) /\ DOMAIN SubSeq(sheet, 1, 0) = {}
  OBVIOUS
<1> DEFINE none == SubSeq(sheet, 1, 0)
<1> HIDE DEF none
<1>2. {i \in DOMAIN none : none[i] \in G} = {}
  BY <1>1 DEF none
<1>3. {} \in SUBSET DOMAIN none
  OBVIOUS
<1>4. Len(KeptAt(none, {})) = Cardinality({})
  BY <1>1, <1>3, KeptAtOf DEF none
<1>5. Len(Among(none, G)) = 0
  BY <1>2, <1>4, FS_EmptySet DEF Among
<1>6. ASSUME NEW n \in DOMAIN sheet PROVE SubSeq(sheet, 1, n - 1) \in Seq(T)
  <2>1. n - 1 \in Nat /\ n - 1 <= Len(sheet)
    OBVIOUS
  <2> QED
    BY <2>1
<1> QED
  BY <1>5, <1>6 DEF none
-----------------------------------------------------------------------------
\* More cities have ids, the others what they had.
Grown(ids, more) ==
    /\ DOMAIN ids \subseteq DOMAIN more
    /\ \A city \in DOMAIN ids : more[city] = ids[city]

LEMMA CityGrows ==
    ASSUME NEW ids, NEW more, Grown(ids, more), NEW held, NEW city, NEW named,
           CityIs(held, city, ids, named)
    PROVE  CityIs(held, city, more, named)
BY DEF CityIs, Grown

LEMMA TrucksGrow ==
    ASSUME NEW ids, NEW more, Grown(ids, more), NEW ts, NEW rows, NEW n, NEW min,
           TrucksAre(ts, rows, n, min, ids)
    PROVE  TrucksAre(ts, rows, n, min, more)
BY CityGrows DEF TrucksAre, TruckIs

LEMMA OrdersGrow ==
    ASSUME NEW ids, NEW more, Grown(ids, more), NEW os, NEW rows, NEW n, NEW min,
           OrdersAre(os, rows, n, min, ids)
    PROVE  OrdersAre(os, rows, n, min, more)
BY CityGrows DEF OrdersAre, OrderIs

\* How many are named is counted up to the last.
LEMMA AllNamed ==
    ASSUME NEW m \in Nat, NEW n \in Nat
    PROVE  /\ \A ts, rows, min, ids :
                 Len(ts) \in Nat /\ m >= Len(ts) /\ n >= Len(ts)
                 /\ TrucksAre(ts, rows, m, min, ids)
                   => TrucksAre(ts, rows, n, min, ids)
           /\ \A os, rows, min, ids :
                 Len(os) \in Nat /\ m >= Len(os) /\ n >= Len(os)
                 /\ OrdersAre(os, rows, m, min, ids)
                   => OrdersAre(os, rows, n, min, ids)
<1>1. ASSUME NEW ts, NEW rows, NEW min, NEW ids, Len(ts) \in Nat, m >= Len(ts), n >= Len(ts),
             TrucksAre(ts, rows, m, min, ids)
      PROVE  TrucksAre(ts, rows, n, min, ids)
  <2>1. \A i \in 1 .. Len(ts) : i <= m /\ i <= n
    BY <1>1
  <2> QED
    BY <1>1, <2>1 DEF TrucksAre, TruckIs, CityIs
<1>2. ASSUME NEW os, NEW rows, NEW min, NEW ids, Len(os) \in Nat, m >= Len(os), n >= Len(os),
             OrdersAre(os, rows, m, min, ids)
      PROVE  OrdersAre(os, rows, n, min, ids)
  <2>1. \A i \in 1 .. Len(os) : i <= m /\ i <= n
    BY <1>2
  <2> QED
    BY <1>2, <2>1 DEF OrdersAre, OrderIs, CityIs
<1> QED
  BY <1>1, <1>2

-----------------------------------------------------------------------------
\* One row more.
LEMMA TruckRead ==
    ASSUME NEW ts \in Seq(LoadedTruck), NEW rows \in Seq(TruckRow), NEW ids,
           NEW r \in TruckRow, TruckGiven(r), TruckOf(r) \in LoadedTruck,
           TrucksAre(ts, rows, 0, 0, ids)
    PROVE  TrucksAre(Append(ts, TruckOf(r)), Append(rows, r), 0, 0, ids)
<1> DEFINE t == TruckOf(r)
<1>1. TruckIs(t, r, 0, ids, FALSE)
  <2>1. r.init_time - 0 = r.init_time
    BY NumberOf
  <2> QED
    BY <2>1 DEF TruckOf, TruckIs, CityIs
<1> HIDE DEF t
<1>2. Len(ts) = Len(rows) /\ \A i \in 1 .. Len(ts) : TruckIs(ts[i], rows[i], 0, ids, FALSE)
  <2>1. Len(ts) = Len(rows)
    BY DEF TrucksAre
  <2>2. ASSUME NEW i \in 1 .. Len(ts) PROVE TruckIs(ts[i], rows[i], 0, ids, FALSE)
    <3>1. TruckIs(ts[i], rows[i], 0, ids, i <= 0)
      BY DEF TrucksAre
    <3>2. ~(i <= 0)
      OBVIOUS
    <3> QED
      BY <3>1, <3>2 DEF TruckIs, CityIs
  <2> QED
    BY <2>1, <2>2
<1>3. Len(Append(ts, t)) = Len(ts) + 1 /\ Len(Append(rows, r)) = Len(ts) + 1
  BY <1>2 DEF t
<1>4. \A i \in 1 .. Len(ts) + 1 :
         TruckIs(Append(ts, t)[i], Append(rows, r)[i], 0, ids, FALSE)
  <2> TAKE i \in 1 .. Len(ts) + 1
  <2>1. CASE i \in 1 .. Len(ts)
    <3>1. Append(ts, t)[i] = ts[i] /\ Append(rows, r)[i] = rows[i]
      BY <1>2, <2>1 DEF t
    <3> QED
      BY <1>2, <2>1, <3>1
  <2>2. CASE i = Len(ts) + 1
    <3>1. Append(ts, t)[i] = t /\ Append(rows, r)[i] = r
      BY <1>2, <2>2
    <3> QED
      BY <1>1, <3>1
  <2>3. i \in 1 .. Len(ts) \/ i = Len(ts) + 1
    OBVIOUS
  <2> QED
    BY <2>1, <2>2, <2>3
<1>5. \A i \in 1 .. Len(ts) + 1 : ~(i <= 0)
  OBVIOUS
<1> QED
  BY <1>3, <1>4, <1>5 DEF TrucksAre, TruckIs, CityIs, t

LEMMA OrderRead ==
    ASSUME NEW os \in Seq(LoadedOrder), NEW rows \in Seq(OrderRow), NEW ids,
           NEW r \in OrderRow, OrderGiven(r), OrderOf(r) \in LoadedOrder,
           OrdersAre(os, rows, 0, 0, ids)
    PROVE  OrdersAre(Append(os, OrderOf(r)), Append(rows, r), 0, 0, ids)
<1> DEFINE o == OrderOf(r)
<1>1. OrderIs(o, r, 0, ids, FALSE)
  <2>1. r.start_time - 0 = r.start_time /\ r.finish_time - 0 = r.finish_time
        /\ r.finish_time \in 0 .. UIntRange - 1
    BY NumberOf
  <2>2. (r.finish_time - 0) % UIntRange = r.finish_time
    BY <2>1, ModOf
  <2> QED
    BY <2>1, <2>2 DEF OrderOf, OrderIs, CityIs
<1> HIDE DEF o
<1>2. Len(os) = Len(rows) /\ \A i \in 1 .. Len(os) : OrderIs(os[i], rows[i], 0, ids, FALSE)
  <2>1. Len(os) = Len(rows)
    BY DEF OrdersAre
  <2>2. ASSUME NEW i \in 1 .. Len(os) PROVE OrderIs(os[i], rows[i], 0, ids, FALSE)
    <3>1. OrderIs(os[i], rows[i], 0, ids, i <= 0)
      BY DEF OrdersAre
    <3>2. ~(i <= 0)
      OBVIOUS
    <3> QED
      BY <3>1, <3>2 DEF OrderIs, CityIs
  <2> QED
    BY <2>1, <2>2
<1>3. Len(Append(os, o)) = Len(os) + 1 /\ Len(Append(rows, r)) = Len(os) + 1
  BY <1>2 DEF o
<1>4. \A i \in 1 .. Len(os) + 1 :
         OrderIs(Append(os, o)[i], Append(rows, r)[i], 0, ids, FALSE)
  <2> TAKE i \in 1 .. Len(os) + 1
  <2>1. CASE i \in 1 .. Len(os)
    <3>1. Append(os, o)[i] = os[i] /\ Append(rows, r)[i] = rows[i]
      BY <1>2, <2>1 DEF o
    <3> QED
      BY <1>2, <2>1, <3>1
  <2>2. CASE i = Len(os) + 1
    <3>1. Append(os, o)[i] = o /\ Append(rows, r)[i] = r
      BY <1>2, <2>2
    <3> QED
      BY <1>1, <3>1
  <2>3. i \in 1 .. Len(os) \/ i = Len(os) + 1
    OBVIOUS
  <2> QED
    BY <2>1, <2>2, <2>3
<1>5. \A i \in 1 .. Len(os) + 1 : ~(i <= 0)
  OBVIOUS
<1> QED
  BY <1>3, <1>4, <1>5 DEF OrdersAre, OrderIs, CityIs, o
-----------------------------------------------------------------------------
\* ShiftTimestamps.
LEMMA TrucksShifted ==
    ASSUME NEW ts \in Seq(LoadedTruck), NEW rows \in Seq(TruckRow), NEW ids, NEW min \in Nat,
           TrucksAre(ts, rows, 0, 0, ids),
           \A i \in DOMAIN rows : rows[i].init_time \in Nat
    PROVE  TrucksAre([t \in DOMAIN ts |-> [ts[t] EXCEPT !.init_time = @ - min]],
                     rows, 0, min, ids)
<1> DEFINE new == [t \in DOMAIN ts |-> [ts[t] EXCEPT !.init_time = @ - min]]
<1>1. Len(ts) \in Nat /\ DOMAIN ts = 1 .. Len(ts) /\ \A i \in 1 .. Len(ts) : ts[i] \in LoadedTruck
  OBVIOUS
<1>2. \A i \in 1 .. Len(ts) : new[i] = [ts[i] EXCEPT !.init_time = @ - min]
  BY <1>1
<1>3. Len(new) = Len(ts)
  BY <1>1
<1> HIDE DEF new
<1>4. ASSUME NEW i \in 1 .. Len(ts) PROVE TruckIs(new[i], rows[i], min, ids, i <= 0)
  <2>1. TruckIs(ts[i], rows[i], 0, ids, i <= 0)
    BY DEF TrucksAre
  <2>2. /\ new[i].truck_id = ts[i].truck_id
        /\ new[i].mask_load_type = ts[i].mask_load_type
        /\ new[i].mask_trailer_type = ts[i].mask_trailer_type
        /\ new[i].init_time = ts[i].init_time - min
        /\ new[i].init_city = ts[i].init_city
    BY <1>1, <1>2 DEF LoadedTruck
  <2>3. ts[i].init_time = rows[i].init_time
    <3>1. i \in DOMAIN rows
      <4>1. Len(rows) = Len(ts)
        BY DEF TrucksAre
      <4> QED
        BY <1>1, <4>1
    <3> QED
      BY <2>1, <3>1 DEF TruckIs
  <2> QED
    BY <2>1, <2>2, <2>3 DEF TruckIs
<1> QED
  BY <1>3, <1>4 DEF TrucksAre, new

LEMMA OrdersShifted ==
    ASSUME NEW os \in Seq(LoadedOrder), NEW rows \in Seq(OrderRow), NEW ids, NEW min \in Nat,
           OrdersAre(os, rows, 0, 0, ids),
           \A i \in DOMAIN rows : rows[i].start_time \in Nat
                                  /\ rows[i].finish_time \in 0 .. UIntRange - 1
    PROVE  OrdersAre([o \in DOMAIN os |-> Shifted(os[o], min)], rows, 0, min, ids)
<1> DEFINE new == [o \in DOMAIN os |-> Shifted(os[o], min)]
<1>1. Len(os) \in Nat /\ DOMAIN os = 1 .. Len(os) /\ \A i \in 1 .. Len(os) : os[i] \in LoadedOrder
  OBVIOUS
<1>2. \A i \in 1 .. Len(os) : new[i] = Shifted(os[i], min)
  BY <1>1
<1>3. Len(new) = Len(os)
  BY <1>1
<1> HIDE DEF new
<1>4. ASSUME NEW i \in 1 .. Len(os) PROVE OrderIs(new[i], rows[i], min, ids, i <= 0)
  <2>1. OrderIs(os[i], rows[i], 0, ids, i <= 0)
    BY DEF OrdersAre
  <2>2. /\ new[i].order_id = os[i].order_id
        /\ new[i].mask_load_type = os[i].mask_load_type
        /\ new[i].mask_trailer_type = os[i].mask_trailer_type
        /\ new[i].start_time = os[i].start_time - min
        /\ new[i].finish_time = (os[i].finish_time - min) % UIntRange
        /\ new[i].from_city = os[i].from_city
        /\ new[i].to_city = os[i].to_city
    BY <1>1, <1>2 DEF LoadedOrder, Shifted
  <2>3. i \in DOMAIN rows
    <3>1. Len(rows) = Len(os)
      BY DEF OrdersAre
    <3> QED
      BY <1>1, <3>1
  <2>4. os[i].start_time = rows[i].start_time
    BY <2>1, <2>3 DEF OrderIs
  <2>5. os[i].finish_time = rows[i].finish_time
    <3>1. os[i].finish_time = (rows[i].finish_time - 0) % UIntRange
      BY <2>1 DEF OrderIs
    <3>2. rows[i].finish_time - 0 = rows[i].finish_time
          /\ rows[i].finish_time \in 0 .. UIntRange - 1
      BY <2>3
    <3> QED
      BY <3>1, <3>2, ModOf
  <2> QED
    BY <2>1, <2>2, <2>4, <2>5 DEF OrderIs
<1> QED
  BY <1>3, <1>4 DEF OrdersAre, new

-----------------------------------------------------------------------------
\* SqueezeCitiesIds, for one truck and for one order.
LEMMA TruckSqueezed ==
    ASSUME NEW ts \in Seq(LoadedTruck), NEW rows, NEW min, NEW ids, NEW more,
           Grown(ids, more), NEW n \in DOMAIN ts, TrucksAre(ts, rows, n - 1, min, ids),
           ts[n].init_city \in DOMAIN more
    PROVE  TrucksAre([ts EXCEPT ![n].init_city = more[@]], rows, n, min, more)
<1> DEFINE new == [ts EXCEPT ![n].init_city = more[@]]
<1>1. /\ Len(ts) \in Nat /\ DOMAIN ts = 1 .. Len(ts) /\ n \in 1 .. Len(ts)
      /\ \A i \in 1 .. Len(ts) : ts[i] \in LoadedTruck
  OBVIOUS
<1>2. /\ Len(new) = Len(ts)
      /\ \A i \in 1 .. Len(ts) : i # n => new[i] = ts[i]
      /\ new[n] = [ts[n] EXCEPT !.init_city = more[@]]
  BY <1>1
<1> HIDE DEF new
<1>3. ASSUME NEW i \in 1 .. Len(ts) PROVE TruckIs(new[i], rows[i], min, more, i <= n)
  <2>1. TruckIs(ts[i], rows[i], min, ids, i <= n - 1)
    BY DEF TrucksAre
  <2>2. CASE i # n
    <3>1. (i <= n) <=> (i <= n - 1)
      BY <1>1, <2>2
    <3>2. new[i] = ts[i]
      BY <1>2, <2>2
    <3> QED
      BY <2>1, <3>1, <3>2 DEF TruckIs, CityIs, Grown
  <2>3. CASE i = n
    <3>1. i <= n /\ ~(i <= n - 1)
      BY <1>1, <2>3
    <3>2. /\ new[i].truck_id = ts[i].truck_id
          /\ new[i].mask_load_type = ts[i].mask_load_type
          /\ new[i].mask_trailer_type = ts[i].mask_trailer_type
          /\ new[i].init_time = ts[i].init_time
          /\ new[i].init_city = more[ts[i].init_city]
      BY <1>1, <1>2, <2>3 DEF LoadedTruck
    <3>3. ts[i].init_city = rows[i].init_city
      BY <2>1, <3>1 DEF TruckIs, CityIs
    <3> QED
      BY <2>1, <2>3, <3>1, <3>2, <3>3 DEF TruckIs, CityIs
  <2> QED
    BY <2>2, <2>3
<1>4. Len(ts) = Len(rows)
  BY DEF TrucksAre
<1> QED
  BY <1>2, <1>3, <1>4 DEF TrucksAre, new

LEMMA OrderSqueezed ==
    ASSUME NEW os \in Seq(LoadedOrder), NEW rows, NEW min, NEW ids, NEW more,
           Grown(ids, more), NEW n \in DOMAIN os, OrdersAre(os, rows, n - 1, min, ids),
           os[n].from_city \in DOMAIN more, os[n].to_city \in DOMAIN more
    PROVE  OrdersAre([os EXCEPT ![n].from_city = more[@], ![n].to_city = more[@]],
                     rows, n, min, more)
<1> DEFINE new == [os EXCEPT ![n].from_city = more[@], ![n].to_city = more[@]]
<1>1. /\ Len(os) \in Nat /\ DOMAIN os = 1 .. Len(os) /\ n \in 1 .. Len(os)
      /\ \A i \in 1 .. Len(os) : os[i] \in LoadedOrder
  OBVIOUS
<1>2. /\ Len(new) = Len(os)
      /\ \A i \in 1 .. Len(os) : i # n => new[i] = os[i]
      /\ new[n] = [os[n] EXCEPT !.from_city = more[@], !.to_city = more[@]]
  BY <1>1
<1> HIDE DEF new
<1>3. ASSUME NEW i \in 1 .. Len(os) PROVE OrderIs(new[i], rows[i], min, more, i <= n)
  <2>1. OrderIs(os[i], rows[i], min, ids, i <= n - 1)
    BY DEF OrdersAre
  <2>2. CASE i # n
    <3>1. (i <= n) <=> (i <= n - 1)
      BY <1>1, <2>2
    <3>2. new[i] = os[i]
      BY <1>2, <2>2
    <3> QED
      BY <2>1, <3>1, <3>2 DEF OrderIs, CityIs, Grown
  <2>3. CASE i = n
    <3>1. i <= n /\ ~(i <= n - 1)
      BY <1>1, <2>3
    <3>2. /\ new[i].order_id = os[i].order_id
          /\ new[i].mask_load_type = os[i].mask_load_type
          /\ new[i].mask_trailer_type = os[i].mask_trailer_type
          /\ new[i].start_time = os[i].start_time
          /\ new[i].finish_time = os[i].finish_time
          /\ new[i].from_city = more[os[i].from_city]
          /\ new[i].to_city = more[os[i].to_city]
      BY <1>1, <1>2, <2>3 DEF LoadedOrder
    <3>3. os[i].from_city = rows[i].from_city /\ os[i].to_city = rows[i].to_city
      BY <2>1, <3>1 DEF OrderIs, CityIs
    <3> QED
      BY <2>1, <2>3, <3>1, <3>2, <3>3 DEF OrderIs, CityIs
  <2> QED
    BY <2>2, <2>3
<1>4. Len(os) = Len(rows)
  BY DEF OrdersAre
<1> QED
  BY <1>2, <1>3, <1>4 DEF OrdersAre, new

-----------------------------------------------------------------------------
\* One row of roads more, which may replace what an earlier one said.
LEMMA DistRead ==
    ASSUME NEW roads, NEW rows \in Seq(DistRow), NEW r \in DistRow, DistsAre(roads, rows)
    PROVE  DistsAre(Put(roads, <<r.from, r.to>>, r.d), Append(rows, r))
<1> DEFINE more == Append(rows, r)
           new == Put(roads, Pair(r), r.d)
<1>1. Len(rows) \in Nat /\ DOMAIN rows = 1 .. Len(rows)
      /\ DOMAIN more = 1 .. Len(rows) + 1
      /\ (\A i \in 1 .. Len(rows) : more[i] = rows[i])
      /\ more[Len(rows) + 1] = r
  <2>1. Len(rows) \in Nat /\ DOMAIN rows = 1 .. Len(rows)
    OBVIOUS
  <2>2. /\ DOMAIN more = 1 .. Len(rows) + 1
        /\ \A i \in 1 .. Len(rows) : more[i] = rows[i]
    BY <2>1
  <2>3. more[Len(rows) + 1] = r
    OBVIOUS
  <2> QED
    BY <2>1, <2>2, <2>3
<1>2. /\ DOMAIN new = DOMAIN roads \cup {Pair(r)}
      /\ new[Pair(r)] = r.d
      /\ \A p \in DOMAIN roads : p # Pair(r) => new[p] = roads[p]
  <2> DEFINE value == r.d
             key == Pair(r)
  <2>1. new = Put(roads, key, value)
    OBVIOUS
  <2> HIDE DEF new, key, value
  <2>2. /\ DOMAIN Put(roads, key, value) = DOMAIN roads \cup {key}
        /\ Put(roads, key, value)[key] = value
        /\ \A p \in DOMAIN roads : p # key => Put(roads, key, value)[p] = roads[p]
    BY DEF Put
  <2> QED
    BY <2>1, <2>2 DEF value, key
<1> HIDE DEF more, new
<1>3. \A i : i \in 1 .. Len(rows) + 1 <=> i \in 1 .. Len(rows) \/ i = Len(rows) + 1
  BY <1>1
<1>4. DOMAIN roads = {Pair(rows[i]) : i \in DOMAIN rows}
  BY DEF DistsAre
<1>5. DOMAIN new = {Pair(more[i]) : i \in DOMAIN more}
  BY <1>1, <1>2, <1>3, <1>4
<1>6. ASSUME NEW i \in DOMAIN more, IsLast(more, i)
      PROVE  new[Pair(more[i])] = more[i].d
  <2>1. CASE i = Len(rows) + 1
    BY <1>1, <1>2, <2>1
  <2>2. CASE i \in 1 .. Len(rows)
    <3>1. Pair(more[i]) # Pair(r)
      <4>1. Len(rows) + 1 \in DOMAIN more /\ ~(Len(rows) + 1 <= i)
        BY <1>1, <2>2
      <4> QED
        BY <1>1, <1>6, <4>1 DEF IsLast, Pair
    <3>2. IsLast(rows, i)
      <4>1. \A j \in DOMAIN rows : j \in DOMAIN more /\ more[j] = rows[j]
        BY <1>1, <1>3
      <4> QED
        BY <1>1, <1>6, <2>2, <4>1 DEF IsLast
    <3>3. roads[Pair(rows[i])] = rows[i].d /\ Pair(rows[i]) \in DOMAIN roads
      BY <1>1, <1>4, <2>2, <3>2 DEF DistsAre
    <3> QED
      BY <1>1, <1>2, <2>2, <3>1, <3>3
  <2> QED
    BY <1>1, <1>3, <2>1, <2>2
<1>7. DistsAre(new, more)
  BY <1>5, <1>6 DEF DistsAre
<1> QED
  BY <1>7 DEF new, more, Pair

\* One road more is squeezed: no other has its two ids.
LEMMA DistSqueezed ==
    ASSUME NEW roads \in SUBSET (Nat \X Nat), IsFiniteSet(roads),
           NEW map, DOMAIN map = roads, NEW squeezed,
           NEW n \in 1 .. Cardinality(roads), NEW ids, NEW more, Grown(ids, more),
           \A a, b \in DOMAIN more : more[a] = more[b] => a = b,
           SqueezedAre(squeezed, map, n - 1, ids),
           IsNamed(Sorted(roads, Before)[n], more)
    PROVE  LET pair == Sorted(roads, Before)[n]
               key == Named(pair, more)
           IN  SqueezedAre(IF key \in DOMAIN squeezed THEN squeezed
                                                      ELSE Put(squeezed, key, map[pair]),
                           map, n, more)
<1> DEFINE pairs == Sorted(roads, Before)
           pair == pairs[n]
           key == Named(pair, more)
           new == Put(squeezed, key, map[pair])
<1>1. /\ Cardinality(roads) \in Nat
      /\ \A i \in 1 .. Cardinality(roads) : pairs[i] \in roads
      /\ \A i, j \in 1 .. Cardinality(roads) : pairs[i] = pairs[j] => i = j
  BY RoadsSorted
<1>2. \A i \in 1 .. n - 1 : i \in 1 .. Cardinality(roads) /\ i # n
  BY <1>1
<1>3. \A i \in 1 .. n - 1 : IsNamed(pairs[i], ids) /\ squeezed[Named(pairs[i], ids)] = map[pairs[i]]
  BY DEF SqueezedAre
<1>4. DOMAIN squeezed = {Named(pairs[i], ids) : i \in 1 .. n - 1}
  BY DEF SqueezedAre
<1> HIDE DEF pairs
<1>5. \A i \in 1 .. n - 1 : IsNamed(pairs[i], more) /\ Named(pairs[i], ids) = Named(pairs[i], more)
  BY <1>3 DEF IsNamed, Named, Grown
<1>6. \A i \in 1 .. n - 1 : Named(pairs[i], more) # key
  <2> SUFFICES ASSUME NEW i \in 1 .. n - 1, Named(pairs[i], more) = key PROVE FALSE
    OBVIOUS
  <2>1. IsNamed(pairs[i], more) /\ IsNamed(pair, more)
    BY <1>5 DEF pairs
  <2>2. pairs[i][1] = pair[1] /\ pairs[i][2] = pair[2]
    BY <2>1 DEF IsNamed, Named
  <2>3. pairs[i] \in Nat \X Nat /\ pair \in Nat \X Nat
    BY <1>1, <1>2
  <2>4. pairs[i] = pair
    BY <2>2, <2>3
  <2> QED
    BY <1>1, <1>2, <2>4
<1>7. key \notin DOMAIN squeezed
  BY <1>4, <1>5, <1>6
<1>8. /\ DOMAIN new = DOMAIN squeezed \cup {key}
      /\ new[key] = map[pair]
      /\ \A k \in DOMAIN squeezed : k # key => new[k] = squeezed[k]
  <2> DEFINE value == map[pair]
  <2>1. new = Put(squeezed, key, value)
    OBVIOUS
  <2> HIDE DEF new, key, pair, value
  <2>2. /\ DOMAIN Put(squeezed, key, value) = DOMAIN squeezed \cup {key}
        /\ Put(squeezed, key, value)[key] = value
        /\ \A k \in DOMAIN squeezed : k # key => Put(squeezed, key, value)[k] = squeezed[k]
    BY DEF Put
  <2> QED
    BY <2>1, <2>2 DEF value
<1> HIDE DEF new
<1>9. \A i : i \in 1 .. n <=> i \in 1 .. n - 1 \/ i = n
  BY <1>1
<1>10. DOMAIN new = {Named(pairs[i], more) : i \in 1 .. n}
  <2> HIDE DEF key
  <2>1. key = Named(pairs[n], more)
    BY DEF key
  <2>2. DOMAIN squeezed = {Named(pairs[i], more) : i \in 1 .. n - 1}
    BY <1>4, <1>5
  <2> QED
    BY <1>8, <1>9, <2>1, <2>2
<1>11. ASSUME NEW i \in 1 .. n
       PROVE  IsNamed(pairs[i], more) /\ new[Named(pairs[i], more)] = map[pairs[i]]
  <2>1. CASE i = n
    BY <1>8, <2>1 DEF pairs
  <2>2. CASE i \in 1 .. n - 1
    <3> DEFINE k == Named(pairs[i], more)
    <3>1. k \in DOMAIN squeezed /\ k # key
      BY <1>4, <1>5, <1>6, <2>2
    <3>2. new[k] = squeezed[k]
      BY <1>8, <3>1
    <3> QED
      BY <1>3, <1>5, <2>2, <3>2
  <2> QED
    BY <1>9, <2>1, <2>2
<1>12. n <= Cardinality(roads)
  BY <1>1
<1>13. SqueezedAre(new, map, n, more)
  BY <1>10, <1>11, <1>12 DEF SqueezedAre, pairs
<1> QED
  BY <1>7, <1>13 DEF new, pairs

\* When all are, the ids of every row's cities lead to what the last such row says.
LEMMA AllSqueezed ==
    ASSUME NEW roads, DOMAIN roads \in SUBSET (Nat \X Nat), IsFiniteSet(DOMAIN roads),
           NEW rows, NEW squeezed, NEW ids, DistsAre(roads, rows),
           SqueezedAre(squeezed, roads, Cardinality(DOMAIN roads), ids)
    PROVE  DistsById(squeezed, rows, ids)
<1> DEFINE pairs == Sorted(DOMAIN roads, Before)
           N == 1 .. Cardinality(DOMAIN roads)
<1>1. /\ \A i \in N : pairs[i] \in DOMAIN roads
      /\ \A pair \in DOMAIN roads : \E i \in N : pairs[i] = pair
  <2> DEFINE R == DOMAIN roads
  <2>1. R \in SUBSET (Nat \X Nat) /\ IsFiniteSet(R)
    OBVIOUS
  <2> HIDE DEF R
  <2>2. /\ \A i \in 1 .. Cardinality(R) : Sorted(R, Before)[i] \in R
        /\ \A pair \in R : \E i \in 1 .. Cardinality(R) : Sorted(R, Before)[i] = pair
    BY <2>1, RoadsSorted
  <2> QED
    BY <2>2 DEF R
<1>2. /\ DOMAIN squeezed = {Named(pairs[i], ids) : i \in N}
      /\ \A i \in N : IsNamed(pairs[i], ids)
                       /\ squeezed[Named(pairs[i], ids)] = roads[pairs[i]]
  BY DEF SqueezedAre
<1> HIDE DEF pairs, N
<1>3. DOMAIN roads = {Pair(rows[i]) : i \in DOMAIN rows}
  BY DEF DistsAre
<1>4. DOMAIN squeezed = {Named(pair, ids) : pair \in DOMAIN roads}
  BY <1>1, <1>2
<1>5. DOMAIN squeezed = {Named(Pair(rows[i]), ids) : i \in DOMAIN rows}
  BY <1>3, <1>4
<1>6. ASSUME NEW i \in DOMAIN rows
      PROVE  /\ IsNamed(Pair(rows[i]), ids)
             /\ IsLast(rows, i) => squeezed[Named(Pair(rows[i]), ids)] = rows[i].d
  <2>1. Pair(rows[i]) \in DOMAIN roads
    BY <1>3
  <2>2. PICK k \in N : pairs[k] = Pair(rows[i])
    BY <1>1, <2>1
  <2>3. /\ IsNamed(Pair(rows[i]), ids)
        /\ squeezed[Named(Pair(rows[i]), ids)] = roads[Pair(rows[i])]
    BY <1>2, <2>2
  <2> QED
    BY <2>3 DEF DistsAre
<1> QED
  BY <1>5, <1>6 DEF DistsById
-----------------------------------------------------------------------------
LEMMA SheetLonger ==
    /\ \A sheet \in Seq(TruckRow) : \A n \in DOMAIN sheet :
          /\ WithNumbers(SubSeq(sheet, 1, n - 1), TruckGiven) \in Seq(TruckRow)
          /\ WithNumbers(SubSeq(sheet, 1, n), TruckGiven)
               = IF TruckGiven(sheet[n])
                 THEN Append(WithNumbers(SubSeq(sheet, 1, n - 1), TruckGiven), sheet[n])
                 ELSE WithNumbers(SubSeq(sheet, 1, n - 1), TruckGiven)
    /\ \A sheet \in Seq(OrderRow) : \A n \in DOMAIN sheet :
          /\ WithNumbers(SubSeq(sheet, 1, n - 1), OrderGiven) \in Seq(OrderRow)
          /\ WithNumbers(SubSeq(sheet, 1, n), OrderGiven)
               = IF OrderGiven(sheet[n])
                 THEN Append(WithNumbers(SubSeq(sheet, 1, n - 1), OrderGiven), sheet[n])
                 ELSE WithNumbers(SubSeq(sheet, 1, n - 1), OrderGiven)
    /\ \A sheet \in Seq(DistRow) : \A n \in DOMAIN sheet :
          /\ WithNumbers(SubSeq(sheet, 1, n - 1), DistGiven) \in Seq(DistRow)
          /\ WithNumbers(SubSeq(sheet, 1, n), DistGiven)
               = IF DistGiven(sheet[n])
                 THEN Append(WithNumbers(SubSeq(sheet, 1, n - 1), DistGiven), sheet[n])
                 ELSE WithNumbers(SubSeq(sheet, 1, n - 1), DistGiven)
<1> DEFINE T == {r \in TruckRow : TruckGiven(r)}
           O == {r \in OrderRow : OrderGiven(r)}
           D == {r \in DistRow : DistGiven(r)}
<1>1. ASSUME NEW R, NEW sheet \in Seq(R), NEW n \in DOMAIN sheet
      PROVE  SubSeq(sheet, 1, n - 1) \in Seq(R) /\ SubSeq(sheet, 1, n) \in Seq(R)
             /\ sheet[n] \in R
  <2>1. n - 1 \in Nat /\ n \in Nat /\ n <= Len(sheet) /\ n - 1 <= Len(sheet)
    OBVIOUS
  <2> QED
    BY <2>1
<1>2. ASSUME NEW sheet \in Seq(TruckRow), NEW n \in DOMAIN sheet
      PROVE  /\ WithNumbers(SubSeq(sheet, 1, n - 1), TruckGiven) \in Seq(TruckRow)
             /\ WithNumbers(SubSeq(sheet, 1, n), TruckGiven)
                  = IF TruckGiven(sheet[n])
                    THEN Append(WithNumbers(SubSeq(sheet, 1, n - 1), TruckGiven), sheet[n])
                    ELSE WithNumbers(SubSeq(sheet, 1, n - 1), TruckGiven)
  <2> DEFINE before == SubSeq(sheet, 1, n - 1)
             with == SubSeq(sheet, 1, n)
  <2>1. before \in Seq(TruckRow) /\ with \in Seq(TruckRow) /\ sheet[n] \in TruckRow
    BY <1>1
  <2>2. sheet[n] \in T <=> TruckGiven(sheet[n])
    BY <2>1
  <2>3. Among(with, T) = IF sheet[n] \in T THEN Append(Among(before, T), sheet[n])
                                           ELSE Among(before, T)
    BY AmongLonger
  <2> HIDE DEF before, with
  <2>4. /\ WithNumbers(before, TruckGiven) = Among(before, T)
        /\ WithNumbers(with, TruckGiven) = Among(with, T)
    BY <2>1, WithNumbersAmong
  <2> HIDE DEF T
  <2>5. Among(before, T) \in Seq(TruckRow)
    BY <2>1, AmongOf
  <2> QED
    BY <2>2, <2>3, <2>4, <2>5 DEF before, with
<1>3. ASSUME NEW sheet \in Seq(OrderRow), NEW n \in DOMAIN sheet
      PROVE  /\ WithNumbers(SubSeq(sheet, 1, n - 1), OrderGiven) \in Seq(OrderRow)
             /\ WithNumbers(SubSeq(sheet, 1, n), OrderGiven)
                  = IF OrderGiven(sheet[n])
                    THEN Append(WithNumbers(SubSeq(sheet, 1, n - 1), OrderGiven), sheet[n])
                    ELSE WithNumbers(SubSeq(sheet, 1, n - 1), OrderGiven)
  <2> DEFINE before == SubSeq(sheet, 1, n - 1)
             with == SubSeq(sheet, 1, n)
  <2>1. before \in Seq(OrderRow) /\ with \in Seq(OrderRow) /\ sheet[n] \in OrderRow
    BY <1>1
  <2>2. sheet[n] \in O <=> OrderGiven(sheet[n])
    BY <2>1
  <2>3. Among(with, O) = IF sheet[n] \in O THEN Append(Among(before, O), sheet[n])
                                           ELSE Among(before, O)
    BY AmongLonger
  <2> HIDE DEF before, with
  <2>4. /\ WithNumbers(before, OrderGiven) = Among(before, O)
        /\ WithNumbers(with, OrderGiven) = Among(with, O)
    BY <2>1, WithNumbersAmong
  <2> HIDE DEF O
  <2>5. Among(before, O) \in Seq(OrderRow)
    BY <2>1, AmongOf
  <2> QED
    BY <2>2, <2>3, <2>4, <2>5 DEF before, with
<1>4. ASSUME NEW sheet \in Seq(DistRow), NEW n \in DOMAIN sheet
      PROVE  /\ WithNumbers(SubSeq(sheet, 1, n - 1), DistGiven) \in Seq(DistRow)
             /\ WithNumbers(SubSeq(sheet, 1, n), DistGiven)
                  = IF DistGiven(sheet[n])
                    THEN Append(WithNumbers(SubSeq(sheet, 1, n - 1), DistGiven), sheet[n])
                    ELSE WithNumbers(SubSeq(sheet, 1, n - 1), DistGiven)
  <2> DEFINE before == SubSeq(sheet, 1, n - 1)
             with == SubSeq(sheet, 1, n)
  <2>1. before \in Seq(DistRow) /\ with \in Seq(DistRow) /\ sheet[n] \in DistRow
    BY <1>1
  <2>2. sheet[n] \in D <=> DistGiven(sheet[n])
    BY <2>1
  <2>3. Among(with, D) = IF sheet[n] \in D THEN Append(Among(before, D), sheet[n])
                                           ELSE Among(before, D)
    BY AmongLonger
  <2> HIDE DEF before, with
  <2>4. /\ WithNumbers(before, DistGiven) = Among(before, D)
        /\ WithNumbers(with, DistGiven) = Among(with, D)
    BY <2>1, WithNumbersAmong
  <2> HIDE DEF D
  <2>5. Among(before, D) \in Seq(DistRow)
    BY <2>1, AmongOf
  <2> QED
    BY <2>2, <2>3, <2>4, <2>5 DEF before, with
<1> QED
  BY <1>2, <1>3, <1>4

\* Before the first row.
LEMMA SheetStarts ==
    /\ \A sheet \in Seq(TruckRow) : WithNumbers(SubSeq(sheet, 1, 0), TruckGiven) = <<>>
    /\ \A sheet \in Seq(OrderRow) : WithNumbers(SubSeq(sheet, 1, 0), OrderGiven) = <<>>
    /\ \A sheet \in Seq(DistRow) : WithNumbers(SubSeq(sheet, 1, 0), DistGiven) = <<>>
<1>1. ASSUME NEW R, NEW sheet \in Seq(R), NEW G
      PROVE  SubSeq(sheet, 1, 0) \in Seq(R) /\ Among(SubSeq(sheet, 1, 0), G) = <<>>
  <2>1. SubSeq(sheet, 1, 0) \in Seq(R)
    OBVIOUS
  <2> DEFINE kept == Among(SubSeq(sheet, 1, 0), G)
  <2>2. kept \in Seq(R)
    BY <2>1, AmongOf
  <2>3. Len(kept) = 0
    BY SheetGrows
  <2> HIDE DEF kept
  <2>4. kept = <<>>
    BY <2>2, <2>3
  <2> QED
    BY <2>1, <2>4 DEF kept
<1>2. ASSUME NEW sheet \in Seq(TruckRow)
      PROVE  WithNumbers(SubSeq(sheet, 1, 0), TruckGiven) = <<>>
  BY <1>1, WithNumbersAmong
<1>3. ASSUME NEW sheet \in Seq(OrderRow)
      PROVE  WithNumbers(SubSeq(sheet, 1, 0), OrderGiven) = <<>>
  BY <1>1, WithNumbersAmong
<1>4. ASSUME NEW sheet \in Seq(DistRow)
      PROVE  WithNumbers(SubSeq(sheet, 1, 0), DistGiven) = <<>>
  BY <1>1, WithNumbersAmong
<1> QED
  BY <1>2, <1>3, <1>4

\* What the rows are does not change.
LEMMA SheetsStay ==
    ASSUME file' = file
    PROVE  TruckRows' = TruckRows /\ OrderRows' = OrderRows /\ DistRows' = DistRows
BY DEF TruckRows, OrderRows, DistRows, Rows, WithNumbers, KeptAt, Ascending, Sorted

-----------------------------------------------------------------------------
LEMMA RowsInit == Init => RowsInv
BY DEF Init, RowsInv, StageInv, TrucksInv, OrdersInv, DistsInv

LEMMA ReadParamRows ==
    ASSUME TypeInv, RowsInv, ReadParam
    PROVE  RowsInv'
<1>1. /\ pc = "params" /\ pc' \in {"params", "aborted"}
      /\ UNCHANGED <<trucks, orders, dists, min_timestamp, item, squeezed_dists>>
  BY DEF ReadParam, squeezing
<1> QED
  BY <1>1 DEF RowsInv, StageInv, TrucksInv, OrdersInv, DistsInv

LEMMA ReadTruckRows ==
    ASSUME TypeInv, RowsInv, ReadTruck
    PROVE  RowsInv'
<1>1. pc = "trucks" /\ ~EndOfSheet(file.trucks, "truck_id") /\ file \in Files
  BY DEF ReadTruck, TypeInv, TypeOK
<1>2. UNCHANGED <<file, params, orders, dists, min_timestamp, squeezing>>
  BY DEF ReadTruck
<1>3. InSheet(file.trucks, "truck_id") /\ row \in Nat \ {0}
  BY <1>1 DEF TypeInv, ReadingOK, TypeOK
<1> DEFINE r == file.trucks[row]
           before == WithNumbers(SubSeq(file.trucks, 1, row - 1), TruckGiven)
           with == WithNumbers(SubSeq(file.trucks, 1, row), TruckGiven)
<1>4. r \in TruckRow /\ row \in DOMAIN file.trucks /\ file.trucks \in Seq(TruckRow)
  BY <1>1, <1>3, FileTypes, RowInSheet
<1>5. \/ /\ TruckGiven(r) => r.load_type \in DOMAIN LoadMasks
         /\ row' = row + 1 /\ pc' = pc
         /\ trucks' = IF TruckGiven(r) THEN Append(trucks, TruckOf(r)) ELSE trucks
      \/ pc' = "aborted" /\ row' = row /\ trucks' = trucks
  BY DEF ReadTruck, MasksReadable
<1>6. before \in Seq(TruckRow) /\ with = IF TruckGiven(r) THEN Append(before, r) ELSE before
  BY <1>4, SheetLonger
<1>7. /\ TrucksAre(trucks, before, 0, 0, real_city_to_id)
      /\ orders = <<>> /\ dists = NoElements
      /\ min_timestamp = 0 /\ squeezed_dists = NoElements /\ item = 1
  BY <1>1 DEF RowsInv, StageInv, TrucksInv, OrdersInv, DistsInv
<1>8. pc' = "trucks" =>
         TrucksAre(trucks', WithNumbers(SubSeq(file.trucks', 1, row' - 1), TruckGiven),
                   0, min_timestamp', real_city_to_id')
  <2> SUFFICES ASSUME pc' = "trucks"
               PROVE  TrucksAre(trucks', WithNumbers(SubSeq(file.trucks, 1, row' - 1), TruckGiven),
                                0, 0, real_city_to_id)
    BY <1>2, <1>7 DEF squeezing
  <2>1. row' - 1 = row
    BY <1>3, <1>5
  <2>2. TrucksAre(trucks', with, 0, 0, real_city_to_id)
    <3>1. trucks \in Seq(LoadedTruck)
      BY DEF TypeInv, TypeOK
    <3>2. CASE TruckGiven(r)
      <4>1. trucks' = Append(trucks, TruckOf(r)) /\ TruckOf(r) \in LoadedTruck
        BY <1>4, <1>5, <3>2, TruckOfType
      <4>2. with = Append(before, r)
        BY <1>6, <3>2
      <4> HIDE DEF before, with, r
      <4> QED
        BY <1>4, <1>6, <1>7, <3>1, <3>2, <4>1, <4>2, TruckRead
    <3>3. CASE ~TruckGiven(r)
      <4>1. trucks' = trucks /\ with = before
        BY <1>5, <1>6, <3>3
      <4> HIDE DEF before, with, r
      <4> QED
        BY <1>7, <4>1
    <3> QED
      BY <3>2, <3>3
  <2> QED
    BY <2>1, <2>2
<1>9. pc' \in {"trucks", "aborted"}
  BY <1>1, <1>5
<1>10. StageInv'
  BY <1>2, <1>7, <1>9 DEF StageInv, squeezing
<1>11. OrdersInv' /\ DistsInv'
  BY <1>2, <1>7, <1>9 DEF OrdersInv, DistsInv
<1>12. TrucksInv'
  BY <1>8, <1>9 DEF TrucksInv
<1> QED
  BY <1>10, <1>11, <1>12 DEF RowsInv
-----------------------------------------------------------------------------
LEMMA ReadOrderRows ==
    ASSUME TypeInv, RowsInv, ReadOrder
    PROVE  RowsInv'
<1>1. pc = "orders" /\ ~EndOfSheet(file.orders, "order_id") /\ file \in Files
  BY DEF ReadOrder, TypeInv, TypeOK
<1>2. UNCHANGED <<file, params, trucks, dists, min_timestamp, squeezing>>
  BY DEF ReadOrder
<1>3. InSheet(file.orders, "order_id") /\ row \in Nat \ {0}
  BY <1>1 DEF TypeInv, ReadingOK, TypeOK
<1> DEFINE r == file.orders[row]
           before == WithNumbers(SubSeq(file.orders, 1, row - 1), OrderGiven)
           with == WithNumbers(SubSeq(file.orders, 1, row), OrderGiven)
<1>4. r \in OrderRow /\ row \in DOMAIN file.orders /\ file.orders \in Seq(OrderRow)
  BY <1>1, <1>3, FileTypes, RowInSheet
<1>5. \/ /\ OrderGiven(r) => r.order_id # 0 /\ r.load_type \in DOMAIN LoadMasks
         /\ row' = row + 1 /\ pc' = pc
         /\ orders' = IF OrderGiven(r) THEN Append(orders, OrderOf(r)) ELSE orders
      \/ pc' = "aborted" /\ row' = row /\ orders' = orders
  BY DEF ReadOrder, MasksReadable
<1>6. before \in Seq(OrderRow) /\ with = IF OrderGiven(r) THEN Append(before, r) ELSE before
  BY <1>4, SheetLonger
<1>7. /\ OrdersAre(orders, before, 0, 0, real_city_to_id)
      /\ TrucksAre(trucks, TruckRows, 0, 0, real_city_to_id) /\ dists = NoElements
      /\ min_timestamp = 0 /\ squeezed_dists = NoElements /\ item = 1
  BY <1>1 DEF RowsInv, StageInv, TrucksInv, OrdersInv, DistsInv
<1>8. pc' = "orders" =>
         OrdersAre(orders', WithNumbers(SubSeq(file.orders', 1, row' - 1), OrderGiven),
                   0, min_timestamp', real_city_to_id')
  <2> SUFFICES ASSUME pc' = "orders"
               PROVE  OrdersAre(orders', WithNumbers(SubSeq(file.orders, 1, row' - 1), OrderGiven),
                                0, 0, real_city_to_id)
    BY <1>2, <1>7 DEF squeezing
  <2>1. row' - 1 = row
    BY <1>3, <1>5
  <2>2. OrdersAre(orders', with, 0, 0, real_city_to_id)
    <3>1. orders \in Seq(LoadedOrder)
      BY DEF TypeInv, TypeOK, LoadedOrder
    <3>2. CASE OrderGiven(r)
      <4>1. orders' = Append(orders, OrderOf(r)) /\ OrderOf(r) \in LoadedOrder
        BY <1>4, <1>5, <3>2, OrderOfType
      <4>2. with = Append(before, r)
        BY <1>6, <3>2
      <4> HIDE DEF before, with, r
      <4> QED
        BY <1>4, <1>6, <1>7, <3>1, <3>2, <4>1, <4>2, OrderRead
    <3>3. CASE ~OrderGiven(r)
      <4>1. orders' = orders /\ with = before
        BY <1>5, <1>6, <3>3
      <4> HIDE DEF before, with, r
      <4> QED
        BY <1>7, <4>1
    <3> QED
      BY <3>2, <3>3
  <2> QED
    BY <2>1, <2>2
<1>9. pc' \in {"orders", "aborted"}
  BY <1>1, <1>5
<1>10. StageInv'
  BY <1>2, <1>7, <1>9 DEF StageInv, squeezing
<1>11. TrucksInv'
  BY <1>2, <1>7, <1>9, SheetsStay DEF TrucksInv, squeezing
<1>12. OrdersInv' /\ DistsInv'
  BY <1>2, <1>7, <1>8, <1>9 DEF OrdersInv, DistsInv
<1> QED
  BY <1>10, <1>11, <1>12 DEF RowsInv

LEMMA ReadDistRows ==
    ASSUME TypeInv, RowsInv, ReadDist
    PROVE  RowsInv'
<1>1. pc = "dists" /\ ~EndOfSheet(file.dists, "from") /\ file \in Files
  BY DEF ReadDist, TypeInv, TypeOK
<1>2. /\ UNCHANGED <<file, params, trucks, orders, min_timestamp, squeezing, pc>>
      /\ row' = row + 1
  BY DEF ReadDist
<1>3. InSheet(file.dists, "from") /\ row \in Nat \ {0}
  BY <1>1 DEF TypeInv, ReadingOK, TypeOK
<1> DEFINE r == file.dists[row]
           before == WithNumbers(SubSeq(file.dists, 1, row - 1), DistGiven)
           with == WithNumbers(SubSeq(file.dists, 1, row), DistGiven)
<1>4. r \in DistRow /\ row \in DOMAIN file.dists /\ file.dists \in Seq(DistRow)
  BY <1>1, <1>3, FileTypes, RowInSheet
<1>5. dists' = IF DistGiven(r) THEN Put(dists, <<r.from, r.to>>, r.d) ELSE dists
  BY DEF ReadDist
<1>6. before \in Seq(DistRow) /\ with = IF DistGiven(r) THEN Append(before, r) ELSE before
  BY <1>4, SheetLonger
<1>7. /\ DistsAre(dists, before)
      /\ TrucksAre(trucks, TruckRows, 0, 0, real_city_to_id)
      /\ OrdersAre(orders, OrderRows, 0, 0, real_city_to_id)
      /\ min_timestamp = 0 /\ squeezed_dists = NoElements /\ item = 1
  BY <1>1 DEF RowsInv, StageInv, TrucksInv, OrdersInv, DistsInv
<1>8. DistsAre(dists', with)
  <2>1. CASE DistGiven(r)
    <3>1. dists' = Put(dists, <<r.from, r.to>>, r.d) /\ with = Append(before, r)
      BY <1>5, <1>6, <2>1
    <3> HIDE DEF before, with, r
    <3> QED
      BY <1>4, <1>6, <1>7, <3>1, DistRead
  <2>2. CASE ~DistGiven(r)
    <3>1. dists' = dists /\ with = before
      BY <1>5, <1>6, <2>2
    <3> HIDE DEF before, with, r
    <3> QED
      BY <1>7, <3>1
  <2> QED
    BY <2>1, <2>2
<1>9. DistsAre(dists', WithNumbers(SubSeq(file.dists', 1, row' - 1), DistGiven))
  <2>1. row' - 1 = row /\ file' = file
    BY <1>2, <1>3
  <2> QED
    BY <1>8, <2>1
<1>10. StageInv'
  BY <1>1, <1>2, <1>7 DEF StageInv, squeezing
<1>11. TrucksInv' /\ OrdersInv'
  BY <1>1, <1>2, <1>7, SheetsStay DEF TrucksInv, OrdersInv, squeezing
<1>12. DistsInv'
  BY <1>1, <1>2, <1>9 DEF DistsInv
<1> QED
  BY <1>10, <1>11, <1>12 DEF RowsInv

LEMMA NextSheetRows ==
    ASSUME TypeInv, RowsInv, NextSheet
    PROVE  RowsInv'
<1>1. /\ row' = 1 /\ UNCHANGED <<file, loaded, min_timestamp, squeezing>>
      /\ row \in Nat \ {0} /\ file \in Files
  BY DEF NextSheet, TypeInv, TypeOK
<1>2. /\ UNCHANGED <<file, trucks, orders, dists, min_timestamp, real_city_to_id, item,
                     squeezed_dists>>
      /\ TruckRows' = TruckRows /\ OrderRows' = OrderRows /\ DistRows' = DistRows
      /\ row' - 1 = 0
  BY <1>1, SheetsStay DEF loaded, squeezing
<1>3. /\ file.params \in Seq(ParamRow) /\ file.trucks \in Seq(TruckRow)
      /\ file.orders \in Seq(OrderRow) /\ file.dists \in Seq(DistRow)
  BY <1>1, FileTypes
<1>4. /\ TrucksAre(<<>>, <<>>, 0, 0, real_city_to_id)
      /\ OrdersAre(<<>>, <<>>, 0, 0, real_city_to_id)
      /\ DistsAre(NoElements, <<>>)
  <2>1. DOMAIN NoElements = {} /\ DOMAIN <<>> = {}
    BY DEF NoElements
  <2>2. Len(<<>>) = 0 /\ 1 .. 0 = {}
    OBVIOUS
  <2> QED
    BY <2>1, <2>2 DEF TrucksAre, OrdersAre, DistsAre
<1>5. CASE pc = "params"
  <2>1. pc' = "trucks"
    BY <1>5 DEF NextSheet
  <2>2. /\ trucks = <<>> /\ orders = <<>> /\ dists = NoElements
        /\ min_timestamp = 0 /\ squeezed_dists = NoElements /\ item = 1
    BY <1>5 DEF RowsInv, StageInv, TrucksInv, OrdersInv, DistsInv
  <2>3. TrucksInv'
    BY <1>2, <1>3, <1>4, <2>1, <2>2, SheetStarts DEF TrucksInv
  <2>4. StageInv' /\ OrdersInv' /\ DistsInv'
    BY <1>2, <2>1, <2>2 DEF StageInv, OrdersInv, DistsInv
  <2> QED
    BY <2>3, <2>4 DEF RowsInv
<1>6. CASE pc = "trucks"
  <2>1. pc' = "orders" /\ EndOfSheet(file.trucks, "truck_id")
    BY <1>6 DEF NextSheet
  <2>2. /\ orders = <<>> /\ dists = NoElements
        /\ min_timestamp = 0 /\ squeezed_dists = NoElements /\ item = 1
        /\ TrucksAre(trucks, WithNumbers(SubSeq(file.trucks, 1, row - 1), TruckGiven),
                     0, 0, real_city_to_id)
    BY <1>6 DEF RowsInv, StageInv, TrucksInv, OrdersInv, DistsInv
  <2>3. TruckRows = WithNumbers(SubSeq(file.trucks, 1, row - 1), TruckGiven)
    <3>1. Rows(file.trucks, "truck_id") = SubSeq(file.trucks, 1, row - 1)
      BY <1>1, <1>3, <1>6, <2>1, RowsRead DEF TypeInv, ReadingOK
    <3> QED
      BY <3>1 DEF TruckRows
  <2>4. TrucksInv'
    BY <1>2, <2>1, <2>2, <2>3 DEF TrucksInv
  <2>5. OrdersInv'
    BY <1>2, <1>3, <1>4, <2>1, <2>2, SheetStarts DEF OrdersInv
  <2>6. StageInv' /\ DistsInv'
    BY <1>2, <2>1, <2>2 DEF StageInv, DistsInv
  <2> QED
    BY <2>4, <2>5, <2>6 DEF RowsInv
<1>7. CASE pc = "orders"
  <2>1. pc' = "dists" /\ EndOfSheet(file.orders, "order_id")
    BY <1>7 DEF NextSheet
  <2>2. /\ dists = NoElements
        /\ min_timestamp = 0 /\ squeezed_dists = NoElements /\ item = 1
        /\ TrucksAre(trucks, TruckRows, 0, 0, real_city_to_id)
        /\ OrdersAre(orders, WithNumbers(SubSeq(file.orders, 1, row - 1), OrderGiven),
                     0, 0, real_city_to_id)
    BY <1>7 DEF RowsInv, StageInv, TrucksInv, OrdersInv, DistsInv
  <2>3. OrderRows = WithNumbers(SubSeq(file.orders, 1, row - 1), OrderGiven)
    <3>1. Rows(file.orders, "order_id") = SubSeq(file.orders, 1, row - 1)
      BY <1>1, <1>3, <1>7, <2>1, RowsRead DEF TypeInv, ReadingOK
    <3> QED
      BY <3>1 DEF OrderRows
  <2>4. TrucksInv' /\ OrdersInv'
    BY <1>2, <2>1, <2>2, <2>3 DEF TrucksInv, OrdersInv
  <2>5. DistsInv'
    BY <1>2, <1>3, <1>4, <2>1, <2>2, SheetStarts DEF DistsInv
  <2>6. StageInv'
    BY <1>2, <2>1, <2>2 DEF StageInv
  <2> QED
    BY <2>4, <2>5, <2>6 DEF RowsInv
<1>8. CASE pc = "dists"
  <2>1. pc' = "shift" /\ EndOfSheet(file.dists, "from")
    BY <1>8 DEF NextSheet
  <2>2. /\ min_timestamp = 0 /\ squeezed_dists = NoElements /\ item = 1
        /\ TrucksAre(trucks, TruckRows, 0, 0, real_city_to_id)
        /\ OrdersAre(orders, OrderRows, 0, 0, real_city_to_id)
        /\ DistsAre(dists, WithNumbers(SubSeq(file.dists, 1, row - 1), DistGiven))
    BY <1>8 DEF RowsInv, StageInv, TrucksInv, OrdersInv, DistsInv
  <2>3. DistRows = WithNumbers(SubSeq(file.dists, 1, row - 1), DistGiven)
    <3>1. Rows(file.dists, "from") = SubSeq(file.dists, 1, row - 1)
      BY <1>1, <1>3, <1>8, <2>1, RowsRead DEF TypeInv, ReadingOK
    <3> QED
      BY <3>1 DEF DistRows
  <2>4. TrucksInv' /\ OrdersInv'
    BY <1>2, <2>1, <2>2 DEF TrucksInv, OrdersInv
  <2>5. DistsInv' /\ StageInv'
    BY <1>2, <2>1, <2>2, <2>3 DEF DistsInv, StageInv
  <2> QED
    BY <2>4, <2>5 DEF RowsInv
<1> QED
  BY <1>5, <1>6, <1>7, <1>8 DEF NextSheet
-----------------------------------------------------------------------------
LEMMA ShiftRows ==
    ASSUME TypeInv, RowsInv, ShiftTimestamps
    PROVE  RowsInv'
<1>1. /\ min_timestamp' = EarliestTime
      /\ trucks' = [t \in DOMAIN trucks |-> [trucks[t] EXCEPT !.init_time = @ - EarliestTime]]
      /\ orders' = [o \in DOMAIN orders |-> Shifted(orders[o], EarliestTime)]
      /\ pc = "shift" /\ pc' = "squeeze_trucks"
      /\ UNCHANGED <<file, row, params, dists, squeezing>>
  BY DEF ShiftTimestamps
<1>2. trucks \in Seq(LoadedTruck) /\ orders \in Seq(LoadedOrder) /\ file \in Files
  BY DEF TypeInv, TypeOK, LoadedOrder
<1> DEFINE min == EarliestTime
<1>3. min \in Nat
  BY <1>2, EarliestTimeOf
<1>4. /\ min_timestamp = 0 /\ squeezed_dists = NoElements /\ item = 1
      /\ TrucksAre(trucks, TruckRows, 0, 0, real_city_to_id)
      /\ OrdersAre(orders, OrderRows, 0, 0, real_city_to_id)
      /\ DistsAre(dists, DistRows)
  BY <1>1 DEF RowsInv, StageInv, TrucksInv, OrdersInv, DistsInv
<1>5. /\ TruckRows \in Seq(TruckRow)
      /\ \A i \in DOMAIN TruckRows : TruckRows[i].init_time \in Nat
  <2> DEFINE rows == TruckRows
  <2>1. rows \in Seq({r \in TruckRow : TruckGiven(r)})
    BY <1>2, SheetRows
  <2> HIDE DEF rows
  <2>2. rows \in Seq(TruckRow) /\ \A i \in DOMAIN rows : rows[i] \in TruckRow /\ TruckGiven(rows[i])
    BY <2>1
  <2>3. \A i \in DOMAIN rows : rows[i].init_time \in Nat
    BY <2>2, NumberOf
  <2> QED
    BY <2>2, <2>3 DEF rows
<1>6. /\ OrderRows \in Seq(OrderRow)
      /\ \A i \in DOMAIN OrderRows : OrderRows[i].start_time \in Nat
                                     /\ OrderRows[i].finish_time \in 0 .. UIntRange - 1
  <2> DEFINE rows == OrderRows
  <2>1. rows \in Seq({r \in OrderRow : OrderGiven(r)})
    BY <1>2, SheetRows
  <2> HIDE DEF rows
  <2>2. rows \in Seq(OrderRow) /\ \A i \in DOMAIN rows : rows[i] \in OrderRow /\ OrderGiven(rows[i])
    BY <2>1
  <2>3. \A i \in DOMAIN rows : rows[i].start_time \in Nat
                               /\ rows[i].finish_time \in 0 .. UIntRange - 1
    BY <2>2, NumberOf
  <2> QED
    BY <2>2, <2>3 DEF rows
<1> HIDE DEF min
<1>7. /\ trucks' = [t \in DOMAIN trucks |-> [trucks[t] EXCEPT !.init_time = @ - min]]
      /\ orders' = [o \in DOMAIN orders |-> Shifted(orders[o], min)]
      /\ min_timestamp' = min
  BY <1>1 DEF min
<1>8. TrucksAre(trucks', TruckRows, 0, min, real_city_to_id)
  BY <1>2, <1>3, <1>4, <1>5, <1>7, TrucksShifted
<1>9. OrdersAre(orders', OrderRows, 0, min, real_city_to_id)
  BY <1>2, <1>3, <1>4, <1>6, <1>7, OrdersShifted
<1>10. /\ UNCHANGED <<file, dists, real_city_to_id, item, squeezed_dists>>
       /\ TruckRows' = TruckRows /\ OrderRows' = OrderRows /\ DistRows' = DistRows
       /\ item' - 1 = 0
  BY <1>1, <1>4, SheetsStay DEF squeezing
<1>11. TrucksInv' /\ OrdersInv'
  BY <1>1, <1>7, <1>8, <1>9, <1>10 DEF TrucksInv, OrdersInv
<1>12. DistsInv' /\ StageInv'
  BY <1>1, <1>4, <1>10 DEF DistsInv, StageInv
<1> QED
  BY <1>11, <1>12 DEF RowsInv

\* What squeeze_city does to real_city_to_id.
LEMMA IdsGrow ==
    ASSUME CitiesInv
    PROVE  /\ \A a : Keep(squeeze_city(Ids, a)) =>
                 Grown(real_city_to_id, real_city_to_id') /\ a \in DOMAIN real_city_to_id'
           /\ \A a, b : Keep(squeeze_city(squeeze_city(Ids, a), b)) =>
                 /\ Grown(real_city_to_id, real_city_to_id')
                 /\ a \in DOMAIN real_city_to_id' /\ b \in DOMAIN real_city_to_id'
<1>1. MutualInverse(Ids) /\ Ids.to_id = real_city_to_id
  BY DEF CitiesInv, Ids
<1>2. ASSUME NEW a, Keep(squeeze_city(Ids, a))
      PROVE  Grown(real_city_to_id, real_city_to_id') /\ a \in DOMAIN real_city_to_id'
  <2> DEFINE new == squeeze_city(Ids, a)
  <2>1. /\ a \in DOMAIN new.to_id /\ DOMAIN Ids.to_id \subseteq DOMAIN new.to_id
        /\ \A c \in DOMAIN Ids.to_id : new.to_id[c] = Ids.to_id[c]
    BY <1>1, SqueezedIds
  <2>2. real_city_to_id' = new.to_id
    BY <1>2 DEF Keep
  <2> HIDE DEF new
  <2> QED
    BY <1>1, <2>1, <2>2 DEF Grown
<1>3. ASSUME NEW a, NEW b, Keep(squeeze_city(squeeze_city(Ids, a), b))
      PROVE  /\ Grown(real_city_to_id, real_city_to_id')
             /\ a \in DOMAIN real_city_to_id' /\ b \in DOMAIN real_city_to_id'
  <2> DEFINE new == squeeze_city(squeeze_city(Ids, a), b)
  <2>1. /\ a \in DOMAIN new.to_id /\ b \in DOMAIN new.to_id
        /\ DOMAIN Ids.to_id \subseteq DOMAIN new.to_id
        /\ \A c \in DOMAIN Ids.to_id : new.to_id[c] = Ids.to_id[c]
    BY <1>1, TwoSqueezed
  <2>2. real_city_to_id' = new.to_id
    BY <1>3 DEF Keep
  <2> HIDE DEF new
  <2> QED
    BY <1>1, <2>1, <2>2 DEF Grown
<1> QED
  BY <1>2, <1>3

LEMMA SqueezeTruckRows ==
    ASSUME TypeInv, RowsInv, SqueezeTruck
    PROVE  RowsInv'
<1> DEFINE city == trucks[item].init_city
           ids == squeeze_city(Ids, city)
<1>1. /\ pc = "squeeze_trucks" /\ item <= Len(trucks)
      /\ Keep(ids) /\ trucks' = [trucks EXCEPT ![item].init_city = ids.to_id[@]]
      /\ item' = item + 1
      /\ UNCHANGED <<file, row, params, orders, dists, min_timestamp, squeezed_dists, pc>>
  BY DEF SqueezeTruck
<1>2. trucks \in Seq(LoadedTruck) /\ item \in Nat \ {0} /\ item \in DOMAIN trucks
  BY <1>1 DEF TypeInv, TypeOK
<1>3. Grown(real_city_to_id, real_city_to_id') /\ city \in DOMAIN real_city_to_id'
  BY <1>1, IdsGrow DEF TypeInv
<1>4. trucks' = [trucks EXCEPT ![item].init_city = real_city_to_id'[@]]
  <2> HIDE DEF ids
  <2> QED
    BY <1>1 DEF Keep
<1>5. /\ TrucksAre(trucks, TruckRows, item - 1, min_timestamp, real_city_to_id)
      /\ OrdersAre(orders, OrderRows, 0, min_timestamp, real_city_to_id)
      /\ DistsAre(dists, DistRows) /\ squeezed_dists = NoElements
  BY <1>1 DEF RowsInv, StageInv, TrucksInv, OrdersInv, DistsInv
<1> HIDE DEF ids
<1>6. TrucksAre(trucks', TruckRows, item, min_timestamp, real_city_to_id')
  <2> DEFINE more == real_city_to_id'
  <2>1. TrucksAre([trucks EXCEPT ![item].init_city = more[@]], TruckRows, item, min_timestamp,
                  more)
    <3> HIDE DEF more
    <3> QED
      BY <1>2, <1>3, <1>5, TruckSqueezed DEF more
  <2> QED
    BY <1>4, <2>1
<1>7. OrdersAre(orders, OrderRows, 0, min_timestamp, real_city_to_id')
  BY <1>3, <1>5, OrdersGrow
<1>8. /\ TruckRows' = TruckRows /\ OrderRows' = OrderRows /\ DistRows' = DistRows
      /\ item' - 1 = item
  BY <1>1, <1>2, SheetsStay
<1>9. TrucksInv' /\ OrdersInv'
  BY <1>1, <1>6, <1>7, <1>8 DEF TrucksInv, OrdersInv
<1>10. StageInv' /\ DistsInv'
  BY <1>1, <1>5, <1>8 DEF StageInv, DistsInv
<1> QED
  BY <1>9, <1>10 DEF RowsInv

LEMMA SqueezeOrderRows ==
    ASSUME TypeInv, RowsInv, SqueezeOrder
    PROVE  RowsInv'
<1> DEFINE from == orders[item].from_city
           to == orders[item].to_city
           ids == squeeze_city(squeeze_city(Ids, from), to)
<1>1. /\ pc = "squeeze_orders" /\ item <= Len(orders)
      /\ Keep(ids)
      /\ orders' = [orders EXCEPT ![item].from_city = ids.to_id[@],
                                  ![item].to_city = ids.to_id[@]]
      /\ item' = item + 1
      /\ UNCHANGED <<file, row, params, trucks, dists, min_timestamp, squeezed_dists, pc>>
  BY DEF SqueezeOrder
<1>2. orders \in Seq(LoadedOrder) /\ item \in Nat \ {0} /\ item \in DOMAIN orders
  BY <1>1 DEF TypeInv, TypeOK, LoadedOrder
<1>3. /\ Grown(real_city_to_id, real_city_to_id')
      /\ from \in DOMAIN real_city_to_id' /\ to \in DOMAIN real_city_to_id'
  BY <1>1, IdsGrow DEF TypeInv
<1>4. orders' = [orders EXCEPT ![item].from_city = real_city_to_id'[@],
                               ![item].to_city = real_city_to_id'[@]]
  <2> HIDE DEF ids
  <2> QED
    BY <1>1 DEF Keep
<1>5. /\ TrucksAre(trucks, TruckRows, Len(trucks), min_timestamp, real_city_to_id)
      /\ OrdersAre(orders, OrderRows, item - 1, min_timestamp, real_city_to_id)
      /\ DistsAre(dists, DistRows) /\ squeezed_dists = NoElements
  BY <1>1 DEF RowsInv, StageInv, TrucksInv, OrdersInv, DistsInv
<1> HIDE DEF ids
<1>6. OrdersAre(orders', OrderRows, item, min_timestamp, real_city_to_id')
  <2> DEFINE more == real_city_to_id'
  <2>1. OrdersAre([orders EXCEPT ![item].from_city = more[@], ![item].to_city = more[@]],
                  OrderRows, item, min_timestamp, more)
    <3> HIDE DEF more
    <3> QED
      BY <1>2, <1>3, <1>5, OrderSqueezed DEF more
  <2> QED
    BY <1>4, <2>1
<1>7. TrucksAre(trucks, TruckRows, Len(trucks), min_timestamp, real_city_to_id')
  BY <1>3, <1>5, TrucksGrow
<1>8. /\ TruckRows' = TruckRows /\ OrderRows' = OrderRows /\ DistRows' = DistRows
      /\ item' - 1 = item
  BY <1>1, <1>2, SheetsStay
<1>9. TrucksInv' /\ OrdersInv'
  BY <1>1, <1>6, <1>7, <1>8 DEF TrucksInv, OrdersInv
<1>10. StageInv' /\ DistsInv'
  BY <1>1, <1>5, <1>8 DEF StageInv, DistsInv
<1> QED
  BY <1>9, <1>10 DEF RowsInv

LEMMA SqueezeDistRows ==
    ASSUME TypeInv, RowsInv, SqueezeDist, CitiesInv'
    PROVE  RowsInv'
<1> DEFINE pair == Sorted(DOMAIN dists, Before)[item]
<1>1. /\ pc = "squeeze_dists" /\ item <= Cardinality(DOMAIN dists) /\ item' = item + 1
      /\ UNCHANGED <<file, row, loaded, min_timestamp, pc>>
  BY DEF SqueezeDist
<1>2. PICK first, second :
         LET ids == squeeze_city(squeeze_city(Ids, first), second)
             key == <<ids.to_id[pair[1]], ids.to_id[pair[2]]>>
         IN /\ {first, second} = {pair[1], pair[2]}
            /\ Keep(ids)
            /\ squeezed_dists' = IF key \in DOMAIN squeezed_dists
                                 THEN squeezed_dists
                                 ELSE Put(squeezed_dists, key, dists[pair])
  BY DEF SqueezeDist
<1> DEFINE ids == squeeze_city(squeeze_city(Ids, first), second)
           key == Named(pair, real_city_to_id')
<1>3. Keep(ids) /\ {first, second} = {pair[1], pair[2]}
  BY <1>2
<1>4. /\ Grown(real_city_to_id, real_city_to_id')
      /\ first \in DOMAIN real_city_to_id' /\ second \in DOMAIN real_city_to_id'
  BY <1>3, IdsGrow DEF TypeInv
<1> HIDE DEF pair
<1>5. IsNamed(pair, real_city_to_id')
  <2>1. pair[1] \in {first, second} /\ pair[2] \in {first, second}
    BY <1>3
  <2> QED
    BY <1>4, <2>1 DEF IsNamed
<1>6. squeezed_dists' = IF key \in DOMAIN squeezed_dists
                        THEN squeezed_dists ELSE Put(squeezed_dists, key, dists[pair])
  <2>1. key = <<ids.to_id[pair[1]], ids.to_id[pair[2]]>>
    <3> HIDE DEF ids
    <3> QED
      BY <1>3 DEF Keep, Named
  <2> HIDE DEF key
  <2> QED
    BY <1>2, <2>1
<1> HIDE DEF ids, key
<1>7. /\ item \in 1 .. Cardinality(DOMAIN dists) /\ IsFiniteSet(DOMAIN dists)
      /\ DOMAIN dists \in SUBSET (Nat \X Nat)
  <2>1. /\ item \in Nat \ {0} /\ IsFiniteSet(DOMAIN dists)
        /\ DOMAIN dists \in SUBSET (Nat \X Nat)
    BY DEF TypeInv, TypeOK
  <2> QED
    BY <1>1, <2>1, FS_CardinalityType
<1>8. /\ TrucksAre(trucks, TruckRows, Len(trucks), min_timestamp, real_city_to_id)
      /\ OrdersAre(orders, OrderRows, Len(orders), min_timestamp, real_city_to_id)
      /\ DistsAre(dists, DistRows)
      /\ SqueezedAre(squeezed_dists, dists, item - 1, real_city_to_id)
  BY <1>1 DEF RowsInv, StageInv, TrucksInv, OrdersInv, DistsInv
<1>9. \A a, b \in DOMAIN real_city_to_id' :
         real_city_to_id'[a] = real_city_to_id'[b] => a = b
  <2>1. \A c \in DOMAIN real_city_to_id' : id_to_real_city'[real_city_to_id'[c]] = c
    BY DEF CitiesInv, MutualInverse, Ids
  <2> QED
    BY <2>1
<1>10. SqueezedAre(squeezed_dists', dists, item, real_city_to_id')
  <2> DEFINE more == real_city_to_id'
             roads == DOMAIN dists
  <2>1. Sorted(roads, Before)[item] = pair /\ key = Named(pair, more)
    BY DEF pair, key
  <2>2. roads \in SUBSET (Nat \X Nat) /\ IsFiniteSet(roads) /\ item \in 1 .. Cardinality(roads)
        /\ DOMAIN dists = roads
    BY <1>7
  <2>3. Grown(real_city_to_id, more) /\ IsNamed(pair, more)
        /\ \A a, b \in DOMAIN more : more[a] = more[b] => a = b
    BY <1>4, <1>5, <1>9
  <2> HIDE DEF more, roads
  <2>4. IsNamed(Sorted(roads, Before)[item], more)
    BY <2>1, <2>3
  <2>5. LET p == Sorted(roads, Before)[item]
            k == Named(p, more)
        IN  SqueezedAre(IF k \in DOMAIN squeezed_dists
                        THEN squeezed_dists ELSE Put(squeezed_dists, k, dists[p]),
                        dists, item, more)
    BY <1>8, <2>2, <2>3, <2>4, DistSqueezed
  <2>6. SqueezedAre(IF key \in DOMAIN squeezed_dists
                    THEN squeezed_dists ELSE Put(squeezed_dists, key, dists[pair]),
                    dists, item, more)
    BY <2>1, <2>5
  <2>7. SqueezedAre(squeezed_dists', dists, item, more)
    BY <1>6, <2>6
  <2> QED
    BY <2>7 DEF more
<1>11. /\ TrucksAre(trucks, TruckRows, Len(trucks), min_timestamp, real_city_to_id')
       /\ OrdersAre(orders, OrderRows, Len(orders), min_timestamp, real_city_to_id')
  BY <1>4, <1>8, TrucksGrow, OrdersGrow
<1>12. /\ TruckRows' = TruckRows /\ OrderRows' = OrderRows /\ DistRows' = DistRows
       /\ UNCHANGED <<trucks, orders, dists>> /\ item' - 1 = item
  BY <1>1, <1>7, SheetsStay DEF loaded
<1>13. TrucksInv' /\ OrdersInv'
  BY <1>1, <1>11, <1>12 DEF TrucksInv, OrdersInv
<1>14. StageInv' /\ DistsInv'
  BY <1>1, <1>8, <1>10, <1>12 DEF StageInv, DistsInv
<1> QED
  BY <1>13, <1>14 DEF RowsInv

LEMMA SqueezeNextRows ==
    ASSUME TypeInv, RowsInv, SqueezeNext
    PROVE  RowsInv'
<1>1. /\ item' = 1 /\ item' - 1 = 0
      /\ UNCHANGED <<file, row, params, trucks, orders, min_timestamp, id_to_real_city,
                     real_city_to_id, cur, squeezed_dists>>
      /\ TruckRows' = TruckRows /\ OrderRows' = OrderRows /\ DistRows' = DistRows
  BY SheetsStay DEF SqueezeNext
<1>2. /\ Len(trucks) \in Nat /\ Len(orders) \in Nat /\ item \in Nat \ {0}
      /\ DOMAIN dists \in SUBSET (Nat \X Nat) /\ IsFiniteSet(DOMAIN dists)
  BY DEF TypeInv, TypeOK
<1>3. CASE pc = "squeeze_trucks"
  <2>1. item > Len(trucks) /\ pc' = "squeeze_orders" /\ dists' = dists
    BY <1>3 DEF SqueezeNext
  <2>2. /\ TrucksAre(trucks, TruckRows, item - 1, min_timestamp, real_city_to_id)
        /\ OrdersAre(orders, OrderRows, 0, min_timestamp, real_city_to_id)
        /\ DistsAre(dists, DistRows) /\ squeezed_dists = NoElements
    BY <1>3 DEF RowsInv, StageInv, TrucksInv, OrdersInv, DistsInv
  <2>3. TrucksAre(trucks, TruckRows, Len(trucks), min_timestamp, real_city_to_id)
    <3>1. item - 1 \in Nat /\ item - 1 >= Len(trucks) /\ Len(trucks) >= Len(trucks)
      BY <1>2, <2>1
    <3> QED
      BY <1>2, <2>2, <3>1, AllNamed
  <2>4. TrucksInv' /\ OrdersInv'
    BY <1>1, <2>1, <2>2, <2>3 DEF TrucksInv, OrdersInv
  <2>5. StageInv' /\ DistsInv'
    BY <1>1, <2>1, <2>2 DEF StageInv, DistsInv
  <2> QED
    BY <2>4, <2>5 DEF RowsInv
<1>4. CASE pc = "squeeze_orders"
  <2>1. item > Len(orders) /\ pc' = "squeeze_dists" /\ dists' = dists
    BY <1>4 DEF SqueezeNext
  <2>2. /\ TrucksAre(trucks, TruckRows, Len(trucks), min_timestamp, real_city_to_id)
        /\ OrdersAre(orders, OrderRows, item - 1, min_timestamp, real_city_to_id)
        /\ DistsAre(dists, DistRows) /\ squeezed_dists = NoElements
    BY <1>4 DEF RowsInv, StageInv, TrucksInv, OrdersInv, DistsInv
  <2>3. OrdersAre(orders, OrderRows, Len(orders), min_timestamp, real_city_to_id)
    <3>1. item - 1 \in Nat /\ item - 1 >= Len(orders) /\ Len(orders) >= Len(orders)
      BY <1>2, <2>1
    <3> QED
      BY <1>2, <2>2, <3>1, AllNamed
  <2>4. SqueezedAre(squeezed_dists, dists, 0, real_city_to_id)
    <3>1. DOMAIN NoElements = {} /\ \A i : i \notin 1 .. 0
      BY DEF NoElements
    <3>2. 0 <= Cardinality(DOMAIN dists)
      BY <1>2, FS_CardinalityType
    <3> QED
      BY <2>2, <3>1, <3>2 DEF SqueezedAre
  <2>5. TrucksInv' /\ OrdersInv'
    BY <1>1, <2>1, <2>2, <2>3 DEF TrucksInv, OrdersInv
  <2>6. StageInv' /\ DistsInv'
    BY <1>1, <2>1, <2>2, <2>4 DEF StageInv, DistsInv
  <2> QED
    BY <2>5, <2>6 DEF RowsInv
<1>5. CASE pc = "squeeze_dists"
  <2>1. item > Cardinality(DOMAIN dists) /\ pc' = "filter" /\ dists' = squeezed_dists
    BY <1>5 DEF SqueezeNext
  <2>2. /\ TrucksAre(trucks, TruckRows, Len(trucks), min_timestamp, real_city_to_id)
        /\ OrdersAre(orders, OrderRows, Len(orders), min_timestamp, real_city_to_id)
        /\ DistsAre(dists, DistRows)
        /\ SqueezedAre(squeezed_dists, dists, item - 1, real_city_to_id)
    BY <1>5 DEF RowsInv, StageInv, TrucksInv, OrdersInv, DistsInv
  <2>3. item - 1 = Cardinality(DOMAIN dists)
    <3>1. item - 1 <= Cardinality(DOMAIN dists) /\ Cardinality(DOMAIN dists) \in Nat
      BY <1>2, <2>2, FS_CardinalityType DEF SqueezedAre
    <3> QED
      BY <1>2, <2>1, <3>1
  <2>4. DistsById(squeezed_dists, DistRows, real_city_to_id)
    BY <1>2, <2>2, <2>3, AllSqueezed
  <2>5. TrucksInv' /\ OrdersInv'
    BY <1>1, <2>1, <2>2 DEF TrucksInv, OrdersInv
  <2>6. StageInv' /\ DistsInv'
    BY <1>1, <2>1, <2>4 DEF StageInv, DistsInv
  <2> QED
    BY <2>5, <2>6 DEF RowsInv
<1> QED
  BY <1>3, <1>4, <1>5 DEF SqueezeNext

LEMMA RowsNext == TypeInv /\ RowsInv /\ [Next]_vars => RowsInv'
<1> SUFFICES ASSUME TypeInv, RowsInv, [Next]_vars PROVE RowsInv'
  OBVIOUS
<1>1. CitiesInv'
  BY CitiesNext DEF TypeInv
<1>2. CASE ReadParam
  BY <1>2, ReadParamRows
<1>3. CASE ReadTruck
  BY <1>3, ReadTruckRows
<1>4. CASE ReadOrder
  BY <1>4, ReadOrderRows
<1>5. CASE ReadDist
  BY <1>5, ReadDistRows
<1>6. CASE NextSheet
  BY <1>6, NextSheetRows
<1>7. CASE ShiftTimestamps
  BY <1>7, ShiftRows
<1>8. CASE SqueezeTruck
  BY <1>8, SqueezeTruckRows
<1>9. CASE SqueezeOrder
  BY <1>9, SqueezeOrderRows
<1>10. CASE SqueezeDist
  BY <1>1, <1>10, SqueezeDistRows
<1>11. CASE SqueezeNext
  BY <1>11, SqueezeNextRows
<1>12. CASE FilterTrucks
  <2>1. /\ pc = "filter" /\ pc' = "filter_orders"
        /\ UNCHANGED <<file, orders, dists, min_timestamp, real_city_to_id>>
    BY <1>12 DEF FilterTrucks, squeezing
  <2>2. OrderRows' = OrderRows /\ DistRows' = DistRows
    BY <2>1, SheetsStay
  <2> QED
    BY <2>1, <2>2 DEF RowsInv, StageInv, TrucksInv, OrdersInv, DistsInv
<1>13. CASE FilterOrders
  <2>1. /\ pc = "filter_orders" /\ pc' = "solve"
        /\ UNCHANGED <<file, dists, real_city_to_id>>
    BY <1>13 DEF FilterOrders, squeezing
  <2>2. DistRows' = DistRows
    BY <2>1, SheetsStay
  <2> QED
    BY <2>1, <2>2 DEF RowsInv, StageInv, TrucksInv, OrdersInv, DistsInv
<1>14. CASE UNCHANGED vars
  <2>1. UNCHANGED <<file, row, trucks, orders, dists, min_timestamp, real_city_to_id, item,
                    squeezed_dists, pc>>
    BY <1>14 DEF vars, loaded, squeezing
  <2>2. TruckRows' = TruckRows /\ OrderRows' = OrderRows /\ DistRows' = DistRows
    BY <2>1, SheetsStay
  <2>3. StageInv' /\ DistsInv'
    BY <2>1, <2>2 DEF RowsInv, StageInv, DistsInv
  <2>4. TrucksInv' /\ OrdersInv'
    BY <2>1, <2>2 DEF RowsInv, TrucksInv, OrdersInv
  <2> QED
    BY <2>3, <2>4 DEF RowsInv
<1>15. CASE Terminated
  BY <1>14, <1>15 DEF Terminated
<1> QED
  BY <1>2, <1>3, <1>4, <1>5, <1>6, <1>7, <1>8, <1>9, <1>10, <1>11, <1>12, <1>13, <1>14,
     <1>15 DEF Next
-----------------------------------------------------------------------------
(***************************************************************************)
(* The moves.                                                              *)
(***************************************************************************)
LEMMA GreatestNumber ==
    ASSUME NEW n \in Nat, NEW S \in SUBSET (1 .. n), S # {}
    PROVE  \E m \in S : \A k \in S : k <= m
<1> DEFINE R == {n - k : k \in S}
<1>1. R \in SUBSET Nat /\ R # {}
  <2>1. \A k \in S : n - k \in Nat
    OBVIOUS
  <2> QED
    BY <2>1
<1>2. PICK r \in R : \A q \in R : r <= q
  <2> HIDE DEF R
  <2> QED
    BY <1>1, LeastNumber
<1>3. PICK m \in S : r = n - m
  BY <1>2
<1>4. \A k \in S : n - m <= n - k
  BY <1>2, <1>3
<1> QED
  BY <1>3, <1>4

\* Between cities that have ids, the road and its metres are the rows'.
LEMMA RoadKept ==
    ASSUME file \in Files, DistsById(dists, DistRows, real_city_to_id),
           \A a, b \in DOMAIN real_city_to_id : real_city_to_id[a] = real_city_to_id[b] => a = b,
           NEW from \in DOMAIN real_city_to_id, NEW to \in DOMAIN real_city_to_id
    PROVE  LET a == real_city_to_id[from]
               b == real_city_to_id[to]
           IN  /\ HasRoad(Loaded, a, b) <=> IsRoad(from, to)
               /\ IsRoad(from, to) => /\ GetDistance(Loaded, a, b) = Metres(from, to)
                                      /\ Metres(from, to) \in Nat
<1> DEFINE ids == real_city_to_id
           a == ids[from]
           b == ids[to]
           rows == DistRows
           these == {i \in DOMAIN rows : rows[i].from = from /\ rows[i].to = to}
<1>1. rows \in Seq({r \in DistRow : DistGiven(r)})
  BY SheetRows
<1>2. Loaded.dists = dists
  BY DEF Loaded
<1> HIDE DEF rows
<1>3. /\ rows \in Seq(DistRow) /\ Len(rows) \in Nat /\ DOMAIN rows = 1 .. Len(rows)
      /\ \A i \in DOMAIN rows : rows[i] \in DistRow /\ DistGiven(rows[i])
  BY <1>1
<1>4. \A i \in DOMAIN rows : rows[i].d \in Nat
  BY <1>3, NumberOf
<1>5. ASSUME NEW i \in DOMAIN rows
      PROVE  /\ rows[i].from \in DOMAIN ids /\ rows[i].to \in DOMAIN ids
             /\ Named(Pair(rows[i]), ids) = <<ids[rows[i].from], ids[rows[i].to]>>
  <2>1. IsNamed(Pair(rows[i]), ids)
    BY DEF DistsById, rows
  <2> QED
    BY <2>1 DEF IsNamed, Named, Pair
<1>6. <<a, b>> \in DOMAIN dists <=> these # {}
  <2>1. DOMAIN dists = {Named(Pair(rows[i]), ids) : i \in DOMAIN rows}
    BY DEF DistsById, rows
  <2>2. ASSUME <<a, b>> \in DOMAIN dists PROVE these # {}
    <3>1. PICK i \in DOMAIN rows : Named(Pair(rows[i]), ids) = <<a, b>>
      BY <2>1, <2>2
    <3>2. ids[rows[i].from] = a /\ ids[rows[i].to] = b
      BY <1>5, <3>1
    <3>3. rows[i].from = from /\ rows[i].to = to
      BY <1>5, <3>2
    <3> QED
      BY <3>3
  <2>3. ASSUME these # {} PROVE <<a, b>> \in DOMAIN dists
    <3>1. PICK i \in these : TRUE
      BY <2>3
    <3>2. i \in DOMAIN rows /\ rows[i].from = from /\ rows[i].to = to
      BY <3>1
    <3>3. Named(Pair(rows[i]), ids) = <<a, b>>
      BY <1>5, <3>2
    <3> QED
      BY <2>1, <3>2, <3>3
  <2> QED
    BY <2>2, <2>3
<1>7. a = b <=> from = to
  OBVIOUS
<1>8. HasRoad(Loaded, a, b) <=> IsRoad(from, to)
  <2>1. IsRoad(from, to) <=> from = to \/ these # {}
    BY DEF IsRoad, rows
  <2> HIDE DEF these, a, b
  <2> QED
    BY <1>2, <1>6, <1>7, <2>1 DEF HasRoad
<1>9. ASSUME IsRoad(from, to)
      PROVE  GetDistance(Loaded, a, b) = Metres(from, to) /\ Metres(from, to) \in Nat
  <2>1. CASE from = to
    <3>1. Metres(from, to) = 0
      BY <2>1 DEF Metres
    <3>2. GetDistance(Loaded, a, b) = 0
      BY <2>1 DEF GetDistance
    <3> QED
      BY <3>1, <3>2
  <2>2. CASE from # to
    <3> DEFINE last == CHOOSE i \in these : \A j \in these : j <= i
    <3>1. these \in SUBSET (1 .. Len(rows)) /\ these # {}
      BY <1>3, <1>9, <2>2 DEF IsRoad, rows
    <3>2. last \in these /\ \A j \in these : j <= last
      <4> HIDE DEF these
      <4>1. \E i \in these : \A j \in these : j <= i
        BY <1>3, <3>1, GreatestNumber
      <4> QED
        BY <4>1
    <3>3. Metres(from, to) = rows[last].d
      BY <2>2 DEF Metres, rows
    <3> HIDE DEF last
    <3>4. last \in DOMAIN rows /\ rows[last].from = from /\ rows[last].to = to
      BY <3>2
    <3>5. IsLast(rows, last)
      BY <3>2, <3>4 DEF IsLast
    <3>6. dists[Named(Pair(rows[last]), ids)] = rows[last].d
      BY <3>4, <3>5 DEF DistsById, rows
    <3>7. Named(Pair(rows[last]), ids) = <<a, b>>
      BY <1>5, <3>4
    <3>8. GetDistance(Loaded, a, b) = dists[<<a, b>>]
      <4> HIDE DEF a, b
      <4> QED
        BY <1>2, <1>7, <2>2 DEF GetDistance
    <3> QED
      BY <1>4, <3>3, <3>4, <3>6, <3>7, <3>8
  <2> QED
    BY <2>1, <2>2
<1> QED
  BY <1>8, <1>9

\* The masks allow what the words of the rows do.
LEMMA MasksKept ==
    ASSUME NEW truck, NEW order, NEW truckRow, NEW orderRow,
           truck.mask_load_type = LoadMasks[truckRow.load_type],
           truck.mask_trailer_type = GetMaskTrailerType(truckRow.trailer_type),
           order.mask_load_type = LoadMasks[orderRow.load_type],
           order.mask_trailer_type = GetMaskTrailerType(orderRow.trailer_type)
    PROVE  IsExecutableBy(truck, order) <=>
              /\ LoadMasks[truckRow.load_type] \subseteq LoadMasks[orderRow.load_type]
              /\ \/ truckRow.trailer_type \subseteq TrailerWords
                 \/ ~(orderRow.trailer_type \subseteq TrailerWords)
<1>1. /\ {0} \subseteq FullMaskTrailerType /\ ~(FullMaskTrailerType \subseteq {0})
  BY DEF FullMaskTrailerType
<1> DEFINE v == truckRow.trailer_type
           w == orderRow.trailer_type
<1> HIDE DEF v, w
<1>2. GetMaskTrailerType(v) \subseteq GetMaskTrailerType(w)
        <=> v \subseteq TrailerWords \/ ~(w \subseteq TrailerWords)
  <2>1. CASE v \subseteq TrailerWords /\ w \subseteq TrailerWords
    BY <2>1 DEF GetMaskTrailerType
  <2>2. CASE v \subseteq TrailerWords /\ ~(w \subseteq TrailerWords)
    BY <1>1, <2>2 DEF GetMaskTrailerType
  <2>3. CASE ~(v \subseteq TrailerWords) /\ w \subseteq TrailerWords
    BY <1>1, <2>3 DEF GetMaskTrailerType
  <2>4. CASE ~(v \subseteq TrailerWords) /\ ~(w \subseteq TrailerWords)
    BY <2>4 DEF GetMaskTrailerType
  <2> QED
    BY <2>1, <2>2, <2>3, <2>4
<1> QED
  BY <1>2 DEF IsExecutableBy, v, w

\* A move of a truck to an order from wherever it is, in terms of the ids and of the
\* shifted times, and in terms of the rows.
LEMMA MoveKept ==
    ASSUME TypeInv, RowsInv, pc = "filter", params["VELOCITY"] > 0,
           NEW t \in DOMAIN trucks, NEW o \in DOMAIN orders,
           NEW city \in DOMAIN real_city_to_id, NEW time \in Nat, NEW previous,
           previous.to_city = real_city_to_id[city], previous.finish_time = time - min_timestamp
    PROVE  MoveBetweenOrders(Loaded, trucks[t], previous, orders[o])
             <=> MoveByRows(TruckRows[t], city, time, OrderRows[o])
<1> DEFINE ids == real_city_to_id
           truck == trucks[t]
           order == orders[o]
           truckRow == TruckRows[t]
           orderRow == OrderRows[o]
<1>1. /\ TrucksAre(trucks, TruckRows, Len(trucks), min_timestamp, ids)
      /\ OrdersAre(orders, OrderRows, Len(orders), min_timestamp, ids)
      /\ DistsById(dists, DistRows, ids)
  BY DEF RowsInv, TrucksInv, OrdersInv, DistsInv
<1>2. /\ trucks \in Seq(LoadedTruck) /\ orders \in Seq(LoadedOrder) /\ file \in Files
      /\ min_timestamp \in Nat
      /\ params \in [{ParamNames[i] : i \in DOMAIN ParamNames} -> Nat]
  BY DEF TypeInv, TypeOK, LoadedOrder
<1>3. /\ t \in 1 .. Len(trucks) /\ t <= Len(trucks) /\ o \in 1 .. Len(orders)
      /\ o <= Len(orders)
  BY <1>2
<1>4. TruckIs(truck, truckRow, min_timestamp, ids, TRUE)
  <2>1. TruckIs(truck, truckRow, min_timestamp, ids, t <= Len(trucks))
    BY <1>1, <1>3 DEF TrucksAre
  <2> QED
    BY <1>3, <2>1 DEF TruckIs, CityIs
<1>5. OrderIs(order, orderRow, min_timestamp, ids, TRUE)
  <2>1. OrderIs(order, orderRow, min_timestamp, ids, o <= Len(orders))
    BY <1>1, <1>3 DEF OrdersAre
  <2> QED
    BY <1>3, <2>1 DEF OrderIs, CityIs
<1>6. orderRow.start_time \in Nat
  <2>1. OrderRows \in Seq({r \in OrderRow : OrderGiven(r)}) /\ Len(orders) = Len(OrderRows)
    BY <1>1, <1>2, SheetRows DEF OrdersAre
  <2> DEFINE rows == OrderRows
  <2> HIDE DEF rows
  <2>2. rows[o] \in OrderRow /\ OrderGiven(rows[o])
    BY <1>3, <2>1 DEF rows
  <2>3. rows[o].start_time \in Nat
    BY <2>2, NumberOf
  <2> QED
    BY <2>3 DEF rows
<1>7. \A a, b \in DOMAIN ids : ids[a] = ids[b] => a = b
  <2>1. \A c \in DOMAIN ids : id_to_real_city[ids[c]] = c
    BY DEF TypeInv, CitiesInv, MutualInverse, Ids
  <2> QED
    BY <2>1
<1> HIDE DEF truck, order, truckRow, orderRow
<1>8. IsExecutableBy(truck, order) <=>
         /\ LoadMasks[truckRow.load_type] \subseteq LoadMasks[orderRow.load_type]
         /\ \/ truckRow.trailer_type \subseteq TrailerWords
            \/ ~(orderRow.trailer_type \subseteq TrailerWords)
  BY <1>4, <1>5, MasksKept DEF TruckIs, OrderIs
<1> DEFINE to == orderRow.from_city
           a == ids[city]
           b == ids[to]
<1>9. /\ to \in DOMAIN ids /\ order.from_city = b
      /\ order.start_time = orderRow.start_time - min_timestamp
  BY <1>5 DEF OrderIs, CityIs
<1>10. /\ HasRoad(Loaded, a, b) <=> IsRoad(city, to)
       /\ IsRoad(city, to) => /\ GetDistance(Loaded, a, b) = Metres(city, to)
                              /\ Metres(city, to) \in Nat
  BY <1>1, <1>2, <1>7, <1>9, RoadKept
<1>11. Loaded.speed \in Nat \ {0}
  <2>1. "VELOCITY" \in {ParamNames[i] : i \in DOMAIN ParamNames}
    BY DEF ParamNames
  <2>2. params["VELOCITY"] \in Nat
    BY <1>2, <2>1
  <2> QED
    BY <2>2 DEF Loaded
<1> DEFINE speed == Loaded.speed
           metres == Metres(city, to)
<1> HIDE DEF to, a, b, ids, speed, metres
<1>12. CanReach(Loaded, previous, order) <=>
          /\ IsRoad(city, to)
          /\ time + (60 * metres) \div speed <= orderRow.start_time
  <2>1. CASE ~IsRoad(city, to)
    <3>1. ~HasRoad(Loaded, a, b)
      BY <1>10, <2>1
    <3> QED
      BY <1>9, <2>1, <3>1 DEF CanReach, a, ids
  <2>2. CASE IsRoad(city, to)
    <3>1. /\ HasRoad(Loaded, a, b) /\ GetDistance(Loaded, a, b) = metres /\ metres \in Nat
      BY <1>10, <2>2 DEF metres
    <3>2. TravelTime(Loaded, a, b) = (60 * metres) \div speed
      <4>1. metres * 60 = 60 * metres
        BY <3>1
      <4> QED
        BY <3>1, <4>1 DEF TravelTime, speed
    <3> DEFINE travel == (60 * metres) \div speed
    <3>3. travel \in Int
      BY <1>11, <3>1 DEF speed
    <3> HIDE DEF travel
    <3>4. previous.finish_time + travel <= order.start_time
            <=> time + travel <= orderRow.start_time
      BY <1>2, <1>6, <1>9, <3>3
    <3>5. CanReach(Loaded, previous, order) <=> previous.finish_time + travel <= order.start_time
      BY <1>9, <3>1, <3>2 DEF CanReach, a, ids, travel
    <3> QED
      BY <2>2, <3>4, <3>5 DEF travel
  <2> QED
    BY <2>1, <2>2
<1> QED
  BY <1>8, <1>12 DEF MoveBetweenOrders, MoveByRows, truck, order, truckRow, orderRow, to,
     speed, metres

\* The time on the way is no less than 0.
LEMMA TravelNat ==
    ASSUME NEW from, NEW to, TypeInv, params["VELOCITY"] > 0, HasRoad(Loaded, from, to)
    PROVE  TravelTime(Loaded, from, to) \in Nat
<1>1. /\ dists \in [DOMAIN dists -> Nat]
      /\ params \in [{ParamNames[i] : i \in DOMAIN ParamNames} -> Nat]
  BY DEF TypeInv, TypeOK
<1>2. Loaded.speed \in Nat \ {0}
  <2>1. "VELOCITY" \in {ParamNames[i] : i \in DOMAIN ParamNames}
    BY DEF ParamNames
  <2>2. params["VELOCITY"] \in Nat
    BY <1>1, <2>1
  <2> QED
    BY <2>2 DEF Loaded
<1>3. GetDistance(Loaded, from, to) \in Nat
  BY <1>1 DEF GetDistance, HasRoad, Loaded
<1> DEFINE speed == Loaded.speed
           distance == GetDistance(Loaded, from, to)
<1> HIDE DEF speed, distance
<1>4. (distance * 60) \div speed \in Nat
  BY <1>2, <1>3 DEF speed, distance
<1> QED
  BY <1>4 DEF TravelTime, speed, distance

\* An order that ends before everything starts ends after every start, once its end
\* has wrapped around.
LEMMA NothingAfterWrapped ==
    ASSUME TypeInv, RowsInv, pc = "filter", params["VELOCITY"] > 0,
           NEW t \in DOMAIN trucks, NEW o \in DOMAIN orders, NEW previous \in DOMAIN orders,
           ~(OrderRows[previous].finish_time >= min_timestamp)
    PROVE  ~MoveBetweenOrders(Loaded, trucks[t], EndOf(orders[previous]), orders[o])
<1>1. /\ OrdersAre(orders, OrderRows, Len(orders), min_timestamp, real_city_to_id)
      /\ orders \in Seq(LoadedOrder) /\ file \in Files /\ min_timestamp \in Nat
  BY DEF RowsInv, OrdersInv, TypeInv, TypeOK, LoadedOrder
<1> DEFINE rows == OrderRows
           end == orders[previous].finish_time
           start == orders[o].start_time
<1>2. rows \in Seq({r \in OrderRow : OrderGiven(r)}) /\ Len(orders) = Len(rows)
  BY <1>1, SheetRows DEF OrdersAre
<1>3. /\ end = (rows[previous].finish_time - min_timestamp) % UIntRange
      /\ start = rows[o].start_time - min_timestamp
  BY <1>1 DEF OrdersAre, OrderIs
<1>4. ~(rows[previous].finish_time >= min_timestamp)
  OBVIOUS
<1> HIDE DEF rows
<1>5. /\ rows[previous] \in OrderRow /\ OrderGiven(rows[previous])
      /\ rows[o] \in OrderRow /\ OrderGiven(rows[o])
  BY <1>1, <1>2
<1>6. /\ rows[previous].finish_time \in 0 .. UIntRange - 1
      /\ rows[o].start_time \in 0 .. UIntRange - 1
  BY <1>5, NumberOf
<1>7. start \in Nat
  <2>1. orders[o] \in LoadedOrder
    BY <1>1
  <2> QED
    BY <2>1 DEF LoadedOrder
<1> HIDE DEF end, start
<1>8. end \in Nat /\ end > start
  <2> DEFINE finish == rows[previous].finish_time
             begin == rows[o].start_time
  <2>1. /\ finish \in 0 .. UIntRange - 1 /\ begin \in 0 .. UIntRange - 1
        /\ ~(finish >= min_timestamp) /\ min_timestamp \in Nat
        /\ end = (finish - min_timestamp) % UIntRange /\ start = begin - min_timestamp
    BY <1>1, <1>3, <1>4, <1>6
  <2> HIDE DEF finish, begin
  <2> QED
    BY <1>7, <2>1, WrappedEnd
<1> DEFINE from == orders[previous].to_city
           to == orders[o].from_city
<1>9. EndOf(orders[previous]).to_city = from /\ EndOf(orders[previous]).finish_time = end
  BY DEF EndOf, end
<1>10. ASSUME CanReach(Loaded, EndOf(orders[previous]), orders[o]) PROVE FALSE
  <2>1. HasRoad(Loaded, from, to) /\ end + TravelTime(Loaded, from, to) <= start
    BY <1>9, <1>10 DEF CanReach, start
  <2> DEFINE travel == TravelTime(Loaded, from, to)
  <2>2. travel \in Nat
    BY <2>1, TravelNat
  <2> HIDE DEF travel
  <2> QED
    BY <1>7, <1>8, <2>1, <2>2 DEF travel
<1> QED
  BY <1>10 DEF MoveBetweenOrders

LEMMA MovesOfRows == TypeInv /\ RowsInv => MovesKept
<1> SUFFICES ASSUME TypeInv, RowsInv, pc = "filter", params["VELOCITY"] > 0,
                    NEW t \in DOMAIN trucks, NEW o \in DOMAIN orders
             PROVE  /\ MoveBetweenOrders(Loaded, trucks[t], make_ffo(trucks[t]), orders[o])
                          <=> MoveByRows(TruckRows[t], TruckRows[t].init_city,
                                         TruckRows[t].init_time, OrderRows[o])
                    /\ \A previous \in DOMAIN orders :
                          LET onward == MoveBetweenOrders(Loaded, trucks[t],
                                                          EndOf(orders[previous]), orders[o])
                          IN IF OrderRows[previous].finish_time >= min_timestamp
                             THEN onward <=> MoveByRows(TruckRows[t],
                                                        OrderRows[previous].to_city,
                                                        OrderRows[previous].finish_time,
                                                        OrderRows[o])
                             ELSE onward => orders[previous].finish_time
                                               + TravelTime(Loaded, orders[previous].to_city,
                                                            orders[o].from_city) >= UIntRange
  BY DEF MovesKept
<1>1. /\ TrucksAre(trucks, TruckRows, Len(trucks), min_timestamp, real_city_to_id)
      /\ OrdersAre(orders, OrderRows, Len(orders), min_timestamp, real_city_to_id)
  BY DEF RowsInv, TrucksInv, OrdersInv
<1>2. /\ trucks \in Seq(LoadedTruck) /\ orders \in Seq(LoadedOrder) /\ file \in Files
      /\ min_timestamp \in Nat
  BY DEF TypeInv, TypeOK, LoadedOrder
<1>3. MoveBetweenOrders(Loaded, trucks[t], make_ffo(trucks[t]), orders[o])
        <=> MoveByRows(TruckRows[t], TruckRows[t].init_city, TruckRows[t].init_time,
                       OrderRows[o])
  <2> DEFINE rows == TruckRows
  <2>1. rows \in Seq({r \in TruckRow : TruckGiven(r)}) /\ Len(trucks) = Len(rows)
    BY <1>1, <1>2, SheetRows DEF TrucksAre
  <2>2. TruckIs(trucks[t], rows[t], min_timestamp, real_city_to_id, t <= Len(trucks))
    BY <1>1, <1>2 DEF TrucksAre
  <2> HIDE DEF rows
  <2>3. rows[t] \in TruckRow /\ TruckGiven(rows[t]) /\ t <= Len(trucks)
    BY <1>2, <2>1
  <2>4. rows[t].init_time \in Nat
    BY <2>3, NumberOf
  <2>5. /\ rows[t].init_city \in DOMAIN real_city_to_id
        /\ trucks[t].init_city = real_city_to_id[rows[t].init_city]
        /\ trucks[t].init_time = rows[t].init_time - min_timestamp
    BY <2>2, <2>3 DEF TruckIs, CityIs
  <2> DEFINE start == make_ffo(trucks[t])
  <2>6. start.to_city = trucks[t].init_city /\ start.finish_time = trucks[t].init_time
    BY DEF make_ffo
  <2> HIDE DEF start
  <2>7. MoveBetweenOrders(Loaded, trucks[t], start, orders[o])
          <=> MoveByRows(TruckRows[t], rows[t].init_city, rows[t].init_time, OrderRows[o])
    BY <2>4, <2>5, <2>6, MoveKept
  <2> QED
    BY <2>7 DEF rows, start
<1>4. ASSUME NEW previous \in DOMAIN orders, OrderRows[previous].finish_time >= min_timestamp
      PROVE  MoveBetweenOrders(Loaded, trucks[t], EndOf(orders[previous]), orders[o])
               <=> MoveByRows(TruckRows[t], OrderRows[previous].to_city,
                              OrderRows[previous].finish_time, OrderRows[o])
  <2> DEFINE rows == OrderRows
  <2>1. rows \in Seq({r \in OrderRow : OrderGiven(r)}) /\ Len(orders) = Len(rows)
    BY <1>1, <1>2, SheetRows DEF OrdersAre
  <2>2. OrderIs(orders[previous], rows[previous], min_timestamp, real_city_to_id,
                previous <= Len(orders))
    BY <1>1, <1>2 DEF OrdersAre
  <2>3. rows[previous].finish_time >= min_timestamp
    BY <1>4
  <2> HIDE DEF rows
  <2>4. rows[previous] \in OrderRow /\ OrderGiven(rows[previous]) /\ previous <= Len(orders)
    BY <1>2, <2>1
  <2>5. rows[previous].finish_time \in 0 .. UIntRange - 1
    BY <2>4, NumberOf
  <2>6. rows[previous].finish_time - min_timestamp \in 0 .. UIntRange - 1
    BY <1>2, <2>3, <2>5, LimitsAssumption
  <2>7. /\ rows[previous].to_city \in DOMAIN real_city_to_id
        /\ orders[previous].to_city = real_city_to_id[rows[previous].to_city]
        /\ orders[previous].finish_time = rows[previous].finish_time - min_timestamp
    BY <2>2, <2>4, <2>6, ModOf DEF OrderIs, CityIs
  <2> DEFINE start == EndOf(orders[previous])
  <2>8. /\ start.to_city = orders[previous].to_city
        /\ start.finish_time = orders[previous].finish_time
    BY DEF EndOf
  <2> HIDE DEF start
  <2>9. rows[previous].finish_time \in Nat
    BY <2>5, LimitsAssumption
  <2>10. MoveBetweenOrders(Loaded, trucks[t], start, orders[o])
           <=> MoveByRows(TruckRows[t], rows[previous].to_city, rows[previous].finish_time,
                          OrderRows[o])
    BY <2>7, <2>8, <2>9, MoveKept
  <2> QED
    BY <2>10 DEF rows, start
<1>5. ASSUME NEW previous \in DOMAIN orders, ~(OrderRows[previous].finish_time >= min_timestamp)
      PROVE  ~MoveBetweenOrders(Loaded, trucks[t], EndOf(orders[previous]), orders[o])
  BY <1>5, NothingAfterWrapped
<1> QED
  BY <1>3, <1>4, <1>5

\* For all sheets, shifting the times and squeezing the cities, in whatever order the
\* arguments of make_pair are evaluated, leaves every move of a truck as the rows
\* allow it, but for the moves from an order that ends before everything starts: its
\* end wraps around, and none is left (ShiftTimestamps and SqueezeCitiesIds in data.cpp).
THEOREM MovesCorrect == Spec => []MovesKept
BY TypeInit, TypeNext, RowsInit, RowsNext, MovesOfRows, PTL DEF Spec
-----------------------------------------------------------------------------
(***************************************************************************)
(* The filters.                                                            *)
(***************************************************************************)
\* The first rows, as many as count.
FirstOf(rows, count) == SubSeq(rows, 1, IF Len(rows) < count THEN Len(rows) ELSE count)

\* What a filter leaves of objects that the rows have become.
Left(objects, rows, id, time, min, bound, count) ==
    LET early == KeptAt(rows, {i \in DOMAIN rows : rows[i][time] - min < bound})
    IN \A n : Cardinality(Holding(objects, id, n))
                  = Cardinality(Holding(FirstOf(early, count), id, n))

\* Putting a sequence in another order changes no count.
LEMMA CountsKept ==
    ASSUME NEW T, NEW xs, NEW ys \in Seq(T), Reordered(xs, ys), NEW id, NEW n
    PROVE  Cardinality(Holding(xs, id, n)) = Cardinality(Holding(ys, id, n))
<1> DEFINE S == DOMAIN ys
           H == Holding(xs, id, n)
           G == Holding(ys, id, n)
<1>1. PICK f \in [S -> S] : /\ \A i, j \in S : f[i] = f[j] => i = j
                            /\ \A i \in S : xs[i] = ys[f[i]]
  BY DEF Reordered
<1>2. IsFiniteSet(S) /\ DOMAIN xs = S
  <2>1. S = 1 .. Len(ys) /\ 1 \in Int /\ Len(ys) \in Int
    OBVIOUS
  <2>2. IsFiniteSet(1 .. Len(ys))
    BY <2>1, FS_Interval
  <2> QED
    BY <2>1, <2>2 DEF Reordered
<1>3. /\ \A i : i \in H <=> i \in S /\ xs[i][id] = n
      /\ \A i : i \in G <=> i \in S /\ ys[i][id] = n
  BY <1>2 DEF Holding
<1> HIDE DEF S, H, G
<1>4. \A t \in S : \E s \in S : f[s] = t
  <2>1. f \in Injection(S, S)
    BY <1>1 DEF Injection, IsInjective
  <2>2. f \in Surjection(S, S)
    BY <1>2, <2>1, FS_Injection
  <2> QED
    BY <2>2 DEF Surjection
<1> DEFINE g == [i \in H |-> f[i]]
<1>5. g \in [H -> G]
  BY <1>1, <1>3
<1>6. \A a, b \in H : g[a] = g[b] => a = b
  BY <1>1, <1>3
<1>7. \A t \in G : \E s \in H : g[s] = t
  BY <1>1, <1>3, <1>4
<1> HIDE DEF g
<1>8. g \in Bijection(H, G)
  BY <1>5, <1>6, <1>7 DEF Bijection, Injection, Surjection, IsInjective
<1>9. IsFiniteSet(H)
  <2>1. H \subseteq S
    BY <1>3
  <2> QED
    BY <1>2, <2>1, FS_Subset
<1>10. ExistsBijection(H, G)
  BY <1>8 DEF ExistsBijection
<1>11. Cardinality(G) = Cardinality(H)
  BY <1>9, <1>10, FS_Bijection
<1> QED
  BY <1>11 DEF H, G

LEMMA FilterKeeps ==
    ASSUME NEW T, NEW objects \in Seq(T), NEW R, NEW rows \in Seq(R), NEW id, NEW time,
           NEW min, NEW bound, NEW count \in Nat,
           Len(objects) = Len(rows),
           \A i \in 1 .. Len(rows) : /\ objects[i][time] = rows[i][time] - min
                                     /\ objects[i][id] = rows[i][id],
           NEW filtered \in SortedByTime(FirstBefore(objects, time, bound, count), time)
    PROVE  Left(filtered, rows, id, time, min, bound, count)
<1> DEFINE places == {i \in DOMAIN objects : objects[i][time] < bound}
           first == FirstBefore(objects, time, bound, count)
           early == KeptAt(rows, places)
           size == Cardinality(places)
<1>1. DOMAIN objects = 1 .. Len(rows) /\ DOMAIN rows = 1 .. Len(rows)
  OBVIOUS
<1>2. {i \in DOMAIN rows : rows[i][time] - min < bound} = places
  BY <1>1
<1>3. /\ first \in Seq(T) /\ size \in Nat
      /\ Len(first) = IF size < count THEN size ELSE count
      /\ \A i \in DOMAIN first : /\ i \in 1 .. size
                                 /\ first[i] = objects[Ascending(places)[i]]
  <2>1. places = EarlyPlaces(objects, time, bound)
    BY DEF EarlyPlaces
  <2> HIDE DEF places, first
  <2>2. LET p == EarlyPlaces(objects, time, bound)
            q == FirstBefore(objects, time, bound, count)
        IN  /\ q \in Seq(T)
            /\ Cardinality(p) \in Nat
            /\ Len(q) = IF Cardinality(p) < count THEN Cardinality(p) ELSE count
            /\ \A i \in DOMAIN q : /\ i \in 1 .. Cardinality(p)
                                   /\ q[i] = objects[Ascending(p)[i]]
    BY FirstBeforeOf
  <2> QED
    BY <2>1, <2>2 DEF first
<1>4. /\ early \in Seq(R) /\ Len(early) = size /\ DOMAIN early = 1 .. size
      /\ \A i \in 1 .. size : /\ Ascending(places)[i] \in places
                              /\ early[i] = rows[Ascending(places)[i]]
  <2>1. places \in SUBSET DOMAIN rows
    BY <1>1
  <2> HIDE DEF places
  <2> QED
    BY <2>1, KeptAtOf
<1> HIDE DEF first
<1>5. filtered \in Seq(T) /\ Len(filtered) = Len(first) /\ Reordered(filtered, first)
  <2>1. filtered \in SortedByTime(first, time) /\ first \in Seq(T)
    BY <1>3 DEF first
  <2> QED
    BY <2>1, SortedByTimeOf
<1>6. \A i \in places : objects[i][id] = rows[i][id]
  BY <1>1
<1> HIDE DEF places, early, size
<1> DEFINE taken == FirstOf(early, count)
<1>7. /\ DOMAIN taken = DOMAIN first
      /\ \A i \in DOMAIN first : i \in 1 .. size /\ taken[i] = early[i]
  <2> DEFINE last == IF Len(early) < count THEN Len(early) ELSE count
  <2>1. last \in Nat /\ last <= Len(early) /\ Len(first) = last /\ taken = SubSeq(early, 1, last)
    BY <1>3, <1>4 DEF FirstOf
  <2> HIDE DEF taken, last
  <2>2. DOMAIN taken = 1 .. last /\ \A i \in 1 .. last : taken[i] = early[i]
    BY <1>4, <2>1
  <2>3. DOMAIN first = 1 .. last
    BY <1>3, <2>1
  <2> QED
    BY <1>3, <2>2, <2>3
<1> HIDE DEF taken
<1>8. \A i \in DOMAIN first : first[i][id] = taken[i][id]
  BY <1>3, <1>4, <1>6, <1>7
<1>9. ASSUME NEW n
      PROVE  Cardinality(Holding(filtered, id, n)) = Cardinality(Holding(taken, id, n))
  <2>1. Cardinality(Holding(filtered, id, n)) = Cardinality(Holding(first, id, n))
    BY <1>3, <1>5, CountsKept
  <2>2. Holding(first, id, n) = Holding(taken, id, n)
    BY <1>7, <1>8 DEF Holding
  <2> QED
    BY <2>1, <2>2
<1> QED
  BY <1>2, <1>9 DEF Left, early, taken

\* What is left after each filter.
LeftInv ==
    /\ pc \in {"filter_orders", "solve"} =>
          Left(trucks, TruckRows, "truck_id", "init_time", min_timestamp, TruckTimeBound,
               MaxTrucks)
    /\ pc = "solve" =>
          Left(orders, OrderRows, "order_id", "start_time", min_timestamp, OrderTimeBound,
               MaxOrders)

LEMMA FilterTrucksLeft ==
    ASSUME TypeInv, RowsInv, FilterTrucks
    PROVE  LeftInv'
<1>1. /\ trucks' \in SortedByTime(FirstBefore(trucks, "init_time", TruckTimeBound, MaxTrucks),
                                  "init_time")
      /\ pc = "filter" /\ pc' = "filter_orders" /\ UNCHANGED <<file, min_timestamp>>
  BY DEF FilterTrucks
<1>2. /\ TrucksAre(trucks, TruckRows, Len(trucks), min_timestamp, real_city_to_id)
      /\ trucks \in Seq(LoadedTruck) /\ file \in Files
  BY <1>1 DEF TypeInv, TypeOK, RowsInv, TrucksInv
<1> DEFINE rows == TruckRows
<1>3. rows \in Seq({r \in TruckRow : TruckGiven(r)}) /\ rows' = rows
  BY <1>1, <1>2, SheetRows, SheetsStay
<1>4. /\ Len(trucks) = Len(rows)
      /\ \A i \in 1 .. Len(rows) : /\ trucks[i].init_time = rows[i].init_time - min_timestamp
                                   /\ trucks[i].truck_id = rows[i].truck_id
  BY <1>2 DEF TrucksAre, TruckIs
<1> HIDE DEF rows
<1>5. Left(trucks', rows, "truck_id", "init_time", min_timestamp, TruckTimeBound, MaxTrucks)
  <2>1. \A i \in 1 .. Len(rows) :
           /\ trucks[i]["init_time"] = rows[i]["init_time"] - min_timestamp
           /\ trucks[i]["truck_id"] = rows[i]["truck_id"]
    BY <1>4
  <2>2. MaxTrucks \in Nat
    BY LimitsAssumption
  <2> QED
    BY <1>1, <1>2, <1>3, <1>4, <2>1, <2>2, FilterKeeps
<1> QED
  BY <1>1, <1>3, <1>5 DEF LeftInv, rows

LEMMA FilterOrdersLeft ==
    ASSUME TypeInv, RowsInv, LeftInv, FilterOrders
    PROVE  LeftInv'
<1>1. PICK filtered \in SortedByTime(FirstBefore(orders, "start_time", OrderTimeBound, MaxOrders),
                                     "start_time") :
         orders' = [o \in DOMAIN filtered |-> [filtered[o] EXCEPT !.obligation = FALSE]]
  BY DEF FilterOrders
<1>2. /\ pc = "filter_orders" /\ pc' = "solve"
      /\ UNCHANGED <<file, trucks, min_timestamp>>
  BY DEF FilterOrders
<1>3. /\ OrdersAre(orders, OrderRows, Len(orders), min_timestamp, real_city_to_id)
      /\ orders \in Seq(LoadedOrder) /\ file \in Files
  BY <1>2 DEF TypeInv, TypeOK, LoadedOrder, RowsInv, OrdersInv
<1> DEFINE rows == OrderRows
           first == FirstBefore(orders, "start_time", OrderTimeBound, MaxOrders)
<1>4. rows \in Seq({r \in OrderRow : OrderGiven(r)}) /\ rows' = rows /\ TruckRows' = TruckRows
  BY <1>2, <1>3, SheetRows, SheetsStay
<1>5. /\ Len(orders) = Len(rows)
      /\ \A i \in 1 .. Len(rows) : /\ orders[i].start_time = rows[i].start_time - min_timestamp
                                   /\ orders[i].order_id = rows[i].order_id
  BY <1>3 DEF OrdersAre, OrderIs
<1> HIDE DEF rows
<1>6. Left(filtered, rows, "order_id", "start_time", min_timestamp, OrderTimeBound, MaxOrders)
  <2>1. \A i \in 1 .. Len(rows) :
           /\ orders[i]["start_time"] = rows[i]["start_time"] - min_timestamp
           /\ orders[i]["order_id"] = rows[i]["order_id"]
    BY <1>5
  <2>2. MaxOrders \in Nat
    BY LimitsAssumption
  <2> QED
    BY <1>1, <1>3, <1>4, <1>5, <2>1, <2>2, FilterKeeps
<1>7. filtered \in Seq(LoadedOrder)
  <2>1. first \in Seq(LoadedOrder)
    BY <1>3, FirstBeforeOf, LimitsAssumption
  <2> HIDE DEF first
  <2>2. filtered \in SortedByTime(first, "start_time")
    BY <1>1 DEF first
  <2> QED
    BY <2>1, <2>2, SortedByTimeOf
<1>8. Len(orders') = Len(filtered) /\ DOMAIN orders' = DOMAIN filtered
  BY <1>1, <1>7
<1>9. \A i \in DOMAIN filtered : orders'[i].order_id = filtered[i].order_id
  <2> TAKE i \in DOMAIN filtered
  <2>1. filtered[i] \in LoadedOrder
    BY <1>7
  <2> QED
    BY <1>1, <2>1 DEF LoadedOrder
<1>10. \A n : Holding(orders', "order_id", n) = Holding(filtered, "order_id", n)
  BY <1>8, <1>9 DEF Holding
<1>11. Left(orders', rows, "order_id", "start_time", min_timestamp, OrderTimeBound, MaxOrders)
  BY <1>6, <1>10 DEF Left
<1>12. Left(trucks, TruckRows, "truck_id", "init_time", min_timestamp, TruckTimeBound, MaxTrucks)
  BY <1>2 DEF LeftInv
<1> QED
  BY <1>2, <1>4, <1>11, <1>12 DEF LeftInv, rows

LEMMA LeftNext == TypeInv /\ RowsInv /\ LeftInv /\ [Next]_vars => LeftInv'
<1> SUFFICES ASSUME TypeInv, RowsInv, LeftInv, [Next]_vars PROVE LeftInv'
  OBVIOUS
<1>1. ASSUME pc' \notin {"filter_orders", "solve"} PROVE LeftInv'
  BY <1>1 DEF LeftInv
<1>2. CASE ReadParam
  BY <1>1, <1>2 DEF ReadParam
<1>3. CASE ReadTruck
  BY <1>1, <1>3 DEF ReadTruck
<1>4. CASE ReadOrder
  BY <1>1, <1>4 DEF ReadOrder
<1>5. CASE ReadDist
  BY <1>1, <1>5 DEF ReadDist
<1>6. CASE NextSheet
  BY <1>1, <1>6 DEF NextSheet
<1>7. CASE ShiftTimestamps
  BY <1>1, <1>7 DEF ShiftTimestamps
<1>8. CASE SqueezeTruck
  BY <1>1, <1>8 DEF SqueezeTruck
<1>9. CASE SqueezeOrder
  BY <1>1, <1>9 DEF SqueezeOrder
<1>10. CASE SqueezeDist
  BY <1>1, <1>10 DEF SqueezeDist
<1>11. CASE SqueezeNext
  BY <1>1, <1>11 DEF SqueezeNext
<1>12. CASE FilterTrucks
  BY <1>12, FilterTrucksLeft
<1>13. CASE FilterOrders
  BY <1>13, FilterOrdersLeft
<1>14. CASE UNCHANGED vars
  <2>1. UNCHANGED <<file, trucks, orders, min_timestamp, pc>>
    BY <1>14 DEF vars, loaded
  <2>2. TruckRows' = TruckRows /\ OrderRows' = OrderRows
    BY <2>1, SheetsStay
  <2> QED
    BY <2>1, <2>2 DEF LeftInv
<1>15. CASE Terminated
  BY <1>14, <1>15 DEF Terminated
<1> QED
  BY <1>2, <1>3, <1>4, <1>5, <1>6, <1>7, <1>8, <1>9, <1>10, <1>11, <1>12, <1>13, <1>14,
     <1>15 DEF Next

\* For all sheets and all bounds of the filters, whichever order std::sort gives equal
\* times: what is solved holds each truck and order whose row has its numbers and is
\* early enough, the first of them if a filter takes no more, as often as the sheet
\* does, and the last complete row of each road; and nothing else (main.cpp).
THEOREM NothingLostCorrect == Spec => []NothingLost
<1>1. Init => LeftInv
  BY DEF Init, LeftInv
<1>2. TypeInv /\ RowsInv /\ LeftInv => NothingLost
  <2> SUFFICES ASSUME RowsInv, LeftInv, pc = "solve" PROVE NothingLost
    BY DEF NothingLost
  <2>1. DistsById(dists, DistRows, real_city_to_id)
    BY DEF RowsInv, DistsInv
  <2>2. /\ Left(trucks, TruckRows, "truck_id", "init_time", min_timestamp, TruckTimeBound,
                MaxTrucks)
        /\ Left(orders, OrderRows, "order_id", "start_time", min_timestamp, OrderTimeBound,
                MaxOrders)
    BY DEF LeftInv
  <2>3. /\ SameIds(trucks, WithNumbers(TruckRows,
                     LAMBDA r : r.init_time - min_timestamp < TruckTimeBound),
                   "truck_id", MaxTrucks)
        /\ SameIds(orders, WithNumbers(OrderRows,
                     LAMBDA r : r.start_time - min_timestamp < OrderTimeBound),
                   "order_id", MaxOrders)
    BY <2>2 DEF SameIds, WithNumbers, Left, FirstOf
  <2> QED
    BY <2>1, <2>3 DEF NothingLost, DistsById, Named, Pair
<1> QED
  BY <1>1, <1>2, TypeInit, TypeNext, RowsInit, RowsNext, LeftNext, PTL DEF Spec
==============================================================================

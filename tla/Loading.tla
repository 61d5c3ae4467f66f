-------------------------------- MODULE Loading --------------------------------
(***************************************************************************)
(* How a Data object comes to be: the constructors that read four sheets   *)
(* row by row (params.cpp, trucks.cpp, orders.cpp, distances.cpp), then    *)
(* ShiftTimestamps and SqueezeCitiesIds (data.cpp), and what main does to  *)
(* it before it gives it to BatchSolver (main.cpp).                        *)
(*                                                                         *)
(* A sheet is the sequence of its rows below the header.  A cell with a    *)
(* number is what get_num_value and get_time_value make of it.  For the    *)
(* unsigned fields (ids, cities, times in minutes) that is a natural       *)
(* number whatever the cell holds: the conversion cuts fractions off,      *)
(* wraps negative integers, and may make anything of a negative fraction.  *)
(* For the double fields (the parameters, the roads, distance, revenue)    *)
(* whole numbers that are not negative are an abstraction, on which no     *)
(* property depends.  Empty and Text are the cells without a number.  A    *)
(* trailer type is the set of the words between its commas without spaces, *)
(* as their order and repetition change nothing: none for an empty cell,   *)
(* "" for one that has only spaces.  Roads are in metres, and the speed of *)
(* the data is 1000 times VELOCITY, which stands for the division by 1000. *)
(***************************************************************************)
EXTENDS Fleet, Sorting

CONSTANTS Files,        \* the files considered: [params, trucks, orders, dists]
          UIntRange,    \* 2^32: number of values of an unsigned int
          MaxTrucks, TruckTimeBound,    \* the arguments of filter_trucks
          MaxOrders, OrderTimeBound     \* and of filter_orders

Empty == -1
Text == -2
Cell == Nat \cup {Empty, Text}

\* get_time_value returns an unsigned int.
TimeCell == (0 .. UIntRange - 1) \cup {Empty, Text}

\* The optional has a value.
Number(cell) == cell >= 0

ParamRow == [first : Cell, name : STRING, value : Cell]
TruckRow == [truck_id : Cell, load_type : STRING, trailer_type : SUBSET STRING,
             init_time : TimeCell, init_city : Cell]
OrderRow == [order_id : Cell, obligation : BOOLEAN, start_time : TimeCell, finish_time : TimeCell,
             from_city : Cell, to_city : Cell, load_type : STRING,
             trailer_type : SUBSET STRING, distance : Cell, revenue : Cell]
DistRow == [from : Cell, to : Cell, d : Cell]

ASSUME FilesAssumption ==
    \A f \in Files :
        /\ f.params \in Seq(ParamRow)
        /\ f.trucks \in Seq(TruckRow)
        /\ f.orders \in Seq(OrderRow)
        /\ f.dists \in Seq(DistRow)

ASSUME LimitsAssumption ==
    /\ UIntRange \in Nat \ {0}
    /\ MaxTrucks \in Nat \ {0} /\ MaxOrders \in Nat \ {0}
    /\ TruckTimeBound \in Nat /\ OrderTimeBound \in Nat

VARIABLES file,
          row,              \* the next row of the sheet that is being read
          params, trucks, orders, dists,
          min_timestamp,
          id_to_real_city, real_city_to_id,
          cur,              \* SqueezeCitiesIds: the next id
          item,             \* and the next truck, order or road to squeeze
          squeezed_dists,
          pc

loaded == <<params, trucks, orders, dists>>
squeezing == <<id_to_real_city, real_city_to_id, cur, item, squeezed_dists>>
vars == <<file, row, loaded, min_timestamp, squeezing, pc>>

\* An assignment to the element of a map.
Put(map, key, value) ==
    [k \in DOMAIN map \cup {key} |-> IF k = key THEN value ELSE map[k]]

NoElements == [k \in {} |-> 0]

-----------------------------------------------------------------------------
\* PARAM_NAME, in the order of the cases of the switch.
ParamNames == <<"VELOCITY", "TRIP_KM_PRICE", "TRIP_HOUR_PRICE", "IDLE_RUN_KM_PRICE",
                "IDLE_RUN_HOUR_PRICE", "REST_HOUR_PRICE">>

\* What the body of a case, and of all those after it, sets: none ends with a break.
FallThrough(cases, name) ==
    {cases[i] : i \in {i \in DOMAIN cases : \E j \in 1 .. i : cases[j] = name}}

\* Mutant of Assigned: the cases are in the order of the fields of Params.
Assigned_ByField(name) ==
    FallThrough(<<"VELOCITY", "IDLE_RUN_KM_PRICE", "IDLE_RUN_HOUR_PRICE",
                  "REST_HOUR_PRICE", "TRIP_KM_PRICE", "TRIP_HOUR_PRICE">>, name)

\* The parameters that a row sets.
Assigned(name) == FallThrough(ParamNames, name)

\* GetMaskLoadType.
LoadMasks == [rear |-> {0}, full |-> {3}, side_rear |-> {0, 1}, top_rear |-> {0, 2}]

\* GetMaskTrailerType: the mask that it puts together is not what it returns.
TrailerWords == {"awning", "van", "refrigerator", "thermos", "isothermal"}
FullMaskTrailerType == 0 .. 4

GetMaskTrailerType(words) == IF words \subseteq TrailerWords THEN {0} ELSE FullMaskTrailerType

\* Texts that both can read: GetMaskLoadType exits at any other, GetMaskTrailerType
\* asserts that its text is not empty.
MasksReadable(r) == r.load_type \in DOMAIN LoadMasks /\ r.trailer_type # {}

\* The condition for a row to become a truck, an order or a road.
TruckGiven(r) == Number(r.truck_id) /\ Number(r.init_time) /\ Number(r.init_city)
OrderGiven(r) ==
    /\ Number(r.order_id) /\ Number(r.start_time) /\ Number(r.finish_time)
    /\ Number(r.from_city) /\ Number(r.to_city)
    /\ Number(r.distance) /\ Number(r.revenue)
DistGiven(r) == Number(r.from) /\ Number(r.to) /\ Number(r.d)

\* The objects, with the id that Fleet leaves to the position.
TruckOf(r) == [truck_id |-> r.truck_id,
               mask_load_type |-> LoadMasks[r.load_type],
               mask_trailer_type |-> GetMaskTrailerType(r.trailer_type),
               init_time |-> r.init_time,
               init_city |-> r.init_city]

OrderOf(r) == [order_id |-> r.order_id,
               obligation |-> r.obligation,
               start_time |-> r.start_time,
               finish_time |-> r.finish_time,
               from_city |-> r.from_city,
               to_city |-> r.to_city,
               mask_load_type |-> LoadMasks[r.load_type],
               mask_trailer_type |-> GetMaskTrailerType(r.trailer_type)]

-----------------------------------------------------------------------------
Init ==
    /\ file \in Files
    /\ row = 1
    /\ params = [name \in {ParamNames[i] : i \in DOMAIN ParamNames} |-> 0]
    /\ trucks = <<>>
    /\ orders = <<>>
    /\ dists = NoElements
    /\ min_timestamp = 0
    /\ id_to_real_city = NoElements
    /\ real_city_to_id = NoElements
    /\ cur = 1
    /\ item = 1
    /\ squeezed_dists = NoElements
    /\ pc = "params"

\* Reading a sheet ends after its last row, or at a row whose first cell is empty.
EndOfSheet(sheet, first) == row \in DOMAIN sheet => sheet[row][first] = Empty

\* An unexpected name, or a value that is no number, ends the process.
ReadParam ==
    /\ pc = "params"
    /\ ~EndOfSheet(file.params, "first")
    /\ LET r == file.params[row]
       IN IF r.name \in DOMAIN params /\ Number(r.value)
          THEN /\ params' = [n \in DOMAIN params |->
                                IF n \in Assigned(r.name) THEN r.value ELSE params[n]]
               /\ row' = row + 1
               /\ UNCHANGED pc
          ELSE pc' = "aborted" /\ UNCHANGED <<params, row>>
    /\ UNCHANGED <<file, trucks, orders, dists, min_timestamp, squeezing>>

\* Mutant of ReadTruck: a row without a number ends the sheet.
ReadTruck_Stops ==
    /\ pc = "trucks"
    /\ ~EndOfSheet(file.trucks, "truck_id")
    /\ LET r == file.trucks[row]
       IN IF TruckGiven(r) /\ ~MasksReadable(r)
          THEN pc' = "aborted" /\ UNCHANGED <<trucks, row>>
          ELSE /\ trucks' = IF TruckGiven(r) THEN Append(trucks, TruckOf(r)) ELSE trucks
               /\ row' = IF TruckGiven(r) THEN row + 1 ELSE Len(file.trucks) + 1
               /\ UNCHANGED pc
    /\ UNCHANGED <<file, params, orders, dists, min_timestamp, squeezing>>

ReadTruck ==
    /\ pc = "trucks"
    /\ ~EndOfSheet(file.trucks, "truck_id")
    /\ LET r == file.trucks[row]
       IN IF TruckGiven(r) /\ ~MasksReadable(r)
          THEN pc' = "aborted" /\ UNCHANGED <<trucks, row>>
          ELSE /\ trucks' = IF TruckGiven(r) THEN Append(trucks, TruckOf(r)) ELSE trucks
               /\ row' = row + 1
               /\ UNCHANGED pc
    /\ UNCHANGED <<file, params, orders, dists, min_timestamp, squeezing>>

\* order_id 0 fails an assertion; no build of the program leaves assertions out.
ReadOrder ==
    /\ pc = "orders"
    /\ ~EndOfSheet(file.orders, "order_id")
    /\ LET r == file.orders[row]
       IN IF OrderGiven(r) /\ (r.order_id = 0 \/ ~MasksReadable(r))
          THEN pc' = "aborted" /\ UNCHANGED <<orders, row>>
          ELSE /\ orders' = IF OrderGiven(r) THEN Append(orders, OrderOf(r)) ELSE orders
               /\ row' = row + 1
               /\ UNCHANGED pc
    /\ UNCHANGED <<file, params, trucks, dists, min_timestamp, squeezing>>

\* A later row for the same two cities replaces the distance.
ReadDist ==
    /\ pc = "dists"
    /\ ~EndOfSheet(file.dists, "from")
    /\ LET r == file.dists[row]
       IN dists' = IF DistGiven(r)
                   THEN Put(dists, <<r.from, r.to>>, r.d)
                   ELSE dists
    /\ row' = row + 1
    /\ UNCHANGED <<file, params, trucks, orders, min_timestamp, squeezing, pc>>

\* From a sheet to the next, in the order of Data's members.
NextSheet ==
    /\ \/ /\ pc = "params" /\ EndOfSheet(file.params, "first")
          /\ pc' = "trucks"
       \/ /\ pc = "trucks" /\ EndOfSheet(file.trucks, "truck_id")
          /\ pc' = "orders"
       \/ /\ pc = "orders" /\ EndOfSheet(file.orders, "order_id")
          /\ pc' = "dists"
       \/ /\ pc = "dists" /\ EndOfSheet(file.dists, "from")
          /\ pc' = "shift"
    /\ row' = 1
    /\ UNCHANGED <<file, loaded, min_timestamp, squeezing>>

-----------------------------------------------------------------------------
\* The least of a set of times and of UINT32_MAX.
Least(times) == CHOOSE m \in times \cup {UIntRange - 1} :
                    \A time \in times \cup {UIntRange - 1} : m <= time

\* Mutant of EarliestTime: the trucks have no part in it.
EarliestTime_Orders == Least({orders[o].start_time : o \in DOMAIN orders})

\* The new min_timestamp, in which the finish of an order has no part.
EarliestTime == Least({trucks[t].init_time : t \in DOMAIN trucks}
                         \cup {orders[o].start_time : o \in DOMAIN orders})

\* Mutant of Shifted: the order ends when it did.
Shifted_Start(order, min) == [order EXCEPT !.start_time = @ - min]

\* So a finish may wrap around.
Shifted(order, min) ==
    [order EXCEPT !.start_time = @ - min, !.finish_time = (@ - min) % UIntRange]

ShiftTimestamps ==
    /\ pc = "shift"
    /\ min_timestamp' = EarliestTime
    /\ trucks' = [t \in DOMAIN trucks |-> [trucks[t] EXCEPT !.init_time = @ - EarliestTime]]
    /\ orders' = [o \in DOMAIN orders |-> Shifted(orders[o], EarliestTime)]
    /\ pc' = "squeeze_trucks"
    /\ UNCHANGED <<file, row, params, dists, squeezing>>

\* Mutant of squeeze_city: cur is not counted up.
squeeze_city_Same(ids, city) ==
    IF city \in DOMAIN ids.to_id
    THEN ids
    ELSE [cur |-> ids.cur,
          to_id |-> Put(ids.to_id, city, ids.cur),
          to_real |-> Put(ids.to_real, ids.cur, city)]

\* squeeze_city, on the two maps and cur.
squeeze_city(ids, city) ==
    IF city \in DOMAIN ids.to_id
    THEN ids
    ELSE [cur |-> ids.cur + 1,
          to_id |-> Put(ids.to_id, city, ids.cur),
          to_real |-> Put(ids.to_real, ids.cur, city)]

Ids == [cur |-> cur, to_id |-> real_city_to_id, to_real |-> id_to_real_city]

Keep(ids) ==
    /\ cur' = ids.cur
    /\ real_city_to_id' = ids.to_id
    /\ id_to_real_city' = ids.to_real

SqueezeTruck ==
    /\ pc = "squeeze_trucks"
    /\ item <= Len(trucks)
    /\ LET ids == squeeze_city(Ids, trucks[item].init_city)
       IN /\ Keep(ids)
          /\ trucks' = [trucks EXCEPT ![item].init_city = ids.to_id[@]]
    /\ item' = item + 1
    /\ UNCHANGED <<file, row, params, orders, dists, min_timestamp, squeezed_dists, pc>>

SqueezeOrder ==
    /\ pc = "squeeze_orders"
    /\ item <= Len(orders)
    /\ LET ids == squeeze_city(squeeze_city(Ids, orders[item].from_city),
                               orders[item].to_city)
       IN /\ Keep(ids)
          /\ orders' = [orders EXCEPT ![item].from_city = ids.to_id[@],
                                      ![item].to_city = ids.to_id[@]]
    /\ item' = item + 1
    /\ UNCHANGED <<file, row, params, trucks, dists, min_timestamp, squeezed_dists, pc>>

Before(a, b) == a[1] < b[1] \/ (a[1] = b[1] /\ a[2] < b[2])

\* The roads in the order of the map.  The two arguments of make_pair may be
\* evaluated in either order, and emplace keeps what is there.
SqueezeDist ==
    /\ pc = "squeeze_dists"
    /\ item <= Cardinality(DOMAIN dists)
    /\ LET pair == Sorted(DOMAIN dists, Before)[item]
       IN \E first, second \in {pair[1], pair[2]} :
             LET ids == squeeze_city(squeeze_city(Ids, first), second)
                 key == <<ids.to_id[pair[1]], ids.to_id[pair[2]]>>
             IN /\ {first, second} = {pair[1], pair[2]}
                /\ Keep(ids)
                /\ squeezed_dists' = IF key \in DOMAIN squeezed_dists
                                     THEN squeezed_dists
                                     ELSE Put(squeezed_dists, key, dists[pair])
    /\ item' = item + 1
    /\ UNCHANGED <<file, row, loaded, min_timestamp, pc>>

SqueezeNext ==
    /\ \/ /\ pc = "squeeze_trucks" /\ item > Len(trucks)
          /\ pc' = "squeeze_orders"
          /\ UNCHANGED dists
       \/ /\ pc = "squeeze_orders" /\ item > Len(orders)
          /\ pc' = "squeeze_dists"
          /\ UNCHANGED dists
       \/ /\ pc = "squeeze_dists" /\ item > Cardinality(DOMAIN dists)
          /\ pc' = "filter"
          /\ dists' = squeezed_dists
    /\ item' = 1
    /\ UNCHANGED <<file, row, params, trucks, orders, min_timestamp, id_to_real_city,
                   real_city_to_id, cur, squeezed_dists>>

-----------------------------------------------------------------------------
\* The objects whose time, the name of a field, is before the bound, as many as count.
FirstBefore(objects, time, bound, count) ==
    LET early == KeptAt(objects, {i \in DOMAIN objects : objects[i][time] < bound})
    IN SubSeq(early, 1, IF Len(early) < count THEN Len(early) ELSE count)

\* What std::sort by time may make of a sequence: equal times in any order.
SortedByTime(objects, time) ==
    {[i \in DOMAIN objects |-> objects[order[i]]] :
        order \in {f \in [DOMAIN objects -> DOMAIN objects] :
            /\ \A i, j \in DOMAIN objects : f[i] = f[j] => i = j
            /\ \A i, j \in DOMAIN objects : i < j => objects[f[i]][time] <= objects[f[j]][time]}}

FilterTrucks ==
    /\ pc = "filter"
    /\ trucks' \in
          SortedByTime(FirstBefore(trucks, "init_time", TruckTimeBound, MaxTrucks), "init_time")
    /\ pc' = "filter_orders"
    /\ UNCHANGED <<file, row, params, orders, dists, min_timestamp, squeezing>>

\* With the loop of main that takes the obligations off.
FilterOrders ==
    /\ pc = "filter_orders"
    /\ \E filtered \in
          SortedByTime(FirstBefore(orders, "start_time", OrderTimeBound, MaxOrders),
                       "start_time") :
          orders' = [o \in DOMAIN filtered |-> [filtered[o] EXCEPT !.obligation = FALSE]]
    /\ pc' = "solve"
    /\ UNCHANGED <<file, row, params, trucks, dists, min_timestamp, squeezing>>

Terminated == pc \in {"solve", "aborted"} /\ UNCHANGED vars

Next ==
    \/ ReadParam
    \/ ReadTruck
    \/ ReadOrder
    \/ ReadDist
    \/ NextSheet
    \/ ShiftTimestamps
    \/ SqueezeTruck
    \/ SqueezeOrder
    \/ SqueezeDist
    \/ SqueezeNext
    \/ FilterTrucks
    \/ FilterOrders
    \/ Terminated

Spec == Init /\ [][Next]_vars
-----------------------------------------------------------------------------
(***************************************************************************)
(* Properties.  They compare the Data object with the sheets, so they say  *)
(* first what a row of a sheet means.                                      *)
(***************************************************************************)
LoadedTruck == [truck_id : Nat, mask_load_type : SUBSET LoadType,
                mask_trailer_type : SUBSET FullMaskTrailerType,
                init_time : Nat, init_city : Nat]

\* Types; the Data object has ids where it had cities.
TypeOK ==
    /\ file \in Files
    /\ row \in Nat \ {0}
    /\ params \in [{ParamNames[i] : i \in DOMAIN ParamNames} -> Nat]
    /\ trucks \in Seq(LoadedTruck)
    /\ orders \in Seq([order_id : Nat \ {0}, obligation : BOOLEAN,
                       start_time : Nat, finish_time : Nat,
                       from_city : Nat, to_city : Nat,
                       mask_load_type : SUBSET LoadType,
                       mask_trailer_type : SUBSET FullMaskTrailerType])
    /\ DOMAIN dists \subseteq Nat \X Nat
    /\ dists \in [DOMAIN dists -> Nat]
    /\ DOMAIN squeezed_dists \subseteq (1 .. cur - 1) \X (1 .. cur - 1)
    /\ squeezed_dists \in [DOMAIN squeezed_dists -> Nat]
    /\ min_timestamp \in Nat
    /\ cur \in Nat \ {0}
    /\ item \in Nat \ {0}
    /\ pc \in {"params", "trucks", "orders", "dists", "shift", "squeeze_trucks",
               "squeeze_orders", "squeeze_dists", "filter", "filter_orders", "solve", "aborted"}

\* The rows of a sheet that are read.
Rows(sheet, first) ==
    LET ends == {i \in DOMAIN sheet : sheet[i][first] = Empty}
    IN SubSeq(sheet, 1,
              IF ends = {} THEN Len(sheet)
                           ELSE (CHOOSE i \in ends : \A j \in ends : i <= j) - 1)

\* Those with all their numbers.
WithNumbers(rows, Given(_)) == KeptAt(rows, {i \in DOMAIN rows : Given(rows[i])})

TruckRows == WithNumbers(Rows(file.trucks, "truck_id"), TruckGiven)
OrderRows == WithNumbers(Rows(file.orders, "order_id"), OrderGiven)
DistRows == WithNumbers(Rows(file.dists, "from"), DistGiven)

\* A parameter is what its row says, unless a later row names it again or names one
\* whose case comes before: without a break in the switch (params.cpp) a row also
\* sets the parameters whose cases follow, so the order of the rows matters.
ParamsAsInFile ==
    pc = "trucks" =>
        LET rows == Rows(file.params, "first")
            Case(name) == CHOOSE i \in DOMAIN ParamNames : ParamNames[i] = name
        IN \A i \in DOMAIN rows :
              (\A j \in DOMAIN rows : i < j => Case(rows[i].name) < Case(rows[j].name))
              => params[rows[i].name] = rows[i].value

\* The checker prints what the sheets say: id_to_real_city takes the id of a city
\* back to it, and the ids are 1, 2, ... without a gap.
CitiesInverse ==
    /\ DOMAIN id_to_real_city = 1 .. cur - 1
    /\ \A id \in DOMAIN id_to_real_city :
          /\ id_to_real_city[id] \in DOMAIN real_city_to_id
          /\ real_city_to_id[id_to_real_city[id]] = id
    /\ \A city \in DOMAIN real_city_to_id :
          /\ real_city_to_id[city] \in DOMAIN id_to_real_city
          /\ id_to_real_city[real_city_to_id[city]] = city

\* The data as Fleet knows it.
Loaded == [dists |-> dists, speed |-> 1000 * params["VELOCITY"]]

\* Whether the sheets give a way from a city, and its metres: the last row's.
IsRoad(from, to) ==
    from = to \/ \E i \in DOMAIN DistRows : DistRows[i].from = from /\ DistRows[i].to = to

Metres(from, to) ==
    LET rows == {i \in DOMAIN DistRows : DistRows[i].from = from /\ DistRows[i].to = to}
    IN IF from = to THEN 0 ELSE DistRows[CHOOSE i \in rows : \A j \in rows : j <= i].d

\* A truck's row, a city and a time, and the row of the order that is to be next.
MoveByRows(truck, city, time, order) ==
    /\ LoadMasks[truck.load_type] \subseteq LoadMasks[order.load_type]
    /\ truck.trailer_type \subseteq TrailerWords \/ ~(order.trailer_type \subseteq TrailerWords)
    /\ IsRoad(city, order.from_city)
    /\ time + (60 * Metres(city, order.from_city)) \div Loaded.speed <= order.start_time

\* Shifting the times and renaming the cities changes no move: a truck may go
\* from its start, or from an order, to an order just when the rows of the sheets
\* allow it.  But nothing follows an order that ends before everything starts: its
\* end wraps around (unless the arrival does not fit an unsigned int either, when
\* the conversion in data.cpp is undefined).
MovesKept ==
    pc = "filter" /\ params["VELOCITY"] > 0 =>
        \A t \in DOMAIN trucks, o \in DOMAIN orders :
            /\ MoveBetweenOrders(Loaded, trucks[t], make_ffo(trucks[t]), orders[o])
                  <=> MoveByRows(TruckRows[t], TruckRows[t].init_city,
                                 TruckRows[t].init_time, OrderRows[o])
            /\ \A previous \in DOMAIN orders :
                  LET onward == MoveBetweenOrders(Loaded, trucks[t], EndOf(orders[previous]),
                                                  orders[o])
                  IN IF OrderRows[previous].finish_time >= min_timestamp
                     THEN onward <=> MoveByRows(TruckRows[t], OrderRows[previous].to_city,
                                                OrderRows[previous].finish_time, OrderRows[o])
                     ELSE onward => orders[previous].finish_time
                                       + TravelTime(Loaded, orders[previous].to_city,
                                                    orders[o].from_city) >= UIntRange

\* The places at which an id occurs.
Holding(objects, id, n) == {i \in DOMAIN objects : objects[i][id] = n}

\* The objects have the ids of the first rows, as many as count, each as often.
SameIds(objects, rows, id, count) ==
    LET first == SubSeq(rows, 1, IF Len(rows) < count THEN Len(rows) ELSE count)
    IN \A n \in {rows[i][id] : i \in DOMAIN rows} \cup {objects[i][id] : i \in DOMAIN objects} :
          Cardinality(Holding(objects, id, n)) = Cardinality(Holding(first, id, n))

\* A row of roads that no later one replaces.
IsLast(rows, i) ==
    \A j \in DOMAIN rows : rows[j].from = rows[i].from /\ rows[j].to = rows[i].to => j <= i

\* What is solved is what the sheets give and nothing else: the rows of trucks and of
\* orders that have all their numbers and are early enough, the first ones if a
\* filter takes no more; and a road for each pair of cities that has a complete row,
\* as long as the last of them says.
NothingLost ==
    pc = "solve" =>
        LET IdsOf(r) == <<real_city_to_id[r.from], real_city_to_id[r.to]>>
        IN /\ SameIds(trucks, WithNumbers(TruckRows,
                         LAMBDA r : r.init_time - min_timestamp < TruckTimeBound),
                      "truck_id", MaxTrucks)
           /\ SameIds(orders, WithNumbers(OrderRows,
                         LAMBDA r : r.start_time - min_timestamp < OrderTimeBound),
                      "order_id", MaxOrders)
           /\ DOMAIN dists = {IdsOf(DistRows[i]) : i \in DOMAIN DistRows}
           /\ \A i \in DOMAIN DistRows :
                 IsLast(DistRows, i) => dists[IdsOf(DistRows[i])] = DistRows[i].d
================================================================================

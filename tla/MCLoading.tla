------------------------------ MODULE MCLoading ------------------------------
(***************************************************************************)
(* Small sheets for Loading: rows that are not complete, rows after an     *)
(* empty one, names that nobody expects, cities that only the roads name.  *)
(***************************************************************************)
EXTENDS Loading

MCCity == 1 .. 6
MCTrailerType == 0 .. 4
MCUIntRange == 128

Param(name, value) == [first |-> Text, name |-> name, value |-> value]

InOrder == [i \in 1 .. 6 |-> Param(ParamNames[i], 70 + 10 * i)]

ParamSheets ==
    {InOrder,
     <<InOrder[1], InOrder[4], InOrder[6]>>,
     [i \in 1 .. 6 |-> InOrder[7 - i]],
     <<InOrder[5], InOrder[1], InOrder[4]>>,
     <<InOrder[3], [InOrder[1] EXCEPT !.first = Empty], InOrder[4]>>}

BadParamSheets == {<<InOrder[1], Param("SPEED", 5)>>, <<Param("VELOCITY", Text)>>}

TruckFrom(id, load, trailer, time, city) ==
    [truck_id |-> id, load_type |-> load, trailer_type |-> trailer,
     init_time |-> time, init_city |-> city]

FirstTruck == TruckFrom(1, "rear", {"awning", "van"}, 22, 30)

\* The second has no time, the last one comes after an empty row.
TruckSheets ==
    {<<FirstTruck, TruckFrom(2, "full", {"van"}, Text, 10),
       TruckFrom(3, "side_rear", {"tent"}, 20, 10)>>,
     <<TruckFrom(1, "rear", {"van"}, 25, 20), TruckFrom(4, "rear", {"awning"}, 20, 10),
       TruckFrom(5, "rear", {""}, 20, 30), FirstTruck>>,
     <<FirstTruck, [FirstTruck EXCEPT !.truck_id = Empty], FirstTruck>>}

BadTruckSheets ==
    {<<FirstTruck, [FirstTruck EXCEPT !.load_type = "left"]>>,
     <<[FirstTruck EXCEPT !.trailer_type = {}], FirstTruck>>}

OrderFor(id, times, cities, load, trailer) ==
    [order_id |-> id, obligation |-> TRUE, start_time |-> times[1], finish_time |-> times[2],
     from_city |-> cities[1], to_city |-> cities[2], load_type |-> load,
     trailer_type |-> trailer, distance |-> 5, revenue |-> 6]

FirstOrder == OrderFor(7, <<24, 26>>, <<10, 20>>, "side_rear", {"awning"})

\* Orders that end before they start, one of them before everything starts; one that
\* starts late; and more orders than the filter takes.
OrderSheets ==
    {<<FirstOrder, OrderFor(8, <<27, 25>>, <<20, 30>>, "rear", {"thermos", "van"}),
       OrderFor(9, <<60, 64>>, <<20, 10>>, "rear", {"van"})>>,
     <<OrderFor(8, <<25, 21>>, <<30, 10>>, "rear", {"tent"}), FirstOrder,
       [FirstOrder EXCEPT !.order_id = 3, !.revenue = Text]>>,
     <<OrderFor(5, <<26, 3>>, <<20, 10>>, "side_rear", {"tent"}), FirstOrder>>,
     <<OrderFor(8, <<30, 31>>, <<30, 10>>, "rear", {"tent"}), FirstOrder, FirstOrder,
       OrderFor(8, <<24, 28>>, <<10, 30>>, "rear", {"van"})>>}

BadOrderSheets ==
    {<<FirstOrder, [FirstOrder EXCEPT !.order_id = 0]>>,
     <<[FirstOrder EXCEPT !.trailer_type = {}], FirstOrder>>}

Road(from, to, d) == [from |-> from, to |-> to, d |-> d]

\* A minute is about 1300 m at 80 km/h.
DistSheets ==
    {<<Road(10, 20, 1200), Road(20, 10, 2000), Road(30, 10, 1400), Road(30, 20, 3000),
       Road(10, 20, 2700)>>,
     <<Road(30, 20, 1200), Road(20, 30, Text), Road(50, 40, 700), Road(60, 10, 900)>>}

MCFiles ==
    [params : ParamSheets, trucks : TruckSheets, orders : OrderSheets, dists : DistSheets]
    \cup [params : BadParamSheets \cup {InOrder}, trucks : BadTruckSheets \cup {<<FirstTruck>>},
          orders : BadOrderSheets, dists : DistSheets]
==============================================================================

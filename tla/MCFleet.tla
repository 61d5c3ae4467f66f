------------------------------- MODULE MCFleet -------------------------------
(***************************************************************************)
(* Trucks, orders and roads for the runs.                                  *)
(***************************************************************************)
EXTENDS Integers, Sequences

MCCity == 1 .. 3
MCTrailerType == {0}

TruckAt(city, time, load) ==
    [mask_load_type |-> load, mask_trailer_type |-> {0},
     init_time |-> time, init_city |-> city]

OrderFrom(from, to, start, finish, obligation, load) ==
    [obligation |-> obligation, start_time |-> start, finish_time |-> finish,
     from_city |-> from, to_city |-> to,
     mask_load_type |-> load, mask_trailer_type |-> {0}]

\* The id of an order is its place in the sequence.
Numbered(orders) ==
    [i \in DOMAIN orders |->
        [order_id |-> i, obligation |-> orders[i].obligation,
         start_time |-> orders[i].start_time, finish_time |-> orders[i].finish_time,
         from_city |-> orders[i].from_city, to_city |-> orders[i].to_city,
         mask_load_type |-> orders[i].mask_load_type,
         mask_trailer_type |-> orders[i].mask_trailer_type]]

\* City 2 is less than a minute from city 1 (rounded down to 0); the others
\* are a minute apart.
NearDists ==
    [pair \in {<<1, 2>>, <<2, 1>>, <<2, 3>>, <<3, 2>>, <<1, 3>>, <<3, 1>>} |->
        IF 3 \in {pair[1], pair[2]} THEN 2 ELSE 1]

\* A truck that enters city 3 finds no road out of it.
SinkDists ==
    [pair \in {<<1, 2>>, <<2, 1>>, <<2, 3>>, <<1, 3>>} |-> 2]
==============================================================================

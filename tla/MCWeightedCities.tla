-------------------------- MODULE MCWeightedCities --------------------------
(***************************************************************************)
(* Small calls for WeightedCities: two batches, the second with fewer      *)
(* orders and roads than the first, and weights of two trucks that meet.   *)
(***************************************************************************)
EXTENDS WeightedCities, MCFleet

MCUIntRange == 64

MCCosts == [free_km_cost |-> 1, free_hour_cost |-> 2, wait_cost |-> 3,
            duty_km_cost |-> 4, duty_hour_cost |-> 5]

MakeData(ts, os, dists) ==
    [trucks |-> ts, orders |-> Numbered(os), dists |-> dists, speed |-> 80, costs |-> MCCosts,
     amounts |-> [i \in DOMAIN os |-> [distance |-> i, revenue |-> 90000 * i]]]

\* Roads of 0, 1 and 2 minutes, rounded down from 45, 90 and 135 seconds.
RoundedDists ==
    [pair \in {<<1, 2>>, <<2, 1>>, <<2, 3>>, <<3, 2>>, <<1, 3>>, <<3, 1>>} |->
        CASE pair \in {<<1, 2>>, <<2, 1>>} -> 1
          [] pair \in {<<2, 3>>, <<3, 2>>} -> 2
          [] OTHER -> 3]

\* Both trucks may end in city 2 at 3, by different orders.
LargeBatch ==
    MakeData(<<TruckAt(1, 0, {0}), TruckAt(1, 1, {0})>>,
             <<OrderFrom(1, 2, 1, 3, FALSE, {0, 1}), OrderFrom(3, 2, 2, 3, FALSE, {0})>>,
             RoundedDists)

\* One order, and a truck that no road leads away from.
SmallBatch ==
    MakeData(<<TruckAt(2, 0, {0}), TruckAt(3, 2, {0, 1})>>,
             <<OrderFrom(2, 3, 1, 2, TRUE, {0})>>, SinkDists)

MCInputs == {LargeBatch, SmallBatch}
MCBoundaries == {2, 6}
MCWeights == {7, 500000}

\* From its start the first truck of the large batch has less than a minute to
\* city 2, and that of the small batch is there.
MCEntries == {<<1, ffo_pos, 2>>, <<1, 1, 3>>, <<2, 2, 3>>}
=============================================================================

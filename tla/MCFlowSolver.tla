---------------------------- MODULE MCFlowSolver -----------------------------
(***************************************************************************)
(* Small batches for FlowSolver: two trucks, three orders, three cities.   *)
(***************************************************************************)
EXTENDS FlowSolver, MCFleet

MCUIntRange == 64

\* Costs of which no two are the same, and an order that does not pay.
MCCosts == [free_km_cost |-> 1, free_hour_cost |-> 2, wait_cost |-> 3,
            duty_km_cost |-> 4, duty_hour_cost |-> 5]

MCAmounts == <<[distance |-> 1, revenue |-> 144000], [distance |-> 2, revenue |-> 21600],
               [distance |-> 3, revenue |-> 288000]>>

MakeData(ts, os, dists) ==
    [trucks |-> ts, orders |-> Numbered(os), dists |-> dists, speed |-> 120,
     costs |-> MCCosts, amounts |-> SubSeq(MCAmounts, 1, Len(os))]

Fleets ==
    {<<TruckAt(1, 0, {0}), TruckAt(2, 0, {0, 1})>>,
     <<TruckAt(1, 1, {0}), TruckAt(1, 1, {0})>>,
     <<TruckAt(3, 1, {0, 1}), TruckAt(2, 3, {0})>>}

\* A later position may have an earlier start.
First == {OrderFrom(1, 2, 0, 1, FALSE, {0, 1}), OrderFrom(2, 3, 4, 5, TRUE, {0}),
          OrderFrom(1, 1, 1, 4, FALSE, {0, 1})}
Second == {OrderFrom(2, 1, 1, 3, FALSE, {0, 1}), OrderFrom(2, 3, 1, 2, TRUE, {0}),
           OrderFrom(1, 3, 3, 4, FALSE, {0})}
Third == {OrderFrom(1, 2, 3, 4, TRUE, {0, 1}), OrderFrom(3, 2, 2, 3, FALSE, {0, 1}),
          OrderFrom(3, 1, 5, 6, TRUE, {0})}

MCInputs ==
    {MakeData(fleet, <<first, second, third>>, dists) :
        fleet \in Fleets, first \in First, second \in Second, third \in Third,
        dists \in {NearDists, SinkDists}}

(***************************************************************************)
(* Orders that end before they start, or as they start: the variables may  *)
(* form cycles, within reach of a truck or not.                            *)
(***************************************************************************)
BackwardOrders ==
    {OrderFrom(1, 2, 5, 1, FALSE, {0, 1}), OrderFrom(2, 1, 3, 2, TRUE, {0}),
     OrderFrom(2, 2, 4, 4, FALSE, {0, 1}), OrderFrom(3, 1, 2, 0, FALSE, {0})}

BackwardInputs ==
    {MakeData(fleet, <<first, second, third>>, SinkDists) :
        fleet \in Fleets, first \in BackwardOrders, second \in BackwardOrders,
        third \in {OrderFrom(2, 3, 2, 3, FALSE, {0}), OrderFrom(2, 3, 0, 1, FALSE, {0, 1})}}

AllInputs == MCInputs \cup BackwardInputs

\* Two orders, each of which can be driven after the other.
CyclicInputs ==
    {MakeData(<<TruckAt(1, 0, {0})>>,
              <<OrderFrom(1, 2, 5, 1, FALSE, {0}), OrderFrom(2, 1, 3, 4, FALSE, {0})>>,
              NearDists)}
==============================================================================

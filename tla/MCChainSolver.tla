---------------------------- MODULE MCChainSolver ----------------------------
(***************************************************************************)
(* Small batches for ChainSolver: two trucks, three orders, chains of up   *)
(* to three orders in arrays of four places.                               *)
(***************************************************************************)
EXTENDS ChainSolver, MCFleet

MCMaxLen == 4
MCChainLen == 3

MakeData(ts, os, dists, weights) ==
    [trucks |-> ts, orders |-> Numbered(os), dists |-> dists, speed |-> 120,
     edges_w_vecs |-> weights]

Fleets ==
    {<<TruckAt(1, 0, {0}), TruckAt(1, 0, {0})>>,
     <<TruckAt(1, 0, {0, 1}), TruckAt(2, 1, {0})>>}

\* The second order may start before the first one.
Batches ==
    {<<OrderFrom(1, 2, 0, 1, FALSE, {0, 1}), OrderFrom(2, 1, 1, 2, TRUE, {0}),
       OrderFrom(1, 2, 3, 4, TRUE, {0, 1})>>,
     <<OrderFrom(2, 1, 3, 4, TRUE, {0, 1}), OrderFrom(1, 2, 1, 2, FALSE, {0, 1}),
       OrderFrom(1, 3, 5, 6, TRUE, {0})>>,
     <<OrderFrom(1, 3, 0, 1, TRUE, {0}), OrderFrom(1, 2, 0, 1, TRUE, {0}),
       OrderFrom(1, 2, 0, 2, TRUE, {0, 1})>>}

Weights ==
    {{},
     {<<1, ffo_pos, 2>>, <<1, 1, 3>>, <<1, 3, 1>>, <<1, 3, 3>>, <<2, 3, 3>>},
     {<<1, ffo_pos, 2>>, <<2, ffo_pos, 2>>, <<2, 2, 3>>}}

\* Four orders that one truck can drive one after another.
FourInARow ==
    MakeData(<<TruckAt(1, 0, {0})>>,
             <<OrderFrom(1, 2, 0, 1, TRUE, {0}), OrderFrom(2, 1, 1, 2, FALSE, {0}),
               OrderFrom(1, 2, 3, 4, TRUE, {0}), OrderFrom(2, 1, 5, 6, TRUE, {0})>>,
             NearDists, {<<1, 3, 1>>, <<1, 4, 3>>})

\* Two trucks with the same free-movement order and nothing that they have to do.
NothingToDo ==
    MakeData(<<TruckAt(1, 0, {0}), TruckAt(1, 0, {0})>>,
             <<OrderFrom(1, 2, 0, 1, FALSE, {0}), OrderFrom(1, 2, 0, 1, FALSE, {0})>>,
             NearDists,
             {<<1, ffo_pos, 3>>, <<2, ffo_pos, 3>>, <<1, 1, 3>>, <<2, 2, 3>>})

MCInputs ==
    {MakeData(fleet, batch, NearDists, weights) :
        fleet \in Fleets, batch \in Batches, weights \in Weights}
    \cup {FourInARow, NothingToDo}

ASSUME InputsForward == \A d \in MCInputs : ForwardOrders(d)

\* Two orders that end at the same place and time, and a city worth going to from
\* there: all chains with one of the orders end with the same free-movement order.
SharedInputs ==
    {MakeData(<<TruckAt(1, 0, {0}), TruckAt(1, 0, {0})>>,
              <<OrderFrom(1, 2, 0, 1, obligation, {0}), OrderFrom(1, 2, 0, 1, obligation, {0})>>,
              NearDists, {<<1, 1, 3>>, <<1, 2, 3>>, <<2, 1, 3>>, <<2, 2, 3>>}) :
        obligation \in BOOLEAN}
==============================================================================

--------------------------- MODULE MCBatchSolver ----------------------------
(***************************************************************************)
(* Small inputs for BatchSolver: two trucks, three orders that start in    *)
(* two or three windows, three cities.                                     *)
(***************************************************************************)
EXTENDS BatchSolver, MCFleet

MCUIntRange == 64

MakeProblem(ts, os, dists, speed, window, type) ==
    [trucks |-> ts, orders |-> Numbered(os), dists |-> dists, speed |-> speed,
     time_window |-> window, solver_model_type |-> type]

ModelTypes == {"FLOW_MODEL", "ASSIGNMENT_MODEL"}

Fleets ==
    {<<TruckAt(1, 0, {0}), TruckAt(2, 0, {0, 1})>>,
     <<TruckAt(1, 1, {0}), TruckAt(1, 1, {0})>>,
     <<TruckAt(3, 1, {0, 1}), TruckAt(2, 4, {0})>>,
     <<TruckAt(3, 4, {0, 1}), TruckAt(2, 5, {0})>>}

First == {OrderFrom(1, 2, 0, 1, FALSE, {0, 1}), OrderFrom(2, 3, 1, 2, TRUE, {0}),
          OrderFrom(2, 1, 0, 1, FALSE, {0, 1})}
Middle == {OrderFrom(2, 1, 1, 3, FALSE, {0, 1}), OrderFrom(1, 2, 2, 3, TRUE, {0}),
           OrderFrom(3, 1, 3, 6, FALSE, {0, 1})}
Late == {OrderFrom(1, 2, 3, 4, TRUE, {0}), OrderFrom(2, 3, 4, 5, FALSE, {0, 1}),
         OrderFrom(3, 2, 5, 6, FALSE, {0, 1})}

Grids == {<<NearDists, 2>>, <<NearDists, 3>>, <<SinkDists, 3>>}

MCProblems ==
    {MakeProblem(fleet, <<first, middle, late>>, grid[1], 120, grid[2], type) :
        fleet \in Fleets, first \in First, middle \in Middle, late \in Late,
        grid \in Grids, type \in ModelTypes}

ASSUME InputsAssumption ==
    \A p \in MCProblems : Metric(p) /\ NoLoopOrders(p) /\ ForwardOrders(p)

(***************************************************************************)
(* Inputs that meet none of those assumptions, with windows in which       *)
(* nothing starts and trucks that come late.                               *)
(***************************************************************************)
RoughOrders ==
    {OrderFrom(1, 1, 1, 4, TRUE, {0}), OrderFrom(1, 2, 2, 0, FALSE, {0}),
     OrderFrom(2, 3, 7, 8, TRUE, {0, 1}), OrderFrom(3, 3, 9, 9, FALSE, {0})}

RoughFleets ==
    {<<TruckAt(1, 0, {0}), TruckAt(2, 5, {0})>>, <<TruckAt(1, 2, {0}), TruckAt(1, 7, {0})>>}

RoughProblems ==
    {MakeProblem(fleet, <<first, second>>, SinkDists, 40, window, type) :
        fleet \in RoughFleets, first \in RoughOrders, second \in RoughOrders,
        window \in {1, 3}, type \in ModelTypes}

(***************************************************************************)
(* One input for each behaviour that the code has and its comments deny.   *)
(***************************************************************************)
\* An order that ends where it began, and one that starts a minute too early.
LoopProblems ==
    {MakeProblem(<<TruckAt(1, 0, {0})>>,
                 <<OrderFrom(1, 1, 0, 4, FALSE, {0}), OrderFrom(1, 2, 3, 5, FALSE, {0})>>,
                 NearDists, 120, 2, type) : type \in ModelTypes}

\* Distances that add up: 1 -> 2 -> 3 takes 1.5 and 1.5 minutes, stored as 1 and 1.
LineDists ==
    [pair \in {<<1, 2>>, <<2, 1>>, <<2, 3>>, <<3, 2>>, <<1, 3>>, <<3, 1>>} |->
        IF 2 \in {pair[1], pair[2]} THEN 1 ELSE 2]

\* The batch of window 1 holds an order for another kind of truck; the truck is
\* sent to city 2 for order 2 and then given order 3, in city 3.
DetourOrders ==
    <<OrderFrom(1, 2, 0, 1, FALSE, {1}), OrderFrom(2, 1, 2, 3, FALSE, {0}),
      OrderFrom(3, 1, 2, 3, FALSE, {0})>>

RoundedProblems ==
    {MakeProblem(<<TruckAt(1, 0, {0})>>, DetourOrders, LineDists, 40, 2, type) :
        type \in ModelTypes}

\* Truck 2 is free in city 1 before truck 3 is, and truck 1 comes first in the
\* batch, so that the bits of the batch positions of trucks 2 and 3 differ.
BitsProblems ==
    {MakeProblem(<<TruckAt(3, 0, {1}), TruckAt(1, 0, {0}), TruckAt(1, 1, {0})>>,
                 <<OrderFrom(2, 1, 0, 1, FALSE, {2}), OrderFrom(2, 1, 3, 4, FALSE, {0})>>,
                 NearDists, 120, 2, "FLOW_MODEL")}
==============================================================================

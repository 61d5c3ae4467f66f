-------------------------------- MODULE Fleet --------------------------------
(***************************************************************************)
(* The data of a vehicle-allocation problem and the rules of a move, as    *)
(* every solver and the checker of the program use them: Truck, Order,     *)
(* Distances and Data (trucks.h, orders.h, distances.cpp, data.cpp,        *)
(* xlsx_cell.cpp).                                                         *)
(*                                                                         *)
(* A bit mask is the set of its bits.  Money is in module Revenue.  Times  *)
(* are whole minutes, as in the program; a distance is a natural number    *)
(* and a speed a positive one, in units such that their quotient times 60  *)
(* is the travel time in minutes, which the program rounds down when it    *)
(* stores it in an unsigned int.                                           *)
(***************************************************************************)
EXTENDS Integers, Sequences

CONSTANTS City,         \* city ids, after SqueezeCitiesIds
          TrailerType   \* bits of mask_trailer_type

LOAD_TYPE_COUNT == 4

LoadType == 0 .. LOAD_TYPE_COUNT - 1

Truck == [mask_load_type : SUBSET LoadType,
          mask_trailer_type : SUBSET TrailerType,
          init_time : Nat,
          init_city : City]

\* Free-movement orders carry bits above LOAD_TYPE_COUNT in mask_load_type.
Order == [order_id : Nat,
          obligation : BOOLEAN,
          start_time : Nat,
          finish_time : Nat,
          from_city : City,
          to_city : City,
          mask_load_type : SUBSET Nat,
          mask_trailer_type : SUBSET TrailerType]

\* The Data object: what a solver is given.  Free-movement orders have order_id 0.
IsData(d) ==
    /\ d.trucks \in Seq(Truck)
    /\ d.trucks # <<>>
    /\ d.orders \in Seq(Order)
    /\ DOMAIN d.dists \subseteq City \X City
    /\ d.dists \in [DOMAIN d.dists -> Nat]
    /\ d.speed \in Nat \ {0}

(***************************************************************************)
(* A problem: the Data object and the time_window given to BatchSolver,    *)
(* with the type of the inner solver.  The program finds an order by its   *)
(* order_id and a truck by its truck_id; ids are distinct, so the model    *)
(* numbers trucks and orders by their ids.  Order id 0 is kept for         *)
(* free-movement orders.                                                   *)
(***************************************************************************)
IsProblem(p) ==
    /\ IsData(p)
    /\ \A o \in DOMAIN p.orders : p.orders[o].order_id = o
    /\ p.time_window \in Nat \ {0}
    /\ p.solver_model_type \in {"FLOW_MODEL", "ASSIGNMENT_MODEL"}

-----------------------------------------------------------------------------
\* Distances::GetDistance: nullopt is "no road"; a city is at distance 0 of itself.
HasRoad(p, from, to) == from = to \/ <<from, to>> \in DOMAIN p.dists

GetDistance(p, from, to) == IF from = to THEN 0 ELSE p.dists[<<from, to>>]

TravelTime(p, from, to) == (GetDistance(p, from, to) * 60) \div p.speed

\* Every bit of the truck must be a bit of the order.
IsExecutableBy(truck, order) ==
    /\ truck.mask_load_type \subseteq order.mask_load_type
    /\ truck.mask_trailer_type \subseteq order.mask_trailer_type

\* Data::CostMovingBetweenOrders has a value.
CanReach(p, previous, current) ==
    /\ HasRoad(p, previous.to_city, current.from_city)
    /\ previous.finish_time + TravelTime(p, previous.to_city, current.from_city)
          <= current.start_time

\* Data::MoveBetweenOrders(truck, previous, current) has a value.
MoveBetweenOrders(p, truck, previous, current) ==
    IsExecutableBy(truck, current) /\ CanReach(p, previous, current)

\* Solver::make_ffo, the fake first order.  Only these two fields are set.
make_ffo(truck) == [to_city |-> truck.init_city, finish_time |-> truck.init_time]

\* The positions of the fake first and last order, size_t(-1) and size_t(-2): no
\* position of a real order.
ffo_pos == -1
flo_pos == -2

\* The same two fields of any order: all that matters to the move after it.
EndOf(order) == [to_city |-> order.to_city, finish_time |-> order.finish_time]

-----------------------------------------------------------------------------
(***************************************************************************)
(* What the input must satisfy for the schedules built batch by batch to   *)
(* be valid.  The program checks none of it, and the data it ships with    *)
(* meets none of it (README, "Assumptions on the input").                  *)
(***************************************************************************)
\* A detour is never faster than the direct road, in whole minutes.
Metric(p) ==
    \A a, b, c \in City :
        HasRoad(p, a, b) /\ HasRoad(p, b, c) =>
            /\ HasRoad(p, a, c)
            /\ TravelTime(p, a, c) <= TravelTime(p, a, b) + TravelTime(p, b, c)

\* A road between two cities takes a minute or more, in whole minutes.
MinuteRoads(p) ==
    \A pair \in DOMAIN p.dists :
        pair[1] # pair[2] => TravelTime(p, pair[1], pair[2]) >= 1

NoLoopOrders(p) ==
    \A o \in DOMAIN p.orders : p.orders[o].from_city # p.orders[o].to_city

ForwardOrders(p) ==
    \A o \in DOMAIN p.orders : p.orders[o].start_time < p.orders[o].finish_time
==============================================================================

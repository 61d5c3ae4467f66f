------------------------------- MODULE Revenue -------------------------------
(***************************************************************************)
(* Money: the costs of Params, what a move and an order are worth          *)
(* (data.cpp), and the sum that Checker::Check returns.  The amounts of an *)
(* order, its distance and revenue, are kept beside it, in p.amounts, and  *)
(* Params in p.costs.  Every sum of money of the program (a revenue, a     *)
(* cost, a weight) is here 60 * speed times as large: a whole number, with *)
(* nothing rounded, so that the minutes that the program drops             *)
(* (TravelTime) are the only ones that are lost.                           *)
(***************************************************************************)
EXTENDS Checker, Functions

CONSTANT UIntRange     \* 2^32: number of values of an unsigned int

ASSUME UIntRangeAssumption == UIntRange \in Nat \ {0}

Params == [free_km_cost : Nat, free_hour_cost : Nat, wait_cost : Nat,
           duty_km_cost : Nat, duty_hour_cost : Nat]

\* A revenue may be negative: it is what a cell of the file says.
HasAmounts(p) ==
    /\ p.costs \in Params
    /\ p.amounts \in [DOMAIN p.orders -> [distance : Nat, revenue : Int]]

\* The differences of two unsigned ints.
Minutes(later, earlier) == (later - earlier) % UIntRange

\* An hour's cost for some minutes, and a kilometre's for some distance.
TimeCost(p, minutes, hour_cost) == minutes * hour_cost * p.speed
RoadCost(p, distance, km_cost) == 60 * p.speed * distance * km_cost

\* The hours are distance / speed, not rounded.
GetFreeMovementCost(p, distance) ==
    RoadCost(p, distance, p.costs.free_km_cost) + 60 * distance * p.costs.free_hour_cost

\* The value of CostMovingBetweenOrders when it has one (CanReach).
CostMovingBetweenOrders(p, previous, current) ==
    LET arriving_time == previous.finish_time
                            + TravelTime(p, previous.to_city, current.from_city)
    IN - GetFreeMovementCost(p, GetDistance(p, previous.to_city, current.from_city))
       - TimeCost(p, current.start_time - arriving_time, p.costs.wait_cost)

\* For an order that ends before it starts the duration wraps around.
GetRealOrderRevenue(p, o) ==
    p.amounts[o].revenue
    - TimeCost(p, Minutes(p.orders[o].finish_time, p.orders[o].start_time),
               p.costs.duty_hour_cost)
    - RoadCost(p, p.amounts[o].distance, p.costs.duty_km_cost)

\* summary_revenue, what Check returns for a solution that it accepts.
SummaryRevenue(p, solution) ==
    SumFunction([move \in UNION {{t} \X DOMAIN solution[t] : t \in DOMAIN p.trucks} |->
                    CostMovingBetweenOrders(p, Previous(p, solution, move[1], move[2]),
                                            p.orders[solution[move[1]][move[2]]])
                    + GetRealOrderRevenue(p, solution[move[1]][move[2]])])
==============================================================================

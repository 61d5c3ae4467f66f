---------------------------- MODULE WeightedCities ----------------------------
(***************************************************************************)
(* FreeMovementWeightsVectors (solver.cpp) and WeightedCitiesSolver        *)
(* (weighted_cities_solver.cpp) as a caller uses them: it fills a weights  *)
(* object, gives data to the solver with or without weights and a time     *)
(* boundary, again and again, and has it create its model, whose columns   *)
(* are FlowSolver's.                                                       *)
(*                                                                         *)
(* The map of maps {truck_pos, order_pos} -> {city -> weight} is a         *)
(* function on triples; a vector exists when it has an element.            *)
(***************************************************************************)
EXTENDS Columns, Sorting, SequencesExt

CONSTANTS Inputs,       \* the Data objects considered
          Boundaries,   \* the time boundaries considered
          Entries,      \* the {truck_pos, order_pos, city} weights are added for
          Weights,      \* and the weights
          MaxAdds,      \* bound on the calls of AddWeight between two of Reset
          MaxLegs       \* bound on the legs of the plans in StandingCharged

ASSUME InputsAssumption ==
    \A d \in Inputs :
        /\ DOMAIN d = {"trucks", "orders", "dists", "speed", "costs", "amounts"}
        /\ IsData(d) /\ HasAmounts(d)
        /\ \A o \in DOMAIN d.orders : d.orders[o].order_id = o

\* A travel time is stored in an unsigned int.  What the conversion from a larger
\* double gives is undefined.
ASSUME DurationsAssumption ==
    /\ UIntRange > 1
    /\ \A d \in Inputs, pair \in City \X City :
          HasRoad(d, pair[1], pair[2]) => TravelTime(d, pair[1], pair[2]) < UIntRange

ASSUME CallsAssumption ==
    /\ City \subseteq Nat
    /\ Boundaries \subseteq Nat
    /\ Entries \subseteq (Nat \ {0}) \X ((Nat \ {0}) \cup {ffo_pos}) \X City
    /\ Weights \subseteq Int
    /\ MaxAdds \in Nat
    /\ MaxLegs \in Nat

VARIABLES weights,         \* the caller's FreeMovementWeightsVectors
          adds,            \* how many weights were added to it
          edges_w_vecs_,   \* the solver's copy
          time_boundary_,
          given,           \* the argument of the last SetData
          data_,           \* what SetData has made of it
          col_cost,        \* col_cost_ of the model, by variable
          last_call

vars == <<weights, adds, edges_w_vecs_, time_boundary_, given, data_, col_cost, last_call>>

NoWeights == [k \in {} |-> 0]
NoBoundary == -1
NoModel == [e \in {} |-> 0]

\* A Data object that was only constructed.
NoData == [trucks |-> <<>>, orders |-> <<>>, dists |-> NoModel, speed |-> 0,
           costs |-> [free_km_cost |-> 0, free_hour_cost |-> 0, wait_cost |-> 0,
                      duty_km_cost |-> 0, duty_hour_cost |-> 0],
           amounts |-> <<>>]

-----------------------------------------------------------------------------
\* AddWeight: a weight that is not there counts as 0.
Added(w, k, weight) ==
    [l \in DOMAIN w \cup {k} |->
        IF l # k THEN w[l] ELSE weight + IF k \in DOMAIN w THEN w[k] ELSE 0]

\* The order, real or fake, after which the truck of a triple moves on.
LastOrder(d, k) ==
    IF k[2] = ffo_pos THEN make_ffo(d.trucks[k[1]]) ELSE EndOf(d.orders[k[2]])

\* What "each free-movement edge can be identified by".
EdgeKey(d, k) == <<LastOrder(d, k).to_city, k[3], LastOrder(d, k).finish_time>>

\* The iteration of the two maps; ffo_pos is the greatest size_t.
Before(k, l) ==
    \/ k[1] < l[1]
    \/ k[1] = l[1] /\ k[2] # l[2] /\ k[2] # ffo_pos /\ (l[2] = ffo_pos \/ k[2] < l[2])
    \/ k[1] = l[1] /\ k[2] = l[2] /\ k[3] < l[3]

\* The triples whose key is not used when they are come to, and their order.
MakerSet(d, w) ==
    {k \in DOMAIN w : \A l \in DOMAIN w : Before(l, k) => EdgeKey(d, l) # EdgeKey(d, k)}

Makers(d, w) == Sorted(MakerSet(d, w), Before)

\* The bits of truck_pos, which counts from 0, above the load types.
PositionBits(t) ==
    {LOAD_TYPE_COUNT + b : b \in {b \in 0 .. t : ((t - 1) \div 2^b) % 2 = 1}}

\* AddFreeMovementEdge; an edge that takes no time lasts a minute.
FreeMovementEdge(d, k) ==
    LET last == LastOrder(d, k)
        travel == TravelTime(d, last.to_city, k[3])
    IN [order_id |-> 0,
        obligation |-> FALSE,
        start_time |-> last.finish_time,
        finish_time |-> last.finish_time + IF travel = 0 THEN 1 ELSE travel,
        from_city |-> last.to_city,
        to_city |-> k[3],
        mask_load_type |-> d.trucks[k[1]].mask_load_type \cup PositionBits(k[1]),
        mask_trailer_type |-> d.trucks[k[1]].mask_trailer_type]

\* Mutant of EdgeAmounts: the hours that will be charged are not made up for.
EdgeAmounts_Km(d, k, bonus) ==
    LET distance == GetDistance(d, LastOrder(d, k).to_city, k[3])
    IN [distance |-> distance,
        revenue |-> RoadCost(d, distance, d.costs.duty_km_cost) + bonus]

\* Its distance and revenue: the bonus, and what GetRealOrderRevenue will take off.
EdgeAmounts(d, k, bonus) ==
    LET distance == GetDistance(d, LastOrder(d, k).to_city, k[3])
    IN [distance |-> distance,
        revenue |-> RoadCost(d, distance, d.costs.duty_km_cost)
                       + 60 * distance * d.costs.duty_hour_cost + bonus]

\* Mutant of edge_to_pos: the edge made last, whichever it was.
edge_to_pos_Last(d, w, k) == Len(Makers(d, w))

\* The second result of GetFreeMovementEdges: the place of a triple's edge.
edge_to_pos(d, w, k) ==
    CHOOSE i \in DOMAIN Makers(d, w) : EdgeKey(d, Makers(d, w)[i]) = EdgeKey(d, k)

\* Every truck, order and road that GetFreeMovementEdges asks for is there.
Fits(d, w) ==
    \A k \in DOMAIN w :
        /\ k[1] \in DOMAIN d.trucks
        /\ k[2] \in DOMAIN d.orders \cup {ffo_pos}
        /\ HasRoad(d, LastOrder(d, k).to_city, k[3])

\* Mutant of ModifyData: the free-movement orders come first.
ModifyData_Front(d, w) ==
    LET makers == Makers(d, w)
    IN [d EXCEPT
        !.orders = [i \in DOMAIN makers |-> FreeMovementEdge(d, makers[i])] \o @,
        !.amounts = [i \in DOMAIN makers |-> EdgeAmounts(d, makers[i], w[makers[i]])] \o @]

\* ModifyData: the free-movement orders are added after the others.
ModifyData(d, w) ==
    LET makers == Makers(d, w)
    IN [d EXCEPT
        !.orders = @ \o [i \in DOMAIN makers |-> FreeMovementEdge(d, makers[i])],
        !.amounts = @ \o [i \in DOMAIN makers |-> EdgeAmounts(d, makers[i], w[makers[i]])]]

-----------------------------------------------------------------------------
Init ==
    /\ weights = NoWeights
    /\ adds = 0
    /\ edges_w_vecs_ = NoWeights
    /\ time_boundary_ = NoBoundary
    /\ given = NoData
    /\ data_ = NoData
    /\ col_cost = NoModel
    /\ last_call = "none"

AddWeight ==
    /\ adds < MaxAdds
    /\ last_call # "aborted"
    /\ \E k \in Entries, weight \in Weights : weights' = Added(weights, k, weight)
    /\ adds' = adds + 1
    /\ UNCHANGED <<edges_w_vecs_, time_boundary_, given, data_, col_cost, last_call>>

\* Mutant of Reset: the vectors stay.
Reset_KeepsWeights ==
    /\ adds > 0
    /\ last_call # "aborted"
    /\ adds' = 0
    /\ UNCHANGED <<weights, edges_w_vecs_, time_boundary_, given, data_, col_cost, last_call>>

Reset ==
    /\ adds > 0
    /\ last_call # "aborted"
    /\ weights' = NoWeights
    /\ adds' = 0
    /\ UNCHANGED <<edges_w_vecs_, time_boundary_, given, data_, col_cost, last_call>>

\* The data is copied and modified.  Weights that do not fit it end the process.
Load(d, w, call) ==
    /\ given' = d
    /\ IF Fits(d, w)
       THEN data_' = ModifyData(d, w) /\ last_call' = call
       ELSE data_' = d /\ last_call' = "aborted"
    /\ col_cost' = NoModel

\* SetData(data): the weights and the boundary are those of an earlier call, if
\* there was one.
SetData(d) ==
    /\ last_call # "aborted"
    /\ Load(d, edges_w_vecs_, "SetData")
    /\ UNCHANGED <<weights, adds, edges_w_vecs_, time_boundary_>>

\* SetData(data, time_boundary, edges_w_vecs).
SetDataWithWeights(d, t) ==
    /\ last_call # "aborted"
    /\ edges_w_vecs_' = weights
    /\ time_boundary_' = t
    /\ Load(d, weights, "SetDataWithWeights")
    /\ UNCHANGED <<weights, adds>>

-----------------------------------------------------------------------------
\* Mutant of Fine: a truck that serves no order pays nothing.
Fine_Served(e) ==
    IF /\ time_boundary_ # NoBoundary
       /\ e[3] = flo_pos
       /\ e[2] # ffo_pos
       /\ time_boundary_ > data_.orders[e[2]].finish_time
    THEN TimeCost(data_, time_boundary_ - data_.orders[e[2]].finish_time,
                  data_.costs.wait_cost)
    ELSE 0

\* The fine for waiting after the last order until the time boundary.
Fine(e) ==
    LET last == IF e[2] = ffo_pos THEN make_ffo(data_.trucks[e[1]]) ELSE data_.orders[e[2]]
    IN IF /\ time_boundary_ # NoBoundary
          /\ e[3] = flo_pos
          /\ time_boundary_ > last.finish_time
       THEN TimeCost(data_, time_boundary_ - last.finish_time, data_.costs.wait_cost)
       ELSE 0

\* The columns are those that FlowSolver keeps (FlowSolver!FilterExact).  An obligation
\* order without a column ends the process.
CreateModel ==
    /\ last_call \in {"SetData", "SetDataWithWeights"}
    /\ col_cost = NoModel
    /\ LET columns == Kept(data_)
       IN IF \E o \in DOMAIN data_.orders :
                data_.orders[o].obligation /\ \A e \in columns : e[2] # o
          THEN last_call' = "aborted" /\ UNCHANGED col_cost
          ELSE /\ col_cost' = [e \in columns |-> ColCost(data_, e) - Fine(e)]
               /\ UNCHANGED last_call
    /\ UNCHANGED <<weights, adds, edges_w_vecs_, time_boundary_, given, data_>>

Terminated == last_call = "aborted" /\ UNCHANGED vars

Next ==
    \/ AddWeight
    \/ Reset
    \/ \E d \in Inputs : SetData(d)
    \/ \E d \in Inputs, t \in Boundaries : SetDataWithWeights(d, t)
    \/ CreateModel
    \/ Terminated

Spec == Init /\ [][Next]_vars
-----------------------------------------------------------------------------
(***************************************************************************)
(* Properties.                                                             *)
(***************************************************************************)
IsWeights(w) == DOMAIN w \subseteq Entries /\ w \in [DOMAIN w -> Int]

IsSet == last_call \in {"SetData", "SetDataWithWeights"}

\* Types; there are no weights but those added since the last Reset, and what the
\* inner solver is given is a Data object again.
TypeOK ==
    /\ IsWeights(weights)
    /\ adds \in 0 .. MaxAdds
    /\ Cardinality(DOMAIN weights) <= adds
    /\ IsWeights(edges_w_vecs_)
    /\ time_boundary_ \in Boundaries \cup {NoBoundary}
    /\ given \in Inputs \cup {NoData}
    /\ IsSet => IsData(data_) /\ HasAmounts(data_)
    /\ DOMAIN col_cost \subseteq Nat \X Int \X Int
    /\ col_cost \in [DOMAIN col_cost -> Int]
    /\ last_call \in {"none", "SetData", "SetDataWithWeights", "aborted"}

RealOrders == DOMAIN given.orders
FreeOrders == DOMAIN data_.orders \ RealOrders

\* "Free-movement orders always being added right after all real orders" and
\* "always have order_id = 0" (weighted_cities_solver.h), so that a position of
\* the solution means the same order in the caller's data, or none.
RealOrdersFirst ==
    IsSet =>
        /\ RealOrders \subseteq DOMAIN data_.orders
        /\ \A o \in RealOrders : /\ data_.orders[o] = given.orders[o]
                                 /\ data_.amounts[o] = given.amounts[o]
        /\ \A o \in FreeOrders : data_.orders[o].order_id = 0

\* The position that a weight is mapped to holds an order that leaves where and
\* when the weight's last order ends, for the weight's city; and two different
\* positions hold different edges.
EdgeOfWeight ==
    IsSet =>
        /\ \A k \in DOMAIN edges_w_vecs_ :
              LET pos == Len(given.orders) + edge_to_pos(given, edges_w_vecs_, k)
              IN /\ pos \in FreeOrders
                 /\ EndOf(data_.orders[pos]).to_city = k[3]
                 /\ [to_city |-> data_.orders[pos].from_city,
                     finish_time |-> data_.orders[pos].start_time] = LastOrder(given, k)
        /\ \A o, u \in FreeOrders :
              /\ data_.orders[o].from_city = data_.orders[u].from_city
              /\ data_.orders[o].to_city = data_.orders[u].to_city
              /\ data_.orders[o].start_time = data_.orders[u].start_time
              => o = u

\* A free-movement order pays as a real one would, and comes to one of its
\* weights but for less than a minute of the driver's time that rounding leaves,
\* or for the minute that an edge without a duration is given (solver.cpp: "we
\* need to compensate such error").
BonusPaid ==
    IsSet =>
        \A o \in FreeOrders : \E k \in DOMAIN edges_w_vecs_ :
            LET order == data_.orders[o]
                error == GetRealOrderRevenue(data_, o) - edges_w_vecs_[k]
                minute == TimeCost(data_, 1, data_.costs.duty_hour_cost)
            IN /\ EdgeKey(given, k) = <<order.from_city, order.to_city, order.start_time>>
               /\ IF TravelTime(data_, order.from_city, order.to_city) = 0
                  THEN - minute <= error /\ error <= 0
                  ELSE 0 <= error /\ (error < minute \/ error = 0)

\* The plans in which one truck moves, by at most as many legs as given.
SoloPlans(legs) ==
    {plan \in UNION {[DOMAIN data_.trucks -> {<<>>, route}] :
                        route \in BoundedSeq(DOMAIN data_.orders, legs)} :
        /\ Cardinality({t \in DOMAIN plan : plan[t] # <<>>}) <= 1
        /\ NoRepeats(plan)
        /\ Accepts(data_, plan)}

\* What a truck pays for standing where its plan ends until the time boundary.
Standing(plan, t) ==
    LET finish_time == LastEnd(data_, plan, t).finish_time
    IN IF time_boundary_ > finish_time
       THEN TimeCost(data_, time_boundary_ - finish_time, data_.costs.wait_cost)
       ELSE 0

\* "Applying fine for waiting until time_boundary": the columns of a plan are
\* worth what the checker pays for it, less what every truck, the idle ones too,
\* pays for standing until the boundary; nothing when there is no boundary, or
\* when the plan ends after it ("there is possibility that we will finish our
\* order after time_boundary").
StandingCharged ==
    col_cost # NoModel /\ ForwardOrders(data_) =>
        \A plan \in SoloPlans(MaxLegs) :
            /\ EdgesOf(plan) \subseteq DOMAIN col_cost
            /\ SumFunctionOnSet(col_cost, EdgesOf(plan))
                  = SummaryRevenue(data_, plan)
                    - SumFunction([t \in DOMAIN data_.trucks |-> Standing(plan, t)])

\* "FreeMovementWeightsVectors will be all zeros (if u want non zero one call
\* other method)", says the header of SetData with one argument.
OneArgumentZero ==
    last_call = "SetData" => \A k \in DOMAIN edges_w_vecs_ : edges_w_vecs_[k] = 0
=============================================================================

----------------------------- MODULE BatchSolver -----------------------------
(***************************************************************************)
(* BatchSolver::Solve (batch_solver.cpp): the orders are cut into time     *)
(* windows; in every window the trucks and orders that belong to it form a *)
(* batch, the inner solver (WeightedCitiesSolver or ChainSolver) plans the *)
(* batch, the plan's real orders are merged into the main solution and     *)
(* every truck of the batch goes back to the pool at the place and time    *)
(* where its plan ends.  Free-movement orders (order_id 0) let the plan of *)
(* a window end in a city from which the next window's orders start.       *)
(*                                                                         *)
(* The inner solver is given by what its linear program admits: the plan   *)
(* is built leg by leg, every leg a move that the solver has a variable    *)
(* for.  Which of the admitted plans is the best is left out, as is money. *)
(***************************************************************************)
EXTENDS Checker

CONSTANTS Problems,     \* the inputs considered
          UIntRange     \* 2^32: number of values of an unsigned int

ASSUME UIntRangeAssumption == UIntRange \in Nat \ {0}

\* Times are minutes and stay far from the end of the unsigned range.
ASSUME ProblemsAssumption ==
    \A p \in Problems :
        /\ IsProblem(p)
        /\ p.time_window < UIntRange
        /\ \A o \in DOMAIN p.orders : p.orders[o].start_time + p.time_window < UIntRange

VARIABLES problem,              \* data, time_window, solver_model_type_
          trucks,               \* the current copy of every truck
          trucks_by_init_time,  \* trucks in the multiset of available trucks
          order_by_start_time,  \* orders in the multiset of pending orders
          batch_trucks,
          batch_orders,
          cur_time_window,
          plan,                 \* batch_solution: the legs of every truck
          merged,               \* legs of the plan already merged
          main_solution,
          unsolved,             \* history: orders of batches without a solution
          pc

vars == <<problem, trucks, trucks_by_init_time, order_by_start_time, batch_trucks,
          batch_orders, cur_time_window, plan, merged, main_solution, unsolved, pc>>

Trucks == DOMAIN problem.trucks
Orders == DOMAIN problem.orders
FlowModel == problem.solver_model_type = "FLOW_MODEL"

NoPlan == [t \in Trucks |-> <<>>]

-----------------------------------------------------------------------------
\* Mutant of FilterSuffix: late trucks do not matter.
FilterSuffix_KeepsAll(available, truck, pending) == pending

\* FilterSuffix drops the orders that start before every available truck is free.
FilterSuffix(available, truck, pending) ==
    {o \in pending :
        \E t \in available : truck[t].init_time <= problem.orders[o].start_time}

Init ==
    /\ problem \in Problems
    /\ trucks = problem.trucks
    /\ trucks_by_init_time = Trucks
    /\ order_by_start_time = FilterSuffix(Trucks, problem.trucks, Orders)
    /\ batch_trucks = {}
    /\ batch_orders = {}
    /\ cur_time_window = problem.time_window
    /\ plan = NoPlan
    /\ merged = [t \in Trucks |-> 0]
    /\ main_solution = [t \in Trucks |-> <<>>]
    /\ unsolved = {}
    /\ pc = "loop"

\* Mutant of NextWindow: the window does not move.
NextWindow_Same == cur_time_window

\* cur_time_window += time_window, on unsigned int.
NextWindow ==
    IF cur_time_window + problem.time_window < UIntRange
    THEN cur_time_window + problem.time_window
    ELSE cur_time_window + problem.time_window - UIntRange

\* GetBatch<Truck> and GetBatch<Order>: what the current window pulls.
PulledTrucks == {t \in trucks_by_init_time : trucks[t].init_time < cur_time_window}
PulledOrders ==
    {o \in order_by_start_time : problem.orders[o].start_time < cur_time_window}

Pull ==
    /\ trucks_by_init_time' = trucks_by_init_time \ PulledTrucks
    /\ order_by_start_time' = order_by_start_time \ PulledOrders
    /\ batch_trucks' = batch_trucks \cup PulledTrucks
    /\ batch_orders' = batch_orders \cup PulledOrders

\* No pending order is left: the loop ends, whatever the batches hold.
Finish ==
    /\ pc = "loop"
    /\ order_by_start_time = {}
    /\ pc' = "done"
    /\ UNCHANGED <<problem, trucks, trucks_by_init_time, order_by_start_time,
                   batch_trucks, batch_orders, cur_time_window, plan, merged,
                   main_solution, unsolved>>

\* One of the batches is empty: keep what was pulled and try the next window.
SkipWindow ==
    /\ pc = "loop"
    /\ order_by_start_time # {}
    /\ Pull
    /\ batch_trucks' = {} \/ batch_orders' = {}
    /\ cur_time_window' = NextWindow
    /\ UNCHANGED <<problem, trucks, plan, merged, main_solution, unsolved, pc>>

FormBatch ==
    /\ pc = "loop"
    /\ order_by_start_time # {}
    /\ Pull
    /\ batch_trucks' # {} /\ batch_orders' # {}
    /\ pc' = "solve"
    /\ UNCHANGED <<problem, trucks, cur_time_window, plan, merged, main_solution,
                   unsolved>>

-----------------------------------------------------------------------------
(***************************************************************************)
(* Free-movement orders, GetFreeMovementEdges.  The program sets the bits  *)
(* of the truck's batch position in mask_load_type; the model sets one bit *)
(* per truck.  The loop that is to set the same bits in the trucks of the  *)
(* batch changes another object, so no truck ever carries one.             *)
(***************************************************************************)
FreeMovementEdge(t, last, city) ==
    LET start_time == last.finish_time
        travel == TravelTime(problem, last.to_city, city)
    IN [order_id |-> 0,
        obligation |-> FALSE,
        start_time |-> start_time,
        finish_time |-> IF travel = 0 THEN start_time + 1 ELSE start_time + travel,
        from_city |-> last.to_city,
        to_city |-> city,
        mask_load_type |-> trucks[t].mask_load_type \cup {LOAD_TYPE_COUNT + t},
        mask_trailer_type |-> trucks[t].mask_trailer_type]

\* Pending orders of the window after the current one.
NextOrders ==
    {o \in order_by_start_time :
        problem.orders[o].start_time < cur_time_window + problem.time_window}

\* Mutant of Pruned: the truck has to be free a minute before the order starts.
Pruned_Before(t, order) ==
    /\ trucks[t].init_city # order.from_city
    /\ trucks[t].init_time + 1 >= order.start_time

\* The guard of UpdateFreeMovementWeightsVectors that is "made for performance".
Pruned(t, order) ==
    /\ trucks[t].init_city # order.from_city
    /\ trucks[t].init_time >= order.start_time

\* Mutant of LastOrders: orders that end after the window count too.
LastOrders_AnyFinish(t) ==
    {make_ffo(trucks[t])} \cup
    {EndOf(problem.orders[o]) : o \in
        {o \in batch_orders :
            /\ IsExecutableBy(trucks[t], problem.orders[o])
            /\ ~Pruned(t, problem.orders[o])}}

\* Where truck t may end its window and still have time to move on.
LastOrders(t) ==
    {make_ffo(trucks[t])} \cup
    {EndOf(problem.orders[o]) : o \in
        {o \in batch_orders :
            /\ problem.orders[o].finish_time < cur_time_window
            /\ IsExecutableBy(trucks[t], problem.orders[o])
            /\ ~Pruned(t, problem.orders[o])}}

\* Mutant of FreeEdges: the masks of the next order are not looked at.
FreeEdges_AnyTruck(t) ==
    UNION {{FreeMovementEdge(t, last, problem.orders[o].from_city) : o \in
              {o \in NextOrders : CanReach(problem, last, problem.orders[o])}} :
           last \in LastOrders(t)}

\* Every entry of the weights vectors that a bonus may create for truck t.
FreeEdges(t) ==
    UNION {{FreeMovementEdge(t, last, problem.orders[o].from_city) : o \in
              {o \in NextOrders :
                  MoveBetweenOrders(problem, trucks[t], last, problem.orders[o])}} :
           last \in LastOrders(t)}

\* Free-movement orders with the same cities and start are one order.
Key(leg) == <<leg.order_id, leg.from_city, leg.to_city, leg.start_time>>

Legs == {problem.orders[o] : o \in batch_orders}
            \cup UNION {FreeEdges(t) : t \in batch_trucks}

\* Mutant of UsedKeys: an order may be picked again.
UsedKeys_None == {}

UsedKeys == UNION {{Key(plan[t][i]) : i \in DOMAIN plan[t]} : t \in Trucks}

PlanEnd(t) == IF plan[t] = <<>> THEN make_ffo(trucks[t])
                                ELSE EndOf(plan[t][Len(plan[t])])

IsFree(leg) == leg.order_id = 0

\* Mutant of FlowLeg: the masks of the order are not looked at.
FlowLeg_AnyTruck(t, leg) ==
    /\ FlowModel
    /\ trucks[t].init_time <= leg.start_time
    /\ CanReach(problem, PlanEnd(t), leg)

\* FlowSolver: a path of moves through real and free-movement orders alike.
FlowLeg(t, leg) ==
    /\ FlowModel
    /\ trucks[t].init_time <= leg.start_time
    /\ MoveBetweenOrders(problem, trucks[t], PlanEnd(t), leg)

\* ChainGenerator: a chain of real orders, closed by one of the truck's own
\* weight entries, whose free-movement order another truck may have created.
ChainLeg(t, leg) ==
    /\ ~FlowModel
    /\ \A i \in DOMAIN plan[t] : ~IsFree(plan[t][i])
    /\ IF IsFree(leg)
       THEN \E edge \in FreeEdges(t) :
                /\ Key(edge) = Key(leg)
                /\ PlanEnd(t) = [to_city |-> leg.from_city,
                                 finish_time |-> leg.start_time]
       ELSE MoveBetweenOrders(problem, trucks[t], PlanEnd(t), leg)

PickLeg(t) ==
    /\ pc = "solve"
    /\ \E leg \in Legs :
          /\ Key(leg) \notin UsedKeys
          /\ FlowLeg(t, leg) \/ ChainLeg(t, leg)
          /\ plan' = [plan EXCEPT ![t] = Append(@, leg)]
    /\ UNCHANGED <<problem, trucks, trucks_by_init_time, order_by_start_time,
                   batch_trucks, batch_orders, cur_time_window, merged,
                   main_solution, unsolved, pc>>

Obligations == {o \in batch_orders : problem.orders[o].obligation}

Planned == UNION {{plan[t][i].order_id : i \in DOMAIN plan[t]} : t \in Trucks}

\* Mutant of SolverReturns: no row forces an obligation order.
SolverReturns_Unforced ==
    /\ pc = "solve"
    /\ pc' = "merge"
    /\ UNCHANGED <<problem, trucks, trucks_by_init_time, order_by_start_time,
                   batch_trucks, batch_orders, cur_time_window, plan, merged,
                   main_solution, unsolved>>

\* The flow model's rows force obligation orders; chains may leave them out.
SolverReturns ==
    /\ pc = "solve"
    /\ FlowModel => Obligations \subseteq Planned
    /\ pc' = "merge"
    /\ UNCHANGED <<problem, trucks, trucks_by_init_time, order_by_start_time,
                   batch_trucks, batch_orders, cur_time_window, plan, merged,
                   main_solution, unsolved>>

\* The legs picked cover no solution of the rows that force the obligations.
\* The relaxation may be solvable all the same: nothing checks the status of
\* the integer program, and no column is set.
SolverFindsNothing ==
    /\ pc = "solve"
    /\ ~(Obligations \subseteq Planned)
    /\ plan' = NoPlan
    /\ unsolved' = unsolved \cup batch_orders
    /\ pc' = "merge"
    /\ UNCHANGED <<problem, trucks, trucks_by_init_time, order_by_start_time,
                   batch_trucks, batch_orders, cur_time_window, merged,
                   main_solution>>

\* The relaxation has no solution either (assert), or an obligation order has
\* no variable (exit).
SolverAborts ==
    /\ pc = "solve"
    /\ ~(Obligations \subseteq Planned)
    /\ pc' = "aborted"
    /\ UNCHANGED <<problem, trucks, trucks_by_init_time, order_by_start_time,
                   batch_trucks, batch_orders, cur_time_window, plan, merged,
                   main_solution, unsolved>>

-----------------------------------------------------------------------------
\* Mutant of MergeLeg: free-movement orders are merged too.
MergeLeg_KeepsFree(t) ==
    /\ pc = "merge"
    /\ merged[t] < Len(plan[t])
    /\ merged' = [merged EXCEPT ![t] = @ + 1]
    /\ main_solution' =
          [main_solution EXCEPT ![t] = Append(@, plan[t][merged[t] + 1].order_id)]
    /\ UNCHANGED <<problem, trucks, trucks_by_init_time, order_by_start_time,
                   batch_trucks, batch_orders, cur_time_window, plan, unsolved, pc>>

\* One turn of the merging loop: free-movement orders leave no trace.
MergeLeg(t) ==
    /\ pc = "merge"
    /\ merged[t] < Len(plan[t])
    /\ merged' = [merged EXCEPT ![t] = @ + 1]
    /\ LET leg == plan[t][merged[t] + 1]
       IN main_solution' = IF IsFree(leg)
                           THEN main_solution
                           ELSE [main_solution EXCEPT ![t] = Append(@, leg.order_id)]
    /\ UNCHANGED <<problem, trucks, trucks_by_init_time, order_by_start_time,
                   batch_trucks, batch_orders, cur_time_window, plan, unsolved, pc>>

\* The init_time after a leg: a loop is shortened by a minute, as the minute
\* was added to a free-movement loop when it was made.
AfterTime(leg) ==
    CASE leg.from_city # leg.to_city -> leg.finish_time
      [] leg.from_city = leg.to_city /\ leg.finish_time > 0 -> leg.finish_time - 1
      [] OTHER -> UIntRange - 1

\* Mutant of Returned: the truck is still where its window began.
Returned_KeepsCity(t) ==
    IF plan[t] = <<>>
    THEN [trucks[t] EXCEPT !.init_time = cur_time_window]
    ELSE [trucks[t] EXCEPT !.init_time = AfterTime(plan[t][Len(plan[t])])]

\* Mutant of Returned: an idle truck is free from the start of the window.
Returned_AtStart(t) ==
    IF plan[t] = <<>>
    THEN [trucks[t] EXCEPT !.init_time = cur_time_window - problem.time_window]
    ELSE LET leg == plan[t][Len(plan[t])]
         IN [trucks[t] EXCEPT !.init_time = AfterTime(leg), !.init_city = leg.to_city]

\* The configuration truck t goes back to the pool with.
Returned(t) ==
    IF plan[t] = <<>>
    THEN [trucks[t] EXCEPT !.init_time = cur_time_window]
    ELSE LET leg == plan[t][Len(plan[t])]
         IN [trucks[t] EXCEPT !.init_time = AfterTime(leg), !.init_city = leg.to_city]

ReleaseBatch ==
    /\ pc = "merge"
    /\ \A t \in batch_trucks : merged[t] = Len(plan[t])
    /\ trucks' = [t \in Trucks |-> IF t \in batch_trucks THEN Returned(t) ELSE trucks[t]]
    /\ trucks_by_init_time' = trucks_by_init_time \cup batch_trucks
    /\ batch_trucks' = {}
    /\ batch_orders' = {}
    /\ order_by_start_time' =
          FilterSuffix(trucks_by_init_time', trucks', order_by_start_time)
    /\ cur_time_window' = NextWindow
    /\ plan' = NoPlan
    /\ merged' = [t \in Trucks |-> 0]
    /\ pc' = "loop"
    /\ UNCHANGED <<problem, main_solution, unsolved>>

Terminated == pc \in {"done", "aborted"} /\ UNCHANGED vars

Next ==
    \/ Finish
    \/ SkipWindow
    \/ FormBatch
    \/ \E t \in batch_trucks : PickLeg(t)
    \/ SolverReturns
    \/ SolverFindsNothing
    \/ SolverAborts
    \/ \E t \in batch_trucks : MergeLeg(t)
    \/ ReleaseBatch
    \/ Terminated

Spec == Init /\ [][Next]_vars

\* One thread, which HiGHS does not block for ever.
FairSpec == Spec /\ WF_vars(Next)
-----------------------------------------------------------------------------
(***************************************************************************)
(* Properties.                                                             *)
(***************************************************************************)
\* Every variable has the type its C++ counterpart has.
TypeOK ==
    /\ problem \in Problems
    /\ trucks \in [Trucks -> Truck]
    /\ trucks_by_init_time \subseteq Trucks
    /\ order_by_start_time \subseteq Orders
    /\ batch_trucks \subseteq Trucks
    /\ batch_orders \subseteq Orders
    /\ cur_time_window \in 0 .. UIntRange - 1
    /\ plan \in [Trucks -> Seq(Order)]
    /\ merged \in [Trucks -> Nat]
    /\ main_solution \in Solution(problem)
    /\ unsolved \subseteq Orders
    /\ pc \in {"loop", "solve", "merge", "done", "aborted"}

\* The solution put together from the batches passes the checker, which looks
\* at the original trucks and knows no windows and no free-movement orders
\* (main.cpp, the assertion after Check).
CheckerAccepts == Accepts(problem, main_solution)

\* No order is served by two trucks, or twice by one, in whatever batches.
NoOrderTwice == NoRepeats(main_solution)

\* The loop ends as soon as no order is pending; it never ends, or goes round,
\* with orders that were pulled into a batch and not given to the solver.
NoOrderStranded == pc \in {"loop", "done"} => batch_orders = {}

\* "we expect for all orders that order.start_time < time_boundary"
\* (weighted_cities_solver.h), the free-movement orders included; and an order
\* is planned in the window that it starts in, so no window was skipped over it.
BatchWithinWindow ==
    pc \in {"solve", "merge"} =>
        /\ \A leg \in Legs : leg.start_time < cur_time_window
        /\ \A o \in batch_orders :
              cur_time_window <= problem.orders[o].start_time + problem.time_window

\* With the flow model an obligation order is served, or still to come, unless
\* it starts before any truck is free or its batch had no integer solution.
ObligationKept ==
    FlowModel =>
        \A o \in Orders : problem.orders[o].obligation =>
            \/ o \in Served(main_solution) \cup order_by_start_time
                        \cup batch_orders \cup unsolved
            \/ \A t \in Trucks : trucks[t].init_time > problem.orders[o].start_time

\* A truck never becomes available at an earlier time than it was.
TrucksNeverGoBack ==
    [][\A t \in Trucks : trucks'[t].init_time >= trucks[t].init_time]_vars

\* A truck sent by a free-movement order to wait elsewhere can still make an
\* order there, pending and within the next window, when the batch is released.
RepositionUseful ==
    [][pc = "merge" /\ pc' = "loop" =>
        \A t \in batch_trucks :
            plan[t] # <<>> /\ IsFree(plan[t][Len(plan[t])]) =>
                \E o \in order_by_start_time' :
                    /\ problem.orders[o].start_time < cur_time_window'
                    /\ MoveBetweenOrders(problem, trucks'[t], make_ffo(trucks'[t]),
                                         problem.orders[o])]_vars

\* The windows run out, whatever the inputs.
Termination == <>(pc \in {"done", "aborted"})

\* A free-movement order made for a truck is used by that truck only: its bits
\* "will block other trucks from picking this edges" (batch_solver.cpp).
FreeLegsBlocked ==
    \A t \in Trucks : \A i \in DOMAIN plan[t] :
        IsFree(plan[t][i]) => LOAD_TYPE_COUNT + t \in plan[t][i].mask_load_type

\* The pairs of truck and order that get no free-movement order "for
\* performance" are pairs that no plan contains: "solvers simply wont use such
\* edges" (batch_solver.cpp).  It takes roads of a minute or more and orders
\* that end after they start: a truck that is free in another city as an order
\* starts can still make it over a shorter road.
PrunedPairsUnused ==
    MinuteRoads(problem) /\ ForwardOrders(problem) =>
        \A t \in Trucks : \A i \in DOMAIN plan[t] :
            ~IsFree(plan[t][i]) => ~Pruned(t, plan[t][i])

\* Serving orders batch by batch implements serving them one at a time.
D == INSTANCE Dispatch WITH schedule <- main_solution
ImplementsDispatch == D!Spec
==============================================================================

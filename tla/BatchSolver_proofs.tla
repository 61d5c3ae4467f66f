-------------------------- MODULE BatchSolver_proofs --------------------------
(***************************************************************************)
(* Proofs about BatchSolver.  For all inputs: typing, the windows, that    *)
(* repositioning is of use and that pruning loses nothing.  For orders     *)
(* that end after they start: trucks never go back, obligation orders are  *)
(* kept.  For metric distances and forward orders that are no loops: the   *)
(* checker accepts the solution, and BatchSolver implements Dispatch.      *)
(***************************************************************************)
EXTENDS BatchSolver, Checker_proofs

-----------------------------------------------------------------------------
(***************************************************************************)
(* Invariants.                                                             *)
(***************************************************************************)
\* Every leg is a free-movement order or an order of the problem, by its id.
PlanIds ==
    \A t \in Trucks : \A i \in DOMAIN plan[t] :
        plan[t][i].order_id \in Orders \cup {0}

\* Pending orders: some truck is free in time for each, and none starts before
\* the window that is about to be cut.
PendingOK ==
    \A o \in order_by_start_time :
        /\ \E t \in Trucks : trucks[t].init_time <= problem.orders[o].start_time
        /\ cur_time_window <= problem.orders[o].start_time + problem.time_window
        /\ pc \in {"solve", "merge"} => cur_time_window <= problem.orders[o].start_time

\* The two batches: trucks are in one pool each, orders are there only while
\* they are planned, and all belong to the current window.
BatchesOK ==
    /\ trucks_by_init_time \cup batch_trucks = Trucks
    /\ \A t \in batch_trucks : trucks[t].init_time < cur_time_window
    /\ order_by_start_time \cap batch_orders = {}
    /\ pc \in {"loop", "done"} => batch_orders = {}
    /\ \A o \in batch_orders :
          /\ problem.orders[o].start_time < cur_time_window
          /\ cur_time_window <= problem.orders[o].start_time + problem.time_window

TypeInv == TypeOK /\ PlanIds

WindowInv == PendingOK /\ BatchesOK

\* The end of the leg before the i-th of truck t.
PlanPrevious(t, i) == IF i = 1 THEN make_ffo(trucks[t]) ELSE EndOf(plan[t][i - 1])

\* A free-movement order takes at least the time of its road, even after
\* AfterTime has taken a minute off it.
FreeShape(leg) ==
    /\ HasRoad(problem, leg.from_city, leg.to_city)
    /\ leg.start_time + TravelTime(problem, leg.from_city, leg.to_city) <= AfterTime(leg)
    /\ AfterTime(leg) <= leg.finish_time

RealLeg(t, leg) ==
    /\ leg.order_id \in batch_orders
    /\ leg = problem.orders[leg.order_id]
    /\ IsExecutableBy(trucks[t], leg)

LegOK(t, i) ==
    /\ t \in batch_trucks
    /\ CanReach(problem, PlanPrevious(t, i), plan[t][i])
    /\ \/ IsFree(plan[t][i]) /\ FreeShape(plan[t][i])
       \/ RealLeg(t, plan[t][i])

PlanOK == \A t \in Trucks : \A i \in DOMAIN plan[t] : LegOK(t, i)

\* No real order is planned twice.
PlanDistinct ==
    \A t, u \in Trucks : \A i \in DOMAIN plan[t], j \in DOMAIN plan[u] :
        plan[t][i].order_id = plan[u][j].order_id /\ plan[t][i].order_id # 0
            => t = u /\ i = j

MergedOK ==
    /\ \A t \in Trucks : merged[t] <= Len(plan[t])
    /\ pc # "merge" => \A t \in Trucks : merged[t] = 0
    /\ pc = "loop" => \A t \in Trucks : plan[t] = <<>>

\* A truck keeps its masks from batch to batch.
MasksKept ==
    \A t \in Trucks :
        /\ trucks[t].mask_load_type = problem.trucks[t].mask_load_type
        /\ trucks[t].mask_trailer_type = problem.trucks[t].mask_trailer_type

\* Pending orders are unserved, and so are the planned legs not yet merged.
ServedOK ==
    /\ \A o \in order_by_start_time : o \notin Served(main_solution)
    /\ \A o \in batch_orders : o \in Served(main_solution) =>
          \E t \in Trucks : \E i \in DOMAIN plan[t] :
              i <= merged[t] /\ plan[t][i].order_id = o

\* Where the batches have truck t after the last merged leg.
Here(t) ==
    IF merged[t] = 0
    THEN make_ffo(trucks[t])
    ELSE [to_city |-> plan[t][merged[t]].to_city,
          finish_time |-> AfterTime(plan[t][merged[t]])]

\* The truck could have driven there directly from the end of the last order
\* that the solution has it serve.
DirectRoad(from, to) ==
    /\ HasRoad(problem, from.to_city, to.to_city)
    /\ from.finish_time + TravelTime(problem, from.to_city, to.to_city) <= to.finish_time

ReachOK ==
    \A t \in Trucks : DirectRoad(LastEnd(problem, main_solution, t), Here(t))

ScheduleInv ==
    /\ CheckerAccepts
    /\ NoOrderTwice
    /\ PlanOK
    /\ PlanDistinct
    /\ MergedOK
    /\ MasksKept
    /\ ServedOK
    /\ ReachOK

-----------------------------------------------------------------------------
(***************************************************************************)
(* Lemmas about the data.                                                  *)
(***************************************************************************)
\* What the assumption on the inputs says of the problem at hand.
LEMMA ProblemFacts ==
    ASSUME problem \in Problems
    PROVE  /\ IsProblem(problem)
           /\ problem.time_window < UIntRange
           /\ \A o \in Orders :
                 problem.orders[o].start_time + problem.time_window < UIntRange
           /\ problem.trucks \in [Trucks -> Truck]
           /\ problem.orders \in [Orders -> Order]
           /\ problem.time_window \in Nat \ {0}
           /\ \A o \in Orders : problem.orders[o].order_id = o /\ o \in Nat \ {0}
           /\ Trucks \subseteq Nat
<1>1. /\ IsProblem(problem)
      /\ problem.time_window < UIntRange
      /\ \A o \in Orders :
            problem.orders[o].start_time + problem.time_window < UIntRange
  BY ProblemsAssumption DEF Orders
<1>2. problem.trucks \in [Trucks -> Truck] /\ Trucks \subseteq Nat
  BY <1>1 DEF IsProblem, IsData, Trucks
<1>3. problem.orders \in [Orders -> Order] /\ Orders \subseteq Nat \ {0}
  BY <1>1 DEF IsProblem, IsData, Orders
<1>4. QED BY <1>1, <1>2, <1>3 DEF IsProblem, IsData, Orders

\* A travel time is a number of minutes wherever there is a road.
LEMMA TravelTimeNat ==
    ASSUME NEW p, IsProblem(p), NEW a \in City, NEW b \in City, HasRoad(p, a, b)
    PROVE  TravelTime(p, a, b) \in Nat
<1>1. GetDistance(p, a, b) \in Nat
  BY DEF HasRoad, GetDistance, IsProblem, IsData
<1>2. \A d \in Nat, s \in Nat \ {0} : (d * 60) \div s \in Nat
  OBVIOUS
<1>3. QED BY <1>1, <1>2 DEF TravelTime, IsProblem, IsData

\* Staying where one is takes no time.
LEMMA TravelTimeSame ==
    ASSUME NEW p, IsProblem(p), NEW a
    PROVE  HasRoad(p, a, a) /\ TravelTime(p, a, a) = 0
<1>1. \A s \in Nat \ {0} : (0 * 60) \div s = 0
  OBVIOUS
<1>2. QED BY <1>1 DEF TravelTime, GetDistance, HasRoad, IsProblem, IsData

\* An entry of the weights vectors makes a well-formed free-movement order,
\* from where the truck is to where there is a road.
LEMMA FreeEdgeType ==
    ASSUME TypeOK, NEW t \in batch_trucks, NEW leg \in FreeEdges(t)
    PROVE  /\ leg \in Order
           /\ IsFree(leg)
           /\ HasRoad(problem, leg.from_city, leg.to_city)
           /\ leg.start_time < cur_time_window
                 \/ leg.start_time = trucks[t].init_time
           /\ leg.finish_time = leg.start_time + 1
                 \/ leg.from_city # leg.to_city
           /\ leg.start_time + TravelTime(problem, leg.from_city, leg.to_city)
                 <= leg.finish_time
<1>1. PICK last \in LastOrders(t) :
        leg \in {FreeMovementEdge(t, last, problem.orders[o].from_city) : o \in
                   {o \in NextOrders :
                       MoveBetweenOrders(problem, trucks[t], last, problem.orders[o])}}
  BY DEF FreeEdges
<1>2. PICK o \in NextOrders :
        /\ MoveBetweenOrders(problem, trucks[t], last, problem.orders[o])
        /\ leg = FreeMovementEdge(t, last, problem.orders[o].from_city)
  BY <1>1
<1> DEFINE city == problem.orders[o].from_city
           travel == TravelTime(problem, last.to_city, city)
<1>3. t \in Trucks /\ trucks[t] \in Truck /\ t \in Nat
  BY ProblemFacts DEF TypeOK
<1>4. problem.orders[o] \in Order
  BY ProblemFacts DEF TypeOK, NextOrders
<1>5. /\ last.to_city \in City
      /\ last.finish_time \in Nat
      /\ last.finish_time < cur_time_window \/ last.finish_time = trucks[t].init_time
  <2>1. CASE last = make_ffo(trucks[t])
    BY <1>3, <2>1 DEF make_ffo, Truck
  <2>2. CASE \E b \in batch_orders :
               /\ problem.orders[b].finish_time < cur_time_window
               /\ last = EndOf(problem.orders[b])
    BY <2>2, ProblemFacts DEF EndOf, Order, TypeOK
  <2>3. QED BY <2>1, <2>2 DEF LastOrders
<1>6. HasRoad(problem, last.to_city, city) /\ city \in City
  BY <1>2, <1>4 DEF MoveBetweenOrders, CanReach, Order
<1>7. travel \in Nat
  BY <1>5, <1>6, TravelTimeNat, ProblemFacts DEF TypeOK
<1>8. /\ leg.order_id = 0
      /\ leg.obligation = FALSE
      /\ leg.start_time = last.finish_time
      /\ leg.finish_time = IF travel = 0 THEN last.finish_time + 1
                                         ELSE last.finish_time + travel
      /\ leg.from_city = last.to_city
      /\ leg.to_city = city
  BY <1>2 DEF FreeMovementEdge
<1>9. leg \in Order
  <2>1. trucks[t].mask_load_type \cup {LOAD_TYPE_COUNT + t} \in SUBSET Nat
    BY <1>3 DEF Truck, LoadType, LOAD_TYPE_COUNT
  <2>2. trucks[t].mask_trailer_type \in SUBSET TrailerType
    BY <1>3 DEF Truck
  <2>3. QED BY <1>2, <1>5, <1>6, <1>7, <2>1, <2>2 DEF FreeMovementEdge, Order
<1>10. leg.from_city = leg.to_city => travel = 0
  BY <1>8, TravelTimeSame, ProblemFacts DEF TypeOK
<1>11. QED BY <1>5, <1>6, <1>7, <1>8, <1>9, <1>10 DEF IsFree

\* The legs that the solver chooses from are orders, with an id of the problem.
LEMMA LegType ==
    ASSUME TypeOK, NEW leg \in Legs
    PROVE  leg \in Order /\ leg.order_id \in Orders \cup {0}
<1>1. CASE \E o \in batch_orders : leg = problem.orders[o]
  BY <1>1, ProblemFacts DEF TypeOK
<1>2. CASE \E t \in batch_trucks : leg \in FreeEdges(t)
  BY <1>2, FreeEdgeType DEF IsFree
<1>3. QED BY <1>1, <1>2 DEF Legs

-----------------------------------------------------------------------------
(***************************************************************************)
(* Type correctness, for all inputs.                                       *)
(***************************************************************************)
LEMMA NextWindowType ==
    ASSUME TypeOK
    PROVE  /\ NextWindow \in 0 .. UIntRange - 1
           /\ cur_time_window + problem.time_window < UIntRange =>
                 NextWindow = cur_time_window + problem.time_window
BY ProblemFacts, UIntRangeAssumption DEF TypeOK, NextWindow

LEMMA ReturnedType ==
    ASSUME TypeOK, NEW t \in Trucks
    PROVE  Returned(t) \in Truck
<1>1. trucks[t] \in Truck /\ plan[t] \in Seq(Order)
  BY DEF TypeOK
<1>2. CASE plan[t] = <<>>
  <2>1. cur_time_window \in Nat
    BY UIntRangeAssumption DEF TypeOK
  <2>2. Returned(t) = [trucks[t] EXCEPT !.init_time = cur_time_window]
    BY <1>2 DEF Returned
  <2>3. QED BY <1>1, <2>1, <2>2 DEF Truck
<1>3. CASE plan[t] # <<>>
  <2> DEFINE leg == plan[t][Len(plan[t])]
  <2>1. leg \in Order
    BY <1>1, <1>3
  <2>2. leg.to_city \in City /\ leg.finish_time \in Nat
    BY <2>1 DEF Order
  <2>3. AfterTime(leg) \in Nat
    BY <2>2, UIntRangeAssumption DEF AfterTime
  <2>4. Returned(t) = [trucks[t] EXCEPT !.init_time = AfterTime(leg),
                                        !.init_city = leg.to_city]
    BY <1>3 DEF Returned
  <2>5. QED BY <1>1, <2>2, <2>3, <2>4 DEF Truck
<1>4. QED BY <1>2, <1>3

LEMMA InitType == Init => TypeInv
<1> SUFFICES ASSUME Init PROVE TypeInv
  OBVIOUS
<1>1. problem \in Problems
  BY DEF Init
<1>2. plan = [t \in Trucks |-> <<>>] /\ main_solution = [t \in Trucks |-> <<>>]
  BY DEF Init, NoPlan
<1>3. order_by_start_time \subseteq Orders
  BY DEF Init, FilterSuffix
<1>4. TypeOK
  BY <1>1, <1>2, <1>3, ProblemFacts, UIntRangeAssumption
     DEF Init, TypeOK, Solution, Trucks, Orders
<1>5. PlanIds
  BY <1>2 DEF PlanIds
<1>6. QED BY <1>4, <1>5 DEF TypeInv

LEMMA NextType == TypeInv /\ [Next]_vars => TypeInv'
<1> SUFFICES ASSUME TypeInv, [Next]_vars PROVE TypeInv'
  OBVIOUS
<1> USE DEF TypeInv, PlanIds, Trucks, Orders
<1>1. CASE Finish
  BY <1>1 DEF Finish, TypeOK
<1>2. CASE SkipWindow
  BY <1>2, NextWindowType DEF SkipWindow, Pull, PulledTrucks, PulledOrders, TypeOK
<1>3. CASE FormBatch
  BY <1>3 DEF FormBatch, Pull, PulledTrucks, PulledOrders, TypeOK
<1>4. ASSUME NEW t \in batch_trucks, PickLeg(t) PROVE TypeInv'
  <2>1. PICK leg \in Legs : plan' = [plan EXCEPT ![t] = Append(@, leg)]
    BY <1>4 DEF PickLeg
  <2>2. leg \in Order /\ leg.order_id \in Orders \cup {0}
    BY LegType
  <2>3. t \in Trucks /\ plan[t] \in Seq(Order)
    BY DEF TypeOK
  <2>4. plan' \in [Trucks -> Seq(Order)]
    BY <2>1, <2>2, <2>3 DEF TypeOK
  <2>5. PlanIds'
    <3> SUFFICES ASSUME NEW u \in Trucks, NEW i \in DOMAIN plan'[u]
                 PROVE  plan'[u][i].order_id \in Orders \cup {0}
      BY <1>4 DEF PickLeg
    <3>1. CASE u = t /\ i = Len(plan[t]) + 1
      BY <2>1, <2>2, <2>3, <3>1 DEF TypeOK
    <3>2. CASE ~(u = t /\ i = Len(plan[t]) + 1)
      <4>1. i \in DOMAIN plan[u] /\ plan'[u][i] = plan[u][i]
        BY <2>1, <2>2, <2>3, <3>2 DEF TypeOK
      <4>2. QED BY <4>1
    <3>3. QED BY <3>1, <3>2
  <2>6. TypeOK'
    BY <1>4, <2>4 DEF PickLeg, TypeOK
  <2>7. QED BY <2>5, <2>6
<1>5. CASE SolverReturns
  BY <1>5 DEF SolverReturns, TypeOK
<1>6. CASE SolverFindsNothing
  <2>1. plan' = [t \in Trucks |-> <<>>]
    BY <1>6 DEF SolverFindsNothing, NoPlan
  <2>2. TypeOK'
    BY <1>6, <2>1 DEF SolverFindsNothing, TypeOK
  <2>3. PlanIds'
    BY <1>6, <2>1 DEF SolverFindsNothing
  <2>4. QED BY <2>2, <2>3
<1>7. CASE SolverAborts
  BY <1>7 DEF SolverAborts, TypeOK
<1>8. ASSUME NEW t \in batch_trucks, MergeLeg(t) PROVE TypeInv'
  <2> DEFINE leg == plan[t][merged[t] + 1]
  <2>1. t \in Trucks /\ merged[t] \in Nat /\ main_solution[t] \in Seq(Orders)
    BY DEF TypeOK, Solution
  <2>2. merged[t] + 1 \in DOMAIN plan[t]
    BY <1>8, <2>1 DEF MergeLeg, TypeOK
  <2>3. leg.order_id \in Orders \cup {0}
    BY <2>1, <2>2
  <2>4. main_solution' \in Solution(problem)
    <3>1. CASE IsFree(leg)
      BY <1>8, <3>1 DEF MergeLeg, TypeOK
    <3>2. CASE ~IsFree(leg)
      <4>1. leg.order_id \in Orders
        BY <2>3, <3>2 DEF IsFree
      <4>2. Append(main_solution[t], leg.order_id) \in Seq(Orders)
        BY <2>1, <4>1, AppendType
      <4>3. main_solution' = [main_solution EXCEPT ![t] = Append(@, leg.order_id)]
        BY <1>8, <3>2 DEF MergeLeg
      <4>4. QED BY <2>1, <4>2, <4>3 DEF TypeOK, Solution
    <3>3. QED BY <3>1, <3>2
  <2>5. QED BY <1>8, <2>1, <2>4 DEF MergeLeg, TypeOK, Solution
<1>9. CASE ReleaseBatch
  <2>1. trucks' \in [Trucks -> Truck]
    BY <1>9, ReturnedType DEF ReleaseBatch, TypeOK
  <2>2. plan' = [t \in Trucks |-> <<>>] /\ merged' = [t \in Trucks |-> 0]
    BY <1>9 DEF ReleaseBatch, NoPlan
  <2>3. order_by_start_time' \subseteq Orders
    BY <1>9 DEF ReleaseBatch, FilterSuffix, TypeOK
  <2>4. /\ plan' \in [Trucks -> Seq(Order)] /\ merged' \in [Trucks -> Nat]
        /\ trucks_by_init_time' \subseteq Trucks /\ batch_trucks' \subseteq Trucks
        /\ batch_orders' \subseteq Orders /\ unsolved' \subseteq Orders
    BY <1>9, <2>2 DEF ReleaseBatch, TypeOK
  <2>7. cur_time_window' \in 0 .. UIntRange - 1 /\ pc' = "loop"
    BY <1>9, NextWindowType DEF ReleaseBatch
  <2>8. TypeOK'
    BY <1>9, <2>1, <2>3, <2>4, <2>7 DEF ReleaseBatch, TypeOK
  <2>5. PlanIds'
    BY <1>9, <2>2 DEF ReleaseBatch
  <2>6. QED BY <2>5, <2>8
<1>10. CASE Terminated \/ UNCHANGED vars
  BY <1>10 DEF Terminated, vars, TypeOK, Solution
<1>11. QED
  BY <1>1, <1>2, <1>3, <1>4, <1>5, <1>6, <1>7, <1>8, <1>9, <1>10 DEF Next

\* Every variable keeps its type in every run, for every set of inputs.
THEOREM TypeCorrect == Spec => []TypeOK
<1>1. TypeInv => TypeOK
  BY DEF TypeInv
<1>2. QED BY <1>1, InitType, NextType, PTL DEF Spec

THEOREM TypeInvariance == Spec => []TypeInv
BY InitType, NextType, PTL DEF Spec

-----------------------------------------------------------------------------
(***************************************************************************)
(* The windows, for all inputs: an order is pulled in the window of its    *)
(* start, and never without a truck.  The filter is what makes it so: some *)
(* truck is free no later than each pending order starts, hence is pulled  *)
(* with the order or before it.                                            *)
(***************************************************************************)
LEMMA FilterSuffixOK ==
    ASSUME NEW available, NEW truck, NEW pending,
           NEW o \in FilterSuffix(available, truck, pending)
    PROVE  /\ o \in pending
           /\ \E t \in available : truck[t].init_time <= problem.orders[o].start_time
BY DEF FilterSuffix

\* Facts about the numbers that the window arithmetic is about.
LEMMA Times ==
    ASSUME TypeOK
    PROVE  /\ cur_time_window \in Nat
           /\ problem.time_window \in Nat \ {0}
           /\ \A o \in Orders : problem.orders[o].start_time \in Nat
           /\ \A t \in Trucks : trucks[t].init_time \in Nat
BY ProblemFacts, UIntRangeAssumption DEF TypeOK, Order, Truck

\* While an order that starts in a later window is pending, the window counter
\* does not wrap round.
LEMMA NoWrap ==
    ASSUME TypeOK, NEW o \in Orders, cur_time_window <= problem.orders[o].start_time
    PROVE  NextWindow = cur_time_window + problem.time_window
<1>1. problem.orders[o].start_time + problem.time_window < UIntRange
  BY ProblemFacts DEF TypeOK
<1>2. cur_time_window + problem.time_window < UIntRange
  BY <1>1, Times, UIntRangeAssumption
<1>3. QED BY <1>2, NextWindowType

LEMMA InitWindow == Init => WindowInv
<1> SUFFICES ASSUME Init PROVE WindowInv
  OBVIOUS
<1>1. TypeOK
  BY InitType DEF TypeInv
<1>2. PendingOK
  <2> SUFFICES ASSUME NEW o \in order_by_start_time
               PROVE  /\ \E t \in Trucks :
                            trucks[t].init_time <= problem.orders[o].start_time
                      /\ cur_time_window
                            <= problem.orders[o].start_time + problem.time_window
    BY DEF PendingOK, Init
  <2>1. o \in Orders
    BY <1>1 DEF TypeOK
  <2>2. \E t \in Trucks : trucks[t].init_time <= problem.orders[o].start_time
    BY DEF Init, FilterSuffix
  <2>3. cur_time_window <= problem.orders[o].start_time + problem.time_window
    BY <1>1, <2>1, Times DEF Init
  <2>4. QED BY <2>2, <2>3
<1>3. BatchesOK
  BY DEF Init, BatchesOK
<1>4. QED BY <1>2, <1>3 DEF WindowInv

\* A window without a batch pulls no order.
LEMMA SkipPullsNoOrder ==
    ASSUME TypeOK, PendingOK, BatchesOK, SkipWindow
    PROVE  PulledOrders = {} /\ batch_orders' = {}
<1>1. batch_orders = {}
  BY DEF SkipWindow, BatchesOK
<1>2. ASSUME NEW o \in PulledOrders PROVE FALSE
  <2>1. o \in order_by_start_time /\ problem.orders[o].start_time < cur_time_window
    BY DEF PulledOrders
  <2>2. PICK t \in Trucks : trucks[t].init_time <= problem.orders[o].start_time
    BY <2>1 DEF PendingOK
  <2>3. trucks[t].init_time < cur_time_window
    BY <2>1, <2>2, Times DEF TypeOK
  <2>4. t \in batch_trucks'
    BY <2>3 DEF SkipWindow, Pull, PulledTrucks, BatchesOK
  <2>5. o \in batch_orders'
    BY DEF SkipWindow, Pull
  <2>6. QED BY <2>4, <2>5 DEF SkipWindow
<1>3. QED BY <1>1, <1>2 DEF SkipWindow, Pull

LEMMA NextWindowInv == TypeOK /\ TypeOK' /\ WindowInv /\ [Next]_vars => WindowInv'
<1> SUFFICES ASSUME TypeOK, TypeOK', PendingOK, BatchesOK, [Next]_vars
             PROVE  PendingOK' /\ BatchesOK'
  BY DEF WindowInv
<1> USE DEF Trucks
<1>1. CASE Finish
  BY <1>1 DEF Finish, PendingOK, BatchesOK
<1>2. CASE SkipWindow
  <2>1. /\ order_by_start_time' = order_by_start_time
        /\ trucks_by_init_time' = trucks_by_init_time \ PulledTrucks
        /\ batch_trucks' = batch_trucks \cup PulledTrucks
        /\ batch_orders' = {}
        /\ cur_time_window' = NextWindow
        /\ pc = "loop" /\ pc' = "loop"
        /\ UNCHANGED <<problem, trucks>>
    BY <1>2, SkipPullsNoOrder DEF SkipWindow, Pull
  <2>2. \A o \in order_by_start_time : cur_time_window <= problem.orders[o].start_time
    BY <1>2, SkipPullsNoOrder, Times DEF PulledOrders, TypeOK
  <2>3. NextWindow = cur_time_window + problem.time_window
    <3>1. PICK o \in order_by_start_time : TRUE
      BY <1>2 DEF SkipWindow
    <3>2. QED BY <2>2, <3>1, NoWrap DEF TypeOK
  <2>4. PendingOK'
    <3> SUFFICES ASSUME NEW o \in order_by_start_time
                 PROVE  cur_time_window' <= problem.orders[o].start_time
                                               + problem.time_window
      BY <2>1 DEF PendingOK
    <3>1. QED BY <2>1, <2>2, <2>3, Times DEF TypeOK
  <2>5. \A t \in batch_trucks' : trucks[t].init_time < cur_time_window'
    BY <2>1, <2>3, Times DEF BatchesOK, PulledTrucks, TypeOK
  <2>6. BatchesOK'
    BY <2>1, <2>5 DEF BatchesOK, PulledTrucks
  <2>7. QED BY <2>4, <2>6
<1>3. CASE FormBatch
  <2>1. PendingOK'
    BY <1>3, Times DEF FormBatch, Pull, PulledOrders, PendingOK, TypeOK
  <2>2. \A o \in batch_orders' :
          /\ problem.orders[o].start_time < cur_time_window
          /\ cur_time_window <= problem.orders[o].start_time + problem.time_window
    BY <1>3 DEF FormBatch, Pull, PulledOrders, PendingOK, BatchesOK
  <2>3. BatchesOK'
    BY <1>3, <2>2 DEF FormBatch, Pull, PulledOrders, PulledTrucks, BatchesOK
  <2>4. QED BY <2>1, <2>3
<1>4. ASSUME NEW t \in batch_trucks, PickLeg(t) PROVE PendingOK' /\ BatchesOK'
  BY <1>4 DEF PickLeg, PendingOK, BatchesOK
<1>5. CASE SolverReturns
  BY <1>5 DEF SolverReturns, PendingOK, BatchesOK
<1>6. CASE SolverFindsNothing
  BY <1>6 DEF SolverFindsNothing, PendingOK, BatchesOK
<1>7. CASE SolverAborts
  BY <1>7 DEF SolverAborts, PendingOK, BatchesOK
<1>8. ASSUME NEW t \in batch_trucks, MergeLeg(t) PROVE PendingOK' /\ BatchesOK'
  BY <1>8 DEF MergeLeg, PendingOK, BatchesOK
<1>9. CASE ReleaseBatch
  <2>1. BatchesOK'
    BY <1>9 DEF ReleaseBatch, BatchesOK
  <2>2. ASSUME NEW o \in order_by_start_time'
        PROVE  /\ \E t \in Trucks : trucks'[t].init_time <= problem.orders[o].start_time
               /\ cur_time_window'
                     <= problem.orders[o].start_time + problem.time_window
    <3>1. /\ o \in order_by_start_time
          /\ \E t \in trucks_by_init_time' :
                trucks'[t].init_time <= problem.orders[o].start_time
      BY <1>9 DEF ReleaseBatch, FilterSuffix
    <3>2. trucks_by_init_time' = Trucks
      BY <1>9 DEF ReleaseBatch, BatchesOK
    <3>3. o \in Orders /\ cur_time_window <= problem.orders[o].start_time
      BY <1>9, <3>1 DEF ReleaseBatch, PendingOK, TypeOK
    <3>4. cur_time_window' = cur_time_window + problem.time_window
      BY <1>9, <3>3, NoWrap DEF ReleaseBatch
    <3>5. QED BY <3>1, <3>2, <3>3, <3>4, Times
  <2>3. PendingOK'
    BY <1>9, <2>2 DEF ReleaseBatch, PendingOK
  <2>4. QED BY <2>1, <2>3
<1>10. CASE Terminated \/ UNCHANGED vars
  BY <1>10 DEF Terminated, vars, PendingOK, BatchesOK
<1>11. QED
  BY <1>1, <1>2, <1>3, <1>4, <1>5, <1>6, <1>7, <1>8, <1>9, <1>10 DEF Next

LEMMA WindowInvariance == Spec => [](TypeOK /\ WindowInv)
<1>1. Init => TypeOK /\ WindowInv
  BY InitType, InitWindow DEF TypeInv
<1>2. TypeOK /\ TypeOK' /\ WindowInv /\ [Next]_vars => WindowInv'
  BY NextWindowInv
<1>3. QED BY <1>1, <1>2, TypeCorrect, PTL DEF Spec

\* The batch loop never ends, nor starts another turn, with orders that have
\* been pulled and not planned.
THEOREM NeverStranded == Spec => []NoOrderStranded
<1>1. WindowInv => NoOrderStranded
  BY DEF WindowInv, BatchesOK, NoOrderStranded
<1>2. QED BY <1>1, WindowInvariance, PTL

\* Whatever the solver is given, free-movement orders included, starts before
\* the time boundary that it is told, and no order waits past its own window.
THEOREM WithinWindow == Spec => []BatchWithinWindow
<1>1. ASSUME TypeOK, WindowInv PROVE BatchWithinWindow
  <2>1. ASSUME NEW leg \in Legs PROVE leg.start_time < cur_time_window
    <3>1. CASE \E o \in batch_orders : leg = problem.orders[o]
      BY <1>1, <3>1 DEF WindowInv, BatchesOK
    <3>2. CASE \E t \in batch_trucks : leg \in FreeEdges(t)
      BY <1>1, <3>2, FreeEdgeType DEF WindowInv, BatchesOK
    <3>3. QED BY <3>1, <3>2 DEF Legs
  <2>2. QED BY <1>1, <2>1 DEF WindowInv, BatchesOK, BatchWithinWindow
<1>2. QED BY <1>1, WindowInvariance, PTL

-----------------------------------------------------------------------------
(***************************************************************************)
(* The solution, for metric distances and forward orders that are no loops.*)
(***************************************************************************)
RegularInputs ==
    \A p \in Problems : Metric(p) /\ NoLoopOrders(p) /\ ForwardOrders(p)

EndType == [to_city : City, finish_time : Nat]

\* Two drives with a stop between them are no faster than the direct one.
LEMMA Detour ==
    ASSUME RegularInputs, problem \in Problems,
           NEW a \in City, NEW b \in City, NEW c \in City,
           NEW x \in Nat, NEW y \in Nat, NEW z \in Nat, NEW y2 \in Nat,
           HasRoad(problem, a, b), x + TravelTime(problem, a, b) <= y, y <= y2,
           HasRoad(problem, b, c), y2 + TravelTime(problem, b, c) <= z
    PROVE  HasRoad(problem, a, c) /\ x + TravelTime(problem, a, c) <= z
<1>1. /\ HasRoad(problem, a, c)
      /\ TravelTime(problem, a, c)
            <= TravelTime(problem, a, b) + TravelTime(problem, b, c)
  BY DEF RegularInputs, Metric
<1>2. /\ TravelTime(problem, a, b) \in Nat
      /\ TravelTime(problem, b, c) \in Nat
      /\ TravelTime(problem, a, c) \in Nat
  BY <1>1, TravelTimeNat, ProblemFacts
<1>3. QED BY <1>1, <1>2

LEMMA LastEndType ==
    ASSUME TypeOK, NEW t \in Trucks
    PROVE  LastEnd(problem, main_solution, t) \in EndType
<1>1. CASE main_solution[t] = <<>>
  <2>1. problem.trucks[t] \in Truck
    BY ProblemFacts DEF TypeOK
  <2>2. QED BY <1>1, <2>1 DEF LastEnd, make_ffo, EndType, Truck
<1>2. CASE main_solution[t] # <<>>
  <2>1. main_solution[t] \in Seq(Orders)
    BY DEF TypeOK, Solution, Trucks, Orders
  <2>2. main_solution[t][Len(main_solution[t])] \in Orders
    BY <1>2, <2>1
  <2>3. problem.orders[main_solution[t][Len(main_solution[t])]] \in Order
    BY <2>2, ProblemFacts DEF TypeOK
  <2>4. QED BY <1>2, <2>3 DEF LastEnd, EndOf, EndType, Order
<1>3. QED BY <1>1, <1>2

\* The truck is back in the pool, or ready to move on, no later than the leg
\* ends; after an order of the problem, exactly then.
LEMMA LegEnd ==
    ASSUME RegularInputs, TypeInv, NEW t \in Trucks, NEW i \in DOMAIN plan[t], LegOK(t, i)
    PROVE  /\ plan[t][i] \in Order
           /\ AfterTime(plan[t][i]) \in Nat
           /\ AfterTime(plan[t][i]) <= plan[t][i].finish_time
           /\ ~IsFree(plan[t][i]) =>
                 AfterTime(plan[t][i]) = plan[t][i].finish_time
<1> DEFINE leg == plan[t][i]
<1>1. leg \in Order
  <2>1. plan[t] \in Seq(Order)
    BY DEF TypeInv, TypeOK
  <2>2. QED BY <2>1
<1>2. leg.finish_time \in Nat
  BY <1>1 DEF Order
<1>3. AfterTime(leg) \in Nat
  BY <1>2, UIntRangeAssumption DEF AfterTime
<1>4. CASE RealLeg(t, leg)
  <2>1. leg = problem.orders[leg.order_id] /\ leg.order_id \in Orders
    BY <1>4 DEF RealLeg, TypeInv, TypeOK
  <2>2. leg.from_city # leg.to_city
    BY <2>1 DEF RegularInputs, NoLoopOrders, TypeInv, TypeOK, Orders
  <2>3. QED BY <1>1, <1>2, <1>3, <2>2 DEF AfterTime
<1>5. CASE IsFree(leg) /\ FreeShape(leg)
  BY <1>1, <1>3, <1>5 DEF FreeShape
<1>6. QED BY <1>4, <1>5 DEF LegOK

\* Wherever the legs merged so far have taken the truck, its next leg starts no
\* earlier than the truck could be there from its last served order.
LEMMA NextLegReachable ==
    ASSUME RegularInputs, TypeInv, PlanOK, MergedOK, ReachOK,
           NEW t \in Trucks, merged[t] + 1 \in DOMAIN plan[t]
    PROVE  CanReach(problem, LastEnd(problem, main_solution, t), plan[t][merged[t] + 1])
<1> DEFINE m == merged[t]
           leg == plan[t][m + 1]
           end == LastEnd(problem, main_solution, t)
           before == PlanPrevious(t, m + 1)
<1>1. m \in Nat /\ plan[t] \in Seq(Order) /\ leg \in Order /\ trucks[t] \in Truck
  BY DEF TypeInv, TypeOK
<1>2. leg.from_city \in City /\ leg.start_time \in Nat
  BY <1>1 DEF Order
<1>3. end \in EndType
  BY LastEndType DEF TypeInv
<1>4. CanReach(problem, before, leg)
  BY DEF PlanOK, LegOK
<1>5. /\ Here(t).to_city \in City /\ Here(t).finish_time \in Nat
      /\ before.to_city = Here(t).to_city /\ before.finish_time \in Nat
      /\ Here(t).finish_time <= before.finish_time
  <2>1. CASE m = 0
    BY <1>1, <2>1 DEF Here, PlanPrevious, make_ffo, Truck
  <2>2. CASE m # 0
    <3>1. m \in DOMAIN plan[t]
      BY <1>1, <2>2
    <3>2. /\ plan[t][m] \in Order
          /\ AfterTime(plan[t][m]) \in Nat
          /\ AfterTime(plan[t][m]) <= plan[t][m].finish_time
      BY <3>1, LegEnd DEF PlanOK
    <3>3. before = EndOf(plan[t][m])
      BY <1>1, <2>2 DEF PlanPrevious
    <3>4. Here(t) = [to_city |-> plan[t][m].to_city,
                     finish_time |-> AfterTime(plan[t][m])]
      BY <2>2 DEF Here
    <3>5. QED BY <3>2, <3>3, <3>4 DEF EndOf, Order
  <2>3. QED BY <2>1, <2>2
<1>6. DirectRoad(end, Here(t))
  BY DEF ReachOK
<1>7. problem \in Problems /\ end.to_city \in City /\ end.finish_time \in Nat
  BY <1>3 DEF TypeInv, TypeOK, EndType
<1>8. /\ HasRoad(problem, end.to_city, Here(t).to_city)
      /\ end.finish_time + TravelTime(problem, end.to_city, Here(t).to_city)
            <= Here(t).finish_time
      /\ HasRoad(problem, Here(t).to_city, leg.from_city)
      /\ before.finish_time + TravelTime(problem, Here(t).to_city, leg.from_city)
            <= leg.start_time
  BY <1>4, <1>5, <1>6 DEF DirectRoad, CanReach
<1>9. /\ HasRoad(problem, end.to_city, leg.from_city)
      /\ end.finish_time + TravelTime(problem, end.to_city, leg.from_city)
            <= leg.start_time
  <2>1. PICK here : here = Here(t)
    OBVIOUS
  <2> HIDE DEF leg, end, before
  <2>2. QED BY <1>2, <1>5, <1>7, <1>8, <2>1, Detour
<1>10. QED BY <1>9 DEF CanReach

\* A merged leg that is an order of the problem is one that its truck can serve
\* next, by the checker's rules, and that nobody serves yet.
LEMMA MergedOrder ==
    ASSUME RegularInputs, TypeInv, ScheduleInv, NEW t \in Trucks,
           merged[t] + 1 \in DOMAIN plan[t], ~IsFree(plan[t][merged[t] + 1])
    PROVE  LET o == plan[t][merged[t] + 1].order_id
           IN  /\ o \in batch_orders /\ o \in Orders
               /\ plan[t][merged[t] + 1] = problem.orders[o]
               /\ o \notin Served(main_solution)
               /\ MoveBetweenOrders(problem, problem.trucks[t],
                                    LastEnd(problem, main_solution, t),
                                    problem.orders[o])
<1> DEFINE leg == plan[t][merged[t] + 1]
           o == leg.order_id
<1>1. RealLeg(t, leg)
  BY DEF ScheduleInv, PlanOK, LegOK
<1>2. o \in batch_orders /\ o \in Orders /\ leg = problem.orders[o]
  BY <1>1 DEF RealLeg, TypeInv, TypeOK
<1>3. o \notin Served(main_solution)
  <2>1. ASSUME o \in Served(main_solution) PROVE FALSE
    <3>1. PICK u \in Trucks : \E j \in DOMAIN plan[u] :
             j <= merged[u] /\ plan[u][j].order_id = o
      BY <1>2, <2>1 DEF ScheduleInv, ServedOK
    <3>2. PICK j \in DOMAIN plan[u] : j <= merged[u] /\ plan[u][j].order_id = o
      BY <3>1
    <3>3. u = t /\ j = merged[t] + 1
      BY <3>2 DEF ScheduleInv, PlanDistinct, IsFree
    <3>4. merged[t] \in Nat
      BY DEF TypeInv, TypeOK
    <3>5. QED BY <3>2, <3>3, <3>4
  <2>2. QED BY <2>1
<1>4. CanReach(problem, LastEnd(problem, main_solution, t), leg)
  BY NextLegReachable DEF ScheduleInv
<1>5. IsExecutableBy(problem.trucks[t], leg)
  BY <1>1 DEF RealLeg, IsExecutableBy, ScheduleInv, MasksKept
<1>6. QED BY <1>2, <1>3, <1>4, <1>5 DEF MoveBetweenOrders

\* A leg that the solver may pick for truck t starts where the plan ends.
LEMMA PickedLeg ==
    ASSUME TypeInv, NEW t \in batch_trucks, NEW leg \in Legs,
           FlowLeg(t, leg) \/ ChainLeg(t, leg)
    PROVE  /\ leg \in Order
           /\ CanReach(problem, PlanEnd(t), leg)
           /\ \/ IsFree(leg) /\ FreeShape(leg)
              \/ RealLeg(t, leg)
<1>1. leg \in Order
  BY LegType DEF TypeInv
<1>2. ASSUME ~IsFree(leg)
      PROVE  CanReach(problem, PlanEnd(t), leg) /\ RealLeg(t, leg)
  <2>1. MoveBetweenOrders(problem, trucks[t], PlanEnd(t), leg)
    BY <1>2 DEF FlowLeg, ChainLeg
  <2>2. \E o \in batch_orders : leg = problem.orders[o]
    BY <1>2, FreeEdgeType DEF Legs, TypeInv
  <2>3. leg.order_id \in batch_orders /\ leg = problem.orders[leg.order_id]
    BY <2>2, ProblemFacts DEF TypeInv, TypeOK
  <2>4. QED BY <2>1, <2>3 DEF MoveBetweenOrders, RealLeg
<1>3. ASSUME IsFree(leg)
      PROVE  CanReach(problem, PlanEnd(t), leg) /\ FreeShape(leg)
  <2>1. PICK u \in batch_trucks : leg \in FreeEdges(u)
    BY <1>3, ProblemFacts DEF Legs, IsFree, TypeInv, TypeOK
  <2>2. FreeShape(leg)
    <3>1. /\ HasRoad(problem, leg.from_city, leg.to_city)
          /\ leg.finish_time = leg.start_time + 1 \/ leg.from_city # leg.to_city
          /\ leg.start_time + TravelTime(problem, leg.from_city, leg.to_city)
                <= leg.finish_time
      BY <2>1, FreeEdgeType DEF TypeInv
    <3>2. leg.start_time \in Nat /\ leg.finish_time \in Nat
      BY <1>1 DEF Order
    <3>3. CASE leg.from_city = leg.to_city
      <4>1. TravelTime(problem, leg.from_city, leg.to_city) = 0
        BY <3>3, TravelTimeSame, ProblemFacts DEF TypeInv, TypeOK
      <4>2. AfterTime(leg) = leg.start_time /\ leg.start_time <= leg.finish_time
        BY <3>1, <3>2, <3>3 DEF AfterTime
      <4>3. QED BY <3>1, <3>2, <4>1, <4>2 DEF FreeShape
    <3>4. CASE leg.from_city # leg.to_city
      BY <3>1, <3>2, <3>4 DEF FreeShape, AfterTime
    <3>5. QED BY <3>3, <3>4
  <2>3. CanReach(problem, PlanEnd(t), leg)
    <3>1. CASE FlowLeg(t, leg)
      BY <3>1 DEF FlowLeg, MoveBetweenOrders
    <3>2. CASE ChainLeg(t, leg)
      <4>1. /\ PlanEnd(t).to_city = leg.from_city
            /\ PlanEnd(t).finish_time = leg.start_time
        BY <1>3, <3>2 DEF ChainLeg
      <4>2. /\ HasRoad(problem, leg.from_city, leg.from_city)
            /\ TravelTime(problem, leg.from_city, leg.from_city) = 0
        BY TravelTimeSame, ProblemFacts DEF TypeInv, TypeOK
      <4>3. leg.start_time \in Nat
        BY <1>1 DEF Order
      <4>4. QED BY <4>1, <4>2, <4>3 DEF CanReach
    <3>3. QED BY <3>1, <3>2
  <2>4. QED BY <2>2, <2>3
<1>4. QED BY <1>1, <1>2, <1>3

LEMMA PickKeepsPlan ==
    ASSUME TypeInv, ScheduleInv, NEW t \in batch_trucks, PickLeg(t)
    PROVE  PlanOK' /\ PlanDistinct'
<1>1. PICK leg \in Legs :
        /\ Key(leg) \notin UsedKeys
        /\ FlowLeg(t, leg) \/ ChainLeg(t, leg)
        /\ plan' = [plan EXCEPT ![t] = Append(@, leg)]
  BY DEF PickLeg
<1>2. /\ t \in Trucks
      /\ \A u \in Trucks : plan[u] \in Seq(Order)
      /\ plan \in [Trucks -> Seq(Order)]
  BY DEF TypeInv, TypeOK
<1>n. PICK last \in Nat : last = Len(plan[t]) + 1
  BY <1>2
<1>3. /\ leg \in Order
      /\ CanReach(problem, PlanEnd(t), leg)
      /\ (IsFree(leg) /\ FreeShape(leg)) \/ RealLeg(t, leg)
  BY <1>1, PickedLeg
<1>4. /\ last \in DOMAIN plan'[t] /\ plan'[t][last] = leg
      /\ \A u \in Trucks : \A i \in DOMAIN plan'[u] :
            ~(u = t /\ i = last) =>
               /\ i \in DOMAIN plan[u]
               /\ plan'[u][i] = plan[u][i]
               /\ i # 1 => i - 1 \in DOMAIN plan[u] /\ plan'[u][i - 1] = plan[u][i - 1]
  BY <1>1, <1>2, <1>3, <1>n
<1>5. UNCHANGED <<problem, trucks, batch_trucks, batch_orders>>
  BY DEF PickLeg
<1>6. PlanOK'
  <2> SUFFICES ASSUME NEW u \in Trucks, NEW i \in DOMAIN plan'[u]
               PROVE  LegOK(u, i)'
    BY <1>5 DEF PlanOK, Trucks
  <2>1. CASE u = t /\ i = last
    <3>1. PlanPrevious(u, i)' = PlanEnd(t)
      <4>1. CASE plan[t] = <<>>
        <5>1. i = 1
          BY <1>n, <2>1, <4>1
        <5>2. QED BY <1>5, <2>1, <4>1, <5>1 DEF PlanPrevious, PlanEnd
      <4>2. CASE plan[t] # <<>>
        <5>1. i # 1 /\ i - 1 = Len(plan[t])
          BY <1>2, <1>n, <2>1, <4>2
        <5>2. plan'[t][Len(plan[t])] = plan[t][Len(plan[t])]
          BY <1>1, <1>2, <1>3, <4>2
        <5>3. QED BY <2>1, <4>2, <5>1, <5>2 DEF PlanPrevious, PlanEnd
      <4>3. QED BY <4>1, <4>2
    <3>2. plan'[u][i] = leg
      BY <1>4, <2>1
    <3>3. QED BY <1>3, <1>5, <2>1, <3>1, <3>2
             DEF LegOK, FreeShape, RealLeg, IsFree, AfterTime
  <2>2. CASE ~(u = t /\ i = last)
    <3>1. LegOK(u, i)
      BY <1>4, <2>2 DEF ScheduleInv, PlanOK
    <3>2. PlanPrevious(u, i)' = PlanPrevious(u, i)
      BY <1>4, <1>5, <2>2 DEF PlanPrevious
    <3>3. QED BY <1>4, <1>5, <2>2, <3>1, <3>2
             DEF LegOK, FreeShape, RealLeg, IsFree, AfterTime
  <2>3. QED BY <2>1, <2>2
<1>7. \A u \in Trucks : \A i \in DOMAIN plan[u] :
         leg.order_id # 0 => plan[u][i].order_id # leg.order_id
  <2> SUFFICES ASSUME NEW u \in Trucks, NEW i \in DOMAIN plan[u],
                      leg.order_id # 0, plan[u][i].order_id = leg.order_id
               PROVE  FALSE
    OBVIOUS
  <2>1. leg = problem.orders[leg.order_id]
    BY <1>3 DEF RealLeg, IsFree
  <2>2. plan[u][i] = problem.orders[leg.order_id]
    BY DEF ScheduleInv, PlanOK, LegOK, RealLeg, IsFree
  <2>3. Key(leg) \in UsedKeys
    BY <2>1, <2>2 DEF UsedKeys
  <2>4. QED BY <1>1, <2>3
<1>8. PlanDistinct'
  <2> SUFFICES ASSUME NEW u \in Trucks, NEW v \in Trucks,
                      NEW i \in DOMAIN plan'[u], NEW j \in DOMAIN plan'[v],
                      plan'[u][i].order_id = plan'[v][j].order_id,
                      plan'[u][i].order_id # 0
               PROVE  u = v /\ i = j
    BY <1>5 DEF PlanDistinct, Trucks
  <2>1. /\ u = t /\ i = last => plan'[u][i] = leg
        /\ v = t /\ j = last => plan'[v][j] = leg
    BY <1>4
  <2>2. ~(u = t /\ i = last) => i \in DOMAIN plan[u] /\ plan'[u][i] = plan[u][i]
    BY <1>4
  <2>3. ~(v = t /\ j = last) => j \in DOMAIN plan[v] /\ plan'[v][j] = plan[v][j]
    BY <1>4
  <2>4. CASE (u = t /\ i = last) /\ ~(v = t /\ j = last)
    BY <1>7, <2>1, <2>3, <2>4
  <2>5. CASE ~(u = t /\ i = last) /\ (v = t /\ j = last)
    BY <1>7, <2>1, <2>2, <2>5
  <2>6. CASE ~(u = t /\ i = last) /\ ~(v = t /\ j = last)
    BY <2>2, <2>3, <2>6 DEF ScheduleInv, PlanDistinct
  <2>7. QED BY <2>4, <2>5, <2>6
<1>9. QED BY <1>6, <1>8

\* Merging a leg, whether it leaves a trace in the solution or not.
LEMMA MergeKeepsSchedule ==
    ASSUME RegularInputs, TypeInv, WindowInv, ScheduleInv,
           NEW t \in batch_trucks, MergeLeg(t)
    PROVE  ScheduleInv'
<1> DEFINE leg == plan[t][merged[t] + 1]
           o == leg.order_id
           from == LastEnd(problem, main_solution, t)
<1>1. /\ t \in Trucks
      /\ merged \in [Trucks -> Nat]
      /\ plan[t] \in Seq(Order)
      /\ main_solution \in Solution(problem)
      /\ problem \in Problems
  BY DEF TypeInv, TypeOK
<1>2. /\ merged[t] + 1 \in DOMAIN plan[t]
      /\ merged' = [merged EXCEPT ![t] = @ + 1]
      /\ merged'[t] = merged[t] + 1
      /\ \A u \in Trucks \ {t} : merged'[u] = merged[u]
  BY <1>1 DEF MergeLeg
<1>3. UNCHANGED <<problem, trucks, batch_trucks, batch_orders, order_by_start_time,
                  plan, pc>>
  BY DEF MergeLeg
<1>4. PlanOK' /\ PlanDistinct' /\ MasksKept'
  BY <1>3 DEF ScheduleInv, PlanOK, LegOK, PlanPrevious, FreeShape, RealLeg, IsFree,
              AfterTime, PlanDistinct, MasksKept, Trucks
<1>5. MergedOK'
  BY <1>1, <1>2, <1>3 DEF ScheduleInv, MergedOK, MergeLeg, Trucks
<1>6. /\ leg \in Order
      /\ AfterTime(leg) \in Nat
      /\ AfterTime(leg) <= leg.finish_time
      /\ ~IsFree(leg) => AfterTime(leg) = leg.finish_time
  BY <1>1, <1>2, LegEnd DEF ScheduleInv, PlanOK
<1>7. Here(t)' = [to_city |-> leg.to_city, finish_time |-> AfterTime(leg)]
  <2>1. merged'[t] # 0
    BY <1>1, <1>2
  <2>2. QED BY <1>2, <1>3, <2>1 DEF Here, AfterTime
<1>8. \A u \in Trucks \ {t} : Here(u)' = Here(u)
  BY <1>2, <1>3 DEF Here, AfterTime
<1>9. CASE IsFree(leg)
  <2>1. main_solution' = main_solution
    BY <1>9 DEF MergeLeg
  <2>2. CheckerAccepts' /\ NoOrderTwice'
    BY <1>3, <2>1 DEF ScheduleInv, CheckerAccepts, NoOrderTwice
  <2>3. ServedOK'
    BY <1>1, <1>2, <1>3, <2>1 DEF ScheduleInv, ServedOK, Trucks
  <2>4. DirectRoad(from, Here(t)')
    <3>1. CanReach(problem, from, leg)
      BY <1>1, <1>2, NextLegReachable DEF ScheduleInv
    <3>2. FreeShape(leg)
      <4>1. LegOK(t, merged[t] + 1)
        BY <1>1, <1>2 DEF ScheduleInv, PlanOK
      <4>2. ~RealLeg(t, leg)
        BY <1>1, <1>9, ProblemFacts DEF RealLeg, IsFree, TypeInv, TypeOK
      <4>3. QED BY <4>1, <4>2 DEF LegOK
    <3>3. from.to_city \in City /\ from.finish_time \in Nat
      BY <1>1, LastEndType DEF EndType, TypeInv
    <3>4. leg.from_city \in City /\ leg.to_city \in City /\ leg.start_time \in Nat
      BY <1>6 DEF Order
    <3>5. /\ HasRoad(problem, from.to_city, leg.from_city)
          /\ from.finish_time + TravelTime(problem, from.to_city, leg.from_city)
                <= leg.start_time
          /\ HasRoad(problem, leg.from_city, leg.to_city)
          /\ leg.start_time + TravelTime(problem, leg.from_city, leg.to_city)
                <= AfterTime(leg)
      BY <3>1, <3>2 DEF CanReach, FreeShape
    <3>6. leg.start_time <= leg.start_time
      BY <3>4
    <3>7. /\ HasRoad(problem, from.to_city, leg.to_city)
          /\ from.finish_time + TravelTime(problem, from.to_city, leg.to_city)
                <= AfterTime(leg)
      <4> HIDE DEF leg, from
      <4>1. QED BY <1>1, <1>6, <3>3, <3>4, <3>5, <3>6, Detour
    <3>8. QED BY <1>7, <3>7 DEF DirectRoad
  <2>5. ReachOK'
    BY <1>3, <1>8, <2>1, <2>4 DEF ScheduleInv, ReachOK, DirectRoad, Trucks
  <2>6. QED BY <1>4, <1>5, <2>2, <2>3, <2>5 DEF ScheduleInv
<1>10. CASE ~IsFree(leg)
  <2>1. /\ o \in batch_orders /\ o \in Orders
        /\ leg = problem.orders[o]
        /\ o \notin Served(main_solution)
        /\ MoveBetweenOrders(problem, problem.trucks[t], from, problem.orders[o])
    BY <1>1, <1>2, <1>10, MergedOrder
  <2>2. main_solution' = [main_solution EXCEPT ![t] = Append(@, o)]
    BY <1>10 DEF MergeLeg
  <2>3. \A x : x \in Served(main_solution') <=> x \in Served(main_solution) \/ x = o
    <3>1. t \in DOMAIN problem.trucks /\ o \in DOMAIN problem.orders
      BY <1>1, <2>1 DEF Trucks, Orders
    <3> HIDE DEF o
    <3> DEFINE after == [main_solution EXCEPT ![t] = Append(@, o)]
    <3>2. \A x : x \in Served(after) <=> x \in Served(main_solution) \/ x = o
      BY <1>1, <3>1, ServedAppend
    <3>3. main_solution' = after
      BY <2>2
    <3> HIDE DEF after
    <3>4. QED BY <3>2, <3>3
  <2>4. CheckerAccepts'
    BY <1>1, <1>3, <2>1, <2>2, AcceptsAppend
       DEF ScheduleInv, CheckerAccepts, Trucks, Orders
  <2>5. NoOrderTwice'
    BY <1>1, <2>1, <2>2, NoRepeatsAppend DEF ScheduleInv, NoOrderTwice, Trucks, Orders
  <2>6. ServedOK'
    <3>1. ASSUME NEW p \in order_by_start_time PROVE p \notin Served(main_solution')
      <4>1. p # o
        BY <2>1 DEF WindowInv, BatchesOK
      <4>2. QED BY <2>3, <4>1 DEF ScheduleInv, ServedOK
    <3>2. ASSUME NEW p \in batch_orders, p \in Served(main_solution')
          PROVE  \E u \in Trucks : \E i \in DOMAIN plan[u] :
                    i <= merged'[u] /\ plan[u][i].order_id = p
      <4>1. CASE p = o
        BY <1>1, <1>2, <4>1
      <4>2. CASE p # o
        <5>1. PICK u \in Trucks : \E i \in DOMAIN plan[u] :
                 i <= merged[u] /\ plan[u][i].order_id = p
          BY <2>3, <3>2, <4>2 DEF ScheduleInv, ServedOK
        <5>2. PICK i \in DOMAIN plan[u] : i <= merged[u] /\ plan[u][i].order_id = p
          BY <5>1
        <5>3. i \in Nat /\ merged[u] \in Nat /\ merged'[u] >= merged[u]
          <6>1. plan[u] \in Seq(Order)
            BY DEF TypeInv, TypeOK
          <6>2. QED BY <1>1, <1>2, <6>1
        <5>4. i <= merged'[u]
          BY <1>1, <1>2, <5>2, <5>3
        <5>5. QED BY <5>2, <5>4
      <4>3. QED BY <4>1, <4>2
    <3>3. QED BY <1>3, <3>1, <3>2 DEF ServedOK, Trucks
  <2>7. DirectRoad(EndOf(leg), Here(t)')
    <3>1. /\ HasRoad(problem, leg.to_city, leg.to_city)
          /\ TravelTime(problem, leg.to_city, leg.to_city) = 0
      BY <1>1, TravelTimeSame, ProblemFacts
    <3>2. leg.finish_time \in Nat
      BY <1>6 DEF Order
    <3>3. QED BY <1>6, <1>7, <1>10, <3>1, <3>2 DEF DirectRoad, EndOf
  <2>8. /\ LastEnd(problem, main_solution', t) = EndOf(leg)
        /\ \A u \in Trucks \ {t} :
              LastEnd(problem, main_solution', u) = LastEnd(problem, main_solution, u)
    <3>1. t \in DOMAIN problem.trucks /\ o \in DOMAIN problem.orders
      BY <1>1, <2>1 DEF Trucks, Orders
    <3> HIDE DEF o
    <3> DEFINE after == [main_solution EXCEPT ![t] = Append(@, o)]
    <3>2. /\ LastEnd(problem, after, t) = EndOf(problem.orders[o])
          /\ \A u \in Trucks \ {t} :
                LastEnd(problem, after, u) = LastEnd(problem, main_solution, u)
      BY <1>1, <3>1, LastEndAppend DEF Trucks
    <3>3. main_solution' = after
      BY <2>2
    <3>4. QED BY <2>1, <3>2, <3>3
  <2>9. ReachOK'
    BY <1>3, <1>8, <2>7, <2>8 DEF ScheduleInv, ReachOK, DirectRoad, Trucks
  <2>10. QED BY <1>4, <1>5, <2>4, <2>5, <2>6, <2>9 DEF ScheduleInv
<1>11. QED BY <1>9, <1>10

\* Releasing a batch: trucks go back to where their plans took them.
LEMMA ReleaseKeepsSchedule ==
    ASSUME RegularInputs, TypeInv, TypeInv', WindowInv, ScheduleInv, ReleaseBatch
    PROVE  ScheduleInv'
<1>1. /\ UNCHANGED <<problem, main_solution>>
      /\ plan' = [t \in Trucks |-> <<>>]
      /\ merged' = [t \in Trucks |-> 0]
      /\ batch_orders' = {}
      /\ order_by_start_time' \subseteq order_by_start_time
      /\ \A t \in Trucks : trucks'[t] = IF t \in batch_trucks THEN Returned(t)
                                                              ELSE trucks[t]
  BY DEF ReleaseBatch, NoPlan, FilterSuffix
<1>2. CheckerAccepts' /\ NoOrderTwice' /\ ServedOK'
  BY <1>1 DEF ScheduleInv, CheckerAccepts, NoOrderTwice, ServedOK
<1>3. PlanOK' /\ PlanDistinct' /\ MergedOK'
  BY <1>1 DEF PlanOK, PlanDistinct, MergedOK, Trucks
<1>4. MasksKept'
  <2>1. ASSUME NEW t \in Trucks
        PROVE  /\ Returned(t).mask_load_type = trucks[t].mask_load_type
               /\ Returned(t).mask_trailer_type = trucks[t].mask_trailer_type
    <3>1. trucks[t] \in Truck
      BY DEF TypeInv, TypeOK
    <3>2. QED BY <3>1 DEF Returned, Truck
  <2>2. QED BY <1>1, <2>1 DEF ScheduleInv, MasksKept, Trucks
<1>5. ASSUME NEW t \in Trucks
      PROVE  DirectRoad(LastEnd(problem, main_solution, t), make_ffo(trucks'[t]))
  <2> DEFINE end == LastEnd(problem, main_solution, t)
  <2>1. DirectRoad(end, Here(t))
    BY DEF ScheduleInv, ReachOK
  <2>2. /\ plan[t] \in Seq(Order) /\ merged[t] \in Nat /\ trucks[t] \in Truck
        /\ merged[t] <= Len(plan[t])
    BY DEF TypeInv, TypeOK, ScheduleInv, MergedOK
  <2>3. CASE t \notin batch_trucks
    <3>1. DOMAIN plan[t] = {}
      BY <2>3 DEF ScheduleInv, PlanOK, LegOK
    <3>2. merged[t] = 0
      <4>1. DOMAIN plan[t] = 1 .. Len(plan[t]) /\ Len(plan[t]) \in Nat
        BY <2>2
      <4>2. 1 \notin 1 .. Len(plan[t])
        BY <3>1, <4>1
      <4>3. QED BY <2>2, <4>1, <4>2
    <3>3. QED BY <1>1, <2>1, <2>3, <3>2 DEF Here
  <2>4. CASE t \in batch_trucks /\ plan[t] = <<>>
    <3>1. merged[t] = 0
      BY <2>2, <2>4
    <3>2. Here(t) = make_ffo(trucks[t])
      BY <3>1 DEF Here
    <3>3. trucks'[t] = [trucks[t] EXCEPT !.init_time = cur_time_window]
      BY <1>1, <2>4 DEF Returned
    <3>4. trucks[t].init_time < cur_time_window
      BY <2>4 DEF WindowInv, BatchesOK
    <3>5. /\ make_ffo(trucks'[t]).to_city = trucks[t].init_city
          /\ make_ffo(trucks'[t]).finish_time = cur_time_window
          /\ Here(t).to_city = trucks[t].init_city
          /\ Here(t).finish_time = trucks[t].init_time
      BY <2>2, <3>2, <3>3 DEF make_ffo, Truck
    <3>6. /\ cur_time_window \in Nat /\ trucks[t].init_time \in Nat
          /\ end.finish_time \in Nat /\ end.to_city \in City
          /\ trucks[t].init_city \in City
      BY <2>2, Times, LastEndType DEF EndType, TypeInv, Truck
    <3>7. TravelTime(problem, end.to_city, trucks[t].init_city) \in Nat
      BY <2>1, <3>5, <3>6, TravelTimeNat, ProblemFacts DEF DirectRoad, TypeInv, TypeOK
    <3>8. QED BY <2>1, <3>4, <3>5, <3>6, <3>7 DEF DirectRoad
  <2>5. CASE t \in batch_trucks /\ plan[t] # <<>>
    <3> DEFINE leg == plan[t][Len(plan[t])]
    <3>1. merged[t] = Len(plan[t]) /\ merged[t] # 0
      BY <2>2, <2>5 DEF ReleaseBatch
    <3>2. Here(t) = [to_city |-> leg.to_city, finish_time |-> AfterTime(leg)]
      BY <3>1 DEF Here
    <3>3. trucks'[t] = [trucks[t] EXCEPT !.init_time = AfterTime(leg),
                                         !.init_city = leg.to_city]
      BY <1>1, <2>5 DEF Returned
    <3>4. make_ffo(trucks'[t]) = Here(t)
      BY <2>2, <3>2, <3>3 DEF make_ffo, Truck
    <3>5. QED BY <2>1, <3>4
  <2>6. QED BY <2>3, <2>4, <2>5
<1>6. ReachOK'
  BY <1>1, <1>5 DEF ReachOK, Here, DirectRoad, Trucks
<1>7. QED BY <1>2, <1>3, <1>4, <1>6 DEF ScheduleInv

\* Before anything is merged, no order of the batch is served.
LEMMA NothingServed ==
    ASSUME TypeInv, ScheduleInv, pc # "merge", NEW o \in batch_orders
    PROVE  o \notin Served(main_solution)
<1> SUFFICES ASSUME o \in Served(main_solution) PROVE FALSE
  OBVIOUS
<1>1. PICK t \in Trucks : \E i \in DOMAIN plan[t] : i <= merged[t]
  BY DEF ScheduleInv, ServedOK
<1>2. merged[t] = 0 /\ plan[t] \in Seq(Order)
  BY DEF ScheduleInv, MergedOK, TypeInv, TypeOK
<1>3. QED BY <1>1, <1>2

\* A step that leaves no plan and pulls at most pending orders.
LEMMA NoPlanKeepsSchedule ==
    ASSUME TypeInv, ScheduleInv, pc # "merge",
           UNCHANGED <<problem, trucks, merged, main_solution>>,
           \A t \in Trucks : plan'[t] = <<>>,
           order_by_start_time' \subseteq order_by_start_time,
           batch_orders' \subseteq batch_orders \cup order_by_start_time
    PROVE  ScheduleInv'
<1>1. \A t \in Trucks : merged[t] = 0
  BY DEF ScheduleInv, MergedOK
<1>2. CheckerAccepts' /\ NoOrderTwice' /\ MasksKept'
  BY DEF ScheduleInv, CheckerAccepts, NoOrderTwice, MasksKept, Trucks
<1>3. PlanOK' /\ PlanDistinct' /\ MergedOK'
  BY <1>1 DEF PlanOK, PlanDistinct, MergedOK, Trucks
<1>4. ServedOK'
  <2>1. \A o \in batch_orders \cup order_by_start_time : o \notin Served(main_solution)
    BY NothingServed DEF ScheduleInv, ServedOK
  <2>2. QED BY <2>1 DEF ServedOK
<1>5. ReachOK'
  BY <1>1 DEF ScheduleInv, ReachOK, Here, DirectRoad, Trucks
<1>6. QED BY <1>2, <1>3, <1>4, <1>5 DEF ScheduleInv

LEMMA InitSchedule == Init => ScheduleInv
<1> SUFFICES ASSUME Init PROVE ScheduleInv
  OBVIOUS
<1>1. /\ problem \in Problems /\ TypeOK
      /\ \A t \in Trucks : main_solution[t] = <<>> /\ merged[t] = 0 /\ plan[t] = <<>>
      /\ DOMAIN main_solution = Trucks
      /\ trucks = problem.trucks /\ batch_orders = {}
  BY InitType DEF Init, NoPlan, TypeInv
<1>2. Served(main_solution) = {}
  BY <1>1 DEF Served
<1>3. CheckerAccepts
  BY <1>1 DEF CheckerAccepts, Accepts, Trucks
<1>4. NoOrderTwice
  BY <1>1 DEF NoOrderTwice, NoRepeats
<1>5. PlanOK /\ PlanDistinct /\ MergedOK /\ MasksKept /\ ServedOK
  BY <1>1, <1>2 DEF PlanOK, PlanDistinct, MergedOK, MasksKept, ServedOK
<1>6. ReachOK
  <2> SUFFICES ASSUME NEW t \in Trucks
               PROVE  DirectRoad(make_ffo(trucks[t]), make_ffo(trucks[t]))
    BY <1>1 DEF ReachOK, Here, LastEnd
  <2>1. trucks[t] \in Truck
    BY <1>1 DEF TypeOK
  <2>2. /\ make_ffo(trucks[t]).to_city \in City
        /\ make_ffo(trucks[t]).finish_time \in Nat
    BY <2>1 DEF make_ffo, Truck
  <2>3. QED BY <1>1, <2>2, TravelTimeSame, ProblemFacts DEF DirectRoad
<1>7. QED BY <1>3, <1>4, <1>5, <1>6 DEF ScheduleInv

LEMMA NextSchedule ==
    ASSUME RegularInputs, TypeInv, TypeInv', WindowInv, ScheduleInv, [Next]_vars
    PROVE  ScheduleInv'
<1>1. ASSUME Finish \/ SkipWindow \/ FormBatch PROVE ScheduleInv'
  <2>1. /\ pc = "loop"
        /\ UNCHANGED <<problem, trucks, merged, main_solution, plan>>
        /\ order_by_start_time' \subseteq order_by_start_time
        /\ batch_orders' \subseteq batch_orders \cup order_by_start_time
    BY <1>1 DEF Finish, SkipWindow, FormBatch, Pull, PulledOrders
  <2>2. \A t \in Trucks : plan'[t] = <<>>
    BY <2>1 DEF ScheduleInv, MergedOK
  <2>3. QED BY <2>1, <2>2, NoPlanKeepsSchedule
<1>2. ASSUME NEW t \in batch_trucks, PickLeg(t) PROVE ScheduleInv'
  <2>1. PlanOK' /\ PlanDistinct'
    BY <1>2, PickKeepsPlan
  <2>2. /\ UNCHANGED <<problem, trucks, merged, main_solution, batch_orders,
                       order_by_start_time, pc>>
        /\ pc = "solve"
    BY <1>2 DEF PickLeg
  <2>3. CheckerAccepts' /\ NoOrderTwice' /\ MasksKept'
    BY <2>2 DEF ScheduleInv, CheckerAccepts, NoOrderTwice, MasksKept, Trucks
  <2>4. \A u \in Trucks : merged[u] = 0
    BY <2>2 DEF ScheduleInv, MergedOK
  <2>5. MergedOK'
    <3>1. ASSUME NEW u \in Trucks PROVE merged'[u] <= Len(plan'[u])
      <4>1. Len(plan'[u]) \in Nat
        BY <2>2 DEF TypeInv, TypeOK, Trucks
      <4>2. QED BY <2>2, <2>4, <4>1
    <3>2. QED BY <2>2, <2>4, <3>1 DEF MergedOK, Trucks
  <2>6. ServedOK'
    BY <2>2, NothingServed DEF ScheduleInv, ServedOK
  <2>7. ReachOK'
    BY <2>2, <2>4 DEF ScheduleInv, ReachOK, Here, DirectRoad, Trucks
  <2>8. QED BY <2>1, <2>3, <2>5, <2>6, <2>7 DEF ScheduleInv
<1>3. ASSUME SolverReturns \/ SolverAborts PROVE ScheduleInv'
  <2>1. /\ UNCHANGED <<problem, trucks, batch_trucks, batch_orders, merged,
                       main_solution, order_by_start_time, plan>>
        /\ pc = "solve" /\ pc' \in {"merge", "aborted"}
    BY <1>3 DEF SolverReturns, SolverAborts
  <2>2. CheckerAccepts' /\ NoOrderTwice' /\ MasksKept' /\ ServedOK' /\ PlanDistinct'
    BY <2>1 DEF ScheduleInv, CheckerAccepts, NoOrderTwice, MasksKept, ServedOK,
                PlanDistinct, Trucks
  <2>3. PlanOK'
    BY <2>1 DEF ScheduleInv, PlanOK, LegOK, PlanPrevious, FreeShape, RealLeg, IsFree,
                AfterTime, Trucks
  <2>4. MergedOK'
    BY <2>1 DEF ScheduleInv, MergedOK, Trucks
  <2>5. ReachOK'
    BY <2>1 DEF ScheduleInv, ReachOK, Here, DirectRoad, AfterTime, Trucks
  <2>6. QED BY <2>2, <2>3, <2>4, <2>5 DEF ScheduleInv
<1>4. ASSUME SolverFindsNothing PROVE ScheduleInv'
  <2>1. /\ pc = "solve"
        /\ UNCHANGED <<problem, trucks, merged, main_solution, batch_orders,
                       order_by_start_time>>
        /\ \A t \in Trucks : plan'[t] = <<>>
    BY <1>4 DEF SolverFindsNothing, NoPlan
  <2>2. QED BY <2>1, NoPlanKeepsSchedule
<1>5. ASSUME NEW t \in batch_trucks, MergeLeg(t) PROVE ScheduleInv'
  BY <1>5, MergeKeepsSchedule
<1>6. ASSUME ReleaseBatch PROVE ScheduleInv'
  BY <1>6, ReleaseKeepsSchedule
<1>7. ASSUME UNCHANGED vars PROVE ScheduleInv'
  <2>1. UNCHANGED <<problem, trucks, batch_trucks, batch_orders, merged, main_solution,
                    order_by_start_time, plan, pc>>
    BY <1>7 DEF vars
  <2>2. CheckerAccepts' /\ NoOrderTwice' /\ MasksKept' /\ ServedOK' /\ PlanDistinct'
    BY <2>1 DEF ScheduleInv, CheckerAccepts, NoOrderTwice, MasksKept, ServedOK,
                PlanDistinct, Trucks
  <2>3. PlanOK'
    BY <2>1 DEF ScheduleInv, PlanOK, LegOK, PlanPrevious, FreeShape, RealLeg, IsFree,
                AfterTime, Trucks
  <2>4. MergedOK'
    BY <2>1 DEF ScheduleInv, MergedOK, Trucks
  <2>5. ReachOK'
    BY <2>1 DEF ScheduleInv, ReachOK, Here, DirectRoad, AfterTime, Trucks
  <2>6. QED BY <2>2, <2>3, <2>4, <2>5 DEF ScheduleInv
<1>8. QED BY <1>1, <1>2, <1>3, <1>4, <1>5, <1>6, <1>7 DEF Next, Terminated

LEMMA ScheduleInvariance ==
    ASSUME RegularInputs
    PROVE  Spec => [](TypeInv /\ WindowInv /\ ScheduleInv)
<1>1. Init => TypeInv /\ WindowInv /\ ScheduleInv
  BY InitType, InitWindow, InitSchedule
<1>2. TypeInv /\ WindowInv /\ ScheduleInv /\ [Next]_vars
          => (TypeInv /\ WindowInv /\ ScheduleInv)'
  <2> SUFFICES ASSUME TypeInv, WindowInv, ScheduleInv, [Next]_vars
               PROVE  TypeInv' /\ WindowInv' /\ ScheduleInv'
    OBVIOUS
  <2>1. TypeInv'
    BY NextType
  <2>2. WindowInv'
    BY <2>1, NextWindowInv DEF TypeInv
  <2>3. QED BY <2>1, <2>2, NextSchedule
<1>3. QED BY <1>1, <1>2, PTL DEF Spec

\* With metric distances, forward orders and no orders that end where they began, the
\* checker accepts the solution at every moment of its construction: no window
\* boundary, free-movement order or release of a truck makes a schedule that the
\* truck cannot drive.
THEOREM SolutionAccepted ==
    ASSUME RegularInputs
    PROVE  Spec => []CheckerAccepts
<1>1. ScheduleInv => CheckerAccepts
  BY DEF ScheduleInv
<1>2. QED BY <1>1, ScheduleInvariance, PTL

\* No order is served twice, in one batch or in two.
THEOREM NeverTwice ==
    ASSUME RegularInputs
    PROVE  Spec => []NoOrderTwice
<1>1. ScheduleInv => NoOrderTwice
  BY DEF ScheduleInv
<1>2. QED BY <1>1, ScheduleInvariance, PTL

-----------------------------------------------------------------------------
(***************************************************************************)
(* Refinement: D is Dispatch with main_solution for its schedule.          *)
(***************************************************************************)
\* The operators that Dispatch gets from Checker and Fleet are those of here.
LEMMA SameOperators ==
    /\ D!Served(main_solution) = Served(main_solution)
    /\ \A t, order :
          D!MoveBetweenOrders(problem, problem.trucks[t],
                              D!LastEnd(problem, main_solution, t), order)
             <=> MoveBetweenOrders(problem, problem.trucks[t],
                                   LastEnd(problem, main_solution, t), order)
<1>1. D!Served(main_solution) = Served(main_solution)
  BY DEF D!Served, Served
<1>2. \A t : D!LastEnd(problem, main_solution, t) = LastEnd(problem, main_solution, t)
  BY DEF D!LastEnd, LastEnd, D!make_ffo, make_ffo, D!EndOf, EndOf
<1>3. ASSUME NEW truck, NEW previous, NEW order
      PROVE  D!MoveBetweenOrders(problem, truck, previous, order)
                <=> MoveBetweenOrders(problem, truck, previous, order)
  BY DEF D!MoveBetweenOrders, MoveBetweenOrders, D!IsExecutableBy, IsExecutableBy,
         D!CanReach, CanReach, D!HasRoad, HasRoad, D!TravelTime, TravelTime,
         D!GetDistance, GetDistance
<1>4. QED BY <1>1, <1>2, <1>3

\* Merging an order of the problem is Dispatch's step, every other step stutters.
LEMMA StepDispatches ==
    ASSUME RegularInputs, TypeInv, ScheduleInv, [Next]_vars
    PROVE  [D!Next]_(D!vars)
<1>1. ASSUME NEW t \in batch_trucks, MergeLeg(t), ~IsFree(plan[t][merged[t] + 1])
      PROVE  D!Next
  <2>1. t \in Trucks /\ merged[t] + 1 \in DOMAIN plan[t]
    BY <1>1 DEF MergeLeg, TypeInv, TypeOK
  <2>2. PICK id : id = plan[t][merged[t] + 1].order_id
    OBVIOUS
  <2>3. /\ id \in Orders
        /\ id \notin Served(main_solution)
        /\ MoveBetweenOrders(problem, problem.trucks[t],
                             LastEnd(problem, main_solution, t), problem.orders[id])
    BY <1>1, <2>1, <2>2, MergedOrder
  <2>4. /\ main_solution' = [main_solution EXCEPT ![t] = Append(@, id)]
        /\ UNCHANGED problem
    BY <1>1, <2>2 DEF MergeLeg
  <2>5. D!Serve(t, id)
    BY <2>3, <2>4, SameOperators DEF D!Serve
  <2>6. QED BY <2>1, <2>3, <2>5 DEF D!Next, Trucks, Orders
<1>2. ASSUME NEW t \in batch_trucks, MergeLeg(t), IsFree(plan[t][merged[t] + 1])
      PROVE  UNCHANGED D!vars
  BY <1>2 DEF MergeLeg, D!vars
<1>3. ASSUME NEW t \in batch_trucks, PickLeg(t) PROVE UNCHANGED D!vars
  BY <1>3 DEF PickLeg, D!vars
<1>4. ASSUME Finish \/ SkipWindow \/ FormBatch \/ SolverReturns \/ SolverFindsNothing
                \/ SolverAborts \/ ReleaseBatch \/ UNCHANGED vars
      PROVE  UNCHANGED D!vars
  BY <1>4 DEF Finish, SkipWindow, FormBatch, SolverReturns, SolverFindsNothing,
              SolverAborts, ReleaseBatch, vars, D!vars
<1>5. QED BY <1>1, <1>2, <1>3, <1>4 DEF Next, Terminated

\* Serving orders window by window, through batches, plans and free-movement
\* orders, is serving them one at a time by the checker's rules.
THEOREM BatchImplementsDispatch ==
    ASSUME RegularInputs
    PROVE  Spec => ImplementsDispatch
<1>1. Init => D!Init
  BY DEF Init, D!Init, Trucks
<1>2. TypeInv /\ WindowInv /\ ScheduleInv /\ [Next]_vars => [D!Next]_(D!vars)
  BY StepDispatches
<1>3. QED BY <1>1, <1>2, ScheduleInvariance, PTL DEF Spec, ImplementsDispatch, D!Spec

-----------------------------------------------------------------------------
(***************************************************************************)
(* The trucks: they go forward in time, and a truck that is sent elsewhere *)
(* is sent for a reason.  None of this takes metric distances.             *)
(***************************************************************************)
ForwardInputs == \A p \in Problems : ForwardOrders(p)

\* A leg of truck t begins when the truck is free, ends later, and is not one of
\* those left out for performance.
FromStart(t, leg) ==
    /\ trucks[t].init_time <= leg.start_time
    /\ leg.start_time < leg.finish_time
    /\ MinuteRoads(problem) /\ ~IsFree(leg) => ~Pruned(t, leg)

LegsForward ==
    ForwardOrders(problem) =>
        \A t \in Trucks : \A i \in DOMAIN plan[t] : FromStart(t, plan[t][i])

\* What a free-movement order is for: a pending order of the next window, in the
\* city where it takes the truck, that starts no earlier than the truck is there.
Purpose(t, leg, o) ==
    /\ o \in order_by_start_time
    /\ cur_time_window <= problem.orders[o].start_time
    /\ problem.orders[o].start_time < cur_time_window + problem.time_window
    /\ IsExecutableBy(trucks[t], problem.orders[o])
    /\ leg.to_city = problem.orders[o].from_city
    /\ AfterTime(leg) <= problem.orders[o].start_time

FreeLegsUseful ==
    \A t \in Trucks : \A i \in DOMAIN plan[t] :
        IsFree(plan[t][i]) => \E o \in Orders : Purpose(t, plan[t][i], o)

\* Plans are there from the batch to its release, for the trucks of the batch.
PlanPhases ==
    /\ pc = "loop" => \A t \in Trucks : plan[t] = <<>>
    /\ \A t \in Trucks : t \notin batch_trucks => plan[t] = <<>>
    /\ pc # "merge" => \A t \in Trucks : merged[t] = 0

TrucksInv == LegsForward /\ FreeLegsUseful /\ PlanPhases

\* Where a free-movement order comes from: the last order of its truck, a pending
\* order in the next window, and the time of the road between them.
LEMMA FreeEdgeOrigin ==
    ASSUME TypeInv, WindowInv, pc \in {"solve", "merge"},
           NEW t \in batch_trucks, NEW leg \in FreeEdges(t)
    PROVE  /\ leg.start_time < leg.finish_time
           /\ \E o \in Orders :
                 /\ Purpose(t, leg, o)
                 /\ \A u \in Trucks : IsExecutableBy(trucks[u], leg)
                       => IsExecutableBy(trucks[u], problem.orders[o])
           /\ leg.finish_time =
                 LET travel == TravelTime(problem, leg.from_city, leg.to_city)
                 IN IF travel = 0 THEN leg.start_time + 1 ELSE leg.start_time + travel
<1>1. PICK last \in LastOrders(t) :
        leg \in {FreeMovementEdge(t, last, problem.orders[o].from_city) : o \in
                   {o \in NextOrders :
                       MoveBetweenOrders(problem, trucks[t], last, problem.orders[o])}}
  BY DEF FreeEdges
<1>2. PICK o \in NextOrders :
        /\ MoveBetweenOrders(problem, trucks[t], last, problem.orders[o])
        /\ leg = FreeMovementEdge(t, last, problem.orders[o].from_city)
  BY <1>1
<1> DEFINE order == problem.orders[o]
           travel == TravelTime(problem, last.to_city, order.from_city)
<1>3. /\ problem \in Problems /\ IsProblem(problem)
      /\ t \in Trucks /\ t \in Nat /\ trucks[t] \in Truck
      /\ \A u \in Trucks : trucks[u] \in Truck
      /\ cur_time_window \in Nat /\ problem.time_window \in Nat
  BY ProblemFacts, Times DEF TypeInv, TypeOK
<1>4. /\ o \in order_by_start_time /\ o \in Orders
      /\ order.start_time < cur_time_window + problem.time_window
      /\ cur_time_window <= order.start_time
      /\ order \in Order
  BY ProblemFacts DEF NextOrders, WindowInv, PendingOK, TypeInv, TypeOK
<1>5. /\ last.to_city \in City /\ last.finish_time \in Nat
      /\ last.finish_time < cur_time_window
  <2>1. CASE last = make_ffo(trucks[t])
    BY <1>3, <2>1 DEF make_ffo, Truck, WindowInv, BatchesOK
  <2>2. CASE \E b \in batch_orders :
               /\ problem.orders[b].finish_time < cur_time_window
               /\ last = EndOf(problem.orders[b])
    BY <2>2, ProblemFacts DEF EndOf, Order, TypeInv, TypeOK
  <2>3. QED BY <2>1, <2>2 DEF LastOrders
<1>6. /\ HasRoad(problem, last.to_city, order.from_city)
      /\ last.finish_time + travel <= order.start_time
      /\ order.from_city \in City /\ order.start_time \in Nat
      /\ IsExecutableBy(trucks[t], order)
  BY <1>2, <1>4 DEF MoveBetweenOrders, CanReach, Order
<1>7. travel \in Nat
  BY <1>3, <1>5, <1>6, TravelTimeNat
<1>8. /\ leg.start_time = last.finish_time
      /\ leg.from_city = last.to_city /\ leg.to_city = order.from_city
      /\ leg.finish_time = IF travel = 0 THEN last.finish_time + 1
                                         ELSE last.finish_time + travel
      /\ leg.mask_load_type = trucks[t].mask_load_type \cup {LOAD_TYPE_COUNT + t}
      /\ leg.mask_trailer_type = trucks[t].mask_trailer_type
  BY <1>2 DEF FreeMovementEdge
<1>9. leg.start_time < leg.finish_time
  BY <1>5, <1>7, <1>8
<1>10. AfterTime(leg) <= order.start_time
  <2>1. CASE travel = 0
    <3>1. leg.finish_time = last.finish_time + 1
      BY <1>8, <2>1
    <3>2. last.finish_time + 1 <= order.start_time
      BY <1>3, <1>4, <1>5, <1>6
    <3>3. AfterTime(leg) = leg.finish_time \/ AfterTime(leg) = leg.finish_time - 1
      BY <1>5, <3>1 DEF AfterTime
    <3>4. QED BY <1>5, <1>6, <3>1, <3>2, <3>3
  <2>2. CASE travel # 0
    <3>1. leg.finish_time = last.finish_time + travel
      BY <1>8, <2>2
    <3>2. leg.from_city # leg.to_city
      BY <1>3, <1>8, <2>2, TravelTimeSame
    <3>3. QED BY <1>6, <3>1, <3>2 DEF AfterTime
  <2>3. QED BY <2>1, <2>2
<1>11. ASSUME NEW u \in Trucks, IsExecutableBy(trucks[u], leg)
       PROVE  IsExecutableBy(trucks[u], order)
  <2>1. /\ trucks[u].mask_load_type \subseteq trucks[t].mask_load_type
                                                  \cup {LOAD_TYPE_COUNT + t}
        /\ trucks[u].mask_trailer_type \subseteq trucks[t].mask_trailer_type
    BY <1>8, <1>11 DEF IsExecutableBy
  <2>2. trucks[u].mask_load_type \subseteq 0 .. 3
    BY <1>3 DEF Truck, LoadType, LOAD_TYPE_COUNT
  <2>3. LOAD_TYPE_COUNT + t \notin 0 .. 3
    <3>1. t # 0
      BY <1>3 DEF IsProblem, IsData, Trucks
    <3>2. QED BY <1>3, <3>1 DEF LOAD_TYPE_COUNT
  <2>4. trucks[u].mask_load_type \subseteq trucks[t].mask_load_type
    BY <2>1, <2>2, <2>3
  <2>5. QED BY <1>6, <2>1, <2>4 DEF IsExecutableBy
<1>12. Purpose(t, leg, o)
  BY <1>4, <1>6, <1>8, <1>10 DEF Purpose
<1>13. QED BY <1>4, <1>8, <1>9, <1>11, <1>12

\* A leg that the solver picks for truck t begins after the legs before it.
LEMMA PickedForward ==
    ASSUME TypeInv, WindowInv, TrucksInv, pc = "solve", ForwardOrders(problem),
           NEW t \in batch_trucks, NEW leg \in Legs,
           FlowLeg(t, leg) \/ ChainLeg(t, leg)
    PROVE  FromStart(t, leg)
<1>1. /\ leg \in Order
      /\ CanReach(problem, PlanEnd(t), leg)
      /\ IsFree(leg) \/ RealLeg(t, leg)
  BY PickedLeg
<1>2. /\ t \in Trucks /\ trucks[t] \in Truck /\ plan[t] \in Seq(Order)
      /\ problem \in Problems /\ IsProblem(problem)
  BY ProblemFacts DEF TypeInv, TypeOK
<1>3. leg.start_time \in Nat /\ leg.finish_time \in Nat /\ leg.from_city \in City
  BY <1>1 DEF Order
<1>4. leg.start_time < leg.finish_time
  <2>1. CASE RealLeg(t, leg)
    <3>1. leg.order_id \in Orders /\ leg = problem.orders[leg.order_id]
      BY <2>1 DEF RealLeg, TypeInv, TypeOK
    <3>2. QED BY <3>1 DEF ForwardOrders, Orders
  <2>2. CASE IsFree(leg)
    <3>1. PICK u \in batch_trucks : leg \in FreeEdges(u)
      BY <2>2, ProblemFacts DEF Legs, IsFree, TypeInv, TypeOK
    <3>2. QED BY <3>1, FreeEdgeOrigin
  <2>3. QED BY <1>1, <2>1, <2>2
<1>5. CASE plan[t] = <<>>
  <2>1. PlanEnd(t) = make_ffo(trucks[t])
    BY <1>5 DEF PlanEnd
  <2>2. /\ PlanEnd(t).to_city = trucks[t].init_city
        /\ PlanEnd(t).finish_time = trucks[t].init_time
        /\ trucks[t].init_city \in City /\ trucks[t].init_time \in Nat
    BY <1>2, <2>1 DEF make_ffo, Truck
  <2> DEFINE travel == TravelTime(problem, trucks[t].init_city, leg.from_city)
  <2>3. /\ HasRoad(problem, trucks[t].init_city, leg.from_city)
        /\ trucks[t].init_time + travel <= leg.start_time
    BY <1>1, <2>2 DEF CanReach
  <2>4. travel \in Nat
    BY <1>2, <1>3, <2>2, <2>3, TravelTimeNat
  <2>5. ASSUME MinuteRoads(problem), trucks[t].init_city # leg.from_city
        PROVE  travel >= 1
    <3>1. <<trucks[t].init_city, leg.from_city>> \in DOMAIN problem.dists
      BY <2>3, <2>5 DEF HasRoad
    <3>2. QED BY <2>5, <3>1 DEF MinuteRoads
  <2>6. trucks[t].init_time <= leg.start_time
    BY <1>3, <2>2, <2>3, <2>4
  <2>7. MinuteRoads(problem) => ~Pruned(t, leg)
    <3> SUFFICES ASSUME MinuteRoads(problem), trucks[t].init_city # leg.from_city
                 PROVE  ~(trucks[t].init_time >= leg.start_time)
      BY DEF Pruned
    <3>1. travel >= 1
      BY <2>5
    <3> HIDE DEF travel
    <3>2. QED BY <1>3, <2>2, <2>3, <2>4, <3>1
  <2>8. QED BY <1>4, <2>6, <2>7 DEF FromStart
<1>6. CASE plan[t] # <<>>
  <2> DEFINE last == plan[t][Len(plan[t])]
  <2>1. Len(plan[t]) \in DOMAIN plan[t] /\ last \in Order
    BY <1>2, <1>6
  <2>2. trucks[t].init_time <= last.start_time /\ last.start_time < last.finish_time
    BY <1>2, <2>1 DEF TrucksInv, LegsForward, FromStart
  <2>3. PlanEnd(t).to_city = last.to_city /\ PlanEnd(t).finish_time = last.finish_time
    BY <1>6 DEF PlanEnd, EndOf
  <2>4. /\ last.to_city \in City /\ last.finish_time \in Nat /\ last.start_time \in Nat
        /\ trucks[t].init_time \in Nat
    BY <1>2, <2>1 DEF Order, Truck
  <2> DEFINE travel == TravelTime(problem, last.to_city, leg.from_city)
  <2>5. /\ HasRoad(problem, last.to_city, leg.from_city)
        /\ last.finish_time + travel <= leg.start_time
    BY <1>1, <2>3 DEF CanReach
  <2>6. travel \in Nat
    BY <1>2, <1>3, <2>4, <2>5, TravelTimeNat
  <2>7. trucks[t].init_time < leg.start_time
    <3> HIDE DEF travel, last
    <3>1. QED BY <1>3, <2>2, <2>4, <2>5, <2>6
  <2>8. ~Pruned(t, leg) /\ trucks[t].init_time <= leg.start_time
    BY <1>3, <2>4, <2>7 DEF Pruned
  <2>9. QED BY <1>4, <2>8 DEF FromStart
<1>7. QED BY <1>5, <1>6

\* A free-movement order that the solver picks for truck t serves a purpose for
\* it, whichever truck it was made for.
LEMMA PickedUseful ==
    ASSUME TypeInv, WindowInv, pc = "solve",
           NEW t \in batch_trucks, NEW leg \in Legs, IsFree(leg),
           FlowLeg(t, leg) \/ ChainLeg(t, leg)
    PROVE  \E o \in Orders : Purpose(t, leg, o)
<1>1. PICK u \in batch_trucks : leg \in FreeEdges(u)
  BY ProblemFacts DEF Legs, IsFree, TypeInv, TypeOK
<1>2. t \in Trucks
  BY DEF TypeInv, TypeOK
<1>3. CASE FlowLeg(t, leg)
  <2>1. IsExecutableBy(trucks[t], leg)
    BY <1>3 DEF FlowLeg, MoveBetweenOrders
  <2>2. PICK o \in Orders :
          Purpose(u, leg, o) /\ IsExecutableBy(trucks[t], problem.orders[o])
    BY <1>1, <1>2, <2>1, FreeEdgeOrigin
  <2>3. QED BY <2>2 DEF Purpose
<1>4. CASE ChainLeg(t, leg)
  <2>1. PICK edge \in FreeEdges(t) : Key(edge) = Key(leg)
    BY <1>4 DEF ChainLeg
  <2>2. /\ edge.from_city = leg.from_city /\ edge.to_city = leg.to_city
        /\ edge.start_time = leg.start_time
    BY <2>1 DEF Key
  <2>3. edge.finish_time = leg.finish_time
    BY <1>1, <2>1, <2>2, FreeEdgeOrigin
  <2>4. AfterTime(edge) = AfterTime(leg)
    BY <2>2, <2>3 DEF AfterTime
  <2>5. PICK o \in Orders : Purpose(t, edge, o)
    BY <2>1, FreeEdgeOrigin
  <2>6. QED BY <2>2, <2>4, <2>5 DEF Purpose
<1>5. QED BY <1>3, <1>4

LEMMA InitTrucks == Init => TrucksInv
<1> SUFFICES ASSUME Init PROVE TrucksInv
  OBVIOUS
<1>1. \A t \in Trucks : plan[t] = <<>> /\ merged[t] = 0
  BY DEF Init, NoPlan
<1>2. QED BY <1>1 DEF TrucksInv, LegsForward, FreeLegsUseful, PlanPhases

\* A step that changes no plan, and nothing that a plan depends on.
LEMMA SamePlanTrucks ==
    ASSUME TrucksInv,
           UNCHANGED <<problem, trucks, plan>>,
           \/ pc = "loop"
           \/ UNCHANGED <<order_by_start_time, cur_time_window>>
    PROVE  LegsForward' /\ FreeLegsUseful'
<1>1. LegsForward'
  BY DEF TrucksInv, LegsForward, FromStart, IsFree, Pruned, Trucks
<1>2. CASE pc = "loop"
  BY <1>1, <1>2 DEF TrucksInv, PlanPhases, FreeLegsUseful, Trucks
<1>3. CASE UNCHANGED <<order_by_start_time, cur_time_window>>
  BY <1>1, <1>3 DEF TrucksInv, FreeLegsUseful, Purpose, IsFree, AfterTime, Trucks, Orders
<1>4. QED BY <1>1, <1>2, <1>3

LEMMA PickKeepsTrucks ==
    ASSUME TypeInv, WindowInv, TrucksInv, NEW t \in batch_trucks, PickLeg(t)
    PROVE  TrucksInv'
<1>1. PICK leg \in Legs :
        /\ FlowLeg(t, leg) \/ ChainLeg(t, leg)
        /\ plan' = [plan EXCEPT ![t] = Append(@, leg)]
  BY DEF PickLeg
<1>2. /\ t \in Trucks
      /\ \A u \in Trucks : plan[u] \in Seq(Order)
      /\ plan \in [Trucks -> Seq(Order)]
      /\ leg \in Order
  BY LegType DEF TypeInv, TypeOK
<1>3. \A u \in Trucks : \A i \in DOMAIN plan'[u] :
         \/ i \in DOMAIN plan[u] /\ plan'[u][i] = plan[u][i]
         \/ u = t /\ plan'[u][i] = leg
  BY <1>1, <1>2
<1>4. /\ UNCHANGED <<problem, trucks, batch_trucks, order_by_start_time,
                     cur_time_window, merged, pc>>
      /\ pc = "solve"
  BY DEF PickLeg
<1>5. LegsForward'
  <2> SUFFICES ASSUME ForwardOrders(problem),
                      NEW u \in Trucks, NEW i \in DOMAIN plan'[u]
               PROVE  FromStart(u, plan'[u][i])
    BY <1>4 DEF LegsForward, FromStart, IsFree, Pruned, Trucks
  <2>1. FromStart(t, leg)
    BY <1>1, <1>4, PickedForward
  <2>2. QED BY <1>3, <2>1 DEF TrucksInv, LegsForward
<1>6. FreeLegsUseful'
  <2> SUFFICES ASSUME NEW u \in Trucks, NEW i \in DOMAIN plan'[u], IsFree(plan'[u][i])
               PROVE  \E o \in Orders : Purpose(u, plan'[u][i], o)
    BY <1>4 DEF FreeLegsUseful, Purpose, IsFree, AfterTime, Trucks, Orders
  <2>1. CASE i \in DOMAIN plan[u] /\ plan'[u][i] = plan[u][i]
    BY <2>1 DEF TrucksInv, FreeLegsUseful
  <2>2. CASE u = t /\ plan'[u][i] = leg
    BY <1>1, <1>4, <2>2, PickedUseful
  <2>3. QED BY <1>3, <2>1, <2>2
<1>7. PlanPhases'
  BY <1>1, <1>4 DEF TrucksInv, PlanPhases, Trucks
<1>8. QED BY <1>5, <1>6, <1>7 DEF TrucksInv

LEMMA NextTrucks == TypeInv /\ WindowInv /\ TrucksInv /\ [Next]_vars => TrucksInv'
<1> SUFFICES ASSUME TypeInv, WindowInv, TrucksInv, [Next]_vars PROVE TrucksInv'
  OBVIOUS
<1>1. ASSUME Finish \/ SkipWindow \/ FormBatch PROVE TrucksInv'
  <2>1. UNCHANGED <<problem, trucks, plan, merged>> /\ pc = "loop"
    BY <1>1 DEF Finish, SkipWindow, FormBatch
  <2>2. PlanPhases'
    <3>1. pc' # "merge"
      BY <1>1 DEF Finish, SkipWindow, FormBatch
    <3>2. QED BY <2>1, <3>1 DEF TrucksInv, PlanPhases, Trucks
  <2>3. QED BY <2>1, <2>2, SamePlanTrucks DEF TrucksInv
<1>2. ASSUME NEW t \in batch_trucks, PickLeg(t) PROVE TrucksInv'
  BY <1>2, PickKeepsTrucks
<1>3. ASSUME SolverReturns \/ SolverAborts PROVE TrucksInv'
  <2>1. /\ UNCHANGED <<problem, trucks, plan, merged, batch_trucks,
                       order_by_start_time, cur_time_window>>
        /\ pc = "solve" /\ pc' # "loop"
    BY <1>3 DEF SolverReturns, SolverAborts
  <2>2. PlanPhases'
    BY <2>1 DEF TrucksInv, PlanPhases, Trucks
  <2>3. QED BY <2>1, <2>2, SamePlanTrucks DEF TrucksInv
<1>4. ASSUME SolverFindsNothing PROVE TrucksInv'
  <2>1. UNCHANGED <<problem, merged>> /\ \A t \in Trucks : plan'[t] = <<>> /\ pc = "solve"
    BY <1>4 DEF SolverFindsNothing, NoPlan
  <2>2. QED BY <2>1 DEF TrucksInv, LegsForward, FreeLegsUseful, PlanPhases, Trucks
<1>5. ASSUME NEW t \in batch_trucks, MergeLeg(t) PROVE TrucksInv'
  <2>1. /\ UNCHANGED <<problem, trucks, plan, batch_trucks,
                       order_by_start_time, cur_time_window, pc>>
        /\ pc = "merge"
    BY <1>5 DEF MergeLeg
  <2>2. PlanPhases'
    BY <2>1 DEF TrucksInv, PlanPhases, Trucks
  <2>3. QED BY <2>1, <2>2, SamePlanTrucks DEF TrucksInv
<1>6. ASSUME ReleaseBatch PROVE TrucksInv'
  <2>1. problem' = problem /\ \A t \in Trucks : plan'[t] = <<>> /\ merged'[t] = 0
    BY <1>6 DEF ReleaseBatch, NoPlan
  <2>2. QED BY <2>1 DEF TrucksInv, LegsForward, FreeLegsUseful, PlanPhases, Trucks
<1>7. ASSUME UNCHANGED vars PROVE TrucksInv'
  <2>1. UNCHANGED <<problem, trucks, plan, merged, batch_trucks,
                    order_by_start_time, cur_time_window, pc>>
    BY <1>7 DEF vars
  <2>2. PlanPhases'
    BY <2>1 DEF TrucksInv, PlanPhases, Trucks
  <2>3. QED BY <2>1, <2>2, SamePlanTrucks DEF TrucksInv
<1>8. QED BY <1>1, <1>2, <1>3, <1>4, <1>5, <1>6, <1>7 DEF Next, Terminated

LEMMA TrucksInvariance == Spec => [](TypeInv /\ WindowInv /\ TrucksInv)
<1>1. Init => TypeInv /\ WindowInv /\ TrucksInv
  BY InitType, InitWindow, InitTrucks
<1>2. TypeInv /\ WindowInv /\ TrucksInv /\ [Next]_vars
          => (TypeInv /\ WindowInv /\ TrucksInv)'
  <2> SUFFICES ASSUME TypeInv, WindowInv, TrucksInv, [Next]_vars
               PROVE  TypeInv' /\ WindowInv' /\ TrucksInv'
    OBVIOUS
  <2>1. TypeInv'
    BY NextType
  <2>2. WindowInv'
    BY <2>1, NextWindowInv DEF TypeInv
  <2>3. QED BY <2>1, <2>2, NextTrucks
<1>3. QED BY <1>1, <1>2, PTL DEF Spec

\* For all inputs: the pairs of truck and order that are left out of the weights
\* "for performance" are in no plan, wherever roads take a minute or more and
\* orders end after they start.
THEOREM PruningHarmless == Spec => []PrunedPairsUnused
<1>1. TrucksInv => PrunedPairsUnused
  BY DEF TrucksInv, LegsForward, FromStart, PrunedPairsUnused
<1>2. QED BY <1>1, TrucksInvariance, PTL

\* The end of the last leg, when its truck goes back to the pool.
LEMMA ReleasedTruck ==
    ASSUME TypeInv, ReleaseBatch, NEW t \in batch_trucks, plan[t] # <<>>
    PROVE  LET leg == plan[t][Len(plan[t])]
           IN  /\ t \in Trucks /\ Len(plan[t]) \in DOMAIN plan[t] /\ leg \in Order
               /\ trucks'[t] = [trucks[t] EXCEPT !.init_time = AfterTime(leg),
                                                 !.init_city = leg.to_city]
               /\ trucks'[t].init_time = AfterTime(leg)
               /\ trucks'[t].init_city = leg.to_city
<1>1. t \in Trucks /\ trucks[t] \in Truck /\ plan[t] \in Seq(Order)
  BY DEF TypeInv, TypeOK
<1>2. Len(plan[t]) \in DOMAIN plan[t] /\ plan[t][Len(plan[t])] \in Order
  BY <1>1
<1>3. trucks'[t] = Returned(t)
  BY <1>1 DEF ReleaseBatch
<1>4. QED BY <1>1, <1>2, <1>3 DEF Returned, Truck

LEMMA TrucksGoForward ==
    ASSUME ForwardInputs, TypeInv, WindowInv, TrucksInv, [Next]_vars
    PROVE  \A t \in Trucks : trucks'[t].init_time >= trucks[t].init_time
<1> SUFFICES ASSUME NEW t \in Trucks
             PROVE  trucks'[t].init_time >= trucks[t].init_time
  OBVIOUS
<1>1. trucks[t] \in Truck /\ trucks[t].init_time \in Nat /\ cur_time_window \in Nat
  BY Times DEF TypeInv, TypeOK
<1>2. CASE trucks' = trucks
  BY <1>1, <1>2
<1>3. CASE ReleaseBatch
  <2>1. CASE t \notin batch_trucks
    <3>1. trucks'[t] = trucks[t]
      BY <1>3, <2>1 DEF ReleaseBatch
    <3>2. QED BY <1>1, <3>1
  <2>2. CASE t \in batch_trucks /\ plan[t] = <<>>
    <3>1. trucks'[t] = [trucks[t] EXCEPT !.init_time = cur_time_window]
      BY <1>3, <2>2 DEF ReleaseBatch, Returned
    <3>2. trucks[t].init_time < cur_time_window
      BY <2>2 DEF WindowInv, BatchesOK
    <3>3. trucks'[t].init_time = cur_time_window
      BY <1>1, <3>1 DEF Truck
    <3>4. QED BY <1>1, <3>2, <3>3
  <2>3. CASE t \in batch_trucks /\ plan[t] # <<>>
    <3> DEFINE leg == plan[t][Len(plan[t])]
    <3>1. /\ trucks'[t].init_time = AfterTime(leg)
          /\ Len(plan[t]) \in DOMAIN plan[t] /\ leg \in Order
      BY <1>3, <2>3, ReleasedTruck
    <3>2. trucks[t].init_time <= leg.start_time /\ leg.start_time < leg.finish_time
      BY <3>1 DEF ForwardInputs, TrucksInv, LegsForward, FromStart, TypeInv, TypeOK
    <3>3. leg.start_time \in Nat /\ leg.finish_time \in Nat
      BY <3>1 DEF Order
    <3>4. AfterTime(leg) = leg.finish_time \/ AfterTime(leg) = leg.finish_time - 1
      BY <3>2, <3>3 DEF AfterTime
    <3> HIDE DEF leg
    <3>5. QED BY <1>1, <3>1, <3>2, <3>3, <3>4
  <2>4. QED BY <2>1, <2>2, <2>3
<1>4. QED BY <1>2, <1>3 DEF Next, Finish, SkipWindow, FormBatch, PickLeg, SolverReturns,
        SolverFindsNothing, SolverAborts, MergeLeg, Terminated, vars

\* For orders that end after they start, no step takes a truck back in time, also
\* where orders end in the city in which they begin.
THEOREM NeverBack ==
    ASSUME ForwardInputs
    PROVE  Spec => TrucksNeverGoBack
<1>1. TypeInv /\ WindowInv /\ TrucksInv /\ [Next]_vars
          => [\A t \in Trucks : trucks'[t].init_time >= trucks[t].init_time]_vars
  BY TrucksGoForward
<1>2. QED BY <1>1, TrucksInvariance, PTL DEF Spec, TrucksNeverGoBack

LEMMA ReleaseUseful ==
    ASSUME TypeInv, WindowInv, TrucksInv, ReleaseBatch,
           NEW t \in batch_trucks, plan[t] # <<>>, IsFree(plan[t][Len(plan[t])])
    PROVE  \E o \in order_by_start_time' :
              /\ problem.orders[o].start_time < cur_time_window'
              /\ MoveBetweenOrders(problem, trucks'[t], make_ffo(trucks'[t]),
                                   problem.orders[o])
<1> DEFINE leg == plan[t][Len(plan[t])]
<1>1. /\ t \in Trucks /\ Len(plan[t]) \in DOMAIN plan[t] /\ leg \in Order
      /\ trucks'[t] = [trucks[t] EXCEPT !.init_time = AfterTime(leg),
                                        !.init_city = leg.to_city]
      /\ trucks'[t].init_time = AfterTime(leg)
      /\ trucks'[t].init_city = leg.to_city
  BY ReleasedTruck
<1>2. PICK o \in Orders : Purpose(t, leg, o)
  BY <1>1 DEF TrucksInv, FreeLegsUseful
<1> DEFINE order == problem.orders[o]
<1>3. /\ problem \in Problems /\ IsProblem(problem) /\ trucks[t] \in Truck
      /\ order.start_time \in Nat
  BY ProblemFacts, Times DEF TypeInv, TypeOK
<1>4. cur_time_window' = cur_time_window + problem.time_window
  BY <1>2, NoWrap DEF ReleaseBatch, Purpose, TypeInv
<1>5. o \in order_by_start_time'
  <2>1. t \in trucks_by_init_time'
    BY DEF ReleaseBatch
  <2>2. trucks'[t].init_time <= order.start_time
    BY <1>1, <1>2 DEF Purpose
  <2>3. QED BY <1>2, <2>1, <2>2 DEF ReleaseBatch, FilterSuffix, Purpose
<1>6. IsExecutableBy(trucks'[t], order)
  BY <1>1, <1>2, <1>3 DEF Purpose, IsExecutableBy, Truck
<1>7. CanReach(problem, make_ffo(trucks'[t]), order)
  <2>1. /\ make_ffo(trucks'[t]).to_city = order.from_city
        /\ make_ffo(trucks'[t]).finish_time = AfterTime(leg)
        /\ AfterTime(leg) <= order.start_time
    BY <1>1, <1>2 DEF make_ffo, Purpose
  <2>2. /\ HasRoad(problem, order.from_city, order.from_city)
        /\ TravelTime(problem, order.from_city, order.from_city) = 0
    BY <1>3, TravelTimeSame
  <2>3. AfterTime(leg) \in Nat
    BY <1>1, UIntRangeAssumption DEF AfterTime, Order
  <2>4. QED BY <1>3, <2>1, <2>2, <2>3 DEF CanReach
<1>8. problem.orders[o].start_time < cur_time_window'
  BY <1>2, <1>4 DEF Purpose
<1>9. QED BY <1>5, <1>6, <1>7, <1>8 DEF MoveBetweenOrders

\* For all inputs: a truck that has been sent away by a free-movement order is in
\* time for a pending order of the next window there, also when the order was made
\* for another truck, and the filter of pending orders does not drop it.
THEOREM Repositioned == Spec => RepositionUseful
<1>1. TypeInv /\ WindowInv /\ TrucksInv /\ [Next]_vars =>
        [pc = "merge" /\ pc' = "loop" =>
            \A t \in batch_trucks :
                plan[t] # <<>> /\ IsFree(plan[t][Len(plan[t])]) =>
                    \E o \in order_by_start_time' :
                        /\ problem.orders[o].start_time < cur_time_window'
                        /\ MoveBetweenOrders(problem, trucks'[t], make_ffo(trucks'[t]),
                                             problem.orders[o])]_vars
  <2> SUFFICES ASSUME TypeInv, WindowInv, TrucksInv, [Next]_vars,
                      pc = "merge", pc' = "loop",
                      NEW t \in batch_trucks, plan[t] # <<>>,
                      IsFree(plan[t][Len(plan[t])])
               PROVE  \E o \in order_by_start_time' :
                         /\ problem.orders[o].start_time < cur_time_window'
                         /\ MoveBetweenOrders(problem, trucks'[t], make_ffo(trucks'[t]),
                                              problem.orders[o])
    OBVIOUS
  <2>1. ReleaseBatch
    BY DEF Next, Finish, SkipWindow, FormBatch, PickLeg, SolverReturns,
           SolverFindsNothing, SolverAborts, MergeLeg, Terminated, vars
  <2>2. QED BY <2>1, ReleaseUseful
<1>2. QED BY <1>1, TrucksInvariance, PTL DEF Spec, RepositionUseful

-----------------------------------------------------------------------------
(***************************************************************************)
(* Obligation orders.  An order goes from the pending orders to the batch, *)
(* from there to the plan and to the solution; it leaves that way only if  *)
(* its batch has no solution, or if no truck can be in time any more.      *)
(***************************************************************************)
\* The legs merged so far are served.
MergedServed ==
    \A t \in Trucks : \A i \in DOMAIN plan[t] :
        i <= merged[t] /\ ~IsFree(plan[t][i])
            => plan[t][i].order_id \in Served(main_solution)

\* A plan to be merged has the obligation orders of its batch.
ObligationsPlanned ==
    FlowModel /\ pc = "merge" => Obligations \subseteq Planned \cup unsolved

KeptInv == ObligationKept /\ MergedServed /\ ObligationsPlanned

LEMMA InitKept == Init => KeptInv
<1> SUFFICES ASSUME Init PROVE KeptInv
  OBVIOUS
<1>1. TypeInv
  BY InitType
<1>2. \A t \in Trucks : plan[t] = <<>>
  BY DEF Init, NoPlan
<1>3. MergedServed /\ ObligationsPlanned
  BY <1>2 DEF Init, MergedServed, ObligationsPlanned
<1>4. ASSUME NEW o \in Orders, o \notin order_by_start_time, NEW t \in Trucks
      PROVE  trucks[t].init_time > problem.orders[o].start_time
  <2>1. ~(trucks[t].init_time <= problem.orders[o].start_time)
    BY <1>4 DEF Init, FilterSuffix
  <2>2. problem.orders[o].start_time \in Nat /\ trucks[t].init_time \in Nat
    BY <1>1, Times DEF TypeInv
  <2>3. QED BY <2>1, <2>2
<1>5. ObligationKept
  BY <1>4 DEF ObligationKept
<1>6. QED BY <1>3, <1>5 DEF KeptInv

\* Merging a leg takes it into the solution and takes nothing out of it.
LEMMA MergeKeepsKept ==
    ASSUME TypeInv, KeptInv, NEW t \in batch_trucks, MergeLeg(t)
    PROVE  KeptInv'
<1> DEFINE k == merged[t] + 1
           leg == plan[t][k]
<1>1. /\ t \in Trucks /\ merged \in [Trucks -> Nat] /\ plan[t] \in Seq(Order)
      /\ main_solution \in Solution(problem) /\ k \in DOMAIN plan[t]
  BY DEF MergeLeg, TypeInv, TypeOK
<1>2. /\ UNCHANGED <<problem, trucks, plan, order_by_start_time, batch_orders,
                     unsolved, pc>>
      /\ merged' = [merged EXCEPT ![t] = k]
  BY DEF MergeLeg
<1>3. /\ Served(main_solution) \subseteq Served(main_solution')
      /\ ~IsFree(leg) => leg.order_id \in Served(main_solution')
  <2>1. CASE IsFree(leg)
    BY <2>1 DEF MergeLeg
  <2>2. CASE ~IsFree(leg)
    <3>1. PICK id : id = leg.order_id
      OBVIOUS
    <3>2. id \in Orders /\ main_solution' = [main_solution EXCEPT ![t] = Append(@, id)]
      BY <1>1, <2>2, <3>1 DEF MergeLeg, TypeInv, PlanIds, IsFree
    <3>3. \A x : x \in Served(main_solution') <=> x \in Served(main_solution) \/ x = id
      BY <1>1, <3>2, ServedAppend DEF Trucks, Orders
    <3>4. QED BY <3>1, <3>3
  <2>3. QED BY <2>1, <2>2
<1>4. ObligationKept'
  BY <1>2, <1>3 DEF KeptInv, ObligationKept, FlowModel, Orders, Trucks
<1>5. MergedServed'
  <2> SUFFICES ASSUME NEW u \in Trucks, NEW i \in DOMAIN plan[u],
                      i <= merged'[u], ~IsFree(plan[u][i])
               PROVE  plan[u][i].order_id \in Served(main_solution')
    BY <1>2 DEF MergedServed, IsFree, Trucks
  <2>1. CASE i <= merged[u]
    BY <1>3, <2>1 DEF KeptInv, MergedServed
  <2>2. CASE ~(i <= merged[u])
    <3>1. u = t /\ merged'[u] = k
      BY <1>1, <1>2, <2>2
    <3>2. i \in Nat /\ merged[t] \in Nat
      BY <1>1, <3>1
    <3>3. i = k
      BY <2>2, <3>1, <3>2
    <3>4. QED BY <1>3, <3>1, <3>3
  <2>3. QED BY <2>1, <2>2
<1>6. ObligationsPlanned'
  BY <1>2 DEF KeptInv, ObligationsPlanned, FlowModel, Obligations, Planned, Trucks
<1>7. QED BY <1>4, <1>5, <1>6 DEF KeptInv

\* Releasing a batch: what it was obliged to serve is served, and the pending
\* orders that are dropped start before every truck is free.
LEMMA ReleaseKeepsKept ==
    ASSUME ForwardInputs, TypeInv, TypeInv', WindowInv, TrucksInv, KeptInv, ReleaseBatch
    PROVE  KeptInv'
<1>1. /\ UNCHANGED <<problem, main_solution, unsolved>>
      /\ pc = "merge" /\ pc' = "loop"
      /\ \A t \in Trucks : plan'[t] = <<>>
      /\ batch_orders' = {}
  BY DEF ReleaseBatch, NoPlan
<1>2. MergedServed' /\ ObligationsPlanned'
  BY <1>1 DEF MergedServed, ObligationsPlanned, Trucks
<1>3. ASSUME FlowModel, NEW o \in batch_orders, problem.orders[o].obligation
      PROVE  o \in Served(main_solution) \cup unsolved
  <2> SUFFICES ASSUME o \notin unsolved PROVE o \in Served(main_solution)
    OBVIOUS
  <2>1. o \in Planned
    BY <1>1, <1>3 DEF KeptInv, ObligationsPlanned, Obligations
  <2>2. PICK t \in Trucks : \E i \in DOMAIN plan[t] : plan[t][i].order_id = o
    BY <2>1 DEF Planned
  <2>3. PICK i \in DOMAIN plan[t] : plan[t][i].order_id = o
    BY <2>2
  <2>4. plan[t] \in Seq(Order) /\ o # 0
    BY ProblemFacts DEF TypeInv, TypeOK
  <2>5. t \in batch_trucks
    BY <2>3, <2>4 DEF TrucksInv, PlanPhases
  <2>6. i <= merged[t]
    BY <2>3, <2>4, <2>5 DEF ReleaseBatch
  <2>7. QED BY <2>3, <2>4, <2>6 DEF KeptInv, MergedServed, IsFree
<1>4. ASSUME NEW o \in order_by_start_time, o \notin order_by_start_time',
             NEW t \in Trucks
      PROVE  trucks'[t].init_time > problem.orders[o].start_time
  <2>1. trucks_by_init_time' = Trucks
    BY DEF ReleaseBatch, WindowInv, BatchesOK
  <2>2. ~(trucks'[t].init_time <= problem.orders[o].start_time)
    BY <1>4, <2>1 DEF ReleaseBatch, FilterSuffix
  <2>3. problem.orders[o].start_time \in Nat /\ trucks'[t].init_time \in Nat
    <3>1. trucks'[t] \in Truck
      BY <1>1 DEF TypeInv, TypeOK, Trucks
    <3>2. QED BY <3>1, Times DEF TypeInv, TypeOK, Truck
  <2>4. QED BY <2>2, <2>3
<1>5. ObligationKept'
  <2> SUFFICES ASSUME FlowModel, NEW o \in Orders, problem.orders[o].obligation
               PROVE  \/ o \in Served(main_solution) \cup order_by_start_time'
                                  \cup unsolved
                      \/ \A t \in Trucks :
                            trucks'[t].init_time > problem.orders[o].start_time
    BY <1>1 DEF ObligationKept, FlowModel, Orders, Trucks
  <2>1. CASE o \in Served(main_solution) \cup unsolved
    BY <2>1
  <2>2. CASE o \in order_by_start_time
    BY <1>4, <2>2
  <2>3. CASE o \in batch_orders
    BY <1>3, <2>3
  <2>4. CASE \A t \in Trucks : trucks[t].init_time > problem.orders[o].start_time
    <3> SUFFICES ASSUME NEW t \in Trucks
                 PROVE  trucks'[t].init_time > problem.orders[o].start_time
      OBVIOUS
    <3>1. trucks'[t].init_time >= trucks[t].init_time
      BY TrucksGoForward DEF Next
    <3>2. trucks'[t] \in Truck
      BY <1>1 DEF TypeInv, TypeOK, Trucks
    <3>3. /\ problem.orders[o].start_time \in Nat /\ trucks[t].init_time \in Nat
          /\ trucks'[t].init_time \in Nat
      BY <3>2, Times DEF TypeInv, TypeOK, Truck
    <3>4. QED BY <2>4, <3>1, <3>3
  <2>5. QED BY <2>1, <2>2, <2>3, <2>4 DEF KeptInv, ObligationKept
<1>6. QED BY <1>2, <1>5 DEF KeptInv

LEMMA NextKept ==
    ASSUME ForwardInputs, TypeInv, TypeInv', WindowInv, TrucksInv, KeptInv, [Next]_vars
    PROVE  KeptInv'
<1>1. ASSUME Finish \/ SkipWindow \/ FormBatch PROVE KeptInv'
  <2>1. /\ UNCHANGED <<problem, trucks, plan, main_solution, unsolved>>
        /\ pc = "loop" /\ pc' # "merge"
        /\ order_by_start_time \cup batch_orders
              \subseteq order_by_start_time' \cup batch_orders'
    BY <1>1 DEF Finish, SkipWindow, FormBatch, Pull
  <2>2. MergedServed'
    BY <2>1 DEF TrucksInv, PlanPhases, MergedServed, Trucks
  <2>3. ObligationKept'
    BY <2>1 DEF KeptInv, ObligationKept, FlowModel, Orders, Trucks
  <2>4. QED BY <2>1, <2>2, <2>3 DEF KeptInv, ObligationsPlanned
<1>2. ASSUME NEW t \in batch_trucks, PickLeg(t) PROVE KeptInv'
  <2>1. /\ UNCHANGED <<problem, trucks, merged, main_solution, unsolved,
                       order_by_start_time, batch_orders, pc>>
        /\ pc = "solve"
    BY <1>2 DEF PickLeg
  <2>2. MergedServed'
    <3> SUFFICES ASSUME NEW u \in Trucks, NEW i \in DOMAIN plan'[u], i <= merged[u]
                 PROVE  FALSE
      BY <2>1 DEF MergedServed, Trucks
    <3>1. merged[u] = 0
      BY <2>1 DEF TrucksInv, PlanPhases
    <3>2. plan'[u] \in Seq(Order)
      BY <2>1 DEF TypeInv, TypeOK, Trucks
    <3>3. QED BY <3>1, <3>2
  <2>3. ObligationKept'
    BY <2>1 DEF KeptInv, ObligationKept, FlowModel, Orders, Trucks
  <2>4. QED BY <2>1, <2>2, <2>3 DEF KeptInv, ObligationsPlanned
<1>3. ASSUME SolverReturns \/ SolverAborts PROVE KeptInv'
  <2>1. UNCHANGED <<problem, trucks, merged, main_solution, unsolved, plan,
                    order_by_start_time, batch_orders>>
    BY <1>3 DEF SolverReturns, SolverAborts
  <2>2. ObligationKept' /\ MergedServed'
    BY <2>1 DEF KeptInv, ObligationKept, MergedServed, IsFree, FlowModel, Orders, Trucks
  <2>3. ObligationsPlanned'
    <3>1. FlowModel /\ pc' = "merge" => Obligations \subseteq Planned
      BY <1>3 DEF SolverReturns, SolverAborts
    <3>2. QED BY <2>1, <3>1 DEF ObligationsPlanned, Obligations, Planned, FlowModel,
                               Trucks
  <2>4. QED BY <2>2, <2>3 DEF KeptInv
<1>4. ASSUME SolverFindsNothing PROVE KeptInv'
  <2>1. /\ UNCHANGED <<problem, trucks, main_solution, order_by_start_time,
                       batch_orders>>
        /\ unsolved' = unsolved \cup batch_orders
        /\ \A t \in Trucks : plan'[t] = <<>>
    BY <1>4 DEF SolverFindsNothing, NoPlan
  <2>2. MergedServed'
    BY <2>1 DEF MergedServed, Trucks
  <2>3. ObligationKept'
    BY <2>1 DEF KeptInv, ObligationKept, FlowModel, Orders, Trucks
  <2>4. ObligationsPlanned'
    BY <2>1 DEF ObligationsPlanned, Obligations
  <2>5. QED BY <2>2, <2>3, <2>4 DEF KeptInv
<1>5. ASSUME NEW t \in batch_trucks, MergeLeg(t) PROVE KeptInv'
  BY <1>5, MergeKeepsKept
<1>6. ASSUME ReleaseBatch PROVE KeptInv'
  BY <1>6, ReleaseKeepsKept
<1>7. ASSUME UNCHANGED vars PROVE KeptInv'
  BY <1>7 DEF vars, KeptInv, ObligationKept, MergedServed, ObligationsPlanned, IsFree,
              FlowModel, Obligations, Planned, Orders, Trucks
<1>8. QED BY <1>1, <1>2, <1>3, <1>4, <1>5, <1>6, <1>7 DEF Next, Terminated

\* For orders that end after they start: with the flow model an obligation order
\* never disappears.  It is pending, in the batch or served, unless its batch had
\* no solution or it starts before every truck is free, now and ever after.
THEOREM ObligationNeverLost ==
    ASSUME ForwardInputs
    PROVE  Spec => []ObligationKept
<1>1. Init => TypeInv /\ WindowInv /\ TrucksInv /\ KeptInv
  BY InitType, InitWindow, InitTrucks, InitKept
<1>2. TypeInv /\ WindowInv /\ TrucksInv /\ KeptInv /\ [Next]_vars
          => (TypeInv /\ WindowInv /\ TrucksInv /\ KeptInv)'
  <2> SUFFICES ASSUME TypeInv, WindowInv, TrucksInv, KeptInv, [Next]_vars
               PROVE  TypeInv' /\ WindowInv' /\ TrucksInv' /\ KeptInv'
    OBVIOUS
  <2>1. TypeInv'
    BY NextType
  <2>2. WindowInv'
    BY <2>1, NextWindowInv DEF TypeInv
  <2>3. QED BY <2>1, <2>2, NextTrucks, NextKept
<1>3. KeptInv => ObligationKept
  BY DEF KeptInv
<1>4. QED BY <1>1, <1>2, <1>3, PTL DEF Spec
==============================================================================

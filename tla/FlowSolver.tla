------------------------------ MODULE FlowSolver ------------------------------
(***************************************************************************)
(* FlowSolver (flow_solver.cpp) and PreSolver (pre_solver.cpp), the inner  *)
(* solver of the flow model.  A variable {truck_pos, from, to} says that   *)
(* the truck goes from one order to the next; a solution of the rows is a  *)
(* set of variables that are 1.  PreSolver drops the variables that do not *)
(* lie between the fake first and the fake last order of their truck; what *)
(* is left goes to HiGHS, and its solution is read back as a sequence of   *)
(* orders per truck by sorting.                                            *)
(***************************************************************************)
EXTENDS Columns, FiniteSets

CONSTANT Inputs      \* the Data objects considered

ASSUME InputsAssumption == \A d \in Inputs : IsData(d) /\ HasAmounts(d)

VARIABLES data,
          variables,           \* CreateModel's vector, as a set
          valid_vars,          \* PreSolver: how many searches met a variable
          cur_truck_pos,
          component,           \* the search under way: "source" or "sink"
          reached,             \* nodes MarkConnectivityComponent is called for
          used_,               \* nodes it was called for already
          setted_columns,      \* the variables that HiGHS sets to 1
          orders_by_truck_pos, \* solution_t
          pc

vars == <<data, variables, valid_vars, cur_truck_pos, component, reached, used_,
          setted_columns, orders_by_truck_pos, pc>>

Trucks == DOMAIN data.trucks
Orders == DOMAIN data.orders

Init ==
    /\ data \in Inputs
    /\ variables = {}
    /\ valid_vars = <<>>
    /\ cur_truck_pos = 1
    /\ component = "source"
    /\ reached = {}
    /\ used_ = {}
    /\ setted_columns = {}
    /\ orders_by_truck_pos = [t \in Trucks |-> <<>>]
    /\ pc = "create"

\* Up to the constructor of PreSolver, which starts the first search.
CreateVariables ==
    /\ pc = "create"
    /\ variables' = AllVariables(data)
    /\ valid_vars' = [v \in AllVariables(data) |-> 0]
    /\ reached' = {ffo_pos}
    /\ pc' = "presolve"
    /\ UNCHANGED <<data, cur_truck_pos, component, used_, setted_columns,
                   orders_by_truck_pos>>

-----------------------------------------------------------------------------
\* graph_: the edges of the truck that leave a node, turned round for the sink.
Leaving(v) ==
    {e \in variables :
        e[1] = cur_truck_pos /\ v = IF component = "source" THEN e[2] ELSE e[3]}

Heads(v) == {IF component = "source" THEN e[3] ELSE e[2] : e \in Leaving(v)}

\* Mutant of Visit: a node is not marked as used.
Visit_Unmarked(v) ==
    /\ pc = "presolve"
    /\ v \in reached \ used_
    /\ valid_vars' =
          [e \in variables |-> IF e \in Leaving(v) THEN valid_vars[e] + 1 ELSE valid_vars[e]]
    /\ reached' = reached \cup Heads(v)
    /\ UNCHANGED <<data, variables, cur_truck_pos, component, used_, setted_columns,
                   orders_by_truck_pos, pc>>

\* MarkConnectivityComponent(v) when v is not used_.  The calls are nested in
\* the code; what they leave behind does not depend on their order.
Visit(v) ==
    /\ pc = "presolve"
    /\ v \in reached \ used_
    /\ used_' = used_ \cup {v}
    /\ valid_vars' =
          [e \in variables |-> IF e \in Leaving(v) THEN valid_vars[e] + 1 ELSE valid_vars[e]]
    /\ reached' = reached \cup Heads(v)
    /\ UNCHANGED <<data, variables, cur_truck_pos, component, setted_columns,
                   orders_by_truck_pos, pc>>

\* Mutant of ClearGraph: used_ is not reset.
ClearGraph_KeepsUsed == used_' = used_

ClearGraph == used_' = {}

SearchSink ==
    /\ pc = "presolve"
    /\ reached \subseteq used_
    /\ component = "source"
    /\ ClearGraph
    /\ component' = "sink"
    /\ reached' = {flo_pos}
    /\ UNCHANGED <<data, variables, valid_vars, cur_truck_pos, setted_columns,
                   orders_by_truck_pos, pc>>

SearchNextTruck ==
    /\ pc = "presolve"
    /\ reached \subseteq used_
    /\ component = "sink"
    /\ cur_truck_pos < Len(data.trucks)
    /\ ClearGraph
    /\ component' = "source"
    /\ cur_truck_pos' = cur_truck_pos + 1
    /\ reached' = {ffo_pos}
    /\ UNCHANGED <<data, variables, valid_vars, setted_columns, orders_by_truck_pos, pc>>

\* Both searches met a variable that is kept.
Filter ==
    /\ pc = "presolve"
    /\ reached \subseteq used_
    /\ component = "sink"
    /\ cur_truck_pos = Len(data.trucks)
    /\ ClearGraph
    /\ variables' = {e \in variables : valid_vars[e] = 2}
    /\ pc' = "rows"
    /\ UNCHANGED <<data, valid_vars, cur_truck_pos, component, reached, setted_columns,
                   orders_by_truck_pos>>

-----------------------------------------------------------------------------
\* What HiGHS is to maximise.
Objective(flow) == SumFunction([e \in flow |-> ColCost(data, e)])

\* The edges of a set that leave, or enter, a node.
Outgoing(flow, node) == {e \in flow : e[2] = node}
Incoming(flow, node) == {e \in flow : e[3] = node}

\* Condition 1, and the rows of the fake orders, for one truck.
TruckRows(flow) ==
    /\ \A o \in Orders : Cardinality(Outgoing(flow, o)) = Cardinality(Incoming(flow, o))
    /\ Cardinality(Outgoing(flow, ffo_pos)) = 1
    /\ Cardinality(Incoming(flow, flo_pos)) = 1

\* Condition 2.
OrderRow(flow, o) ==
    /\ Cardinality(Outgoing(flow, o)) <= 1
    /\ data.orders[o].obligation => Cardinality(Outgoing(flow, o)) = 1

\* The solutions of the rows, put together truck by truck.
Flows ==
    LET OfTruck == [t \in Trucks |->
                       {flow \in SUBSET {e \in variables : e[1] = t} : TruckRows(flow)}]
        Joined == {UNION {choice[t] : t \in Trucks} :
                     choice \in {f \in [Trucks -> UNION {OfTruck[t] : t \in Trucks}] :
                                    \A t \in Trucks : f[t] \in OfTruck[t]}}
    IN {flow \in Joined : \A o \in Orders : OrderRow(flow, o)}

\* An obligation order without a variable ends the process.
Unschedulable ==
    \E o \in Orders : data.orders[o].obligation /\ Outgoing(variables, o) = {}

BuildRows ==
    /\ pc = "rows"
    /\ pc' = IF Unschedulable THEN "aborted" ELSE "highs"
    /\ UNCHANGED <<data, variables, valid_vars, cur_truck_pos, component, reached, used_,
                   setted_columns, orders_by_truck_pos>>

HighsSolves ==
    /\ pc = "highs"
    /\ setted_columns' \in Flows
    /\ pc' = "readback"
    /\ UNCHANGED <<data, variables, valid_vars, cur_truck_pos, component, reached, used_,
                   orders_by_truck_pos>>

\* The relaxation has a solution and the integer program has none: no column is
\* set.  When the relaxation has none either, an assertion fails.
HighsFails ==
    /\ pc = "highs"
    /\ Flows = {}
    /\ pc' \in {"readback", "aborted"}
    /\ UNCHANGED <<data, variables, valid_vars, cur_truck_pos, component, reached, used_,
                   setted_columns, orders_by_truck_pos>>

\* The real orders that a truck leaves by a variable that is set.
Scheduled(t) == {o \in Orders : \E e \in setted_columns : e[1] = t /\ e[2] = o}

\* Mutant of SortedByStart: the orders are not sorted.
SortedByStart_AsFound(S) ==
    {s \in [1 .. Cardinality(S) -> S] :
        S = {s[i] : i \in DOMAIN s} /\ \A i, j \in DOMAIN s : i < j => s[i] <= s[j]}

\* What std::sort by start_time may make of a set: equal times in any order.
SortedByStart(S) ==
    {s \in [1 .. Cardinality(S) -> S] :
        /\ S = {s[i] : i \in DOMAIN s}
        /\ \A i, j \in DOMAIN s :
              i < j => data.orders[s[i]].start_time <= data.orders[s[j]].start_time}

ReadBack ==
    /\ pc = "readback"
    /\ orders_by_truck_pos' \in
          {s \in [Trucks -> UNION {SortedByStart(Scheduled(t)) : t \in Trucks}] :
              \A t \in Trucks : s[t] \in SortedByStart(Scheduled(t))}
    /\ pc' = "done"
    /\ UNCHANGED <<data, variables, valid_vars, cur_truck_pos, component, reached, used_,
                   setted_columns>>

Terminated == pc \in {"done", "aborted"} /\ UNCHANGED vars

Next ==
    \/ CreateVariables
    \/ \E v \in Nodes(data) : Visit(v)
    \/ SearchSink
    \/ SearchNextTruck
    \/ Filter
    \/ BuildRows
    \/ HighsSolves
    \/ HighsFails
    \/ ReadBack
    \/ Terminated

Spec == Init /\ [][Next]_vars
-----------------------------------------------------------------------------
(***************************************************************************)
(* Properties.                                                             *)
(***************************************************************************)
\* Types; no variable is met by more than the two searches of its truck, so
\* the filter's test for 2 means what it is to mean.
TypeOK ==
    /\ data \in Inputs
    /\ variables \subseteq Trucks \X Nodes(data) \X Nodes(data)
    /\ DOMAIN valid_vars \subseteq Trucks \X Nodes(data) \X Nodes(data)
    /\ \A e \in DOMAIN valid_vars : valid_vars[e] \in 0 .. 2
    /\ variables \subseteq DOMAIN valid_vars
    /\ cur_truck_pos \in Trucks
    /\ component \in {"source", "sink"}
    /\ reached \subseteq Nodes(data)
    /\ used_ \subseteq reached
    /\ setted_columns \subseteq variables
    /\ orders_by_truck_pos \in Solution(data)
    /\ pc \in {"create", "presolve", "rows", "highs", "readback", "done", "aborted"}

\* The filter keeps exactly the variables between the fake first and the fake
\* last order of their truck, cycles or not (pre_solver.h: "storing if variable
\* should stay after filtering").
FilterExact == pc = "rows" => variables = Kept(data)

A == INSTANCE Assignment
        WITH assignment <- orders_by_truck_pos,
             outcome <- CASE pc = "done" /\ setted_columns # {} -> "planned"
                          [] pc = "done" /\ setted_columns = {} -> "failed"
                          [] pc = "aborted" -> "failed"
                          [] OTHER -> "pending"

\* Neither the tests that are there to "reduce amount of variables"
\* (flow_solver.cpp) nor the filter nor the rows lose a plan that the trucks can
\* drive: the edges of every one are a solution of the rows.
EveryPlanAdmitted ==
    pc = "highs" /\ ForwardOrders(data) =>
        \A plan \in A!Plans(data) : EdgesOf(plan) \in Flows

\* What the solver maximises is what the checker pays: the cost vector adds up,
\* over the columns set, to the summary revenue of the plan read back from them.
RevenueAgrees ==
    pc = "done" /\ ForwardOrders(data) =>
        SummaryRevenue(data, orders_by_truck_pos) = Objective(setted_columns)

\* For orders that end after they start, what Solve returns is a plan that the
\* trucks can drive, with no order twice and every obligation order; it returns
\* nothing, or ends the process, only when there is no such plan.
ImplementsAssignment == A!Spec

\* "variables must form oriented acyclic(not even cycles of length 2 allowed)
\* grapgh" (pre_solver.h): in every set of orders a truck can go from one of them
\* to none of them.
VariablesAcyclic ==
    pc = "presolve" =>
        \A t \in Trucks : \A S \in (SUBSET Orders) \ {{}} :
            \E o \in S : \A e \in variables : e[1] = t /\ e[2] = o => e[3] \notin S
==============================================================================

-------------------------------- MODULE Columns --------------------------------
(***************************************************************************)
(* The columns of the flow solver's linear program, for the data d: the    *)
(* variables {truck_pos, from, to} that FlowSolver::CreateModel creates    *)
(* (flow_solver.cpp), what they cost, and which of them are left when      *)
(* PreSolver has dropped the others.                                       *)
(***************************************************************************)
EXTENDS Revenue

Nodes(d) == DOMAIN d.orders \cup {ffo_pos, flo_pos}

\* Mutant of CanPick: the truck has to be free before the order starts.
CanPick_Before(d, t, o) ==
    /\ IsExecutableBy(d.trucks[t], d.orders[o])
    /\ d.trucks[t].init_time < d.orders[o].start_time

\* The truck may execute the order and is free when it starts.
CanPick(d, t, o) ==
    /\ IsExecutableBy(d.trucks[t], d.orders[o])
    /\ d.trucks[t].init_time <= d.orders[o].start_time

CanMove(d, t, previous, o) == MoveBetweenOrders(d, d.trucks[t], previous, d.orders[o])

\* The four groups of loops of CreateModel, one disjunct each.
HasVariable(d, t, from, to) ==
    \/ /\ from \in DOMAIN d.orders /\ to \in DOMAIN d.orders /\ from # to
       /\ CanPick(d, t, from)
       /\ CanMove(d, t, d.orders[from], to)
    \/ /\ from = ffo_pos /\ to \in DOMAIN d.orders
       /\ CanMove(d, t, make_ffo(d.trucks[t]), to)
    \/ /\ from \in DOMAIN d.orders /\ to = flo_pos
       /\ CanPick(d, t, from)
    \/ from = ffo_pos /\ to = flo_pos

AllVariables(d) ==
    {e \in (DOMAIN d.trucks) \X Nodes(d) \X Nodes(d) : HasVariable(d, e[1], e[2], e[3])}

-----------------------------------------------------------------------------
\* Truck t's variables lead from its fake first order to the node n: it is in every
\* set that holds that order and that none of them leads out of.
Ahead(d, all, t, n) ==
    \A S \in SUBSET Nodes(d) :
        /\ ffo_pos \in S
        /\ \A e \in all : e[1] = t /\ e[2] \in S => e[3] \in S
        => n \in S

\* They lead from n to the fake last order.
Behind(d, all, t, n) ==
    \A S \in SUBSET Nodes(d) :
        /\ flo_pos \in S
        /\ \A e \in all : e[1] = t /\ e[3] \in S => e[2] \in S
        => n \in S

\* What PreSolver is to keep: the variables between the fake first and the fake last
\* order of their truck.
Kept(d) ==
    LET all == AllVariables(d)
    IN {e \in all : Ahead(d, all, e[1], e[2]) /\ Behind(d, all, e[1], e[3])}

-----------------------------------------------------------------------------
\* Solver::make_flo, the fake last order: where and when the one before it ends.
make_flo(from_order) ==
    [from_city |-> from_order.to_city, start_time |-> from_order.finish_time]

\* Mutant of ColCost: the way to the first order costs nothing.
ColCost_FromOrder(d, e) ==
    LET from_order == d.orders[e[2]]
        to_order == IF e[3] = flo_pos THEN make_flo(from_order) ELSE d.orders[e[3]]
    IN IF e[2] = ffo_pos
       THEN 0
       ELSE CostMovingBetweenOrders(d, from_order, to_order) + GetRealOrderRevenue(d, e[2])

\* col_cost_ of a variable: the order that it leaves and the move to the next.
ColCost(d, e) ==
    LET from_order == IF e[2] = ffo_pos THEN make_ffo(d.trucks[e[1]]) ELSE d.orders[e[2]]
        to_order == IF e[3] = flo_pos THEN make_flo(from_order) ELSE d.orders[e[3]]
    IN CostMovingBetweenOrders(d, from_order, to_order)
       + IF e[2] = ffo_pos THEN 0 ELSE GetRealOrderRevenue(d, e[2])

\* The edges that a plan uses.
EdgesOf(plan) ==
    UNION {{<<t, IF i = 0 THEN ffo_pos ELSE plan[t][i],
                 IF i = Len(plan[t]) THEN flo_pos ELSE plan[t][i + 1]>> :
               i \in 0 .. Len(plan[t])} : t \in DOMAIN plan}
================================================================================

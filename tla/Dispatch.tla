------------------------------ MODULE Dispatch -------------------------------
(***************************************************************************)
(* What the allocation program promises, with no windows, no batches and   *)
(* no free-movement orders: trucks are given orders one at a time, each    *)
(* reachable from the truck's previous order (or initial position) in the  *)
(* unmodified Data, and no order is given out twice.                       *)
(***************************************************************************)
EXTENDS Checker

CONSTANT Problems

VARIABLES problem,    \* the Data object; never changes
          schedule    \* solution_t under construction

vars == <<problem, schedule>>

Init == /\ problem \in Problems
        /\ schedule = [t \in DOMAIN problem.trucks |-> <<>>]

Serve(t, o) ==
    /\ o \notin Served(schedule)
    /\ MoveBetweenOrders(problem, problem.trucks[t], LastEnd(problem, schedule, t),
                         problem.orders[o])
    /\ schedule' = [schedule EXCEPT ![t] = Append(@, o)]
    /\ UNCHANGED problem

Next == \E t \in DOMAIN problem.trucks, o \in DOMAIN problem.orders : Serve(t, o)

Spec == Init /\ [][Next]_vars

==============================================================================

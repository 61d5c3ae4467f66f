------------------------------- MODULE Checker -------------------------------
(***************************************************************************)
(* Checker::Check (checker.cpp): the program's own definition of a valid   *)
(* schedule.  A solution_t maps a truck position to the sequence of the    *)
(* order positions it serves.  The checker ends the process on the first   *)
(* move that has no road, arrives late or is not executable by the truck;  *)
(* an obligation order that nobody serves is only reported.                *)
(***************************************************************************)
EXTENDS Fleet

Solution(p) == [DOMAIN p.trucks -> Seq(DOMAIN p.orders)]

\* The order, or the initial position, that truck t leaves for its i-th order.
Previous(p, solution, t, i) ==
    IF i = 1 THEN make_ffo(p.trucks[t])
             ELSE EndOf(p.orders[solution[t][i - 1]])

\* Where truck t is after everything the solution has it do.
LastEnd(p, solution, t) ==
    IF solution[t] = <<>> THEN make_ffo(p.trucks[t])
                          ELSE EndOf(p.orders[solution[t][Len(solution[t])]])

\* Check() reaches its end.
Accepts(p, solution) ==
    \A t \in DOMAIN p.trucks : \A i \in DOMAIN solution[t] :
        MoveBetweenOrders(p, p.trucks[t], Previous(p, solution, t, i),
                          p.orders[solution[t][i]])

\* No order position occurs twice in a solution.
NoRepeats(solution) ==
    \A t, u \in DOMAIN solution :
        \A i \in DOMAIN solution[t], j \in DOMAIN solution[u] :
            solution[t][i] = solution[u][j] => t = u /\ i = j

\* The order positions that occur in a solution.
Served(solution) ==
    UNION {{solution[t][i] : i \in DOMAIN solution[t]} : t \in DOMAIN solution}
==============================================================================

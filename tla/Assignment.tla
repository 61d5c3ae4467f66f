----------------------------- MODULE Assignment ------------------------------
(***************************************************************************)
(* What a solver promises for one batch (Solver::Solve of solver.h): a     *)
(* plan that every truck can drive, in which no order occurs twice and     *)
(* every obligation order occurs; it fails only when there is no such      *)
(* plan.  For a batch with an order that does not end after it starts      *)
(* nothing is promised.  How good the plan is is left out.                 *)
(***************************************************************************)
EXTENDS Checker

CONSTANT Inputs

VARIABLES data,        \* what SetData was given
          outcome,     \* "pending", "planned" or "failed"
          assignment   \* the solution_t

vars == <<data, outcome, assignment>>

\* Sequences of different orders.
Routes(d) ==
    UNION {{route \in [1 .. n -> DOMAIN d.orders] :
               \A i, j \in 1 .. n : route[i] = route[j] => i = j} :
           n \in 0 .. Len(d.orders)}

Required(d) == {o \in DOMAIN d.orders : d.orders[o].obligation}

Plans(d) ==
    {plan \in [DOMAIN d.trucks -> Routes(d)] :
        /\ Accepts(d, plan)
        /\ NoRepeats(plan)
        /\ Required(d) \subseteq Served(plan)}

Nothing(d) == [t \in DOMAIN d.trucks |-> <<>>]

Init == /\ data \in Inputs
        /\ outcome = "pending"
        /\ assignment = Nothing(data)

Assign == /\ outcome = "pending"
          /\ outcome' = "planned"
          /\ assignment' \in Solution(data)
          /\ ForwardOrders(data) => assignment' \in Plans(data)
          /\ UNCHANGED data

Fail == /\ outcome = "pending"
        /\ ForwardOrders(data) => Plans(data) = {}
        /\ outcome' = "failed"
        /\ UNCHANGED <<data, assignment>>

Next == Assign \/ Fail

Spec == Init /\ [][Next]_vars
==============================================================================

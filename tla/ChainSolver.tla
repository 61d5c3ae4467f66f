----------------------------- MODULE ChainSolver ------------------------------
(***************************************************************************)
(* ChainSolver (chain_solver.cpp) and ChainGenerator (chain_generator.cpp),*)
(* the inner solver of the assignment model.  For every truck the          *)
(* generator lists the chains of orders that it can drive, round by round  *)
(* one order longer, and closes them with free-movement orders; the linear *)
(* program picks at most one chain per truck.                              *)
(*                                                                         *)
(* A chain is an array of MX_LEN order positions in the program; here it   *)
(* is the sequence of its real orders and the set of its free-movement     *)
(* order, if any, which is given by its cities and start time, as the      *)
(* program shares those that agree in them.  A chain that pays less than   *)
(* min_chain_revenue is dropped unless it ends with an obligation order;   *)
(* revenues are left out, so which of the others pay is left open.         *)
(***************************************************************************)
EXTENDS Checker, Sorting

CONSTANTS Inputs,        \* the Data objects, each with its edges_w_vecs
          MX_LEN,        \* places in the array of a chain
          mx_chain_len   \* greatest number of real orders in a chain

\* main uses chains of 2 orders and arrays of 3, the tests 4 or 5 and 6.
ASSUME LengthAssumption ==
    /\ MX_LEN \in Nat
    /\ mx_chain_len \in Nat \ {0}
    /\ mx_chain_len < MX_LEN

\* A weight belongs to a truck, the last order of a chain and a city to go to; a
\* city without a road ends the process when the free-movement orders are made.
ASSUME InputsAssumption ==
    /\ City \subseteq Nat
    /\ IsFiniteSet(City)
    /\ \A d \in Inputs :
          /\ IsData(d)
          /\ d.edges_w_vecs \subseteq
                (DOMAIN d.trucks) \X ((DOMAIN d.orders) \cup {ffo_pos}) \X City
          /\ \A weight \in d.edges_w_vecs :
                LET from == IF weight[2] = ffo_pos THEN make_ffo(d.trucks[weight[1]])
                                                  ELSE EndOf(d.orders[weight[2]])
                IN HasRoad(d, from.to_city, weight[3])

VARIABLES data,
          chains,      \* chains_by_truck_pos
          truck_pos,
          round,       \* i, the rounds of Merge
          cur_size,    \* how many chains the loop at hand goes through
          chain_pos,   \* how many of them it has been through
          picked,      \* the chain of every truck whose column is set, or 0
          plan,        \* solution_t
          pc

vars == <<data, chains, truck_pos, round, cur_size, chain_pos, picked, plan, pc>>

Trucks == DOMAIN data.trucks
Orders == DOMAIN data.orders

\* {from_city, to_city, start_time}, by which a free-movement order is identified.
FreeKey == City \X City \X Nat

Chain == [orders : Seq(Orders), free : SUBSET FreeKey]

EmptyChain == [orders |-> <<>>, free |-> {}]

LastPos(chain) ==
    IF chain.orders = <<>> THEN ffo_pos ELSE chain.orders[Len(chain.orders)]

\* Where truck t is after the real orders of a chain.
ChainEnd(t, chain) ==
    IF chain.orders = <<>> THEN make_ffo(data.trucks[t])
                           ELSE EndOf(data.orders[LastPos(chain)])

-----------------------------------------------------------------------------
Init ==
    /\ data \in Inputs
    /\ chains = [t \in Trucks |-> <<>>]
    /\ truck_pos = 1
    /\ round = 0
    /\ cur_size = 0
    /\ chain_pos = 0
    /\ picked = [t \in Trucks |-> 0]
    /\ plan = [t \in Trucks |-> EmptyChain]
    /\ pc = "first"

\* Mutant of Kept: an obligation order has to pay as well.
Kept_IfPays(candidates) == SUBSET candidates

\* What may be left of the candidates after the test against min_chain_revenue.
Kept(candidates) ==
    {kept \in SUBSET candidates :
        \A o \in candidates : data.orders[o].obligation => o \in kept}

\* Mutant of Successors: the masks of the order are not looked at.
Successors_AnyTruck(t, chain) ==
    {o \in Orders : CanReach(data, ChainEnd(t, chain), data.orders[o])}

\* The orders that truck t can drive after a chain.
Successors(t, chain) ==
    {o \in Orders :
        MoveBetweenOrders(data, data.trucks[t], ChainEnd(t, chain), data.orders[o])}

\* A chain made one order longer in all the ways kept.
Extended(chain, kept) ==
    [i \in 1 .. Cardinality(kept) |->
        [chain EXCEPT !.orders = Append(@, Ascending(kept)[i])]]

\* Mutant of Enter: the loop goes on where the last one ended.
Enter_KeepsPos(loop, t) ==
    /\ pc' = loop
    /\ truck_pos' = t
    /\ round' = 0
    /\ cur_size' = Len(chains'[t])
    /\ UNCHANGED chain_pos

\* A loop over the chains that the truck has when the loop is entered.
Enter(loop, t) ==
    /\ pc' = loop
    /\ truck_pos' = t
    /\ round' = 0
    /\ cur_size' = Len(chains'[t])
    /\ chain_pos' = 0

\* InitFirstEdge for one truck.
InitFirstEdge ==
    /\ pc = "first"
    /\ \E kept \in Kept(Successors(truck_pos, EmptyChain)) :
          chains' = [chains EXCEPT ![truck_pos] = Extended(EmptyChain, kept)]
    /\ IF truck_pos < Len(data.trucks) THEN Enter("first", truck_pos + 1)
       ELSE IF mx_chain_len > 1 THEN Enter("merge", 1)
       ELSE Enter("weights", 1)
    /\ UNCHANGED <<data, picked, plan>>

\* Mutant of n_times: one round too many.
n_times_Full == mx_chain_len

n_times == mx_chain_len - 1

\* One turn of the inner loop of Merge: the chain is kept, and its successors are
\* put behind all chains.
MergeChain ==
    /\ pc = "merge"
    /\ chain_pos < cur_size
    /\ LET chain == chains[truck_pos][chain_pos + 1]
       IN \E kept \in Kept(Successors(truck_pos, chain)) :
             chains' = [chains EXCEPT ![truck_pos] = @ \o Extended(chain, kept)]
    /\ chain_pos' = chain_pos + 1
    /\ UNCHANGED <<data, truck_pos, round, cur_size, picked, plan, pc>>

\* Mutant of NextRound: every round begins with the first chain.
NextRound_FromStart ==
    /\ pc = "merge"
    /\ chain_pos = cur_size
    /\ round + 1 < n_times
    /\ round' = round + 1
    /\ cur_size' = Len(chains[truck_pos])
    /\ chain_pos' = 0
    /\ UNCHANGED <<data, chains, truck_pos, picked, plan, pc>>

\* old_size = cur_size: the next round goes on with the chains of this one.
NextRound ==
    /\ pc = "merge"
    /\ chain_pos = cur_size
    /\ round + 1 < n_times
    /\ round' = round + 1
    /\ cur_size' = Len(chains[truck_pos])
    /\ UNCHANGED <<data, chains, truck_pos, chain_pos, picked, plan, pc>>

MergeDone ==
    /\ pc = "merge"
    /\ chain_pos = cur_size
    /\ round + 1 >= n_times
    /\ UNCHANGED <<data, chains, picked, plan>>
    /\ IF truck_pos < Len(data.trucks) THEN Enter("merge", truck_pos + 1)
                                       ELSE Enter("weights", 1)

-----------------------------------------------------------------------------
\* The cities for which truck t has a weight after an order.
CitiesAfter(t, from) == {city \in City : <<t, from, city>> \in data.edges_w_vecs}

\* A chain closed by a free-movement order to every such city.
Closed(t, chain) ==
    LET cities == CitiesAfter(t, LastPos(chain))
        last == ChainEnd(t, chain)
    IN [i \in 1 .. Cardinality(cities) |->
           [chain EXCEPT !.free = {<<last.to_city, Ascending(cities)[i], last.finish_time>>}]]

\* One turn of the loop of AddWeightsEdges: the first free-movement order changes
\* the chain itself, the others make new chains.
AddWeightsEdges ==
    /\ pc = "weights"
    /\ chain_pos < cur_size
    /\ LET closed == Closed(truck_pos, chains[truck_pos][chain_pos + 1])
       IN chains' =
             IF closed = <<>> THEN chains
             ELSE [chains EXCEPT ![truck_pos] =
                      [@ EXCEPT ![chain_pos + 1] = closed[1]] \o Tail(closed)]
    /\ chain_pos' = chain_pos + 1
    /\ UNCHANGED <<data, truck_pos, round, cur_size, picked, plan, pc>>

\* The free-movement orders of a truck that takes no real order.
AddFirstWeightsEdges ==
    /\ pc = "weights"
    /\ chain_pos = cur_size
    /\ chains' = [chains EXCEPT ![truck_pos] = @ \o Closed(truck_pos, EmptyChain)]
    /\ IF truck_pos < Len(data.trucks)
       THEN Enter("weights", truck_pos + 1)
       ELSE /\ pc' = "rows"
            /\ UNCHANGED <<truck_pos, round, cur_size, chain_pos>>
    /\ UNCHANGED <<data, picked, plan>>

-----------------------------------------------------------------------------
OrdersOf(chain) == {chain.orders[i] : i \in DOMAIN chain.orders}

Pick(choice, t) == IF choice[t] = 0 THEN EmptyChain ELSE chains[t][choice[t]]

\* The obligation orders that some chain holds: the others have no row.
Required ==
    {o \in Orders :
        /\ data.orders[o].obligation
        /\ \E t \in Trucks : \E i \in DOMAIN chains[t] : o \in OrdersOf(chains[t][i])}

\* Mutant of Disjoint: free-movement orders may be picked by two trucks.
Disjoint_Real(chain, other) == OrdersOf(chain) \cap OrdersOf(other) = {}

Disjoint(chain, other) ==
    OrdersOf(chain) \cap OrdersOf(other) = {} /\ chain.free \cap other.free = {}

\* The solutions of the rows: one chain per truck or none (condition 1), no order
\* in two of them and every required order in one (condition 2).
Solutions ==
    {choice \in [Trucks -> UNION {0 .. Len(chains[t]) : t \in Trucks}] :
        /\ \A t \in Trucks : choice[t] <= Len(chains[t])
        /\ \A t, u \in Trucks : t # u => Disjoint(Pick(choice, t), Pick(choice, u))
        /\ Required \subseteq UNION {OrdersOf(Pick(choice, t)) : t \in Trucks}}

HighsSolves ==
    /\ pc = "rows"
    /\ picked' \in Solutions
    /\ pc' = "readback"
    /\ UNCHANGED <<data, chains, truck_pos, round, cur_size, chain_pos, plan>>

\* Only the relaxation has a solution, and no column is set; or it has none either.
HighsFails ==
    /\ pc = "rows"
    /\ Solutions = {}
    /\ pc' \in {"readback", "aborted"}
    /\ UNCHANGED <<data, chains, truck_pos, round, cur_size, chain_pos, picked, plan>>

ReadBack ==
    /\ pc = "readback"
    /\ plan' = [t \in Trucks |-> Pick(picked, t)]
    /\ pc' = "done"
    /\ UNCHANGED <<data, chains, truck_pos, round, cur_size, chain_pos, picked>>

Terminated == pc \in {"done", "aborted"} /\ UNCHANGED vars

Next ==
    \/ InitFirstEdge
    \/ MergeChain
    \/ NextRound
    \/ MergeDone
    \/ AddWeightsEdges
    \/ AddFirstWeightsEdges
    \/ HighsSolves
    \/ HighsFails
    \/ ReadBack
    \/ Terminated

Spec == Init /\ [][Next]_vars
-----------------------------------------------------------------------------
(***************************************************************************)
(* Properties.                                                             *)
(***************************************************************************)
\* Types; the loops stay within the chains that there are.
TypeOK ==
    /\ data \in Inputs
    /\ chains \in [Trucks -> Seq(Chain)]
    /\ truck_pos \in Trucks
    /\ round \in 0 .. mx_chain_len - 1
    /\ cur_size \in 0 .. Len(chains[truck_pos])
    /\ chain_pos \in 0 .. cur_size
    /\ picked \in [Trucks -> Nat]
    /\ \A t \in Trucks : picked[t] <= Len(chains[t])
    /\ plan \in [Trucks -> Chain]
    /\ pc \in {"first", "merge", "weights", "rows", "readback", "done", "aborted"}

\* No chain is written past the end of its array, a free-movement order included.
WithinArray ==
    \A t \in Trucks : \A i \in DOMAIN chains[t] :
        Len(chains[t][i].orders) + Cardinality(chains[t][i].free) <= MX_LEN

\* Truck t can drive the chain by the checker's rules, and its free-movement order
\* leaves from where and when its last real order ends, although the order itself
\* may have been made for another truck or another chain.
Drivable(t, chain) ==
    /\ \A i \in DOMAIN chain.orders :
          MoveBetweenOrders(data, data.trucks[t],
                            IF i = 1 THEN make_ffo(data.trucks[t])
                                     ELSE EndOf(data.orders[chain.orders[i - 1]]),
                            data.orders[chain.orders[i]])
    /\ \A edge \in chain.free :
          /\ edge[1] = ChainEnd(t, chain).to_city
          /\ edge[3] = ChainEnd(t, chain).finish_time
          /\ <<t, LastPos(chain), edge[2]>> \in data.edges_w_vecs

ChainsDrivable ==
    \A t \in Trucks : \A i \in DOMAIN chains[t] : Drivable(t, chains[t][i])

\* No truck has a chain twice: a round goes through the chains of the round before
\* it only ("int i-th merge we suppose to use chains that was produced on (i-1)-th
\* merge", chain_generator.cpp).
ChainsOnce ==
    \A t \in Trucks : \A i, j \in DOMAIN chains[t] : chains[t][i] = chains[t][j] => i = j

\* An obligation order that a truck can drive after one of its chains, up to the
\* greatest length, is in a chain of its own after the same orders, whatever it pays
\* and in whatever round the chain was made.
ObligationsExtended ==
    pc \in {"weights", "rows"} =>
        \A t \in Trucks : \A i \in DOMAIN chains[t] :
            Len(chains[t][i].orders) < mx_chain_len =>
                \A o \in Successors(t, chains[t][i]) : data.orders[o].obligation =>
                    \E j \in DOMAIN chains[t] :
                        chains[t][j].orders = Append(chains[t][i].orders, o)

\* For orders that end after they start, the plan passes the checker, serves no
\* order twice and no free-movement order twice, and serves every obligation order
\* that is in a chain unless the rows have no solution.
PlanValid ==
    pc = "done" =>
        LET real == [t \in Trucks |-> plan[t].orders]
        IN /\ Accepts(data, real)
           /\ NoRepeats(real)
           /\ \A t, u \in Trucks : t # u => plan[t].free \cap plan[u].free = {}
           /\ Required \subseteq Served(real) \/ Solutions = {}

\* The choices of chains in which no two trucks serve the same order and the required
\* orders are served, whatever free-movement orders close the chains.
RealChoices ==
    {choice \in [Trucks -> UNION {0 .. Len(chains[t]) : t \in Trucks}] :
        /\ \A t \in Trucks : choice[t] <= Len(chains[t])
        /\ \A t, u \in Trucks : t # u =>
              OrdersOf(Pick(choice, t)) \cap OrdersOf(Pick(choice, u)) = {}
        /\ Required \subseteq UNION {OrdersOf(Pick(choice, t)) : t \in Trucks}}

\* What the trucks could serve they still can with the free-movement orders: "solver
\* wont use one of such edges twice but its still goin to work" (batch_solver.cpp).
NoPlanLost ==
    pc = "rows" =>
        \A choice \in RealChoices : \E solution \in Solutions :
            \A t \in Trucks : Pick(solution, t).orders = Pick(choice, t).orders
==============================================================================

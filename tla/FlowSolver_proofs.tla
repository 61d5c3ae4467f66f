-------------------------- MODULE FlowSolver_proofs ---------------------------
(***************************************************************************)
(* PreSolver's two searches per truck, with a counter per variable, keep   *)
(* exactly the variables that lie between the fake first and the fake last *)
(* order, whatever the input: also when the variables form cycles, which   *)
(* the header of pre_solver.h rules out.  For orders that end after they   *)
(* start the rows have every plan among their solutions, every solution is *)
(* read back as a plan, and so FlowSolver implements Assignment.  The      *)
(* columns that are set are then the edges of that plan, and their costs   *)
(* add up to what the checker pays for it.                                 *)
(***************************************************************************)
EXTENDS FlowSolver, Columns_proofs

\* The orders and fake orders that a truck's variables lead to, and from.
AheadOf(t) == {n \in Nodes(data) : Ahead(data, AllVariables(data), t, n)}
BehindOf(t) == {n \in Nodes(data) : Behind(data, AllVariables(data), t, n)}

One(condition) == IF condition THEN 1 ELSE 0

\* What a search starts from and is to find, and the ends of a variable as it
\* sees them.
Start == IF component = "source" THEN ffo_pos ELSE flo_pos
Goal == IF component = "source" THEN AheadOf(cur_truck_pos) ELSE BehindOf(cur_truck_pos)
Near(e) == IF component = "source" THEN e[2] ELSE e[3]
Far(e) == IF component = "source" THEN e[3] ELSE e[2]

\* How often a variable has been met by the searches so far.
Met(e) ==
    CASE e[1] < cur_truck_pos -> One(e[2] \in AheadOf(e[1])) + One(e[3] \in BehindOf(e[1]))
      [] e[1] > cur_truck_pos -> 0
      [] e[1] = cur_truck_pos /\ component = "source" -> One(e[2] \in used_)
      [] OTHER -> One(e[2] \in AheadOf(e[1])) + One(e[3] \in used_)

SearchInv ==
    /\ variables = AllVariables(data)
    /\ DOMAIN valid_vars = AllVariables(data)
    /\ Start \in reached
    /\ reached \subseteq Goal
    /\ \A e \in AllVariables(data) :
          e[1] = cur_truck_pos /\ Near(e) \in used_ => Far(e) \in reached
    /\ \A e \in AllVariables(data) : valid_vars[e] = Met(e)

FlowInv ==
    /\ TypeOK
    /\ pc = "create" =>
          /\ component = "source" /\ cur_truck_pos = 1
          /\ reached = {} /\ used_ = {} /\ variables = {}
    /\ pc = "presolve" => SearchInv /\ setted_columns = {}
    /\ FilterExact

-----------------------------------------------------------------------------
\* The data never change, so neither do the variables created from them.
LEMMA SameData ==
    ASSUME data' = data
    PROVE  /\ Trucks' = Trucks
           /\ Orders' = Orders
           /\ Nodes(data)' = Nodes(data)
           /\ AllVariables(data)' = AllVariables(data)
           /\ \A t : AheadOf(t)' = AheadOf(t)
           /\ \A t : BehindOf(t)' = BehindOf(t)
<1>1. Trucks' = Trucks /\ Orders' = Orders /\ Nodes(data)' = Nodes(data)
  BY DEF Trucks, Orders, Nodes
<1>2. AllVariables(data)' = AllVariables(data)
  BY <1>1 DEF AllVariables, HasVariable, CanPick, CanMove
<1>3. \A t : AheadOf(t)' = AheadOf(t)
  BY <1>1, <1>2 DEF AheadOf, Ahead
<1>4. \A t : BehindOf(t)' = BehindOf(t)
  BY <1>1, <1>2 DEF BehindOf, Behind
<1>5. QED BY <1>1, <1>2, <1>3, <1>4

\* The types of the parts of a variable.
LEMMA VariableType ==
    ASSUME NEW e \in AllVariables(data)
    PROVE  e[1] \in Trucks /\ e[2] \in Nodes(data) /\ e[3] \in Nodes(data)
BY DEF AllVariables, Trucks

LEMMA TrucksType ==
    ASSUME data \in Inputs
    PROVE  Len(data.trucks) \in Nat \ {0} /\ Trucks = 1 .. Len(data.trucks)
<1>1. data.trucks \in Seq(Truck) /\ data.trucks # <<>>
  BY InputsAssumption DEF IsData
<1>2. QED BY <1>1 DEF Trucks

\* Sets of nodes that a search finds hold what the variables lead to.
LEMMA GoalClosed ==
    ASSUME data \in Inputs, component \in {"source", "sink"}
    PROVE  /\ Goal \subseteq Nodes(data)
           /\ Start \in Goal
           /\ \A e \in AllVariables(data) :
                 e[1] = cur_truck_pos /\ Near(e) \in Goal => Far(e) \in Goal
<1>1. ffo_pos \in Nodes(data) /\ flo_pos \in Nodes(data)
  BY DEF Nodes
<1>2. Goal \subseteq Nodes(data) /\ Start \in Goal
  BY <1>1 DEF Goal, AheadOf, Ahead, BehindOf, Behind, Start
<1>3. ASSUME NEW e \in AllVariables(data), e[1] = cur_truck_pos, Near(e) \in Goal
      PROVE  Far(e) \in Goal
  <2>1. e[2] \in Nodes(data) /\ e[3] \in Nodes(data)
    BY VariableType
  <2>2. CASE component = "source"
    BY <1>3, <2>1, <2>2 DEF Goal, AheadOf, Ahead, Near, Far
  <2>3. CASE component = "sink"
    BY <1>3, <2>1, <2>3 DEF Goal, BehindOf, Behind, Near, Far
  <2>4. QED BY <2>2, <2>3
<1>4. QED BY <1>2, <1>3

\* A search that has called every node it reached has found all that there is.
LEMMA SearchComplete ==
    ASSUME TypeOK, SearchInv, reached \subseteq used_
    PROVE  used_ = Goal
<1>1. used_ = reached /\ reached \in SUBSET Nodes(data)
  BY DEF TypeOK
<1>2. component \in {"source", "sink"}
  BY DEF TypeOK
<1>3. CASE component = "source"
  <2>1. ffo_pos \in used_
    BY <1>1, <1>3 DEF SearchInv, Start
  <2>2. \A e \in AllVariables(data) :
            e[1] = cur_truck_pos /\ e[2] \in used_ => e[3] \in used_
    BY <1>1, <1>3 DEF SearchInv, Near, Far
  <2>3. AheadOf(cur_truck_pos) \subseteq used_
    BY <1>1, <2>1, <2>2 DEF AheadOf, Ahead
  <2>4. QED BY <1>1, <1>3, <2>3 DEF SearchInv, Goal
<1>4. CASE component = "sink"
  <2>1. flo_pos \in used_
    BY <1>1, <1>4 DEF SearchInv, Start
  <2>2. \A e \in AllVariables(data) :
            e[1] = cur_truck_pos /\ e[3] \in used_ => e[2] \in used_
    BY <1>1, <1>4 DEF SearchInv, Near, Far
  <2>3. BehindOf(cur_truck_pos) \subseteq used_
    BY <1>1, <2>1, <2>2 DEF BehindOf, Behind
  <2>4. QED BY <1>1, <1>4, <2>3 DEF SearchInv, Goal
<1>5. QED BY <1>2, <1>3, <1>4

\* No variable is met more than twice.
LEMMA MetBound ==
    ASSUME TypeOK, NEW e \in AllVariables(data)
    PROVE  Met(e) \in 0 .. 2
<1>1. e[1] \in Nat /\ cur_truck_pos \in Nat
  BY VariableType, TrucksType DEF TypeOK
<1>2. QED BY <1>1 DEF Met, One

-----------------------------------------------------------------------------
(***************************************************************************)
(* The invariant, action by action.                                        *)
(***************************************************************************)
LEMMA InitFlow == Init => FlowInv
<1> SUFFICES ASSUME Init PROVE FlowInv
  OBVIOUS
<1>1. data \in Inputs /\ 1 \in Trucks
  BY TrucksType DEF Init
<1>2. orders_by_truck_pos \in Solution(data)
  BY DEF Init, Solution, Trucks
<1>3. QED BY <1>1, <1>2 DEF Init, FlowInv, TypeOK, FilterExact, Kept

LEMMA CreateFlow == FlowInv /\ CreateVariables => FlowInv'
<1> SUFFICES ASSUME FlowInv, CreateVariables PROVE FlowInv'
  OBVIOUS
<1>1. /\ TypeOK /\ data \in Inputs
      /\ component = "source" /\ cur_truck_pos = 1 /\ used_ = {} /\ variables = {}
      /\ setted_columns = {}
  BY DEF FlowInv, TypeOK, CreateVariables
<1>2. /\ data' = data /\ component' = "source" /\ cur_truck_pos' = 1 /\ used_' = {}
      /\ variables' = AllVariables(data) /\ valid_vars' = [v \in AllVariables(data) |-> 0]
      /\ reached' = {ffo_pos} /\ pc' = "presolve" /\ setted_columns' = {}
      /\ orders_by_truck_pos' = orders_by_truck_pos
  BY <1>1 DEF CreateVariables
<1>3. /\ Trucks' = Trucks /\ Nodes(data)' = Nodes(data) /\ AllVariables(data)' = AllVariables(data)
      /\ \A t : AheadOf(t)' = AheadOf(t)
      /\ Solution(data)' = Solution(data)
  BY <1>2, SameData
<1>4. AllVariables(data) \subseteq Trucks \X Nodes(data) \X Nodes(data) /\ ffo_pos \in Nodes(data)
  BY DEF AllVariables, Nodes, Trucks
<1>5. TypeOK'
  BY <1>1, <1>2, <1>3, <1>4 DEF TypeOK
<1>6. \A e \in AllVariables(data) : e[1] \in Nat /\ e[1] >= 1
  BY <1>1, VariableType, TrucksType
<1>7. \A e \in AllVariables(data) : Met(e)' = 0
  BY <1>2, <1>6 DEF Met, One
<1>8. ffo_pos \in AheadOf(1)
  BY <1>4 DEF AheadOf, Ahead
<1>9. reached' \subseteq Goal'
  BY <1>2, <1>3, <1>8 DEF Goal
<1>10. SearchInv'
  BY <1>2, <1>3, <1>7, <1>9 DEF SearchInv, Start, Near, Far
<1>11. QED BY <1>2, <1>5, <1>10 DEF FlowInv, FilterExact, Kept

LEMMA VisitFlow == ASSUME NEW v \in Nodes(data) PROVE FlowInv /\ Visit(v) => FlowInv'
<1> SUFFICES ASSUME FlowInv, Visit(v) PROVE FlowInv'
  OBVIOUS
<1>1. /\ TypeOK /\ SearchInv /\ data \in Inputs /\ component \in {"source", "sink"}
      /\ setted_columns = {} /\ pc = "presolve"
  BY DEF FlowInv, TypeOK, Visit
<1>2. /\ data' = data /\ component' = component /\ cur_truck_pos' = cur_truck_pos
      /\ used_' = used_ \cup {v} /\ variables' = variables
      /\ valid_vars' = [e \in variables |->
                           IF e \in Leaving(v) THEN valid_vars[e] + 1 ELSE valid_vars[e]]
      /\ reached' = reached \cup Heads(v) /\ pc' = "presolve" /\ setted_columns' = {}
      /\ orders_by_truck_pos' = orders_by_truck_pos
      /\ v \in reached /\ v \notin used_
  BY <1>1 DEF Visit
<1>3. /\ Trucks' = Trucks /\ Nodes(data)' = Nodes(data) /\ AllVariables(data)' = AllVariables(data)
      /\ \A t : AheadOf(t)' = AheadOf(t)
      /\ \A t : BehindOf(t)' = BehindOf(t)
      /\ Solution(data)' = Solution(data)
  BY <1>2, SameData
<1>4. /\ Leaving(v) = {e \in AllVariables(data) : e[1] = cur_truck_pos /\ Near(e) = v}
      /\ Heads(v) = {Far(e) : e \in Leaving(v)}
  BY <1>1 DEF SearchInv, Leaving, Heads, Near, Far
<1>5. Start' = Start /\ Goal' = Goal
  BY <1>2, <1>3 DEF Start, Goal
<1>6. \A e : Near(e)' = Near(e) /\ Far(e)' = Far(e)
  BY <1>2 DEF Near, Far
<1>7. Heads(v) \subseteq Goal
  BY <1>1, <1>2, <1>4, GoalClosed DEF SearchInv
<1>8. reached' \subseteq Goal' /\ Start' \in reached'
  BY <1>1, <1>2, <1>5, <1>7 DEF SearchInv
<1>9. \A e \in AllVariables(data) :
          e[1] = cur_truck_pos' /\ Near(e)' \in used_' => Far(e)' \in reached'
  BY <1>1, <1>2, <1>4, <1>6 DEF SearchInv
<1>10. ASSUME NEW e \in AllVariables(data)
       PROVE  valid_vars'[e] = Met(e)'
  <2>1. e[1] \in Nat /\ cur_truck_pos \in Nat
    BY <1>1, VariableType, TrucksType DEF TypeOK
  <2>2. valid_vars[e] = Met(e)
    BY <1>1 DEF SearchInv
  <2>3. valid_vars'[e] = IF e \in Leaving(v) THEN valid_vars[e] + 1 ELSE valid_vars[e]
    BY <1>1, <1>2 DEF SearchInv
  <2>4. CASE e \in Leaving(v)
    <3>1. e[1] = cur_truck_pos /\ Near(e) = v
      BY <1>4, <2>4
    <3>2. CASE component = "source"
      BY <1>2, <1>3, <2>1, <2>2, <2>3, <2>4, <3>1, <3>2 DEF Met, One, Near
    <3>3. CASE component = "sink"
      BY <1>2, <1>3, <2>1, <2>2, <2>3, <2>4, <3>1, <3>3 DEF Met, One, Near
    <3>4. QED BY <1>1, <3>2, <3>3
  <2>5. CASE e \notin Leaving(v)
    <3>1. ~(e[1] = cur_truck_pos /\ Near(e) = v)
      BY <1>4, <2>5
    <3>2. Met(e)' = Met(e)
      BY <1>1, <1>2, <1>3, <2>1, <3>1 DEF Met, One, Near
    <3>3. QED BY <2>2, <2>3, <2>5, <3>2
  <2>6. QED BY <2>4, <2>5
<1>11. DOMAIN valid_vars' = AllVariables(data)'
  BY <1>1, <1>2, <1>3 DEF SearchInv
<1>12. SearchInv'
  BY <1>1, <1>2, <1>3, <1>8, <1>9, <1>10, <1>11 DEF SearchInv
<1>13. TypeOK'
  <2>1. reached' \subseteq Nodes(data)' /\ used_' \subseteq reached'
    BY <1>1, <1>2, <1>3, <1>5, <1>8, GoalClosed DEF TypeOK
  <2>2. ASSUME NEW e \in AllVariables(data) PROVE Met(e)' \in 0 .. 2
    <3>1. e[1] \in Nat /\ cur_truck_pos' \in Nat
      BY <1>1, <1>2, VariableType, TrucksType DEF TypeOK
    <3>2. QED BY <3>1 DEF Met, One
  <2>3. \A e \in DOMAIN valid_vars' : valid_vars'[e] \in 0 .. 2
    BY <1>3, <1>10, <1>11, <2>2
  <2>4. DOMAIN valid_vars' = variables' /\ variables' \subseteq Trucks' \X Nodes(data)' \X Nodes(data)'
    BY <1>1, <1>2, <1>3, <1>11 DEF SearchInv, TypeOK
  <2>5. QED BY <1>1, <1>2, <1>3, <2>1, <2>3, <2>4 DEF TypeOK
<1>14. QED BY <1>2, <1>12, <1>13 DEF FlowInv, FilterExact, Kept

LEMMA SearchSinkFlow == FlowInv /\ SearchSink => FlowInv'
<1> SUFFICES ASSUME FlowInv, SearchSink PROVE FlowInv'
  OBVIOUS
<1>1. /\ TypeOK /\ SearchInv /\ data \in Inputs /\ setted_columns = {}
      /\ component = "source" /\ used_ = AheadOf(cur_truck_pos)
  BY SearchComplete DEF FlowInv, TypeOK, SearchSink, Goal
<1>2. /\ data' = data /\ component' = "sink" /\ cur_truck_pos' = cur_truck_pos
      /\ used_' = {} /\ reached' = {flo_pos} /\ variables' = variables
      /\ valid_vars' = valid_vars /\ pc' = "presolve" /\ setted_columns' = {}
      /\ orders_by_truck_pos' = orders_by_truck_pos
  BY <1>1 DEF SearchSink, ClearGraph
<1>3. /\ Trucks' = Trucks /\ Nodes(data)' = Nodes(data) /\ AllVariables(data)' = AllVariables(data)
      /\ \A t : AheadOf(t)' = AheadOf(t)
      /\ \A t : BehindOf(t)' = BehindOf(t)
      /\ Solution(data)' = Solution(data)
  BY <1>2, SameData
<1>4. flo_pos \in Nodes(data)
  BY DEF Nodes
<1>5. TypeOK'
  BY <1>1, <1>2, <1>3, <1>4 DEF TypeOK
<1>6. flo_pos \in BehindOf(cur_truck_pos)
  BY <1>4 DEF BehindOf, Behind
<1>7. reached' \subseteq Goal'
  BY <1>2, <1>3, <1>6 DEF Goal
<1>8. ASSUME NEW e \in AllVariables(data) PROVE Met(e)' = Met(e)
  <2>1. e[1] \in Nat /\ cur_truck_pos \in Nat
    BY <1>1, VariableType, TrucksType DEF TypeOK
  <2>2. QED BY <1>1, <1>2, <1>3, <2>1 DEF Met, One
<1>9. SearchInv'
  BY <1>1, <1>2, <1>3, <1>7, <1>8 DEF SearchInv, Start, Near, Far
<1>10. QED BY <1>2, <1>5, <1>9 DEF FlowInv, FilterExact, Kept

LEMMA SearchNextTruckFlow == FlowInv /\ SearchNextTruck => FlowInv'
<1> SUFFICES ASSUME FlowInv, SearchNextTruck PROVE FlowInv'
  OBVIOUS
<1>1. /\ TypeOK /\ SearchInv /\ data \in Inputs /\ setted_columns = {}
      /\ component = "sink" /\ used_ = BehindOf(cur_truck_pos)
      /\ cur_truck_pos \in Trucks /\ cur_truck_pos < Len(data.trucks)
  BY SearchComplete DEF FlowInv, TypeOK, SearchNextTruck, Goal
<1>2. /\ data' = data /\ component' = "source" /\ cur_truck_pos' = cur_truck_pos + 1
      /\ used_' = {} /\ reached' = {ffo_pos} /\ variables' = variables
      /\ valid_vars' = valid_vars /\ pc' = "presolve" /\ setted_columns' = {}
      /\ orders_by_truck_pos' = orders_by_truck_pos
  BY <1>1 DEF SearchNextTruck, ClearGraph
<1>3. /\ Trucks' = Trucks /\ Nodes(data)' = Nodes(data) /\ AllVariables(data)' = AllVariables(data)
      /\ \A t : AheadOf(t)' = AheadOf(t)
      /\ \A t : BehindOf(t)' = BehindOf(t)
      /\ Solution(data)' = Solution(data)
  BY <1>2, SameData
<1>4. ffo_pos \in Nodes(data) /\ cur_truck_pos + 1 \in Trucks
  BY <1>1, TrucksType DEF Nodes
<1>5. TypeOK'
  BY <1>1, <1>2, <1>3, <1>4 DEF TypeOK
<1>6. ffo_pos \in AheadOf(cur_truck_pos + 1)
  BY <1>4 DEF AheadOf, Ahead
<1>7. reached' \subseteq Goal'
  BY <1>2, <1>3, <1>6 DEF Goal
<1>8. ASSUME NEW e \in AllVariables(data) PROVE Met(e)' = Met(e)
  <2>1. e[1] \in Nat /\ cur_truck_pos \in Nat
    BY <1>1, VariableType, TrucksType DEF TypeOK
  <2>2. QED BY <1>1, <1>2, <1>3, <2>1 DEF Met, One
<1>9. SearchInv'
  BY <1>1, <1>2, <1>3, <1>7, <1>8 DEF SearchInv, Start, Near, Far
<1>10. QED BY <1>2, <1>5, <1>9 DEF FlowInv, FilterExact, Kept

\* After the last search every counter tells whether the variable lies between.
LEMMA FilterFlow == FlowInv /\ Filter => FlowInv'
<1> SUFFICES ASSUME FlowInv, Filter PROVE FlowInv'
  OBVIOUS
<1>1. /\ TypeOK /\ SearchInv /\ data \in Inputs /\ setted_columns = {}
      /\ component = "sink" /\ used_ = BehindOf(cur_truck_pos)
      /\ cur_truck_pos = Len(data.trucks)
  BY SearchComplete DEF FlowInv, TypeOK, Filter, Goal
<1>2. /\ data' = data /\ component' = component /\ cur_truck_pos' = cur_truck_pos
      /\ used_' = {} /\ reached' = reached /\ valid_vars' = valid_vars
      /\ variables' = {e \in variables : valid_vars[e] = 2}
      /\ pc' = "rows" /\ setted_columns' = {}
      /\ orders_by_truck_pos' = orders_by_truck_pos
  BY <1>1 DEF Filter, ClearGraph
<1>3. /\ Trucks' = Trucks /\ Nodes(data)' = Nodes(data) /\ AllVariables(data)' = AllVariables(data)
      /\ \A t : AheadOf(t)' = AheadOf(t)
      /\ \A t : BehindOf(t)' = BehindOf(t)
      /\ Solution(data)' = Solution(data)
  BY <1>2, SameData
<1>4. TypeOK'
  BY <1>1, <1>2, <1>3 DEF TypeOK
<1>5. ASSUME NEW e \in AllVariables(data)
      PROVE  valid_vars[e] = 2 <=> e[2] \in AheadOf(e[1]) /\ e[3] \in BehindOf(e[1])
  <2>1. e[1] \in 1 .. cur_truck_pos /\ cur_truck_pos \in Nat
    BY <1>1, VariableType, TrucksType
  <2>2. Met(e) = One(e[2] \in AheadOf(e[1])) + One(e[3] \in BehindOf(e[1]))
    BY <1>1, <2>1 DEF Met
  <2>3. QED BY <1>1, <2>2 DEF SearchInv, One
<1>6. \A e \in AllVariables(data) : valid_vars[e] = 2 <=> e \in Kept(data)
  BY <1>5, VariableType DEF Kept, AheadOf, BehindOf
<1>7. Kept(data) \subseteq AllVariables(data) /\ Kept(data)' = Kept(data)
  BY <1>2 DEF Kept
<1>8. variables' = {e \in AllVariables(data) : valid_vars[e] = 2}
  BY <1>1, <1>2 DEF SearchInv
<1>9. FilterExact'
  BY <1>6, <1>7, <1>8 DEF FilterExact
<1>10. QED BY <1>2, <1>4, <1>9 DEF FlowInv

LEMMA BuildRowsFlow == FlowInv /\ BuildRows => FlowInv'
<1> SUFFICES ASSUME FlowInv, BuildRows PROVE FlowInv'
  OBVIOUS
<1>1. data' = data /\ pc' \in {"aborted", "highs"}
  BY DEF BuildRows
<1>2. Trucks' = Trucks /\ Nodes(data)' = Nodes(data) /\ Solution(data)' = Solution(data)
  BY <1>1, SameData
<1>3. TypeOK'
  BY <1>1, <1>2 DEF FlowInv, TypeOK, BuildRows
<1>4. QED BY <1>1, <1>3 DEF FlowInv, FilterExact, Kept

LEMMA HighsSolvesFlow == FlowInv /\ HighsSolves => FlowInv'
<1> SUFFICES ASSUME FlowInv, HighsSolves PROVE FlowInv'
  OBVIOUS
<1>1. data' = data /\ pc' = "readback" /\ setted_columns' \in Flows
  BY DEF HighsSolves
<1>2. Trucks' = Trucks /\ Nodes(data)' = Nodes(data) /\ Solution(data)' = Solution(data)
  BY <1>1, SameData
<1>3. setted_columns' \subseteq variables
  BY <1>1 DEF Flows
<1>4. TypeOK'
  BY <1>1, <1>2, <1>3 DEF FlowInv, TypeOK, HighsSolves
<1>5. QED BY <1>1, <1>4 DEF FlowInv, FilterExact, Kept

LEMMA HighsFailsFlow == FlowInv /\ HighsFails => FlowInv'
<1> SUFFICES ASSUME FlowInv, HighsFails PROVE FlowInv'
  OBVIOUS
<1>1. data' = data /\ pc' \in {"readback", "aborted"}
  BY DEF HighsFails
<1>2. Trucks' = Trucks /\ Nodes(data)' = Nodes(data) /\ Solution(data)' = Solution(data)
  BY <1>1, SameData
<1>3. TypeOK'
  BY <1>1, <1>2 DEF FlowInv, TypeOK, HighsFails
<1>4. QED BY <1>1, <1>3 DEF FlowInv, FilterExact, Kept

\* A sorted set of orders is a sequence of them.
LEMMA SortedType ==
    ASSUME data \in Inputs, NEW S \in SUBSET Orders, NEW s \in SortedByStart(S)
    PROVE  s \in Seq(Orders)
<1>1. data.orders \in Seq(Order)
  BY InputsAssumption DEF IsData
<1>2. Orders = 1 .. Len(data.orders) /\ Len(data.orders) \in Nat
  BY <1>1 DEF Orders
<1>3. IsFiniteSet(Orders)
  BY <1>2, FS_Interval
<1>4. Cardinality(S) \in Nat
  BY <1>3, FS_Subset, FS_CardinalityType
<1>5. s \in [1 .. Cardinality(S) -> Orders]
  BY DEF SortedByStart
<1>6. QED BY <1>4, <1>5

LEMMA ReadBackFlow == FlowInv /\ ReadBack => FlowInv'
<1> SUFFICES ASSUME FlowInv, ReadBack PROVE FlowInv'
  OBVIOUS
<1>1. data' = data /\ pc' = "done" /\ data \in Inputs
  BY DEF ReadBack, FlowInv, TypeOK
<1>2. Trucks' = Trucks /\ Nodes(data)' = Nodes(data) /\ Solution(data)' = Solution(data)
  BY <1>1, SameData
<1>3. DOMAIN orders_by_truck_pos' = Trucks
  BY DEF ReadBack
<1>4. ASSUME NEW t \in Trucks
      PROVE  orders_by_truck_pos'[t] \in Seq(Orders)
  <2>1. Scheduled(t) \in SUBSET Orders
    BY DEF Scheduled
  <2>2. orders_by_truck_pos'[t] \in SortedByStart(Scheduled(t))
    BY DEF ReadBack
  <2>3. QED BY <1>1, <2>1, <2>2, SortedType
<1>5. orders_by_truck_pos' \in [Trucks -> Seq(Orders)]
  <2>1. orders_by_truck_pos' = [t \in Trucks |-> orders_by_truck_pos'[t]]
    BY DEF ReadBack
  <2>2. QED BY <1>4, <2>1
<1>6. orders_by_truck_pos' \in Solution(data)'
  BY <1>2, <1>5 DEF Solution, Trucks, Orders
<1>7. TypeOK'
  BY <1>1, <1>2, <1>6 DEF FlowInv, TypeOK, ReadBack
<1>8. QED BY <1>1, <1>7 DEF FlowInv, FilterExact, Kept

LEMMA FlowStep == FlowInv /\ [Next]_vars => FlowInv'
<1> SUFFICES ASSUME FlowInv, [Next]_vars PROVE FlowInv'
  OBVIOUS
<1>1. CASE CreateVariables
  BY <1>1, CreateFlow
<1>2. ASSUME NEW v \in Nodes(data), Visit(v) PROVE FlowInv'
  BY <1>2, VisitFlow
<1>3. CASE SearchSink
  BY <1>3, SearchSinkFlow
<1>4. CASE SearchNextTruck
  BY <1>4, SearchNextTruckFlow
<1>5. CASE Filter
  BY <1>5, FilterFlow
<1>6. CASE BuildRows
  BY <1>6, BuildRowsFlow
<1>7. CASE HighsSolves
  BY <1>7, HighsSolvesFlow
<1>8. CASE HighsFails
  BY <1>8, HighsFailsFlow
<1>9. CASE ReadBack
  BY <1>9, ReadBackFlow
<1>10. CASE UNCHANGED vars
  <2>1. data' = data
    BY <1>10 DEF vars
  <2>2. /\ Trucks' = Trucks /\ Nodes(data)' = Nodes(data) /\ AllVariables(data)' = AllVariables(data)
        /\ \A t : AheadOf(t)' = AheadOf(t)
        /\ \A t : BehindOf(t)' = BehindOf(t)
        /\ Solution(data)' = Solution(data)
    BY <2>1, SameData
  <2>3. TypeOK' /\ FilterExact'
    BY <1>10, <2>2 DEF FlowInv, TypeOK, FilterExact, vars, Kept
  <2>4. ASSUME pc = "presolve" PROVE SearchInv'
    <3>1. Goal' = Goal /\ Start' = Start
      BY <1>10, <2>2 DEF Goal, Start, vars
    <3>2. \A e : Near(e)' = Near(e) /\ Far(e)' = Far(e) /\ Met(e)' = Met(e)
      BY <1>10, <2>2 DEF Near, Far, Met, vars
    <3>3. QED BY <1>10, <2>2, <2>4, <3>1, <3>2 DEF FlowInv, SearchInv, vars
  <2>5. QED BY <1>10, <2>3, <2>4 DEF FlowInv, vars
<1>11. QED
  BY <1>1, <1>2, <1>3, <1>4, <1>5, <1>6, <1>7, <1>8, <1>9, <1>10 DEF Next, Terminated

\* The variables of FlowSolver and PreSolver keep their types for all inputs, and
\* no counter of valid_vars_ passes 2.
THEOREM FlowTypeCorrect == Spec => []TypeOK
<1>1. FlowInv => TypeOK
  BY DEF FlowInv
<1>2. QED BY InitFlow, FlowStep, <1>1, PTL DEF Spec

\* For all inputs, and whatever cycles their orders make, PreSolve keeps exactly the
\* variables between the fake first and the fake last order of their truck.
THEOREM FilterCorrect == Spec => []FilterExact
<1>1. FlowInv => FilterExact
  BY DEF FlowInv
<1>2. QED BY InitFlow, FlowStep, <1>1, PTL DEF Spec

-----------------------------------------------------------------------------
(***************************************************************************)
(* A plan and the solutions of the rows.                                   *)
(***************************************************************************)
LEMMA OrdersType ==
    ASSUME data \in Inputs
    PROVE  /\ Len(data.orders) \in Nat /\ Orders = 1 .. Len(data.orders)
           /\ \A o \in Orders : data.orders[o] \in Order
           /\ \A t \in Trucks : data.trucks[t] \in Truck
           /\ ffo_pos \notin Orders /\ flo_pos \notin Orders /\ ffo_pos # flo_pos
           /\ DOMAIN data.dists \subseteq City \X City
           /\ data.dists \in [DOMAIN data.dists -> Nat]
           /\ data.speed \in Nat \ {0}
<1>1. IsData(data)
  BY InputsAssumption
<1> QED
  BY <1>1, DataIs DEF Orders, Trucks

LEMMA TrucksFinite == ASSUME data \in Inputs PROVE IsFiniteSet(Trucks)
<1>1. Trucks = 1 .. Len(data.trucks) /\ Len(data.trucks) \in Int
  BY TrucksType
<1> QED
  BY <1>1, FS_Interval

LEMMA EdgesFinite ==
    ASSUME data \in Inputs
    PROVE  IsFiniteSet(Trucks \X Nodes(data) \X Nodes(data))
<1> DEFINE pairs == Trucks \X (Nodes(data) \X Nodes(data))
           f == [p \in pairs |-> <<p[1], p[2][1], p[2][2]>>]
<1>1. IsFiniteSet(Trucks) /\ IsFiniteSet(Orders)
  <2>1. Orders = 1 .. Len(data.orders) /\ Len(data.orders) \in Int /\ IsFiniteSet(Trucks)
    BY TrucksFinite, OrdersType
  <2> QED
    BY <2>1, FS_Interval
<1>2. IsFiniteSet({ffo_pos, flo_pos})
  <2>1. IsFiniteSet({ffo_pos} \cup {flo_pos})
    BY FS_Singleton, FS_AddElement
  <2>2. {ffo_pos} \cup {flo_pos} = {ffo_pos, flo_pos}
    OBVIOUS
  <2> QED
    BY <2>1, <2>2
<1>3. IsFiniteSet(Nodes(data))
  BY <1>1, <1>2, FS_Union DEF Nodes, Orders
<1>4. IsFiniteSet(pairs)
  <2>1. IsFiniteSet(Nodes(data) \X Nodes(data))
    BY <1>3, FS_Product
  <2> QED
    BY <1>1, <2>1, FS_Product
<1>5. f \in Surjection(pairs, Trucks \X Nodes(data) \X Nodes(data))
  <2>1. f \in [pairs -> Trucks \X Nodes(data) \X Nodes(data)]
    OBVIOUS
  <2>2. ASSUME NEW e \in Trucks \X Nodes(data) \X Nodes(data)
        PROVE  \E p \in pairs : f[p] = e
    <3>1. <<e[1], <<e[2], e[3]>>>> \in pairs
      OBVIOUS
    <3>2. f[<<e[1], <<e[2], e[3]>>>>] = e
      BY <3>1
    <3> QED
      BY <3>1, <3>2
  <2> QED
    BY <2>1, <2>2 DEF Surjection
<1> QED
  BY <1>4, <1>5, FS_Surjection

\* Edges that leave or enter a node, counted.
LEMMA EdgeCounts ==
    ASSUME data \in Inputs, NEW flow \in SUBSET (Trucks \X Nodes(data) \X Nodes(data)), NEW node
    PROVE  /\ \A e \in flow : (\A d \in flow : d[2] = node <=> d = e)
                                 => Cardinality(Outgoing(flow, node)) = 1
           /\ \A e \in flow : (\A d \in flow : d[3] = node <=> d = e)
                                 => Cardinality(Incoming(flow, node)) = 1
           /\ (\A d \in flow : d[2] # node) <=> Cardinality(Outgoing(flow, node)) = 0
           /\ (\A d \in flow : d[3] # node) <=> Cardinality(Incoming(flow, node)) = 0
           /\ Cardinality(Outgoing(flow, node)) <= 1 =>
                 \A d, e \in flow : d[2] = node /\ e[2] = node => d = e
           /\ Cardinality(Outgoing(flow, node)) \in Nat
           /\ Cardinality(Incoming(flow, node)) \in Nat
<1>1. /\ IsFiniteSet(Outgoing(flow, node)) /\ IsFiniteSet(Incoming(flow, node))
      /\ Cardinality(Outgoing(flow, node)) \in Nat
      /\ Cardinality(Incoming(flow, node)) \in Nat
  <2>1. /\ Outgoing(flow, node) \in SUBSET (Trucks \X Nodes(data) \X Nodes(data))
        /\ Incoming(flow, node) \in SUBSET (Trucks \X Nodes(data) \X Nodes(data))
    BY DEF Outgoing, Incoming
  <2>2. IsFiniteSet(Outgoing(flow, node)) /\ IsFiniteSet(Incoming(flow, node))
    BY <2>1, EdgesFinite, FS_Subset
  <2> QED
    BY <2>2, FS_CardinalityType
<1>2. ASSUME NEW e \in flow, \A d \in flow : d[2] = node <=> d = e
      PROVE  Cardinality(Outgoing(flow, node)) = 1
  <2>1. Outgoing(flow, node) = {e}
    BY <1>2 DEF Outgoing
  <2> QED
    BY <2>1, FS_Singleton
<1>3. ASSUME NEW e \in flow, \A d \in flow : d[3] = node <=> d = e
      PROVE  Cardinality(Incoming(flow, node)) = 1
  <2>1. Incoming(flow, node) = {e}
    BY <1>3 DEF Incoming
  <2> QED
    BY <2>1, FS_Singleton
<1>4. (\A d \in flow : d[2] # node) <=> Cardinality(Outgoing(flow, node)) = 0
  <2>1. Cardinality(Outgoing(flow, node)) = 0 <=> Outgoing(flow, node) = {}
    BY <1>1, FS_EmptySet
  <2> QED
    BY <2>1 DEF Outgoing
<1>5. (\A d \in flow : d[3] # node) <=> Cardinality(Incoming(flow, node)) = 0
  <2>1. Cardinality(Incoming(flow, node)) = 0 <=> Incoming(flow, node) = {}
    BY <1>1, FS_EmptySet
  <2> QED
    BY <2>1 DEF Incoming
<1>6. ASSUME Cardinality(Outgoing(flow, node)) <= 1, NEW d \in flow, NEW e \in flow,
             d[2] = node, e[2] = node
      PROVE  d = e
  <2>1. d \in Outgoing(flow, node) /\ e \in Outgoing(flow, node)
    BY <1>6 DEF Outgoing
  <2>2. Cardinality(Outgoing(flow, node)) # 0
    BY <1>1, <2>1, FS_EmptySet
  <2>3. Cardinality(Outgoing(flow, node)) = 1
    BY <1>1, <1>6, <2>2
  <2>4. PICK x : Outgoing(flow, node) = {x}
    BY <1>1, <2>3, FS_Singleton
  <2> QED
    BY <2>1, <2>4
<1> QED
  BY <1>1, <1>2, <1>3, <1>4, <1>5, <1>6

-----------------------------------------------------------------------------
(***************************************************************************)
(* Every plan is a solution of the rows.                                   *)
(***************************************************************************)
\* Where a route leads, in the words of this module.
LEMMA RoutePlaces ==
    ASSUME data \in Inputs, NEW t \in Trucks, NEW route, Driven(data, t, route)
    PROVE  /\ RouteEdges(t, route) \in SUBSET (Trucks \X Nodes(data) \X Nodes(data))
           /\ \A i, j \in 0 .. Len(route) : From(route, i) = From(route, j) => i = j
           /\ \A i, j \in 0 .. Len(route) : To(route, i) = To(route, j) => i = j
           /\ \A i \in 1 .. Len(route) : From(route, i) = route[i] /\ To(route, i - 1) = route[i]
           /\ \A i \in 0 .. Len(route), o \in Orders :
                 (From(route, i) = o <=> i # 0 /\ route[i] = o)
           /\ \A i \in 0 .. Len(route), o \in Orders :
                 (To(route, i) = o <=> i # Len(route) /\ route[i + 1] = o)
<1>1. IsData(data) /\ t \in DOMAIN data.trucks /\ Orders = DOMAIN data.orders
      /\ Trucks = DOMAIN data.trucks
  BY InputsAssumption DEF Trucks, Orders
<1>2. RouteLeads(data, t, route)
  BY <1>1, RouteEnds
<1> QED
  BY <1>1, <1>2 DEF RouteLeads

\* Condition 1: a route leaves an order as often as it enters it.
LEMMA RouteRows ==
    ASSUME data \in Inputs, NEW t \in Trucks, NEW route, Driven(data, t, route)
    PROVE  TruckRows(RouteEdges(t, route))
<1> DEFINE flow == RouteEdges(t, route)
           edge(i) == <<t, From(route, i), To(route, i)>>
<1>1. /\ Len(route) \in Nat
      /\ flow \in SUBSET (Trucks \X Nodes(data) \X Nodes(data))
      /\ \A i \in 0 .. Len(route) : edge(i) \in flow
      /\ \A e \in flow : \E i \in 0 .. Len(route) : e = edge(i)
      /\ \A i \in 0 .. Len(route) : edge(i)[2] = From(route, i) /\ edge(i)[3] = To(route, i)
  BY RoutePlaces DEF RouteEdges, Driven
<1> HIDE DEF flow, edge
<1>2. ASSUME NEW i \in 0 .. Len(route)
      PROVE  Cardinality(Outgoing(flow, From(route, i))) = 1
  <2>1. \A d \in flow : d[2] = From(route, i) <=> d = edge(i)
    BY <1>1, RoutePlaces
  <2>2. \A node : \A e \in flow : (\A d \in flow : d[2] = node <=> d = e)
                                     => Cardinality(Outgoing(flow, node)) = 1
    BY <1>1, EdgeCounts
  <2>3. edge(i) \in flow
    BY <1>1
  <2> QED
    BY <2>1, <2>2, <2>3
<1>3. ASSUME NEW i \in 0 .. Len(route)
      PROVE  Cardinality(Incoming(flow, To(route, i))) = 1
  <2>1. \A d \in flow : d[3] = To(route, i) <=> d = edge(i)
    BY <1>1, RoutePlaces
  <2>2. \A node : \A e \in flow : (\A d \in flow : d[3] = node <=> d = e)
                                     => Cardinality(Incoming(flow, node)) = 1
    BY <1>1, EdgeCounts
  <2>3. edge(i) \in flow
    BY <1>1
  <2> QED
    BY <2>1, <2>2, <2>3
<1>4. ASSUME NEW o \in Orders
      PROVE  Cardinality(Outgoing(flow, o)) = Cardinality(Incoming(flow, o))
  <2>1. CASE \E i \in 1 .. Len(route) : route[i] = o
    <3>1. PICK i \in 1 .. Len(route) : route[i] = o
      BY <2>1
    <3>2. i \in 0 .. Len(route) /\ i - 1 \in 0 .. Len(route)
      <4>1. Len(route) \in Nat /\ i \in 1 .. Len(route)
        BY <1>1
      <4> QED
        BY <4>1
    <3>3. From(route, i) = o /\ To(route, i - 1) = o
      BY <3>1, RoutePlaces
    <3>4. Cardinality(Outgoing(flow, o)) = 1 /\ Cardinality(Incoming(flow, o)) = 1
      BY <1>2, <1>3, <3>2, <3>3
    <3> QED
      BY <3>4
  <2>2. CASE ~ \E i \in 1 .. Len(route) : route[i] = o
    <3>1. \A i \in 0 .. Len(route) : From(route, i) # o /\ To(route, i) # o
      <4>1. \A i \in 0 .. Len(route) : (i # 0 => i \in 1 .. Len(route)) /\
                                       (i # Len(route) => i + 1 \in 1 .. Len(route))
        BY <1>1
      <4> QED
        BY <2>2, <4>1, RoutePlaces
    <3>2. \A d \in flow : d[2] # o /\ d[3] # o
      BY <1>1, <3>1
    <3>3. Cardinality(Outgoing(flow, o)) = 0 /\ Cardinality(Incoming(flow, o)) = 0
      BY <1>1, <3>2, EdgeCounts
    <3> QED
      BY <3>3
  <2> QED
    BY <2>1, <2>2
<1>5. Cardinality(Outgoing(flow, ffo_pos)) = 1 /\ Cardinality(Incoming(flow, flo_pos)) = 1
  <2>1. 0 \in 0 .. Len(route) /\ Len(route) \in 0 .. Len(route)
    BY <1>1
  <2>2. From(route, 0) = ffo_pos /\ To(route, Len(route)) = flo_pos
    BY DEF From, To
  <2> QED
    BY <1>2, <1>3, <2>1, <2>2
<1> QED
  BY <1>4, <1>5 DEF TruckRows, flow

-----------------------------------------------------------------------------
\* The operators that Assignment gets from Checker and Fleet are those of here.
LEMMA SameOperators ==
    /\ A!Plans(data) = {plan \in [Trucks -> A!Routes(data)] :
                           /\ Accepts(data, plan)
                           /\ NoRepeats(plan)
                           /\ A!Required(data) \subseteq Served(plan)}
    /\ A!Required(data) = {o \in Orders : data.orders[o].obligation}
    /\ A!Solution(data) = Solution(data)
    /\ A!ForwardOrders(data) <=> ForwardOrders(data)
    /\ A!Nothing(data) = [t \in Trucks |-> <<>>]
<1>1. \A plan : A!Accepts(data, plan) <=> Accepts(data, plan)
  BY DEF A!Accepts, Accepts, A!MoveBetweenOrders, MoveBetweenOrders, A!IsExecutableBy,
         IsExecutableBy, A!CanReach, CanReach, A!HasRoad, HasRoad, A!TravelTime, TravelTime,
         A!GetDistance, GetDistance, A!Previous, Previous, A!make_ffo, make_ffo, A!EndOf, EndOf
<1>2. \A plan : (A!NoRepeats(plan) <=> NoRepeats(plan)) /\ A!Served(plan) = Served(plan)
  BY DEF A!NoRepeats, NoRepeats, A!Served, Served
<1>3. A!Plans(data) = {plan \in [Trucks -> A!Routes(data)] :
                           /\ A!Accepts(data, plan)
                           /\ A!NoRepeats(plan)
                           /\ A!Required(data) \subseteq A!Served(plan)}
  BY DEF A!Plans, Trucks
<1>4. /\ A!Required(data) = {o \in Orders : data.orders[o].obligation}
      /\ A!Solution(data) = Solution(data)
      /\ A!ForwardOrders(data) <=> ForwardOrders(data)
      /\ A!Nothing(data) = [t \in Trucks |-> <<>>]
  BY DEF A!Required, Orders, A!Solution, Solution, A!ForwardOrders, ForwardOrders,
         A!Nothing, Trucks
<1> QED
  BY <1>1, <1>2, <1>3, <1>4

\* A sequence of different orders is a route, and the other way round.
LEMMA RoutesAre ==
    ASSUME data \in Inputs, NEW route
    PROVE  /\ route \in A!Routes(data) =>
                 /\ route \in Seq(Orders)
                 /\ \A i, j \in 1 .. Len(route) : route[i] = route[j] => i = j
           /\ \A n \in 0 .. Len(data.orders) :
                 /\ route \in [1 .. n -> Orders]
                 /\ \A i, j \in 1 .. n : route[i] = route[j] => i = j
                 => route \in A!Routes(data)
<1>1. Len(data.orders) \in Nat
  BY OrdersType
<1>2. ASSUME route \in A!Routes(data)
      PROVE  /\ route \in Seq(Orders)
             /\ \A i, j \in 1 .. Len(route) : route[i] = route[j] => i = j
  <2>1. PICK n \in 0 .. Len(data.orders) :
            /\ route \in [1 .. n -> Orders]
            /\ \A i, j \in 1 .. n : route[i] = route[j] => i = j
    BY <1>2 DEF A!Routes, Orders
  <2>2. n \in Nat
    BY <1>1
  <2>3. route \in Seq(Orders) /\ Len(route) = n
    BY <2>1, <2>2
  <2> QED
    BY <2>1, <2>3
<1>3. ASSUME NEW n \in 0 .. Len(data.orders), route \in [1 .. n -> Orders],
             \A i, j \in 1 .. n : route[i] = route[j] => i = j
      PROVE  route \in A!Routes(data)
  BY <1>3 DEF A!Routes, Orders
<1> QED
  BY <1>2, <1>3

LEMMA PlanDriven ==
    ASSUME data \in Inputs, NEW plan \in A!Plans(data)
    PROVE  /\ DOMAIN plan = Trucks
           /\ \A t \in Trucks : Driven(data, t, plan[t])
           /\ NoRepeats(plan)
           /\ \A o \in Orders : data.orders[o].obligation =>
                 \E t \in Trucks : \E i \in 1 .. Len(plan[t]) : plan[t][i] = o
<1>1. /\ plan \in [Trucks -> A!Routes(data)] /\ Accepts(data, plan) /\ NoRepeats(plan)
      /\ \A o \in Orders : data.orders[o].obligation => o \in Served(plan)
  BY SameOperators
<1>2. \A t \in Trucks : /\ plan[t] \in Seq(Orders) /\ DOMAIN plan[t] = 1 .. Len(plan[t])
                        /\ \A i, j \in 1 .. Len(plan[t]) : plan[t][i] = plan[t][j] => i = j
  BY <1>1, RoutesAre
<1>3. \A t \in Trucks : Driven(data, t, plan[t])
  BY <1>1, <1>2 DEF Driven, Accepts, Previous, Trucks, Orders
<1>4. ASSUME NEW o \in Orders, data.orders[o].obligation
      PROVE  \E t \in Trucks : \E i \in 1 .. Len(plan[t]) : plan[t][i] = o
  <2>1. o \in Served(plan)
    BY <1>1, <1>4
  <2>2. PICK t \in DOMAIN plan : o \in {plan[t][i] : i \in DOMAIN plan[t]}
    BY <2>1 DEF Served
  <2> QED
    BY <1>1, <1>2, <2>2
<1> QED
  BY <1>1, <1>3, <1>4

\* The edges of one truck.
OfTruck(flow, t) == {e \in flow : e[1] = t}

\* A solution of the rows is one for every truck by itself, and for every order.
LEMMA FlowsAre ==
    ASSUME variables \subseteq Trucks \X Nodes(data) \X Nodes(data), NEW flow
    PROVE  flow \in Flows <=>
              /\ flow \subseteq variables
              /\ \A t \in Trucks : TruckRows(OfTruck(flow, t))
              /\ \A o \in Orders : OrderRow(flow, o)
<1> DEFINE Rows(t) == {f \in SUBSET {e \in variables : e[1] = t} : TruckRows(f)}
           OfTrucks == [t \in Trucks |-> Rows(t)]
           Selections == {f \in [Trucks -> UNION {OfTrucks[t] : t \in Trucks}] :
                          \A t \in Trucks : f[t] \in OfTrucks[t]}
           Joined == {UNION {choice[t] : t \in Trucks} : choice \in Selections}
<1>1. Flows = {f \in Joined : \A o \in Orders : OrderRow(f, o)}
  BY DEF Flows
<1>2. \A t \in Trucks : OfTrucks[t] = Rows(t)
  OBVIOUS
<1>3. ASSUME flow \in Joined
      PROVE  /\ flow \subseteq variables
             /\ \A t \in Trucks : TruckRows(OfTruck(flow, t))
  <2>1. PICK choice \in Selections : flow = UNION {choice[t] : t \in Trucks}
    BY <1>3
  <2>2. \A t \in Trucks : choice[t] \in Rows(t)
    BY <1>2, <2>1
  <2>3. \A t \in Trucks : /\ TruckRows(choice[t]) /\ choice[t] \subseteq variables
                          /\ \A e \in choice[t] : e[1] = t
    BY <2>2
  <2>4. ASSUME NEW t \in Trucks PROVE OfTruck(flow, t) = choice[t]
    BY <2>1, <2>3 DEF OfTruck
  <2> QED
    BY <2>1, <2>3, <2>4
<1>4. ASSUME flow \subseteq variables, \A t \in Trucks : TruckRows(OfTruck(flow, t))
      PROVE  flow \in Joined
  <2> DEFINE choice == [t \in Trucks |-> OfTruck(flow, t)]
  <2>1. \A t \in Trucks : OfTruck(flow, t) \in Rows(t)
    BY <1>4 DEF OfTruck
  <2> HIDE DEF Rows
  <2>2. choice \in Selections
    BY <1>2, <2>1
  <2>3. \A e \in flow : e[1] \in Trucks
    BY <1>4
  <2>4. flow = UNION {OfTruck(flow, t) : t \in Trucks}
    BY <2>3 DEF OfTruck
  <2>5. flow = UNION {choice[t] : t \in Trucks}
    BY <2>4
  <2> QED
    BY <2>2, <2>5
<1> HIDE DEF Joined
<1> QED
  BY <1>1, <1>3, <1>4

\* Neither the tests of CreateModel nor the filter nor the rows lose a plan.
LEMMA PlanIsFlow ==
    ASSUME data \in Inputs, ForwardOrders(data), variables = Kept(data),
           NEW plan \in A!Plans(data)
    PROVE  EdgesOf(plan) \in Flows
<1> DEFINE flow == EdgesOf(plan)
           edge(t, i) == <<t, From(plan[t], i), To(plan[t], i)>>
<1>1. /\ \A t \in Trucks : Driven(data, t, plan[t])
      /\ \A t \in Trucks : Len(plan[t]) \in Nat
      /\ NoRepeats(plan) /\ DOMAIN plan = Trucks
  <2>1. /\ \A t \in Trucks : Driven(data, t, plan[t])
        /\ NoRepeats(plan) /\ DOMAIN plan = Trucks
    BY PlanDriven
  <2>2. ASSUME NEW t \in Trucks PROVE Len(plan[t]) \in Nat
    <3>1. plan[t] \in Seq(DOMAIN data.orders)
      BY <2>1 DEF Driven
    <3> QED
      BY <3>1
  <2> QED
    BY <2>1, <2>2
<1>2. flow = UNION {RouteEdges(t, plan[t]) : t \in Trucks}
  BY <1>1 DEF EdgesOf, RouteEdges, From, To
<1>3. \A t \in Trucks : \A e \in RouteEdges(t, plan[t]) : e[1] = t
  BY DEF RouteEdges
<1>4. variables \subseteq Trucks \X Nodes(data) \X Nodes(data)
  BY DEF Kept, AllVariables, Trucks
<1>5. IsData(data) /\ DOMAIN plan = DOMAIN data.trucks
      /\ \A t \in DOMAIN plan : Driven(data, t, plan[t])
  BY <1>1, InputsAssumption DEF Trucks
<1> HIDE DEF flow
<1>6. flow \subseteq variables
  BY <1>5, EdgesKept DEF flow
<1>7. ASSUME NEW t \in Trucks PROVE TruckRows(OfTruck(flow, t))
  <2>1. OfTruck(flow, t) = RouteEdges(t, plan[t])
    BY <1>2, <1>3 DEF OfTruck
  <2> QED
    BY <1>1, <2>1, RouteRows
<1>8. \A e \in flow : \E t \in Trucks : \E i \in 0 .. Len(plan[t]) : e = edge(t, i)
  BY <1>2 DEF RouteEdges
<1>9. \A t \in Trucks : \A i \in 0 .. Len(plan[t]) :
         edge(t, i) \in flow /\ edge(t, i)[2] = From(plan[t], i)
  BY <1>2 DEF RouteEdges
<1> HIDE DEF edge
\* NoRepeats: one edge at most leaves an order, whatever the truck.
<1>10. ASSUME NEW o \in Orders, NEW t \in Trucks,
              NEW i \in 1 .. Len(plan[t]), plan[t][i] = o
       PROVE  Cardinality(Outgoing(flow, o)) = 1
  <2>1. i \in 0 .. Len(plan[t]) /\ From(plan[t], i) = o
    BY <1>1, <1>10, RoutePlaces
  <2>2. ASSUME NEW d \in flow, d[2] = o PROVE d = edge(t, i)
    <3>0. PICK u \in Trucks : \E j \in 0 .. Len(plan[u]) : d = edge(u, j)
      BY <1>8
    <3>1. PICK j \in 0 .. Len(plan[u]) : d = edge(u, j)
      BY <3>0
    <3>2. From(plan[u], j) = o
      BY <1>9, <2>2, <3>1
    <3>3. j # 0 /\ plan[u][j] = o
      BY <1>1, <3>2, RoutePlaces
    <3>4. j \in DOMAIN plan[u] /\ i \in DOMAIN plan[t]
      <4>1. plan[u] \in Seq(Orders) /\ plan[t] \in Seq(Orders)
        BY <1>1 DEF Driven, Orders
      <4> QED
        BY <3>3, <4>1
    <3>5. u = t /\ j = i
      BY <1>1, <1>10, <3>3, <3>4 DEF NoRepeats
    <3> QED
      BY <3>1, <3>5
  <2>3. edge(t, i) \in flow /\ edge(t, i)[2] = o
    BY <1>9, <2>1
  <2>4. \A d \in flow : d[2] = o <=> d = edge(t, i)
    BY <2>2, <2>3
  <2>5. flow \in SUBSET (Trucks \X Nodes(data) \X Nodes(data))
    BY <1>4, <1>6
  <2> QED
    BY <2>3, <2>4, <2>5, EdgeCounts
<1>11. ASSUME NEW o \in Orders PROVE OrderRow(flow, o)
  <2>1. CASE \E t \in Trucks : \E i \in 1 .. Len(plan[t]) : plan[t][i] = o
    <3>1. Cardinality(Outgoing(flow, o)) = 1
      BY <1>10, <2>1
    <3> QED
      BY <3>1 DEF OrderRow
  <2>2. CASE ~ \E t \in Trucks : \E i \in 1 .. Len(plan[t]) : plan[t][i] = o
    <3>1. ~ data.orders[o].obligation
      BY <2>2, PlanDriven
    <3>2. ASSUME NEW d \in flow PROVE d[2] # o
      <4>0. PICK u \in Trucks : \E j \in 0 .. Len(plan[u]) : d = edge(u, j)
        BY <1>8
      <4>1. PICK j \in 0 .. Len(plan[u]) : d = edge(u, j)
        BY <4>0
      <4>2. j = 0 \/ j \in 1 .. Len(plan[u])
        <5>1. Len(plan[u]) \in Nat
          BY <1>1
        <5> QED
          BY <5>1
      <4>3. ~ (From(plan[u], j) = o)
        BY <1>1, <2>2, <4>2, RoutePlaces
      <4> QED
        BY <1>9, <4>1, <4>3
    <3>3. flow \in SUBSET (Trucks \X Nodes(data) \X Nodes(data))
      BY <1>4, <1>6
    <3>4. Cardinality(Outgoing(flow, o)) = 0
      BY <3>2, <3>3, EdgeCounts
    <3> QED
      BY <3>1, <3>4 DEF OrderRow
  <2> QED
    BY <2>1, <2>2
<1> QED
  BY <1>4, <1>6, <1>7, <1>11, FlowsAre DEF flow

-----------------------------------------------------------------------------
(***************************************************************************)
(* Every solution of the rows is read back as a plan.                      *)
(***************************************************************************)
\* Every order on the way of an edge starts after the one before it, so sorting by
\* the start times finds the way.
LEMMA EdgeForward ==
    ASSUME data \in Inputs, ForwardOrders(data), NEW e \in AllVariables(data),
           e[2] \in Orders, e[3] \in Orders
    PROVE  data.orders[e[2]].start_time < data.orders[e[3]].start_time
<1> DEFINE from == data.orders[e[2]]
           to == data.orders[e[3]]
<1>1. HasVariable(data, e[1], e[2], e[3]) /\ e[3] # flo_pos /\ e[2] # ffo_pos
  BY OrdersType DEF AllVariables
<1>2. CanReach(data, from, to)
  BY <1>1 DEF HasVariable, CanMove, MoveBetweenOrders
<1>3. from \in Order /\ to \in Order /\ from.start_time < from.finish_time
  BY OrdersType DEF ForwardOrders, Orders
<1> HIDE DEF from, to
<1>4. GetDistance(data, from.to_city, to.from_city) \in Nat /\ data.speed \in Nat \ {0}
  BY <1>2, <1>3, OrdersType DEF CanReach, HasRoad, GetDistance, Order
<1>5. TravelTime(data, from.to_city, to.from_city) \in Nat
  BY <1>4 DEF TravelTime
<1>6. from.finish_time + TravelTime(data, from.to_city, to.from_city) <= to.start_time
  BY <1>2 DEF CanReach
<1>7. from.start_time < to.start_time
  <2>1. from.start_time \in Nat /\ from.finish_time \in Nat /\ to.start_time \in Nat
    BY <1>3 DEF Order
  <2> QED
    BY <1>3, <1>5, <1>6, <2>1
<1> QED
  BY <1>7 DEF from, to

\* std::sort puts every order of a set in one place.
LEMMA SortedOnce ==
    ASSUME data \in Inputs, NEW S \in SUBSET Orders, NEW s \in SortedByStart(S)
    PROVE  /\ Cardinality(S) \in 0 .. Len(data.orders)
           /\ s \in [1 .. Cardinality(S) -> S]
           /\ \A o \in S : \E i \in 1 .. Cardinality(S) : s[i] = o
           /\ \A i, j \in 1 .. Cardinality(S) : s[i] = s[j] => i = j
           /\ \A i, j \in 1 .. Cardinality(S) : i < j =>
                 data.orders[s[i]].start_time <= data.orders[s[j]].start_time
<1> DEFINE m == Cardinality(S)
<1>1. /\ s \in [1 .. m -> S]
      /\ S = {s[i] : i \in DOMAIN s}
      /\ \A i, j \in DOMAIN s :
            i < j => data.orders[s[i]].start_time <= data.orders[s[j]].start_time
  BY DEF SortedByStart
<1>2. Orders = 1 .. Len(data.orders) /\ Len(data.orders) \in Nat
  BY OrdersType
<1>3. IsFiniteSet(Orders) /\ Cardinality(Orders) = Len(data.orders)
  BY <1>2, FS_Interval
<1>4. IsFiniteSet(S) /\ m <= Len(data.orders)
  BY <1>3, FS_Subset
<1>5. m \in Nat
  BY <1>4, FS_CardinalityType
<1>6. IsFiniteSet(1 .. m) /\ Cardinality(1 .. m) = m
  BY <1>5, FS_Interval
<1> HIDE DEF m
<1>7. s \in Surjection(1 .. m, S)
  BY <1>1 DEF Surjection
<1>8. s \in Injection(1 .. m, S)
  BY <1>6, <1>7, FS_Surjection DEF m
<1>9. \A i, j \in 1 .. m : s[i] = s[j] => i = j
  BY <1>1, <1>8 DEF Injection, IsInjective
<1>10. m \in 0 .. Len(data.orders)
  BY <1>2, <1>4, <1>5
<1>11. \A o \in S : \E i \in 1 .. m : s[i] = o
  BY <1>1
<1>12. DOMAIN s = 1 .. m
  BY <1>1
<1>13. \A i, j \in 1 .. m : i < j =>
          data.orders[s[i]].start_time <= data.orders[s[j]].start_time
  BY <1>1, <1>12
<1> QED
  BY <1>1, <1>9, <1>10, <1>11, <1>13 DEF m

\* What the rows say of a solution, edge by edge.
LEMMA FlowFacts ==
    ASSUME data \in Inputs, variables \subseteq AllVariables(data), NEW flow \in Flows
    PROVE  /\ flow \subseteq AllVariables(data)
           /\ \A d, e \in flow : d[2] \in Orders /\ d[2] = e[2] => d = e
           /\ \A d, e \in flow : d[2] = ffo_pos /\ e[2] = ffo_pos /\ d[1] = e[1] => d = e
           /\ \A d \in flow : d[2] \in Orders =>
                 \E e \in flow : e[1] = d[1] /\ e[3] = d[2]
           /\ \A d \in flow : d[3] \in Orders =>
                 \E e \in flow : e[1] = d[1] /\ e[2] = d[3]
           /\ \A t \in Trucks : \E e \in flow : e[1] = t /\ e[2] = ffo_pos
           /\ \A o \in Orders : data.orders[o].obligation => \E e \in flow : e[2] = o
<1>1. variables \subseteq Trucks \X Nodes(data) \X Nodes(data)
  BY DEF AllVariables, Trucks
<1>2. /\ flow \subseteq variables
      /\ \A t \in Trucks : TruckRows(OfTruck(flow, t))
      /\ \A o \in Orders : OrderRow(flow, o)
  BY <1>1, FlowsAre
<1>3. flow \in SUBSET (Trucks \X Nodes(data) \X Nodes(data))
  BY <1>1, <1>2
<1>4. \A t : OfTruck(flow, t) \in SUBSET (Trucks \X Nodes(data) \X Nodes(data))
  BY <1>3 DEF OfTruck
<1>5. ASSUME NEW d \in flow, NEW e \in flow, d[2] \in Orders, d[2] = e[2] PROVE d = e
  <2>1. Cardinality(Outgoing(flow, d[2])) <= 1
    BY <1>2, <1>5 DEF OrderRow
  <2> QED
    BY <1>3, <1>5, <2>1, EdgeCounts
<1>6. ASSUME NEW d \in flow, NEW e \in flow, d[2] = ffo_pos, e[2] = ffo_pos, d[1] = e[1]
      PROVE  d = e
  <2> DEFINE part == OfTruck(flow, d[1])
  <2>1. d \in part /\ e \in part /\ part \in SUBSET (Trucks \X Nodes(data) \X Nodes(data))
    BY <1>4, <1>6 DEF OfTruck
  <2>2. d[1] \in Trucks
    BY <1>3
  <2>3. Cardinality(Outgoing(part, ffo_pos)) = 1
    BY <1>2, <2>2 DEF TruckRows
  <2>4. Cardinality(Outgoing(part, ffo_pos)) <= 1
    BY <2>3
  <2> HIDE DEF part
  <2>5. \A x, y \in part : x[2] = ffo_pos /\ y[2] = ffo_pos => x = y
    BY <2>1, <2>4, EdgeCounts
  <2> QED
    BY <1>6, <2>1, <2>5
<1>7. ASSUME NEW d \in flow, d[2] \in Orders
      PROVE  \E e \in flow : e[1] = d[1] /\ e[3] = d[2]
  <2> DEFINE part == OfTruck(flow, d[1])
  <2>1. d \in part /\ part \in SUBSET (Trucks \X Nodes(data) \X Nodes(data)) /\ d[1] \in Trucks
    BY <1>3, <1>4 DEF OfTruck
  <2>2. Cardinality(Outgoing(part, d[2])) = Cardinality(Incoming(part, d[2]))
    BY <1>2, <1>7, <2>1 DEF TruckRows
  <2>3. Cardinality(Incoming(part, d[2])) # 0
    <3>1. \A node :
            (\A x \in part : x[2] # node) <=> Cardinality(Outgoing(part, node)) = 0
      BY <2>1, EdgeCounts
    <3> QED
      BY <2>1, <2>2, <3>1
  <2>4. \E e \in part : e[3] = d[2]
    <3>1. \A node :
            (\A x \in part : x[3] # node) <=> Cardinality(Incoming(part, node)) = 0
      BY <2>1, EdgeCounts
    <3> QED
      BY <2>3, <3>1
  <2> QED
    BY <2>4 DEF OfTruck
<1>8. ASSUME NEW t \in Trucks PROVE \E e \in flow : e[1] = t /\ e[2] = ffo_pos
  <2> DEFINE part == OfTruck(flow, t)
  <2>1. Cardinality(Outgoing(part, ffo_pos)) # 0
    BY <1>2 DEF TruckRows
  <2>2. \E e \in part : e[2] = ffo_pos
    BY <1>4, <2>1, EdgeCounts
  <2> QED
    BY <2>2 DEF OfTruck
<1>9. ASSUME NEW o \in Orders, data.orders[o].obligation PROVE \E e \in flow : e[2] = o
  <2>1. Cardinality(Outgoing(flow, o)) # 0
    BY <1>2, <1>9 DEF OrderRow
  <2> QED
    BY <1>3, <2>1, EdgeCounts
<1>10. ASSUME NEW d \in flow, d[3] \in Orders
       PROVE  \E e \in flow : e[1] = d[1] /\ e[2] = d[3]
  <2> DEFINE part == OfTruck(flow, d[1])
  <2>1. d \in part /\ part \in SUBSET (Trucks \X Nodes(data) \X Nodes(data)) /\ d[1] \in Trucks
    BY <1>3, <1>4 DEF OfTruck
  <2>2. Cardinality(Outgoing(part, d[3])) = Cardinality(Incoming(part, d[3]))
    BY <1>2, <1>10, <2>1 DEF TruckRows
  <2>3. Cardinality(Outgoing(part, d[3])) # 0
    <3>1. \A node :
            (\A x \in part : x[3] # node) <=> Cardinality(Incoming(part, node)) = 0
      BY <2>1, EdgeCounts
    <3> QED
      BY <2>1, <2>2, <3>1
  <2>4. \E e \in part : e[2] = d[3]
    <3>1. \A node :
            (\A x \in part : x[2] # node) <=> Cardinality(Outgoing(part, node)) = 0
      BY <2>1, EdgeCounts
    <3> QED
      BY <2>3, <3>1
  <2> QED
    BY <2>4 DEF OfTruck
<1> QED
  BY <1>2, <1>5, <1>6, <1>7, <1>8, <1>9, <1>10

\* Sorted by their start times, the orders of a truck follow the edges that are set:
\* an edge that passed over an order would lead to one that starts earlier.
LEMMA SortedFollows ==
    ASSUME data \in Inputs, ForwardOrders(data), variables \subseteq AllVariables(data),
           setted_columns \in Flows, NEW t \in Trucks, NEW s \in SortedByStart(Scheduled(t))
    PROVE  \A i \in 1 .. Cardinality(Scheduled(t)) :
              <<t, From(s, i - 1), s[i]>> \in setted_columns
<1> DEFINE m == Cardinality(Scheduled(t))
           time(o) == data.orders[o].start_time
           Good(i) == <<t, From(s, i - 1), s[i]>> \in setted_columns
           Bad == {i \in 1 .. m : ~Good(i)}
<1>1. /\ m \in Nat
      /\ \A i \in 1 .. m : s[i] \in Scheduled(t)
      /\ \A o \in Scheduled(t) : \E i \in 1 .. m : s[i] = o
      /\ \A i, j \in 1 .. m : s[i] = s[j] => i = j
      /\ \A i, j \in 1 .. m : i < j => time(s[i]) <= time(s[j])
  <2>1. Scheduled(t) \in SUBSET Orders
    BY DEF Scheduled
  <2>2. m \in 0 .. Len(data.orders) /\ Len(data.orders) \in Nat
    BY <2>1, SortedOnce, OrdersType
  <2> QED
    BY <2>1, <2>2, SortedOnce
<1>2. /\ Scheduled(t) \subseteq Orders
      /\ \A o \in Orders : time(o) \in Nat
      /\ ffo_pos \notin Orders
  BY OrdersType DEF Scheduled, Order
<1>3. /\ \A d, e \in setted_columns : d[2] \in Orders /\ d[2] = e[2] => d = e
      /\ \A d, e \in setted_columns : d[2] = ffo_pos /\ e[2] = ffo_pos /\ d[1] = e[1] => d = e
      /\ \A d \in setted_columns : d[2] \in Orders =>
            \E e \in setted_columns : e[1] = d[1] /\ e[3] = d[2]
      /\ setted_columns \subseteq AllVariables(data)
  BY FlowFacts
<1> HIDE DEF m
<1>4. From(s, 0) = ffo_pos /\ \A i \in 1 .. m : i # 1 => From(s, i - 1) = s[i - 1]
  BY <1>1 DEF From
\* What an order is entered from.
<1>5. ASSUME NEW i \in 1 .. m
      PROVE  \E from \in Scheduled(t) \cup {ffo_pos} :
                /\ <<t, from, s[i]>> \in setted_columns
                /\ from # ffo_pos => time(from) < time(s[i])
  <2>1. s[i] \in Scheduled(t) /\ s[i] \in Orders
    BY <1>1, <1>2
  <2>2. PICK d \in setted_columns : d[1] = t /\ d[2] = s[i]
    BY <2>1 DEF Scheduled
  <2>3. PICK e \in setted_columns : e[1] = t /\ e[3] = s[i]
    BY <1>3, <2>1, <2>2
  <2>4. e \in AllVariables(data) /\ e = <<t, e[2], s[i]>> /\ HasVariable(data, t, e[2], s[i])
    BY <1>3, <2>3 DEF AllVariables
  <2>5. e[2] \in Orders \/ e[2] = ffo_pos
    BY <2>4 DEF HasVariable, Orders
  <2>6. e[2] \in Orders => e[2] \in Scheduled(t)
    BY <2>3 DEF Scheduled
  <2>7. e[2] \in Orders => time(e[2]) < time(s[i])
    BY <2>1, <2>3, <2>4, EdgeForward
  <2> QED
    BY <2>3, <2>4, <2>5, <2>6, <2>7
<1> HIDE DEF time
<1>6. Bad = {}
  <2> SUFFICES ASSUME Bad # {} PROVE FALSE
    OBVIOUS
  <2>1. PICK i \in Bad : \A k \in Bad : i <= k
    <3>1. Bad \in SUBSET Nat
      BY <1>1
    <3> QED
      BY <3>1, LeastNumber
  <2>2. i \in 1 .. m /\ ~Good(i)
    BY <2>1
  <2>3. \A k \in 1 .. m : k < i => Good(k)
    <3>1. \A k \in 1 .. m : k < i => ~ (i <= k)
      BY <1>1, <2>2
    <3> QED
      BY <2>1, <3>1
  <2>4. PICK from \in Scheduled(t) \cup {ffo_pos} :
            /\ <<t, from, s[i]>> \in setted_columns
            /\ from # ffo_pos => time(from) < time(s[i])
    BY <1>5, <2>2
  <2>5. CASE from = ffo_pos
    <3>1. i # 1
      BY <1>4, <2>2, <2>4, <2>5
    <3>2. 1 \in 1 .. m /\ 1 < i /\ 1 - 1 = 0
      BY <1>1, <2>2, <3>1
    <3>3. <<t, ffo_pos, s[1]>> \in setted_columns
      BY <1>4, <2>3, <3>2
    <3>4. <<t, ffo_pos, s[1]>> = <<t, ffo_pos, s[i]>>
      BY <1>3, <2>4, <2>5, <3>3
    <3>5. s[1] = s[i]
      BY <3>4
    <3> QED
      BY <1>1, <2>2, <3>1, <3>2, <3>5
  <2>6. CASE from # ffo_pos
    <3>1. PICK k \in 1 .. m : s[k] = from
      BY <1>1, <2>4, <2>6
    <3>2. k < i
      <4>1. time(s[k]) < time(s[i]) /\ time(s[k]) \in Nat /\ time(s[i]) \in Nat
        BY <1>1, <1>2, <2>2, <2>4, <2>6, <3>1
      <4>2. ~ (i < k) /\ i # k
        <5>1. ~ (time(s[i]) <= time(s[k]))
          BY <4>1
        <5>2. i # k
          BY <4>1
        <5> QED
          BY <1>1, <2>2, <5>1, <5>2
      <4> QED
        BY <1>1, <2>2, <4>2
    <3>3. CASE k + 1 = i
      <4>1. i # 1 /\ i - 1 = k
        BY <1>1, <3>3
      <4> QED
        BY <1>4, <2>2, <2>4, <3>1, <4>1
    <3>4. CASE k + 1 # i
      <4>1. k + 1 \in 1 .. m /\ k + 1 < i /\ k + 1 # 1 /\ (k + 1) - 1 = k
        BY <1>1, <2>2, <3>2, <3>4
      <4>2. Good(k + 1)
        BY <2>3, <4>1
      <4>3. From(s, (k + 1) - 1) = s[k]
        <5>1. From(s, (k + 1) - 1) = s[(k + 1) - 1]
          BY <1>4, <4>1
        <5> QED
          BY <4>1, <5>1
      <4>4. <<t, s[k], s[k + 1]>> \in setted_columns /\ <<t, s[k], s[i]>> \in setted_columns
        BY <2>4, <3>1, <4>2, <4>3
      <4>5. s[k] \in Orders
        BY <1>1, <1>2
      <4>6. <<t, s[k], s[k + 1]>> = <<t, s[k], s[i]>>
        BY <1>3, <4>4, <4>5
      <4>7. s[k + 1] = s[i]
        BY <4>6
      <4> QED
        BY <1>1, <2>2, <3>4, <4>1, <4>7
    <3> QED
      BY <3>3, <3>4
  <2> QED
    BY <2>5, <2>6
<1> QED
  BY <1>6 DEF m

\* The rows and the sort together make a plan that the trucks can drive.
LEMMA FlowIsPlan ==
    ASSUME data \in Inputs, ForwardOrders(data), variables \subseteq AllVariables(data),
           setted_columns \in Flows, NEW plan, DOMAIN plan = Trucks,
           plan = [t \in Trucks |-> plan[t]],
           \A t \in Trucks : plan[t] \in SortedByStart(Scheduled(t))
    PROVE  plan \in A!Plans(data)
<1> DEFINE m(t) == Cardinality(Scheduled(t))
<1>1. ASSUME NEW t \in Trucks
      PROVE  /\ Scheduled(t) \subseteq Orders
             /\ m(t) \in 0 .. Len(data.orders) /\ m(t) \in Nat
             /\ plan[t] \in [1 .. m(t) -> Scheduled(t)]
             /\ plan[t] \in [1 .. m(t) -> Orders]
             /\ DOMAIN plan[t] = 1 .. m(t)
             /\ \A o \in Scheduled(t) : \E i \in 1 .. m(t) : plan[t][i] = o
             /\ \A i, j \in 1 .. m(t) : plan[t][i] = plan[t][j] => i = j
             /\ \A i \in 1 .. m(t) : <<t, From(plan[t], i - 1), plan[t][i]>> \in setted_columns
  <2>1. Scheduled(t) \in SUBSET Orders
    BY DEF Scheduled
  <2>2. /\ m(t) \in 0 .. Len(data.orders)
        /\ plan[t] \in [1 .. m(t) -> Scheduled(t)]
        /\ \A o \in Scheduled(t) : \E i \in 1 .. m(t) : plan[t][i] = o
        /\ \A i, j \in 1 .. m(t) : plan[t][i] = plan[t][j] => i = j
    BY <2>1, SortedOnce
  <2>3. m(t) \in Nat
    BY <2>2, OrdersType
  <2>4. plan[t] \in [1 .. m(t) -> Orders] /\ DOMAIN plan[t] = 1 .. m(t)
    BY <2>1, <2>2
  <2> QED
    BY <2>1, <2>2, <2>3, <2>4, SortedFollows
<1> HIDE DEF m
<1>2. /\ setted_columns \subseteq AllVariables(data)
      /\ \A d, e \in setted_columns : d[2] \in Orders /\ d[2] = e[2] => d = e
      /\ \A o \in Orders : data.orders[o].obligation => \E e \in setted_columns : e[2] = o
  BY FlowFacts
<1>3. plan \in [Trucks -> A!Routes(data)]
  <2>1. \A t \in Trucks : plan[t] \in A!Routes(data)
    BY <1>1, RoutesAre
  <2> QED
    BY <2>1
<1>4. Accepts(data, plan)
  <2> SUFFICES ASSUME NEW t \in Trucks, NEW i \in 1 .. m(t)
               PROVE  MoveBetweenOrders(data, data.trucks[t], Previous(data, plan, t, i),
                                        data.orders[plan[t][i]])
    BY <1>1 DEF Accepts, Trucks
  <2>1. /\ HasVariable(data, t, From(plan[t], i - 1), plan[t][i])
        /\ plan[t][i] \in Orders /\ plan[t][i] # flo_pos
    <3>1. <<t, From(plan[t], i - 1), plan[t][i]>> \in AllVariables(data)
      BY <1>1, <1>2
    <3>2. plan[t][i] \in Orders
      BY <1>1
    <3> QED
      BY <3>1, <3>2, OrdersType DEF AllVariables
  <2>2. CASE i = 1
    <3>1. From(plan[t], i - 1) = ffo_pos
      BY <2>2 DEF From
    <3>2. CanMove(data, t, make_ffo(data.trucks[t]), plan[t][i])
      BY <2>1, <3>1, OrdersType DEF HasVariable
    <3> QED
      BY <2>2, <3>2 DEF CanMove, Previous
  <2>3. CASE i # 1
    <3>1. m(t) \in Nat /\ i \in 1 .. m(t)
      BY <1>1
    <3>2. i - 1 \in 1 .. m(t) /\ i - 1 # 0
      BY <2>3, <3>1
    <3>3. From(plan[t], i - 1) = plan[t][i - 1]
      BY <3>2 DEF From
    <3>4. plan[t][i - 1] \in Orders
      BY <1>1, <3>2
    <3>5. CanMove(data, t, data.orders[plan[t][i - 1]], plan[t][i])
      BY <2>1, <3>3, <3>4, OrdersType DEF HasVariable
    <3>6. MoveBetweenOrders(data, data.trucks[t], EndOf(data.orders[plan[t][i - 1]]),
                            data.orders[plan[t][i]])
      BY <3>5 DEF CanMove, MoveBetweenOrders, CanReach, EndOf
    <3> QED
      BY <2>3, <3>6 DEF Previous
  <2> QED
    BY <2>2, <2>3
<1>5. NoRepeats(plan)
  <2> SUFFICES ASSUME NEW t \in Trucks, NEW u \in Trucks,
                      NEW i \in 1 .. m(t), NEW j \in 1 .. m(u), plan[t][i] = plan[u][j]
               PROVE  t = u /\ i = j
    BY <1>1 DEF NoRepeats
  <2>1. plan[t][i] \in Scheduled(t) /\ plan[t][i] \in Scheduled(u) /\ plan[t][i] \in Orders
    BY <1>1
  <2>2. PICK d \in setted_columns : d[1] = t /\ d[2] = plan[t][i]
    BY <2>1 DEF Scheduled
  <2>3. PICK e \in setted_columns : e[1] = u /\ e[2] = plan[t][i]
    BY <2>1 DEF Scheduled
  <2>4. t = u
    BY <1>2, <2>1, <2>2, <2>3
  <2> QED
    BY <1>1, <2>4
<1>6. A!Required(data) \subseteq Served(plan)
  <2> SUFFICES ASSUME NEW o \in Orders, data.orders[o].obligation PROVE o \in Served(plan)
    BY SameOperators
  <2>1. PICK e \in setted_columns : e[2] = o
    BY <1>2
  <2>2. e[1] \in Trucks /\ o \in Scheduled(e[1])
    BY <1>2, <2>1, VariableType DEF Scheduled
  <2>3. PICK i \in 1 .. m(e[1]) : plan[e[1]][i] = o
    BY <1>1, <2>2
  <2>4. e[1] \in DOMAIN plan /\ i \in DOMAIN plan[e[1]]
    BY <1>1, <2>2
  <2> QED
    BY <2>3, <2>4 DEF Served
<1> QED
  BY <1>3, <1>4, <1>5, <1>6, SameOperators

\* The columns that are set are the edges of the plan, no more and no fewer: a truck
\* does not go on after its last order, because it would have to go back in time.
LEMMA FlowIsEdges ==
    ASSUME data \in Inputs, ForwardOrders(data), variables \subseteq AllVariables(data),
           setted_columns \in Flows, NEW plan, DOMAIN plan = Trucks,
           \A t \in Trucks : plan[t] \in SortedByStart(Scheduled(t))
    PROVE  EdgesOf(plan) = setted_columns
<1> DEFINE time(o) == data.orders[o].start_time
           edge(t, i) == <<t, From(plan[t], i), To(plan[t], i)>>
<1>1. ASSUME NEW t \in Trucks
      PROVE  /\ Len(plan[t]) \in Nat
             /\ \A i \in 1 .. Len(plan[t]) : plan[t][i] \in Scheduled(t) /\ plan[t][i] \in Orders
             /\ \A o \in Scheduled(t) : \E i \in 1 .. Len(plan[t]) : plan[t][i] = o
             /\ \A i, j \in 1 .. Len(plan[t]) : i < j => time(plan[t][i]) <= time(plan[t][j])
             /\ \A i \in 1 .. Len(plan[t]) :
                   <<t, From(plan[t], i - 1), plan[t][i]>> \in setted_columns
  <2>1. Scheduled(t) \in SUBSET Orders
    BY DEF Scheduled
  <2> DEFINE m == Cardinality(Scheduled(t))
  <2>2. /\ m \in 0 .. Len(data.orders)
        /\ plan[t] \in [1 .. m -> Scheduled(t)]
        /\ \A o \in Scheduled(t) : \E i \in 1 .. m : plan[t][i] = o
        /\ \A i, j \in 1 .. m : i < j => time(plan[t][i]) <= time(plan[t][j])
    BY <2>1, SortedOnce
  <2>3. m \in Nat
    BY <2>2, OrdersType
  <2>4. \A i \in 1 .. m : <<t, From(plan[t], i - 1), plan[t][i]>> \in setted_columns
    BY SortedFollows
  <2> HIDE DEF m
  <2>5. Len(plan[t]) = m
    BY <2>2, <2>3
  <2> QED
    BY <2>1, <2>2, <2>3, <2>4, <2>5
<1>2. /\ setted_columns \subseteq AllVariables(data)
      /\ \A d, e \in setted_columns : d[2] \in Orders /\ d[2] = e[2] => d = e
      /\ \A d, e \in setted_columns : d[2] = ffo_pos /\ e[2] = ffo_pos /\ d[1] = e[1] => d = e
      /\ \A d \in setted_columns : d[3] \in Orders =>
            \E e \in setted_columns : e[1] = d[1] /\ e[2] = d[3]
      /\ \A t \in Trucks : \E e \in setted_columns : e[1] = t /\ e[2] = ffo_pos
  BY FlowFacts
<1>3. \A e \in setted_columns : /\ e = <<e[1], e[2], e[3]>> /\ e[1] \in Trucks
                                /\ e[2] \in Orders \cup {ffo_pos}
                                /\ e[3] \in Orders \cup {flo_pos}
  <2>1. IsData(data) /\ HasAmounts(data)
    BY InputsAssumption
  <2> QED
    BY <1>2, <2>1, VariableIs DEF Orders, Trucks
<1>4. (\A o \in Orders : time(o) \in Nat) /\ ffo_pos \notin Orders /\ flo_pos \notin Orders
  BY OrdersType DEF Order
<1>5. \A e \in setted_columns : e[2] \in Orders /\ e[3] \in Orders => time(e[2]) < time(e[3])
  BY <1>2, EdgeForward
<1> HIDE DEF time
<1>6. EdgesOf(plan) = UNION {RouteEdges(t, plan[t]) : t \in Trucks}
  BY DEF EdgesOf, RouteEdges, From, To
<1>7. ASSUME NEW t \in Trucks, NEW i \in 0 .. Len(plan[t]) PROVE edge(t, i) \in setted_columns
  <2> DEFINE n == Len(plan[t])
  <2>1. n \in Nat
    BY <1>1
  <2>2. CASE i # n
    <3>1. i + 1 \in 1 .. n /\ (i + 1) - 1 = i
      BY <2>1, <2>2
    <3>2. To(plan[t], i) = plan[t][i + 1]
      BY <2>2 DEF To
    <3>3. <<t, From(plan[t], (i + 1) - 1), plan[t][i + 1]>> \in setted_columns
      BY <1>1, <3>1
    <3> QED
      BY <3>1, <3>2, <3>3
  <2>3. CASE i = n
    <3>1. PICK e \in setted_columns : e[1] = t /\ e[2] = From(plan[t], n)
      <4>1. CASE n = 0
        BY <1>2, <4>1 DEF From
      <4>2. CASE n # 0
        <5>1. n \in 1 .. n /\ From(plan[t], n) = plan[t][n]
          BY <2>1, <4>2 DEF From
        <5> QED
          BY <1>1, <5>1 DEF Scheduled
      <4> QED
        BY <4>1, <4>2
    <3>2. ASSUME e[3] \in Orders PROVE FALSE
      <4>1. e[3] \in Scheduled(t)
        BY <1>2, <3>1, <3>2 DEF Scheduled
      <4>2. PICK k \in 1 .. n : plan[t][k] = e[3]
        BY <1>1, <4>1
      <4>3. n \in 1 .. n /\ n # 0 /\ k \in Nat /\ (k = n \/ k < n)
        BY <2>1, <4>2
      <4>4. e[2] = plan[t][n] /\ e[2] \in Orders
        BY <1>1, <3>1, <4>3 DEF From
      <4>5. time(plan[t][n]) < time(plan[t][k])
        BY <1>5, <3>2, <4>2, <4>4
      <4>6. time(plan[t][k]) <= time(plan[t][n])
        <5>1. time(plan[t][n]) \in Nat
          BY <1>4, <4>4
        <5> QED
          BY <1>1, <4>2, <4>3, <5>1
      <4>7. time(plan[t][k]) \in Nat /\ time(plan[t][n]) \in Nat
        BY <1>4, <3>2, <4>2, <4>4
      <4> QED
        BY <4>5, <4>6, <4>7
    <3>3. e = <<t, From(plan[t], n), flo_pos>>
      BY <1>3, <3>1, <3>2
    <3> QED
      BY <2>3, <3>3 DEF To
  <2> QED
    BY <2>2, <2>3
<1>8. EdgesOf(plan) \subseteq setted_columns
  BY <1>6, <1>7 DEF RouteEdges
<1>9. ASSUME NEW e \in setted_columns PROVE e \in EdgesOf(plan)
  <2>1. e[1] \in Trucks
    BY <1>3
  <2>2. PICK i \in 0 .. Len(plan[e[1]]) : From(plan[e[1]], i) = e[2]
    <3>1. CASE e[2] = ffo_pos
      <4>1. 0 \in 0 .. Len(plan[e[1]]) /\ From(plan[e[1]], 0) = ffo_pos
        BY <1>1, <2>1 DEF From
      <4> QED
        BY <3>1, <4>1
    <3>2. CASE e[2] \in Orders
      <4>1. e[2] \in Scheduled(e[1])
        BY <3>2 DEF Scheduled
      <4>2. PICK i \in 1 .. Len(plan[e[1]]) : plan[e[1]][i] = e[2]
        BY <1>1, <2>1, <4>1
      <4>3. i \in 0 .. Len(plan[e[1]]) /\ From(plan[e[1]], i) = plan[e[1]][i]
        BY <1>1, <2>1, <4>2 DEF From
      <4> QED
        BY <4>2, <4>3
    <3> QED
      BY <1>3, <3>1, <3>2
  <2> DEFINE d == edge(e[1], i)
  <2>3. d \in setted_columns /\ d[1] = e[1] /\ d[2] = e[2]
    BY <1>7, <2>1, <2>2
  <2>4. d \in RouteEdges(e[1], plan[e[1]])
    BY <2>2 DEF RouteEdges
  <2> HIDE DEF d
  <2>5. e = d
    BY <1>2, <1>3, <2>3
  <2> QED
    BY <1>6, <2>1, <2>4, <2>5
<1> QED
  BY <1>8, <1>9

\* Nothing is sorted into nothing.
LEMMA NothingSorted == ASSUME NEW s \in SortedByStart({}) PROVE s = <<>>
<1>1. Cardinality({}) = 0
  BY FS_EmptySet
<1>2. s \in [1 .. 0 -> {}]
  BY <1>1 DEF SortedByStart
<1>3. s \in Seq({}) /\ Len(s) = 0
  BY <1>2
<1> QED
  BY <1>3

\* The value of the solution is the summary revenue of the plan.
LEMMA PlanPays ==
    ASSUME data \in Inputs, ForwardOrders(data), variables \subseteq AllVariables(data),
           setted_columns \in Flows \/ setted_columns = {},
           NEW plan, DOMAIN plan = Trucks, plan = [t \in Trucks |-> plan[t]],
           \A t \in Trucks : plan[t] \in SortedByStart(Scheduled(t))
    PROVE  SummaryRevenue(data, plan) = Objective(setted_columns)
<1>1. IsData(data) /\ HasAmounts(data)
  BY InputsAssumption
<1>2. CASE setted_columns \in Flows
  <2> DEFINE cost == [e \in setted_columns |-> ColCost(data, e)]
             last == [t \in Trucks |-> 0]
  <2>1. EdgesOf(plan) = setted_columns
    BY <1>2, FlowIsEdges
  <2>2. \A t \in Trucks : Driven(data, t, plan[t])
    BY <1>2, FlowIsPlan, PlanDriven
  <2>3. \A e \in setted_columns : e \in AllVariables(data) /\ e[1] \in Trucks
    BY <1>2, FlowFacts, VariableType
  <2>4. \A e \in setted_columns : ColCost(data, e) \in Int
    BY <1>1, <2>3, VariableIs
  <2>5. \A e \in setted_columns : cost[e] = ColCost(data, e) + (IF e[3] = flo_pos THEN last[e[1]] ELSE 0)
    BY <2>3, <2>4
  <2>6. \A t \in Trucks : last[t] = 0
    OBVIOUS
  <2>7. Objective(setted_columns) = SumFunctionOnSet(cost, setted_columns)
    <3>1. DOMAIN cost = setted_columns
      OBVIOUS
    <3> QED
      BY <3>1 DEF Objective, SumFunction
  <2> HIDE DEF cost, last
  <2>8. Costs(data, plan, last, cost)
    BY <2>1, <2>2, <2>5, <2>6 DEF Costs, Trucks
  <2>9. /\ SummaryRevenue(data, plan) \in Int
        /\ SumFunctionOnSet(cost, EdgesOf(plan))
              = SummaryRevenue(data, plan) + SumFunctionOnSet(last, Trucks)
    BY <1>1, <2>8, RevenueOfEdges
  <2>10. SumFunctionOnSet(last, Trucks) = 0
    <3> QED
      BY <2>6, TrucksFinite, SumZero
  <2> QED
    BY <2>1, <2>7, <2>9, <2>10
<1>3. CASE setted_columns = {}
  <2>1. Objective(setted_columns) = 0
    <3> DEFINE cost == [e \in {} |-> ColCost(data, e)]
    <3>1. Objective({}) = SumFunctionOnSet(cost, {})
      <4>1. DOMAIN cost = {}
        OBVIOUS
      <4> QED
        BY <4>1 DEF Objective, SumFunction
    <3> HIDE DEF cost
    <3> QED
      BY <1>3, <3>1, SumEmpty
  <2>2. \A t \in Trucks : plan[t] = <<>>
    <3>1. \A t : Scheduled(t) = {}
      BY <1>3 DEF Scheduled
    <3> QED
      BY <3>1, NothingSorted
  <2>3. SummaryRevenue(data, plan) = 0
    <3> DEFINE moves == UNION {{t} \X DOMAIN plan[t] : t \in DOMAIN data.trucks}
               value == [move \in moves |->
                           CostMovingBetweenOrders(data, Previous(data, plan, move[1], move[2]),
                                                   data.orders[plan[move[1]][move[2]]])
                           + GetRealOrderRevenue(data, plan[move[1]][move[2]])]
    <3>1. moves = {}
      <4>1. \A t \in DOMAIN data.trucks : DOMAIN plan[t] = {}
        <5>1. DOMAIN <<>> = {}
          OBVIOUS
        <5> QED
          BY <2>2, <5>1 DEF Trucks
      <4> QED
        BY <4>1
    <3>2. SummaryRevenue(data, plan) = SumFunctionOnSet(value, moves)
      <4>1. DOMAIN value = moves
        OBVIOUS
      <4> QED
        BY <4>1 DEF SummaryRevenue, SumFunction
    <3> HIDE DEF value, moves
    <3> QED
      BY <3>1, <3>2, SumEmpty
  <2> QED
    BY <2>1, <2>3
<1> QED
  BY <1>2, <1>3

-----------------------------------------------------------------------------
(***************************************************************************)
(* The solver and its promise.                                             *)
(***************************************************************************)
\* Nothing is in the solution before it is read back, and what is read back comes from
\* the rows, if they have a solution.
SolveInv ==
    /\ FlowInv
    /\ pc \in {"rows", "highs", "readback"} => variables = Kept(data)
    /\ pc \in {"create", "presolve", "rows", "highs"} => setted_columns = {}
    /\ pc # "done" => orders_by_truck_pos = [t \in Trucks |-> <<>>]
    /\ pc = "readback" =>
          \/ setted_columns \in Flows
          \/ setted_columns = {} /\ Flows = {}

LEMMA SameFlows ==
    ASSUME data' = data, variables' = variables
    PROVE  /\ Trucks' = Trucks
           /\ Flows' = Flows
<1>1. /\ Trucks' = Trucks /\ Orders' = Orders /\ AllVariables(data)' = AllVariables(data)
      /\ \A t : AheadOf(t)' = AheadOf(t)
      /\ \A t : BehindOf(t)' = BehindOf(t)
  BY SameData
<1>2. \A flow : TruckRows(flow)' = TruckRows(flow)
  BY <1>1 DEF TruckRows, Outgoing, Incoming
<1>3. \A flow, o : OrderRow(flow, o)' = OrderRow(flow, o)
  BY DEF OrderRow, Outgoing
<1>4. Flows' = Flows
  BY <1>1, <1>2, <1>3 DEF Flows
<1> QED
  BY <1>1, <1>4

LEMMA InitSolve == Init => SolveInv
BY InitFlow DEF Init, SolveInv

LEMMA SolveStep == SolveInv /\ [Next]_vars => SolveInv'
<1> SUFFICES ASSUME SolveInv, [Next]_vars PROVE SolveInv'
  OBVIOUS
<1>1. FlowInv' /\ FlowInv
  BY FlowStep DEF SolveInv
<1>2. CASE CreateVariables \/ (\E v \in Nodes(data) : Visit(v)) \/ SearchSink \/ SearchNextTruck
  <2>1. /\ data' = data /\ pc' = "presolve" /\ pc \in {"create", "presolve"}
        /\ setted_columns' = setted_columns /\ orders_by_truck_pos' = orders_by_truck_pos
    BY <1>2 DEF CreateVariables, Visit, SearchSink, SearchNextTruck
  <2>2. Trucks' = Trucks
    BY <2>1, SameData
  <2> QED
    BY <1>1, <2>1, <2>2 DEF SolveInv
<1>3. CASE Filter
  <2>1. /\ data' = data /\ pc' = "rows" /\ pc = "presolve"
        /\ setted_columns' = setted_columns /\ orders_by_truck_pos' = orders_by_truck_pos
    BY <1>3 DEF Filter
  <2>2. Trucks' = Trucks
    BY <2>1, SameData
  <2>3. variables' = Kept(data)'
    BY <1>1, <2>1 DEF FlowInv, FilterExact
  <2> QED
    BY <1>1, <2>1, <2>2, <2>3 DEF SolveInv
<1>4. CASE BuildRows \/ HighsSolves \/ HighsFails
  <2>1. /\ data' = data /\ variables' = variables
        /\ orders_by_truck_pos' = orders_by_truck_pos
        /\ pc \in {"rows", "highs"} /\ pc' \in {"highs", "readback", "aborted"}
        /\ pc' = "highs" => setted_columns' = setted_columns
        /\ pc' = "readback" => \/ setted_columns' \in Flows
                               \/ setted_columns' = setted_columns /\ Flows = {}
    BY <1>4 DEF BuildRows, HighsSolves, HighsFails
  <2>2. Trucks' = Trucks /\ Kept(data)' = Kept(data) /\ Flows' = Flows
    BY <2>1, SameFlows
  <2> QED
    BY <1>1, <2>1, <2>2 DEF SolveInv
<1>5. CASE ReadBack
  <2>1. pc' = "done"
    BY <1>5 DEF ReadBack
  <2> QED
    BY <1>1, <2>1 DEF SolveInv
<1>6. CASE UNCHANGED vars
  <2>1. /\ data' = data /\ variables' = variables /\ setted_columns' = setted_columns
        /\ orders_by_truck_pos' = orders_by_truck_pos /\ pc' = pc
    BY <1>6 DEF vars
  <2>2. Trucks' = Trucks /\ Kept(data)' = Kept(data) /\ Flows' = Flows
    BY <2>1, SameFlows
  <2> QED
    BY <1>1, <2>1, <2>2 DEF SolveInv
<1> QED
  BY <1>2, <1>3, <1>4, <1>5, <1>6 DEF Next, Terminated

\* Whatever the batch, no plan that the trucks can drive is lost on the way to HiGHS:
\* not by the tests that are there to save variables, not by the filter, not by the
\* rows, for any number of trucks and orders that end after they start.
THEOREM NoPlanLostByRows == Spec => []EveryPlanAdmitted
<1>1. SolveInv => EveryPlanAdmitted
  <2> SUFFICES ASSUME SolveInv, pc = "highs", ForwardOrders(data),
                      NEW plan \in A!Plans(data)
               PROVE  EdgesOf(plan) \in Flows
    BY DEF EveryPlanAdmitted
  <2>1. data \in Inputs
    BY DEF SolveInv, FlowInv, TypeOK
  <2>2. variables = Kept(data)
    BY DEF SolveInv
  <2> QED
    BY <2>1, <2>2, PlanIsFlow
<1> QED
  BY InitSolve, SolveStep, <1>1, PTL DEF Spec

\* When the rows have no solution, or an obligation order has no variable, there is
\* no plan.
LEMMA NoFlowNoPlan ==
    ASSUME SolveInv, pc \in {"rows", "highs", "readback"}, Flows = {} \/ Unschedulable,
           ForwardOrders(data)
    PROVE  A!Plans(data) = {}
<1> SUFFICES ASSUME NEW plan \in A!Plans(data) PROVE FALSE
  OBVIOUS
<1>1. data \in Inputs
  BY DEF SolveInv, FlowInv, TypeOK
<1>2. variables = Kept(data)
  BY DEF SolveInv
<1>3. EdgesOf(plan) \in Flows
  BY <1>1, <1>2, PlanIsFlow
<1>4. PICK o \in Orders : data.orders[o].obligation /\ Outgoing(variables, o) = {}
  BY <1>3 DEF Unschedulable
<1>5. variables \subseteq AllVariables(data) /\ variables \subseteq Trucks \X Nodes(data) \X Nodes(data)
  BY <1>2 DEF Kept, AllVariables, Trucks
<1>6. \E e \in EdgesOf(plan) : e[2] = o
  BY <1>1, <1>3, <1>4, <1>5, FlowFacts
<1>7. EdgesOf(plan) \subseteq variables
  BY <1>3, <1>5, FlowsAre
<1> QED
  BY <1>4, <1>6, <1>7 DEF Outgoing

\* The outcome as Assignment sees it.
Outcome ==
    CASE pc = "done" /\ setted_columns # {} -> "planned"
      [] pc = "done" /\ setted_columns = {} -> "failed"
      [] pc = "aborted" -> "failed"
      [] OTHER -> "pending"

LEMMA OutcomeIs ==
    /\ pc \notin {"done", "aborted"} => Outcome = "pending"
    /\ pc = "aborted" => Outcome = "failed"
    /\ pc = "done" => Outcome = IF setted_columns = {} THEN "failed" ELSE "planned"
BY DEF Outcome

LEMMA MappedStep ==
    /\ A!vars = <<data, Outcome, orders_by_truck_pos>>
    /\ A!Fail <=> /\ Outcome = "pending"
                  /\ ForwardOrders(data) => A!Plans(data) = {}
                  /\ Outcome' = "failed"
                  /\ UNCHANGED <<data, orders_by_truck_pos>>
    /\ A!Assign <=> /\ Outcome = "pending"
                    /\ Outcome' = "planned"
                    /\ orders_by_truck_pos' \in Solution(data)
                    /\ ForwardOrders(data) => orders_by_truck_pos' \in A!Plans(data)
                    /\ UNCHANGED data
    /\ A!Init <=> /\ data \in Inputs
                  /\ Outcome = "pending"
                  /\ orders_by_truck_pos = [t \in Trucks |-> <<>>]
BY SameOperators DEF A!vars, A!Fail, A!Assign, A!Init, Outcome

LEMMA ReadBackAssigns ==
    ASSUME SolveInv, SolveInv', ReadBack
    PROVE  A!Assign \/ A!Fail
<1>1. /\ pc = "readback" /\ pc' = "done" /\ data' = data /\ setted_columns' = setted_columns
      /\ variables' = variables /\ data \in Inputs /\ variables = Kept(data)
      /\ orders_by_truck_pos' = [t \in Trucks |-> orders_by_truck_pos'[t]]
      /\ DOMAIN orders_by_truck_pos' = Trucks
      /\ \A t \in Trucks : orders_by_truck_pos'[t] \in SortedByStart(Scheduled(t))
  BY DEF ReadBack, SolveInv, FlowInv, TypeOK
<1>2. Outcome = "pending" /\ Outcome' = IF setted_columns = {} THEN "failed" ELSE "planned"
  <2>1. Outcome = "pending"
    BY <1>1, OutcomeIs
  <2>2. Outcome' = IF setted_columns' = {} THEN "failed" ELSE "planned"
    BY <1>1 DEF Outcome
  <2> QED
    BY <1>1, <2>1, <2>2
<1>3. variables \subseteq AllVariables(data)
  BY <1>1 DEF Kept
<1>4. CASE setted_columns \in Flows
  <2>1. setted_columns # {}
    <3>1. 1 \in Trucks
      BY <1>1, TrucksType
    <3> QED
      BY <1>1, <1>3, <1>4, <3>1, FlowFacts
  <2>2. orders_by_truck_pos' \in Solution(data)
    <3>1. (orders_by_truck_pos \in Solution(data))'
      BY DEF SolveInv, FlowInv, TypeOK
    <3>2. Solution(data)' = Solution(data)
      BY <1>1 DEF Solution
    <3> QED
      BY <3>1, <3>2
  <2>3. ForwardOrders(data) => orders_by_truck_pos' \in A!Plans(data)
    BY <1>1, <1>3, <1>4, FlowIsPlan
  <2> QED
    BY <1>1, <1>2, <2>1, <2>2, <2>3, MappedStep
<1>5. CASE setted_columns = {} /\ Flows = {}
  <2>1. ForwardOrders(data) => A!Plans(data) = {}
    BY <1>1, <1>5, NoFlowNoPlan
  <2>2. ASSUME NEW t \in Trucks PROVE orders_by_truck_pos'[t] = <<>>
    <3>1. Scheduled(t) = {}
      BY <1>5 DEF Scheduled
    <3> QED
      BY <1>1, <3>1, NothingSorted
  <2>3. orders_by_truck_pos' = orders_by_truck_pos
    BY <1>1, <2>2 DEF SolveInv
  <2> QED
    BY <1>1, <1>2, <1>5, <2>1, <2>3, MappedStep
<1> QED
  BY <1>1, <1>4, <1>5 DEF SolveInv

LEMMA StepAssigns ==
    ASSUME SolveInv, SolveInv', [Next]_vars
    PROVE  [A!Next]_A!vars
<1> USE DEF A!Next
<1>1. ASSUME data' = data, orders_by_truck_pos' = orders_by_truck_pos,
             pc \notin {"done", "aborted"}, pc' \notin {"done", "aborted"}
      PROVE  UNCHANGED A!vars
  <2>1. Outcome = "pending" /\ Outcome' = "pending"
    BY <1>1 DEF Outcome
  <2> QED
    BY <1>1, <2>1, MappedStep DEF A!vars, Outcome
<1>2. ASSUME data' = data, orders_by_truck_pos' = orders_by_truck_pos,
             pc \in {"rows", "highs"}, pc' = "aborted", Flows = {} \/ Unschedulable
      PROVE  A!Fail
  <2>1. Outcome = "pending" /\ Outcome' = "failed"
    BY <1>2 DEF Outcome
  <2>2. ForwardOrders(data) => A!Plans(data) = {}
    BY <1>2, NoFlowNoPlan
  <2> QED
    BY <1>2, <2>1, <2>2, MappedStep
<1>3. CASE \/ CreateVariables \/ (\E v \in Nodes(data) : Visit(v)) \/ SearchSink
           \/ SearchNextTruck \/ Filter \/ HighsSolves
  BY <1>1, <1>3 DEF CreateVariables, Visit, SearchSink, SearchNextTruck, Filter, HighsSolves
<1>4. CASE BuildRows
  BY <1>1, <1>2, <1>4 DEF BuildRows
<1>5. CASE HighsFails
  BY <1>1, <1>2, <1>5 DEF HighsFails
<1>6. CASE ReadBack
  BY <1>6, ReadBackAssigns
<1>7. CASE UNCHANGED vars
  BY <1>7 DEF vars, A!vars
<1> QED
  BY <1>3, <1>4, <1>5, <1>6, <1>7 DEF Next, Terminated

\* FlowSolver keeps the promise of Assignment for all inputs: what it returns for orders
\* that end after they start is a plan, and it returns nothing, or ends the process,
\* only when there is no plan.
THEOREM FlowImplementsAssignment == Spec => ImplementsAssignment
<1>1. Init => A!Init
  <2> SUFFICES ASSUME Init PROVE A!Init
    OBVIOUS
  <2>1. Outcome = "pending"
    BY DEF Init, Outcome
  <2> QED
    BY <2>1, MappedStep DEF Init
<1> QED
  BY <1>1, InitSolve, SolveStep, StepAssigns, PTL DEF Spec, ImplementsAssignment, A!Spec

\* The columns that HiGHS is given add up to what the checker pays, so that the best
\* solution of the rows is the best plan: for all costs, distances and revenues, and any
\* number of trucks and orders that end after they start.
THEOREM SolverMaximisesRevenue == Spec => []RevenueAgrees
<1>1. Init => RevenueAgrees
  BY DEF Init, RevenueAgrees
<1>2. SolveInv /\ RevenueAgrees /\ [Next]_vars => RevenueAgrees'
  <2> SUFFICES ASSUME SolveInv, RevenueAgrees, [Next]_vars PROVE RevenueAgrees'
    OBVIOUS
  <2>1. CASE ReadBack
    <3>1. /\ pc = "readback" /\ data' = data /\ setted_columns' = setted_columns
          /\ data \in Inputs /\ variables = Kept(data)
          /\ setted_columns \in Flows \/ setted_columns = {}
          /\ orders_by_truck_pos' = [t \in Trucks |-> orders_by_truck_pos'[t]]
          /\ DOMAIN orders_by_truck_pos' = Trucks
          /\ \A t \in Trucks : orders_by_truck_pos'[t] \in SortedByStart(Scheduled(t))
      BY <2>1 DEF ReadBack, SolveInv, FlowInv, TypeOK
    <3>2. variables \subseteq AllVariables(data)
      BY <3>1 DEF Kept
    <3>3. ForwardOrders(data) =>
             SummaryRevenue(data, orders_by_truck_pos') = Objective(setted_columns)
      BY <3>1, <3>2, PlanPays
    <3>4. Objective(setted_columns)' = Objective(setted_columns)
      BY <3>1 DEF Objective
    <3> QED
      BY <3>1, <3>3, <3>4 DEF RevenueAgrees
  <2>2. CASE UNCHANGED vars
    <3>1. /\ pc' = pc /\ data' = data /\ setted_columns' = setted_columns
          /\ orders_by_truck_pos' = orders_by_truck_pos
      BY <2>2 DEF vars
    <3>2. Objective(setted_columns)' = Objective(setted_columns)
      BY <3>1 DEF Objective
    <3> QED
      BY <3>1, <3>2 DEF RevenueAgrees
  <2>3. CASE ~ (ReadBack \/ UNCHANGED vars)
    <3>1. pc' # "done"
      BY <2>3 DEF Next, CreateVariables, Visit, SearchSink, SearchNextTruck, Filter, BuildRows,
                  HighsSolves, HighsFails, Terminated
    <3> QED
      BY <3>1 DEF RevenueAgrees
  <2> QED
    BY <2>1, <2>2, <2>3
<1> QED
  BY InitSolve, SolveStep, <1>1, <1>2, PTL DEF Spec
==============================================================================

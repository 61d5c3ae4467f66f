# Verification of the vehicle allocation program

TLA+ models, TLC runs and TLAPS proofs for the program in `src/` that assigns
orders to trucks: `Data` holds the trucks, the orders and the distances of the
roads, a solver builds a schedule, and `Checker` decides whether the trucks can
drive it.

## The system

| part | state | operations | hard behaviour |
|---|---|---|---|
| `Data`, `Trucks`, `Orders`, `Distances`, `Params` | trucks, orders, distances, speed, costs | `MoveBetweenOrders`, `CostMovingBetweenOrders`, `GetDistance`, `IsExecutableBy`; once, when loading: `ShiftTimestamps`, `SqueezeCitiesIds` | travel times are rounded down to minutes; a road may be missing; masks compare as subsets |
| `BatchSolver` | pools of trucks and orders (multisets by time), the current batches, `cur_time_window`, the main solution | `Solve`: `GetBatch`, `UpdateFreeMovementWeightsVectors`, inner `SetData`/`Solve`, merge, release, `FilterSuffix` | trucks pass from batch to batch; what a batch leaves behind is the input of the next; the loop ends on one condition only |
| `FreeMovementWeightsVectors` | weights by (truck, last order, city) | `AddWeight`, `Reset`, `GetFreeMovementEdges` | free-movement orders are shared by trucks with the same place and time |
| `WeightedCitiesSolver` / `FlowSolver` / `PreSolver` | the batch's data with free-movement orders, the variables of a linear program | `SetData`, `CreateModel`, `Solve`, the filter of variables | a solution of the rows must be a path per truck; it is read back by sorting |
| `ChainSolver` / `ChainGenerator` | chains of orders by truck, the variables of a linear program | `GenerateChains`, `AddWeightsEdges`, `CreateModel`, `Solve` | chains are replaced by longer ones; arrays of fixed length |
| `Solver` | none (drives HiGHS) | `Solve`: relaxation, then the integer program | the second status is not looked at |
| `Checker` | a solution and the unmodified data | `Check` | ends the process on the first bad move |
| loading | what is read so far, the two maps of cities | the constructors of `Params`, `Trucks`, `Orders`, `Distances` and `Data` | rows without a number, the order of rows, times before the first timestamp, ids given as cities are met |
| `main` | | load, filter, `BatchSolver::Solve`, `Check` | asserts that the solution is valid |

The program is sequential. What is hard about it is not interleaving but state
that is handed on: from window to window, from the batch's copy of the data to
the main one, from the time a plan was made to the time it is used. `BatchSolver`
is where all of it meets, and it is modelled first.

### Not modelled

- Which plan is the best: a solver may return *any* plan that its program admits, so what
  holds in the model holds for the one it prefers. What it prefers is the cost vector, which is
  modelled (`RevenueAgrees`, `StandingCharged`).
- The arithmetic of HiGHS: a column that is left at a rounding error counts as chosen
  (`solver.cpp:255`), and the gap within which HiGHS stops. Sums of money are exact in the
  models, where the program has doubles.
- OpenXLSX: a sheet is its rows and their cells. A row with fewer cells than are read, which the
  constructors do not look for except in `Distances`, is not among the inputs.
- The conversion of dates to minutes (`XLSXcell::get_time_value`): it goes through `mktime`
  and depends on the time zone. Times are minutes in the sheets of the model.
- `Data::GetWaitingCost` and `cities_count`, which nothing uses, output, and
  `model.cpp`/`parse.cpp`, which are not built.
- The vendored libraries under `HiGHs/` and `OpenXLSX/`. They are most of the lines of the
  repository and none of the program's logic.

## Modules

| module | what it is |
|---|---|
| `Fleet` | the data and the rules of a move: `Truck`, `Order`, `GetDistance`, `TravelTime`, `IsExecutableBy`, `MoveBetweenOrders`, `make_ffo` |
| `Checker` | `Checker::Check` as the predicate `Accepts` on solutions |
| `Revenue` | the costs of moves and orders, and the sum that `Check` returns |
| `Dispatch` | the abstract specification: orders are given to trucks one at a time, each reachable by the checker's rules |
| `BatchSolver` | `BatchSolver::Solve`, with the inner solver given by the plans it may return |
| `Assignment` | the abstract specification of a solver: a drivable plan with every obligation order, or failure when there is none |
| `Columns` | the variables of `FlowSolver::CreateModel` and their costs, for any data; which of them `PreSolver` is to keep (`Kept`); the edges of a plan |
| `FlowSolver` | `FlowSolver` and `PreSolver`: the filter's searches over those variables, rows, reading back |
| `ChainSolver` | `ChainSolver` and `ChainGenerator`: the rounds of chains, closing them with free-movement orders, rows, reading back |
| `WeightedCities` | `FreeMovementWeightsVectors` and `WeightedCitiesSolver` as a caller uses them, with the columns and costs of `Columns` |
| `Loading` | from the rows of the four sheets to the data that `main` gives to `BatchSolver` |
| `Sorting` | the elements of a finite set in the order of a loop, by rank |
| `MCFleet`, `MCBatchSolver`, `MCFlowSolver`, `MCChainSolver`, `MCWeightedCities`, `MCLoading` | inputs for TLC |
| `Sorting_proofs`, `Checker_proofs`, `Columns_proofs`, `BatchSolver_proofs`, `FlowSolver_proofs`, `ChainSolver_proofs`, `WeightedCities_proofs`, `Loading_proofs` | lemmas, theorems and their proofs |

`Dispatch` and `Assignment` are the two levels of what the program promises: the first
for the whole solution, the second for one batch. `BatchSolver` takes from `FlowSolver`
that plans are paths of moves with every obligation order; `ImplementsAssignment` is
where that is shown. From `ChainSolver` it takes that plans are chains of real orders that the
truck can drive, closed by one free-movement order that nobody else drives: `ChainsDrivable`
and `PlanValid`.

### BatchSolver and the code

| variable | in `batch_solver.cpp` |
|---|---|
| `problem` | `data`, `time_window`, `solver_model_type_` |
| `trucks` | the copies of the trucks in the pool or the batch |
| `trucks_by_init_time`, `order_by_start_time` | the two multisets, as sets of ids |
| `batch_trucks`, `batch_orders`, `cur_time_window`, `main_solution` | the same |
| `plan` | `batch_solution`, while it is built and while it is merged |
| `merged` | how far the merging loop is in every truck's plan |
| `unsolved` | history: the orders of batches for which the solver found nothing |
| `pc` | where `Solve` is: the head of the loop, in the inner solver, merging |

A turn of the loop is `Finish`, or `SkipWindow` (one batch is empty: `continue`),
or `FormBatch` followed by `PickLeg*`, then `SolverReturns`, `SolverFindsNothing`
or `SolverAborts`, then `MergeLeg*` and `ReleaseBatch`.

`PickLeg` stands for the linear program: a leg is added to a truck's plan
when the program has the variable for it. `FlowLeg` is the flow solver's condition
(a path of moves, any number of free-movement orders), `ChainLeg` the chain
solver's (real orders, then at most one free-movement order that is in the truck's
own weights, though another truck may have made it). The model admits a little
more than the code: it leaves open whether a bonus is large enough for a weight,
how long a chain may be, and which chains replace their beginnings. A plan is built
as a path; the flow solver's rows also admit cycles when an order may end before
it starts, so the results about schedules assume `ForwardOrders`.

Free-movement orders with the same cities and start are one order in the code.
The model keeps one per truck and forbids the use of two with the same `Key`.

### FlowSolver and the code

| variable | in the code |
|---|---|
| `data` | `data_` |
| `variables` | `variables` of `CreateModel`, before and after the filter; the columns of the model |
| `valid_vars`, `cur_truck_pos`, `used_` | the same, in `pre_solver.cpp` |
| `component` | which of the two blocks of `PreSolve` is running |
| `reached` | the nodes that `MarkConnectivityComponent` has been or will be called for |
| `setted_columns`, `orders_by_truck_pos` | the same, in `FlowSolver::Solve` |
| `pc` | `CreateModel`, `PreSolve`, the rows, `Solver::Solve`, reading back |

One action is one part of the code: `CreateVariables`, `Visit` (a call of
`MarkConnectivityComponent`, in any order of the calls, as only what they leave behind
matters), `SearchSink`, `SearchNextTruck`, `Filter`, `BuildRows`, `HighsSolves` or
`HighsFails`, `ReadBack`. `HighsSolves` may return *any* 0/1 solution of the rows, whatever
its cost (`Objective`). `HighsFails` covers an infeasible relaxation (the assertion fails)
and an infeasible integer program (no column is set). `std::sort` may leave orders
with equal start times in any order.

On orders that end before they start the rows admit plans that are no path, and
the variables can form cycles (`MCFlowCycles`). The filter is not the reason: it stays
exact (`FilterExact`, proved). Orders that end as they start, within a minute, can be
read back in the wrong order, since sorting by start cannot tell them apart;
`ImplementsAssignment` therefore assumes `ForwardOrders`. It assumes no
metric distances and allows loop orders. Free-movement orders always last a minute
or more, so they do not break the assumption.

### ChainSolver and the code

| variable | in the code |
|---|---|
| `data` | `data_`, with the weights vectors that `SetData` is given |
| `chains` | `chains_by_truck_pos` |
| `truck_pos`, `round`, `cur_size` | the same in `Merge` (`i` is `round`); `old_chains_count` in `AddWeightsEdges` is `cur_size` |
| `chain_pos` | the number of chains that the inner loop has been through |
| `picked` | `setted_columns` through `to_2d_variables` |
| `plan` | `orders_by_truck_pos` |
| `pc` | which loop is running, the rows, `Solver::Solve`, reading back |

A turn of an inner loop is one action: `InitFirstEdge` (one truck), `MergeChain`,
`AddWeightsEdges` (one chain each); `NextRound`, `MergeDone` and `AddFirstWeightsEdges` are the
ends of the loops. A chain is the sequence of its real orders and the set of its free-movement
order: `WithinArray` counts both against `MX_LEN`. Revenues are left out: `Kept` leaves open
which of the chains that may be dropped for too small a revenue are dropped, and obligation
orders may not be. Free-movement orders are given by their cities and start, which is how the
code identifies them, so two trucks may share one; `Disjoint` is the row that keeps both
from driving it. `Merge`'s table of compatible orders is not kept: `Successors` asks the same
questions when a chain is extended.

`LengthAssumption` says that an array has one place more than a chain has real orders. The
code does not check it; `main` uses 2 and 3, the tests at most 5 and 6. `InputsAssumption` says that
there is a road to every city of a weight (`value()` throws otherwise), as
`UpdateFreeMovementWeightsVectors` makes sure.

### Money

In `Revenue` every sum of money is 60 * speed times as large as in the program, so that hours
and kilometres per hour divide without a rest. The minutes that the program drops when it
stores a time in an unsigned int are dropped; the cost of a road is not rounded. Amounts
(distance and revenue of an order) are kept beside the order, because only this module needs
them.

### WeightedCities and the code

| variable | in the code |
|---|---|
| `weights`, `adds` | the caller's `FreeMovementWeightsVectors`, and how many weights it has added |
| `edges_w_vecs_`, `time_boundary_`, `data_` | the same, in `WeightedCitiesSolver` |
| `given` | history: the argument of the last `SetData` |
| `col_cost` | `col_cost_` of the model that `CreateModel` returns, by variable |
| `last_call` | which `SetData` was last, or that the process has ended |

Every call of the two classes is an action, in any order: `AddWeight`, `Reset`, `SetData`,
`SetDataWithWeights`, `CreateModel`. The map of maps is a function on triples, in whose order
(`Before`) the edges are made; `Makers` are the triples that come first among those with the
same `EdgeKey`, and so give the edge its truck's mask and its bonus. Which variables
`FlowSolver::CreateModel` keeps is said by what they are (`Kept`, in `Columns`); that `PreSolver`
keeps those is `FilterExact`.

A truck or an order that a weight names and the data does not have, or a city without a road,
ends the process. With weights of an earlier call in the solver, this happens to a caller that
passes nothing but data (`MCWeightedStale` shows the weights that stay).

`DurationsAssumption` says that a travel time fits an unsigned int: what the conversion of a
larger double gives is undefined. It is needed for `BonusPaid` only. Cities are numbers here,
as the iteration of the maps is in their order.

### Loading and the code

| variable | in the code |
|---|---|
| `file`, `row` | the four sheets, and where `worksheet.rows()` is in the sheet that is being read |
| `params`, `trucks`, `orders`, `dists`, `min_timestamp`, `id_to_real_city` | the members of `Data` |
| `real_city_to_id`, `cur`, `squeezed_dists` | the locals of `SqueezeCitiesIds` |
| `item` | the truck, order or road that its loops have come to |
| `pc` | which constructor, function or filter is running |

A row, and a turn of a loop of `SqueezeCitiesIds`, is one action. Cells with a text in place of
a number, empty cells, unknown names, words and load types, and `order_id` 0 are among the
inputs. A parameter that is unknown or has no number ends the process, and so do an unknown load
type, an empty trailer type and `order_id` 0, in a row that has its numbers
(`MasksReadable`); an unknown word, also one of spaces only, gives the full mask. A number in the
model is what `get_num_value` and `get_time_value` return: for unsigned fields that is a natural
number whatever the cell holds (fractions are cut off, negative integers wrap around); for
the `double` fields, whole numbers that are not negative are an abstraction, on which no property
depends. `SqueezeDist` makes its two calls of
`squeeze_city` in either order, which C++ leaves open for the arguments of `make_pair`.
`std::sort` may leave equal times in any order. A cell with a time holds an unsigned int
(`TimeCell`), so every time minus the first is a natural number. The properties compare the
data with the sheets:
`MoveByRows` is a move in the file's own times, cities, metres and words.

### Assumptions on the input

`Fleet` names three properties of the input without which the program's schedules
need not be valid: `Metric` (a detour is never shorter than the direct road, in
whole minutes, and there is a direct road), `NoLoopOrders` and `ForwardOrders`
(an order ends after it starts). The program checks none of them. The samples that it
ships with meet none: of 2,687,142 triples sampled from `distances.xlsx`, 22,984 are
faster over the detour and 4,205 have no direct road; 1,319 of 41,705 orders end
where they began; 6 end before they start. The runs `MCBatchLoop` and
`MCBatchRounded` show what happens then.

`ProblemsAssumption` says that times stay far from the end of the unsigned range
(minutes since the first timestamp do), and `IsProblem` that ids are distinct.

## Runs

The runs named `MCBatch...` use the module `MCBatchSolver`: two or three trucks, up to three orders,
three cities, windows of 1 to 3 minutes, and an unsigned range of 64 in place of
2^32. Two trucks are enough for competition over an order or a free-movement
order, three orders for two batches with a repositioning between them, three
cities for a detour; windows that short make orders end in later windows, on
the bound, and in windows that nothing else falls into.

| run | expectation | what it shows |
|---|---|---|
| `MCBatchSolver` | pass | 648 inputs that meet the assumptions, both solvers: the solution is always one that the checker accepts, no order is served twice, none is stranded in a batch at the end of the loop; batches respect the window; trucks never go back in time; a truck is repositioned only for an order it can still make; obligation orders are kept by the flow solver; a pair that gets no free-movement order for performance is in no plan; `Dispatch` is implemented |
| `MCBatchRough` | pass | inputs that meet no assumption: the loop ends (`Termination`) |
| `MCBatchLoop` | violation of `CheckerAccepts` | the minute taken off a real loop order |
| `MCBatchRounded` | violation of `CheckerAccepts` | distances that are not metric: a detour that is shorter once it is rounded, as one without a direct road is |
| `MCBatchBits` | violation of `FreeLegsBlocked` | the bits that reserve a free-movement order are put into the wrong object |
| `MCFlowSolver` | pass | 258 batches, 96 of them with orders that end before or as they start: the filter is exact on all; on forward orders the flow solver's plans are drivable and complete, every drivable plan is a solution of its rows, it fails only when there is no plan, and what it maximises is what the checker pays |
| `MCFlowCycles` | violation of `VariablesAcyclic` | a backward order makes a cycle of variables |
| `MCChainSolver` | pass | 20 batches, chains of up to three orders in arrays of four: chains fit their arrays, are drivable, are made once, and keep every obligation order; the plan is valid |
| `MCChainShared` | violation of `NoPlanLost` | two chains that must end with the same free-movement order exclude each other |
| `MCWeightedCities` | pass | two batches, given one after the other with weights kept, added to or reset: real orders keep their positions, every weight finds its own edge, an edge pays the bonus of one of its weights, the cost vector is the checker's revenue less what every truck pays for standing until the boundary |
| `MCWeightedStale` | violation of `OneArgumentZero` | `SetData` with one argument keeps the weights of an earlier call |
| `MCLoading` | pass | 156 choices of sheets: cities, moves, trucks, orders and roads are what the sheets say, and so is each parameter that no later row overwrites |

`MCBatchBits` concerns a comment in the code about what the solver will not
do; it makes no schedule invalid.

`PrunedPairsUnused` needs roads that take a minute or more (`MinuteRoads`) and orders that end
after they start. Without either a plan may contain a pair that was left out: 34 roads of
`samples/distances.xlsx` take less than a minute.

The runs of `MCFlowSolver` use two trucks and three orders: two trucks are needed for an
order that both could take, and for what one search leaves to the next truck's; three
orders for a path with a middle, for orders whose positions and start times are
in different orders, and for a cycle that no truck reaches.

The run of `MCChainSolver` uses two trucks at the same place and time, which share
free-movement orders, or at different ones; chains of three orders, so that `Merge` makes two
rounds and `old_size` matters; three orders, so that a chain of the greatest length
exists, is closed by a free-movement order, and fills its array exactly; one batch of four, in
which one round too many would make a chain too long; one batch without obligations, in which
both trucks may take the same free-movement order.

`MCChainShared` is about plans that are lost. `AddWeightsEdges` replaces a chain by its first
closed form, and trucks share free-movement orders, so two orders that end at the same place
and time, with one city to go to, cannot both be served. If both are obligation orders the rows
have no solution: the two order rows add up to 2, the row of the free-movement order allows
1, and so even the relaxation is infeasible, and `Solver::Solve`'s assertion fails. `main` clears
the obligation of all orders; it only loses plans.

`MCWeightedCities` has weights of two trucks whose orders end at the same place and time (one edge
for two weights), a road of less than a minute and one from a city to itself, a second batch that
has no second order (weights of the first do not fit it), and an order of the second batch that
is an obligation without a column. `MaxAdds` is 2: two weights are enough to share an edge or
to add up. `StandingCharged` looks at the plans in which one truck moves, by at most `MaxLegs`
legs, which is 2 (1 in `MCWeightedStale`, which does not check it): the cost vector is a sum over
trucks and legs. The theorem is for every `MaxLegs`.

`MCLoading` has sheets whose rows are in and out of the order of the cases in `Params`, end at
an empty cell, lack numbers, or have more trucks or orders than the filters take; orders that end before
they start, and before everything starts; two rows for one road; cities that only a road
names, so that both orders of the two calls matter.

`ParamsAsInFile` says for each row of any sheet when its value stands: unless a later row names
the same parameter or one whose case comes before. `samples/params.xlsx` names them in the order of
the cases, so there every value stands. Otherwise a row overwrites parameters of rows before it,
and a parameter that no row names has the value of another one.

`MovesKept` also says what the wrap in `ShiftTimestamps` costs: nothing follows an order that ends
before everything starts, whatever its row says. It takes the trailer mask as the code returns
it. `NothingLost` compares ids, how often each occurs, and every road; what the rest of a row has
become is in `MovesKept`.

Fairness: `FairSpec` is weak fairness of `Next`, in one thread that nothing blocks;
a plan is finite because an order is picked at most once, so the solver's
choice needs no fairness of its own. Deadlock is checked; the end of the loop and
the abort stutter (`Terminated`).

Bounds: `UIntRange`, far above the times of the inputs, as 2^32 minutes are in the program;
`MaxAdds` and `MaxLegs` in `WeightedCities`. `MaxTrucks`, `TruckTimeBound`, `MaxOrders` and `OrderTimeBound`
of `Loading` are the arguments that `main` gives to its filters, made small.

## Proofs

Every safety property, action property and refinement of a passing run is a theorem; only
`Termination` is not (see the end). A module `X_proofs` holds the proofs about `X`,
`Columns_proofs` also those about `Revenue`.

A recurring argument stands in for induction: what fails at some place of a route, a list or a
loop fails first at a least place (`LeastNumber`, from the library's `WFMin`). The community
modules' `SelectSeq`, `SortSeq` and `SetToSortSeq` are recursive, and the provers know nothing of
them; `Sorting` defines the same orders by rank, and `Sorting_proofs` shows what they are.
(`Ranks`: in a finite set with a strict total order, every number below the cardinality is the
rank of one element.)

### BatchSolver

For every value of the constants that meets the assumptions of the module:

- `TypeCorrect`: `Spec => []TypeOK`;
- `NeverStranded`, `WithinWindow`: from `WindowInv`, which says that every pending
  order starts in the window about to be cut or later, and that some truck is free in time
  for it. The second part is why the loop cannot end with a batch in hand: when
  a window is skipped for want of trucks, the pending order that some truck is
  free for keeps the loop going, and a batch of orders without trucks
  cannot arise, as every order's truck is free no later than the order starts;
- `PruningHarmless`: `Spec => []PrunedPairsUnused`, and `Repositioned`: `Spec => RepositionUseful`.
  Both come from `TrucksInv`: `LegsForward` (the legs of a plan start one after the other, and
  after their truck is free), `FreeLegsUseful` (a free-movement order in a plan was made for a
  pending order of the next window that this truck, too, can make from there) and `PlanPhases`.

For orders that end after they start (`ForwardInputs`):

- `NeverBack`: `Spec => TrucksNeverGoBack`; the minute that is taken off an order with one city
  does not move its truck back, because `LegsForward` has it start earlier;
- `ObligationNeverLost`: `Spec => []ObligationKept`, from `KeptInv`: an obligation order of a batch
  is planned when the inner solver returns (`ObligationsPlanned`), and every planned order is
  merged before the batch is released (`MergedServed`).

For inputs that are also `Metric` and `NoLoopOrders` (`RegularInputs`):

- `SolutionAccepted` and `NeverTwice`: from `ScheduleInv`. Its heart is `ReachOK`:
  from the end of a truck's last *served* order there is a direct road to wherever
  its batches have it, in time. `CheckerAccepts` alone is not inductive, because the
  plan starts from the truck's current copy, and free-movement orders move that
  without leaving a trace in the solution. `Detour` (the triangle inequality) carries
  `ReachOK` over a free-movement order, `MergedOrder` turns it into the checker's
  condition when an order is merged, and `PlanDistinct` with `ServedOK` says that
  what is merged was not served before;
- `BatchImplementsDispatch`: `Spec => D!Spec`; merging a real order is
  `Dispatch`'s step, every other action stutters.

`TypeInv`, `WindowInv` and `ScheduleInv` are inductive together, and so
are `TypeInv`, `WindowInv`, `TrucksInv` and `KeptInv`.

### Sums of money

`Columns_proofs` has what `RevenueAgrees` and `StandingCharged` rest on:

- the community modules define a sum recursively, taking an element by `CHOOSE`. The recursion has
  a solution on the subsets of a finite set (`SumsExist`: a set of least size without one cannot
  be), so a sum takes *some* element first (`SumChosen`); that it may take any is `SumWithout`.
  From there `SumUnique` says that whatever starts from 0 and grows by `f[x]` with every element
  is the sum, and the rest follows from it: sums of sums, of parts, over an injection (`SumOver`);
- `SumOfRoutes`: a cost given to the edges of a plan, summed over them, is the sum over the
  routes' places and over the trucks' last edges;
- `RouteVariables`, `RouteBetween`, `EdgesKept`: every edge of a route that a truck can drive is a
  variable and lies between the fake orders, so `PreSolver` keeps it;
- `RevenueOfEdges`: the cost of an edge is the way to the order that it *enters* and the revenue of
  the order that it *leaves*, and the checker pays way and revenue of every order; along a route
  both are the same amounts. The move to the fake last order costs nothing (`StayIsFree`). The
  lemma leaves room for an amount on the last edge, which is 0 in `FlowSolver` and the fine in
  `WeightedCities`.

### FlowSolver

For every value of the constants, with cycles or without:

- `FlowTypeCorrect`: `Spec => []TypeOK`, with the bound 2 on every counter;
- `FilterCorrect`: `Spec => []FilterExact`. `Ahead(t)` is the least set of nodes that
  holds the fake first order and that no variable of the truck leads out of, so it needs
  no induction: what a search reached is in every such set (`SearchInv`, call
  by call), and when it is done, what it reached is such a set (`SearchComplete`).
  `Met` says what every counter is at every moment, in terms of the searches done.

About data whose orders end after they start (the properties say so), for every value of the
constants:

- `NoPlanLostByRows`: `Spec => []EveryPlanAdmitted`. A route's edges are variables (`RouteVariables`),
  lie between the fake orders (`RouteBetween`), and meet every node of the route once on either
  side (`RouteRows`);
- `FlowImplementsAssignment`: `Spec => A!Spec`. That a solution of the rows is a path per truck, and
  nothing else, is `FlowIsPlan`: `EdgeForward` says that a variable leads to a later start, so
  the sorted orders of a truck must follow its edges (`SortedFollows`: at the least place where
  they do not, the edge that enters the next order can leave nowhere). `NoFlowNoPlan` is the other
  half: when the rows have no solution there is no plan. `SolveInv` holds both together;
- `SolverMaximisesRevenue`: `Spec => []RevenueAgrees`. The columns that are set are exactly the edges
  of the plan that is read back (`FlowIsEdges`), not only among them, so their costs are those
  of `RevenueOfEdges` (`PlanPays`). When no column is set the plan is empty (`NothingSorted`).

### ChainSolver

For every value of the constants:

- `ChainTypeCorrect`: `Spec => []TypeOK`;
- `ChainsFit`: `Spec => []WithinArray`. `RoundOK` says how long the chains are in the middle of
  a round: those of earlier rounds at most `round + 1`, those of this one
  `round + 2`, those of the trucks to come 1;
- `EveryChainDrivable`: `Spec => []ChainsDrivable`. `Longer` and `ClosedBy` are what a step makes of a
  chain; the `...Origin` lemmas say that every chain after a step was there before or is
  made that way;
- `NoChainTwice`: `Spec => []ChainsOnce`, from `OnceInv`: a chain that is made longer has not been
  gone through before (`MergeOnce`), and one that is closed differs from all that have been
  (`WeightsOnce`);
- `ObligationsInChains`: `Spec => []ObligationsExtended`, from `ContinuedInv`: which chains have been
  continued when a turn of `Merge` is at a place of a truck's list (`PastContinued`), and that
  those of the greatest length of the round are at its end (`MergeLengths`), so that the ones
  that are not gone through have been, a round earlier.

For orders that end after they start (`ForwardInputs`):

- `PlanAccepted`: `Spec => []PlanValid`. `InTime` (every order of a chain ends before a later one
  starts) makes a chain free of repetitions, the rows make two chains so.

### WeightedCities

For every value of the constants, from `Inv`: the types, the finiteness of the maps, and
`DataInv`, which says that `data_` is what `ModifyData` makes of the last input with the weights
that were *copied* then; the caller's weights may have changed since.

- `WeightedTypeCorrect`: `Spec => []TypeOK`;
- `RealOrdersStay`: `Spec => []RealOrdersFirst`;
- `EdgesCorrect`: `Spec => []EdgeOfWeight`. Every weight shares its key with exactly one maker,
  the first of them in the iteration (`MakersOf`), so the position of its edge is one and
  no edge is made twice;
- `BonusesCorrect`: `Spec => []BonusPaid`. `RoundingError` is the arithmetic: the compensation is exact
  in hours and the duration is whole minutes;
- `StandingIsCharged`: `Spec => []StandingCharged`, from `ModelInv`, which says that the columns are
  those of `data_` and what each costs, and from `RevenueOfEdges`. `FineIsStanding` has the fine on
  the edge to the fake last order, whatever order or none it leaves, in terms of where the truck's
  plan ends.

### Loading

For all sheets:

- `LoadingTypeCorrect`: `Spec => []TypeOK`;
- `ParamsCorrect`: `Spec => []ParamsAsInFile`. `ParamsRead` says which parameters are right so far: a
  row spoils those of its own case and of later ones only, so a value stands (`Stands`) as long as
  every row after it names a later case;
- `MovesCorrect`: `Spec => []MovesKept`, and `NothingLostCorrect`: `Spec => []NothingLost`. `RowsInv` says what
  each truck, order and road is in terms of the row it comes from, at every stage: as read,
  shifted, sorted, squeezed up to the turn of the loop. Moves carry over because the ids are
  injective (`CitiesInv`) and the shift is the same for all times; an end that it wraps is later
  than every start (`WrappedEnd`). What a filter leaves is counted by id (`Left`), and sorting is a
  bijection of places, which keeps the counts (`CountsKept`);
- `CitiesCorrect`: `Spec => []CitiesInverse`. `MutualInverse` is the same of any two maps, so that
  `SqueezeKeeps` can be used for each of the two calls that a step makes. It needs no
  types: a city may be anything.

### Only model-checked

`Termination`, a liveness property under fairness, which is out of the provers' reach.

## Plan

1. (done) `Fleet`, `Checker`, `Dispatch`, `BatchSolver` and their proofs.
2. (done) `Assignment`, `Columns`, `FlowSolver`, `Revenue`, `WeightedCities` and their proofs.
3. (done) `ChainSolver` and its proofs.
4. (done) `Loading` and its proofs.
5. Proofs of what the models use of each other by name only: that a plan of `BatchSolver` with the
   flow model, before the minute of a loop is taken off, is one that `Assignment` allows for the
   batch's data; and the safety part of `Termination`: a bound on the number of turns that every
   turn brings nearer, as an action property.

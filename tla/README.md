# multibot3 in TLA+

Specifications, model-checking runs and proofs for multibot3, a ROS 2 stack that
assigns tasks to a fleet of robots, plans their paths on a roadmap, and lets
them execute the plan without two robots ever claiming one location. Paths below are
relative to the repository; the code is under `src/src/`.

## 1. The system

Every node is one process with a single-threaded executor: callbacks never
overlap inside a node, and everything between nodes is an asynchronous topic.
The one exception is `mapf_node`: each `Replan` goal runs in a detached thread,
serialised with the callbacks by one mutex, in no particular order.

| component | state | operations | talks to |
|---|---|---|---|
| `mrs_mrta` / `mrta_node` | goal queue per robot (ring of Q+1), pool of waiting tasks, load counters, override latch, last published view, deferred releases, distance table | `OnRoadmap`, `OnTaskRelease`, `OnGoalCompletion`, `OnOperatorCommand` | reads `/roadmap`, `/task_release`, `/goal_completion`, `/{robot}/operator_command`; publishes `/assignment` (latched) |
| `mrs_mapf` / `mapf_node` and service | latest roadmap, specs, assignment, last plan, next revision, revision last attempted | `OnRoadmap`, `OnRobotSpecs`, `OnAssignment`, `Execute` (a `Replan` goal) | reads the latched inputs, serves `Replan`, publishes `/discrete_plan` (latched) |
| `mrs_mapf` search plugin | reservation table, plans made so far, labels of one leg | `solve`, `search_leg` | called by the service up to twice per attempt |
| `mrs_sadg` / `sadg_t0_node` | execution graph (segments, dependencies), entered / completed / released, blocked edges, ladder rung, event buffers, acknowledgements, commit numbers | `OnPlan`, `OnEntryEvents`, `OnStopDeclarations`, tick every 50 ms | publishes `/execution_constraints` (latched) and `/{robot}/segment_release` (latched) |
| `mrs_sadg` order search | candidate orders, commit gates AG1-AG5 | branch and bound over switch groups | switch selector node; never connected to the tick in the node |
| `mrs_trajopt` / `trajopt_node` | latest observation and its age, resolved segment, tick service per robot, declaration ledger (hysteresis), open declaration | sensor and latch callbacks, control tick | publishes commands, `/stop_declaration` |
| `mrs_sim` | clock, integrated poses, release schedule, blocked edges | clock, release and roadmap publishers, integrator, observations | the world |
| `mrs_core`, `mrs_msgs` | none (distance table, reason codes; schemas) | pure functions | everybody |
| `mrs_viz`, `mrs_bringup`, `prototype`, `build_w4b`, `install_w4b` | display, launch, experiments, generated trees | none of the control logic | |

What makes it correct, and hard:

* **Execution.** The server knows moves late, robots read its bits late, and
  plans replace one another while robots move and messages are on their way:
  `mapf_node` plans whenever a new assignment comes, the server puts in force what
  it gets, and each robot adopts it at a moment of its own. Two robots must
  never stand on one location or meet head on; a bit must be true whenever it
  can be read; a bit must not be taken back; the fleet must not stand for ever.
  All this together must amount to one thing: robots visit every shared
  location in the order of the plan.
* **Assignment.** Tasks, completions, operators and the roadmap arrive in any
  order. No task may be lost, split or given twice; unfinished goals have
  distinct endpoints; a robot's list only grows at the end; a pooled task is
  tried again; the latched topic is never stale and never repeats itself.
* **Planning.** Inputs come in any order and goals wait while plans are
  replaced. An attempt must end with a plan the server accepts, whatever the
  search does; a partial replan must leave the others alone and start where
  the robots are heading. The search itself must keep robots apart although
  each looks only at those planned before it.
* **Onboard control** must declare a blocked edge neither on a glitch or an old
  scan nor never, and must release what it declared, not too soon.

`PROJECT.json` lists the hazards, each at its line.

## 2. Modules

| module | models | role |
|---|---|---|
| `SadgCompiler` | `constraint_compiler.cpp`, `alt_head_lift.cpp`, `self_checks.cpp` | pure operators: from a plan to segments, dependencies and an outcome |
| `SadgExecution` | `sadg_t0_node.cpp` and all it calls | state machine: node, latched topics, event channel, robots |
| `VisitOrder` | | what a plan asks of the fleet; `SadgExecution` implements it |
| `SadgExecution_proofs`, `SadgContract_proofs` | | theorems about these |
| `Assignment` | `mrta_node.cpp` and all it calls | state machine: node, completion monitor, operators |
| `Assignment_proofs`, `AssignmentHistory_proofs` | | theorems about it |
| `PlanSelfChecks` | `segment_graph.cpp`, `self_checks.cpp` of mapf | pure operators over the plans of `SadgCompiler` |
| `MapfPlanning` | `mapf_node.cpp`, `mapf_planning_service.cpp`, `visit_order.cpp` | state machine: node, waiting goals, any search |
| `PlanSelfChecks_proofs` | | what a checked plan guarantees to the server |
| `MapfPlanning_proofs` | | theorems about the planning node |
| `PrioritySearch` | `priority_safe_interval_search.cpp`, `reservation.cpp` | the search, loop by loop |
| `EarliestLegs` | | what the search of a leg is to find |
| `PrioritySearch_proofs` | | theorems about these |
| `StopDeclaration` | `trajopt_node.cpp` with its tick service and ledger, `observation_node.cpp` | state machine: world, scans, onboard node |
| `StopDeclaration_proofs` | | theorems about it |
| `MC_*` | | small instances |

How they compose: `MapfPlanning` extends `PlanSelfChecks`, which extends
`SadgCompiler`, so a published plan is handed to the server's own compiler;
`SadgExecution_proofs` and `MapfPlanning_proofs` both build on
`PlanSelfChecks_proofs`, what a checked plan is worth: the one ends with a fleet that is
safe when it is fed with checked plans, the other with a planner that publishes
no others. `PrioritySearch` is one strategy among those that
`MapfPlanning` admits. `StopDeclaration` ends where `OnStopDeclarations` of
`SadgExecution` begins.

### SadgCompiler, SadgExecution and VisitOrder

A segment id `{robot}#{k}` is a pair, a location a model value. `CompiledGraph`
is the graph `compile` leaves behind *also when it fails*, because `OnPlan`
compiles into the live graph: after an H-cons rejection it is empty, after a
later failure it holds the dependencies compiled so far. `Outcome` tells the
four ways a compilation ends.

| action | code |
|---|---|
| `OnPlan` | `SadgT0Node::OnPlan` with the compilation and the publication of the constraints |
| `OnEntryEvents`, `OnStopDeclarations` | the callbacks of these names with their adapters |
| `OnTick` | `OnTick`, `ExecutionTickService::run_tick`, `PublishReleases`, one atomic step as in the executor |
| `DeliverRelease`, `Adopt` | a robot receives a latched message (external) |
| `Depart`, `Arrive` | a robot leaves, enters (external) |
| `ArriveAtStart` | a robot ends a move begun under an earlier plan where its new path begins (external) |
| `LoseEvent` | the event channel drops its oldest message (external) |

Left out because the node never reaches it: the Reorder channel (`t1_present`
is never set), deficits (no threshold configured), corridors (none configured).
The policy's memory is a variable of its own because it outlives the graph.

Environment. Nothing in the repository publishes `/entry_events` or reads
`/segment_release`, so robots are modelled from what the schemas ask of them: a
robot may leave at any time (the bit closes the arrival location, not the
departure), enters on an open bit for the commit number it has adopted, and reports both
moves in order. It adopts new constraints at any time, standing or between two locations;
until then it follows the old ones, and its reports name segments of the old plan. A move that
has begun ends at the start of the adopted path if that is where it leads; there is no
segment to wait for or to report on. Anywhere else no bit lets the robot in. Up to `MaxLost` events
are lost.

Plans are not restricted: `OnPlan` takes the next plan of `Plans`, or a later one (the
topic is latched with depth 1), in *every* state. `mapf_node.cpp:234-258` publishes
on every new assignment, from the start vertices in it, without a look at the robots. How a
plan took over is recorded in two history variables that no action reads, and the
properties are conditional on them:

* `drained`: when it was put in force nothing reported on earlier plans was still to be read,
  in the channel or in the buffers, and no robot has reported on an earlier plan since.
* `anchored`: it starts each robot where the robot stands or, between two locations, where it
  is heading, and the robots are not head on then.

Both are properties of a moment: a plan that is drained and anchored gets all that is promised
whatever the plans before it were, and nothing is promised under the next one if that is
not. True bits and the visit order need `drained` only; exclusion needs both.

`VisitOrder` has neither server nor message: a robot enters a location when
all earlier visits of it are over, and a plan may take over at any time, when some robots move.
Its variables are read off the robots of `SadgExecution` (`Discipline`; a robot that
has not adopted the constraints in force is at index 0 if it stands and at -1 if it moves), and
`VisitOrderKept` says that every behaviour of the distributed system is one of it. After a takeover that
is not drained (`Disturbed`) nothing is promised until the next.

### Assignment

A task is its release index; a goal record stands for its unique id. `base` is
`AssignmentState` with the policy's counters; queues are sequences (the ring
arithmetic is left to a later refinement). Each handler ingests and drains at
once, so the event ring is never filled from two handlers and does not appear;
a message of several operator commands is applied as the ring sorts them, by
robot and number, ties as they came (`Orders`: the order is chosen, and there is exactly one).
The loops of the code are folds, written as a recursive function (`Folded`) that a proof can expand. `OnRoadmap` replays the deferred releases one by one,
each with its own publication. `Resolvable` stands for the goal id resolver of
the service; the node passes none, which is the empty set.

The completion monitor (external) reports every goal of the list a robot was
last shown exactly once, in order, and may run ahead of the node.

### PlanSelfChecks and MapfPlanning

| action | code |
|---|---|
| `OnInput` | `OnRoadmap`, `OnRobotSpecs`, with the attempt `MaybePlan` makes |
| `OnAssignment` | `OnAssignment` with `MaybePlan`; the latched topic may skip revisions |
| `SendGoal`, `SendEarlyGoal` | the `Replan` client (external): counts and order of the plan in force, or a goal before there is one; either for any part of the fleet |
| `Reject`, `Replan` | `Execute` under the mutex: the two ways it ends, with `run_once` and `PublishDraft` |

`Results` is `run_once` as the set of its possible results: a draft for the
affected robots, else one for the whole roster, else the safety stop, each
taken only when it passes the self-checks. The search is what its interface
says: it may fail, and otherwise returns, for each robot, *any* walk with *any* arrival
times, up to bounds. So what the runs show of published plans does not rest on the search.
Edges have one length in this module and the schedule of a retained plan is the
one without waits, as `exact_arrival_schedule` computes it; blocked edges only
narrow what the search may return.

### PrioritySearch

A step is a step of the loops of `solve` and `search_leg`: a robot's turn
begins, a goal is skipped, a leg starts, the next open entry is expanded, the
path is read back, the turn ends. Times are exact multiples of a unit: the
tolerance of the floating-point comparisons is left out. `Departures` gives
what the fixed point of `earliest_safe_departure` computes: the first moment
not before `t` at which the segment is free in both directions, and none if
somebody rests at an end by then (the sentinel of the code, after which it gives up).
The comment at `priority_safe_interval_search.cpp:61-62` promises the *smallest* end of a
blocking interval and the code takes the largest; the first free moment is the
same. Vertices are reserved for resting places only, never for passing or waiting.

`EarliestLegs` says what a leg's search is to find without searching: it follows
every walk to the goal and collects all times at which the robot can be there, whatever
moment it leaves at. It has two bounds, the latest time (`Horizon`) and the longest
walk (`MaxVisits`).

### StopDeclaration

| action | code |
|---|---|
| `ObservationTick` | `OnTick` of `observation_node`: the blockage events that are due, then a scan per robot |
| `OnRobotSpecs`, `OnRoadmap`, `OnExecutionConstraints`, `OnOdom`, `OnScan` | the callbacks of `trajopt_node` |
| `OnControlTick` | `OnControlTick`: for each started robot `run_tick`, the ledger, the transition and its message |
| `Move` | `OnTick` of `state_integrator`, reduced to the way left on the edge: whatever the last command is, the robot comes nearer or stands still |
| `LoseScan` | the best-effort topic (external) |

The robot's scan is reduced to the reading along its edge, the one that the
occlusion test can see. Counters stop at the thresholds they are compared with.
A trajectory tick is planned, infeasible, or throws before the ledger is reached.

## 3. Runs

| run | checks | result |
|---|---|---|
| `convoy` | types, vertex exclusion, no head-on, acknowledgement, stable bits, `VisitOrderKept` (refinement), `PlanCompletes` under fairness; 3 robots, 5 locations, a plan and one that the intake rejects | holds, about 160 000 states |
| `replan` | vertex exclusion, no head-on, sound bits, first rung only, `VisitOrderKept`; 2 robots, a lost event, a blocked edge, 3 plans with equal segment names at any time | holds, about 741 000 states |
| `rejected` | vertex exclusion with a plan that fails after the intake | **violated** |
| `undrained` | bits are true without `drained` | **violated** |
| `elsewhere` | robots stay apart without `anchored` | **violated** |
| `assign` | types and capacity, endpoint exclusivity, completions meet heads, task conservation, no stranded pool, topic current, history extends, `EveryTaskServed` under fairness | holds, about 32 000 states |
| `override` | topic current, history extends, no empty publication under operator commands | holds |
| `stop` | paired, fresh and held declarations; blocked and clear ways reported under fairness | holds, about 17 000 states |
| `nearend` | only blocked edges are declared blocked | **violated** |
| `mapf` | published plans compile, the last assignment is attempted, attempts end with a plan, scope and baseline are kept | holds, about 4 500 states with thousands of drafts each |
| `order` | items of a published visit order are steps of the plan | **violated** |
| `search` | schedules apart, legs earliest (against all walks and all departure times), parks avoided, termination | holds, about 17 000 states |

Bounds. The fleets of SADG are the smallest that show both kinds of dependency: an
opposing pair (r1 and r2 around `b`), a chain of following ones and a shared
edge (r2 and r3). `convoy` has a plan that the intake rejects, which may come at any moment
of the one in force; `replan` has one between two plans of which the second starts r1 at `b`:
where r1 stands at the end of the first plan, where it is heading in the middle of it, and where it
is not before. So drained and undrained, anchored and other takeovers all occur, with
robots standing and moving, and the segment names of the first plan are reused.
Plans are finite and taken in order, which bounds all counters but the losses
(`MaxLost`); nothing else is bounded.
In `Assignment` the six tasks fill queues of two, so tasks wait for capacity
and for endpoints, a later release overtakes pooled ones, and the pool is
served several at a time.

`mapf`: two robots, a corridor with a siding (the smallest map on which two
robots can change places and on which a draft can be cyclic), walks of three
locations (`MaxSteps`) with waits of up to one unit (`MaxWait`), three
assignments of which the second puts two robots on one vertex, one goal (`MaxGoals`)
that may wait across them. Two goals that wait at a time are beyond these bounds
(the walks of each multiply), but the theorems on this module hold for every `MaxGoals`.
`stop`: one robot, thresholds in the proportions of `trajopt.yaml` (opening
within the staleness bound, hold longer than the closing run); scans may fail
to arrive for up to `ScanGap` ticks, which is more than the staleness bound, and
one trajectory tick may go wrong (`Disturbances`).
`search`: robots planned one after the other interact through reservations
only, so two in scope and one out of it show every kind: opposite traversals,
overtaking on unequal paces, a rest on the way, a way around. Its legs are compared with
all walks of up to four vertices, the whole roadmap (`MaxVisits`), and all arrivals up
to time 20 (`Horizon`).

Fairness. Executors serve every waiting callback and timer, so each handler is
weakly fair; reliable transport delivers the newest latched message; a robot
that may move does. The planner, operators and blocked edges are not fair: nothing
in the code makes them act. `PlanCompletes` speaks of plans that are `Undisturbed`: drained and
anchored, no event lost, and the graph still theirs. A lost departure leaves its successor waiting
for good, and so does a rejected plan that empties the graph under the one in force (both are among
the hazards). In `StopDeclaration` the two
timers are weakly fair and the reception of scans strongly: the topic may lose
one scan after the other but not all. `PrioritySearch` is one thread, which
runs on: weak fairness of `Next`.

Disagreements found:

1. `rejected`: `OnPlan` replaces the graph before it knows whether the plan
   compiles. With a plan that passes H-cons and fails later, the next tick
   publishes its bits under the old commit number.
2. `undrained`: neither the event buffers nor the channel know commits; a late
   departure of the old plan opens a bit of the new one.
3. `elsewhere`: `mapf_node` plans for a new assignment from the starts in it, which
   `mrta_node` sets once at start-up (`robot_vertex` is also what an idle robot is costed from). The
   server puts the plan in force while the robots are elsewhere; its order of visits does not
   know where they are, and two robots meet although every bit is true.
4. `nearend`: the ray along a free edge measures the way to its end, so within
   0.10 m of an arrival vertex a robot reports its edge blocked for everybody.
5. `order`: the order of visits already made is copied into the new plan with
   the step indices of the old one.

Deadlock is checked in all runs but `mapf`, `order` and `search`. There the
system really stops: the inputs are latched once, assignments and goals are
finite, and a search ends with its answer.

## 4. Proofs

Everything here holds for every fleet, map, and choice of the constants.

`SadgExecution_proofs`:

* `TypeCorrect`: the types, from `TypeInv`, which adds that the plan in
  force is one of `Plans` and that every robot is on the one it has adopted.
* `SafetyInvariance`: `SafetyInv` is inductive. It says, whenever plans come and wherever they
  start the robots, that (i) the graph is the compiled plan in force or was emptied by a rejection.
  If the plan took over drained, (ii) every event on its way, buffered or accounted for is true of
  the robots; (iii) every bit in a latched topic or a robot's copy is backed by the moves its
  dependencies ask for; (iv) visits happen in the order of the plan. If it was anchored besides, (v) every
  robot is on its path: it stands on a step of it, or moves to the next, or ends
  at its first step a move begun before. Release soundness alone is not
  inductive: a bit is as good as the accounting, the accounting as good as the
  buffers, the buffers as good as the channel. A new plan needs nothing from the
  old one: a drained takeover finds all of it empty, which is what the condition is for.
* `ReleasesAreSound`, `Exclusion` follow; exclusion needs the visit
  order to be walked: of two robots that visit one location one has its
  next visit backed by the departure of the other.
* `HeadOnFree` from the same invariant when `CrossingsOrdered` holds. Of two opposite crossings
  one is ordered first; a robot that ends an older move at its start is settled by `anchored`.
* `BitsAreStable`: with the extra invariant that open bits stay permitted.
* `FirstRungIsLast`: the ladder never reaches its second rung.

Hypotheses. `PlannerKeepsContract`: a plan that passes the H-cons intake is
`WellFormed` (one entry orders all visits of a shared location, a robot's own
visits in path order) and compiles. Plans that *fail* the intake need
nothing, and nothing is assumed of when plans come or where they start. `CrossingsAreOrdered`
for head-on only. The run `rejected` shows that the first cannot be dropped, the runs `undrained` and
`elsewhere` that the conditions in the properties cannot.

`SadgContract_proofs`: `AckIsHonest`, under `IntakeSuffices` (a plan that passes the H-cons intake
compiles), until an event is lost; plans need not arrive drained.
`AckInv` adds to `TypeInv` that the events on their way carry exactly the numbers
from the node's acknowledgement to the robot's next event, that no release
acknowledges more than was read, and that every move on a segment of the graph is
accounted for, buffered or on its way. A tick that acknowledges everything therefore
finds the channel empty; the next move of the robot outdates the acknowledgement, and a new
plan the commit number. Both conditions are needed: a lost event moves the
acknowledgement past a move the graph never learns of, and a plan the generator
refuses leaves its own segments in the graph under the old commit number.

`SadgContract_proofs`, second half: `Implements`, under `PlannerKeepsContract`: the
initial states map to initial states of `VisitOrder`, `OnPlan` with an accepted
plan to `Replan` if it is drained, in motion or not, `Depart` to `Leave`, `Arrive` and `ArriveAtStart`
to `Enter`, a report on an earlier plan to `Disturbed`, and everything else, the adoption of constraints
included, to a stutter. The step that carries weight is `Arrive`: an open bit means that
the chain of handovers before the visit is backed by real departures (ii, iii), and the
chain covers every earlier visit (iv). Lost events are included.

`PlanSelfChecks_proofs` discharges these hypotheses from what the planner tests. A
draft here passed the checks and lists its visits (`ListsVisits`):

* `SeamNeverInconsistent`: the self-check of the compiler cannot fail on its own
  output, whatever the plan.
* `ChecksOrderCrossings`: if two robots used a segment in opposite directions in
  orders that disagree at its ends, the handovers along the two ends (`Lane`) would
  close a set of segments of which each waits for another; `Acyclic` excludes it.
* `ChecksMeetContract`: the draft is `WellFormed`, and compiles if it passes the intake.
* `ChecksKeepOneOrder`: it does pass the intake, if each location has one entry
  (`OneEntryEach`). By the same argument (`EdgeOrder`), two robots that use an edge in
  one direction are listed in one order at both ends. The intake compares two
  restrictions of visit sequences; their positions correspond one to one in the same
  order, so arranged they are equal (`ArrangedAlike`). The planner never tests H-cons,
  and the server, which does, never sees it fail.
* `ChecksCompile` puts the three together.

`CheckedFleet`, at the end of `SadgContract_proofs`: for plans that passed these checks, execution
has vertex exclusion, no head-on meeting and the visit order, with no hypothesis left on the
plans. It does *not* say that the fleet of the repository is safe: that a plan takes over drained
and anchored remains the condition in these properties, and `mrs_mapf` ensures neither.

`PrioritySearch_proofs`: `SearchInv` is inductive: the types; reservations and
resting places are those of the plans made (`ReservedInv`); the reservations
stand still during a turn and the route ends where the turn has got to (`TurnInv`);
every label is reached from its parent by a step that was safe when the label
was set, hence still is (`LabelInv`); the path read back is a chain of such
steps (`TraceInv`). `Disjointness` and `ParksAvoided` follow by carrying the
safe step from label to path to route. Label improvements make this
delicate: a parent may be improved after its child was labelled, so the step
that led to the child starts *later* than the parent's label says, which is
why a reservation has to begin with the wait.

`LegsAreEarliest` adds `EarliestInv`, the completeness of the search: a labelled
vertex either waits in the open queue or has been expanded, and then all its
neighbours are labelled no later than any safe departure from it would arrive
(`FrontInv`). The argument has four parts:

* Leaving as early as possible loses nothing: the gap between reservations in which a
  safe departure lies begins with one of the moments that are looked at, and that
  moment is safe too (`FirstSafe`).
* The heuristic is consistent, so estimates never fall along a walk
  (`DistancesConsistent`). It counts walks of up to as many segments as there are vertices;
  that these suffice (`EnoughSegments`) follows by counting the vertices whose distance is
  settled, one more with every segment (`OneMoreSettled`).
* Along any walk to the goal, each vertex is labelled by the time the robot can be there,
  or an entry is waiting whose estimate is no later (`AlongWalk`). So when the goal
  is taken from the queue nothing arrives before it (`NoneEarlier`), and when the
  queue is empty there is no walk (`NoneLeftOut`, `NoneFromAfar`).
* Labels follow free segments (`FreeInv`), so what is read back can be driven.

It holds for all values of `Horizon` and `MaxVisits`, hence for all walks, and needs that
the roadmap has finitely many vertices (`VerticesAssumption`).

`MapfPlanning_proofs`: `PlanningInv` is inductive: nothing received is
left unattempted once all inputs are there; the revision of the plan in force
is one less than the counter, and there are no more plans than attempts and answered goals; a goal
that counts segments refers to a plan *not newer* than the one in force, and
while that one is in force the counts lead to the vertices the robots were heading for.
The last part carries `BaselineIsHonoured`: a goal that waits through an attempt finds
another revision and is rejected. `ScopeIsKept` needs only what `Combined` retains,
`LastIsAttempted` the first part. `EveryAttemptPublishes` rests on
`SafetyStopPasses`: a fleet parked apart shares no location and has no segment, so
the last resort of `plan` always passes the self-checks.

`PublishedIsLawful` adds `LawInv`: the plan in force passed the checks and lists its
visits, each location once, and no waiting goal carries an order. The robots searched
for, kept or parked all have a path with growing times (`CombinedIsTimed`); so the
visits of a location are a finite set with a strict order, `Arranged` lists
them by rank (`ArrangedSorts`), each once, a robot's own in path order (`DraftLists`);
the checks do the rest through `ChecksCompile`. Its premise, that goals carry no order,
is needed: the run `order` violates what follows from it. `RosterAssumption`, a
finite fleet, is what makes a sort possible.

`StopDeclaration_proofs`: `TypeCorrect`; `Pairing` (the open declaration is the
last onset sent); `Hold` (the ticks since the onset are at least those the
ledger has counted); `Freshness`.

`Assignment_proofs`: `AssignInv` is inductive: types and capacity, A8 of the queues,
and that the topic is current, for the latches as well. Its difficulty is
the loops: a completion retries the whole pool, the roadmap replays all deferred
releases, a message holds several commands. The induction theorems of the
library take an operator as a parameter; `Least` derives a first-order form from
the well-foundedness of the natural numbers (`WFMin`), `IterationExists` that the
recursive function of a fold exists, `StepsStay` that it stays in a set each step
keeps. The policy's choice exists because each of the four keys has a least value (`BestIsCandidate`).
`EveryRevisionIsAChange` needs an order besides: a replay may publish several
times, so that its last publication could equal the one before the replay; goals and
pool only grow in a replay (`ReleaseGrows`), which excludes it.

`AssignmentHistory_proofs`: `HistoryInv` is inductive. To `AssignInv` it adds

* `TaskInv`: in what the robots were given (completed goals followed by the queue) no
  goal stands twice; a task not yet released, or waiting in the pool or among the
  deferred releases, stands nowhere; every other released task stands with one robot,
  all its goals in order. Nothing waits twice.
* `LedgerInv`, for each robot: the completions on their way are a prefix of its queue
  and the tail of the goals it reported; the list it was last shown is an operator's
  goal or a stretch of what it was given that begins no later than its queue.
* `Live`: where an idle robot can take any task, a pool is not empty only while
  some queue is not; `Quiet`: an unpublished topic shows no goals.

`TasksAreConserved`, `NoCompletionIsRefused`, `HistoryOnlyGrows` and
`PoolNeverStranded` follow. The delicate part is the list a robot was *shown*: it may
be older than the queue by any number of completions and may have been hidden by an
override and shown again, so a robot may reach the end of a goal that is not the
head of the queue. The ledger says where in its history that list stands; hence a
robot never repeats a goal it has reported, and what it reports next is the
next goal of its history. The loops over releases and pool are handled as in
`AssignInv`, with the two parts as what each step keeps (`Keeping`, `Steady`). The
filter `Only` is a recursive function of the position: that it distributes over
concatenation (`OnlyConcat`) and what it returns (`OnlyElements`, `OnlyAllOrNone`)
is proved from the well-foundedness of the naturals, like the loops.

Only model-checked: `EveryTaskServed`, `PlanCompletes`, `BlockReported`, `ClearReported`
and `Terminates`, which are liveness and out of the prover's reach. Every
invariant and every action property of the runs that hold is a theorem.

## 5. Not modelled

* The order search, gates and switch selection of `mrs_sadg`: the node never
  sets `t1_present`, so nothing they compute reaches the system.
* Trajectory search, velocity profiles, commands, scan geometry and
  kinematics: numeric. The round ledger and the trajectory buffer only serve them.
* Malformed messages that the boundary adapters refuse, and start-up refusals.
* In `StopDeclaration`, robots do not act on each other: the scan sees
  blockages of the scenario only, as `BuildScan` does.
* The distance table of `mrs_core` is a constant of `Assignment`. Display,
  launch files, prototype and generated trees hold no control logic.

## 6. Plan

Done, in the order of what a mistake costs: execution and its proofs;
assignment; the stop channel; planning with its self-checks; the search; the
refinement to `VisitOrder`. Next:

1. `GoalRing`: the ring of Q+1 slots refines the queue of `Assignment`;
   an abstract log with a cursor per robot that `Assignment` implements.
2. `CommitGates`: AG1-AG5 and the order search, acyclicity of what is committed.
3. `Distances`: the reverse Dijkstra against a reference definition.
4. Proofs of the same kind for these modules.

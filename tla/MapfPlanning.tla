---------------------------- MODULE MapfPlanning ----------------------------
(***************************************************************************)
(* mapf_node and its planning service.  The node plans for the whole       *)
(* roster when its latched inputs are complete and whenever an assignment  *)
(* of another revision comes; it serves Replan goals in threads of their   *)
(* own, one at a time under the node's mutex, in any order.  An attempt    *)
(* plans for the affected robots, else for all, else parks the fleet, and  *)
(* a draft is published only when it passes the self-checks.               *)
(*                                                                         *)
(* The search is a plugin behind IPlanningStrategy: it may fail on any     *)
(* request, and otherwise returns, per robot, some walk on the roadmap     *)
(* from the given start with the arrival times it has in mind.             *)
(***************************************************************************)
EXTENDS PlanSelfChecks, SequencesExt

CONSTANTS
    Rank,          \* the order of the robot identifiers
    Arcs,          \* the directed edges of /roadmap, of one length
    Assignments,   \* the start vertices of every revision of /assignment
    OrderCarried,  \* Replan goals carry the order of the visits made so far
    MaxSteps,      \* bound: locations of a searched walk
    MaxWait,       \* bound: time units the search waits before a segment
    MaxGoals       \* bound: Replan goals

ASSUME RosterAssumption == IsFiniteSet(Robots)
ASSUME RankAssumption   == /\ Rank \in [Robots -> Nat]
                           /\ \A r, s \in Robots : Rank[r] = Rank[s] => r = s
ASSUME RoadmapAssumption == Arcs \subseteq Vertices \X Vertices
ASSUME AssignmentsAssumption == Assignments \in Seq([Robots -> Vertices])
ASSUME CarriedAssumption == OrderCarried \in BOOLEAN
ASSUME BoundsAssumption == MaxSteps \in Nat \ {0} /\ MaxWait \in Nat /\ MaxGoals \in Nat

VARIABLES
    inputs,        \* which of /roadmap and /robot_specs have come
    assignment,    \* the revision of the last /assignment, 0 before the first
    attempted,     \* the revision last planned for
    published,     \* the plan of the last /discrete_plan
    nextRevision,  \* the plan revision of the next one
    goals,         \* Replan goals accepted and not yet answered
    sent,          \* Replan goals sent so far
    answer         \* the last Replan result

vars == <<inputs, assignment, attempted, published, nextRevision, goals, sent, answer>>

NoPlan   == [revision |-> -1, steps |-> [r \in Robots |-> <<>>], visits |-> <<>>]
NoAnswer == [goal |-> 0, outcome |-> "none", plan_revision |-> 0]

Complete == {"roadmap", "robot_specs"}

Init ==
    /\ inputs = {} /\ assignment = 0 /\ attempted = 0
    /\ published = NoPlan /\ nextRevision = 0
    /\ goals = {} /\ sent = 0 /\ answer = NoAnswer

-----------------------------------------------------------------------------
(* The strategy: timed walks.                                              *)

Walks ==
    {w \in UNION {[1 .. n -> Vertices] : n \in 1 .. MaxSteps} :
        \A i \in 1 .. Len(w) - 1 : <<w[i], w[i + 1]>> \in Arcs}

\* arrival times: one unit per segment, and the waits before it
Schedules(n) ==
    {t \in [1 .. n -> 0 .. n * (MaxWait + 1)] :
        t[1] = 0 /\ \A i \in 1 .. n - 1 : t[i + 1] - t[i] \in 1 .. MaxWait + 1}

SearchedFrom ==
    [v \in Vertices |->
        UNION {{[steps |-> w, arrival |-> t] : t \in Schedules(Len(w))} :
                   w \in {u \in Walks : u[1] = v}}]

Solutions(start, scope) ==
    {f \in [scope -> UNION {SearchedFrom[start[r]] : r \in scope}] :
        \A r \in scope : f[r] \in SearchedFrom[start[r]]}

-----------------------------------------------------------------------------
(* combine_plans: the searched robots, the kept ones (with the schedule    *)
(* their path has without waiting) and those of which nothing is known.    *)

Waitless(steps) == [steps |-> steps, arrival |-> [i \in DOMAIN steps |-> i - 1]]
Parked(v)       == Waitless(<<v>>)

\* fault: a robot out of scope is parked although its plan is retained
CombinedParking(req, fresh) ==
    [r \in Robots |-> IF r \in DOMAIN fresh THEN fresh[r] ELSE Parked(req.start[r])]

Combined(req, fresh) ==
    [r \in Robots |->
        IF r \in DOMAIN fresh              THEN fresh[r]
        ELSE IF req.previous # NoPlan THEN Waitless(req.previous.steps[r])
        ELSE Parked(req.start[r])]

-----------------------------------------------------------------------------
(* build_visit_order: the visits of a location by time of entry, ties by   *)
(* robot and index, after the order the request says is already made.      *)

Visitors(c, v) ==
    {it \in UNION {{[robot |-> r, index |-> i - 1] : i \in DOMAIN c[r].steps} : r \in Robots} :
        c[it.robot].steps[it.index + 1] = v}

EntersFirst(c, x, y) ==
    LET time(it) == c[it.robot].arrival[it.index + 1]
    IN  \/ time(x) < time(y)
        \/ time(x) = time(y) /\ Rank[x.robot] < Rank[y.robot]
        \/ time(x) = time(y) /\ x.robot = y.robot /\ x.index < y.index

Sequenced(c, v, prefix) ==
    LET rest == Visitors(c, v) \ ToSet(prefix[v])
    IN  prefix[v] \o Arranged(rest, [x \in rest |-> {y \in rest : EntersFirst(c, y, x)}])

Shared(c) == {v \in Vertices : Cardinality(Visitors(c, v)) >= 2}

Entry(c, v, prefix) == [location |-> v, sequence |-> Sequenced(c, v, prefix)]

Draft(c, prefix) ==
    [steps  |-> [r \in Robots |-> c[r].steps],
     visits |-> SetToSeq({Entry(c, v, prefix) : v \in Shared(c)})]

-----------------------------------------------------------------------------
(* run_once, as the set of its possible results.                           *)

NoPrefix == [v \in Vertices |-> <<>>]

Checked(req, scope) ==
    {d \in {Draft(Combined(req, f), req.prefix) : f \in Solutions(req.start, scope)} :
        Passes(d)}

SafetyStop(req) == Draft([r \in Robots |-> Parked(req.start[r])], req.prefix)

Results(req) ==
    {[how |-> "scope", draft |-> d] : d \in Checked(req, req.affected)}
    \cup {[how |-> "global", draft |-> d] : d \in Checked(req, Robots)}
    \cup {IF Passes(SafetyStop(req))
          THEN [how |-> "stop", draft |-> SafetyStop(req)]
          ELSE [how |-> "none", draft |-> SafetyStop(req)]}

\* fault: the revision counter is left alone
PublishUncounted(result) ==
    IF result.how = "none"
    THEN UNCHANGED <<published, nextRevision>>
    ELSE /\ published' = [revision |-> nextRevision,
                          steps |-> result.draft.steps, visits |-> result.draft.visits]
         /\ UNCHANGED nextRevision

\* PublishDraft, under the next revision
Publish(result) ==
    IF result.how = "none"
    THEN UNCHANGED <<published, nextRevision>>
    ELSE /\ published' = [revision |-> nextRevision,
                          steps |-> result.draft.steps, visits |-> result.draft.visits]
         /\ nextRevision' = nextRevision + 1

-----------------------------------------------------------------------------
(* The latched inputs, in any order, and the attempt they set off.         *)

WholeRoster(a) ==
    [start |-> Assignments[a], affected |-> Robots, prefix |-> NoPrefix, previous |-> NoPlan]

\* MaybePlan, on the inputs the callback leaves: one attempt per revision
MaybePlan(in, a) ==
    IF in = Complete /\ a # 0 /\ a # attempted
    THEN /\ attempted' = a
         /\ \E result \in Results(WholeRoster(a)) : Publish(result)
    ELSE UNCHANGED <<attempted, published, nextRevision>>

\* fault: only an assignment sets off an attempt
OnInputSilently(i) ==
    /\ i \notin inputs
    /\ inputs' = inputs \cup {i}
    /\ UNCHANGED <<assignment, attempted, published, nextRevision, goals, sent, answer>>

\* OnRoadmap, OnRobotSpecs
OnInput(i) ==
    /\ i \notin inputs
    /\ inputs' = inputs \cup {i}
    /\ MaybePlan(inputs', assignment)
    /\ UNCHANGED <<assignment, goals, sent, answer>>

\* the topic is latched with depth 1: a revision may be overwritten unread
OnAssignment(a) ==
    /\ a > assignment
    /\ assignment' = a
    /\ MaybePlan(inputs, a)
    /\ UNCHANGED <<inputs, goals, sent, answer>>

-----------------------------------------------------------------------------
(* Replan goals.  The client reads the plan in force and how many segments *)
(* of it each robot has begun; the goal waits in its thread for the mutex. *)

\* the longest prefix of each location's order that has been made
OrderMade(begun) ==
    [v \in Vertices |->
        IF OrderCarried /\ Listed(published, v)
        THEN LET s    == VisitsAt(published, v)
                 made == {n \in 0 .. Len(s) :
                             \A m \in 1 .. n : s[m].index = 0 \/ s[m].index < begun[s[m].robot]}
             IN  SubSeq(s, 1, CHOOSE n \in made : \A k \in made : k <= n)
        ELSE <<>>]

Begun == [Robots -> 0 .. MaxSteps - 1]

SendGoal(affected, covered, begun) ==
    /\ sent < MaxGoals /\ published # NoPlan
    /\ \A r \in Robots : begun[r] < Len(published.steps[r])
    /\ sent' = sent + 1
    /\ goals' = goals \cup
          {[goal |-> sent + 1, affected |-> affected,
            baseline |-> [r \in covered |-> begun[r]],
            heading  |-> [r \in covered |-> published.steps[r][begun[r] + 1]],
            prefix   |-> OrderMade(begun), plan_revision |-> published.revision]}
    /\ UNCHANGED <<inputs, assignment, attempted, published, nextRevision, answer>>

\* a goal may also come before there is a plan: the robots out of its scope
\* are then parked where the assignment has them start
SendEarlyGoal(affected) ==
    /\ sent < MaxGoals /\ published = NoPlan
    /\ sent' = sent + 1
    /\ goals' = goals \cup
          {[goal |-> sent + 1, affected |-> affected, baseline |-> <<>>, heading |-> <<>>,
            prefix |-> NoPrefix, plan_revision |-> 0]}
    /\ UNCHANGED <<inputs, assignment, attempted, published, nextRevision, answer>>

\* fault: the counts are read on whatever plan is in force
BaselineResolvesAnyPlan(g) ==
    DOMAIN g.baseline # {}
    => \A r \in DOMAIN g.baseline : g.baseline[r] < Len(published.steps[r])

\* resolve_frozen_starts: the counts refer to the plan in force
BaselineResolves(g) ==
    DOMAIN g.baseline # {}
    => /\ published # NoPlan /\ published.revision = g.plan_revision
       /\ \A r \in DOMAIN g.baseline : g.baseline[r] < Len(published.steps[r])

FrozenStart(g) ==
    [r \in Robots |-> IF r \in DOMAIN g.baseline
                      THEN published.steps[r][g.baseline[r] + 1]
                      ELSE Assignments[assignment][r]]

Answered(g, outcome, revision) ==
    /\ goals' = goals \ {g}
    /\ answer' = [goal |-> g.goal, outcome |-> outcome, plan_revision |-> revision]
    /\ UNCHANGED <<inputs, assignment, attempted, sent>>

Ready(g) == inputs = Complete /\ assignment # 0 /\ BaselineResolves(g)

\* Execute: inputs missing, or a baseline that does not resolve
Reject(g) ==
    /\ ~Ready(g)
    /\ Answered(g, "REJECTED", nextRevision)
    /\ UNCHANGED <<published, nextRevision>>

\* Execute: the attempt.  "ABORTED" is the outcome FALLBACK of an aborted goal;
\* like REJECTED it carries a revision that no plan has yet
Replan(g) ==
    /\ Ready(g)
    /\ \E result \in Results([start |-> FrozenStart(g), affected |-> g.affected,
                              prefix |-> g.prefix, previous |-> published]) :
          /\ Publish(result)
          /\ Answered(g, IF result.how = "scope" THEN "PLANNED"
                         ELSE IF result.how = "none" THEN "ABORTED" ELSE "FALLBACK",
                      nextRevision)

Next ==
    \/ \E i \in Complete : OnInput(i)
    \/ \E a \in DOMAIN Assignments : OnAssignment(a)
    \/ \E affected \in SUBSET Robots \ {{}} :
          \/ \E covered \in {{}, affected, Robots} :
                \E begun \in Begun : SendGoal(affected, covered, begun)
          \/ SendEarlyGoal(affected)
    \/ \E g \in goals : Reject(g) \/ Replan(g)

Spec == Init /\ [][Next]_vars

-----------------------------------------------------------------------------
TypeOK ==
    /\ inputs \subseteq Complete
    /\ assignment \in 0 .. Len(Assignments) /\ attempted \in 0 .. assignment
    /\ published.revision \in nextRevision - 1 .. nextRevision - 1
    /\ published.steps \in [Robots -> Seq(Vertices)]
    /\ nextRevision \in 0 .. Len(Assignments) + MaxGoals
    /\ sent \in 0 .. MaxGoals
    /\ \A g \in goals : /\ g.goal \in 1 .. sent /\ g.affected \subseteq Robots
                         /\ g.baseline \in [DOMAIN g.baseline -> Nat]
                         /\ g.plan_revision \in Nat
    /\ answer.outcome \in {"none", "REJECTED", "PLANNED", "FALLBACK", "ABORTED"}

(* What the planner publishes, whichever walks the search returned, is     *)
(* accepted by the server's compiler and keeps what mrs.discrete_plan      *)
(* promises, its visit order included: the planner's graph and the         *)
(* server's, drawn separately, agree on what is a lawful plan.             *)
PublishedCompiles ==
    published # NoPlan => /\ Outcome(published) = "ok"
                          /\ WellFormed(published) /\ ListsVisits(published)
                          /\ CrossingsOrdered(published)
                          /\ ~StartCollision(published)

(* Whatever the order in which roadmap, robots and assignment arrive, the  *)
(* last assignment has had its attempt as soon as all three are there.     *)
LatestAttempted ==
    inputs = Complete /\ assignment # 0 => attempted = assignment

Apart(start) == \A r, s \in Robots : r # s => start[r] # start[s]

(* An attempt that starts the robots on different vertices ends with a     *)
(* plan, however the searches and the self-checks of their drafts go: the  *)
(* safety stop is always publishable (R29).                                *)
AttemptsPublish ==
    [][/\ attempted' # attempted /\ Apart(Assignments[attempted'])
          => published' # published
       /\ \A g \in goals \ goals' :
             answer'.outcome # "REJECTED" /\ Apart(FrozenStart(g))
             => published' # published]_vars

(* A goal answered PLANNED has left the plans of the robots it does not    *)
(* name as they were (the partial replan guarantee); while there was no    *)
(* plan, those robots stay where the assignment has them start.            *)
ScopeKept ==
    [][\A g \in goals \ goals' :
          answer'.outcome = "PLANNED"
          => \A r \in Robots \ g.affected :
                published'.steps[r] = IF published # NoPlan THEN published.steps[r]
                                      ELSE <<Assignments[assignment][r]>>]_vars

(* A replanned robot whose begun segments the goal counts starts its new   *)
(* plan on the vertex it was heading for when the client counted, although *)
(* an attempt for a new assignment may have replaced the plan in between.  *)
BaselineHonoured ==
    [][\A g \in goals \ goals' :
          \A r \in DOMAIN g.heading :
             \/ answer'.outcome = "PLANNED" /\ r \in g.affected
             \/ answer'.outcome = "FALLBACK"
             => published'.steps[r][1] = g.heading[r]]_vars

(* Every item of a published visit_order is a step of the published plan   *)
(* (A4 of the discrete_plan schema).                                       *)
OrderNamesSteps == published # NoPlan => VisitsAreSteps(published)
=============================================================================

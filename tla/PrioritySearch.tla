--------------------------- MODULE PrioritySearch ---------------------------
(***************************************************************************)
(* PrioritySafeIntervalSearch::solve, the strategy behind MapfPlanning.    *)
(* The robots of the scope are planned one after the other, those without  *)
(* goals first; each looks for the earliest arrival at one goal after the  *)
(* other among the segments and resting places the robots before it, and   *)
(* the ones out of scope, have reserved.  A step of this module is a step  *)
(* of its loops.                                                           *)
(*                                                                         *)
(* Times are multiples of a common unit and exact, so the tolerance kEps   *)
(* of the comparisons is left out; a reservation is over at its end.  The  *)
(* roster and the speeds are complete, as the contract of /robot_specs     *)
(* says.                                                                   *)
(***************************************************************************)
EXTENDS Integers, Sequences, FiniteSets, FiniteSetsExt

CONSTANTS
    Robots,
    NoRobot,
    RobotRank,     \* the order of the robot identifiers
    Vertices,
    VertexRank,    \* the order of the vertex identifiers
    Arcs,          \* the directed edges of the roadmap
    Length,        \* of every arc
    Pace,          \* time a robot takes per unit of length
    Requests       \* the planning requests that may come

Timed == [steps : Seq(Vertices), arrival : Seq(Nat)]

\* exact_arrival_schedule: a path driven without waiting
Waitless(r, p) ==
    /\ Len(p.arrival) = Len(p.steps)
    /\ p.steps # <<>> => p.arrival[1] = 0
    /\ \A i \in 1 .. Len(p.steps) - 1 :
          /\ <<p.steps[i], p.steps[i + 1]>> \in Arcs
          /\ p.arrival[i + 1] = p.arrival[i] + Length[<<p.steps[i], p.steps[i + 1]>>] * Pace[r]

ASSUME RobotsAssumption  == /\ NoRobot \notin Robots
                            /\ RobotRank \in [Robots -> Nat]
                            /\ \A r, s \in Robots : RobotRank[r] = RobotRank[s] => r = s
ASSUME RoadmapAssumption == /\ Arcs \subseteq Vertices \X Vertices
                            /\ Length \in [Arcs -> Nat \ {0}]
                            /\ Pace \in [Robots -> Nat \ {0}]
                            /\ VertexRank \in [Vertices -> Nat]
ASSUME VerticesAssumption == IsFiniteSet(Vertices)
ASSUME RequestsAssumption ==
    \A q \in Requests :
       /\ q.scope \subseteq Robots
       /\ q.start \in [Robots -> Vertices] /\ q.goals \in [Robots -> Seq(Vertices)]
       /\ q.blocked \subseteq Arcs
       /\ q.kept \in [Robots -> Timed]     \* the plans in force, <<>> for none
       /\ \A r \in Robots : Waitless(r, q.kept[r])

VARIABLES
    request,
    edges, parks,  \* reserved traversals; resting places, taken for good
    plans, done,   \* the timed plan of every robot in done
    outcome,
    robot,         \* whose turn it is
    route, togo,   \* its plan so far, its goals to come
    leg,           \* "none", "open" (searching) or "trace" (reading the path back)
    dist, open, best, parent,   \* the search of a leg
    path, cursor   \* the leg as far as it is read back

legVars == <<leg, dist, open, best, parent, path, cursor>>
vars    == <<request, edges, parks, plans, done, outcome, robot, route, togo, legVars>>

NoLabel == -1
NoRoute == [steps |-> <<>>, arrival |-> <<>>]

Last(p)        == p.steps[Len(p.steps)]
LastTime(p)    == p.arrival[Len(p.arrival)]
Duration(r, e) == Length[e] * Pace[r]

Reservations(p) ==
    {[edge |-> <<p.steps[i], p.steps[i + 1]>>, lo |-> p.arrival[i], hi |-> p.arrival[i + 1]] :
        i \in 1 .. Len(p.steps) - 1}

Resting(p) == [at |-> Last(p), lo |-> LastTime(p)]

Kept(q) == {r \in Robots \ q.scope : q.kept[r].steps # <<>>}

Init ==
    /\ request \in Requests
    /\ edges = UNION {Reservations(request.kept[r]) : r \in Kept(request)}
    /\ parks = {Resting(request.kept[r]) : r \in Kept(request)}
    /\ plans = request.kept /\ done = Kept(request)
    /\ outcome = "searching"
    /\ robot = NoRobot /\ route = NoRoute /\ togo = <<>>
    /\ leg = "none" /\ dist = <<>> /\ open = {} /\ path = <<>> /\ cursor = NoLabel
    /\ best = [v \in Vertices |-> NoLabel] /\ parent = [v \in Vertices |-> NoLabel]

-----------------------------------------------------------------------------
(* The geometry of a leg: segments that are not blocked, and the distance  *)
(* to the goal on them (distance_to_goal), the heuristic of the search.    *)

Free == Arcs \ request.blocked

\* the walks of these lengths, and those with a segment in front of them
Longer(lengths) ==
    [v \in Vertices |->
        lengths[v] \cup UNION {{Length[e] + l : l \in lengths[e[2]]} :
                                  e \in {x \in Free : x[1] = v}}]

\* the lengths of the walks to the goal of up to as many segments as vertices
WalkLengths(goal) ==
    LET within[n \in 0 .. Cardinality(Vertices)] ==
            IF n = 0 THEN [v \in Vertices |-> IF v = goal THEN {0} ELSE {}]
            ELSE Longer(within[n - 1])
    IN  within[Cardinality(Vertices)]

Distances(goal) ==
    LET lengths == WalkLengths(goal)
    IN  [v \in {u \in Vertices : lengths[u] # {}} |-> Min(lengths[v])]

-----------------------------------------------------------------------------
(* When a segment may be driven. *)

Meet(lo, hi, iv) == iv.lo < hi /\ lo < iv.hi

\* fault: only traversals in the same direction count
ClearOneWay(e, lo, hi) ==
    \A iv \in edges : iv.edge = e => ~Meet(lo, hi, iv)

\* the segment is free of both directions of traversal
Clear(e, lo, hi) ==
    \A iv \in edges : iv.edge \in {e, <<e[2], e[1]>>} => ~Meet(lo, hi, iv)

\* nobody rests at v before time t
Unparked(v, t) == \A p \in parks : p.at = v => t <= p.lo

\* leaving at dep after waiting since earlier is free of every conflict
Safe(r, e, dep) ==
    /\ Clear(e, dep, dep + Duration(r, e))
    /\ Unparked(e[2], dep + Duration(r, e))
    /\ Unparked(e[1], dep)

\* the moments at which a segment may become free
Moments(t) == {t} \cup {iv.hi : iv \in {x \in edges : x.hi > t}}

\* earliest_safe_departure: the first moment the segment is free, and none
\* if somebody rests at one of its ends by then
Departures(r, e, t) ==
    LET free == {m \in Moments(t) : Clear(e, m, m + Duration(r, e))}
    IN  {m \in free : (\A k \in free : m <= k) /\ Safe(r, e, m)}

-----------------------------------------------------------------------------
(* The robots in turn. *)

Idle(r) == request.goals[r] = <<>>

GoesBefore(r, s) ==
    IF Idle(r) # Idle(s) THEN Idle(r) ELSE RobotRank[r] < RobotRank[s]

StartRobot(r) ==
    /\ outcome = "searching" /\ robot = NoRobot
    /\ r \in request.scope \ done
    /\ \A s \in request.scope \ done : s = r \/ GoesBefore(r, s)
    /\ robot' = r
    /\ route' = [steps |-> <<request.start[r]>>, arrival |-> <<0>>]
    /\ togo' = request.goals[r]
    /\ UNCHANGED <<request, edges, parks, plans, done, outcome, legVars>>

SkipGoal ==
    /\ robot # NoRobot /\ leg = "none" /\ togo # <<>> /\ Head(togo) = Last(route)
    /\ togo' = Tail(togo)
    /\ UNCHANGED <<request, edges, parks, plans, done, outcome, robot, route, legVars>>

\* fault: the resting place at the end of the plan is not reserved
ReserveRouteOnly ==
    /\ edges' = edges \cup Reservations(route)
    /\ UNCHANGED parks

ReserveRoute ==
    /\ edges' = edges \cup Reservations(route)
    /\ parks' = parks \cup {Resting(route)}

\* the plan of the robot is made, to its last goal or truncated
FinishRobot ==
    /\ ReserveRoute
    /\ plans' = [plans EXCEPT ![robot] = route]
    /\ done' = done \cup {robot}
    /\ robot' = NoRobot /\ route' = NoRoute /\ togo' = <<>>
    /\ leg' = "none" /\ open' = {}
    /\ UNCHANGED <<request, outcome, dist, best, parent, path, cursor>>

AllGoalsReached ==
    /\ robot # NoRobot /\ leg = "none" /\ togo = <<>>
    /\ FinishRobot

\* fault: a goal that cannot be reached is tried again
LegFailsNever == UNCHANGED vars

\* the goal cannot be reached: what is planned stands, if it is anything
LegFails ==
    IF Len(route.steps) > 1 THEN FinishRobot
    ELSE /\ outcome' = "failed"
         /\ UNCHANGED <<request, edges, parks, plans, done, robot, route, togo, legVars>>

Finish ==
    /\ outcome = "searching" /\ robot = NoRobot /\ request.scope \subseteq done
    /\ outcome' = "ok"
    /\ UNCHANGED <<request, edges, parks, plans, done, robot, route, togo, legVars>>

-----------------------------------------------------------------------------
(* search_leg. *)

StartLeg ==
    /\ outcome = "searching"
    /\ robot # NoRobot /\ leg = "none" /\ togo # <<>> /\ Head(togo) # Last(route)
    /\ IF Last(route) \in DOMAIN Distances(Head(togo))
       THEN /\ leg' = "open" /\ dist' = Distances(Head(togo))
            /\ open' = {[at |-> Last(route), time |-> LastTime(route)]}
            /\ best' = [v \in Vertices |-> IF v = Last(route) THEN LastTime(route)
                                           ELSE NoLabel]
            /\ parent' = [v \in Vertices |-> NoLabel]
            /\ path' = <<>> /\ cursor' = NoLabel
            /\ UNCHANGED <<request, edges, parks, plans, done, outcome, robot, route, togo>>
       ELSE LegFails

\* fault: entries are taken by their distance alone
TakenBeforeByDistance(x, y) ==
    \/ dist[x.at] < dist[y.at]
    \/ dist[x.at] = dist[y.at] /\ x.time < y.time
    \/ dist[x.at] = dist[y.at] /\ x.time = y.time /\ VertexRank[x.at] < VertexRank[y.at]

\* the order of the open entries: estimated arrival, distance, identifier
TakenBefore(x, y) ==
    LET f(z) == z.time + dist[z.at] * Pace[robot]
    IN  \/ f(x) < f(y)
        \/ f(x) = f(y) /\ dist[x.at] < dist[y.at]
        \/ f(x) = f(y) /\ dist[x.at] = dist[y.at] /\ VertexRank[x.at] < VertexRank[y.at]

\* the segments from u over which the far end is reached earlier than so far
Improving(u, t) ==
    {x \in [edge : {e \in Free : e[1] = u}, dep : Moments(t)] :
        /\ x.edge[2] \in DOMAIN dist
        /\ x.dep \in Departures(robot, x.edge, t)
        /\ \/ best[x.edge[2]] = NoLabel
           \/ x.dep + Duration(robot, x.edge) < best[x.edge[2]]}

Relaxed(found, v) == CHOOSE x \in found : x.edge[2] = v

DropStale(entry) ==
    /\ entry.time > best[entry.at]
    /\ open' = open \ {entry}
    /\ UNCHANGED <<best, parent, leg, path, cursor>>

ReachGoal(entry) ==
    /\ entry.time <= best[entry.at] /\ entry.at = Head(togo)
    /\ leg' = "trace" /\ cursor' = entry.at /\ path' = <<>>
    /\ open' = open \ {entry}
    /\ UNCHANGED <<best, parent>>

Relax(entry) ==
    /\ entry.time <= best[entry.at] /\ entry.at # Head(togo)
    /\ LET found   == Improving(entry.at, entry.time)
           targets == {x.edge[2] : x \in found}
           time(v) == Relaxed(found, v).dep + Duration(robot, Relaxed(found, v).edge)
       IN  /\ best' = [v \in Vertices |-> IF v \in targets THEN time(v) ELSE best[v]]
           /\ parent' = [v \in Vertices |-> IF v \in targets THEN entry.at ELSE parent[v]]
           /\ open' = (open \ {entry}) \cup {[at |-> v, time |-> time(v)] : v \in targets}
    /\ UNCHANGED <<leg, path, cursor>>

\* the next entry in order, unless its vertex has been reached before it
Expand(entry) ==
    /\ leg = "open" /\ outcome = "searching"
    /\ entry \in open /\ \A other \in open : other = entry \/ TakenBefore(entry, other)
    /\ DropStale(entry) \/ ReachGoal(entry) \/ Relax(entry)
    /\ UNCHANGED <<request, edges, parks, plans, done, outcome, robot, route, togo, dist>>

Exhausted ==
    /\ leg = "open" /\ outcome = "searching" /\ open = {}
    /\ LegFails

\* the path is read back from the goal
Trace ==
    /\ leg = "trace" /\ cursor # Last(route)
    /\ path' = <<[at |-> cursor, time |-> best[cursor]]>> \o path
    /\ cursor' = parent[cursor]
    /\ UNCHANGED <<request, edges, parks, plans, done, outcome, robot, route, togo,
                   leg, dist, open, best, parent>>

\* fault: the times of the leg are not taken over
LegDoneStepsOnly ==
    /\ leg = "trace" /\ cursor = Last(route)
    /\ route' = [route EXCEPT !.steps = @ \o [i \in DOMAIN path |-> path[i].at]]
    /\ togo' = Tail(togo)
    /\ leg' = "none" /\ open' = {}
    /\ UNCHANGED <<request, edges, parks, plans, done, outcome, robot, dist, best,
                   parent, path, cursor>>

LegDone ==
    /\ leg = "trace" /\ cursor = Last(route)
    /\ route' = [steps   |-> route.steps \o [i \in DOMAIN path |-> path[i].at],
                 arrival |-> route.arrival \o [i \in DOMAIN path |-> path[i].time]]
    /\ togo' = Tail(togo)
    /\ leg' = "none" /\ open' = {}
    /\ UNCHANGED <<request, edges, parks, plans, done, outcome, robot, dist, best,
                   parent, path, cursor>>

Next ==
    \/ \E r \in Robots : StartRobot(r)
    \/ SkipGoal \/ AllGoalsReached \/ Finish
    \/ StartLeg \/ \E entry \in open : Expand(entry)
    \/ Exhausted \/ Trace \/ LegDone

Spec == Init /\ [][Next]_vars

\* one thread, which runs to the end
FairSpec == Spec /\ WF_vars(Next)

-----------------------------------------------------------------------------
Intervals == [edge : Arcs, lo : Nat, hi : Nat]

TypeOK ==
    /\ request \in Requests
    /\ edges \subseteq Intervals /\ parks \subseteq [at : Vertices, lo : Nat]
    /\ plans \in [Robots -> Timed] /\ done \subseteq Robots
    /\ \A r \in done : plans[r].steps # <<>> /\ Len(plans[r].arrival) = Len(plans[r].steps)
    /\ outcome \in {"searching", "ok", "failed"}
    /\ robot \in Robots \cup {NoRobot}
    /\ route \in Timed /\ Len(route.arrival) = Len(route.steps)
    /\ robot # NoRobot => route.steps # <<>>
    /\ togo \in Seq(Vertices)
    /\ leg \in {"none", "open", "trace"}
    /\ leg # "none" => robot # NoRobot /\ togo # <<>>
    /\ open \subseteq [at : Vertices, time : Nat]
    /\ best \in [Vertices -> Nat \cup {NoLabel}]
    /\ parent \in [Vertices -> Vertices \cup {NoLabel}]
    /\ path \in Seq([at : Vertices, time : Nat])
    /\ cursor \in Vertices \cup {NoLabel}

\* the arcs r drives, each with the time it drives it, not waiting before it
Travels(r) ==
    {[edge |-> <<plans[r].steps[i], plans[r].steps[i + 1]>>,
      lo   |-> plans[r].arrival[i + 1]
                 - Duration(r, <<plans[r].steps[i], plans[r].steps[i + 1]>>),
      hi   |-> plans[r].arrival[i + 1]] : i \in 1 .. Len(plans[r].steps) - 1}

(* In the schedules the search has in mind no two robots drive on one      *)
(* segment at a time, in neither direction, unless both were out of scope: *)
(* although only the reservations of the robots before are looked at, and  *)
(* a reservation starts with the wait before the segment.                  *)
TravelsDisjoint ==
    \A r \in done \cap request.scope : \A s \in done \ {r} :
        \A x \in Travels(r) : \A y \in Travels(s) :
            y.edge \in {x.edge, <<x.edge[2], x.edge[1]>>} => ~Meet(x.lo, x.hi, y)

(* A robot is not sent to a vertex after a robot planned earlier, or one   *)
(* out of scope, has come to rest there.                                   *)
ParkedAvoided ==
    [][\A r \in done' \ done : \A s \in done :
          \A i \in 2 .. Len(plans'[r].steps) :
             plans'[r].steps[i] = Last(plans[s])
             => plans'[r].arrival[i] <= LastTime(plans[s])]_vars

(* Every request is answered: by plans for the whole scope, or by a robot  *)
(* that reaches not even its first goal.                                   *)
Terminates == <>(outcome # "searching")
=============================================================================

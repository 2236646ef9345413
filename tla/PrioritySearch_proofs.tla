------------------------ MODULE PrioritySearch_proofs ------------------------
(***************************************************************************)
(* Theorems about PrioritySearch, for every roadmap, fleet and request.    *)
(* While a robot has its turn the reservations stand still, so that what   *)
(* was safe when a vertex was labelled is safe when the path is read back  *)
(* and when the route is reserved.  The invariant follows a safe step from *)
(* the labels over the path into the route.                                *)
(*                                                                         *)
(* That the leg found is the earliest there is takes more: the heuristic   *)
(* never overestimates, and every labelled vertex either waits in the open *)
(* queue or has passed its label on to all its neighbours.                 *)
(***************************************************************************)
EXTENDS EarliestLegs, SequenceTheorems, FiniteSetTheorems, WellFoundedInduction, TLAPS

-----------------------------------------------------------------------------
(* Safe, with the reservations E and the resting places P as parameters.   *)

SafeGiven(E, P, r, e, dep) ==
    /\ \A iv \in E : iv.edge \in {e, <<e[2], e[1]>>} => ~Meet(dep, dep + Duration(r, e), iv)
    /\ \A p \in P : p.at = e[2] => dep + Duration(r, e) <= p.lo
    /\ \A p \in P : p.at = e[1] => dep <= p.lo

(* From u at time t to v at time tt: over a segment, which is free of every *)
(* conflict for as long as it is driven on, just before tt.                *)
StepOk(E, P, r, u, t, v, tt) ==
    /\ <<u, v>> \in Arcs
    /\ t + Duration(r, <<u, v>>) <= tt
    /\ SafeGiven(E, P, r, <<u, v>>, tt - Duration(r, <<u, v>>))

Driven(r, p) ==
    \A i \in 1 .. Len(p.steps) - 1 :
        /\ <<p.steps[i], p.steps[i + 1]>> \in Arcs
        /\ p.arrival[i] + Duration(r, <<p.steps[i], p.steps[i + 1]>>) <= p.arrival[i + 1]

RouteOk(E, P, r, p) ==
    \A i \in 1 .. Len(p.steps) - 1 :
        StepOk(E, P, r, p.steps[i], p.arrival[i], p.steps[i + 1], p.arrival[i + 1])

PathOk(E, P, r, q) ==
    \A i \in 1 .. Len(q) - 1 :
        StepOk(E, P, r, q[i].at, q[i].time, q[i + 1].at, q[i + 1].time)

\* what the robots before have planned is reserved
ReservedInv ==
    \A r \in done : /\ Driven(r, plans[r])
                    /\ Reservations(plans[r]) \subseteq edges
                    /\ Resting(plans[r]) \in parks

\* the route of the robot whose turn it is is safe
TurnInv ==
    robot # NoRobot => /\ robot \in request.scope \ done
                       /\ RouteOk(edges, parks, robot, route)

\* a labelled vertex is reached by a safe step from another one
LabelInv ==
    leg # "none" =>
       /\ best[Last(route)] = LastTime(route)
       /\ \A v \in Vertices : best[v] # NoLabel =>
             /\ LastTime(route) <= best[v]
             /\ v # Last(route) =>
                   /\ parent[v] \in Vertices /\ best[parent[v]] # NoLabel
                   /\ StepOk(edges, parks, robot, parent[v], best[parent[v]], v, best[v])
       /\ \A entry \in open : best[entry.at] # NoLabel /\ best[entry.at] <= entry.time

\* the path read back so far is safe
TraceInv ==
    leg = "trace" =>
       /\ cursor \in Vertices /\ best[cursor] # NoLabel
       /\ path # <<>> => StepOk(edges, parks, robot, cursor, best[cursor], path[1].at, path[1].time)
       /\ PathOk(edges, parks, robot, path)

SearchInv == TypeOK /\ ReservedInv /\ TurnInv /\ LabelInv /\ TraceInv

-----------------------------------------------------------------------------
(* Types.                                                                  *)

LEMMA Product == \A m, n \in Nat \ {0} : m * n \in Nat \ {0}
  OBVIOUS

LEMMA ArcType ==
    ASSUME NEW e \in Arcs, NEW r \in Robots
    PROVE  /\ e[1] \in Vertices /\ e[2] \in Vertices /\ e = <<e[1], e[2]>>
           /\ Duration(r, e) \in Nat /\ Duration(r, e) > 0
<1>1. Length[e] \in Nat \ {0} /\ Pace[r] \in Nat \ {0}
  BY RoadmapAssumption
<1>2. Length[e] * Pace[r] \in Nat \ {0}
  BY <1>1, Product
<1> QED  BY <1>2, RoadmapAssumption DEF Duration

LEMMA RequestType ==
    ASSUME request \in Requests
    PROVE  /\ request.scope \subseteq Robots
           /\ request.start \in [Robots -> Vertices]
           /\ request.goals \in [Robots -> Seq(Vertices)]
           /\ request.kept \in [Robots -> Timed]
           /\ \A r \in Robots : Waitless(r, request.kept[r])
  BY RequestsAssumption

LEMMA EndType ==
    ASSUME NEW p \in Timed, p.steps # <<>>, Len(p.arrival) = Len(p.steps)
    PROVE  /\ Len(p.steps) \in Nat \ {0}
           /\ Last(p) \in Vertices /\ LastTime(p) \in Nat
           /\ Resting(p) \in [at : Vertices, lo : Nat]
  BY DEF Timed, Last, LastTime, Resting

LEMMA ReservationType ==
    ASSUME NEW p \in Timed, Len(p.arrival) = Len(p.steps), NEW r \in Robots, Driven(r, p)
    PROVE  Reservations(p) \subseteq Intervals
<1> SUFFICES ASSUME NEW i \in 1 .. Len(p.steps) - 1
             PROVE  [edge |-> <<p.steps[i], p.steps[i + 1]>>,
                     lo |-> p.arrival[i], hi |-> p.arrival[i + 1]] \in Intervals
  BY DEF Reservations
<1>1. <<p.steps[i], p.steps[i + 1]>> \in Arcs
  BY DEF Driven
<1>2. p.arrival \in Seq(Nat) /\ i \in 1 .. Len(p.arrival) /\ i + 1 \in 1 .. Len(p.arrival)
  BY DEF Timed
<1>3. p.arrival[i] \in Nat /\ p.arrival[i + 1] \in Nat
  BY <1>2
<1> QED  BY <1>1, <1>3 DEF Intervals

LEMMA RouteDriven ==
    ASSUME NEW E, NEW P, NEW r, NEW p, RouteOk(E, P, r, p)
    PROVE  Driven(r, p)
  BY DEF RouteOk, StepOk, Driven

LEMMA SafeIsSafe ==
    \A r, e, dep : Safe(r, e, dep) <=> SafeGiven(edges, parks, r, e, dep)
  BY DEF Safe, Clear, Unparked, SafeGiven

LEMMA MomentType ==
    ASSUME TypeOK, NEW t \in Nat, NEW m \in Moments(t)
    PROVE  m \in Nat /\ t <= m
  BY DEF TypeOK, Moments, Intervals

LEMMA TypeInit == Init => TypeOK
<1> SUFFICES ASSUME Init PROVE TypeOK
  OBVIOUS
<1> USE DEF Init
<1>1. request \in Requests
  OBVIOUS
<1>2. /\ request.scope \subseteq Robots
      /\ request.kept \in [Robots -> Timed]
      /\ \A r \in Robots : Waitless(r, request.kept[r])
  BY <1>1, RequestType
<1>3. ASSUME NEW r \in Kept(request)
      PROVE  /\ r \in Robots /\ request.kept[r] \in Timed
             /\ request.kept[r].steps # <<>>
             /\ Len(request.kept[r].arrival) = Len(request.kept[r].steps)
             /\ Driven(r, request.kept[r])
  <2>1. r \in Robots /\ request.kept[r] \in Timed /\ request.kept[r].steps # <<>>
    BY <1>2 DEF Kept
  <2>2. Waitless(r, request.kept[r])
    BY <1>2, <2>1
  <2>3. ASSUME NEW i \in 1 .. Len(request.kept[r].steps) - 1
        PROVE  LET p == request.kept[r]
                   e == <<p.steps[i], p.steps[i + 1]>>
               IN  e \in Arcs /\ p.arrival[i] + Duration(r, e) <= p.arrival[i + 1]
    <3> DEFINE p == request.kept[r]
               e == <<p.steps[i], p.steps[i + 1]>>
    <3>1. e \in Arcs /\ p.arrival[i + 1] = p.arrival[i] + Duration(r, e)
      BY <2>2 DEF Waitless, Duration
    <3>2. p.arrival[i + 1] \in Nat
      <4>1. p.arrival \in Seq(Nat)
        BY <2>1 DEF Timed
      <4>2. i + 1 \in 1 .. Len(p.arrival)
        BY <2>1, <2>2 DEF Timed, Waitless
      <4> HIDE DEF p
      <4> QED  BY <4>1, <4>2
    <3> QED  BY <3>1, <3>2
  <2> QED  BY <2>1, <2>2, <2>3 DEF Waitless, Driven
<1>4. edges \subseteq Intervals
  BY <1>3, ReservationType
<1>5. parks \subseteq [at : Vertices, lo : Nat]
  BY <1>3, EndType
<1>6. /\ plans \in [Robots -> Timed] /\ done \subseteq Robots
      /\ \A r \in done : plans[r].steps # <<>> /\ Len(plans[r].arrival) = Len(plans[r].steps)
  BY <1>2, <1>3
<1>7. route \in Timed /\ Len(route.arrival) = Len(route.steps)
  BY DEF NoRoute, Timed
<1>8. /\ best \in [Vertices -> Nat \cup {NoLabel}]
      /\ parent \in [Vertices -> Vertices \cup {NoLabel}]
      /\ cursor \in Vertices \cup {NoLabel}
  OBVIOUS
<1>9. togo \in Seq(Vertices) /\ path \in Seq([at : Vertices, time : Nat])
  OBVIOUS
<1> QED  BY <1>1, <1>4, <1>5, <1>6, <1>7, <1>8, <1>9 DEF TypeOK

LEMMA FinishType ==
    ASSUME SearchInv, robot # NoRobot, FinishRobot
    PROVE  TypeOK'
<1> USE DEF SearchInv, TypeOK, FinishRobot, ReserveRoute
<1>1. /\ robot \in Robots /\ route \in Timed /\ route.steps # <<>>
      /\ Len(route.arrival) = Len(route.steps)
  OBVIOUS
<1>2. Driven(robot, route)
  BY RouteDriven DEF TurnInv
<1>3. edges' \subseteq Intervals
  BY <1>1, <1>2, ReservationType
<1>4. parks' \subseteq [at : Vertices, lo : Nat]
  BY <1>1, EndType
<1>5. /\ plans' \in [Robots -> Timed] /\ done' \subseteq Robots
      /\ \A r \in done' : plans'[r].steps # <<>> /\ Len(plans'[r].arrival) = Len(plans'[r].steps)
  BY <1>1
<1>6. route' \in Timed /\ Len(route'.arrival) = Len(route'.steps) /\ togo' \in Seq(Vertices)
  BY DEF NoRoute, Timed
<1>7. /\ request' \in Requests /\ outcome' \in {"searching", "ok", "failed"}
      /\ robot' = NoRobot /\ leg' = "none" /\ open' = {}
      /\ best' \in [Vertices -> Nat \cup {NoLabel}]
      /\ parent' \in [Vertices -> Vertices \cup {NoLabel}]
      /\ path' \in Seq([at : Vertices, time : Nat])
      /\ cursor' \in Vertices \cup {NoLabel}
  OBVIOUS
<1> QED  BY <1>3, <1>4, <1>5, <1>6, <1>7

(* What a segment found to improve on the labels is. *)
LEMMA ImprovingFacts ==
    ASSUME TypeOK, robot # NoRobot, NEW entry \in open,
           NEW x \in Improving(entry.at, entry.time)
    PROVE  /\ x.edge \in Arcs /\ x.edge = <<entry.at, x.edge[2]>>
           /\ x.edge[2] \in Vertices
           /\ x.dep \in Nat /\ entry.time <= x.dep
           /\ SafeGiven(edges, parks, robot, x.edge, x.dep)
           /\ \/ best[x.edge[2]] = NoLabel
              \/ x.dep + Duration(robot, x.edge) < best[x.edge[2]]
<1>1. x.edge \in Free /\ x.edge[1] = entry.at /\ x.dep \in Moments(entry.time)
  BY DEF Improving
<1>2. x.edge \in Arcs /\ x.edge = <<x.edge[1], x.edge[2]>> /\ x.edge[2] \in Vertices
  BY <1>1, RoadmapAssumption DEF Free
<1>3. entry.time \in Nat
  BY DEF TypeOK
<1>4. x.dep \in Nat /\ entry.time <= x.dep
  BY <1>1, <1>3, MomentType
<1>5. x.dep \in Departures(robot, x.edge, entry.time)
  BY DEF Improving
<1>6. Safe(robot, x.edge, x.dep)
  BY <1>5 DEF Departures
<1>7. SafeGiven(edges, parks, robot, x.edge, x.dep)
  BY <1>6, SafeIsSafe
<1>8. \/ best[x.edge[2]] = NoLabel
      \/ x.dep + Duration(robot, x.edge) < best[x.edge[2]]
  BY DEF Improving
<1> QED  BY <1>1, <1>2, <1>4, <1>7, <1>8

(* What expanding an entry does to a label. *)
LEMMA RelaxFacts ==
    ASSUME TypeOK, robot # NoRobot, NEW entry \in open, Relax(entry)
    PROVE  /\ best' \in [Vertices -> Nat \cup {NoLabel}]
           /\ parent' \in [Vertices -> Vertices \cup {NoLabel}]
           /\ \A v \in Vertices :
                 \/ best'[v] = best[v] /\ parent'[v] = parent[v]
                 \/ /\ parent'[v] = entry.at
                    /\ <<entry.at, v>> \in Arcs
                    /\ best'[v] \in Nat
                    /\ entry.time + Duration(robot, <<entry.at, v>>) <= best'[v]
                    /\ SafeGiven(edges, parks, robot, <<entry.at, v>>,
                                 best'[v] - Duration(robot, <<entry.at, v>>))
                    /\ best[v] = NoLabel \/ best'[v] < best[v]
           /\ \A o \in open' : o \in open \/ (o.at \in Vertices /\ o.time = best'[o.at]
                                              /\ o.time \in Nat
                                              /\ o = [at |-> o.at, time |-> o.time])
<1> DEFINE found   == Improving(entry.at, entry.time)
           targets == {x.edge[2] : x \in found}
           time(v) == Relaxed(found, v).dep + Duration(robot, Relaxed(found, v).edge)
<1>a. robot \in Robots /\ entry.at \in Vertices /\ entry.time \in Nat
  BY DEF TypeOK
<1>b. /\ best' = [v \in Vertices |-> IF v \in targets THEN time(v) ELSE best[v]]
      /\ parent' = [v \in Vertices |-> IF v \in targets THEN entry.at ELSE parent[v]]
      /\ open' = (open \ {entry}) \cup {[at |-> v, time |-> time(v)] : v \in targets}
  BY DEF Relax
<1>1. ASSUME NEW v \in targets
      PROVE  /\ v \in Vertices /\ time(v) \in Nat
             /\ <<entry.at, v>> \in Arcs
             /\ entry.time + Duration(robot, <<entry.at, v>>) <= time(v)
             /\ SafeGiven(edges, parks, robot, <<entry.at, v>>,
                          time(v) - Duration(robot, <<entry.at, v>>))
             /\ best[v] = NoLabel \/ time(v) < best[v]
  <2> DEFINE x == Relaxed(found, v)
  <2>1. PICK y \in found : y.edge[2] = v
    OBVIOUS
  <2>2. x \in found /\ x.edge[2] = v
    BY <2>1 DEF Relaxed
  <2>3. /\ x.edge \in Arcs /\ x.edge = <<entry.at, x.edge[2]>>
        /\ x.edge[2] \in Vertices
        /\ x.dep \in Nat /\ entry.time <= x.dep
        /\ SafeGiven(edges, parks, robot, x.edge, x.dep)
        /\ \/ best[x.edge[2]] = NoLabel
           \/ x.dep + Duration(robot, x.edge) < best[x.edge[2]]
    <3> HIDE DEF x
    <3> QED  BY <2>2, ImprovingFacts
  <2> HIDE DEF x, found
  <2>4. x.edge = <<entry.at, v>> /\ time(v) = x.dep + Duration(robot, <<entry.at, v>>)
    BY <2>2, <2>3 DEF x
  <2>5. Duration(robot, <<entry.at, v>>) \in Nat
    BY <1>a, <2>3, <2>4, ArcType
  <2>6. time(v) - Duration(robot, <<entry.at, v>>) = x.dep
    BY <2>3, <2>4, <2>5
  <2> QED  BY <1>a, <2>2, <2>3, <2>4, <2>5, <2>6
<1> HIDE DEF found, targets, time
<1>2. /\ best' \in [Vertices -> Nat \cup {NoLabel}]
      /\ parent' \in [Vertices -> Vertices \cup {NoLabel}]
  BY <1>a, <1>b, <1>1 DEF TypeOK
<1>3. ASSUME NEW v \in Vertices
      PROVE  \/ best'[v] = best[v] /\ parent'[v] = parent[v]
             \/ /\ parent'[v] = entry.at
                /\ <<entry.at, v>> \in Arcs
                /\ best'[v] \in Nat
                /\ entry.time + Duration(robot, <<entry.at, v>>) <= best'[v]
                /\ SafeGiven(edges, parks, robot, <<entry.at, v>>,
                             best'[v] - Duration(robot, <<entry.at, v>>))
                /\ best[v] = NoLabel \/ best'[v] < best[v]
  <2>1. CASE v \in targets
    <3>1. best'[v] = time(v) /\ parent'[v] = entry.at
      BY <1>b, <2>1
    <3> QED  BY <1>1, <2>1, <3>1
  <2>2. CASE v \notin targets
    BY <1>b, <2>2
  <2> QED  BY <2>1, <2>2
<1>4. ASSUME NEW o \in open'
      PROVE  o \in open \/ (o.at \in Vertices /\ o.time = best'[o.at] /\ o.time \in Nat
                            /\ o = [at |-> o.at, time |-> o.time])
  <2>1. CASE o \in open
    BY <2>1
  <2>2. CASE o \notin open
    <3>1. PICK v \in targets : o = [at |-> v, time |-> time(v)]
      BY <1>b, <2>2
    <3>2. o.at = v /\ o.time = time(v) /\ v \in Vertices /\ time(v) \in Nat
      BY <1>1, <3>1
    <3>3. best'[v] = time(v)
      BY <1>b, <3>2
    <3> QED  BY <3>1, <3>2, <3>3
  <2> QED  BY <2>1, <2>2
<1> QED  BY <1>2, <1>3, <1>4

LEMMA StartLegType ==
    ASSUME SearchInv, StartLeg, leg' = "open"
    PROVE  TypeOK'
<1> USE DEF SearchInv, TypeOK, StartLeg
<1>1. leg = "none" /\ route.steps # <<>> /\ Last(route) \in Vertices /\ LastTime(route) \in Nat
  BY EndType
<1>2. ~LegFails
  BY <1>1 DEF LegFails, FinishRobot, legVars
<1>3. /\ open' = {[at |-> Last(route), time |-> LastTime(route)]}
      /\ best' = [v \in Vertices |-> IF v = Last(route) THEN LastTime(route) ELSE NoLabel]
      /\ parent' = [v \in Vertices |-> NoLabel]
      /\ path' = <<>> /\ cursor' = NoLabel
      /\ UNCHANGED <<request, edges, parks, plans, done, outcome, robot, route, togo>>
  BY <1>2
<1>4. best' \in [Vertices -> Nat \cup {NoLabel}] /\ open' \subseteq [at : Vertices, time : Nat]
  BY <1>1, <1>3
<1> QED  BY <1>1, <1>3, <1>4

LEMMA ExpandType ==
    ASSUME TypeOK, robot # NoRobot, NEW entry \in open, Expand(entry)
    PROVE  TypeOK'
<1> USE DEF TypeOK, Expand
<1>1. /\ UNCHANGED <<request, edges, parks, plans, done, outcome, robot, route, togo>>
      /\ leg = "open" /\ entry.at \in Vertices
  OBVIOUS
<1>2. CASE DropStale(entry)
  BY <1>1, <1>2 DEF DropStale
<1>3. CASE ReachGoal(entry)
  BY <1>1, <1>3 DEF ReachGoal
<1>4. CASE Relax(entry)
  <2>1. /\ best' \in [Vertices -> Nat \cup {NoLabel}]
        /\ parent' \in [Vertices -> Vertices \cup {NoLabel}]
    BY <1>4, RelaxFacts
  <2>2. open' \subseteq [at : Vertices, time : Nat]
    BY <1>4, RelaxFacts
  <2> QED  BY <1>1, <1>4, <2>1, <2>2 DEF Relax
<1> QED  BY <1>2, <1>3, <1>4

LEMMA TraceType ==
    ASSUME TypeOK, TraceInv, Trace
    PROVE  TypeOK' /\ cursor # Last(route)
<1> USE DEF TypeOK, Trace, TraceInv
<1>1. cursor \in Vertices /\ best[cursor] \in Nat
  OBVIOUS
<1>2. path' \in Seq([at : Vertices, time : Nat])
  BY <1>1
<1>3. cursor' \in Vertices \cup {NoLabel}
  BY <1>1
<1> QED  BY <1>2, <1>3

LEMMA Joined ==
    ASSUME NEW S, NEW s \in Seq(S), NEW t \in Seq(S)
    PROVE  /\ s \o t \in Seq(S) /\ Len(s \o t) = Len(s) + Len(t)
           /\ \A i \in 1 .. Len(s) : (s \o t)[i] = s[i]
           /\ \A i \in 1 .. Len(t) : (s \o t)[Len(s) + i] = t[i]
<1>1. Len(s) \in Nat /\ Len(t) \in Nat
  OBVIOUS
<1>2. /\ s \o t \in Seq(S) /\ Len(s \o t) = Len(s) + Len(t)
      /\ \A i \in 1 .. Len(s) + Len(t) :
            (s \o t)[i] = IF i <= Len(s) THEN s[i] ELSE t[i - Len(s)]
  BY ConcatProperties
<1>3. ASSUME NEW i \in 1 .. Len(t) PROVE (s \o t)[Len(s) + i] = t[i]
  <2>1. Len(s) + i \in 1 .. Len(s) + Len(t) /\ ~(Len(s) + i <= Len(s)) /\ Len(s) + i - Len(s) = i
    BY <1>1
  <2> QED  BY <1>2, <2>1
<1> QED  BY <1>1, <1>2, <1>3

(* The route after a leg: the old steps, then those of the path. *)
LEMMA LegDoneRoute ==
    ASSUME TypeOK, LegDone
    PROVE  /\ route' \in Timed /\ Len(route'.steps) = Len(route.steps) + Len(path)
           /\ Len(route'.arrival) = Len(route'.steps)
           /\ \A i \in 1 .. Len(route.steps) :
                 route'.steps[i] = route.steps[i] /\ route'.arrival[i] = route.arrival[i]
           /\ \A i \in 1 .. Len(path) :
                 /\ route'.steps[Len(route.steps) + i] = path[i].at
                 /\ route'.arrival[Len(route.steps) + i] = path[i].time
<1> DEFINE ats   == [i \in DOMAIN path |-> path[i].at]
           times == [i \in DOMAIN path |-> path[i].time]
<1>1. path \in Seq([at : Vertices, time : Nat]) /\ DOMAIN path = 1 .. Len(path) /\ Len(path) \in Nat
  BY DEF TypeOK
<1>2. \A i \in 1 .. Len(path) : path[i].at \in Vertices /\ path[i].time \in Nat
  <2>1. \A i \in 1 .. Len(path) : path[i] \in [at : Vertices, time : Nat]
    BY <1>1, ElementOfSeq
  <2> QED  BY <2>1
<1>3. ats \in Seq(Vertices) /\ Len(ats) = Len(path) /\ \A i \in 1 .. Len(path) : ats[i] = path[i].at
  BY <1>1, <1>2
<1>4. times \in Seq(Nat) /\ Len(times) = Len(path) /\ \A i \in 1 .. Len(path) : times[i] = path[i].time
  BY <1>1, <1>2
<1>5. /\ route.steps \in Seq(Vertices) /\ route.arrival \in Seq(Nat)
      /\ Len(route.arrival) = Len(route.steps)
  BY DEF TypeOK, Timed
<1>6. route' = [steps |-> route.steps \o ats, arrival |-> route.arrival \o times]
  BY DEF LegDone
<1> HIDE DEF ats, times
<1>7. /\ route.steps \o ats \in Seq(Vertices) /\ Len(route.steps \o ats) = Len(route.steps) + Len(path)
      /\ \A i \in 1 .. Len(route.steps) : (route.steps \o ats)[i] = route.steps[i]
      /\ \A i \in 1 .. Len(path) : (route.steps \o ats)[Len(route.steps) + i] = ats[i]
  <2>1. ats \in Seq(Vertices) /\ route.steps \in Seq(Vertices) /\ Len(ats) = Len(path)
    BY <1>3, <1>5
  <2>a. PICK x : x = route.steps
    OBVIOUS
  <2>b. PICK y : y = ats
    OBVIOUS
  <2>c. x \in Seq(Vertices) /\ y \in Seq(Vertices)
    BY <2>1, <2>a, <2>b
  <2>2. /\ x \o y \in Seq(Vertices) /\ Len(x \o y) = Len(x) + Len(y)
        /\ \A i \in 1 .. Len(x) : (x \o y)[i] = x[i]
        /\ \A i \in 1 .. Len(y) : (x \o y)[Len(x) + i] = y[i]
    BY <2>c, Joined
  <2> QED  BY <2>1, <2>2, <2>a, <2>b
<1>8. /\ route.arrival \o times \in Seq(Nat) /\ Len(route.arrival \o times) = Len(route.arrival) + Len(path)
      /\ \A i \in 1 .. Len(route.arrival) : (route.arrival \o times)[i] = route.arrival[i]
      /\ \A i \in 1 .. Len(path) : (route.arrival \o times)[Len(route.arrival) + i] = times[i]
  <2>1. times \in Seq(Nat) /\ route.arrival \in Seq(Nat) /\ Len(times) = Len(path)
    BY <1>4, <1>5
  <2>a. PICK x : x = route.arrival
    OBVIOUS
  <2>b. PICK y : y = times
    OBVIOUS
  <2>c. x \in Seq(Nat) /\ y \in Seq(Nat)
    BY <2>1, <2>a, <2>b
  <2>2. /\ x \o y \in Seq(Nat) /\ Len(x \o y) = Len(x) + Len(y)
        /\ \A i \in 1 .. Len(x) : (x \o y)[i] = x[i]
        /\ \A i \in 1 .. Len(y) : (x \o y)[Len(x) + i] = y[i]
    BY <2>c, Joined
  <2> QED  BY <2>1, <2>2, <2>a, <2>b
<1> QED  BY <1>3, <1>4, <1>5, <1>6, <1>7, <1>8 DEF Timed

LEMMA LegDoneType ==
    ASSUME TypeOK, LegDone
    PROVE  TypeOK'
<1>1. /\ route' \in Timed /\ Len(route'.steps) = Len(route.steps) + Len(path)
      /\ Len(route'.arrival) = Len(route'.steps)
  BY LegDoneRoute
<1>2. robot # NoRobot /\ togo # <<>> /\ togo \in Seq(Vertices)
  BY DEF TypeOK, LegDone
<1>3. route'.steps # <<>>
  <2>1. Len(route.steps) > 0 /\ Len(path) \in Nat /\ Len(route.steps) \in Nat
    BY <1>2 DEF TypeOK, Timed
  <2> QED  BY <1>1, <2>1
<1>4. togo' \in Seq(Vertices)
  BY <1>2 DEF LegDone
<1> QED  BY <1>1, <1>3, <1>4 DEF TypeOK, LegDone

LEMMA TypeNext == SearchInv /\ [Next]_vars => TypeOK'
<1> SUFFICES ASSUME SearchInv, [Next]_vars PROVE TypeOK'
  OBVIOUS
<1>0. TypeOK
  BY DEF SearchInv
<1>1. ASSUME NEW r \in Robots, StartRobot(r) PROVE TypeOK'
  <2>1. request.start[r] \in Vertices /\ request.goals[r] \in Seq(Vertices)
    BY <1>0, RequestType DEF TypeOK
  <2>2. route' \in Timed /\ Len(route'.arrival) = Len(route'.steps) /\ route'.steps # <<>>
    BY <1>1, <2>1 DEF StartRobot, Timed
  <2>3. leg = "none"
    BY <1>0, <1>1 DEF StartRobot, TypeOK
  <2> QED  BY <1>0, <1>1, <2>1, <2>2, <2>3 DEF StartRobot, TypeOK, legVars
<1>2. ASSUME SkipGoal PROVE TypeOK'
  <2>1. togo' \in Seq(Vertices)
    BY <1>0, <1>2 DEF SkipGoal, TypeOK
  <2> QED  BY <1>0, <1>2, <2>1 DEF SkipGoal, TypeOK, legVars
<1>3. ASSUME AllGoalsReached PROVE TypeOK'
  BY <1>3, FinishType DEF AllGoalsReached
<1>4. ASSUME Finish PROVE TypeOK'
  BY <1>0, <1>4 DEF Finish, TypeOK, legVars
<1>5. ASSUME LegFails, robot # NoRobot PROVE TypeOK'
  <2>1. CASE FinishRobot
    BY <1>5, <2>1, FinishType
  <2>2. CASE ~FinishRobot
    BY <1>0, <1>5, <2>2 DEF LegFails, TypeOK, legVars
  <2> QED  BY <2>1, <2>2
<1>6. ASSUME StartLeg PROVE TypeOK'
  <2>1. CASE LegFails
    BY <1>5, <1>6, <2>1 DEF StartLeg
  <2>2. CASE ~LegFails
    BY <1>6, <2>2, StartLegType DEF StartLeg
  <2> QED  BY <2>1, <2>2
<1>7. ASSUME NEW entry \in open, Expand(entry) PROVE TypeOK'
  <2>1. robot # NoRobot
    BY <1>0, <1>7 DEF TypeOK, Expand
  <2> QED  BY <1>0, <1>7, <2>1, ExpandType
<1>8. ASSUME Exhausted PROVE TypeOK'
  <2>1. robot # NoRobot /\ LegFails
    BY <1>0, <1>8 DEF TypeOK, Exhausted
  <2> QED  BY <1>5, <2>1
<1>9. ASSUME Trace PROVE TypeOK'
  BY <1>9, TraceType DEF SearchInv
<1>10. ASSUME LegDone PROVE TypeOK'
  BY <1>0, <1>10, LegDoneType
<1>11. ASSUME UNCHANGED vars PROVE TypeOK'
  BY <1>0, <1>11 DEF vars, legVars, TypeOK
<1> QED
  BY <1>1, <1>2, <1>3, <1>4, <1>6, <1>7, <1>8, <1>9, <1>10, <1>11 DEF Next

-----------------------------------------------------------------------------
(* The invariant.                                                          *)

\* when nothing is reserved and no turn begins or ends
LEMMA QuietInv ==
    ASSUME ReservedInv, TurnInv,
           UNCHANGED <<request, edges, parks, plans, done, robot, route>>
    PROVE  ReservedInv' /\ TurnInv'
<1>1. ReservedInv'
  BY DEF ReservedInv
<1>2. TurnInv'
  BY DEF TurnInv
<1> QED  BY <1>1, <1>2

LEMMA OwnReserved ==
    ASSUME NEW r, NEW p, Driven(r, p), Reservations(p) \subseteq edges', Resting(p) \in parks',
           plans'[r] = p
    PROVE  Driven(r, plans'[r]) /\ Reservations(plans'[r]) \subseteq edges'
           /\ Resting(plans'[r]) \in parks'
  OBVIOUS

LEMMA FinishInv ==
    ASSUME SearchInv, robot # NoRobot, FinishRobot
    PROVE  ReservedInv' /\ TurnInv' /\ LabelInv' /\ TraceInv'
<1>1. /\ robot \in Robots \ done /\ Driven(robot, route)
      /\ plans \in [Robots -> Timed] /\ done \subseteq Robots
  BY RouteDriven DEF SearchInv, TypeOK, TurnInv
<1>2. /\ plans' = [plans EXCEPT ![robot] = route] /\ done' = done \cup {robot}
      /\ edges' = edges \cup Reservations(route) /\ parks' = parks \cup {Resting(route)}
      /\ robot' = NoRobot /\ leg' = "none"
  BY DEF FinishRobot, ReserveRoute
<1>3. ASSUME NEW r \in done'
      PROVE  /\ Driven(r, plans'[r])
             /\ Reservations(plans'[r]) \subseteq edges'
             /\ Resting(plans'[r]) \in parks'
  <2>1. CASE r = robot
    <3>1. plans'[r] = route
      BY <1>1, <1>2, <2>1
    <3> QED  BY <1>1, <1>2, <2>1, <3>1, OwnReserved
  <2>2. CASE r # robot
    <3>1. plans'[r] = plans[r] /\ r \in done
      BY <1>1, <1>2, <2>2
    <3>2. Driven(r, plans[r]) /\ Reservations(plans[r]) \subseteq edges' /\ Resting(plans[r]) \in parks'
      BY <1>2, <3>1 DEF SearchInv, ReservedInv
    <3> QED  BY <3>1, <3>2, OwnReserved
  <2> QED  BY <2>1, <2>2
<1>4. ReservedInv'
  BY <1>3 DEF ReservedInv
<1> QED  BY <1>2, <1>4 DEF TurnInv, LabelInv, TraceInv

LEMMA StartRobotInv ==
    ASSUME SearchInv, NEW r \in Robots, StartRobot(r)
    PROVE  ReservedInv' /\ TurnInv' /\ LabelInv' /\ TraceInv'
<1>1. UNCHANGED <<request, edges, parks, plans, done, leg>> /\ robot' = r /\ leg' = "none"
  BY DEF SearchInv, TypeOK, StartRobot, legVars
<1>2. r \in request.scope \ done /\ route'.steps = <<request.start[r]>>
  BY DEF StartRobot
<1>3. ReservedInv'
  BY <1>1 DEF SearchInv, ReservedInv
<1>4. RouteOk(edges', parks', r, route')
  BY <1>2 DEF RouteOk
<1>5. TurnInv'
  BY <1>1, <1>2, <1>4 DEF TurnInv
<1> QED  BY <1>1, <1>3, <1>5 DEF LabelInv, TraceInv

LEMMA StartLegInv ==
    ASSUME SearchInv, StartLeg, ~LegFails
    PROVE  ReservedInv' /\ TurnInv' /\ LabelInv' /\ TraceInv'
<1>1. /\ open' = {[at |-> Last(route), time |-> LastTime(route)]} /\ leg' = "open"
      /\ best' = [v \in Vertices |-> IF v = Last(route) THEN LastTime(route) ELSE NoLabel]
      /\ UNCHANGED <<request, edges, parks, plans, done, robot, route>>
  BY DEF StartLeg
<1>2. Last(route) \in Vertices /\ LastTime(route) \in Nat
  BY EndType DEF SearchInv, TypeOK, StartLeg
<1>3. ReservedInv' /\ TurnInv'
  BY <1>1, QuietInv DEF SearchInv
<1>4. Last(route)' = Last(route) /\ LastTime(route)' = LastTime(route)
  BY <1>1
<1>5. best'[Last(route)] = LastTime(route) /\ LastTime(route) # NoLabel
  BY <1>1, <1>2 DEF NoLabel
<1>6. \A v \in Vertices : best'[v] # NoLabel => v = Last(route)
  BY <1>1
<1>7. LabelInv'
  BY <1>1, <1>2, <1>4, <1>5, <1>6 DEF LabelInv
<1> QED  BY <1>1, <1>3, <1>7 DEF TraceInv

LEMMA RelaxInv ==
    ASSUME SearchInv, robot # NoRobot, leg = "open", NEW entry \in open, Relax(entry),
           UNCHANGED <<edges, parks, robot, route>>
    PROVE  LabelInv'
<1> USE DEF SearchInv
<1>a. /\ robot \in Robots /\ entry.at \in Vertices /\ entry.time \in Nat
      /\ best \in [Vertices -> Nat \cup {NoLabel}]
      /\ Last(route) \in Vertices /\ LastTime(route) \in Nat
  BY EndType DEF TypeOK
<1>b. /\ best[Last(route)] = LastTime(route)
      /\ \A v \in Vertices : best[v] # NoLabel =>
            /\ LastTime(route) <= best[v]
            /\ v # Last(route) =>
                  /\ parent[v] \in Vertices /\ best[parent[v]] # NoLabel
                  /\ StepOk(edges, parks, robot, parent[v], best[parent[v]], v, best[v])
      /\ \A o \in open : best[o.at] # NoLabel /\ best[o.at] <= o.time
  BY DEF LabelInv
<1>c. leg' = "open" /\ Last(route)' = Last(route) /\ LastTime(route)' = LastTime(route)
  BY DEF Relax
<1>d. best' \in [Vertices -> Nat \cup {NoLabel}]
  BY RelaxFacts
\* what changes a label, and that it only gets smaller
<1>1. ASSUME NEW v \in Vertices
      PROVE  \/ best'[v] = best[v] /\ parent'[v] = parent[v]
             \/ /\ parent'[v] = entry.at
                /\ <<entry.at, v>> \in Arcs
                /\ best'[v] \in Nat
                /\ entry.time + Duration(robot, <<entry.at, v>>) <= best'[v]
                /\ SafeGiven(edges, parks, robot, <<entry.at, v>>,
                             best'[v] - Duration(robot, <<entry.at, v>>))
                /\ best[v] = NoLabel \/ best'[v] < best[v]
  BY RelaxFacts
<1>2. ASSUME NEW v \in Vertices, best[v] # NoLabel
      PROVE  best'[v] # NoLabel /\ best'[v] <= best[v] /\ best'[v] \in Nat
  <2>1. best[v] \in Nat
    BY <1>a, <1>2
  <2>2. best'[v] = best[v] \/ (best'[v] \in Nat /\ best'[v] < best[v])
    BY <1>1, <1>2
  <2> QED  BY <2>1, <2>2 DEF NoLabel
<1>3. best[entry.at] \in Nat /\ best[entry.at] # NoLabel /\ best[entry.at] <= entry.time
      /\ LastTime(route) <= entry.time
  BY <1>a, <1>b DEF NoLabel
<1>4. best'[Last(route)] = LastTime(route)
  <2>1. SUFFICES ASSUME best'[Last(route)] # best[Last(route)] PROVE FALSE
    BY <1>b
  <2>2. /\ <<entry.at, Last(route)>> \in Arcs
        /\ entry.time + Duration(robot, <<entry.at, Last(route)>>) <= best'[Last(route)]
        /\ best[Last(route)] = NoLabel \/ best'[Last(route)] < best[Last(route)]
        /\ best'[Last(route)] \in Nat
    BY <1>a, <1>1, <2>1
  <2>3. Duration(robot, <<entry.at, Last(route)>>) \in Nat
    BY <1>a, <2>2, ArcType
  <2> QED  BY <1>a, <1>b, <1>3, <2>2, <2>3 DEF NoLabel
<1>5. ASSUME NEW v \in Vertices, best'[v] # NoLabel
      PROVE  /\ LastTime(route) <= best'[v]
             /\ v # Last(route) =>
                   /\ parent'[v] \in Vertices /\ best'[parent'[v]] # NoLabel
                   /\ StepOk(edges, parks, robot, parent'[v], best'[parent'[v]], v, best'[v])
  <2>1. CASE best'[v] = best[v] /\ parent'[v] = parent[v]
    <3>1. LastTime(route) <= best'[v]
      BY <1>b, <1>5, <2>1
    <3>2. ASSUME v # Last(route)
          PROVE  /\ parent'[v] \in Vertices /\ best'[parent'[v]] # NoLabel
                 /\ StepOk(edges, parks, robot, parent'[v], best'[parent'[v]], v, best'[v])
      <4>1. /\ parent[v] \in Vertices /\ best[parent[v]] # NoLabel
            /\ StepOk(edges, parks, robot, parent[v], best[parent[v]], v, best[v])
        BY <1>b, <1>5, <2>1, <3>2
      <4>2. /\ best'[parent[v]] # NoLabel /\ best'[parent[v]] <= best[parent[v]]
            /\ best'[parent[v]] \in Nat /\ best[parent[v]] \in Nat
        BY <1>a, <1>2, <4>1
      <4>3. /\ <<parent[v], v>> \in Arcs
            /\ best[parent[v]] + Duration(robot, <<parent[v], v>>) <= best[v]
            /\ SafeGiven(edges, parks, robot, <<parent[v], v>>,
                         best[v] - Duration(robot, <<parent[v], v>>))
        BY <4>1 DEF StepOk
      <4>4. Duration(robot, <<parent[v], v>>) \in Nat
        BY <1>a, <4>3, ArcType
      <4>5. best[v] \in Nat
        BY <1>a, <1>5, <2>1
      <4>6. best'[parent[v]] + Duration(robot, <<parent[v], v>>) <= best[v]
        BY <4>2, <4>3, <4>4, <4>5
      <4> QED  BY <2>1, <4>1, <4>2, <4>3, <4>6 DEF StepOk
    <3> QED  BY <3>1, <3>2
  <2>2. CASE /\ parent'[v] = entry.at
             /\ <<entry.at, v>> \in Arcs
             /\ best'[v] \in Nat
             /\ entry.time + Duration(robot, <<entry.at, v>>) <= best'[v]
             /\ SafeGiven(edges, parks, robot, <<entry.at, v>>,
                          best'[v] - Duration(robot, <<entry.at, v>>))
    <3>1. Duration(robot, <<entry.at, v>>) \in Nat
      BY <1>a, <2>2, ArcType
    <3>2. best'[entry.at] # NoLabel /\ best'[entry.at] <= entry.time /\ best'[entry.at] \in Nat
      BY <1>a, <1>2, <1>3
    <3>3. best'[entry.at] + Duration(robot, <<entry.at, v>>) <= best'[v]
      BY <1>a, <2>2, <3>1, <3>2
    <3>4. LastTime(route) <= best'[v]
      BY <1>a, <1>3, <2>2, <3>1
    <3> QED  BY <1>a, <2>2, <3>2, <3>3, <3>4 DEF StepOk
  <2> QED  BY <1>1, <2>1, <2>2
<1>6. ASSUME NEW o \in open'
      PROVE  best'[o.at] # NoLabel /\ best'[o.at] <= o.time
  <2>1. CASE o \in open
    <3>1. /\ o.at \in Vertices /\ o.time \in Nat /\ best[o.at] \in Nat
          /\ best[o.at] # NoLabel /\ best[o.at] <= o.time
      BY <1>a, <1>b, <2>1 DEF TypeOK
    <3> QED  BY <1>2, <3>1
  <2>2. CASE o.at \in Vertices /\ o.time = best'[o.at] /\ o.time \in Nat
    BY <2>2 DEF NoLabel
  <2> QED  BY <2>1, <2>2, RelaxFacts
<1> QED  BY <1>c, <1>4, <1>5, <1>6 DEF LabelInv

LEMMA ExpandInv ==
    ASSUME SearchInv, NEW entry \in open, Expand(entry)
    PROVE  ReservedInv' /\ TurnInv' /\ LabelInv' /\ TraceInv'
<1>1. /\ leg = "open" /\ robot # NoRobot /\ entry.at \in Vertices
      /\ UNCHANGED <<request, edges, parks, plans, done, robot, route>>
  BY DEF SearchInv, TypeOK, Expand
<1>2. ReservedInv' /\ TurnInv'
  BY <1>1, QuietInv DEF SearchInv
<1>3. CASE DropStale(entry)
  <2>1. open' \subseteq open /\ leg' = "open" /\ UNCHANGED <<best, parent>>
    BY <1>1, <1>3 DEF DropStale
  <2>2. LabelInv'
    BY <1>1, <2>1 DEF SearchInv, LabelInv
  <2> QED  BY <1>2, <2>1, <2>2 DEF TraceInv
<1>4. CASE ReachGoal(entry)
  <2>1. /\ open' \subseteq open /\ leg' = "trace" /\ UNCHANGED <<best, parent>>
        /\ cursor' = entry.at /\ path' = <<>>
    BY <1>1, <1>4 DEF ReachGoal
  <2>2. LabelInv'
    BY <1>1, <2>1 DEF SearchInv, LabelInv
  <2>3. PathOk(edges', parks', robot', path')
    BY <2>1 DEF PathOk
  <2>4. best'[cursor'] # NoLabel
    BY <1>1, <2>1 DEF SearchInv, LabelInv
  <2> QED  BY <1>1, <1>2, <2>1, <2>2, <2>3, <2>4 DEF TraceInv
<1>5. CASE Relax(entry)
  <2>1. LabelInv'
    BY <1>1, <1>5, RelaxInv
  <2>2. leg' = "open"
    BY <1>1, <1>5 DEF Relax
  <2> QED  BY <1>2, <2>1, <2>2 DEF TraceInv
<1> QED  BY <1>3, <1>4, <1>5 DEF Expand

LEMMA TraceStepInv ==
    ASSUME SearchInv, Trace
    PROVE  ReservedInv' /\ TurnInv' /\ LabelInv' /\ TraceInv'
<1> DEFINE seen == [at |-> cursor, time |-> best[cursor]]
<1>1. /\ leg = "trace" /\ cursor # Last(route)
      /\ UNCHANGED <<request, edges, parks, plans, done, robot, route>>
      /\ UNCHANGED <<leg, best, parent, open>>
      /\ path' = <<seen>> \o path /\ cursor' = parent[cursor]
  BY DEF Trace
<1>2. ReservedInv' /\ TurnInv'
  BY <1>1, QuietInv DEF SearchInv
<1>3. LabelInv'
  BY <1>1 DEF SearchInv, LabelInv
<1>4. /\ cursor \in Vertices /\ best[cursor] # NoLabel
      /\ path # <<>> => StepOk(edges, parks, robot, cursor, best[cursor], path[1].at, path[1].time)
      /\ PathOk(edges, parks, robot, path)
  BY <1>1 DEF SearchInv, TraceInv
<1>5. /\ parent[cursor] \in Vertices /\ best[parent[cursor]] # NoLabel
      /\ StepOk(edges, parks, robot, parent[cursor], best[parent[cursor]], cursor, best[cursor])
  BY <1>1, <1>4 DEF SearchInv, LabelInv
<1>6. /\ path \in Seq([at : Vertices, time : Nat]) /\ seen \in [at : Vertices, time : Nat]
      /\ Len(path) \in Nat
  BY <1>4 DEF SearchInv, TypeOK
<1> HIDE DEF seen
<1>7. /\ Len(path') = Len(path) + 1 /\ path'[1] = seen
      /\ \A i \in 1 .. Len(path) : path'[i + 1] = path[i]
  <2>1. <<seen>> \in Seq([at : Vertices, time : Nat]) /\ Len(<<seen>>) = 1 /\ <<seen>>[1] = seen
    BY <1>6
  <2>2. PICK s : s = <<seen>>
    OBVIOUS
  <2>3. /\ Len(s \o path) = Len(s) + Len(path)
        /\ \A i \in 1 .. Len(s) : (s \o path)[i] = s[i]
        /\ \A i \in 1 .. Len(path) : (s \o path)[Len(s) + i] = path[i]
    BY <1>6, <2>1, <2>2, Joined
  <2> QED  BY <1>1, <1>6, <2>1, <2>2, <2>3
<1>8. seen.at = cursor /\ seen.time = best[cursor]
  BY DEF seen
<1>9. StepOk(edges, parks, robot, parent[cursor], best[parent[cursor]], path'[1].at, path'[1].time)
  BY <1>5, <1>7, <1>8
<1>10. PathOk(edges, parks, robot, path')
  <2> SUFFICES ASSUME NEW i \in 1 .. Len(path') - 1
               PROVE  StepOk(edges, parks, robot, path'[i].at, path'[i].time,
                             path'[i + 1].at, path'[i + 1].time)
    BY DEF PathOk
  <2>1. i \in 1 .. Len(path) /\ path'[i + 1] = path[i]
    BY <1>6, <1>7
  <2>2. CASE i = 1
    <3>1. path # <<>>
      BY <2>1
    <3> QED  BY <1>4, <1>7, <1>8, <2>1, <2>2, <3>1
  <2>3. CASE i # 1
    <3>1. i - 1 \in 1 .. Len(path) - 1 /\ (i - 1) + 1 = i
      BY <1>6, <2>1, <2>3
    <3>2. path'[i] = path[i - 1]
      BY <1>6, <1>7, <3>1
    <3>3. StepOk(edges, parks, robot, path[i - 1].at, path[i - 1].time, path[i].at, path[i].time)
      BY <1>4, <3>1 DEF PathOk
    <3> QED  BY <2>1, <3>2, <3>3
  <2> QED  BY <2>2, <2>3
<1>11. TraceInv'
  BY <1>1, <1>5, <1>9, <1>10 DEF TraceInv
<1> QED  BY <1>2, <1>3, <1>11

LEMMA LegDoneInv ==
    ASSUME SearchInv, LegDone
    PROVE  ReservedInv' /\ TurnInv' /\ LabelInv' /\ TraceInv'
<1>1. /\ leg = "trace" /\ cursor = Last(route) /\ leg' = "none" /\ robot # NoRobot
      /\ UNCHANGED <<request, edges, parks, plans, done, robot>>
  BY DEF SearchInv, TypeOK, LegDone
<1>2. /\ Len(route'.steps) = Len(route.steps) + Len(path)
      /\ \A i \in 1 .. Len(route.steps) :
            route'.steps[i] = route.steps[i] /\ route'.arrival[i] = route.arrival[i]
      /\ \A i \in 1 .. Len(path) :
            /\ route'.steps[Len(route.steps) + i] = path[i].at
            /\ route'.arrival[Len(route.steps) + i] = path[i].time
  BY LegDoneRoute DEF SearchInv
<1>3. /\ Len(route.steps) \in Nat \ {0} /\ Len(path) \in Nat
      /\ Last(route) = route.steps[Len(route.steps)]
      /\ LastTime(route) = route.arrival[Len(route.steps)]
  BY <1>1 DEF SearchInv, TypeOK, Timed, Last, LastTime
<1>4. /\ RouteOk(edges, parks, robot, route) /\ PathOk(edges, parks, robot, path)
      /\ path # <<>> => StepOk(edges, parks, robot, Last(route), LastTime(route),
                               path[1].at, path[1].time)
  BY <1>1 DEF SearchInv, TurnInv, LabelInv, TraceInv
<1>5. RouteOk(edges, parks, robot, route')
  <2> SUFFICES ASSUME NEW i \in 1 .. Len(route'.steps) - 1
               PROVE  StepOk(edges, parks, robot, route'.steps[i], route'.arrival[i],
                             route'.steps[i + 1], route'.arrival[i + 1])
    BY DEF RouteOk
  <2> DEFINE n == Len(route.steps)
  <2>0. n \in Nat \ {0} /\ i \in Nat \ {0} /\ i < n + Len(path)
    BY <1>2, <1>3
  <2>1. CASE i < n
    <3>1. i \in 1 .. n /\ i + 1 \in 1 .. n /\ i \in 1 .. n - 1
      BY <2>0, <2>1
    <3>2. StepOk(edges, parks, robot, route.steps[i], route.arrival[i],
                 route.steps[i + 1], route.arrival[i + 1])
      BY <1>4, <3>1 DEF RouteOk
    <3>3. /\ route'.steps[i] = route.steps[i] /\ route'.arrival[i] = route.arrival[i]
          /\ route'.steps[i + 1] = route.steps[i + 1] /\ route'.arrival[i + 1] = route.arrival[i + 1]
      BY <1>2, <3>1
    <3> QED  BY <3>2, <3>3
  <2>2. CASE i = n
    <3>1. n \in 1 .. n /\ 1 \in 1 .. Len(path) /\ path # <<>>
      BY <1>3, <2>0, <2>2
    <3>2. /\ route'.steps[i] = Last(route) /\ route'.arrival[i] = LastTime(route)
          /\ route'.steps[n + 1] = path[1].at /\ route'.arrival[n + 1] = path[1].time
      BY <1>2, <1>3, <2>2, <3>1
    <3> QED  BY <1>4, <2>2, <3>1, <3>2
  <2>3. CASE i > n
    <3> DEFINE k == i - n
    <3>1. k \in 1 .. Len(path) - 1 /\ k \in 1 .. Len(path) /\ k + 1 \in 1 .. Len(path)
          /\ n + k = i /\ n + (k + 1) = i + 1
      BY <1>3, <2>0, <2>3
    <3> HIDE DEF k, n
    <3>2. StepOk(edges, parks, robot, path[k].at, path[k].time, path[k + 1].at, path[k + 1].time)
      BY <1>4, <3>1 DEF PathOk
    <3>3. /\ route'.steps[n + k] = path[k].at /\ route'.arrival[n + k] = path[k].time
          /\ route'.steps[n + (k + 1)] = path[k + 1].at
          /\ route'.arrival[n + (k + 1)] = path[k + 1].time
      BY <1>2, <3>1 DEF n
    <3> QED  BY <3>1, <3>2, <3>3
  <2> QED  BY <2>0, <2>1, <2>2, <2>3
<1>6. ReservedInv'
  BY <1>1 DEF SearchInv, ReservedInv
<1>7. TurnInv'
  BY <1>1, <1>5 DEF SearchInv, TurnInv
<1> QED  BY <1>1, <1>6, <1>7 DEF LabelInv, TraceInv

\* nothing of the search changes
LEMMA StillInv ==
    ASSUME SearchInv, UNCHANGED <<request, edges, parks, plans, done, robot, route, legVars>>
    PROVE  ReservedInv' /\ TurnInv' /\ LabelInv' /\ TraceInv'
<1>1. ReservedInv' /\ TurnInv'
  BY QuietInv DEF SearchInv
<1>2. LabelInv'
  BY DEF SearchInv, LabelInv, legVars
<1>3. TraceInv'
  BY DEF SearchInv, TraceInv, legVars
<1> QED  BY <1>1, <1>2, <1>3

LEMMA SearchInvInit == Init => SearchInv
<1> SUFFICES ASSUME Init PROVE SearchInv
  OBVIOUS
<1>1. TypeOK
  BY TypeInit
<1>2. ASSUME NEW r \in done
      PROVE  Driven(r, plans[r])
  <2>1. r \in Robots /\ plans[r] \in Timed /\ Waitless(r, plans[r])
    BY <1>1, RequestType DEF Init, TypeOK
  <2> DEFINE p == plans[r]
  <2>2. ASSUME NEW i \in 1 .. Len(p.steps) - 1
        PROVE  /\ <<p.steps[i], p.steps[i + 1]>> \in Arcs
               /\ p.arrival[i] + Duration(r, <<p.steps[i], p.steps[i + 1]>>) <= p.arrival[i + 1]
    <3>1. p.arrival[i + 1] = p.arrival[i] + Duration(r, <<p.steps[i], p.steps[i + 1]>>)
          /\ <<p.steps[i], p.steps[i + 1]>> \in Arcs
      BY <2>1 DEF Waitless, Duration
    <3>2. p.arrival[i + 1] \in Nat
      BY <2>1 DEF Timed, Waitless
    <3> QED  BY <3>1, <3>2
  <2> QED  BY <2>2 DEF Driven
<1>3. ASSUME NEW r \in done
      PROVE  Reservations(plans[r]) \subseteq edges /\ Resting(plans[r]) \in parks
  BY DEF Init
<1>4. ReservedInv
  BY <1>2, <1>3 DEF ReservedInv
<1> QED  BY <1>1, <1>4 DEF SearchInv, TurnInv, LabelInv, TraceInv, Init

LEMMA SearchInvNext == SearchInv /\ [Next]_vars => SearchInv'
<1> SUFFICES ASSUME SearchInv, [Next]_vars PROVE SearchInv'
  OBVIOUS
<1>0. TypeOK'
  BY TypeNext
<1>1. SUFFICES ReservedInv' /\ TurnInv' /\ LabelInv' /\ TraceInv'
  BY <1>0 DEF SearchInv
<1>2. ASSUME NEW r \in Robots, StartRobot(r)
      PROVE  ReservedInv' /\ TurnInv' /\ LabelInv' /\ TraceInv'
  BY <1>2, StartRobotInv
<1>3. ASSUME SkipGoal \/ Finish \/ UNCHANGED vars
      PROVE  ReservedInv' /\ TurnInv' /\ LabelInv' /\ TraceInv'
  <2>1. UNCHANGED <<request, edges, parks, plans, done, robot, route, legVars>>
    BY <1>3 DEF SkipGoal, Finish, vars
  <2> QED  BY <2>1, StillInv
<1>4. ASSUME LegFails, robot # NoRobot
      PROVE  ReservedInv' /\ TurnInv' /\ LabelInv' /\ TraceInv'
  <2>1. CASE FinishRobot
    BY <1>4, <2>1, FinishInv
  <2>2. CASE ~FinishRobot
    <3>1. UNCHANGED <<request, edges, parks, plans, done, robot, route, legVars>>
      BY <1>4, <2>2 DEF LegFails
    <3> QED  BY <3>1, StillInv
  <2> QED  BY <2>1, <2>2
<1>5. ASSUME StartLeg
      PROVE  ReservedInv' /\ TurnInv' /\ LabelInv' /\ TraceInv'
  BY <1>4, <1>5, StartLegInv DEF StartLeg
<1>6. ASSUME Exhausted
      PROVE  ReservedInv' /\ TurnInv' /\ LabelInv' /\ TraceInv'
  <2>1. robot # NoRobot /\ LegFails
    BY <1>6 DEF SearchInv, TypeOK, Exhausted
  <2> QED  BY <1>4, <2>1
<1>7. ASSUME AllGoalsReached
      PROVE  ReservedInv' /\ TurnInv' /\ LabelInv' /\ TraceInv'
  BY <1>7, FinishInv DEF AllGoalsReached
<1> QED  BY <1>2, <1>3, <1>5, <1>6, <1>7, ExpandInv, TraceStepInv, LegDoneInv DEF Next

(* The variables keep their types. *)
THEOREM TypeCorrect == Spec => []TypeOK
<1>1. SearchInv => TypeOK
  BY DEF SearchInv
<1> QED  BY <1>1, SearchInvInit, SearchInvNext, PTL DEF Spec

-----------------------------------------------------------------------------
(* What the invariant is good for.                                         *)

\* a plan is made in one place only
LEMMA PlansMadeByFinish ==
    ASSUME SearchInv, [Next]_vars
    PROVE  \/ UNCHANGED <<request, plans, done>>
           \/ robot # NoRobot /\ FinishRobot
<1>1. ASSUME LegFails, robot # NoRobot
      PROVE  UNCHANGED <<request, plans, done>> \/ (robot # NoRobot /\ FinishRobot)
  BY <1>1 DEF LegFails
<1>2. ASSUME StartLeg
      PROVE  UNCHANGED <<request, plans, done>> \/ (robot # NoRobot /\ FinishRobot)
  BY <1>1, <1>2 DEF StartLeg
<1>3. ASSUME Exhausted
      PROVE  UNCHANGED <<request, plans, done>> \/ (robot # NoRobot /\ FinishRobot)
  BY <1>1, <1>3 DEF Exhausted, SearchInv, TypeOK
<1>4. ASSUME AllGoalsReached
      PROVE  UNCHANGED <<request, plans, done>> \/ (robot # NoRobot /\ FinishRobot)
  BY <1>4 DEF AllGoalsReached
<1>5. ASSUME \/ \E r \in Robots : StartRobot(r)
             \/ SkipGoal \/ Finish \/ Trace \/ LegDone \/ UNCHANGED vars
             \/ \E entry \in open : Expand(entry)
      PROVE  UNCHANGED <<request, plans, done>>
  BY <1>5 DEF StartRobot, SkipGoal, Finish, Trace, LegDone, Expand, vars
<1> QED  BY <1>2, <1>3, <1>4, <1>5 DEF Next

TravelsOf(r, p) ==
    {[edge |-> <<p.steps[i], p.steps[i + 1]>>,
      lo   |-> p.arrival[i + 1] - Duration(r, <<p.steps[i], p.steps[i + 1]>>),
      hi   |-> p.arrival[i + 1]] : i \in 1 .. Len(p.steps) - 1}

Disjoint(X, Y) ==
    \A x \in X : \A y \in Y :
        y.edge \in {x.edge, <<x.edge[2], x.edge[1]>>} => ~Meet(x.lo, x.hi, y)

LEMMA StepTimes ==
    ASSUME NEW p \in Timed, Len(p.arrival) = Len(p.steps), NEW i \in 1 .. Len(p.steps) - 1
    PROVE  /\ p.arrival[i] \in Nat /\ p.arrival[i + 1] \in Nat
           /\ i \in 1 .. Len(p.steps) /\ i + 1 \in 1 .. Len(p.steps)
<1>1. p.arrival \in Seq(Nat) /\ i \in 1 .. Len(p.arrival) /\ i + 1 \in 1 .. Len(p.arrival)
  BY DEF Timed
<1> QED  BY <1>1

LEMMA TravelInside ==
    ASSUME NEW lo \in Nat, NEW hi \in Nat, NEW t \in Nat, NEW m \in Nat, NEW n \in Nat,
           lo + m <= hi, ~(lo < t /\ t - n < hi)
    PROVE  ~(hi - m < t /\ t - n < hi)
  OBVIOUS

(* A route that is safe among the reservations of a plan meets no travel   *)
(* of that plan: a reservation covers the travel and the wait before it.   *)
LEMMA SafeRouteDisjoint ==
    ASSUME NEW E, NEW P, NEW r \in Robots, NEW s \in Robots,
           NEW p \in Timed, Len(p.arrival) = Len(p.steps), RouteOk(E, P, r, p),
           NEW q \in Timed, Len(q.arrival) = Len(q.steps), Driven(s, q),
           Reservations(q) \subseteq E
    PROVE  /\ Disjoint(TravelsOf(r, p), TravelsOf(s, q))
           /\ Disjoint(TravelsOf(s, q), TravelsOf(r, p))
<1>1. ASSUME NEW x \in TravelsOf(r, p), NEW y \in TravelsOf(s, q),
             y.edge \in {x.edge, <<x.edge[2], x.edge[1]>>}
      PROVE  ~(y.lo < x.hi /\ x.lo < y.hi)
  <2>1. PICK i \in 1 .. Len(p.steps) - 1 :
               x = [edge |-> <<p.steps[i], p.steps[i + 1]>>,
                    lo |-> p.arrival[i + 1] - Duration(r, <<p.steps[i], p.steps[i + 1]>>),
                    hi |-> p.arrival[i + 1]]
    BY DEF TravelsOf
  <2>2. PICK j \in 1 .. Len(q.steps) - 1 :
               y = [edge |-> <<q.steps[j], q.steps[j + 1]>>,
                    lo |-> q.arrival[j + 1] - Duration(s, <<q.steps[j], q.steps[j + 1]>>),
                    hi |-> q.arrival[j + 1]]
    BY DEF TravelsOf
  <2> DEFINE e  == <<p.steps[i], p.steps[i + 1]>>
             f  == <<q.steps[j], q.steps[j + 1]>>
             iv == [edge |-> f, lo |-> q.arrival[j], hi |-> q.arrival[j + 1]]
  <2>3. x.edge = e /\ x.lo = p.arrival[i + 1] - Duration(r, e) /\ x.hi = p.arrival[i + 1]
    BY <2>1
  <2>4. y.edge = f /\ y.lo = q.arrival[j + 1] - Duration(s, f) /\ y.hi = q.arrival[j + 1]
    BY <2>2
  <2>5. iv \in E /\ iv.edge = f /\ iv.lo = q.arrival[j] /\ iv.hi = q.arrival[j + 1]
    BY DEF Reservations
  <2>6. e \in Arcs /\ SafeGiven(E, P, r, e, p.arrival[i + 1] - Duration(r, e))
    BY DEF RouteOk, StepOk
  <2>7. f \in Arcs /\ q.arrival[j] + Duration(s, f) <= q.arrival[j + 1]
    BY DEF Driven
  <2>8. p.arrival[i + 1] \in Nat /\ q.arrival[j] \in Nat /\ q.arrival[j + 1] \in Nat
    BY StepTimes
  <2>9. Duration(r, e) \in Nat /\ Duration(s, f) \in Nat
    BY <2>6, <2>7, ArcType
  <2> HIDE DEF e, f, iv
  <2>10. iv.edge \in {e, <<e[2], e[1]>>}
    BY <1>1, <2>3, <2>4, <2>5
  <2>11. ~Meet(p.arrival[i + 1] - Duration(r, e),
               (p.arrival[i + 1] - Duration(r, e)) + Duration(r, e), iv)
    BY <2>5, <2>6, <2>10 DEF SafeGiven
  <2>12. ~(q.arrival[j] < p.arrival[i + 1]
           /\ p.arrival[i + 1] - Duration(r, e) < q.arrival[j + 1])
    BY <2>5, <2>8, <2>9, <2>11 DEF Meet
  <2>13. ~(q.arrival[j + 1] - Duration(s, f) < p.arrival[i + 1]
           /\ p.arrival[i + 1] - Duration(r, e) < q.arrival[j + 1])
    BY <2>7, <2>8, <2>9, <2>12, TravelInside
  <2> QED  BY <2>3, <2>4, <2>13
<1>2. Disjoint(TravelsOf(r, p), TravelsOf(s, q))
  BY <1>1 DEF Disjoint, Meet
<1>3. ASSUME NEW y \in TravelsOf(s, q), NEW x \in TravelsOf(r, p),
             x.edge \in {y.edge, <<y.edge[2], y.edge[1]>>}
      PROVE  ~Meet(y.lo, y.hi, x)
  <2>1. y.edge = <<y.edge[1], y.edge[2]>>
    <3>1. PICK u, v, lo, hi : y = [edge |-> <<u, v>>, lo |-> lo, hi |-> hi]
      BY DEF TravelsOf
    <3> QED  BY <3>1
  <2>2. y.edge \in {x.edge, <<x.edge[2], x.edge[1]>>}
    BY <1>3, <2>1
  <2> QED  BY <1>1, <2>2 DEF Meet
<1>4. Disjoint(TravelsOf(s, q), TravelsOf(r, p))
  BY <1>3 DEF Disjoint
<1> QED  BY <1>2, <1>4

(* The plan of the robot that is finished meets no travel planned before. *)
LEMMA FinishDisjoint ==
    ASSUME SearchInv, robot # NoRobot, NEW s \in done
    PROVE  /\ Disjoint(TravelsOf(robot, route), TravelsOf(s, plans[s]))
           /\ Disjoint(TravelsOf(s, plans[s]), TravelsOf(robot, route))
<1>1. /\ robot \in Robots /\ s \in Robots
      /\ route \in Timed /\ Len(route.arrival) = Len(route.steps)
      /\ plans[s] \in Timed /\ Len(plans[s].arrival) = Len(plans[s].steps)
  BY DEF SearchInv, TypeOK
<1>2. /\ RouteOk(edges, parks, robot, route)
      /\ Driven(s, plans[s]) /\ Reservations(plans[s]) \subseteq edges
  BY DEF SearchInv, TurnInv, ReservedInv
<1> QED  BY <1>1, <1>2, SafeRouteDisjoint

ApartInv ==
    \A r \in done \cap request.scope : \A s \in done \ {r} :
        Disjoint(TravelsOf(r, plans[r]), TravelsOf(s, plans[s]))

LEMMA ApartIsDisjoint == ApartInv <=> TravelsDisjoint
  BY DEF ApartInv, TravelsDisjoint, Travels, TravelsOf, Disjoint

LEMMA ApartNext ==
    ASSUME SearchInv, ApartInv, [Next]_vars
    PROVE  ApartInv'
<1>1. CASE UNCHANGED <<request, plans, done>>
  BY <1>1 DEF ApartInv
<1>2. CASE robot # NoRobot /\ FinishRobot
  <2>1. /\ robot \in Robots \ done /\ done \subseteq Robots /\ plans \in [Robots -> Timed]
        /\ plans' = [plans EXCEPT ![robot] = route] /\ done' = done \cup {robot}
        /\ request' = request
    BY <1>2 DEF SearchInv, TypeOK, TurnInv, FinishRobot
  <2>2. plans'[robot] = route /\ \A s \in done : plans'[s] = plans[s]
    BY <2>1
  <2>3. ASSUME NEW r \in done' \cap request'.scope, NEW s \in done' \ {r}
        PROVE  Disjoint(TravelsOf(r, plans'[r]), TravelsOf(s, plans'[s]))
    <3>1. CASE r = robot
      <4>1. s \in done
        BY <2>1, <3>1
      <4> QED  BY <1>2, <2>2, <3>1, <4>1, FinishDisjoint
    <3>2. CASE r # robot /\ s = robot
      <4>1. r \in done
        BY <2>1, <3>2
      <4> QED  BY <1>2, <2>2, <3>2, <4>1, FinishDisjoint
    <3>3. CASE r # robot /\ s # robot
      <4>1. r \in done \cap request.scope /\ s \in done \ {r}
        BY <2>1, <3>3
      <4> QED  BY <2>2, <4>1 DEF ApartInv
    <3> QED  BY <3>1, <3>2, <3>3
  <2> QED  BY <2>3 DEF ApartInv
<1> QED  BY <1>1, <1>2, PlansMadeByFinish

(* In the schedules of the search no two robots drive on one segment at a  *)
(* time, unless both were out of scope.                                    *)
THEOREM Disjointness == Spec => []TravelsDisjoint
<1>1. Init => ApartInv
  <2>1. ASSUME Init PROVE done \cap request.scope = {}
    BY <2>1 DEF Init, Kept
  <2> QED  BY <2>1 DEF ApartInv
<1>2. SearchInv /\ ApartInv /\ [Next]_vars => ApartInv'
  BY ApartNext
<1>3. ApartInv => TravelsDisjoint
  BY ApartIsDisjoint
<1> QED  BY <1>1, <1>2, <1>3, SearchInvInit, SearchInvNext, PTL DEF Spec

\* a safe route enters no vertex after somebody has come to rest there
LEMMA RouteAvoidsParks ==
    ASSUME SearchInv, robot # NoRobot, NEW s \in done, NEW i \in 2 .. Len(route.steps),
           route.steps[i] = Last(plans[s])
    PROVE  route.arrival[i] <= LastTime(plans[s])
<1>1. /\ route \in Timed /\ Len(route.arrival) = Len(route.steps) /\ robot \in Robots
      /\ RouteOk(edges, parks, robot, route) /\ Resting(plans[s]) \in parks
  BY DEF SearchInv, TypeOK, TurnInv, ReservedInv
<1> DEFINE k == i - 1
<1>2. k \in 1 .. Len(route.steps) - 1 /\ k + 1 = i
  BY <1>1 DEF Timed
<1> HIDE DEF k
<1> DEFINE e == <<route.steps[k], route.steps[k + 1]>>
<1>3. e \in Arcs /\ SafeGiven(edges, parks, robot, e, route.arrival[k + 1] - Duration(robot, e))
  BY <1>1, <1>2 DEF RouteOk, StepOk
<1>4. route.arrival[k + 1] \in Nat /\ Duration(robot, e) \in Nat
  BY <1>1, <1>2, <1>3, StepTimes, ArcType
<1>5. Resting(plans[s]).at = e[2] /\ Resting(plans[s]).lo = LastTime(plans[s])
  BY <1>2 DEF Resting
<1> HIDE DEF e
<1>6. (route.arrival[k + 1] - Duration(robot, e)) + Duration(robot, e) <= LastTime(plans[s])
  BY <1>1, <1>3, <1>5 DEF SafeGiven
<1> QED  BY <1>2, <1>4, <1>6

(* A robot is not sent to where an earlier one has come to rest.           *)
THEOREM ParksAvoided == Spec => ParkedAvoided
<1> DEFINE Avoids ==
        \A r \in done' \ done : \A s \in done :
           \A i \in 2 .. Len(plans'[r].steps) :
              plans'[r].steps[i] = Last(plans[s])
              => plans'[r].arrival[i] <= LastTime(plans[s])
<1>1. SearchInv /\ [Next]_vars => [Avoids]_vars
  <2> SUFFICES ASSUME SearchInv, [Next]_vars PROVE Avoids
    OBVIOUS
  <2>1. CASE UNCHANGED <<request, plans, done>>
    BY <2>1
  <2>2. CASE robot # NoRobot /\ FinishRobot
    <3>1. /\ done' \ done \subseteq {robot} /\ plans'[robot] = route
      BY <2>2 DEF SearchInv, TypeOK, FinishRobot
    <3> QED  BY <2>2, <3>1, RouteAvoidsParks
  <2> QED  BY <2>1, <2>2, PlansMadeByFinish
<1> QED  BY <1>1, SearchInvInit, SearchInvNext, PTL DEF Spec, ParkedAvoided

-----------------------------------------------------------------------------
(* Numbers, and steps made one after the other.                            *)

(* A non-empty set of natural numbers has a least element. *)
LEMMA Least ==
    ASSUME NEW T, T \subseteq Nat, T # {}
    PROVE  \E m \in T : \A n \in T : m <= n
<1> DEFINE R == {ss \in Nat \X Nat : ss[1] < ss[2]}
<1>1. IsWellFoundedOn(R, Nat)
  BY NatLessThanWellFounded DEF OpToRel
<1>2. PICK m \in T : \A n \in T : ~(<<n, m>> \in R)
  <2> HIDE DEF R
  <2> QED  BY <1>1, WFMin
<1>3. ASSUME NEW n \in T
      PROVE  m <= n
  <2>1. <<n, m>> \in Nat \X Nat /\ (n < m => <<n, m>> \in R)
    OBVIOUS
  <2>2. ~(n < m)
    BY <1>2, <2>1
  <2> QED  BY <2>2
<1> QED  BY <1>3

(* Induction up to N. *)
LEMMA UpTo ==
    ASSUME NEW N \in Nat, NEW S, 0 \in S, \A n \in 1 .. N : n - 1 \in S => n \in S
    PROVE  \A n \in 0 .. N : n \in S
<1> SUFFICES ASSUME NEW m \in 0 .. N, m \notin S PROVE FALSE
  OBVIOUS
<1> DEFINE T == {n \in 0 .. N : n \notin S}
<1>1. PICK x \in T : \A y \in T : x <= y
  <2>1. T \subseteq Nat /\ T # {}
    OBVIOUS
  <2> HIDE DEF T
  <2> QED  BY <2>1, Least
<1>2. x \in 1 .. N /\ x - 1 \notin S
  OBVIOUS
<1>3. x - 1 \in T
  BY <1>2
<1> QED  BY <1>1, <1>3

\* f[n] is what n steps make of x
Iteration(f, X, N, step, x) ==
    /\ f \in [0 .. N -> X] /\ f[0] = x
    /\ \A n \in 1 .. N : f[n] = step[n][f[n - 1]]

\* N steps on X
Steppers(N, X) == [1 .. N -> [X -> X]]

(* N steps, each defined on all of X, can be made one after the other.     *)
LEMMA IterationExists ==
    ASSUME NEW X, NEW N \in Nat, NEW step \in Steppers(N, X), NEW x \in X
    PROVE  \E f : Iteration(f, X, N, step, x)
<1> USE DEF Steppers
<1> DEFINE Good(m, f) == Iteration(f, X, m, step, x)
           S == {m \in 0 .. N : \E f : Good(m, f)}
<1>1. 0 \in S
  <2>1. Good(0, [n \in 0 .. 0 |-> x])
    BY DEF Iteration
  <2> HIDE DEF Good
  <2> QED  BY <2>1
<1>2. ASSUME NEW n \in 1 .. N, n - 1 \in S
      PROVE  n \in S
  <2>1. PICK f : Good(n - 1, f)
    BY <1>2
  <2> DEFINE g == [i \in 0 .. n |-> IF i = n THEN step[n][f[n - 1]] ELSE f[i]]
  <2>2. f[n - 1] \in X
    BY <2>1 DEF Iteration
  <2>3. g \in [0 .. n -> X]
    BY <2>1, <2>2 DEF Iteration
  <2>4. g[0] = x
    BY <2>1 DEF Iteration
  <2>5. ASSUME NEW i \in 1 .. n
        PROVE  g[i] = step[i][g[i - 1]]
    <3>1. CASE i = n
      <4>1. g[n] = step[n][f[n - 1]] /\ g[n - 1] = f[n - 1]
        OBVIOUS
      <4> QED  BY <3>1, <4>1
    <3>2. CASE i # n
      <4>1. i \in 1 .. n - 1 /\ g[i] = f[i] /\ g[i - 1] = f[i - 1]
        BY <3>2
      <4> QED  BY <2>1, <4>1 DEF Iteration
    <3> QED  BY <3>1, <3>2
  <2>6. Good(n, g)
    BY <2>3, <2>4, <2>5 DEF Iteration
  <2> HIDE DEF Good, g
  <2> QED  BY <2>6
<1>3. N \in S
  <2> HIDE DEF S
  <2>1. \A n \in 1 .. N : n - 1 \in S => n \in S
    BY <1>2
  <2>2. \A n \in 0 .. N : n \in S
    BY <1>1, <2>1, UpTo
  <2> QED  BY <2>2
<1> QED  BY <1>3

-----------------------------------------------------------------------------
(* The heuristic. *)

\* f[n][v]: the lengths of the walks from v to the goal, of up to n segments
Within(f, goal) ==
    /\ f \in [0 .. Cardinality(Vertices) -> [Vertices -> SUBSET Nat]]
    /\ f[0] = [v \in Vertices |-> IF v = goal THEN {0} ELSE {}]
    /\ \A n \in 1 .. Cardinality(Vertices) : f[n] = Longer(f[n - 1])

(* A further segment keeps the lengths natural numbers.                    *)
LEMMA LongerType ==
    ASSUME NEW L \in [Vertices -> SUBSET Nat]
    PROVE  Longer(L) \in [Vertices -> SUBSET Nat]
<1>1. ASSUME NEW e \in Free, NEW l \in L[e[2]]
      PROVE  Length[e] + l \in Nat
  <2>1. Length[e] \in Nat /\ e[2] \in Vertices
    BY RoadmapAssumption DEF Free
  <2> QED  BY <2>1
<1>2. ASSUME NEW v \in Vertices,
             NEW k \in L[v] \cup UNION {{Length[e] + l : l \in L[e[2]]} : e \in {x \in Free : x[1] = v}}
      PROVE  k \in Nat
  BY <1>1, <1>2
<1> QED  BY <1>2 DEF Longer

(* The roadmap has a number of vertices.                                   *)
LEMMA VertexCount == Cardinality(Vertices) \in Nat
  BY VerticesAssumption, FS_CardinalityType

(* The walks that WalkLengths counts, by their number of segments.         *)
LEMMA WithinExists ==
    ASSUME NEW goal
    PROVE  \E f : Within(f, goal) /\ WalkLengths(goal) = f[Cardinality(Vertices)]
<1> DEFINE N == Cardinality(Vertices)
           X == [Vertices -> SUBSET Nat]
           x == [v \in Vertices |-> IF v = goal THEN {0} ELSE {}]
           step == [n \in 1 .. N |-> [L \in X |-> Longer(L)]]
           Body(f) == [n \in 0 .. N |-> IF n = 0 THEN x ELSE Longer(f[n - 1])]
<1>1. N \in Nat /\ x \in X
  BY VertexCount
<1>2. step \in Steppers(N, X)
  <2> HIDE DEF N
  <2>1. \A L \in X : Longer(L) \in X
    BY LongerType
  <2> HIDE DEF X
  <2> QED  BY <2>1 DEF Steppers
<1>3. \E f : f = Body(f)
  <2>1. PICK f : Iteration(f, X, N, step, x)
    <3> HIDE DEF N, X, x, step
    <3> QED  BY <1>1, <1>2, IterationExists
  <2>2. /\ f \in [0 .. N -> X] /\ f[0] = x
        /\ \A n \in 1 .. N : f[n] = step[n][f[n - 1]]
    <3> HIDE DEF N, X, x, step
    <3> QED  BY <2>1 DEF Iteration
  <2>3. ASSUME NEW n \in 1 .. N
        PROVE  f[n] = Longer(f[n - 1])
    <3>1. f[n - 1] \in X
      <4> HIDE DEF N, X, x, step
      <4> QED  BY <1>1, <2>2
    <3>2. step[n][f[n - 1]] = Longer(f[n - 1])
      <4> HIDE DEF N, X, x
      <4> QED  BY <3>1
    <3> QED  BY <2>2, <3>2
  <2>4. \A n \in 0 .. N : f[n] = IF n = 0 THEN x ELSE Longer(f[n - 1])
    <3> HIDE DEF N, X, x, step
    <3> SUFFICES ASSUME NEW n \in 0 .. N
                 PROVE  f[n] = IF n = 0 THEN x ELSE Longer(f[n - 1])
      OBVIOUS
    <3>1. n = 0 \/ n \in 1 .. N
      BY <1>1
    <3> QED  BY <1>1, <2>2, <2>3, <3>1
  <2>5. f = Body(f)
    <3> HIDE DEF N, X, x, step
    <3> QED  BY <2>2, <2>4
  <2> QED  BY <2>5
<1>4. PICK f : f = Body(f) /\ WalkLengths(goal) = f[N]
  BY <1>3 DEF WalkLengths
<1>5. /\ f[0] = x
      /\ \A n \in 1 .. N : f[n] = Longer(f[n - 1])
      /\ f = [n \in 0 .. N |-> f[n]]
  <2> HIDE DEF N, x
  <2>1. \A n \in 0 .. N : f[n] = IF n = 0 THEN x ELSE Longer(f[n - 1])
    BY <1>4
  <2> QED  BY <1>1, <1>4, <2>1
<1>6. \A n \in 0 .. N : f[n] \in X
  <2> DEFINE S == {n \in 0 .. N : f[n] \in X}
  <2>1. 0 \in S
    <3> HIDE DEF N, X, x
    <3> QED  BY <1>1, <1>5
  <2>2. ASSUME NEW n \in 1 .. N, n - 1 \in S
        PROVE  n \in S
    <3> HIDE DEF N
    <3>1. f[n] = Longer(f[n - 1]) /\ f[n - 1] \in X
      BY <1>5, <2>2
    <3> QED  BY <1>1, <3>1, LongerType
  <2> HIDE DEF S, N, X
  <2>3. \A n \in 0 .. N : n \in S
    BY <1>1, <2>1, <2>2, UpTo
  <2> QED  BY <2>3 DEF S
<1>7. Within(f, goal)
  <2> HIDE DEF N, x
  <2>1. f \in [0 .. N -> X]
    BY <1>5, <1>6
  <2> QED  BY <1>5, <2>1 DEF Within, N, x
<1> QED  BY <1>4, <1>7

(* The walks with a segment in front, seen from one vertex.                *)
LEMMA InLonger ==
    ASSUME NEW L \in [Vertices -> SUBSET Nat], NEW v \in Vertices
    PROVE  /\ L[v] \subseteq Longer(L)[v]
           /\ \A e \in Free : \A l \in L[e[2]] : e[1] = v => Length[e] + l \in Longer(L)[v]
           /\ \A k \in Longer(L)[v] :
                 k \in L[v] \/ \E e \in Free : e[1] = v /\ \E l \in L[e[2]] : k = Length[e] + l
<1>1. Longer(L)[v] = L[v] \cup UNION {{Length[e] + l : l \in L[e[2]]} :
                                        e \in {x \in Free : x[1] = v}}
  BY DEF Longer
<1>2. ASSUME NEW e \in Free, NEW l \in L[e[2]], e[1] = v
      PROVE  Length[e] + l \in Longer(L)[v]
  <2>1. e \in {x \in Free : x[1] = v}
    BY <1>2
  <2> QED  BY <1>1, <2>1
<1>3. ASSUME NEW k \in Longer(L)[v]
      PROVE  k \in L[v] \/ \E e \in Free : e[1] = v /\ \E l \in L[e[2]] : k = Length[e] + l
  BY <1>1
<1> QED  BY <1>1, <1>2, <1>3

(* With more segments there are more walks; and a walk that is not empty   *)
(* is one with a segment in front of it.                                   *)
LEMMA WithinGrows ==
    ASSUME NEW goal, NEW f, Within(f, goal), NEW N, N = Cardinality(Vertices)
    PROVE  /\ \A n \in 0 .. N : \A v \in Vertices : f[n][v] \subseteq f[N][v] /\ f[0][v] \subseteq f[n][v]
           /\ \A n \in 1 .. N : \A v \in Vertices : f[n - 1][v] \subseteq f[n][v]
           /\ \A v \in Vertices : \A l \in f[N][v] :
                 l \in f[0][v] \/ \E e \in Free : e[1] = v /\ \E k \in f[N][e[2]] : l = Length[e] + k
<1>1. /\ f \in [0 .. N -> [Vertices -> SUBSET Nat]]
      /\ \A n \in 1 .. N : f[n] = Longer(f[n - 1])
      /\ N \in Nat
  BY VertexCount DEF Within
<1>2. ASSUME NEW n \in 1 .. N, NEW v \in Vertices
      PROVE  f[n - 1][v] \subseteq f[n][v]
  <2>1. n - 1 \in 0 .. N
    BY <1>1
  <2>2. f[n - 1] \in [Vertices -> SUBSET Nat] /\ f[n] = Longer(f[n - 1])
    BY <1>1, <2>1
  <2> QED  BY <2>2, InLonger
<1>3. ASSUME NEW n \in 0 .. N PROVE \A v \in Vertices : f[0][v] \subseteq f[n][v]
  <2> DEFINE S == {m \in 0 .. N : \A v \in Vertices : f[0][v] \subseteq f[m][v]}
  <2>1. 0 \in S
    BY <1>1
  <2>2. ASSUME NEW m \in 1 .. N, m - 1 \in S PROVE m \in S
    BY <1>2, <2>2
  <2> HIDE DEF S
  <2>3. n \in S
    BY <1>1, <2>1, <2>2, UpTo
  <2> QED  BY <2>3 DEF S
<1>4. ASSUME NEW n \in 0 .. N PROVE \A v \in Vertices : f[n][v] \subseteq f[N][v]
  <2> DEFINE S == {m \in 0 .. N : \A v \in Vertices : f[N - m][v] \subseteq f[N][v]}
  <2>1. 0 \in S
    BY <1>1
  <2>2. ASSUME NEW m \in 1 .. N, m - 1 \in S PROVE m \in S
    <3>1. N - (m - 1) \in 1 .. N /\ (N - (m - 1)) - 1 = N - m
      BY <1>1
    <3>2. \A v \in Vertices : f[N - m][v] \subseteq f[N - (m - 1)][v]
      BY <1>2, <3>1
    <3> QED  BY <2>2, <3>2
  <2> HIDE DEF S
  <2>3. \A m \in 0 .. N : m \in S
    BY <1>1, <2>1, <2>2, UpTo
  <2>4. N - n \in 0 .. N /\ N - (N - n) = n
    BY <1>1
  <2>5. N - n \in S
    BY <2>3, <2>4
  <2> QED  BY <2>4, <2>5 DEF S
<1> DEFINE Front1(v, l) == \E e \in Free : e[1] = v /\ \E k \in f[N][e[2]] : l = Length[e] + k
<1>5. \A v \in Vertices : \A l \in f[N][v] : l \in f[0][v] \/ Front1(v, l)
  <2> DEFINE S == {m \in 0 .. N : \A v \in Vertices : \A l \in f[m][v] :
                                      l \in f[0][v] \/ Front1(v, l)}
  <2>1. 0 \in S
    <3> HIDE DEF Front1
    <3> QED  BY <1>1
  <2>2. ASSUME NEW m \in 1 .. N, m - 1 \in S PROVE m \in S
    <3> SUFFICES ASSUME NEW v \in Vertices, NEW l \in f[m][v]
                 PROVE  l \in f[0][v] \/ Front1(v, l)
      OBVIOUS
    <3>1. m - 1 \in 0 .. N /\ f[m - 1] \in [Vertices -> SUBSET Nat] /\ f[m] = Longer(f[m - 1])
      BY <1>1
    <3>2. CASE l \in f[m - 1][v]
      <4>1. \A u \in Vertices : \A k \in f[m - 1][u] : k \in f[0][u] \/ Front1(u, k)
        BY <2>2
      <4> HIDE DEF Front1
      <4> QED  BY <3>2, <4>1
    <3>3. CASE \E e \in Free : e[1] = v /\ \E k \in f[m - 1][e[2]] : l = Length[e] + k
      <4>1. PICK e \in Free : e[1] = v /\ \E k \in f[m - 1][e[2]] : l = Length[e] + k
        BY <3>3
      <4>2. e[2] \in Vertices
        BY RoadmapAssumption DEF Free
      <4>3. f[m - 1][e[2]] \subseteq f[N][e[2]]
        BY <1>4, <3>1, <4>2
      <4> QED  BY <4>1, <4>3
    <3>4. l \in Longer(f[m - 1])[v]
      BY <3>1
    <3> QED
      <4> HIDE DEF Front1
      <4>1. l \in f[m - 1][v] \/ \E e \in Free : e[1] = v /\ \E k \in f[m - 1][e[2]] : l = Length[e] + k
        BY <3>1, <3>4, InLonger
      <4> QED  BY <3>2, <3>3, <4>1
  <2> HIDE DEF S, Front1
  <2>3. \A m \in 0 .. N : m \in S
    BY <1>1, <2>1, <2>2, UpTo
  <2>4. N \in S
    BY <1>1, <2>3
  <2> QED  BY <2>4 DEF S
<1> QED  BY <1>2, <1>3, <1>4, <1>5

\* the vertices for which n segments are as good as any
Settled(f, n, all) == {v \in Vertices : \A l \in all[v] : \E k \in f[n][v] : k <= l}

(* A further segment settles a further vertex: the one the shortest walk   *)
(* starts from of those that are not.                                      *)
LEMMA OneMoreSettled ==
    ASSUME NEW goal, NEW f, Within(f, goal), NEW N, N = Cardinality(Vertices),
           NEW all, all = Longer(f[N]), NEW n \in 1 .. N,
           Settled(f, n - 1, all) # Vertices
    PROVE  /\ Settled(f, n - 1, all) \subseteq Settled(f, n, all)
           /\ Settled(f, n - 1, all) # Settled(f, n, all)
<1>1. /\ f \in [0 .. N -> [Vertices -> SUBSET Nat]]
      /\ f[n] = Longer(f[n - 1]) /\ N \in Nat /\ n - 1 \in 0 .. N /\ N \in 0 .. N /\ n \in 0 .. N
  BY VertexCount DEF Within
<1>2. /\ f[N] \in [Vertices -> SUBSET Nat] /\ f[n - 1] \in [Vertices -> SUBSET Nat]
      /\ f[n] \in [Vertices -> SUBSET Nat] /\ all \in [Vertices -> SUBSET Nat]
  BY <1>1, LongerType
<1>3. \A v \in Vertices : f[n - 1][v] \subseteq f[n][v] /\ f[0][v] \subseteq f[n - 1][v]
  BY <1>1, WithinGrows
<1>4. Settled(f, n - 1, all) \subseteq Settled(f, n, all)
  BY <1>3 DEF Settled
<1> DEFINE Open(v, l) == l \in all[v] /\ \A k \in f[n - 1][v] : ~(k <= l)
           T == {l \in Nat : \E v \in Vertices : Open(v, l)}
<1>5. PICK l \in T : \A k \in T : l <= k
  <2>1. PICK v \in Vertices : v \notin Settled(f, n - 1, all)
    BY DEF Settled
  <2>2. PICK l \in all[v] : \A k \in f[n - 1][v] : ~(k <= l)
    BY <2>1 DEF Settled
  <2>3. l \in T
    BY <1>2, <2>2
  <2>4. T \subseteq Nat /\ T # {}
    BY <2>3
  <2> HIDE DEF T
  <2> QED  BY <2>4, Least
<1>6. PICK v \in Vertices : Open(v, l)
  OBVIOUS
<1>7. l \in Nat /\ v \notin Settled(f, n - 1, all)
  BY <1>6 DEF Settled
<1>8. PICK e \in Free : e[1] = v /\ \E k \in f[N][e[2]] : l = Length[e] + k
  <2>1. l \notin f[0][v]
    <3>1. l \notin f[n - 1][v]
      BY <1>6, <1>7
    <3> QED  BY <1>3, <3>1
  <2>2. l \in Longer(f[N])[v]
    BY <1>6
  <2>3. CASE l \in f[N][v]
    BY <1>1, <2>1, <2>3, WithinGrows
  <2>4. CASE l \notin f[N][v]
    BY <1>2, <2>2, <2>4, InLonger
  <2> QED  BY <2>3, <2>4
<1>9. PICK k \in f[N][e[2]] : l = Length[e] + k
  BY <1>8
<1>10. Length[e] \in Nat \ {0} /\ e[2] \in Vertices /\ k \in Nat /\ k < l
  <2>1. Length[e] \in Nat \ {0} /\ e[2] \in Vertices
    BY RoadmapAssumption DEF Free
  <2>2. k \in Nat
    BY <1>2, <2>1
  <2> QED  BY <1>9, <2>1, <2>2
<1>11. k \in all[e[2]]
  BY <1>2, <1>10, InLonger
<1>12. PICK j \in f[n - 1][e[2]] : j <= k
  <2>1. k \notin T
    <3> HIDE DEF T
    <3> QED  BY <1>5, <1>7, <1>10
  <2> QED  BY <1>10, <1>11, <2>1
<1>13. Length[e] + j \in f[n][v] /\ Length[e] + j <= l /\ j \in Nat
  <2>1. Length[e] + j \in f[n][v]
    BY <1>1, <1>2, <1>8, <1>12, InLonger
  <2>2. j \in Nat
    BY <1>2, <1>10
  <2> QED  BY <1>9, <1>10, <1>12, <2>1, <2>2
<1>14. ASSUME NEW i \in all[v] PROVE \E m \in f[n][v] : m <= i
  <2>1. i \in Nat
    BY <1>2
  <2>2. CASE i < l
    <3>1. i \notin T
      <4> HIDE DEF T
      <4> QED  BY <1>5, <1>7, <2>1, <2>2
    <3>2. \E m \in f[n - 1][v] : m <= i
      BY <2>1, <3>1
    <3> QED  BY <1>3, <3>2
  <2>3. CASE l <= i
    <3>1. Length[e] + j \in Nat /\ Length[e] + j <= i
      BY <1>7, <1>10, <1>13, <2>1, <2>3
    <3> QED  BY <1>13, <3>1
  <2> QED  BY <1>7, <2>1, <2>2, <2>3
<1>15. v \in Settled(f, n, all)
  BY <1>14 DEF Settled
<1> QED  BY <1>4, <1>7, <1>15

(* As many segments as there are vertices are as good as any number.       *)
LEMMA EnoughSegments ==
    ASSUME NEW goal, NEW f, Within(f, goal), NEW N, N = Cardinality(Vertices),
           NEW v \in Vertices, NEW l \in Longer(f[N])[v]
    PROVE  \E k \in f[N][v] : k <= l
<1> DEFINE all == Longer(f[N])
           Done(n) == Settled(f, n, all) = Vertices \/ n <= Cardinality(Settled(f, n, all))
           S == {n \in 0 .. N : Done(n)}
<1>1. N \in Nat
  BY VertexCount
<1>2. \A n : /\ IsFiniteSet(Settled(f, n, all)) /\ Cardinality(Settled(f, n, all)) \in Nat
             /\ Settled(f, n, all) \subseteq Vertices
  <2> TAKE n
  <2>1. Settled(f, n, all) \subseteq Vertices
    BY DEF Settled
  <2>2. IsFiniteSet(Settled(f, n, all))
    BY <2>1, VerticesAssumption, FS_Subset
  <2> QED  BY <2>1, <2>2, FS_CardinalityType
<1>3. 0 \in S
  <2> HIDE DEF all
  <2> QED  BY <1>1, <1>2
<1>4. ASSUME NEW n \in 1 .. N, n - 1 \in S PROVE n \in S
  <2> DEFINE A == Settled(f, n - 1, all)
             B == Settled(f, n, all)
  <2>1. CASE A = Vertices
    <3>1. \A u \in Vertices : f[n - 1][u] \subseteq f[n][u]
      BY <1>1, WithinGrows
    <3>2. A \subseteq B
      BY <3>1 DEF Settled
    <3>3. B = Vertices
      <4> HIDE DEF A
      <4> QED  BY <1>2, <2>1, <3>2
    <3> HIDE DEF all
    <3> QED  BY <3>3
  <2>2. CASE A # Vertices
    <3>1. A \subseteq B /\ A # B
      BY <2>2, OneMoreSettled
    <3>2. IsFiniteSet(B) /\ Cardinality(A) \in Nat /\ Cardinality(B) \in Nat
      BY <1>2
    <3>3. n - 1 <= Cardinality(A)
      <4> HIDE DEF all
      <4> QED  BY <1>4, <2>2
    <3>4. Cardinality(A) <= Cardinality(B) /\ Cardinality(A) # Cardinality(B)
      <4> HIDE DEF A, B
      <4> QED  BY <3>1, <3>2, FS_Subset
    <3>5. n <= Cardinality(B)
      <4> HIDE DEF A, B
      <4> QED  BY <1>1, <3>2, <3>3, <3>4
    <3> HIDE DEF all
    <3> QED  BY <3>5
  <2> QED  BY <2>1, <2>2
<1>5. N \in S
  <2> HIDE DEF S
  <2> QED  BY <1>1, <1>3, <1>4, UpTo
<1>6. Settled(f, N, all) = Vertices
  <2> HIDE DEF all
  <2>1. CASE N <= Cardinality(Settled(f, N, all))
    <3>1. Cardinality(Settled(f, N, all)) <= Cardinality(Vertices)
      BY <1>2, VerticesAssumption, FS_Subset
    <3>2. Cardinality(Settled(f, N, all)) = Cardinality(Vertices)
      BY <1>1, <1>2, <2>1, <3>1
    <3> QED  BY <1>2, <3>2, VerticesAssumption, FS_Subset
  <2> QED  BY <1>5, <2>1
<1> QED  BY <1>6 DEF Settled

-----------------------------------------------------------------------------
(* The search of a leg is complete.                                        *)

\* the heuristic shrinks along a segment by no more than its length
Consistent(d, goal) ==
    /\ goal \in DOMAIN d /\ d[goal] = 0
    /\ \A v \in DOMAIN d : d[v] \in Nat
    /\ \A e \in Free : e[2] \in DOMAIN d =>
          e[1] \in DOMAIN d /\ d[e[1]] <= Length[e] + d[e[2]]

\* the entries that may still lead to the goal, and the one that has
Front == open \cup (IF leg = "trace"
                    THEN {[at |-> Head(togo), time |-> best[Head(togo)]]} ELSE {})

\* no walk from the entry reaches the goal before
Estimate(o) == o.time + dist[o.at] * Pace[robot]

\* whoever leaves v in time for a segment finds its far end labelled
Expanded(v) ==
    \A e \in Free : e[1] = v /\ e[2] \in DOMAIN dist =>
        \A dep \in Nat : best[v] <= dep /\ SafeGiven(edges, parks, robot, e, dep) =>
            best[e[2]] # NoLabel /\ best[e[2]] <= dep + Duration(robot, e)

\* a labelled vertex waits to be expanded, or has been
FrontInv ==
    leg # "none" =>
       /\ Head(togo) # Last(route) /\ Consistent(dist, Head(togo))
       /\ \A v \in Vertices : best[v] # NoLabel =>
             [at |-> v, time |-> best[v]] \in Front \/ (v # Head(togo) /\ Expanded(v))

\* the goal was the first of the front
FirstInv ==
    leg = "trace" =>
       \A o \in Front : o.at \in DOMAIN dist => best[Head(togo)] <= Estimate(o)

\* labels follow free segments, and so does the path, back from the goal
FreeInv ==
    /\ leg # "none" =>
          \A v \in Vertices : best[v] # NoLabel /\ v # Last(route) => <<parent[v], v>> \in Free
    /\ leg = "trace" =>
          /\ path # <<>> => <<cursor, path[1].at>> \in Free
          /\ \A i \in 1 .. Len(path) - 1 : <<path[i].at, path[i + 1].at>> \in Free

\* the path ends with the goal
PathEnds ==
    leg = "trace" =>
        IF path = <<>> THEN cursor = Head(togo)
        ELSE path[Len(path)] = [at |-> Head(togo), time |-> best[Head(togo)]]

\* all of it
EarliestInv == SearchInv /\ FrontInv /\ FirstInv /\ FreeInv /\ PathEnds

(* Distances is consistent: a walk to the far end of a segment is one from *)
(* its near end, and if it is too long to be counted, a shorter one is.    *)
LEMMA DistancesConsistent ==
    ASSUME NEW goal \in Vertices
    PROVE  Consistent(Distances(goal), goal)
<1> DEFINE N == Cardinality(Vertices)
           W == WalkLengths(goal)
           d == Distances(goal)
<1>1. PICK f : Within(f, goal) /\ W = f[N]
  BY WithinExists
<1>2. N \in Nat /\ W \in [Vertices -> SUBSET Nat] /\ f[0] \in [Vertices -> SUBSET Nat]
  BY <1>1, VertexCount DEF Within
<1>3. 0 \in f[0][goal]
  BY <1>1 DEF Within
<1>4. 0 \in W[goal]
  <2> HIDE DEF N, W
  <2>1. f[0][goal] \subseteq f[N][goal]
    BY <1>1, <1>2, WithinGrows DEF N
  <2> QED  BY <1>1, <1>3, <2>1
<1>5. /\ DOMAIN d = {v \in Vertices : W[v] # {}}
      /\ \A v \in DOMAIN d : d[v] = Min(W[v])
  BY DEF Distances
<1>6. \A v \in DOMAIN d : d[v] \in W[v] /\ d[v] \in Nat /\ \A l \in W[v] : d[v] <= l
  <2> SUFFICES ASSUME NEW v \in DOMAIN d
               PROVE  d[v] \in W[v] /\ d[v] \in Nat /\ \A l \in W[v] : d[v] <= l
    OBVIOUS
  <2> HIDE DEF d, W, N
  <2>1. W[v] \subseteq Nat /\ W[v] # {} /\ d[v] = Min(W[v])
    BY <1>2, <1>5
  <2>2. \E m \in W[v] : \A n \in W[v] : m <= n
    BY <2>1, Least
  <2> QED  BY <2>1, <2>2 DEF Min
<1>7. goal \in DOMAIN d /\ d[goal] = 0
  <2> HIDE DEF d, W, N
  <2>1. goal \in DOMAIN d
    BY <1>4, <1>5
  <2> QED  BY <1>4, <1>6, <2>1
<1>8. ASSUME NEW e \in Free, e[2] \in DOMAIN d
      PROVE  e[1] \in DOMAIN d /\ d[e[1]] <= Length[e] + d[e[2]]
  <2>1. e[1] \in Vertices /\ e[2] \in Vertices /\ Length[e] \in Nat
    BY RoadmapAssumption DEF Free
  <2> HIDE DEF d, W, N
  <2>2. d[e[2]] \in W[e[2]] /\ d[e[2]] \in Nat
    BY <1>6, <1>8
  <2>3. Length[e] + d[e[2]] \in Longer(W)[e[1]]
    BY <1>2, <2>1, <2>2, InLonger
  <2>4. PICK k \in W[e[1]] : k <= Length[e] + d[e[2]]
    BY <1>1, <2>1, <2>3, EnoughSegments DEF N
  <2>5. e[1] \in DOMAIN d
    BY <1>5, <2>1, <2>4
  <2>6. d[e[1]] <= k /\ k \in Nat /\ d[e[1]] \in Nat
    BY <1>2, <1>6, <2>1, <2>4, <2>5
  <2> QED  BY <2>1, <2>2, <2>4, <2>5, <2>6
<1> QED
  <2> HIDE DEF d
  <2>1. Consistent(d, goal)
    BY <1>6, <1>7, <1>8 DEF Consistent
  <2> QED  BY <2>1 DEF d

-----------------------------------------------------------------------------
(* Departures.                                                             *)

(* Whoever can leave for a segment at some time can leave at the moment    *)
(* that is looked at, which is no later: the gap of the reservations in    *)
(* which that time lies begins with a moment.                              *)
LEMMA FirstSafe ==
    ASSUME TypeOK, NEW r \in Robots, NEW e \in Arcs, NEW t \in Nat, NEW dep \in Nat,
           t <= dep, SafeGiven(edges, parks, r, e, dep)
    PROVE  /\ Departures(r, e, t) # {}
           /\ \A m \in Departures(r, e, t) : m \in Nat /\ t <= m /\ m <= dep
<1> DEFINE D == Duration(r, e)
           free == {m \in Moments(t) : Clear(e, m, m + D)}
<1>1. D \in Nat
  BY ArcType
<1>2. \A m \in Moments(t) : m \in Nat /\ t <= m
  BY MomentType
<1>3. \A iv \in edges : iv.lo \in Nat /\ iv.hi \in Nat /\ (iv.hi > t => iv.hi \in Moments(t))
  BY DEF TypeOK, Intervals, Moments
<1>4. /\ \A iv \in edges : iv.edge \in {e, <<e[2], e[1]>>} => ~Meet(dep, dep + D, iv)
      /\ \A p \in parks : p.at = e[2] => dep + D <= p.lo
      /\ \A p \in parks : p.at = e[1] => dep <= p.lo
  BY DEF SafeGiven
<1> HIDE DEF D
<1>5. PICK m \in Moments(t) : m <= dep /\ \A k \in Moments(t) : k <= dep => k <= m
  <2> DEFINE T == {n \in Nat : dep - n \in Moments(t)}
  <2>1. dep - t \in T
    <3>1. t \in Moments(t) /\ dep - (dep - t) = t /\ dep - t \in Nat
      BY DEF Moments
    <3> QED  BY <3>1
  <2>2. PICK n \in T : \A k \in T : n <= k
    <3>1. T \subseteq Nat /\ T # {}
      BY <2>1
    <3> HIDE DEF T
    <3> QED  BY <3>1, Least
  <2>3. ASSUME NEW k \in Moments(t), k <= dep PROVE k <= dep - n
    <3>1. k \in Nat /\ dep - k \in Nat /\ dep - (dep - k) = k
      BY <1>2, <2>3
    <3>2. dep - k \in T
      BY <3>1
    <3>3. n <= dep - k /\ n \in Nat
      <4> HIDE DEF T
      <4>1. n <= dep - k
        BY <2>2, <3>2
      <4> QED  BY <4>1 DEF T
    <3> QED  BY <3>1, <3>3
  <2>4. n \in Nat /\ dep - n \in Moments(t) /\ dep - n <= dep
    OBVIOUS
  <2> QED  BY <2>3, <2>4
<1>6. m \in free
  <2> SUFFICES ASSUME NEW iv \in edges, iv.edge \in {e, <<e[2], e[1]>>}, Meet(m, m + D, iv)
               PROVE  FALSE
    BY DEF Clear
  <2>1. m \in Nat /\ t <= m
    BY <1>2
  <2>2. iv.lo < m + D /\ m < iv.hi /\ iv.lo \in Nat /\ iv.hi \in Nat
    BY <1>3 DEF Meet
  <2>3. iv.hi \in Moments(t)
    BY <1>3, <2>1, <2>2
  <2>4. dep < iv.hi
    BY <1>5, <2>1, <2>2, <2>3
  <2>5. iv.lo < dep + D
    BY <1>1, <1>5, <2>1, <2>2
  <2>6. ~Meet(dep, dep + D, iv)
    BY <1>4
  <2> QED  BY <2>4, <2>5, <2>6 DEF Meet
<1>7. PICK k \in free : \A n \in free : k <= n
  <2>1. free \subseteq Nat /\ free # {}
    BY <1>2, <1>6
  <2> HIDE DEF free
  <2> QED  BY <2>1, Least
<1>8. k \in Nat /\ t <= k /\ k <= dep
  <2>1. k <= m
    <3> HIDE DEF free
    <3> QED  BY <1>6, <1>7
  <2>2. k \in Nat /\ m \in Nat /\ t <= k
    BY <1>2
  <2> QED  BY <1>5, <2>1, <2>2
<1>9. Safe(r, e, k)
  <2>1. Clear(e, k, k + D)
    OBVIOUS
  <2>2. \A p \in parks : p.lo \in Nat
    BY DEF TypeOK
  <2>3. Unparked(e[2], k + D) /\ Unparked(e[1], k)
    <3>1. k + D <= dep + D /\ k + D \in Nat /\ dep + D \in Nat
      BY <1>1, <1>8
    <3> QED  BY <1>4, <1>8, <2>2, <3>1 DEF Unparked
  <2> QED  BY <2>1, <2>3 DEF Safe, D
<1>10. Departures(r, e, t) = {n \in free : (\A i \in free : n <= i) /\ Safe(r, e, n)}
  BY DEF Departures, D
<1>11. k \in Departures(r, e, t)
  <2> HIDE DEF free
  <2> QED  BY <1>7, <1>9, <1>10
<1>12. ASSUME NEW n \in Departures(r, e, t) PROVE n \in Nat /\ t <= n /\ n <= dep
  <2>1. n \in free /\ n <= k
    <3> HIDE DEF free
    <3> QED  BY <1>7, <1>10
  <2>2. n \in Nat /\ t <= n
    BY <1>2, <2>1
  <2> QED  BY <1>8, <2>1, <2>2
<1> QED  BY <1>11, <1>12

(* Expanding an entry labels the far end of every segment no later than    *)
(* any safe departure would.                                               *)
LEMMA RelaxReaches ==
    ASSUME TypeOK, robot # NoRobot, NEW entry \in open, Relax(entry),
           NEW e \in Free, e[1] = entry.at, e[2] \in DOMAIN dist,
           NEW dep \in Nat, entry.time <= dep, SafeGiven(edges, parks, robot, e, dep)
    PROVE  best'[e[2]] # NoLabel /\ best'[e[2]] <= dep + Duration(robot, e)
<1> DEFINE found   == Improving(entry.at, entry.time)
           targets == {x.edge[2] : x \in found}
           time(v) == Relaxed(found, v).dep + Duration(robot, Relaxed(found, v).edge)
<1>1. /\ robot \in Robots /\ entry.time \in Nat /\ e \in Arcs /\ e[2] \in Vertices
      /\ e = <<e[1], e[2]>> /\ best \in [Vertices -> Nat \cup {NoLabel}]
  BY ArcType DEF TypeOK, Free
<1>2. Duration(robot, e) \in Nat
  BY <1>1, ArcType
<1>3. /\ Departures(robot, e, entry.time) # {}
      /\ \A m \in Departures(robot, e, entry.time) : m \in Nat /\ entry.time <= m /\ m <= dep
  BY <1>1, FirstSafe
<1>4. PICK d : d \in Departures(robot, e, entry.time)
  BY <1>3
<1>5. d \in Nat /\ d <= dep /\ d \in Moments(entry.time)
  BY <1>3, <1>4 DEF Departures
<1>6. best' = [v \in Vertices |-> IF v \in targets THEN time(v) ELSE best[v]]
  BY DEF Relax
<1>7. CASE best[e[2]] = NoLabel \/ d + Duration(robot, e) < best[e[2]]
  <2> DEFINE x == [edge |-> e, dep |-> d]
  <2>1. x \in found
    BY <1>1, <1>4, <1>5, <1>7 DEF Improving
  <2>2. e[2] \in targets
    BY <2>1
  <2> DEFINE y == Relaxed(found, e[2])
  <2>3. y \in found /\ y.edge[2] = e[2]
    BY <2>1 DEF Relaxed
  <2>4. best'[e[2]] = y.dep + Duration(robot, y.edge)
    BY <1>1, <1>6, <2>2
  <2> HIDE DEF y
  <2>5. y.edge = e
    BY <1>1, <2>3, ImprovingFacts
  <2>6. y.dep \in Departures(robot, e, entry.time)
    BY <2>3, <2>5 DEF Improving
  <2>7. y.dep \in Nat /\ y.dep <= dep
    BY <1>3, <2>6
  <2> QED  BY <1>2, <2>4, <2>5, <2>7 DEF NoLabel
<1>8. CASE best[e[2]] # NoLabel /\ ~(d + Duration(robot, e) < best[e[2]])
  <2>1. best[e[2]] \in Nat /\ best[e[2]] <= d + Duration(robot, e)
    BY <1>1, <1>2, <1>5, <1>8
  <2>2. best'[e[2]] = best[e[2]] \/ (best'[e[2]] \in Nat /\ best'[e[2]] < best[e[2]])
    BY <1>1, <1>8, RelaxFacts
  <2> QED  BY <1>2, <1>5, <2>1, <2>2 DEF NoLabel
<1> QED  BY <1>7, <1>8

(* A label that changes is a new entry; no other entry is lost.            *)
LEMMA RelaxOpens ==
    ASSUME NEW entry \in open, Relax(entry)
    PROVE  /\ \A v \in Vertices : best'[v] = best[v] \/ [at |-> v, time |-> best'[v]] \in open'
           /\ open \ {entry} \subseteq open'
<1> DEFINE found   == Improving(entry.at, entry.time)
           targets == {x.edge[2] : x \in found}
           time(v) == Relaxed(found, v).dep + Duration(robot, Relaxed(found, v).edge)
<1>1. /\ best' = [v \in Vertices |-> IF v \in targets THEN time(v) ELSE best[v]]
      /\ open' = (open \ {entry}) \cup {[at |-> v, time |-> time(v)] : v \in targets}
  BY DEF Relax
<1> HIDE DEF targets, time
<1>2. ASSUME NEW v \in Vertices, v \in targets
      PROVE  [at |-> v, time |-> best'[v]] \in open'
  <2>1. best'[v] = time(v)
    BY <1>1, <1>2
  <2> QED  BY <1>1, <1>2, <2>1
<1> QED  BY <1>1, <1>2

\* a label that gets smaller keeps a vertex expanded
LEMMA StillExpanded ==
    ASSUME NEW v \in Vertices, Expanded(v), TypeOK, robot # NoRobot,
           UNCHANGED <<request, edges, parks, robot, dist>>, best'[v] = best[v],
           \A u \in Vertices : best[u] # NoLabel => best'[u] # NoLabel /\ best'[u] <= best[u]
                                                    /\ best'[u] \in Nat
    PROVE  Expanded(v)'
<1> SUFFICES ASSUME NEW e \in Free, e[1] = v, e[2] \in DOMAIN dist, NEW dep \in Nat,
                    best[v] <= dep, SafeGiven(edges, parks, robot, e, dep)
             PROVE  best'[e[2]] # NoLabel /\ best'[e[2]] <= dep + Duration(robot, e)
  BY DEF Expanded, Free
<1>1. e \in Arcs /\ robot \in Robots /\ e[2] \in Vertices /\ best[e[2]] \in Nat \cup {NoLabel}
  BY ArcType DEF Free, TypeOK
<1>2. Duration(robot, e) \in Nat
  BY <1>1, ArcType
<1>3. best[e[2]] # NoLabel /\ best[e[2]] <= dep + Duration(robot, e)
  BY DEF Expanded
<1> QED  BY <1>1, <1>2, <1>3

(* A leg starts with the one entry of the vertex that is labelled.         *)
LEMMA StartLegFront ==
    ASSUME SearchInv, StartLeg, ~LegFails
    PROVE  FrontInv' /\ FirstInv' /\ FreeInv' /\ PathEnds'
<1>1. /\ open' = {[at |-> Last(route), time |-> LastTime(route)]} /\ leg' = "open"
      /\ best' = [v \in Vertices |-> IF v = Last(route) THEN LastTime(route) ELSE NoLabel]
      /\ dist' = Distances(Head(togo)) /\ Head(togo) # Last(route)
      /\ togo # <<>>
      /\ UNCHANGED <<request, route, togo>>
  BY DEF StartLeg
<1>2. Last(route) \in Vertices /\ LastTime(route) \in Nat /\ Head(togo) \in Vertices
  BY <1>1, EndType DEF SearchInv, TypeOK, StartLeg
<1>3. Consistent(Distances(Head(togo)), Head(togo))
  BY <1>2, DistancesConsistent
<1>4. Consistent(dist, Head(togo))'
  BY <1>1, <1>3 DEF Consistent, Free
<1>5. Last(route)' = Last(route) /\ LastTime(route)' = LastTime(route)
  BY <1>1
<1>6. Front' = open'
  BY <1>1 DEF Front
<1>7. \A v \in Vertices : best'[v] # NoLabel =>
         v = Last(route) /\ [at |-> v, time |-> best'[v]] \in open'
  BY <1>1
<1>8. FrontInv'
  BY <1>1, <1>4, <1>5, <1>6, <1>7 DEF FrontInv
<1>9. FreeInv'
  BY <1>1, <1>5, <1>7 DEF FreeInv
<1> QED  BY <1>1, <1>8, <1>9 DEF FirstInv, PathEnds

\* an entry that is not outdated carries the label of its vertex
LEMMA CurrentEntry ==
    ASSUME SearchInv, leg = "open", NEW entry \in open, entry.time <= best[entry.at]
    PROVE  /\ best[entry.at] = entry.time /\ entry.time \in Nat /\ entry.at \in Vertices
           /\ entry = [at |-> entry.at, time |-> best[entry.at]]
<1>1. /\ best[entry.at] # NoLabel /\ best[entry.at] <= entry.time
      /\ entry.at \in Vertices /\ entry.time \in Nat /\ best[entry.at] \in Nat \cup {NoLabel}
      /\ entry = [at |-> entry.at, time |-> entry.time]
  BY DEF SearchInv, LabelInv, TypeOK
<1> QED  BY <1>1

(* Relaxing the segments of an entry puts every vertex it labels in the    *)
(* front, and leaves the vertex of the entry expanded.                     *)
LEMMA RelaxFront ==
    ASSUME SearchInv, FrontInv, robot # NoRobot, leg = "open", NEW entry \in open, Relax(entry),
           UNCHANGED <<request, edges, parks, robot, route, togo, dist>>
    PROVE  FrontInv'
<1>1. /\ TypeOK /\ robot \in Robots
      /\ \A v \in Vertices : best[v] # NoLabel =>
            [at |-> v, time |-> best[v]] \in Front \/ (v # Head(togo) /\ Expanded(v))
      /\ Head(togo) # Last(route) /\ Consistent(dist, Head(togo))
  BY DEF FrontInv, SearchInv, TypeOK
<1>2. best[entry.at] = entry.time /\ entry.time \in Nat /\ entry.at \in Vertices
      /\ entry.at # Head(togo)
  BY CurrentEntry DEF Relax
<1>3. /\ leg' = "open" /\ Last(route)' = Last(route) /\ Front = open /\ Front' = open'
  BY DEF Relax, Front
<1>4. Consistent(dist, Head(togo))'
  BY <1>1 DEF Consistent, Free
<1>5. \A u \in Vertices : best[u] # NoLabel => best'[u] # NoLabel /\ best'[u] <= best[u]
                                                /\ best'[u] \in Nat
  <2> SUFFICES ASSUME NEW u \in Vertices, best[u] # NoLabel
               PROVE  best'[u] # NoLabel /\ best'[u] <= best[u] /\ best'[u] \in Nat
    OBVIOUS
  <2>1. best[u] \in Nat
    BY <1>1 DEF TypeOK
  <2>2. best'[u] = best[u] \/ (best'[u] \in Nat /\ best'[u] < best[u])
    BY <1>1, RelaxFacts
  <2> QED  BY <2>1, <2>2 DEF NoLabel
<1>6. ASSUME NEW v \in Vertices, best'[v] # NoLabel
      PROVE  [at |-> v, time |-> best'[v]] \in open' \/ (v # Head(togo) /\ Expanded(v)')
  <2>1. CASE best'[v] # best[v]
    BY <2>1, RelaxOpens
  <2>2. CASE best'[v] = best[v] /\ [at |-> v, time |-> best[v]] \in open \ {entry}
    BY <2>2, RelaxOpens
  <2>3. CASE best'[v] = best[v] /\ v = entry.at
    <3>1. ASSUME NEW e \in Free, e[1] = v, e[2] \in DOMAIN dist, NEW dep \in Nat,
                 best'[v] <= dep, SafeGiven(edges, parks, robot, e, dep)
          PROVE  best'[e[2]] # NoLabel /\ best'[e[2]] <= dep + Duration(robot, e)
      BY <1>1, <1>2, <2>3, <3>1, RelaxReaches
    <3>2. Expanded(v)'
      BY <3>1 DEF Expanded, Free
    <3> QED  BY <1>2, <2>3, <3>2
  <2>4. CASE best'[v] = best[v] /\ v # Head(togo) /\ Expanded(v)
    <3>1. Expanded(v)'
      BY <1>1, <1>5, <2>4, StillExpanded
    <3> QED  BY <2>4, <3>1
  <2>5. entry = [at |-> v, time |-> best[v]] => v = entry.at
    OBVIOUS
  <2> QED  BY <1>1, <1>3, <1>6, <2>1, <2>2, <2>3, <2>4, <2>5
<1> QED
  <2>1. \A v \in Vertices : best'[v] # NoLabel =>
           [at |-> v, time |-> best'[v]] \in Front' \/ (v # Head(togo)' /\ Expanded(v)')
    BY <1>3, <1>6
  <2> QED  BY <1>1, <1>3, <1>4, <2>1 DEF FrontInv

\* the first of the open entries has the smallest estimate
LEMMA FirstEstimate ==
    ASSUME TypeOK, robot # NoRobot, Consistent(dist, Head(togo)), NEW entry \in open,
           entry.at = Head(togo),
           \A other \in open : other = entry \/ TakenBefore(entry, other),
           NEW o \in open, o.at \in DOMAIN dist
    PROVE  entry.time <= Estimate(o)
<1>1. /\ robot \in Robots /\ Pace[robot] \in Nat /\ entry.time \in Nat /\ o.time \in Nat
      /\ dist[o.at] \in Nat /\ dist[entry.at] = 0
  BY RoadmapAssumption DEF TypeOK, Consistent
<1>2. entry.time + dist[entry.at] * Pace[robot] = entry.time
  BY <1>1
<1>3. dist[o.at] * Pace[robot] \in Nat
  BY <1>1
<1>4. CASE o = entry
  BY <1>1, <1>2, <1>4 DEF Estimate
<1>5. CASE TakenBefore(entry, o)
  <2>1. \/ entry.time + dist[entry.at] * Pace[robot] < o.time + dist[o.at] * Pace[robot]
        \/ entry.time + dist[entry.at] * Pace[robot] = o.time + dist[o.at] * Pace[robot]
    BY <1>5 DEF TakenBefore
  <2> DEFINE h == dist[o.at] * Pace[robot]
  <2>2. h \in Nat /\ (entry.time < o.time + h \/ entry.time = o.time + h)
    BY <1>2, <1>3, <2>1
  <2>3. Estimate(o) = o.time + h
    BY DEF Estimate
  <2> HIDE DEF h
  <2> QED  BY <1>1, <2>2, <2>3
<1> QED  BY <1>4, <1>5

(* Labels are passed on over free segments only.                           *)
LEMMA RelaxFree ==
    ASSUME SearchInv, FreeInv, robot # NoRobot, leg = "open", NEW entry \in open, Relax(entry),
           UNCHANGED <<request, route>>
    PROVE  FreeInv'
<1>1. leg' = "open" /\ Last(route)' = Last(route) /\ Free' = Free
  BY DEF Relax, Free
<1>2. ASSUME NEW v \in Vertices, best'[v] # NoLabel, v # Last(route)
      PROVE  <<parent'[v], v>> \in Free
  <2> DEFINE found   == Improving(entry.at, entry.time)
             targets == {x.edge[2] : x \in found}
             time(u) == Relaxed(found, u).dep + Duration(robot, Relaxed(found, u).edge)
  <2>1. /\ best' = [u \in Vertices |-> IF u \in targets THEN time(u) ELSE best[u]]
        /\ parent' = [u \in Vertices |-> IF u \in targets THEN entry.at ELSE parent[u]]
    BY DEF Relax
  <2>2. CASE v \in targets
    <3>1. PICK x \in found : x.edge[2] = v
      BY <2>2
    <3>2. x.edge = <<entry.at, v>> /\ x.edge \in Free
      BY <3>1, ImprovingFacts DEF SearchInv, Improving
    <3> QED  BY <2>1, <2>2, <3>2
  <2>3. CASE v \notin targets
    <3> HIDE DEF targets, time
    <3>1. best'[v] = best[v] /\ parent'[v] = parent[v]
      BY <2>1, <2>3
    <3> QED  BY <1>2, <3>1 DEF FreeInv
  <2> QED  BY <2>2, <2>3
<1> QED  BY <1>1, <1>2 DEF FreeInv

(* An entry that is outdated is dropped, the goal ends the search of the   *)
(* leg, and any other is relaxed (search_leg).                             *)
LEMMA ExpandFront ==
    ASSUME EarliestInv, NEW entry \in open, Expand(entry)
    PROVE  FrontInv' /\ FirstInv' /\ FreeInv' /\ PathEnds'
<1>1. /\ leg = "open" /\ robot # NoRobot /\ entry.at \in Vertices
      /\ \A other \in open : other = entry \/ TakenBefore(entry, other)
      /\ UNCHANGED <<request, edges, parks, plans, done, robot, route, togo, dist>>
      /\ SearchInv /\ TypeOK /\ FrontInv /\ FreeInv
  BY DEF EarliestInv, SearchInv, TypeOK, Expand
<1>2. /\ \A v \in Vertices : best[v] # NoLabel =>
            [at |-> v, time |-> best[v]] \in open \/ (v # Head(togo) /\ Expanded(v))
      /\ Head(togo) # Last(route) /\ Consistent(dist, Head(togo))
  BY <1>1 DEF FrontInv, Front
<1>3. /\ Last(route)' = Last(route) /\ Head(togo)' = Head(togo) /\ Free' = Free
      /\ Consistent(dist, Head(togo))'
  BY <1>1, <1>2 DEF Free, Consistent
<1>4. ASSUME UNCHANGED best, NEW v \in Vertices, Expanded(v) PROVE Expanded(v)'
  BY <1>1, <1>3, <1>4 DEF Expanded
<1>5. CASE DropStale(entry)
  <2>1. /\ open' = open \ {entry} /\ leg' = "open" /\ UNCHANGED <<best, parent>>
        /\ entry.time > best[entry.at]
    BY <1>1, <1>5 DEF DropStale
  <2>2. \A v \in Vertices : entry # [at |-> v, time |-> best[v]]
    <3> SUFFICES ASSUME NEW v \in Vertices, entry = [at |-> v, time |-> best[v]] PROVE FALSE
      OBVIOUS
    <3>1. entry.time = best[entry.at] /\ entry.time \in Nat
      BY <1>1 DEF TypeOK
    <3> QED  BY <2>1, <3>1
  <2>3. Front' = open'
    BY <2>1 DEF Front
  <2>4. FrontInv'
    BY <1>1, <1>2, <1>3, <1>4, <2>1, <2>2, <2>3 DEF FrontInv
  <2>5. FreeInv'
    BY <1>1, <1>3, <2>1 DEF FreeInv
  <2> QED  BY <2>1, <2>4, <2>5 DEF FirstInv, PathEnds
<1>6. CASE ReachGoal(entry)
  <2>1. /\ open' = open \ {entry} /\ leg' = "trace" /\ UNCHANGED <<best, parent>>
        /\ entry.at = Head(togo) /\ cursor' = Head(togo) /\ path' = <<>>
        /\ entry.time <= best[entry.at]
    BY <1>1, <1>6 DEF ReachGoal
  <2>2. best[entry.at] = entry.time /\ entry = [at |-> Head(togo), time |-> best[Head(togo)]]
    BY <1>1, <2>1, CurrentEntry
  <2>3. Front' = open
    BY <1>1, <2>1, <2>2 DEF Front
  <2>4. FrontInv'
    BY <1>1, <1>2, <1>3, <1>4, <2>1, <2>3 DEF FrontInv
  <2>5. \A o \in open : o.at \in DOMAIN dist => best[Head(togo)] <= Estimate(o)
    BY <1>1, <1>2, <2>1, <2>2, FirstEstimate
  <2>6. FirstInv'
    BY <1>1, <2>1, <2>3, <2>5 DEF FirstInv, Estimate
  <2>7. FreeInv'
    BY <1>1, <1>3, <2>1 DEF FreeInv
  <2> QED  BY <1>1, <2>1, <2>4, <2>6, <2>7 DEF PathEnds
<1>7. CASE Relax(entry)
  <2>1. FrontInv' /\ FreeInv'
    BY <1>1, <1>7, RelaxFront, RelaxFree
  <2>2. leg' = "open"
    BY <1>1, <1>7 DEF Relax
  <2> QED  BY <2>1, <2>2 DEF FirstInv, PathEnds
<1> QED  BY <1>5, <1>6, <1>7 DEF Expand

(* Reading the path back from the goal changes no label.                   *)
LEMMA TraceFront ==
    ASSUME EarliestInv, Trace
    PROVE  FrontInv' /\ FirstInv' /\ FreeInv' /\ PathEnds'
<1> DEFINE seen == [at |-> cursor, time |-> best[cursor]]
<1>1. /\ leg = "trace" /\ cursor # Last(route) /\ path' = <<seen>> \o path
      /\ cursor' = parent[cursor]
      /\ UNCHANGED <<request, edges, parks, robot, route, togo, leg, dist, open, best, parent>>
      /\ SearchInv /\ FrontInv /\ FirstInv /\ FreeInv /\ PathEnds
  BY DEF Trace, EarliestInv
<1>2. /\ Last(route)' = Last(route) /\ Head(togo)' = Head(togo) /\ Free' = Free
      /\ Front' = Front
  BY <1>1 DEF Free, Front
<1>3. Consistent(dist, Head(togo))' <=> Consistent(dist, Head(togo))
  BY <1>1, <1>2 DEF Consistent
<1>4. \A v \in Vertices : Expanded(v)' <=> Expanded(v)
  BY <1>1, <1>2 DEF Expanded
<1>5. FrontInv'
  BY <1>1, <1>2, <1>3, <1>4 DEF FrontInv
<1>6. FirstInv'
  BY <1>1, <1>2 DEF FirstInv, Estimate
<1>7. cursor \in Vertices /\ best[cursor] # NoLabel /\ Len(path) \in Nat
      /\ path \in Seq([at : Vertices, time : Nat]) /\ seen \in [at : Vertices, time : Nat]
  BY <1>1 DEF SearchInv, TraceInv, TypeOK
<1> HIDE DEF seen
<1>8. /\ Len(path') = Len(path) + 1 /\ path'[1] = seen /\ path' # <<>>
      /\ \A i \in 1 .. Len(path) : path'[i + 1] = path[i]
  <2>1. <<seen>> \in Seq([at : Vertices, time : Nat]) /\ Len(<<seen>>) = 1 /\ <<seen>>[1] = seen
    BY <1>7
  <2>2. PICK s : s = <<seen>>
    OBVIOUS
  <2>3. /\ Len(s \o path) = Len(s) + Len(path)
        /\ \A i \in 1 .. Len(s) : (s \o path)[i] = s[i]
        /\ \A i \in 1 .. Len(path) : (s \o path)[Len(s) + i] = path[i]
    BY <1>7, <2>1, <2>2, Joined
  <2>4. Len(path') = Len(path) + 1
    BY <1>1, <1>7, <2>1, <2>2, <2>3
  <2>5. path' # <<>>
    BY <1>7, <2>4
  <2> QED  BY <1>1, <1>7, <2>1, <2>2, <2>3, <2>4, <2>5
<1>9. seen.at = cursor /\ seen.time = best[cursor]
  BY DEF seen
<1>10. FreeInv'
  <2>1. /\ \A v \in Vertices : best[v] # NoLabel /\ v # Last(route) => <<parent[v], v>> \in Free
        /\ path # <<>> => <<cursor, path[1].at>> \in Free
        /\ \A i \in 1 .. Len(path) - 1 : <<path[i].at, path[i + 1].at>> \in Free
    BY <1>1 DEF FreeInv
  <2>2. <<parent[cursor], path'[1].at>> \in Free
    BY <1>1, <1>7, <1>8, <1>9, <2>1
  <2>3. ASSUME NEW i \in 1 .. Len(path') - 1 PROVE <<path'[i].at, path'[i + 1].at>> \in Free
    <3>1. i \in 1 .. Len(path) /\ path'[i + 1] = path[i]
      BY <1>7, <1>8
    <3>2. CASE i = 1
      <4>1. path # <<>>
        BY <3>1
      <4> QED  BY <1>8, <1>9, <2>1, <3>1, <3>2, <4>1
    <3>3. CASE i # 1
      <4>1. i - 1 \in 1 .. Len(path) - 1 /\ (i - 1) + 1 = i /\ i - 1 \in 1 .. Len(path)
        BY <1>7, <3>1, <3>3
      <4>2. path'[i] = path[i - 1] /\ <<path[i - 1].at, path[(i - 1) + 1].at>> \in Free
        BY <1>8, <2>1, <4>1
      <4> QED  BY <3>1, <4>1, <4>2
    <3> QED  BY <3>2, <3>3
  <2> QED  BY <1>1, <1>2, <2>1, <2>2, <2>3 DEF FreeInv
<1>11. PathEnds'
  <2>1. CASE path = <<>>
    <3>1. cursor = Head(togo) /\ Len(path) = 0
      BY <1>1, <2>1 DEF PathEnds
    <3>2. path'[Len(path')] = [at |-> Head(togo), time |-> best[Head(togo)]]
      BY <1>8, <3>1 DEF seen
    <3> QED  BY <1>1, <1>2, <1>8, <3>2 DEF PathEnds
  <2>2. CASE path # <<>>
    <3>1. Len(path) \in 1 .. Len(path)
      BY <1>7, <2>2
    <3>2. path'[Len(path')] = path[Len(path)]
      BY <1>8, <3>1
    <3> QED  BY <1>1, <1>2, <1>8, <2>2, <3>2 DEF PathEnds
  <2> QED  BY <2>1, <2>2
<1> QED  BY <1>5, <1>6, <1>10, <1>11

(* Nothing else that happens while a leg is searched matters to it.        *)
LEMMA StillFront ==
    ASSUME EarliestInv, UNCHANGED <<request, edges, parks, robot, route, togo, legVars>>
    PROVE  FrontInv' /\ FirstInv' /\ FreeInv' /\ PathEnds'
<1>1. UNCHANGED <<request, edges, parks, robot, route, togo, leg, dist, open, best, parent,
                  path, cursor>>
      /\ FrontInv /\ FirstInv /\ FreeInv /\ PathEnds
  BY DEF legVars, EarliestInv
<1>2. /\ Last(route)' = Last(route) /\ Head(togo)' = Head(togo) /\ Free' = Free
      /\ Front' = Front
  BY <1>1 DEF Free, Front
<1>3. Consistent(dist, Head(togo))' <=> Consistent(dist, Head(togo))
  BY <1>1, <1>2 DEF Consistent
<1>4. \A v \in Vertices : Expanded(v)' <=> Expanded(v)
  BY <1>1, <1>2 DEF Expanded
<1>5. FrontInv'
  BY <1>1, <1>2, <1>3, <1>4 DEF FrontInv
<1>6. FirstInv'
  BY <1>1, <1>2 DEF FirstInv, Estimate
<1>7. FreeInv' /\ PathEnds'
  BY <1>1, <1>2 DEF FreeInv, PathEnds
<1> QED  BY <1>5, <1>6, <1>7

\* between two legs there is nothing to say
LEMMA NoLegFront ==
    ASSUME leg' = "none"
    PROVE  FrontInv' /\ FirstInv' /\ FreeInv' /\ PathEnds'
  BY DEF FrontInv, FirstInv, FreeInv, PathEnds

(* The first search has no leg yet.                                        *)
LEMMA EarliestInit == Init => EarliestInv
<1> SUFFICES ASSUME Init PROVE EarliestInv
  OBVIOUS
<1>1. SearchInv /\ leg = "none"
  BY SearchInvInit DEF Init
<1> QED  BY <1>1 DEF EarliestInv, FrontInv, FirstInv, FreeInv, PathEnds

(* Every step keeps the invariant.                                         *)
LEMMA EarliestNext == EarliestInv /\ [Next]_vars => EarliestInv'
<1> SUFFICES ASSUME EarliestInv, [Next]_vars PROVE EarliestInv'
  OBVIOUS
<1>0. SearchInv /\ SearchInv' /\ TypeOK
  BY SearchInvNext DEF EarliestInv, SearchInv
<1>1. SUFFICES FrontInv' /\ FirstInv' /\ FreeInv' /\ PathEnds'
  BY <1>0 DEF EarliestInv
<1>2. ASSUME NEW r \in Robots, StartRobot(r)
      PROVE  FrontInv' /\ FirstInv' /\ FreeInv' /\ PathEnds'
  <2>1. leg' = "none"
    BY <1>0, <1>2 DEF StartRobot, TypeOK, legVars
  <2> QED  BY <2>1, NoLegFront
<1>3. ASSUME SkipGoal PROVE FrontInv' /\ FirstInv' /\ FreeInv' /\ PathEnds'
  <2>1. leg' = "none"
    BY <1>3 DEF SkipGoal, legVars
  <2> QED  BY <2>1, NoLegFront
<1>4. ASSUME FinishRobot PROVE FrontInv' /\ FirstInv' /\ FreeInv' /\ PathEnds'
  <2>1. leg' = "none"
    BY <1>4 DEF FinishRobot
  <2> QED  BY <2>1, NoLegFront
<1>5. ASSUME Finish \/ UNCHANGED vars PROVE FrontInv' /\ FirstInv' /\ FreeInv' /\ PathEnds'
  <2>1. UNCHANGED <<request, edges, parks, robot, route, togo, legVars>>
    BY <1>5 DEF Finish, vars
  <2> QED  BY <2>1, StillFront
<1>6. ASSUME LegFails PROVE FrontInv' /\ FirstInv' /\ FreeInv' /\ PathEnds'
  <2>1. CASE FinishRobot
    BY <1>4, <2>1
  <2>2. CASE ~FinishRobot
    <3>1. UNCHANGED <<request, edges, parks, robot, route, togo, legVars>>
      BY <1>6, <2>2 DEF LegFails
    <3> QED  BY <3>1, StillFront
  <2> QED  BY <2>1, <2>2
<1>7. ASSUME StartLeg PROVE FrontInv' /\ FirstInv' /\ FreeInv' /\ PathEnds'
  BY <1>0, <1>6, <1>7, StartLegFront
<1>8. ASSUME Exhausted PROVE FrontInv' /\ FirstInv' /\ FreeInv' /\ PathEnds'
  BY <1>6, <1>8 DEF Exhausted
<1>9. ASSUME AllGoalsReached PROVE FrontInv' /\ FirstInv' /\ FreeInv' /\ PathEnds'
  BY <1>4, <1>9 DEF AllGoalsReached
<1>10. ASSUME LegDone PROVE FrontInv' /\ FirstInv' /\ FreeInv' /\ PathEnds'
  <2>1. leg' = "none"
    BY <1>10 DEF LegDone
  <2> QED  BY <2>1, NoLegFront
<1> QED  BY <1>2, <1>3, <1>5, <1>7, <1>8, <1>9, <1>10, ExpandFront, TraceFront DEF Next

-----------------------------------------------------------------------------
(* Every way to the goal is looked at.                                     *)

\* t is when the robot can be at w[i]
Arriving(at, w) ==
    /\ at \in [1 .. Len(w) -> SUBSET Nat] /\ at[1] = {LastTime(route)}
    /\ \A i \in 1 .. Len(w) - 1 : at[i + 1] = Onward(<<w[i], w[i + 1]>>, at[i])

\* a vertex is labelled by then, or an entry is waiting that may lead further
Reached(v, t) == best[v] # NoLabel /\ best[v] <= t
Ahead(v, t)   == \E o \in Front : o.at \in DOMAIN dist
                                  /\ Estimate(o) <= t + dist[v] * Pace[robot]

(* The times of ArrivalsOver, at every vertex of the walk.                 *)
LEMMA ArrivingExists ==
    ASSUME LastTime(route) \in Nat, NEW w, Len(w) \in Nat \ {0}
    PROVE  \E at : Arriving(at, w) /\ ArrivalsOver(w) = at[Len(w)]
<1> DEFINE n == Len(w)
           N == Len(w) - 1
           X == SUBSET Nat
           x == {LastTime(route)}
           step == [k \in 1 .. N |-> [L \in X |-> Onward(<<w[k], w[k + 1]>>, L)]]
           Body(at) == [i \in 1 .. n |-> IF i = 1 THEN x ELSE Onward(<<w[i - 1], w[i]>>, at[i - 1])]
<1>1. N \in Nat /\ n \in Nat /\ n = N + 1 /\ x \in X
  OBVIOUS
<1>2. \A e, L : Onward(e, L) \in X
  BY BoundsAssumption DEF Onward
<1>3. step \in Steppers(N, X)
  <2> HIDE DEF N, X
  <2> QED  BY <1>2 DEF Steppers
<1>4. PICK f : Iteration(f, X, N, step, x)
  <2> HIDE DEF N, X, x, step
  <2> QED  BY <1>1, <1>3, IterationExists
<1>5. /\ f \in [0 .. N -> X] /\ f[0] = x
      /\ \A k \in 1 .. N : f[k] = step[k][f[k - 1]]
  <2> HIDE DEF N, X, x, step
  <2> QED  BY <1>4 DEF Iteration
<1>6. ASSUME NEW k \in 1 .. N
      PROVE  f[k] = Onward(<<w[k], w[k + 1]>>, f[k - 1])
  <2>1. f[k - 1] \in X
    <3> HIDE DEF N, X, x, step
    <3> QED  BY <1>1, <1>5
  <2>2. step[k][f[k - 1]] = Onward(<<w[k], w[k + 1]>>, f[k - 1])
    <3> HIDE DEF N, X, x
    <3> QED  BY <2>1
  <2> QED  BY <1>5, <2>2
<1> DEFINE g == [i \in 1 .. n |-> f[i - 1]]
<1>7. /\ g \in [1 .. n -> X] /\ g[1] = x
      /\ \A i \in 1 .. N : g[i + 1] = Onward(<<w[i], w[i + 1]>>, g[i])
  <2> HIDE DEF N, X, x, step, n
  <2>1. \A i \in 1 .. n : i - 1 \in 0 .. N
    BY <1>1
  <2>2. \A i \in 1 .. N : i \in 1 .. n /\ i + 1 \in 1 .. n /\ (i + 1) - 1 = i
    BY <1>1
  <2>3. 1 \in 1 .. n /\ 1 - 1 = 0
    BY <1>1
  <2> QED  BY <1>5, <1>6, <2>1, <2>2, <2>3
<1>8. g = Body(g)
  <2> HIDE DEF N, X, x, step, n
  <2>1. ASSUME NEW i \in 1 .. n
        PROVE  g[i] = IF i = 1 THEN x ELSE Onward(<<w[i - 1], w[i]>>, g[i - 1])
    <3>1. CASE i = 1
      BY <1>7, <3>1
    <3>2. CASE i # 1
      <4>1. i - 1 \in 1 .. N /\ (i - 1) + 1 = i
        BY <1>1, <3>2
      <4> HIDE DEF g
      <4>2. g[(i - 1) + 1] = Onward(<<w[i - 1], w[(i - 1) + 1]>>, g[i - 1])
        BY <1>7, <4>1
      <4> QED  BY <3>2, <4>1, <4>2
    <3> QED  BY <3>1, <3>2
  <2> QED  BY <2>1
<1>9. \E at : at = Body(at)
  <2> HIDE DEF g, Body
  <2> QED  BY <1>8
<1>10. PICK at : at = Body(at) /\ ArrivalsOver(w) = at[n]
  BY <1>9 DEF ArrivalsOver
<1>11. /\ at = [i \in 1 .. n |-> at[i]]
       /\ \A i \in 1 .. n : at[i] = IF i = 1 THEN x ELSE Onward(<<w[i - 1], w[i]>>, at[i - 1])
  <2> HIDE DEF n, x
  <2> QED  BY <1>10
<1>12. Arriving(at, w)
  <2>1. ASSUME NEW i \in 1 .. N
        PROVE  at[i + 1] = Onward(<<w[i], w[i + 1]>>, at[i])
    <3>1. i + 1 \in 1 .. n /\ i + 1 # 1 /\ (i + 1) - 1 = i
      BY <1>1
    <3> HIDE DEF n, x
    <3> QED  BY <1>11, <3>1
  <2>2. at[1] = x /\ \A i \in 1 .. n : at[i] \in X
    <3> HIDE DEF n, x, X
    <3>1. 1 \in 1 .. n
      BY <1>1
    <3>2. at[1] = x
      BY <1>11, <3>1
    <3>3. ASSUME NEW i \in 1 .. n PROVE at[i] \in X
      <4>1. at[i] = x \/ at[i] = Onward(<<w[i - 1], w[i]>>, at[i - 1])
        BY <1>11
      <4> QED  BY <1>1, <1>2, <4>1
    <3> QED  BY <3>2, <3>3
  <2>3. at \in [1 .. n -> X]
    <3> HIDE DEF n, x, X
    <3> QED  BY <1>11, <2>2
  <2> QED  BY <2>1, <2>2, <2>3 DEF Arriving
<1> QED  BY <1>10, <1>12

(* Products of lengths and paces.                                          *)
LEMMA Times == \A l, d, p \in Nat : (l + d) * p = l * p + d * p /\ l * p \in Nat /\ d * p \in Nat
  OBVIOUS

(* A longer way takes longer.                                              *)
LEMMA TimesGrow == \A l, d, p \in Nat : l <= d => l * p <= d * p
<1> SUFFICES ASSUME NEW l \in Nat, NEW d \in Nat, NEW p \in Nat, l <= d PROVE l * p <= d * p
  OBVIOUS
<1>1. PICK k \in Nat : d = l + k
  <2>1. d - l \in Nat /\ d = l + (d - l)
    OBVIOUS
  <2> QED  BY <2>1
<1>2. (l + k) * p = l * p + k * p /\ l * p \in Nat /\ k * p \in Nat
  BY Times
<1> QED  BY <1>1, <1>2

(* An element of a sequence over a set is in the set.                      *)
LEMMA ElementType == ASSUME NEW S, NEW q \in Seq(S), NEW k \in 1 .. Len(q) PROVE q[k] \in S
OBVIOUS

(* A time of the path being read off is a natural number.                  *)
LEMMA PathTimes ==
    ASSUME EarliestInv, NEW k \in 1 .. Len(path)
    PROVE  path[k].at \in Vertices /\ path[k].time \in Nat
<1> DEFINE S == [at : Vertices, time : Nat]
<1>1. path \in Seq(S)
  BY DEF EarliestInv, SearchInv, TypeOK
<1>2. path[k] \in S
  <2> HIDE DEF S
  <2> QED  BY <1>1, ElementType
<1> QED  BY <1>2

\* entries have a time and an estimate
LEMMA FrontType ==
    ASSUME EarliestInv, leg # "none"
    PROVE  \A o \in Front : o.time \in Nat /\ (o.at \in DOMAIN dist => Estimate(o) \in Nat)
<1>1. /\ robot \in Robots /\ Pace[robot] \in Nat /\ best \in [Vertices -> Nat \cup {NoLabel}]
      /\ Consistent(dist, Head(togo)) /\ open \subseteq [at : Vertices, time : Nat]
      /\ path \in Seq([at : Vertices, time : Nat])
  BY RoadmapAssumption DEF EarliestInv, SearchInv, TypeOK, FrontInv
<1>2. ASSUME NEW o \in Front PROVE o.time \in Nat
  <2>1. CASE o \in open
    BY <1>1, <2>1
  <2>2. CASE leg = "trace" /\ o = [at |-> Head(togo), time |-> best[Head(togo)]]
    <3>1. CASE path = <<>>
      <4>1. cursor = Head(togo) /\ cursor \in Vertices /\ best[cursor] # NoLabel
        BY <2>2, <3>1 DEF EarliestInv, PathEnds, SearchInv, TraceInv
      <4> QED  BY <1>1, <2>2, <4>1
    <3>2. CASE path # <<>>
      <4>1. Len(path) \in 1 .. Len(path)
        BY <1>1, <3>2
      <4>2. path[Len(path)].at \in Vertices /\ path[Len(path)].time \in Nat
        BY <4>1, PathTimes
      <4> QED  BY <2>2, <3>2, <4>2 DEF EarliestInv, PathEnds
    <3> QED  BY <3>1, <3>2
  <2> QED  BY <1>2, <2>1, <2>2 DEF Front
<1>3. ASSUME NEW o \in Front, o.at \in DOMAIN dist PROVE Estimate(o) \in Nat
  <2>1. dist[o.at] \in Nat
    BY <1>1, <1>3 DEF Consistent
  <2>2. dist[o.at] * Pace[robot] \in Nat
    BY <1>1, <2>1, Times
  <2> QED  BY <1>2, <2>2 DEF Estimate
<1> QED  BY <1>2, <1>3

(* What is true of one vertex of a walk is true of the next.               *)
LEMMA OnwardStep ==
    ASSUME EarliestInv, leg # "none", NEW u \in Vertices, NEW v \in Vertices,
           NEW times \in SUBSET Nat, NEW t \in Onward(<<u, v>>, times), v \in DOMAIN dist,
           u \in DOMAIN dist => \A s \in times : Reached(u, s) \/ Ahead(u, s)
    PROVE  u \in DOMAIN dist /\ (Reached(v, t) \/ Ahead(v, t))
<1> DEFINE e == <<u, v>>
           dep == t - Duration(robot, e)
<1>1. /\ robot \in Robots /\ best \in [Vertices -> Nat \cup {NoLabel}]
      /\ Consistent(dist, Head(togo)) /\ open \subseteq [at : Vertices, time : Nat]
      /\ \A x \in Vertices : best[x] # NoLabel =>
            [at |-> x, time |-> best[x]] \in Front \/ (x # Head(togo) /\ Expanded(x))
  BY DEF EarliestInv, SearchInv, TypeOK, FrontInv
<1>2. /\ t \in Nat /\ e \in Free /\ Safe(robot, e, dep)
  BY BoundsAssumption DEF Onward, Possible
<1>3. PICK s \in times : s <= dep
  BY DEF Onward
<1>4. /\ e \in Arcs /\ Length[e] \in Nat /\ Pace[robot] \in Nat
      /\ Duration(robot, e) = Length[e] * Pace[robot] /\ Duration(robot, e) \in Nat
  BY <1>1, <1>2, ArcType, RoadmapAssumption DEF Free, Duration
<1>5. s \in Nat /\ dep \in Nat /\ dep + Duration(robot, e) = t
  <2> DEFINE D == Duration(robot, e)
  <2>1. s \in Nat /\ t \in Nat /\ D \in Nat /\ s <= t - D
    BY <1>2, <1>3, <1>4
  <2> HIDE DEF D
  <2>2. t - D \in Nat /\ (t - D) + D = t
    BY <2>1
  <2> QED  BY <2>1, <2>2 DEF D
<1>6. /\ u \in DOMAIN dist /\ dist[u] <= Length[e] + dist[v]
      /\ dist[u] \in Nat /\ dist[v] \in Nat
  <2>1. e[1] = u /\ e[2] = v
    OBVIOUS
  <2>2. e[1] \in DOMAIN dist /\ dist[e[1]] <= Length[e] + dist[e[2]]
    BY <1>1, <1>2, <2>1 DEF Consistent
  <2> QED  BY <1>1, <2>1, <2>2 DEF Consistent
<1>7. s + dist[u] * Pace[robot] <= t + dist[v] * Pace[robot]
  <2> HIDE DEF e, dep
  <2>1. dist[u] * Pace[robot] <= (Length[e] + dist[v]) * Pace[robot]
    BY <1>4, <1>6, TimesGrow
  <2>2. (Length[e] + dist[v]) * Pace[robot] = Duration(robot, e) + dist[v] * Pace[robot]
    BY <1>4, <1>6, Times
  <2>3. dist[u] * Pace[robot] \in Nat /\ dist[v] * Pace[robot] \in Nat
    BY <1>4, <1>6, Times
  <2> DEFINE hu == dist[u] * Pace[robot]
             hv == dist[v] * Pace[robot]
             D  == Duration(robot, e)
  <2>4. hu <= D + hv /\ hu \in Nat /\ hv \in Nat /\ D \in Nat
    BY <1>4, <2>1, <2>2, <2>3
  <2> HIDE DEF hu, hv, D
  <2>5. dep + D = t
    BY <1>5 DEF D
  <2>6. s + hu <= t + hv
    BY <1>3, <1>5, <2>4, <2>5
  <2> QED  BY <2>6 DEF hu, hv
<1>8. \A o \in Front : o.time \in Nat /\ (o.at \in DOMAIN dist => Estimate(o) \in Nat)
  BY FrontType
<1>9. dist[u] * Pace[robot] \in Nat /\ dist[v] * Pace[robot] \in Nat
  BY <1>4, <1>6, Times
<1>10. CASE Ahead(u, s)
  <2>1. PICK o \in Front : o.at \in DOMAIN dist /\ Estimate(o) <= s + dist[u] * Pace[robot]
    BY <1>10 DEF Ahead
  <2> DEFINE hu == dist[u] * Pace[robot]
             hv == dist[v] * Pace[robot]
  <2>2. /\ Estimate(o) \in Nat /\ hu \in Nat /\ hv \in Nat
        /\ Estimate(o) <= s + hu /\ s + hu <= t + hv
    BY <1>7, <1>8, <1>9, <2>1
  <2> HIDE DEF hu, hv
  <2>3. Estimate(o) <= t + hv
    BY <1>2, <1>5, <2>2
  <2> QED  BY <1>6, <2>1, <2>3 DEF Ahead, hv
<1>11. CASE Reached(u, s) /\ [at |-> u, time |-> best[u]] \in Front
  <2> DEFINE o == [at |-> u, time |-> best[u]]
             hu == dist[u] * Pace[robot]
             hv == dist[v] * Pace[robot]
  <2>1. Estimate(o) = best[u] + hu /\ best[u] <= s /\ best[u] \in Nat
    BY <1>1, <1>11 DEF Estimate, Reached
  <2>2. hu \in Nat /\ hv \in Nat /\ s + hu <= t + hv
    BY <1>7, <1>9
  <2>3. o \in Front /\ o.at \in DOMAIN dist
    BY <1>6, <1>11
  <2> HIDE DEF hu, hv, o
  <2>4. Estimate(o) <= t + hv
    BY <1>2, <1>5, <2>1, <2>2
  <2> QED  BY <1>6, <2>3, <2>4 DEF Ahead, hv
<1>12. CASE Reached(u, s) /\ Expanded(u)
  <2>1. best[u] <= dep
    BY <1>1, <1>3, <1>5, <1>12 DEF Reached
  <2>2. SafeGiven(edges, parks, robot, e, dep)
    BY <1>2, SafeIsSafe
  <2>3. e[1] = u /\ e[2] = v
    OBVIOUS
  <2>4. best[v] # NoLabel /\ best[v] <= dep + Duration(robot, e)
    BY <1>2, <1>5, <1>12, <2>1, <2>2, <2>3 DEF Expanded
  <2> QED  BY <1>5, <1>6, <2>4 DEF Reached
<1>13. Reached(u, s) \/ Ahead(u, s)
  BY <1>6
<1> QED  BY <1>1, <1>10, <1>11, <1>12, <1>13 DEF Reached

(* A walk has an end to each side.                                         *)
LEMMA WalkType ==
    ASSUME NEW w \in WalksToGoal
    PROVE  /\ Len(w) \in Nat \ {0} /\ w \in [1 .. Len(w) -> Vertices]
           /\ w[1] = Last(route) /\ w[Len(w)] = Head(togo)
<1>1. PICK n \in 1 .. MaxVisits : w \in [1 .. n -> Vertices]
  BY DEF WalksToGoal
<1>2. n \in Nat \ {0}
  BY BoundsAssumption
<1>3. w \in Seq(Vertices) /\ Len(w) = n
  BY <1>1, <1>2
<1> QED  BY <1>1, <1>2, <1>3 DEF WalksToGoal

(* So of every walk: whenever the robot can be at the goal, the goal is    *)
(* labelled by then, or an entry is waiting with no later an estimate.     *)
LEMMA AlongWalk ==
    ASSUME EarliestInv, leg # "none", NEW w \in WalksToGoal, NEW t \in ArrivalsOver(w)
    PROVE  Reached(Head(togo), t) \/ Ahead(Head(togo), t)
<1>1. /\ Len(w) \in Nat \ {0} /\ w \in [1 .. Len(w) -> Vertices]
      /\ w[1] = Last(route) /\ w[Len(w)] = Head(togo)
  BY WalkType
<1>2. /\ LastTime(route) \in Nat /\ Last(route) \in Vertices
      /\ best[Last(route)] = LastTime(route)
      /\ Head(togo) \in DOMAIN dist
  BY EndType DEF EarliestInv, SearchInv, TypeOK, LabelInv, FrontInv, Consistent
<1>3. PICK at : Arriving(at, w) /\ ArrivalsOver(w) = at[Len(w)]
  BY <1>1, <1>2, ArrivingExists
<1> DEFINE N == Len(w) - 1
           Fine(i) == w[i] \in DOMAIN dist => \A s \in at[i] : Reached(w[i], s) \/ Ahead(w[i], s)
           S == {n \in 0 .. N : Fine(n + 1)}
<1>4. N \in Nat
  BY <1>1
<1>5. 0 \in S
  <2>1. \A s \in at[1] : Reached(w[1], s)
    BY <1>1, <1>2, <1>3 DEF Arriving, Reached, NoLabel
  <2>2. Fine(0 + 1)
    BY <2>1
  <2> HIDE DEF Fine
  <2> QED  BY <1>4, <2>2
<1>6. ASSUME NEW n \in 1 .. N, n - 1 \in S PROVE n \in S
  <2>1. /\ n \in 1 .. Len(w) - 1 /\ n \in 1 .. Len(w) /\ n + 1 \in 1 .. Len(w)
        /\ (n - 1) + 1 = n /\ n \in 0 .. N
    BY <1>4
  <2>2. at[n + 1] = Onward(<<w[n], w[n + 1]>>, at[n]) /\ at[n] \in SUBSET Nat
    BY <1>3, <2>1 DEF Arriving
  <2>3. Fine(n)
    <3> HIDE DEF Fine
    <3> QED  BY <1>6, <2>1
  <2>4. w[n] \in Vertices /\ w[n + 1] \in Vertices
    BY <1>1, <2>1
  <2>5. ASSUME w[n + 1] \in DOMAIN dist, NEW s \in at[n + 1]
        PROVE  Reached(w[n + 1], s) \/ Ahead(w[n + 1], s)
    BY <2>2, <2>3, <2>4, <2>5, OnwardStep
  <2>6. Fine(n + 1)
    BY <2>5
  <2> HIDE DEF Fine
  <2> QED  BY <2>1, <2>6
<1>7. Fine(Len(w))
  <2> HIDE DEF S
  <2>1. \A n \in 0 .. N : n \in S
    BY <1>4, <1>5, <1>6, UpTo
  <2>2. N \in 0 .. N /\ N + 1 = Len(w)
    BY <1>1, <1>4
  <2>3. N \in S
    BY <2>1, <2>2
  <2> HIDE DEF Fine
  <2> QED  BY <2>2, <2>3 DEF S
<1> QED  BY <1>1, <1>2, <1>3, <1>7

(* The goal that is found is the earliest.                                 *)
LEMMA NoneEarlier ==
    ASSUME EarliestInv, leg = "trace", NEW t \in PossibleArrivals
    PROVE  best[Head(togo)] <= t
<1>1. PICK w \in WalksToGoal : t \in ArrivalsOver(w)
  BY DEF PossibleArrivals
<1>2. Reached(Head(togo), t) \/ Ahead(Head(togo), t)
  BY <1>1, AlongWalk
<1>3. CASE Reached(Head(togo), t)
  BY <1>3 DEF Reached
<1>4. CASE Ahead(Head(togo), t)
  <2>1. PICK o \in Front : o.at \in DOMAIN dist
                           /\ Estimate(o) <= t + dist[Head(togo)] * Pace[robot]
    BY <1>4 DEF Ahead
  <2>2. best[Head(togo)] <= Estimate(o) /\ Estimate(o) \in Nat
    BY <2>1, FrontType DEF EarliestInv, FirstInv
  <2>3. best[Head(togo)] \in Nat
    <3> DEFINE g == [at |-> Head(togo), time |-> best[Head(togo)]]
    <3>1. g \in Front
      BY DEF Front
    <3>2. g.time \in Nat
      <4> HIDE DEF g
      <4> QED  BY <3>1, FrontType
    <3> QED  BY <3>2
  <2>4. Pace[robot] \in Nat /\ dist[Head(togo)] = 0 /\ t \in Nat
    <3>1. robot \in Robots
      BY DEF EarliestInv, SearchInv, TypeOK
    <3>2. Len(w) \in Nat \ {0} /\ LastTime(route) \in Nat
      BY WalkType, EndType DEF EarliestInv, SearchInv, TypeOK
    <3>3. PICK at : Arriving(at, w) /\ ArrivalsOver(w) = at[Len(w)]
      BY <3>2, ArrivingExists
    <3>4. t \in Nat
      BY <1>1, <3>2, <3>3 DEF Arriving
    <3> QED  BY <3>1, <3>4, RoadmapAssumption DEF EarliestInv, FrontInv, Consistent
  <2>5. t + dist[Head(togo)] * Pace[robot] = t
    BY <2>4
  <2>6. Estimate(o) <= t
    BY <2>1, <2>5
  <2> QED  BY <2>2, <2>3, <2>4, <2>6
<1> QED  BY <1>2, <1>3, <1>4

(* An exhausted search has left nothing out.                               *)
LEMMA NoneLeftOut ==
    ASSUME EarliestInv, leg = "open", open = {}
    PROVE  PossibleArrivals = {}
<1> SUFFICES ASSUME NEW w \in WalksToGoal, NEW t \in ArrivalsOver(w)
             PROVE  FALSE
  BY DEF PossibleArrivals
<1>1. Front = {}
  BY DEF Front
<1>2. Reached(Head(togo), t)
  BY <1>1, AlongWalk DEF Ahead
<1>3. Head(togo) \in Vertices
  <2>1. Len(w) \in Nat \ {0} /\ w \in [1 .. Len(w) -> Vertices] /\ w[Len(w)] = Head(togo)
    BY WalkType
  <2> QED  BY <2>1
<1> QED  BY <1>1, <1>2, <1>3 DEF EarliestInv, FrontInv, Reached

(* There is no walk from where the goal is not to be reached from.         *)
LEMMA NoneFromAfar ==
    ASSUME EarliestInv, robot # NoRobot, togo # <<>>,
           Last(route) \notin DOMAIN Distances(Head(togo))
    PROVE  PossibleArrivals = {}
<1> DEFINE d == Distances(Head(togo))
<1> SUFFICES ASSUME NEW w \in WalksToGoal, NEW t \in ArrivalsOver(w)
             PROVE  Last(route) \in DOMAIN d
  BY DEF PossibleArrivals
<1>1. /\ Len(w) \in Nat \ {0} /\ w \in [1 .. Len(w) -> Vertices]
      /\ w[1] = Last(route) /\ w[Len(w)] = Head(togo)
  BY WalkType
<1>2. LastTime(route) \in Nat
  BY EndType DEF EarliestInv, SearchInv, TypeOK
<1>3. PICK at : Arriving(at, w) /\ ArrivalsOver(w) = at[Len(w)]
  BY <1>1, <1>2, ArrivingExists
<1>4. Head(togo) \in Vertices
  BY <1>1
<1>5. Consistent(d, Head(togo))
  BY <1>4, DistancesConsistent
<1> HIDE DEF d
<1> DEFINE N == Len(w) - 1
           From(i) == w[i] \in DOMAIN d /\ at[i] # {} => w[1] \in DOMAIN d
           S == {n \in 0 .. N : From(n + 1)}
<1>6. N \in Nat
  BY <1>1
<1>7. 0 \in S
  <2>1. From(0 + 1)
    OBVIOUS
  <2> HIDE DEF From
  <2> QED  BY <1>6, <2>1
<1>8. ASSUME NEW n \in 1 .. N, n - 1 \in S PROVE n \in S
  <2>1. n \in 1 .. Len(w) - 1 /\ (n - 1) + 1 = n /\ n \in 0 .. N
    BY <1>6
  <2>2. at[n + 1] = Onward(<<w[n], w[n + 1]>>, at[n])
    BY <1>3, <2>1 DEF Arriving
  <2>3. From(n)
    <3> HIDE DEF From
    <3> QED  BY <1>8, <2>1
  <2>4. ASSUME w[n + 1] \in DOMAIN d, NEW s \in at[n + 1]
        PROVE  w[n] \in DOMAIN d /\ at[n] # {}
    <3>1. <<w[n], w[n + 1]>> \in Free /\ at[n] # {}
      BY <2>2, <2>4 DEF Onward, Possible
    <3> QED  BY <1>5, <2>4, <3>1 DEF Consistent
  <2>5. From(n + 1)
    BY <2>3, <2>4
  <2> HIDE DEF From
  <2> QED  BY <2>1, <2>5
<1>9. From(Len(w))
  <2> HIDE DEF S
  <2>1. \A n \in 0 .. N : n \in S
    BY <1>6, <1>7, <1>8, UpTo
  <2>2. N \in 0 .. N /\ N + 1 = Len(w)
    BY <1>1, <1>6
  <2>3. N \in S
    BY <2>1, <2>2
  <2> HIDE DEF From
  <2> QED  BY <2>2, <2>3 DEF S
<1>10. Head(togo) \in DOMAIN d
  BY <1>5 DEF Consistent
<1> QED  BY <1>1, <1>3, <1>9, <1>10

(* What is read back is one of the ways there are.                         *)
LEMMA FoundPossible ==
    ASSUME EarliestInv, leg = "trace", cursor = Last(route)
    PROVE  FoundIsPossible
<1>1. /\ path \in Seq([at : Vertices, time : Nat]) /\ Len(path) \in Nat
      /\ Last(route) \in Vertices /\ LastTime(route) \in Nat
      /\ best[cursor] = LastTime(route) /\ robot \in Robots
  BY EndType DEF EarliestInv, SearchInv, TypeOK, LabelInv
<1> DEFINE first == [at |-> Last(route), time |-> LastTime(route)]
<1>2. /\ Found[1] = first
      /\ \A i \in 1 .. Len(path) : Found[i + 1] = path[i]
  <2>1. <<first>> \in Seq([at : Vertices, time : Nat]) /\ Len(<<first>>) = 1 /\ <<first>>[1] = first
    BY <1>1
  <2> HIDE DEF first
  <2>2. PICK s : s = <<first>>
    OBVIOUS
  <2>3. /\ \A i \in 1 .. Len(s) : (s \o path)[i] = s[i]
        /\ \A i \in 1 .. Len(path) : (s \o path)[Len(s) + i] = path[i]
    BY <1>1, <2>1, <2>2, Joined
  <2>4. Found = s \o path
    BY <2>2 DEF Found, first
  <2>5. \A i \in 1 .. Len(path) : Len(s) + i = i + 1
    BY <1>1, <2>1, <2>2
  <2> QED  BY <2>1, <2>2, <2>3, <2>4, <2>5
<1>3. ASSUME NEW i \in 1 .. Len(path)
      PROVE  /\ <<Found[i].at, Found[i + 1].at>> \in Free
             /\ StepOk(edges, parks, robot, Found[i].at, Found[i].time,
                       Found[i + 1].at, Found[i + 1].time)
  <2>1. CASE i = 1
    <3>1. path # <<>>
      BY <1>1, <1>3
    <3>2. /\ <<cursor, path[1].at>> \in Free
          /\ StepOk(edges, parks, robot, cursor, best[cursor], path[1].at, path[1].time)
      BY <3>1 DEF EarliestInv, SearchInv, TraceInv, FreeInv
    <3>3. Found[1].at = cursor /\ Found[1].time = best[cursor] /\ Found[1 + 1] = path[1]
      BY <1>1, <1>2, <1>3, <2>1
    <3> QED  BY <2>1, <3>2, <3>3
  <2>2. CASE i # 1
    <3>1. i - 1 \in 1 .. Len(path) - 1 /\ i - 1 \in 1 .. Len(path) /\ (i - 1) + 1 = i
      BY <1>1, <2>2
    <3>2. Found[i] = path[i - 1] /\ Found[i + 1] = path[i]
      BY <1>2, <3>1
    <3>3. /\ <<path[i - 1].at, path[(i - 1) + 1].at>> \in Free
          /\ StepOk(edges, parks, robot, path[i - 1].at, path[i - 1].time,
                    path[(i - 1) + 1].at, path[(i - 1) + 1].time)
      BY <3>1 DEF EarliestInv, SearchInv, TraceInv, FreeInv, PathOk
    <3> QED  BY <3>1, <3>2, <3>3
  <2> QED  BY <2>1, <2>2
<1>4. ASSUME NEW i \in 1 .. Len(path)
      PROVE  LET e   == <<Found[i].at, Found[i + 1].at>>
                 dep == Found[i + 1].time - Duration(robot, e)
             IN  Possible(e, dep) /\ Found[i].time <= dep
  <2> DEFINE e == <<Found[i].at, Found[i + 1].at>>
             D == Duration(robot, e)
  <2>1. /\ e \in Free /\ SafeGiven(edges, parks, robot, e, Found[i + 1].time - D)
        /\ Found[i].time + D <= Found[i + 1].time
    BY <1>3 DEF StepOk
  <2>2. D \in Nat
    BY <1>1, <2>1, ArcType DEF Free
  <2>3. Found[i].time \in Nat /\ Found[i + 1].time \in Nat
    <3>1. Found[i + 1].time \in Nat
      BY <1>2, PathTimes
    <3>2. CASE i = 1
      BY <1>1, <1>2, <3>1, <3>2
    <3>3. CASE i # 1
      <4>1. i - 1 \in 1 .. Len(path) /\ (i - 1) + 1 = i
        BY <1>1, <3>3
      <4>2. Found[i] = path[i - 1]
        BY <1>2, <4>1
      <4> QED  BY <3>1, <4>1, <4>2, PathTimes
    <3> QED  BY <3>2, <3>3
  <2> HIDE DEF D
  <2>4. Found[i].time <= Found[i + 1].time - D
    BY <2>1, <2>2, <2>3
  <2>5. Possible(e, Found[i + 1].time - D)
    BY <2>1, SafeIsSafe DEF Possible
  <2> QED  BY <2>4, <2>5 DEF D
<1> QED  BY <1>4 DEF FoundIsPossible

(* What the invariant says of a leg that is found or given up.             *)
LEMMA EarliestFound == EarliestInv => LegsEarliest
<1> SUFFICES ASSUME EarliestInv PROVE LegsEarliest
  OBVIOUS
<1>1. ASSUME leg = "trace", cursor = Last(route)
      PROVE  /\ FoundIsPossible
             /\ path # <<>> /\ path[Len(path)].at = Head(togo)
             /\ \A t \in PossibleArrivals : path[Len(path)].time <= t
  <2>1. Head(togo) # Last(route)
    BY <1>1 DEF EarliestInv, FrontInv
  <2>2. path # <<>> /\ path[Len(path)] = [at |-> Head(togo), time |-> best[Head(togo)]]
    BY <1>1, <2>1 DEF EarliestInv, PathEnds
  <2> QED  BY <1>1, <2>2, FoundPossible, NoneEarlier
<1>2. ASSUME GivesUp PROVE PossibleArrivals = {}
  BY <1>2, NoneLeftOut, NoneFromAfar DEF GivesUp
<1> QED  BY <1>1, <1>2 DEF LegsEarliest

(* For every roadmap, fleet and request, and whatever is reserved: the     *)
(* leg that is found is one that can be driven, and none that can arrives  *)
(* earlier; and where a leg is given up, there is none (search_leg).       *)
THEOREM LegsAreEarliest == Spec => []LegsEarliest
BY EarliestInit, EarliestNext, EarliestFound, PTL DEF Spec
=============================================================================

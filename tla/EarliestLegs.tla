---------------------------- MODULE EarliestLegs ----------------------------
(***************************************************************************)
(* What the search of a leg is to find: of all walks over free segments    *)
(* and all moments to leave at, those free of every conflict, the earliest *)
(* to arrive.                                                              *)
(***************************************************************************)
EXTENDS PrioritySearch

CONSTANTS
    Horizon,       \* bound: later arrivals are not looked at
    MaxVisits      \* bound: longer walks are not looked at

ASSUME BoundsAssumption == Horizon \in Nat /\ MaxVisits \in Nat

\* leaving at dep, robot may drive from one visit to the next
Possible(e, dep) == e \in Free /\ Safe(robot, e, dep)

-----------------------------------------------------------------------------
(* Every way to the goal. *)

WalksToGoal ==
    {w \in UNION {[1 .. n -> Vertices] : n \in 1 .. MaxVisits} :
        w[1] = Last(route) /\ w[Len(w)] = Head(togo)}

\* when the robot can be at the end of a segment it can reach at these times
Onward(e, times) ==
    {t \in 0 .. Horizon :
        /\ Possible(e, t - Duration(robot, e))
        /\ \E s \in times : s <= t - Duration(robot, e)}

ArrivalsOver(w) ==
    LET at[i \in 1 .. Len(w)] ==
            IF i = 1 THEN {LastTime(route)} ELSE Onward(<<w[i - 1], w[i]>>, at[i - 1])
    IN  at[Len(w)]

PossibleArrivals == UNION {ArrivalsOver(w) : w \in WalksToGoal}

-----------------------------------------------------------------------------
(* The one that is found. *)

Found == <<[at |-> Last(route), time |-> LastTime(route)]>> \o path

FoundIsPossible ==
    \A i \in 1 .. Len(path) :
        LET e   == <<Found[i].at, Found[i + 1].at>>
            dep == Found[i + 1].time - Duration(robot, e)
        IN  Possible(e, dep) /\ Found[i].time <= dep

GivesUp ==
    /\ robot # NoRobot /\ togo # <<>> /\ Head(togo) # Last(route)
    /\ \/ leg = "open" /\ open = {}
       \/ leg = "none" /\ Last(route) \notin DOMAIN Distances(Head(togo))

(* The search of a leg finds the earliest arrival there is, and gives up   *)
(* only when there is none (search_leg, earliest_safe_departure).          *)
LegsEarliest ==
    /\ leg = "trace" /\ cursor = Last(route) =>
          /\ FoundIsPossible
          /\ path # <<>> /\ path[Len(path)].at = Head(togo)
          /\ \A t \in PossibleArrivals : path[Len(path)].time <= t
    /\ GivesUp => PossibleArrivals = {}
=============================================================================

--------------------------- MODULE PlanSelfChecks ---------------------------
(***************************************************************************)
(* The checks the planner makes of a draft before it publishes it: the     *)
(* start vertices differ, every handover of a location has its two         *)
(* segments, and no segment waits for itself.  The planner draws its own   *)
(* graph from the draft; the server's compiler (SadgCompiler) draws its    *)
(* graph again from the published plan.  A draft is a plan record.         *)
(***************************************************************************)
EXTENDS SadgCompiler

\* two robots whose plans begin on one vertex
StartCollision(p) ==
    \E r, s \in Robots :
        r # s /\ p.steps[r] # <<>> /\ p.steps[s] # <<>> /\ p.steps[r][1] = p.steps[s][1]

\* the visits of an entry that another robot's visit follows
Retreats(p, e) ==
    LET s == p.visits[e].sequence
    IN  {m \in 1 .. Len(s) - 1 : s[m].robot # s[m + 1].robot}

\* departure of the leading visit -> entry of the following one
Retreat(p, e, m) ==
    LET s == p.visits[e].sequence
    IN  << <<s[m].robot, s[m].index>>, <<s[m + 1].robot, s[m + 1].index - 1>> >>

\* fault: only the following segment is looked for
HasSegmentsFollowing(p, e, m) ==
    /\ p.visits[e].sequence[m + 1].index >= 1
    /\ Retreat(p, e, m)[2] \in Segments(p)

HasSegments(p, e, m) ==
    /\ p.visits[e].sequence[m + 1].index >= 1
    /\ Retreat(p, e, m)[1] \in Segments(p)
    /\ Retreat(p, e, m)[2] \in Segments(p)

NoMissingEdge(p) ==
    \A e \in DOMAIN p.visits : \A m \in Retreats(p, e) : HasSegments(p, e, m)

SegmentEdges(p) ==
    SequentialDeps(p)
        \cup UNION {{Retreat(p, e, m) : m \in {n \in Retreats(p, e) : HasSegments(p, e, n)}} :
                        e \in DOMAIN p.visits}

\* in every set of segments, one waits for none of the set
Acyclic(p) ==
    LET edges == SegmentEdges(p)
    IN  \A X \in SUBSET Segments(p) :
           X # {} => \E x \in X : \A d \in edges : d[2] = x => d[1] \notin X

\* fault: a draft without a single edge to test is refused
PassesTested(p) ==
    /\ ~StartCollision(p) /\ NoMissingEdge(p) /\ Acyclic(p)
    /\ SegmentEdges(p) # {}

\* kOk, or kUntested when there is no edge at all: both are published
Passes(p) == ~StartCollision(p) /\ NoMissingEdge(p) /\ Acyclic(p)

-----------------------------------------------------------------------------
(* What mrs.discrete_plan promises of visit_order, A4 of its schema: an    *)
(* item (robot, index) is that robot's step at that location.              *)
VisitsAreSteps(p) ==
    \A e \in DOMAIN p.visits : \A m \in DOMAIN p.visits[e].sequence :
        LET it == p.visits[e].sequence[m]
        IN  /\ it.robot \in Robots
            /\ it.index \in 0 .. Len(p.steps[it.robot]) - 1
            /\ p.steps[it.robot][it.index + 1] = p.visits[e].location

\* the visits of one robot stand in the order of its path
PathOrdered(p) ==
    \A e \in DOMAIN p.visits :
        LET s == p.visits[e].sequence
        IN  \A m, n \in DOMAIN s :
               m < n /\ s[m].robot = s[n].robot => s[m].index < s[n].index

ListsVisits(p) == VisitsAreSteps(p) /\ PathOrdered(p) /\ CoversSharedVisits(p)
=============================================================================

--------------------------- MODULE SadgExecution ---------------------------
(***************************************************************************)
(* sadg_t0_node: the server side of execution.  It compiles every discrete *)
(* plan into an execution graph, drains the robots' entry events and stop  *)
(* declarations once per control tick, recomputes the release bits and     *)
(* publishes them, per robot, on a latched topic.  A plan may come at any  *)
(* time, whatever the robots are doing and wherever it has them start.     *)
(* The robots and the transport are external: a robot may leave the        *)
(* location it stands on at any time, and enters the next one only on a    *)
(* release bit published for the constraints it has adopted.               *)
(***************************************************************************)
EXTENDS SadgCompiler, FiniteSets

CONSTANTS
    Start,          \* where each robot stands before the first plan
    Plans,          \* the discrete plans the planner may publish, in order
    StopEdges,      \* the edges a robot may declare blocked
    MaxLost         \* how many events the entry event channel may drop

ASSUME StartAssumption   == Start \in [Robots -> Vertices]
ASSUME PlansAssumption   == Plans \in Seq(PlanRecords)
ASSUME StopEdgesAssumption == IsFiniteSet(StopEdges)
ASSUME ChannelAssumption == MaxLost \in Nat

VARIABLES
    \* the node: the execution graph and its runtime accounting
    graph, entered, completed, released, blocked, rung,
    \* the node: the escalation policy's memory, which outlives the graph
    policy,
    \* the node: buffers between two ticks, acknowledged events, commit numbers
    pendingStarted, pendingCompleted, pendingBlocked, entryAck,
    commitSeq, activeCommit,
    \* latched topics: /execution_constraints, /{robot}/segment_release
    constraints, releaseTopic,
    \* the robots: their copy of the release, the constraints they adopted,
    \* their index on that plan (-1 on the way to its first location), between
    \* two locations or not, the location they stand on or left last, the one
    \* they stand on or head for, the next event number, the events on their way
    releaseSeen, adopted, idx, moving, at, heads, nextSeq, entryQ,
    \* the planner: the first plan it has not passed yet
    nextPlan,
    \* history, read by the properties only: how the plan in force took over
    drained, anchored,
    \* history: the number of events the channel has dropped
    lost

nodeVars  == <<graph, entered, completed, released, blocked, rung, policy,
               pendingStarted, pendingCompleted, pendingBlocked, entryAck,
               commitSeq, activeCommit, constraints, releaseTopic, nextPlan>>
graphVars == <<graph, entered, completed, released, blocked, rung>>
robotVars == <<releaseSeen, adopted, idx, moving, at, heads, nextSeq, entryQ>>
historyVars == <<drained, anchored, lost>>
vars      == <<nodeVars, robotVars, historyVars>>

-----------------------------------------------------------------------------
None      == -1                      \* no commit number
NoRelease == [commit |-> None, bits |-> {}, ack |-> 0]

\* the plans that compile, what each makes robots wait for, and its graph
Accepted     == {i \in DOMAIN Plans : Outcome(Plans[i]) = "ok"}
Dependencies == [i \in DOMAIN Plans |-> OrderingDeps(Plans[i])]
Compiled     == [i \in DOMAIN Plans |-> CompiledGraph(Plans[i])]

\* the plan in force, and the path a robot follows, perhaps of an older plan
Plan       == Plans[constraints.plan]
Adopted(r) == constraints.commit # None /\ adopted[r] = constraints
Path(r)    == Plans[adopted[r].plan].steps[r]

\* where a robot is on the plan in force, adopted or not
Pos(r) == IF Adopted(r) THEN idx[r] ELSE IF moving[r] THEN -1 ELSE 0

Init ==
    /\ graph = EmptyGraph
    /\ entered = {} /\ completed = {} /\ released = {} /\ blocked = {}
    /\ rung = 0
    /\ policy = [issued |-> {}, count |-> 0, pending |-> FALSE]
    /\ pendingStarted = {} /\ pendingCompleted = {} /\ pendingBlocked = {}
    /\ entryAck = [r \in Robots |-> 0]
    /\ commitSeq = 0 /\ activeCommit = 0
    /\ constraints = [commit |-> None, plan |-> 0]
    /\ releaseTopic = [r \in Robots |-> NoRelease]
    /\ releaseSeen = [r \in Robots |-> NoRelease]
    /\ adopted = [r \in Robots |-> [commit |-> None, plan |-> 0]]
    /\ idx = [r \in Robots |-> 0]
    /\ moving = [r \in Robots |-> FALSE]
    /\ at = Start /\ heads = Start
    /\ nextSeq = [r \in Robots |-> 0]
    /\ entryQ = [r \in Robots |-> <<>>]
    /\ nextPlan = 1
    /\ drained = TRUE /\ anchored = FALSE /\ lost = 0

-----------------------------------------------------------------------------
(* How a plan takes over.                                                  *)

\* nothing robots reported on earlier plans is still to be read
Drained ==
    /\ \A r \in Robots : entryQ[r] = <<>>
    /\ pendingStarted = {} /\ pendingCompleted = {}

HeadOn ==
    \E r, s \in Robots :
        r # s /\ moving[r] /\ moving[s] /\ at[r] = heads[s] /\ at[s] = heads[r]

\* plan p starts every robot where it stands or is heading for
Anchored(p) ==
    /\ \A r \in Robots : p.steps[r] # <<>> /\ p.steps[r][1] = heads[r]
    /\ ~HeadOn

(* /discrete_plan.  mrs_mapf publishes on every new assignment and on      *)
(* every Replan goal it accepts, the node reads what it gets; the topic is *)
(* latched with depth 1, so a plan may be overwritten before it is read.   *)

\* fault: a reset that leaves the runtime accounting of the old plan
KeepRuntime == UNCHANGED <<entered, completed, released, blocked, rung>>

ResetRuntime ==
    /\ entered' = {} /\ completed' = {} /\ released' = {} /\ blocked' = {}
    /\ rung' = 0

\* the graph is replaced before it is known whether the plan compiles, and
\* with it everything the old graph held
OnPlan(i) ==
    /\ i >= nextPlan
    /\ nextPlan' = i + 1
    /\ graph' = Compiled[i]
    /\ ResetRuntime
    /\ IF i \in Accepted
       THEN /\ constraints' = [commit |-> commitSeq, plan |-> i]
            /\ activeCommit' = commitSeq
            /\ commitSeq' = commitSeq + 1
            /\ drained' = Drained
            /\ anchored' = Anchored(Plans[i])
       ELSE UNCHANGED <<constraints, activeCommit, commitSeq, drained, anchored>>
    /\ UNCHANGED <<policy, pendingStarted, pendingCompleted, pendingBlocked,
                   entryAck, releaseTopic, robotVars, lost>>

(* /entry_events: the departures and the arrivals go to separate buffers,  *)
(* the acknowledgement only grows.                                         *)
OnEntryEvents(r) ==
    /\ entryQ[r] # <<>>
    /\ LET e == Head(entryQ[r])
       IN  /\ IF e.entered
              THEN /\ pendingCompleted' = pendingCompleted \cup {e.segment}
                   /\ UNCHANGED pendingStarted
              ELSE /\ pendingStarted' = pendingStarted \cup {e.segment}
                   /\ UNCHANGED pendingCompleted
           /\ entryAck' = [entryAck EXCEPT ![r] =
                              IF e.seq + 1 > @ THEN e.seq + 1 ELSE @]
    /\ entryQ' = [entryQ EXCEPT ![r] = Tail(@)]
    /\ UNCHANGED <<graphVars, policy, pendingBlocked, commitSeq, activeCommit,
                   constraints, releaseTopic, nextPlan, historyVars,
                   releaseSeen, adopted, idx, moving, at, heads, nextSeq>>

(* /stop_declaration: an onset adds its edge; a release of the declaration *)
(* and a reason outside the vocabulary change nothing.                     *)
OnStopDeclarations(edge) ==
    /\ pendingBlocked' = pendingBlocked \cup {edge}
    /\ UNCHANGED <<graphVars, policy, pendingStarted, pendingCompleted, entryAck,
                   commitSeq, activeCommit, constraints, releaseTopic, nextPlan,
                   robotVars, historyVars>>

-----------------------------------------------------------------------------
(* The control tick. *)

\* fault: the dependencies are read from their predecessor's side
PermittedBackwards(g, seg, ent, compl) ==
    \A d \in g.ordering :
        d[1] = seg => IF d \in g.opposing THEN d[2] \in compl ELSE d[2] \in ent

\* ReleaseChecker::release_check for one segment: a following predecessor
\* must have left the shared location, an opposing one must have arrived
Permitted(g, seg, ent, compl) ==
    \A d \in g.ordering :
        d[2] = seg => IF d \in g.opposing THEN d[1] \in compl ELSE d[1] \in ent

StepUp(cur) == IF cur < 3 THEN cur + 1 ELSE 3

\* no deficit threshold is configured, so the situation is the blocked count
Situation(blk) == 2 * Cardinality(blk)

\* fault: neither an escalation in progress nor one for the same situation
\* holds the next one back
EscalatesAgain(pol, blk) == blk # {} /\ pol.count < 3

\* PolicyDeficitLadder::decide escalates now
Escalates(pol, blk) ==
    /\ blk # {}
    /\ ~pol.pending
    /\ Situation(blk) \notin pol.issued
    /\ pol.count < 3

\* fault: only the events of this tick count
ForgottenEntered == graph.segments \cap (pendingStarted \cup pendingCompleted)

\* fault: an arrival is taken for a departure
ForgottenCompleted == completed

\* departures and arrivals of segments the graph does not hold are dropped
DrainedEntered   == entered \cup (graph.segments \cap (pendingStarted \cup pendingCompleted))
DrainedCompleted == completed \cup (graph.segments \cap pendingCompleted)

ReleaseBits(g, ent, compl) == {seg \in g.segments : Permitted(g, seg, ent, compl)}

\* a robot without a segment in the graph is not published to
Publishes(g, r) == \E seg \in g.segments : seg[1] = r

OnTick ==
    /\ entered' = DrainedEntered
    /\ completed' = DrainedCompleted
    /\ blocked' = blocked \cup pendingBlocked
    /\ pendingStarted' = {} /\ pendingCompleted' = {} /\ pendingBlocked' = {}
    /\ released' = ReleaseBits(graph, DrainedEntered, DrainedCompleted)
    /\ IF Escalates(policy, blocked \cup pendingBlocked)
       THEN /\ rung' = StepUp(rung)
            /\ policy' = [issued  |-> policy.issued \cup
                                         {Situation(blocked \cup pendingBlocked)},
                          count   |-> policy.count + 1,
                          pending |-> TRUE]
       ELSE UNCHANGED <<rung, policy>>
    /\ releaseTopic' = [r \in Robots |->
          IF Publishes(graph, r)
          THEN [commit |-> activeCommit,
                bits   |-> {seg \in released' : seg[1] = r},
                ack    |-> entryAck[r]]
          ELSE releaseTopic[r]]
    /\ UNCHANGED <<graph, entryAck, commitSeq, activeCommit, constraints,
                   nextPlan, robotVars, historyVars>>

-----------------------------------------------------------------------------
(* The transport and the robots (external). *)

\* the latched release of a robot reaches it, older ones are overwritten
DeliverRelease(r) ==
    /\ releaseSeen' = [releaseSeen EXCEPT ![r] = releaseTopic[r]]
    /\ UNCHANGED <<nodeVars, adopted, idx, moving, at, heads, nextSeq, entryQ,
                   historyVars>>

\* the latched constraints reach a robot, which may be between two locations
Adopt(r) ==
    /\ constraints.commit # None /\ ~Adopted(r)
    /\ adopted' = [adopted EXCEPT ![r] = constraints]
    /\ idx' = [idx EXCEPT ![r] = IF moving[r] THEN -1 ELSE 0]
    /\ UNCHANGED <<nodeVars, releaseSeen, moving, at, heads, nextSeq, entryQ,
                   historyVars>>

\* a robot that follows an older plan reports on segments of that plan, under
\* names the plan in force may use for other segments
Emit(r, ent) ==
    /\ entryQ' = [entryQ EXCEPT ![r] =
          Append(@, [seq |-> nextSeq[r], segment |-> <<r, idx[r]>>, entered |-> ent])]
    /\ nextSeq' = [nextSeq EXCEPT ![r] = @ + 1]
    /\ drained' = (drained /\ Adopted(r))

\* nothing forbids to leave: a bit closes the arrival location, not the start
Depart(r) ==
    /\ adopted[r].commit # None
    /\ ~moving[r] /\ idx[r] + 1 < Len(Path(r))
    /\ moving' = [moving EXCEPT ![r] = TRUE]
    /\ heads' = [heads EXCEPT ![r] = Path(r)[idx[r] + 2]]
    /\ Emit(r, FALSE)
    /\ UNCHANGED <<nodeVars, releaseSeen, adopted, idx, at, anchored, lost>>

\* a release for other constraints than the adopted ones reads as closed
MayEnter(r) ==
    /\ releaseSeen[r].commit = adopted[r].commit
    /\ <<r, idx[r]>> \in releaseSeen[r].bits

Entered(r) ==
    /\ moving' = [moving EXCEPT ![r] = FALSE]
    /\ idx' = [idx EXCEPT ![r] = @ + 1]
    /\ at' = [at EXCEPT ![r] = heads[r]]

Arrive(r) ==
    /\ moving[r] /\ idx[r] >= 0
    /\ MayEnter(r)
    /\ Entered(r)
    /\ Emit(r, TRUE)
    /\ UNCHANGED <<nodeVars, releaseSeen, adopted, heads, anchored, lost>>

\* a move begun under an older plan ends where the adopted one starts: there
\* is no segment to wait for or to report on; anywhere else nothing lets it in
ArriveAtStart(r) ==
    /\ moving[r] /\ idx[r] = -1
    /\ Path(r) # <<>> /\ Path(r)[1] = heads[r]
    /\ Entered(r)
    /\ UNCHANGED <<nodeVars, releaseSeen, adopted, heads, nextSeq, entryQ,
                   historyVars>>

LoseEvent(r) ==
    /\ lost < MaxLost /\ entryQ[r] # <<>>
    /\ lost' = lost + 1
    /\ entryQ' = [entryQ EXCEPT ![r] = Tail(@)]
    /\ UNCHANGED <<nodeVars, releaseSeen, adopted, idx, moving, at, heads, nextSeq,
                   drained, anchored>>

-----------------------------------------------------------------------------
Move(r) == Depart(r) \/ Arrive(r) \/ ArriveAtStart(r)

Robot(r) == OnEntryEvents(r) \/ DeliverRelease(r) \/ Adopt(r) \/ Move(r)

Next == \/ OnTick
        \/ \E i \in DOMAIN Plans : OnPlan(i)
        \/ \E edge \in StopEdges : OnStopDeclarations(edge)
        \/ \E r \in Robots : Robot(r) \/ LoseEvent(r)

Spec == Init /\ [][Next]_vars

(* The node's executor serves every waiting callback and its timer; the    *)
(* transport delivers; a robot that may move does.  Nothing makes the      *)
(* planner publish or an edge block.                                       *)
Fairness == /\ WF_vars(OnTick)
            /\ \A r \in Robots : /\ WF_vars(OnEntryEvents(r))
                                 /\ WF_vars(DeliverRelease(r))
                                 /\ WF_vars(Adopt(r))
                                 /\ WF_vars(Move(r))

FairSpec == Spec /\ Fairness

-----------------------------------------------------------------------------
(* What the robots have done on the plan in force.                         *)
HasStarted(seg)   == Pos(seg[1]) > seg[2] \/ (Pos(seg[1]) = seg[2] /\ moving[seg[1]])
HasCompleted(seg) == Pos(seg[1]) > seg[2]

Segs    == Robots \X Nat
Release == [commit : Nat \cup {None}, bits : SUBSET Segs, ack : Nat]
Event   == [seq : Nat, segment : Segs, entered : BOOLEAN]

(* The types of the node's and the robots' state; the accounting never     *)
(* names a segment the graph does not hold.                                *)
TypeOK ==
    /\ graph \in [segments : SUBSET Segs, sequential : SUBSET (Segs \X Segs),
                  ordering : SUBSET (Segs \X Segs), opposing : SUBSET (Segs \X Segs)]
    /\ entered \in SUBSET graph.segments /\ released \in SUBSET graph.segments
    /\ completed \in SUBSET entered
    /\ blocked \in SUBSET StopEdges /\ pendingBlocked \in SUBSET StopEdges
    /\ rung \in 0 .. 3
    /\ policy \in [issued : SUBSET Nat, count : 0 .. 3, pending : BOOLEAN]
    /\ pendingStarted \in SUBSET Segs /\ pendingCompleted \in SUBSET Segs
    /\ entryAck \in [Robots -> Nat]
    /\ commitSeq \in Nat /\ activeCommit \in Nat
    /\ constraints \in [commit : Nat \cup {None}, plan : Nat]
    /\ releaseTopic \in [Robots -> Release] /\ releaseSeen \in [Robots -> Release]
    /\ adopted \in [Robots -> [commit : Nat \cup {None}, plan : Nat]]
    /\ idx \in [Robots -> Nat \cup {-1}] /\ moving \in [Robots -> BOOLEAN]
    /\ at \in [Robots -> Vertices] /\ heads \in [Robots -> Vertices]
    /\ nextSeq \in [Robots -> Nat]
    /\ entryQ \in [Robots -> Seq(Event)]
    /\ drained \in BOOLEAN /\ anchored \in BOOLEAN /\ lost \in 0 .. MaxLost
    /\ nextPlan \in Nat

(* A bit a robot reads for the constraints in force is backed by what the  *)
(* robots have really done: every following predecessor has left and every *)
(* opposing one has arrived.                                               *)
BitsTrue ==
    \A r \in Robots :
        constraints.commit # None /\ releaseSeen[r].commit = constraints.commit
        => \A d \in Dependencies[constraints.plan] :
              d[2] \in releaseSeen[r].bits
              => IF IsOpposing(Plan, d) THEN HasCompleted(d[1]) ELSE HasStarted(d[1])

Apart == \A r, s \in Robots : r # s /\ ~moving[r] /\ ~moving[s] => at[r] # at[s]

(* The bits of a plan that found nothing of an earlier plan to be read,    *)
(* and gets nothing of it later, are true, wherever it has the robots      *)
(* start, whether they stand or move, and whatever comes after it.         *)
ReleaseSound == drained => BitsTrue

(* Two robots never stand on one location when, besides, the plan in force *)
(* started every robot where it stood or was heading for: then the bits of *)
(* the server, computed from delayed events and read from delayed          *)
(* messages, keep the fleet apart, however the plans before took over and  *)
(* whatever is lost or rejected meanwhile.                                 *)
VertexExclusion == drained /\ anchored => Apart

(* Nor do they meet head on between two locations. *)
NoHeadOn == drained /\ anchored => ~HeadOn

(* Where a plan starts the robots does not matter to their staying apart   *)
(* (assignment.schema.json says so of a stale start).                      *)
ApartFromAnyStart == drained => Apart

(* When no event is lost and the published acknowledgement covers every    *)
(* event a robot has sent, the graph behind it knows every move of the     *)
(* robot (A31 of the segment_release schema).                              *)
AckReflected ==
    \A r \in Robots :
        /\ lost = 0
        /\ Publishes(graph, r)
        /\ releaseTopic[r].commit = activeCommit
        /\ releaseTopic[r].ack = nextSeq[r]
        => \A seg \in graph.segments :
              seg[1] = r => /\ HasStarted(seg)   => seg \in entered
                            /\ HasCompleted(seg) => seg \in completed

(* The server never asks for a partial replan: nothing tells the policy    *)
(* that its first escalation was carried out, so it stays on the first     *)
(* rung, and only while an edge is blocked in the graph.                   *)
NeverPartialReplan == rung <= 1 /\ (rung = 1 => blocked # {} /\ policy.pending)

(* A bit published open is not taken back under the same commit number     *)
(* (A28 of the segment_release schema).                                    *)
ReleaseStable ==
    [][\A r \in Robots :
          releaseTopic'[r].commit = releaseTopic[r].commit
          => releaseTopic[r].bits \subseteq releaseTopic'[r].bits]_vars

\* the server, the messages and the robots' copies are invisible there
Discipline == INSTANCE VisitOrder WITH
                 plan     <- constraints.plan,
                 pos      <- [r \in Robots |-> Pos(r)],
                 settled  <- drained

(* Delayed events, latched releases, plans that come while robots move or  *)
(* start them elsewhere, adoption of constraints one by one and rejected   *)
(* plans included, the fleet does nothing the plan in force would not let  *)
(* it do if every robot saw every other: a robot enters a location when    *)
(* all visits the plan puts before its own are over.                       *)
VisitOrderKept == Discipline!Spec

FleetFinished ==
    \A r \in Robots : Adopted(r) /\ ~moving[r] /\ idx[r] + 1 = Len(Path(r))

\* nothing of another plan has got in the way of the one in force
Undisturbed == drained /\ anchored /\ lost = 0 /\ graph = Compiled[constraints.plan]

(* A plan that took over in good order is carried out to its last step by  *)
(* every robot, unless another plan replaces it, or is rejected and takes  *)
(* its graph away, or an event is lost.                                    *)
PlanCompletes ==
    \A c \in 0 .. Len(Plans) - 1 :
        (constraints.commit = c /\ Undisturbed)
        ~> (constraints.commit # c \/ ~Undisturbed \/ FleetFinished)
=============================================================================

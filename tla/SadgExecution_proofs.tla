----------------------- MODULE SadgExecution_proofs -----------------------
(***************************************************************************)
(* Proofs about SadgExecution, for every fleet, every set of locations and *)
(* every sequence of plans.                                                *)
(***************************************************************************)
EXTENDS SadgExecution, PlanSelfChecks_proofs, WellFoundedInduction

-----------------------------------------------------------------------------
(* The compiler.                                                           *)

(* An outcome "ok" means that H-cons held and that every entry of the      *)
(* visit order was compiled.                                               *)
LEMMA OutcomeOk ==
    ASSUME NEW p, Outcome(p) = "ok"
    PROVE  HconsOk(p) /\ CompiledEntries(p) = DOMAIN p.visits
BY DEF Outcome

(* The ordering dependencies of a plan connect two of its segments.        *)
LEMMA OrderingType ==
    ASSUME NEW p \in PlanRecords
    PROVE  /\ Segments(p) \subseteq Segs
           /\ OrderingDeps(p) \subseteq Segments(p) \X Segments(p)
<1>1. \A r \in Robots : Len(p.steps[r]) \in Nat
  BY DEF PlanRecords
<1>2. Segments(p) \subseteq Segs
  BY <1>1, SegmentsMember DEF Segs
<1>3. OrderingDeps(p) \subseteq Segments(p) \X Segments(p)
  <2>1. SUFFICES ASSUME NEW e \in CompiledEntries(p), NEW m \in Handovers(p, e)
                 PROVE  Dep(p, e, m) \in Segments(p) \X Segments(p)
    BY DEF OrderingDeps
  <2>2. e \in DOMAIN p.visits /\ e \in 1 .. e
    BY DEF CompiledEntries, PlanRecords
  <2>3. Generates(p, e)
    BY <2>2 DEF CompiledEntries
  <2>4. Dep(p, e, m)[1] \in Segments(p) /\ Dep(p, e, m)[2] \in Segments(p)
    BY <2>3 DEF Generates
  <2> QED
    BY <2>4 DEF Dep
<1> QED
  BY <1>2, <1>3

(* The compiled graph is made of segments, whatever the plan.              *)
LEMMA CompiledGraphType ==
    ASSUME NEW p \in PlanRecords
    PROVE  CompiledGraph(p) \in
               [segments : SUBSET Segs, sequential : SUBSET (Segs \X Segs),
                ordering : SUBSET (Segs \X Segs), opposing : SUBSET (Segs \X Segs)]
<1>1. \A r \in Robots : Len(p.steps[r]) \in Nat
  BY DEF PlanRecords
<1>2. Segments(p) \subseteq Segs
  BY OrderingType
<1>3. SequentialDeps(p) \subseteq Segs \X Segs
  BY <1>1 DEF SequentialDeps, Segs
<1>4. OrderingDeps(p) \subseteq Segs \X Segs
  BY <1>2, OrderingType
<1>5. EmptyGraph \in [segments : SUBSET Segs, sequential : SUBSET (Segs \X Segs),
                      ordering : SUBSET (Segs \X Segs), opposing : SUBSET (Segs \X Segs)]
  BY DEF EmptyGraph
<1> QED
  BY <1>2, <1>3, <1>4, <1>5 DEF CompiledGraph

-----------------------------------------------------------------------------
(* Type correctness.  A robot keeps following whatever constraints it has  *)
(* adopted, so its next location is on the path of one of the plans; a     *)
(* robot that stands is at the head of its last move, with an index.       *)

PlanInForce ==
    /\ constraints.commit < commitSeq
    /\ constraints.commit # None => constraints.plan \in DOMAIN Plans

RobotsOnPlans ==
    \A r \in Robots :
        /\ adopted[r].commit < commitSeq
        /\ adopted[r].commit # None => adopted[r].plan \in DOMAIN Plans
        /\ ~moving[r] => idx[r] # -1 /\ heads[r] = at[r]

TypeInv == TypeOK /\ PlanInForce /\ RobotsOnPlans

(* Every plan has typed paths, and what the module caches of it is its own. *)
LEMMA PlanType ==
    ASSUME NEW i \in DOMAIN Plans
    PROVE  /\ Plans[i] \in PlanRecords /\ i \in Nat
           /\ \A r \in Robots : /\ Plans[i].steps[r] \in Seq(Vertices)
                                /\ Len(Plans[i].steps[r]) \in Nat
           /\ i \in Accepted <=> Outcome(Plans[i]) = "ok"
           /\ Dependencies[i] = OrderingDeps(Plans[i])
           /\ Compiled[i] = CompiledGraph(Plans[i])
<1>1. Plans[i] \in PlanRecords /\ i \in Nat
  BY PlansAssumption
<1>2. \A r \in Robots : /\ Plans[i].steps[r] \in Seq(Vertices)
                        /\ Len(Plans[i].steps[r]) \in Nat
  BY <1>1 DEF PlanRecords
<1>3. i \in Accepted <=> Outcome(Plans[i]) = "ok"
  BY DEF Accepted
<1> QED
  BY <1>1, <1>2, <1>3 DEF Dependencies, Compiled

(* Before the first plan nothing is named and the robots stand at Start.   *)
LEMMA InitTypeInv == Init => TypeInv
<1> SUFFICES ASSUME Init PROVE TypeInv
  OBVIOUS
<1> USE DEF Init
<1>1. TypeOK
  <2>1. lost \in 0 .. MaxLost /\ rung \in 0 .. 3
    BY ChannelAssumption
  <2>2. graph \in [segments : SUBSET Segs, sequential : SUBSET (Segs \X Segs),
                  ordering : SUBSET (Segs \X Segs), opposing : SUBSET (Segs \X Segs)]
    BY DEF EmptyGraph
  <2>3. policy \in [issued : SUBSET Nat, count : 0 .. 3, pending : BOOLEAN]
    OBVIOUS
  <2>4. NoRelease \in Release
    BY DEF NoRelease, Release, None
  <2>5. releaseTopic \in [Robots -> Release] /\ releaseSeen \in [Robots -> Release]
    BY <2>4
  <2>6. [commit |-> None, plan |-> 0] \in [commit : Nat \cup {None}, plan : Nat]
    OBVIOUS
  <2>7. /\ constraints \in [commit : Nat \cup {None}, plan : Nat]
        /\ adopted \in [Robots -> [commit : Nat \cup {None}, plan : Nat]]
    BY <2>6
  <2>8. <<>> \in Seq(Event)
    OBVIOUS
  <2>9. entryQ \in [Robots -> Seq(Event)]
    BY <2>8
  <2>10. at \in [Robots -> Vertices] /\ heads \in [Robots -> Vertices]
    BY StartAssumption
  <2> QED
    BY <2>1, <2>2, <2>3, <2>5, <2>7, <2>9, <2>10 DEF TypeOK
<1>2. PlanInForce /\ RobotsOnPlans
  BY DEF PlanInForce, RobotsOnPlans, None
<1> QED
  BY <1>1, <1>2 DEF TypeInv

(* Whatever changes, these parts only look at these variables.             *)
LEMMA RobotsUntouched ==
    ASSUME PlanInForce, RobotsOnPlans,
           UNCHANGED <<commitSeq, constraints, adopted, idx, moving, at, heads>>
    PROVE  PlanInForce' /\ RobotsOnPlans'
BY DEF PlanInForce, RobotsOnPlans

(* A plan replaces the graph and its accounting together, so that neither  *)
(* outlives the other; the robots do not notice yet.                       *)
LEMMA OnPlanTypeInv ==
    ASSUME TypeInv, NEW i \in DOMAIN Plans, OnPlan(i)
    PROVE  TypeInv'
<1> USE DEF TypeInv
<1>1. i \in Nat /\ UNCHANGED <<releaseSeen, adopted, idx, moving, at, heads, nextSeq, entryQ>>
  BY PlanType DEF OnPlan, robotVars
<1>2. graph' \in [segments : SUBSET Segs, sequential : SUBSET (Segs \X Segs),
                  ordering : SUBSET (Segs \X Segs), opposing : SUBSET (Segs \X Segs)]
  BY PlanType, CompiledGraphType DEF OnPlan
<1>3. commitSeq \in Nat
  BY DEF TypeOK
<1>4. CASE i \in Accepted
  <2>1. /\ constraints' = [commit |-> commitSeq, plan |-> i]
        /\ activeCommit' = commitSeq /\ commitSeq' = commitSeq + 1
        /\ drained' = Drained /\ anchored' = Anchored(Plans[i])
    BY <1>4 DEF OnPlan
  <2>2. drained' \in BOOLEAN
    BY <2>1 DEF Drained
  <2>3. anchored' \in BOOLEAN
    BY <2>1 DEF Anchored
  <2>4. constraints' \in [commit : Nat \cup {None}, plan : Nat]
        /\ activeCommit' \in Nat /\ commitSeq' \in Nat
    BY <1>1, <1>3, <2>1
  <2>5. TypeOK'
    BY <1>1, <1>2, <2>2, <2>3, <2>4 DEF OnPlan, ResetRuntime, TypeOK
  <2>6. PlanInForce' /\ RobotsOnPlans'
    <3>1. \A r \in Robots : adopted[r].commit \in Nat \cup {None}
      BY DEF TypeOK
    <3>2. PlanInForce'
      BY <1>3, <2>1 DEF PlanInForce
    <3>3. \A r \in Robots : adopted[r].commit < commitSeq + 1
      BY <1>3, <3>1 DEF RobotsOnPlans, None
    <3> QED
      BY <1>1, <2>1, <3>2, <3>3 DEF RobotsOnPlans
  <2> QED
    BY <2>5, <2>6
<1>5. CASE i \notin Accepted
  <2>1. UNCHANGED <<constraints, activeCommit, commitSeq, drained, anchored>>
    BY <1>5 DEF OnPlan
  <2>2. TypeOK'
    BY <1>1, <1>2, <2>1 DEF OnPlan, ResetRuntime, TypeOK
  <2> QED
    BY <1>1, <2>1, <2>2, RobotsUntouched
<1> QED
  BY <1>4, <1>5

(* The node's other handlers keep to the graph they find.                  *)
LEMMA NodeTypeInv ==
    ASSUME TypeInv,
           \/ OnTick
           \/ \E edge \in StopEdges : OnStopDeclarations(edge)
           \/ \E r \in Robots : OnEntryEvents(r)
    PROVE  TypeInv'
<1> USE DEF TypeInv
<1>1. CASE OnTick
  <2>1. UNCHANGED <<commitSeq, constraints, adopted, idx, moving, at, heads>>
    BY <1>1 DEF OnTick, robotVars
  <2>2. DrainedEntered \in SUBSET graph.segments /\ DrainedCompleted \in SUBSET DrainedEntered
    BY DEF DrainedEntered, DrainedCompleted, TypeOK
  <2>3. released' \in SUBSET graph.segments /\ released' \in SUBSET Segs
    BY <1>1 DEF OnTick, ReleaseBits, TypeOK
  <2>4. releaseTopic' \in [Robots -> Release]
    BY <1>1, <2>3 DEF OnTick, TypeOK, Release
  <2>5. blocked' \in SUBSET StopEdges
    BY <1>1 DEF OnTick, TypeOK
  <2>6. rung' \in 0 .. 3 /\ policy' \in [issued : SUBSET Nat, count : 0 .. 3, pending : BOOLEAN]
    <3>1. Situation(blocked \cup pendingBlocked) \in Nat
      <4>1. IsFiniteSet(blocked \cup pendingBlocked)
        BY StopEdgesAssumption, FS_Subset DEF TypeOK
      <4> QED
        BY <4>1, FS_CardinalityType DEF Situation
    <3>2. rung' \in 0 .. 3
      BY <1>1 DEF OnTick, StepUp, TypeOK
    <3>3. CASE Escalates(policy, blocked \cup pendingBlocked)
      <4>1. policy.issued \in SUBSET Nat /\ policy.count \in 0 .. 3 /\ policy.count < 3
        BY <3>3 DEF Escalates, TypeOK
      <4>2. policy' = [issued  |-> policy.issued \cup
                                     {Situation(blocked \cup pendingBlocked)},
                       count   |-> policy.count + 1,
                       pending |-> TRUE]
        BY <1>1, <3>3 DEF OnTick
      <4>3. policy.count + 1 \in 0 .. 3
        BY <4>1
      <4> QED
        BY <3>1, <3>2, <4>1, <4>2, <4>3
    <3>4. CASE ~Escalates(policy, blocked \cup pendingBlocked)
      BY <1>1, <3>2, <3>4 DEF OnTick, TypeOK
    <3> QED
      BY <3>3, <3>4
  <2>7. TypeOK'
    BY <1>1, <2>2, <2>3, <2>4, <2>5, <2>6 DEF OnTick, robotVars, historyVars, TypeOK
  <2> QED
    BY <2>1, <2>7, RobotsUntouched
<1>2. CASE \E edge \in StopEdges : OnStopDeclarations(edge)
  <2>1. UNCHANGED <<commitSeq, constraints, adopted, idx, moving, at, heads>>
    BY <1>2 DEF OnStopDeclarations, robotVars
  <2>2. TypeOK'
    BY <1>2 DEF OnStopDeclarations, graphVars, robotVars, historyVars, TypeOK
  <2> QED
    BY <2>1, <2>2, RobotsUntouched
<1>3. CASE \E r \in Robots : OnEntryEvents(r)
  <2> PICK r \in Robots : OnEntryEvents(r)
    BY <1>3
  <2>1. UNCHANGED <<commitSeq, constraints, adopted, idx, moving, at, heads>>
    BY DEF OnEntryEvents
  <2>2. entryQ[r] \in Seq(Event) /\ entryQ[r] # <<>>
    BY DEF OnEntryEvents, TypeOK
  <2>3. Head(entryQ[r]) \in Event /\ Tail(entryQ[r]) \in Seq(Event)
    BY <2>2
  <2>4. Head(entryQ[r]).segment \in Segs /\ Head(entryQ[r]).seq \in Nat
    BY <2>3 DEF Event
  <2>5. pendingStarted' \in SUBSET Segs /\ pendingCompleted' \in SUBSET Segs
    BY <2>4 DEF OnEntryEvents, TypeOK
  <2>6. entryAck' \in [Robots -> Nat] /\ entryQ' \in [Robots -> Seq(Event)]
    BY <2>3, <2>4 DEF OnEntryEvents, TypeOK
  <2>7. TypeOK'
    BY <2>5, <2>6 DEF OnEntryEvents, graphVars, historyVars, TypeOK
  <2> QED
    BY <2>1, <2>7, RobotsUntouched
<1> QED
  BY <1>1, <1>2, <1>3

(* What a move reports is typed, and the history keeps its type.           *)
LEMMA EmitType ==
    ASSUME TypeOK, NEW r \in Robots, NEW ent \in BOOLEAN, Emit(r, ent), idx[r] # -1
    PROVE  /\ entryQ' \in [Robots -> Seq(Event)] /\ nextSeq' \in [Robots -> Nat]
           /\ drained' \in BOOLEAN
<1>1. idx[r] \in Nat /\ nextSeq[r] \in Nat
  BY DEF TypeOK
<1>2. [seq |-> nextSeq[r], segment |-> <<r, idx[r]>>, entered |-> ent] \in Event
  BY <1>1 DEF Event, Segs
<1>3. entryQ' \in [Robots -> Seq(Event)] /\ nextSeq' \in [Robots -> Nat]
  BY <1>1, <1>2 DEF Emit, TypeOK
<1>4. drained' \in BOOLEAN
  BY DEF Emit
<1> QED
  BY <1>3, <1>4

(* A robot that enters a location does so at the end of its move.          *)
LEMMA EnteredType ==
    ASSUME TypeInv, NEW r \in Robots, Entered(r), UNCHANGED <<adopted, heads>>,
           UNCHANGED <<commitSeq, constraints>>
    PROVE  /\ moving' \in [Robots -> BOOLEAN] /\ idx' \in [Robots -> Nat \cup {-1}]
           /\ at' \in [Robots -> Vertices]
           /\ PlanInForce' /\ RobotsOnPlans'
<1> USE DEF TypeInv
<1>1. /\ idx[r] \in Nat \cup {-1} /\ heads[r] \in Vertices
      /\ moving' = [moving EXCEPT ![r] = FALSE]
      /\ idx' = [idx EXCEPT ![r] = idx[r] + 1]
      /\ at' = [at EXCEPT ![r] = heads[r]]
  BY DEF TypeOK, Entered
<1>2. idx[r] + 1 \in Nat /\ idx[r] + 1 # -1
  BY <1>1
<1>3. /\ moving' \in [Robots -> BOOLEAN] /\ idx' \in [Robots -> Nat \cup {-1}]
      /\ at' \in [Robots -> Vertices]
  BY <1>1, <1>2 DEF TypeOK
<1>4. PlanInForce'
  BY DEF PlanInForce
<1>5. \A s \in Robots : IF s = r THEN idx'[s] # -1 /\ heads'[s] = at'[s]
                        ELSE idx'[s] = idx[s] /\ at'[s] = at[s] /\ moving'[s] = moving[s]
  BY <1>1, <1>2 DEF TypeOK
<1>6. RobotsOnPlans'
  BY <1>5 DEF RobotsOnPlans
<1> QED
  BY <1>3, <1>4, <1>6

(* A robot's own steps keep it on the path of the plan it follows.         *)
LEMMA RobotTypeInv ==
    ASSUME TypeInv, NEW r \in Robots,
           \/ DeliverRelease(r)
           \/ Adopt(r)
           \/ Depart(r)
           \/ Arrive(r)
           \/ ArriveAtStart(r)
           \/ LoseEvent(r)
    PROVE  TypeInv'
<1> USE DEF TypeInv
<1>1. CASE DeliverRelease(r)
  <2>1. releaseSeen' \in [Robots -> Release]
    BY <1>1 DEF DeliverRelease, TypeOK
  <2> QED
    BY <1>1, <2>1, RobotsUntouched DEF DeliverRelease, nodeVars, historyVars, TypeOK
<1>2. CASE Adopt(r)
  <2>1. UNCHANGED <<commitSeq, constraints, moving, at, heads>>
    BY <1>2 DEF Adopt, nodeVars
  <2>2. constraints \in [commit : Nat \cup {None}, plan : Nat]
    BY DEF TypeOK
  <2>3. /\ adopted' = [adopted EXCEPT ![r] = constraints]
        /\ idx' = [idx EXCEPT ![r] = IF moving[r] THEN -1 ELSE 0]
    BY <1>2 DEF Adopt
  <2>4. /\ adopted' \in [Robots -> [commit : Nat \cup {None}, plan : Nat]]
        /\ idx' \in [Robots -> Nat \cup {-1}]
    BY <2>2, <2>3 DEF TypeOK
  <2>5. TypeOK'
    BY <1>2, <2>4 DEF Adopt, nodeVars, historyVars, TypeOK
  <2>6. PlanInForce'
    BY <2>1 DEF PlanInForce
  <2>7. \A s \in Robots : IF s = r THEN /\ adopted'[s] = constraints
                                        /\ ~moving[s] => idx'[s] # -1
                          ELSE adopted'[s] = adopted[s] /\ idx'[s] = idx[s]
    BY <2>3 DEF TypeOK
  <2>8. RobotsOnPlans'
    BY <2>1, <2>7 DEF RobotsOnPlans, PlanInForce
  <2> QED
    BY <2>5, <2>6, <2>8
<1>3. CASE Depart(r)
  <2>1. UNCHANGED <<commitSeq, constraints, adopted, idx, at>>
    BY <1>3 DEF Depart, nodeVars
  <2>2. /\ moving' = [moving EXCEPT ![r] = TRUE]
        /\ heads' = [heads EXCEPT ![r] = Path(r)[idx[r] + 2]]
    BY <1>3 DEF Depart
  <2>3. Path(r) \in Seq(Vertices) /\ Len(Path(r)) \in Nat
    BY <1>3, PlanType DEF Depart, Path, RobotsOnPlans
  <2>4. idx[r] \in Nat /\ idx[r] + 1 < Len(Path(r))
    BY <1>3 DEF Depart, RobotsOnPlans, TypeOK
  <2>5. Path(r)[idx[r] + 2] \in Vertices
    <3>1. idx[r] + 2 \in 1 .. Len(Path(r))
      BY <2>3, <2>4
    <3> QED
      BY <2>3, <3>1, ElementOfSeq
  <2>6. moving' \in [Robots -> BOOLEAN] /\ heads' \in [Robots -> Vertices]
    BY <2>2, <2>5 DEF TypeOK
  <2>7. /\ entryQ' \in [Robots -> Seq(Event)] /\ nextSeq' \in [Robots -> Nat]
        /\ drained' \in BOOLEAN
    <3>1. idx[r] # -1
      BY <2>4
    <3>2. Emit(r, FALSE)
      BY <1>3 DEF Depart
    <3> QED
      BY <3>1, <3>2, EmitType
  <2>8. TypeOK'
    BY <1>3, <2>6, <2>7 DEF Depart, nodeVars, TypeOK
  <2>9. PlanInForce'
    BY <2>1 DEF PlanInForce
  <2>10. \A s \in Robots : IF s = r THEN moving'[s]
                           ELSE moving'[s] = moving[s] /\ heads'[s] = heads[s]
    BY <2>2 DEF TypeOK
  <2>11. RobotsOnPlans'
    BY <2>1, <2>10 DEF RobotsOnPlans
  <2> QED
    BY <2>8, <2>9, <2>11
<1>4. CASE Arrive(r)
  <2>1. UNCHANGED <<commitSeq, constraints, adopted, heads>> /\ Entered(r)
    BY <1>4 DEF Arrive, nodeVars
  <2>2. idx[r] # -1
    BY <1>4 DEF Arrive, TypeOK
  <2>3. /\ entryQ' \in [Robots -> Seq(Event)] /\ nextSeq' \in [Robots -> Nat]
        /\ drained' \in BOOLEAN
    BY <1>4, <2>2, EmitType DEF Arrive
  <2>4. /\ moving' \in [Robots -> BOOLEAN] /\ idx' \in [Robots -> Nat \cup {-1}]
        /\ at' \in [Robots -> Vertices]
        /\ PlanInForce' /\ RobotsOnPlans'
    BY <2>1, EnteredType
  <2>5. TypeOK'
    BY <1>4, <2>3, <2>4 DEF Arrive, nodeVars, TypeOK
  <2> QED
    BY <2>4, <2>5
<1>5. CASE ArriveAtStart(r)
  <2>1. UNCHANGED <<commitSeq, constraints, adopted, heads>> /\ Entered(r)
    BY <1>5 DEF ArriveAtStart, nodeVars
  <2>2. /\ moving' \in [Robots -> BOOLEAN] /\ idx' \in [Robots -> Nat \cup {-1}]
        /\ at' \in [Robots -> Vertices]
        /\ PlanInForce' /\ RobotsOnPlans'
    BY <2>1, EnteredType
  <2>3. TypeOK'
    BY <1>5, <2>2 DEF ArriveAtStart, nodeVars, historyVars, TypeOK
  <2> QED
    BY <2>2, <2>3
<1>6. CASE LoseEvent(r)
  <2>1. entryQ[r] \in Seq(Event) /\ entryQ[r] # <<>>
    BY <1>6 DEF LoseEvent, TypeOK
  <2>2. entryQ' \in [Robots -> Seq(Event)]
    BY <1>6, <2>1 DEF LoseEvent, TypeOK
  <2>3. lost' \in 0 .. MaxLost
    BY <1>6, ChannelAssumption DEF LoseEvent, TypeOK
  <2> QED
    BY <1>6, <2>2, <2>3, RobotsUntouched DEF LoseEvent, nodeVars, TypeOK
<1> QED
  BY <1>1, <1>2, <1>3, <1>4, <1>5, <1>6

(* Every step keeps the typing invariant.                                  *)
LEMMA NextTypeInv == TypeInv /\ [Next]_vars => TypeInv'
<1>1. TypeInv /\ Next => TypeInv'
  BY OnPlanTypeInv, NodeTypeInv, RobotTypeInv DEF Next, Robot, Move
<1>2. TypeInv /\ UNCHANGED vars => TypeInv'
  <2> SUFFICES ASSUME TypeInv, UNCHANGED vars PROVE TypeInv'
    OBVIOUS
  <2>1. UNCHANGED <<commitSeq, constraints, adopted, idx, moving, at, heads>>
    BY DEF vars, nodeVars, robotVars
  <2>2. TypeOK'
    BY DEF TypeInv, TypeOK, vars, nodeVars, robotVars, historyVars
  <2> QED
    BY <2>1, <2>2, RobotsUntouched DEF TypeInv
<1> QED
  BY <1>1, <1>2

(* The typing invariant holds throughout: the state is typed, and every    *)
(* robot follows one of the plans.                                         *)
THEOREM TypeInvariance == Spec => []TypeInv
BY InitTypeInv, NextTypeInv, PTL DEF Spec

(* The node's graph, buffers and counters and the robots' copies keep      *)
(* their types, and the accounting never names a segment outside the       *)
(* graph, for every sequence of plans, compiled or rejected.               *)
THEOREM TypeCorrect == Spec => []TypeOK
BY TypeInvariance, PTL DEF TypeInv

-----------------------------------------------------------------------------
(* Safety, for a planner that keeps its promise: a plan that passes the    *)
(* H-cons intake compiles and orders the visits of every shared location.  *)
(* When plans come, where they start the robots, which of them the intake  *)
(* refuses, which events get lost and how late messages are is not         *)
(* restricted: what holds of the plan in force depends on how it took over *)
(* (drained, anchored), and is established afresh at every takeover.       *)

PlannerKeepsContract ==
    \A i \in DOMAIN Plans : HconsOk(Plans[i]) => /\ WellFormed(Plans[i])
                                                 /\ Outcome(Plans[i]) = "ok"

\* the graph is the one of the plan in force, or was emptied by a rejection
GraphCurrent ==
    \/ graph = EmptyGraph
    \/ constraints.commit # None /\ graph = CompiledGraph(Plan)

CommitCurrent ==
    constraints.commit # None
    => activeCommit = constraints.commit /\ Outcome(Plan) = "ok" /\ WellFormed(Plan)

\* no release was published for a commit number that is still to come
ReleasesPast ==
    \A r \in Robots : releaseTopic[r].commit < commitSeq /\ releaseSeen[r].commit < commitSeq

\* everything reported about a segment has happened to it on the plan in force
EventsTrue ==
    /\ \A seg \in pendingStarted \cup entered : HasStarted(seg)
    /\ \A seg \in pendingCompleted \cup completed : HasCompleted(seg)
    /\ \A r \in Robots : \A n \in DOMAIN entryQ[r] :
          IF entryQ[r][n].entered THEN HasCompleted(entryQ[r][n].segment)
                                  ELSE HasStarted(entryQ[r][n].segment)

\* the predecessor of a dependency has done what the dependency waits for
Backed(d) == IF IsOpposing(Plan, d) THEN HasCompleted(d[1]) ELSE HasStarted(d[1])

BackedRelease(m) ==
    constraints.commit # None /\ m.commit = constraints.commit
    => \A d \in OrderingDeps(Plan) : d[2] \in m.bits => Backed(d)

ReleasesBacked ==
    \A r \in Robots : BackedRelease(releaseTopic[r]) /\ BackedRelease(releaseSeen[r])

\* along every visit sequence, a robot is there only after the one before left
VisitsFollow(s) ==
    \A m \in 1 .. Len(s) - 1 :
        Pos(s[m + 1].robot) >= s[m + 1].index
        => HasStarted(<<s[m].robot, s[m].index>>)

VisitsInOrder ==
    constraints.commit # None
    => \A e \in DOMAIN Plan.visits : VisitsFollow(Plan.visits[e].sequence)

\* what holds of a plan that nothing of an earlier plan interferes with
PlanServed == EventsTrue /\ ReleasesBacked /\ VisitsInOrder

\* a robot is on its path of the plan in force, at Pos or on the way to the
\* next location; at -1, on the way to the first
OnPath(r) ==
    LET path == Plan.steps[r]
    IN  IF moving[r]
        THEN /\ Pos(r) + 2 <= Len(path) /\ heads[r] = path[Pos(r) + 2]
             /\ Pos(r) # -1 => at[r] = path[Pos(r) + 1]
        ELSE /\ Pos(r) + 1 <= Len(path)
             /\ at[r] = path[Pos(r) + 1]

\* no two robots that end moves of earlier plans meet head on
OldMovesApart ==
    \A r, s \in Robots :
        /\ r # s /\ moving[r] /\ moving[s] /\ Pos(r) = -1 /\ Pos(s) = -1
        => ~(at[r] = heads[s] /\ at[s] = heads[r])

\* what holds of a plan that, besides, starts the robots where they were
FleetOnPlan ==
    /\ constraints.commit # None
    /\ \A r \in Robots : OnPath(r)
    /\ OldMovesApart

SafetyInv == /\ TypeInv
             /\ GraphCurrent /\ CommitCurrent /\ ReleasesPast
             /\ drained => PlanServed
             /\ drained /\ anchored => FleetOnPlan

(* The plan in force is one of the plans, with its parts.                  *)
LEMMA PlanParts ==
    ASSUME TypeInv, constraints.commit # None
    PROVE  /\ constraints.plan \in DOMAIN Plans /\ Plan = Plans[constraints.plan]
           /\ Plan \in PlanRecords
           /\ Dependencies[constraints.plan] = OrderingDeps(Plan)
           /\ \A r \in Robots : Len(Plan.steps[r]) \in Nat
BY PlanType DEF TypeInv, PlanInForce, Plan

(* A robot's position on the plan in force: -1 only while it moves.        *)
LEMMA PosType ==
    ASSUME TypeInv, NEW r \in Robots
    PROVE  /\ Pos(r) \in Nat \cup {-1}
           /\ Pos(r) = -1 => moving[r]
BY DEF Pos, TypeInv, TypeOK, RobotsOnPlans

(* Before the first plan there is no release and no event.                 *)
LEMMA InitSafetyInv == Init => SafetyInv
<1> SUFFICES ASSUME Init PROVE SafetyInv
  OBVIOUS
<1>1. TypeInv
  BY InitTypeInv
<1>2. GraphCurrent /\ CommitCurrent /\ VisitsInOrder /\ ReleasesBacked /\ ~anchored
  BY DEF Init, GraphCurrent, CommitCurrent, VisitsInOrder, ReleasesBacked, BackedRelease
<1>3. EventsTrue
  BY DEF Init, EventsTrue
<1>4. ReleasesPast
  <2>1. \A r \in Robots : releaseTopic[r] = NoRelease /\ releaseSeen[r] = NoRelease
    BY DEF Init
  <2>2. NoRelease.commit = None /\ None < 0 /\ commitSeq = 0
    BY DEF NoRelease, None, Init
  <2> QED
    BY <2>1, <2>2 DEF ReleasesPast
<1> QED
  BY <1>1, <1>2, <1>3, <1>4 DEF SafetyInv, PlanServed

(* A new plan: nothing is known of it, nothing has happened on it.         *)
LEMMA AcceptedSafetyInv ==
    ASSUME PlannerKeepsContract, SafetyInv, NEW i \in Accepted, OnPlan(i)
    PROVE  SafetyInv'
<1> USE DEF SafetyInv
<1>0. i \in DOMAIN Plans
  BY DEF Accepted
<1>1. TypeInv'
  BY <1>0, OnPlanTypeInv
<1>2. /\ entered' = {} /\ completed' = {}
      /\ UNCHANGED <<pendingStarted, pendingCompleted, entryQ, releaseTopic,
                     releaseSeen, adopted, idx, moving, at, heads>>
  BY DEF OnPlan, ResetRuntime, robotVars
<1>3. /\ constraints' = [commit |-> commitSeq, plan |-> i]
      /\ activeCommit' = commitSeq /\ commitSeq' = commitSeq + 1
      /\ commitSeq \in Nat
      /\ drained' = Drained /\ anchored' = Anchored(Plans[i])
  BY DEF OnPlan, TypeInv, TypeOK
<1>4. Plan' = Plans[i] /\ constraints.commit' # None /\ constraints.commit' = commitSeq
  BY <1>3 DEF Plan, None
<1>5. /\ graph' = CompiledGraph(Plans[i]) /\ Outcome(Plans[i]) = "ok"
      /\ HconsOk(Plans[i]) /\ WellFormed(Plans[i]) /\ Plans[i] \in PlanRecords
  BY <1>0, PlanType, OutcomeOk DEF OnPlan, PlannerKeepsContract
<1>6. GraphCurrent' /\ CommitCurrent'
  BY <1>3, <1>4, <1>5 DEF GraphCurrent, CommitCurrent
<1>7. \A r \in Robots : /\ releaseTopic[r].commit \in Nat \cup {None}
                        /\ releaseSeen[r].commit \in Nat \cup {None}
                        /\ adopted[r].commit \in Nat \cup {None}
  BY DEF TypeInv, TypeOK, Release
<1>8. ReleasesPast'
  <2>1. \A r \in Robots : /\ releaseTopic[r].commit < commitSeq + 1
                          /\ releaseSeen[r].commit < commitSeq + 1
    BY <1>3, <1>7 DEF ReleasesPast, None
  <2> QED
    BY <1>2, <1>3, <2>1 DEF ReleasesPast
<1>9. \A r \in Robots : Pos(r)' = IF moving[r] THEN -1 ELSE 0
  <2>1. \A r \in Robots : adopted[r].commit # commitSeq
    BY <1>3, <1>7 DEF TypeInv, RobotsOnPlans, None
  <2>2. \A r \in Robots : ~Adopted(r)'
    BY <1>2, <1>4, <2>1 DEF Adopted
  <2> QED
    BY <1>2, <2>2 DEF Pos
<1>10. ReleasesBacked'
  <2>1. \A r \in Robots : /\ releaseTopic[r].commit # commitSeq
                          /\ releaseSeen[r].commit # commitSeq
    BY <1>3, <1>7 DEF ReleasesPast, None
  <2> QED
    BY <1>2, <1>4, <2>1 DEF ReleasesBacked, BackedRelease
<1>11. VisitsInOrder'
  <2>1. SUFFICES ASSUME NEW e \in DOMAIN Plans[i].visits
                 PROVE  VisitsFollow(Plans[i].visits[e].sequence)'
    BY <1>4 DEF VisitsInOrder
  <2> DEFINE s == Plans[i].visits[e].sequence
  <2>2. SUFFICES ASSUME NEW m \in 1 .. Len(s) - 1
                 PROVE  ~(Pos(s[m + 1].robot)' >= s[m + 1].index)
    BY DEF VisitsFollow
  <2>3. m \in 1 .. Len(s) /\ m + 1 \in 1 .. Len(s)
    BY <1>5, VisitsType
  <2>4. /\ s[m].index \in Nat /\ s[m + 1].index \in Nat
        /\ s[m + 1].robot \in Robots
    BY <1>5, <2>3, VisitsType
  <2>5. IF s[m].robot = s[m + 1].robot THEN s[m].index < s[m + 1].index
                                       ELSE s[m + 1].index # 0
    BY <1>5 DEF WellFormed, OrderedVisits
  <2>6. Pos(s[m + 1].robot)' \in {-1, 0}
    BY <1>9, <2>4
  <2> QED
    BY <2>4, <2>5, <2>6
<1>12. ASSUME drained' PROVE EventsTrue'
  <2>1. /\ \A r \in Robots : entryQ[r] = <<>>
        /\ pendingStarted = {} /\ pendingCompleted = {}
    BY <1>3, <1>12 DEF Drained
  <2>2. /\ \A r \in Robots : entryQ'[r] = <<>> /\ DOMAIN entryQ'[r] = {}
        /\ pendingStarted' = {} /\ pendingCompleted' = {}
    BY <1>2, <2>1
  <2> QED
    BY <1>2, <2>2 DEF EventsTrue
<1>13. anchored' => FleetOnPlan'
  <2> SUFFICES ASSUME Anchored(Plans[i]) PROVE FleetOnPlan'
    BY <1>3
  <2>1. ASSUME NEW r \in Robots PROVE OnPath(r)'
    <3>1. /\ Plans[i].steps[r] # <<>> /\ Plans[i].steps[r][1] = heads[r]
          /\ Plans[i].steps[r] \in Seq(Vertices)
      BY <1>0, PlanType DEF Anchored
    <3>2. Len(Plans[i].steps[r]) \in Nat /\ Len(Plans[i].steps[r]) >= 1
      BY <3>1
    <3>3. ~moving[r] => heads[r] = at[r]
      BY DEF TypeInv, RobotsOnPlans
    <3> QED
      BY <1>2, <1>4, <1>9, <3>1, <3>2, <3>3 DEF OnPath
  <2>2. OldMovesApart'
    BY <1>2 DEF Anchored, HeadOn, OldMovesApart
  <2> QED
    BY <1>4, <2>1, <2>2 DEF FleetOnPlan
<1> QED
  BY <1>1, <1>6, <1>8, <1>10, <1>11, <1>12, <1>13 DEF PlanServed

\* what has happened on the plan in force stays so
Forward ==
    /\ \A seg \in Segs : /\ HasStarted(seg) => HasStarted(seg)'
                         /\ HasCompleted(seg) => HasCompleted(seg)'
    /\ UNCHANGED <<commitSeq, constraints>>

(* While no robot moves and the constraints stay, nothing is undone.       *)
LEMMA StandingStill ==
    ASSUME UNCHANGED <<commitSeq, constraints, adopted, idx, moving>>
    PROVE  /\ Forward /\ Plan' = Plan
           /\ \A r \in Robots : Pos(r)' = Pos(r)
           /\ \A seg : /\ HasStarted(seg)' <=> HasStarted(seg)
                       /\ HasCompleted(seg)' <=> HasCompleted(seg)
BY DEF Forward, HasStarted, HasCompleted, Pos, Adopted, Plan

(* A segment that is completed was started.                                *)
LEMMA CompletedStarted ==
    ASSUME NEW seg, HasCompleted(seg)
    PROVE  HasStarted(seg)
BY DEF HasStarted, HasCompleted

(* The dependencies of the plan in force name segments of robots.          *)
LEMMA DepsInForce ==
    ASSUME TypeInv, constraints.commit # None
    PROVE  OrderingDeps(Plan) \subseteq Segs \X Segs
BY PlanParts, OrderingType

(* A release that is backed stays backed while the robots go on.           *)
LEMMA StillBacked ==
    ASSUME TypeInv, Forward
    PROVE  \A m : BackedRelease(m) => BackedRelease(m)'
<1> SUFFICES ASSUME NEW m, BackedRelease(m)
             PROVE  BackedRelease(m)'
  OBVIOUS
<1>1. Plan' = Plan /\ constraints' = constraints
  BY DEF Forward, Plan
<1>2. SUFFICES ASSUME constraints.commit # None, m.commit = constraints.commit,
                      NEW d \in OrderingDeps(Plan), d[2] \in m.bits
               PROVE  Backed(d)'
  BY <1>1 DEF BackedRelease
<1>3. Backed(d)
  BY <1>2 DEF BackedRelease
<1>4. d[1] \in Segs
  BY <1>2, DepsInForce
<1> QED
  BY <1>1, <1>3, <1>4 DEF Backed, Forward

(* The robots move on but none enters a location: the visits keep order.   *)
LEMMA VisitsStayInOrder ==
    ASSUME TypeInv, Forward, VisitsInOrder, \A r \in Robots : Pos(r)' = Pos(r)
    PROVE  VisitsInOrder'
<1>1. Plan' = Plan /\ constraints' = constraints
  BY DEF Forward, Plan
<1>2. SUFFICES ASSUME constraints.commit # None, NEW e \in DOMAIN Plan.visits
               PROVE  VisitsFollow(Plan.visits[e].sequence)'
  BY <1>1 DEF VisitsInOrder
<1> DEFINE s == Plan.visits[e].sequence
<1>3. SUFFICES ASSUME NEW m \in 1 .. Len(s) - 1,
                      Pos(s[m + 1].robot)' >= s[m + 1].index
               PROVE  HasStarted(<<s[m].robot, s[m].index>>)'
  BY <1>1 DEF VisitsFollow
<1>4. Plan \in PlanRecords
  BY <1>2, PlanParts
<1>5. /\ Len(s) \in Nat
      /\ \A n \in 1 .. Len(s) : s[n].robot \in Robots /\ s[n].index \in Nat
  BY <1>4, VisitsType
<1>6. m \in 1 .. Len(s) /\ m + 1 \in 1 .. Len(s)
  BY <1>5
<1>7. Pos(s[m + 1].robot) >= s[m + 1].index
  BY <1>1, <1>3, <1>5, <1>6
<1>8. HasStarted(<<s[m].robot, s[m].index>>)
  BY <1>2, <1>7 DEF VisitsInOrder, VisitsFollow
<1>9. HasStarted(<<s[m].robot, s[m].index>>) => HasStarted(<<s[m].robot, s[m].index>>)'
  BY <1>1, <1>5, <1>6 DEF Forward, Segs
<1> QED
  BY <1>8, <1>9

(* Nobody moves, the plan in force stays: the graph, the order of visits   *)
(* and the fleet's place on the plan stay what they were.                  *)
LEMMA QuietSafety ==
    ASSUME SafetyInv,
           UNCHANGED <<activeCommit, commitSeq, constraints, adopted, idx, moving,
                       at, heads, drained, anchored>>
    PROVE  /\ CommitCurrent'
           /\ graph' \in {graph, EmptyGraph} => GraphCurrent'
           /\ drained => VisitsInOrder'
           /\ drained' /\ anchored' => FleetOnPlan'
           /\ (\A r \in Robots : /\ releaseTopic'[r] = releaseTopic[r]
                                 /\ releaseSeen'[r] \in {releaseSeen[r], releaseTopic[r]})
              => ReleasesPast' /\ (drained => ReleasesBacked')
<1> USE DEF SafetyInv
<1>1. Forward /\ Plan' = Plan /\ \A r \in Robots : Pos(r)' = Pos(r)
  BY StandingStill
<1>2. CommitCurrent' /\ (graph' \in {graph, EmptyGraph} => GraphCurrent')
  BY <1>1 DEF CommitCurrent, GraphCurrent
<1>3. drained => VisitsInOrder'
  BY <1>1, VisitsStayInOrder DEF PlanServed
<1>4. drained' /\ anchored' => FleetOnPlan'
  BY <1>1 DEF FleetOnPlan, OnPath, OldMovesApart
<1>5. ASSUME \A r \in Robots : /\ releaseTopic'[r] = releaseTopic[r]
                               /\ releaseSeen'[r] \in {releaseSeen[r], releaseTopic[r]}
      PROVE  ReleasesPast' /\ (drained => ReleasesBacked')
  <2>1. ReleasesPast'
    BY <1>5 DEF ReleasesPast
  <2>2. drained => ReleasesBacked'
    BY <1>1, <1>5, StillBacked DEF PlanServed, ReleasesBacked
  <2> QED
    BY <2>1, <2>2
<1> QED
  BY <1>1, <1>2, <1>3, <1>4, <1>5

(* A rejected plan takes the graph and the accounting with it, and leaves  *)
(* the plan in force as it was.                                            *)
LEMMA RefusedSafetyInv ==
    ASSUME PlannerKeepsContract, SafetyInv, NEW i \in DOMAIN Plans, i \notin Accepted, OnPlan(i)
    PROVE  SafetyInv'
<1> USE DEF SafetyInv
<1>1. TypeInv'
  BY OnPlanTypeInv
<1>2. /\ UNCHANGED <<activeCommit, commitSeq, constraints, adopted, idx, moving,
                     at, heads, drained, anchored>>
      /\ UNCHANGED <<releaseTopic, releaseSeen, pendingStarted, pendingCompleted, entryQ>>
      /\ entered' = {} /\ completed' = {}
  BY DEF OnPlan, ResetRuntime, robotVars
<1>3. graph' = EmptyGraph
  <2>1. ~HconsOk(Plans[i])
    BY PlanType DEF PlannerKeepsContract
  <2> QED
    BY <2>1, PlanType DEF OnPlan, CompiledGraph
<1>4. /\ GraphCurrent' /\ CommitCurrent' /\ ReleasesPast'
      /\ drained => VisitsInOrder' /\ ReleasesBacked'
      /\ drained' /\ anchored' => FleetOnPlan'
  BY <1>2, <1>3, QuietSafety
<1>5. drained => EventsTrue'
  <2>1. \A seg : /\ HasStarted(seg)' <=> HasStarted(seg)
                 /\ HasCompleted(seg)' <=> HasCompleted(seg)
    BY <1>2, StandingStill
  <2> QED
    BY <1>2, <2>1 DEF PlanServed, EventsTrue
<1> QED
  BY <1>1, <1>2, <1>4, <1>5 DEF PlanServed

(* A tick publishes what the drained events allow: if they are true, the   *)
(* release is backed.                                                      *)
LEMMA OnTickSafetyInv ==
    ASSUME SafetyInv, OnTick
    PROVE  SafetyInv'
<1> USE DEF SafetyInv
<1>1. TypeInv'
  BY NodeTypeInv
<1>2. UNCHANGED <<graph, activeCommit, commitSeq, constraints, adopted, idx, moving,
                  at, heads, entryQ, releaseSeen, drained, anchored>>
  BY DEF OnTick, robotVars, historyVars
<1>3. /\ GraphCurrent' /\ CommitCurrent'
      /\ drained => VisitsInOrder'
      /\ drained' /\ anchored' => FleetOnPlan'
  BY <1>2, QuietSafety
<1>4. /\ Forward /\ Plan' = Plan
      /\ \A seg : /\ HasStarted(seg)' <=> HasStarted(seg)
                  /\ HasCompleted(seg)' <=> HasCompleted(seg)
  BY <1>2, StandingStill
<1>5. \A r \in Robots :
         IF Publishes(graph, r)
         THEN /\ releaseTopic'[r].commit = activeCommit
              /\ releaseTopic'[r].bits \subseteq
                     ReleaseBits(graph, DrainedEntered, DrainedCompleted)
         ELSE releaseTopic'[r] = releaseTopic[r]
  BY DEF OnTick
<1>6. \A r \in Robots :
         Publishes(graph, r)
         => /\ constraints.commit # None /\ graph = CompiledGraph(Plan)
            /\ HconsOk(Plan) /\ activeCommit = constraints.commit
  <2>1. \A r \in Robots : Publishes(graph, r) => graph # EmptyGraph
    BY DEF Publishes, EmptyGraph
  <2> QED
    BY <2>1, OutcomeOk DEF GraphCurrent, CommitCurrent
<1>7. ReleasesPast'
  <2>1. \A r \in Robots : Publishes(graph, r) => activeCommit < commitSeq
    BY <1>6 DEF TypeInv, PlanInForce
  <2> QED
    BY <1>2, <1>5, <2>1 DEF ReleasesPast
<1>8. ASSUME drained PROVE EventsTrue' /\ ReleasesBacked'
  <2>1. EventsTrue /\ ReleasesBacked
    BY <1>8 DEF PlanServed
  <2>2. /\ \A seg \in DrainedEntered : HasStarted(seg)
        /\ \A seg \in DrainedCompleted : HasCompleted(seg)
    BY <2>1, CompletedStarted DEF EventsTrue, DrainedEntered, DrainedCompleted
  <2>3. EventsTrue'
    BY <1>2, <1>4, <2>1, <2>2 DEF EventsTrue, OnTick
  <2>4. ASSUME NEW r \in Robots PROVE BackedRelease(releaseTopic[r])'
    <3>1. CASE ~Publishes(graph, r)
      BY <1>4, <1>5, <2>1, <3>1, StillBacked DEF ReleasesBacked
    <3>2. CASE Publishes(graph, r)
      <4>1. /\ graph.ordering = OrderingDeps(Plan)
            /\ graph.opposing = {d \in OrderingDeps(Plan) : IsOpposing(Plan, d)}
        BY <1>6, <3>2 DEF CompiledGraph
      <4>2. ASSUME NEW d \in OrderingDeps(Plan), d[2] \in releaseTopic'[r].bits
            PROVE  Backed(d)'
        <5>1. Permitted(graph, d[2], DrainedEntered, DrainedCompleted)
          BY <1>5, <3>2, <4>2 DEF ReleaseBits
        <5>2. IF IsOpposing(Plan, d) THEN d[1] \in DrainedCompleted
                                     ELSE d[1] \in DrainedEntered
          BY <4>1, <5>1 DEF Permitted
        <5> QED
          BY <1>4, <2>2, <5>2 DEF Backed
      <4> QED
        BY <1>2, <1>4, <4>2 DEF BackedRelease
    <3> QED
      BY <3>1, <3>2
  <2>5. ReleasesBacked'
    BY <1>2, <1>4, <2>1, <2>4, StillBacked DEF ReleasesBacked
  <2> QED
    BY <2>3, <2>5
<1> QED
  BY <1>1, <1>2, <1>3, <1>7, <1>8 DEF PlanServed

(* Without its first event a channel holds no report it did not hold.      *)
LEMMA FewerReports ==
    ASSUME TypeInv, EventsTrue, NEW r \in Robots, entryQ[r] # <<>>,
           entryQ' = [entryQ EXCEPT ![r] = Tail(@)],
           UNCHANGED <<constraints, adopted, idx, moving>>
    PROVE  \A s \in Robots : \A n \in DOMAIN entryQ'[s] : \A t :
              t = entryQ'[s][n].segment
              => IF entryQ'[s][n].entered THEN HasCompleted(t)' ELSE HasStarted(t)'
<1>1. entryQ[r] \in Seq(Event) /\ entryQ[r] # <<>>
  BY DEF TypeInv, TypeOK
<1>2. \A n \in DOMAIN Tail(entryQ[r]) : /\ n + 1 \in DOMAIN entryQ[r]
                                        /\ Tail(entryQ[r])[n] = entryQ[r][n + 1]
  BY <1>1
<1>3. \A s \in Robots : entryQ'[s] = IF s = r THEN Tail(entryQ[r]) ELSE entryQ[s]
  BY DEF TypeInv, TypeOK
<1>4. \A s \in Robots : \A n \in DOMAIN entryQ'[s] : \A t :
         t = entryQ'[s][n].segment
         => IF entryQ'[s][n].entered THEN HasCompleted(t) ELSE HasStarted(t)
  BY <1>2, <1>3 DEF EventsTrue
<1>5. \A seg : /\ HasStarted(seg)' <=> HasStarted(seg)
               /\ HasCompleted(seg)' <=> HasCompleted(seg)
  BY DEF HasStarted, HasCompleted, Pos, Adopted
<1> QED
  BY <1>4, <1>5

(* Reading an event moves a true report from the channel to the buffers.   *)
LEMMA OnEntryEventsSafetyInv ==
    ASSUME SafetyInv, NEW r \in Robots, OnEntryEvents(r)
    PROVE  SafetyInv'
<1> USE DEF SafetyInv
<1>1. TypeInv'
  BY NodeTypeInv
<1>2. /\ UNCHANGED <<graph, entered, completed, activeCommit, commitSeq, constraints,
                     releaseTopic, adopted, idx, moving, at, heads, drained, anchored>>
      /\ releaseSeen' = releaseSeen
      /\ entryQ[r] # <<>> /\ entryQ' = [entryQ EXCEPT ![r] = Tail(@)]
  BY DEF OnEntryEvents, graphVars, historyVars
<1>3. /\ GraphCurrent' /\ CommitCurrent' /\ ReleasesPast'
      /\ drained => VisitsInOrder' /\ ReleasesBacked'
      /\ drained' /\ anchored' => FleetOnPlan'
  BY <1>2, QuietSafety
<1>4. ASSUME drained PROVE EventsTrue'
  <2>1. EventsTrue
    BY <1>4 DEF PlanServed
  <2>2. \A seg : /\ HasStarted(seg)' <=> HasStarted(seg)
                 /\ HasCompleted(seg)' <=> HasCompleted(seg)
    BY <1>2, StandingStill
  <2>3. IF Head(entryQ[r]).entered THEN HasCompleted(Head(entryQ[r]).segment)
                                   ELSE HasStarted(Head(entryQ[r]).segment)
    <3>1. entryQ[r] \in Seq(Event)
      BY DEF TypeInv, TypeOK
    <3>2. Head(entryQ[r]) = entryQ[r][1] /\ 1 \in DOMAIN entryQ[r]
      BY <1>2, <3>1
    <3> QED
      BY <2>1, <3>2 DEF EventsTrue
  <2>4. /\ \A seg \in pendingStarted' : HasStarted(seg)
        /\ \A seg \in pendingCompleted' : HasCompleted(seg)
    <3>1. CASE Head(entryQ[r]).entered
      BY <2>1, <2>3, <3>1 DEF OnEntryEvents, EventsTrue
    <3>2. CASE ~Head(entryQ[r]).entered
      BY <2>1, <2>3, <3>2 DEF OnEntryEvents, EventsTrue
    <3> QED
      BY <3>1, <3>2
  <2>5. \A s \in Robots : \A n \in DOMAIN entryQ'[s] : \A t :
           t = entryQ'[s][n].segment
           => IF entryQ'[s][n].entered THEN HasCompleted(t)' ELSE HasStarted(t)'
    BY <1>2, <2>1, FewerReports
  <2>6. /\ \A seg \in pendingStarted' \cup entered' : HasStarted(seg)'
        /\ \A seg \in pendingCompleted' \cup completed' : HasCompleted(seg)'
    BY <1>2, <2>1, <2>2, <2>4 DEF EventsTrue
  <2> QED
    BY <2>5, <2>6 DEF EventsTrue
<1> QED
  BY <1>1, <1>2, <1>3, <1>4 DEF PlanServed

(* A lost event leaves fewer reports, all of them true.                    *)
LEMMA LoseEventSafetyInv ==
    ASSUME SafetyInv, NEW r \in Robots, LoseEvent(r)
    PROVE  SafetyInv'
<1> USE DEF SafetyInv
<1>1. TypeInv'
  BY RobotTypeInv
<1>2. /\ UNCHANGED <<graph, entered, completed, activeCommit, commitSeq, constraints,
                     releaseTopic, adopted, idx, moving, at, heads, drained, anchored>>
      /\ UNCHANGED <<pendingStarted, pendingCompleted, releaseSeen>>
      /\ entryQ[r] # <<>> /\ entryQ' = [entryQ EXCEPT ![r] = Tail(@)]
  BY DEF LoseEvent, nodeVars
<1>3. /\ GraphCurrent' /\ CommitCurrent' /\ ReleasesPast'
      /\ drained => VisitsInOrder' /\ ReleasesBacked'
      /\ drained' /\ anchored' => FleetOnPlan'
  BY <1>2, QuietSafety
<1>4. ASSUME drained PROVE EventsTrue'
  <2>1. EventsTrue
    BY <1>4 DEF PlanServed
  <2>2. \A seg : /\ HasStarted(seg)' <=> HasStarted(seg)
                 /\ HasCompleted(seg)' <=> HasCompleted(seg)
    BY <1>2, StandingStill
  <2>3. \A s \in Robots : \A n \in DOMAIN entryQ'[s] : \A t :
           t = entryQ'[s][n].segment
           => IF entryQ'[s][n].entered THEN HasCompleted(t)' ELSE HasStarted(t)'
    BY <1>2, <2>1, FewerReports
  <2>4. /\ \A seg \in pendingStarted' \cup entered' : HasStarted(seg)'
        /\ \A seg \in pendingCompleted' \cup completed' : HasCompleted(seg)'
    BY <1>2, <2>1, <2>2 DEF EventsTrue
  <2> QED
    BY <2>3, <2>4 DEF EventsTrue
<1> QED
  BY <1>1, <1>2, <1>3, <1>4 DEF PlanServed

(* A stop declaration, a delivered release and a stuttering step disturb   *)
(* nothing the invariant speaks of.                                        *)
LEMMA QuietSafetyInv ==
    ASSUME SafetyInv,
           \/ \E edge \in StopEdges : OnStopDeclarations(edge)
           \/ \E r \in Robots : DeliverRelease(r)
           \/ UNCHANGED vars
    PROVE  SafetyInv'
<1> USE DEF SafetyInv
<1>1. TypeInv'
  BY NodeTypeInv, RobotTypeInv, NextTypeInv
<1>2. /\ UNCHANGED <<graph, entered, completed, activeCommit, commitSeq, constraints,
                     releaseTopic, adopted, idx, moving, at, heads, drained, anchored>>
      /\ UNCHANGED <<pendingStarted, pendingCompleted, entryQ>>
  BY DEF OnStopDeclarations, DeliverRelease, graphVars, nodeVars, robotVars,
         historyVars, vars
<1>3. \A r \in Robots : releaseSeen'[r] \in {releaseSeen[r], releaseTopic[r]}
  BY DEF OnStopDeclarations, DeliverRelease, robotVars, vars, TypeInv, TypeOK
<1>4. /\ GraphCurrent' /\ CommitCurrent' /\ ReleasesPast'
      /\ drained => VisitsInOrder' /\ ReleasesBacked'
      /\ drained' /\ anchored' => FleetOnPlan'
  BY <1>2, <1>3, QuietSafety
<1>5. drained => EventsTrue'
  <2>1. \A seg : /\ HasStarted(seg)' <=> HasStarted(seg)
                 /\ HasCompleted(seg)' <=> HasCompleted(seg)
    BY <1>2, StandingStill
  <2> QED
    BY <1>2, <2>1 DEF PlanServed, EventsTrue
<1> QED
  BY <1>1, <1>2, <1>4, <1>5 DEF PlanServed

(* Everything the node may hear of or has heard of names a segment.        *)
LEMMA EventSegments ==
    ASSUME TypeInv
    PROVE  /\ \A seg \in pendingStarted \cup entered : seg \in Segs
           /\ \A seg \in pendingCompleted \cup completed : seg \in Segs
           /\ \A s \in Robots : \A n \in DOMAIN entryQ[s] : entryQ[s][n].segment \in Segs
<1>1. \A s \in Robots : entryQ[s] \in Seq(Event)
  BY DEF TypeInv, TypeOK
<1>2. \A s \in Robots : \A n \in DOMAIN entryQ[s] : entryQ[s][n] \in Event
  BY <1>1, ElementOfSeq, LenProperties
<1>3. \A e \in Event : e.segment \in Segs
  BY DEF Event
<1> QED
  BY <1>2, <1>3 DEF TypeInv, TypeOK

(* What is true stays true while the robots go on and report nothing.      *)
LEMMA SilentlyTrue ==
    ASSUME TypeInv, EventsTrue, Forward,
           UNCHANGED <<entered, completed, pendingStarted, pendingCompleted, entryQ>>
    PROVE  EventsTrue'
<1>1. /\ \A t \in pendingStarted' \cup entered' : HasStarted(t)'
      /\ \A t \in pendingCompleted' \cup completed' : HasCompleted(t)'
  BY EventSegments DEF EventsTrue, Forward
<1>2. \A s \in Robots : \A n \in DOMAIN entryQ[s] : \A t :
         t = entryQ[s][n].segment
         => IF entryQ[s][n].entered THEN HasCompleted(t)' ELSE HasStarted(t)'
  BY EventSegments DEF EventsTrue, Forward
<1> QED
  BY <1>1, <1>2 DEF EventsTrue

(* A robot's own step: the graph, the releases and the commit number stay. *)
LEMMA RobotStep ==
    ASSUME SafetyInv, Forward, drained' => drained,
           UNCHANGED <<graph, activeCommit, constraints, releaseTopic, releaseSeen>>
    PROVE  /\ GraphCurrent' /\ CommitCurrent' /\ ReleasesPast' /\ Plan' = Plan
           /\ drained' => ReleasesBacked'
<1> USE DEF SafetyInv
<1>1. Plan' = Plan /\ commitSeq' = commitSeq
  BY DEF Plan, Forward
<1>2. GraphCurrent' /\ CommitCurrent' /\ ReleasesPast'
  BY <1>1 DEF GraphCurrent, CommitCurrent, ReleasesPast
<1>3. drained' => ReleasesBacked'
  BY StillBacked DEF PlanServed, ReleasesBacked
<1> QED
  BY <1>1, <1>2, <1>3

(* A robot starts to follow the constraints in force: it is where they     *)
(* count it to be.                                                         *)
LEMMA AdoptSafetyInv ==
    ASSUME SafetyInv, NEW r \in Robots, Adopt(r)
    PROVE  SafetyInv'
<1> USE DEF SafetyInv
<1>1. TypeInv'
  BY RobotTypeInv
<1>2. UNCHANGED <<graph, entered, completed, activeCommit, commitSeq, constraints,
                  releaseTopic, moving, at, heads, pendingStarted, pendingCompleted,
                  releaseSeen, entryQ, drained, anchored>>
  BY DEF Adopt, nodeVars, historyVars
<1>3. \A s \in Robots : Pos(s)' = Pos(s)
  <2>1. \A s \in Robots \ {r} : adopted'[s] = adopted[s] /\ idx'[s] = idx[s]
    BY DEF Adopt, TypeInv, TypeOK
  <2>2. adopted'[r] = constraints /\ idx'[r] = (IF moving[r] THEN -1 ELSE 0) /\ ~Adopted(r)
    BY DEF Adopt, TypeInv, TypeOK
  <2> QED
    BY <1>2, <2>1, <2>2 DEF Pos, Adopted
<1>4. \A seg \in Segs : /\ HasStarted(seg)' <=> HasStarted(seg)
                        /\ HasCompleted(seg)' <=> HasCompleted(seg)
  BY <1>2, <1>3 DEF HasStarted, HasCompleted, Segs
<1>5. Forward
  BY <1>2, <1>4 DEF Forward
<1>6. /\ GraphCurrent' /\ CommitCurrent' /\ ReleasesPast' /\ Plan' = Plan
      /\ drained' => ReleasesBacked'
  BY <1>2, <1>5, RobotStep
<1>7. drained' => VisitsInOrder' /\ EventsTrue'
  BY <1>2, <1>3, <1>5, VisitsStayInOrder, SilentlyTrue DEF PlanServed
<1>8. drained' /\ anchored' => FleetOnPlan'
  BY <1>2, <1>3, <1>6 DEF FleetOnPlan, OnPath, OldMovesApart
<1> QED
  BY <1>1, <1>6, <1>7, <1>8 DEF PlanServed

(* A move reports what has just happened.                                  *)
LEMMA EmitTrue ==
    ASSUME TypeInv, EventsTrue, Forward,
           NEW r \in Robots, NEW seg, NEW ent \in BOOLEAN,
           seg = <<r, idx[r]>>, Emit(r, ent),
           IF ent THEN HasCompleted(seg)' ELSE HasStarted(seg)',
           UNCHANGED <<entered, completed, pendingStarted, pendingCompleted>>
    PROVE  EventsTrue'
<1>1. /\ \A t \in pendingStarted' \cup entered' : HasStarted(t)'
      /\ \A t \in pendingCompleted' \cup completed' : HasCompleted(t)'
  BY EventSegments DEF EventsTrue, Forward
<1>2. \A s \in Robots : \A n \in DOMAIN entryQ[s] : \A t :
         t = entryQ[s][n].segment
         => IF entryQ[s][n].entered THEN HasCompleted(t)' ELSE HasStarted(t)'
  BY EventSegments DEF EventsTrue, Forward
<1> DEFINE ev == [seq |-> nextSeq[r], segment |-> seg, entered |-> ent]
<1>3. \A s \in Robots : entryQ'[s] = IF s = r THEN Append(entryQ[r], ev) ELSE entryQ[s]
  BY DEF Emit, TypeInv, TypeOK
<1>4. entryQ[r] \in Seq(Event)
  BY DEF TypeInv, TypeOK
<1>5. \A n \in DOMAIN Append(entryQ[r], ev) :
         \/ n \in DOMAIN entryQ[r] /\ Append(entryQ[r], ev)[n] = entryQ[r][n]
         \/ Append(entryQ[r], ev)[n] = ev
  BY <1>4
<1>6. ev.entered = ent /\ ev.segment = seg
  OBVIOUS
<1> HIDE DEF ev
<1>7. \A s \in Robots : \A n \in DOMAIN entryQ'[s] : \A t :
         t = entryQ'[s][n].segment
         => IF entryQ'[s][n].entered THEN HasCompleted(t)' ELSE HasStarted(t)'
  <2> SUFFICES ASSUME NEW s \in Robots, NEW n \in DOMAIN entryQ'[s], NEW t,
                      t = entryQ'[s][n].segment
               PROVE  IF entryQ'[s][n].entered THEN HasCompleted(t)' ELSE HasStarted(t)'
    OBVIOUS
  <2>1. CASE n \in DOMAIN entryQ[s] /\ entryQ'[s][n] = entryQ[s][n]
    BY <1>2, <2>1
  <2>2. CASE entryQ'[s][n] = ev
    <3>1. t = seg /\ entryQ'[s][n].entered = ent
      BY <1>6, <2>2
    <3> QED
      BY <3>1
  <2>3. CASE s # r
    BY <1>3, <2>1, <2>3
  <2>4. CASE s = r
    <3>1. \/ n \in DOMAIN entryQ[s] /\ entryQ'[s][n] = entryQ[s][n]
          \/ entryQ'[s][n] = ev
      BY <1>3, <1>5, <2>4
    <3> QED
      BY <2>1, <2>2, <3>1
  <2> QED
    BY <2>3, <2>4
<1> QED
  BY <1>1, <1>7 DEF EventsTrue

(* A departure on the plan in force makes a segment started and reports    *)
(* just that; a departure on an older one ends what was settled.           *)
LEMMA DepartSafetyInv ==
    ASSUME SafetyInv, NEW r \in Robots, Depart(r)
    PROVE  SafetyInv'
<1> USE DEF SafetyInv
<1>1. TypeInv'
  BY RobotTypeInv
<1>2. /\ UNCHANGED <<graph, entered, completed, activeCommit, commitSeq, constraints,
                     releaseTopic, adopted, idx, at, pendingStarted, pendingCompleted,
                     releaseSeen, anchored>>
      /\ Emit(r, FALSE) /\ drained' = (drained /\ Adopted(r)) /\ ~moving[r]
  BY DEF Depart, Emit, nodeVars
<1>3. /\ \A s \in Robots : (moving[s] => moving'[s]) /\ (Adopted(s)' <=> Adopted(s))
      /\ moving'[r] /\ heads'[r] = Path(r)[idx[r] + 2]
      /\ \A s \in Robots \ {r} : moving'[s] = moving[s] /\ heads'[s] = heads[s]
  BY <1>2 DEF Depart, Adopted, TypeInv, TypeOK
<1>4. idx[r] \in Nat /\ idx[r] + 1 < Len(Path(r))
  BY DEF Depart, TypeInv, TypeOK, RobotsOnPlans
<1>5. \A s \in Robots \ {r} : Pos(s)' = Pos(s)
  BY <1>2, <1>3 DEF Pos
<1>6. Adopted(r) => Pos(r) = idx[r] /\ Pos(r)' = idx[r]
  BY <1>2, <1>3 DEF Pos
<1>7. ~Adopted(r) => Pos(r) = 0 /\ Pos(r)' = -1
  BY <1>2, <1>3 DEF Pos
<1>8. Forward
  BY <1>2, <1>3, <1>4, <1>5, <1>6, <1>7 DEF Forward, HasStarted, HasCompleted, Segs
<1>9. /\ GraphCurrent' /\ CommitCurrent' /\ ReleasesPast' /\ Plan' = Plan
      /\ drained' => ReleasesBacked'
  BY <1>2, <1>8, RobotStep
<1>10. ASSUME drained' PROVE VisitsInOrder' /\ EventsTrue'
  <2>1. drained /\ Adopted(r) /\ \A s \in Robots : Pos(s)' = Pos(s)
    BY <1>2, <1>5, <1>6, <1>10
  <2>2. VisitsInOrder'
    BY <1>8, <2>1, VisitsStayInOrder DEF PlanServed
  <2>3. EventsTrue'
    <3> PICK seg : seg = <<r, idx[r]>>
      OBVIOUS
    <3>1. HasStarted(seg)'
      BY <1>3, <1>6, <2>1 DEF HasStarted
    <3> QED
      BY <1>2, <1>8, <2>1, <3>1, EmitTrue DEF PlanServed
  <2> QED
    BY <2>2, <2>3
<1>11. ASSUME drained', anchored' PROVE FleetOnPlan'
  <2>1. /\ drained /\ anchored /\ Adopted(r) /\ FleetOnPlan
        /\ constraints.commit # None
    BY <1>2, <1>11 DEF FleetOnPlan
  <2>2. Path(r) = Plan.steps[r]
    BY <2>1 DEF Adopted, Path, Plan
  <2>3. OnPath(r)'
    <3>1. Pos(r)' + 2 <= Len(Plan.steps[r]) /\ heads'[r] = Plan.steps[r][Pos(r)' + 2]
      <4>1. Len(Plan.steps[r]) \in Nat
        BY <2>1, PlanParts
      <4> QED
        BY <1>3, <1>4, <1>6, <2>1, <2>2, <4>1
    <3>2. at[r] = Plan.steps[r][Pos(r) + 1]
      BY <1>2, <2>1 DEF FleetOnPlan, OnPath
    <3> QED
      BY <1>2, <1>3, <1>6, <1>9, <2>1, <3>1, <3>2 DEF OnPath
  <2>4. \A s \in Robots \ {r} : OnPath(s)'
    BY <1>2, <1>3, <1>5, <1>9, <2>1 DEF FleetOnPlan, OnPath
  <2>5. OldMovesApart'
    <3>1. Pos(r)' # -1
      BY <1>4, <1>6, <2>1
    <3> QED
      BY <1>2, <1>3, <1>5, <2>1, <3>1 DEF FleetOnPlan, OldMovesApart
  <2> QED
    BY <1>2, <2>1, <2>3, <2>4, <2>5 DEF FleetOnPlan
<1> QED
  BY <1>1, <1>9, <1>10, <1>11 DEF PlanServed

(* What a robot that enters a location changes.                            *)
LEMMA EnteredStep ==
    ASSUME TypeInv, NEW r \in Robots, moving[r], Entered(r),
           UNCHANGED <<commitSeq, constraints, adopted, heads>>
    PROVE  /\ Pos(r)' = Pos(r) + 1 /\ Pos(r)' \in Nat
           /\ ~moving'[r] /\ at'[r] = heads[r]
           /\ \A s \in Robots \ {r} : /\ Pos(s)' = Pos(s) /\ moving'[s] = moving[s]
                                      /\ at'[s] = at[s]
           /\ Forward
<1>1. /\ moving' = [moving EXCEPT ![r] = FALSE]
      /\ idx' = [idx EXCEPT ![r] = idx[r] + 1]
      /\ at' = [at EXCEPT ![r] = heads[r]]
      /\ idx[r] \in Nat \cup {-1}
  BY DEF Entered, TypeInv, TypeOK
<1>2. /\ ~moving'[r] /\ at'[r] = heads[r] /\ idx'[r] = idx[r] + 1
      /\ \A s \in Robots \ {r} : /\ moving'[s] = moving[s] /\ at'[s] = at[s]
                                 /\ idx'[s] = idx[s]
  BY <1>1 DEF TypeInv, TypeOK
<1>3. \A s \in Robots : Adopted(s)' <=> Adopted(s)
  BY DEF Adopted
<1>4. \A s \in Robots \ {r} : Pos(s)' = Pos(s)
  BY <1>2, <1>3 DEF Pos
<1>5. Pos(r)' = Pos(r) + 1 /\ Pos(r) \in Nat \cup {-1}
  BY <1>1, <1>2, <1>3 DEF Pos
<1>6. Forward
  <2>1. ASSUME NEW seg \in Segs
        PROVE  /\ HasStarted(seg) => HasStarted(seg)'
               /\ HasCompleted(seg) => HasCompleted(seg)'
    <3>1. seg[1] \in Robots /\ seg[2] \in Nat
      BY <2>1 DEF Segs
    <3>2. CASE seg[1] = r
      BY <1>5, <3>1, <3>2 DEF HasStarted, HasCompleted
    <3>3. CASE seg[1] # r
      BY <1>2, <1>4, <3>1, <3>3 DEF HasStarted, HasCompleted
    <3> QED
      BY <3>2, <3>3
  <2> QED
    BY <2>1 DEF Forward
<1> QED
  BY <1>2, <1>4, <1>5, <1>6

(* A fleet on the plan stays on it when one of it enters a location.       *)
LEMMA EnteredOnPlan ==
    ASSUME TypeInv, FleetOnPlan, NEW r \in Robots, moving[r], Entered(r),
           UNCHANGED <<commitSeq, constraints, adopted, heads>>
    PROVE  FleetOnPlan'
<1>1. /\ Pos(r)' = Pos(r) + 1 /\ Pos(r)' \in Nat
      /\ ~moving'[r] /\ at'[r] = heads[r]
      /\ \A s \in Robots \ {r} : /\ Pos(s)' = Pos(s) /\ moving'[s] = moving[s]
                                 /\ at'[s] = at[s]
  BY EnteredStep
<1>2. Plan' = Plan
  BY DEF Plan
<1>3. OnPath(r)'
  <2>1. Pos(r) + 2 <= Len(Plan.steps[r]) /\ heads[r] = Plan.steps[r][Pos(r) + 2]
    BY DEF FleetOnPlan, OnPath
  <2>2. Pos(r)' + 1 = Pos(r) + 2
    BY <1>1, PosType
  <2> QED
    BY <1>1, <1>2, <2>1, <2>2 DEF OnPath
<1>4. \A s \in Robots \ {r} : OnPath(s)'
  BY <1>1, <1>2 DEF FleetOnPlan, OnPath
<1>5. OldMovesApart'
  BY <1>1 DEF FleetOnPlan, OldMovesApart
<1> QED
  BY <1>3, <1>4, <1>5 DEF FleetOnPlan

(* A move of an earlier plan ends: no visit the plan orders is made.       *)
LEMMA ArriveAtStartSafetyInv ==
    ASSUME SafetyInv, NEW r \in Robots, ArriveAtStart(r)
    PROVE  SafetyInv'
<1> USE DEF SafetyInv
<1>1. TypeInv'
  BY RobotTypeInv
<1>2. /\ UNCHANGED <<graph, entered, completed, activeCommit, commitSeq, constraints,
                     releaseTopic, adopted, heads, pendingStarted, pendingCompleted,
                     releaseSeen, entryQ, drained, anchored>>
      /\ Entered(r) /\ moving[r] /\ idx[r] = -1
  BY DEF ArriveAtStart, nodeVars, historyVars
<1>3. /\ Forward /\ Pos(r) = -1 /\ Pos(r)' = 0
      /\ \A s \in Robots \ {r} : Pos(s)' = Pos(s)
  BY <1>2, EnteredStep DEF Pos
<1>4. /\ GraphCurrent' /\ CommitCurrent' /\ ReleasesPast' /\ Plan' = Plan
      /\ drained' => ReleasesBacked'
  BY <1>2, <1>3, RobotStep
<1>5. drained' => EventsTrue'
  BY <1>2, <1>3, SilentlyTrue DEF PlanServed
<1>6. ASSUME drained' PROVE VisitsInOrder'
  <2>1. SUFFICES ASSUME constraints.commit # None, NEW e \in DOMAIN Plan.visits,
                        NEW m \in 1 .. Len(Plan.visits[e].sequence) - 1
                 PROVE  LET s == Plan.visits[e].sequence
                        IN  \A q, t : /\ q = s[m + 1].robot
                                      /\ t = <<s[m].robot, s[m].index>>
                                      => (Pos(q)' >= s[m + 1].index => HasStarted(t)')
    BY <1>2, <1>4 DEF VisitsInOrder, VisitsFollow
  <2> DEFINE s == Plan.visits[e].sequence
  <2> SUFFICES ASSUME NEW q, NEW t, q = s[m + 1].robot, t = <<s[m].robot, s[m].index>>,
                      Pos(q)' >= s[m + 1].index
               PROVE  HasStarted(t)'
    OBVIOUS
  <2>2. Plan \in PlanRecords /\ WellFormed(Plan)
    BY <2>1, PlanParts DEF CommitCurrent
  <2>3. /\ Len(s) \in Nat
        /\ \A n \in 1 .. Len(s) : s[n].robot \in Robots /\ s[n].index \in Nat
    BY <2>2, VisitsType
  <2>4. m \in 1 .. Len(s) /\ m + 1 \in 1 .. Len(s)
    BY <2>3
  <2>5. q \in Robots /\ t \in Segs /\ s[m].index \in Nat /\ s[m + 1].index \in Nat
    BY <2>3, <2>4 DEF Segs
  <2>6. s[m + 1].index # 0
    <3>1. IF s[m].robot = s[m + 1].robot THEN s[m].index < s[m + 1].index
                                         ELSE s[m + 1].index # 0
      BY <2>2 DEF WellFormed, OrderedVisits
    <3> QED
      BY <2>5, <3>1
  <2>7. q # r
    BY <1>3, <2>5, <2>6
  <2>8. HasStarted(t)
    BY <1>2, <1>3, <1>6, <2>1, <2>5, <2>7 DEF PlanServed, VisitsInOrder, VisitsFollow
  <2> QED
    BY <1>3, <2>5, <2>8 DEF Forward
<1>7. drained' /\ anchored' => FleetOnPlan'
  BY <1>2, EnteredOnPlan
<1> QED
  BY <1>1, <1>4, <1>5, <1>6, <1>7 DEF PlanServed

(* A robot enters a location on the plan in force: the release it read is  *)
(* backed, so the robot before it in the visit order has left.             *)
LEMMA ArriveSafetyInv ==
    ASSUME SafetyInv, NEW r \in Robots, Arrive(r)
    PROVE  SafetyInv'
<1> USE DEF SafetyInv
<1>1. TypeInv'
  BY RobotTypeInv
<1>2. /\ UNCHANGED <<graph, entered, completed, activeCommit, commitSeq, constraints,
                     releaseTopic, adopted, heads, pendingStarted, pendingCompleted,
                     releaseSeen, anchored>>
      /\ Entered(r) /\ moving[r] /\ Emit(r, TRUE) /\ drained' = (drained /\ Adopted(r))
  BY DEF Arrive, Emit, nodeVars
<1>3. /\ Forward /\ Pos(r)' = Pos(r) + 1
      /\ \A s \in Robots \ {r} : Pos(s)' = Pos(s) /\ moving'[s] = moving[s]
  BY <1>2, EnteredStep
<1>4. idx[r] \in Nat
  BY DEF Arrive, TypeInv, TypeOK
<1>5. /\ GraphCurrent' /\ CommitCurrent' /\ ReleasesPast' /\ Plan' = Plan
      /\ drained' => ReleasesBacked'
  BY <1>2, <1>3, RobotStep
<1>6. ASSUME drained'
      PROVE  /\ drained /\ Adopted(r) /\ constraints.commit # None
             /\ Pos(r) = idx[r] /\ Pos(r)' = idx[r] + 1
             /\ EventsTrue /\ ReleasesBacked /\ VisitsInOrder
  BY <1>2, <1>3, <1>6 DEF Adopted, Pos, PlanServed
<1>7. ASSUME drained' PROVE EventsTrue'
  <2> PICK seg : seg = <<r, idx[r]>>
    OBVIOUS
  <2>1. HasCompleted(seg)'
    BY <1>4, <1>6, <1>7 DEF HasCompleted
  <2> QED
    BY <1>2, <1>3, <1>6, <1>7, <2>1, EmitTrue
<1>8. ASSUME drained'
      PROVE  \A d \in OrderingDeps(Plan) : d[2] = <<r, idx[r]>> => HasStarted(d[1])
  <2>1. /\ releaseSeen[r].commit = constraints.commit
        /\ <<r, idx[r]>> \in releaseSeen[r].bits
    BY <1>6, <1>8 DEF Arrive, MayEnter, Adopted
  <2>2. BackedRelease(releaseSeen[r])
    BY <1>6, <1>8 DEF ReleasesBacked
  <2> QED
    BY <1>6, <1>8, <2>1, <2>2, CompletedStarted DEF BackedRelease, Backed
<1>9. ASSUME drained' PROVE VisitsInOrder'
  <2>1. SUFFICES ASSUME NEW e \in DOMAIN Plan.visits,
                        NEW m \in 1 .. Len(Plan.visits[e].sequence) - 1
                 PROVE  LET s == Plan.visits[e].sequence
                        IN  \A q, t : /\ q = s[m + 1].robot
                                      /\ t = <<s[m].robot, s[m].index>>
                                      => (Pos(q)' >= s[m + 1].index => HasStarted(t)')
    BY <1>5 DEF VisitsInOrder, VisitsFollow
  <2> DEFINE s == Plan.visits[e].sequence
  <2> SUFFICES ASSUME NEW q, NEW t, q = s[m + 1].robot, t = <<s[m].robot, s[m].index>>,
                      Pos(q)' >= s[m + 1].index
               PROVE  HasStarted(t)'
    OBVIOUS
  <2>2. Plan \in PlanRecords /\ WellFormed(Plan)
        /\ CompiledEntries(Plan) = DOMAIN Plan.visits
    BY <1>6, <1>9, PlanParts, OutcomeOk DEF CommitCurrent
  <2>3. /\ Len(s) \in Nat
        /\ \A n \in 1 .. Len(s) : s[n].robot \in Robots /\ s[n].index \in Nat
    BY <2>2, VisitsType
  <2>4. m \in 1 .. Len(s) /\ m + 1 \in 1 .. Len(s)
    BY <2>3
  <2>5. q \in Robots /\ t \in Segs /\ s[m].index \in Nat /\ s[m + 1].index \in Nat
    BY <2>3, <2>4 DEF Segs
  <2>6. CASE Pos(q) >= s[m + 1].index
    <3>1. HasStarted(t)
      BY <1>6, <1>9, <2>6 DEF VisitsInOrder, VisitsFollow
    <3> QED
      BY <1>3, <2>5, <3>1 DEF Forward
  <2>7. CASE ~(Pos(q) >= s[m + 1].index)
    <3>1. q = r /\ s[m + 1].index = idx[r] + 1
      BY <1>3, <1>4, <1>6, <1>9, <2>5, <2>7
    <3>2. CASE s[m].robot = r
      <4>1. s[m].index < idx[r] + 1
        BY <2>2, <3>1, <3>2 DEF WellFormed, OrderedVisits
      <4> QED
        BY <1>4, <1>6, <1>9, <2>5, <3>2, <4>1 DEF HasStarted
    <3>3. CASE s[m].robot # r
      <4>1. m \in Handovers(Plan, e)
        <5>1. s[m].robot # s[m + 1].robot /\ s[m + 1].index # 0
          BY <1>4, <3>1, <3>3
        <5> QED
          BY <2>1, <5>1 DEF Handovers
      <4>2. Dep(Plan, e, m) = <<t, <<r, idx[r]>> >>
        BY <1>4, <3>1 DEF Dep
      <4>3. Dep(Plan, e, m) \in OrderingDeps(Plan)
        BY <2>2, <4>1 DEF OrderingDeps
      <4>4. HasStarted(t)
        BY <1>8, <1>9, <4>2, <4>3
      <4> QED
        BY <1>3, <2>5, <4>4 DEF Forward
    <3> QED
      BY <3>2, <3>3
  <2> QED
    BY <2>6, <2>7
<1>10. drained' /\ anchored' => FleetOnPlan'
  BY <1>2, EnteredOnPlan
<1> QED
  BY <1>1, <1>5, <1>7, <1>9, <1>10 DEF PlanServed

(* Every step keeps the safety invariant.                                  *)
LEMMA NextSafetyInv ==
    ASSUME PlannerKeepsContract
    PROVE  SafetyInv /\ [Next]_vars => SafetyInv'
<1> SUFFICES ASSUME SafetyInv, [Next]_vars
             PROVE  SafetyInv'
  OBVIOUS
<1>1. CASE OnTick
  BY <1>1, OnTickSafetyInv
<1>2. ASSUME NEW i \in DOMAIN Plans, OnPlan(i) PROVE SafetyInv'
  BY <1>2, AcceptedSafetyInv, RefusedSafetyInv
<1>3. CASE \E edge \in StopEdges : OnStopDeclarations(edge)
  BY <1>3, QuietSafetyInv
<1>4. CASE \E r \in Robots : Robot(r) \/ LoseEvent(r)
  BY <1>4, OnEntryEventsSafetyInv, QuietSafetyInv, AdoptSafetyInv, DepartSafetyInv,
     ArriveSafetyInv, ArriveAtStartSafetyInv, LoseEventSafetyInv DEF Robot, Move
<1>5. CASE UNCHANGED vars
  BY <1>5, QuietSafetyInv
<1> QED
  BY <1>1, <1>2, <1>3, <1>4, <1>5 DEF Next

(* Behind the safety properties, for plans that come at any time: the      *)
(* graph is that of the plan in force or empty; if the plan took over      *)
(* drained, every report is true of it, every release is backed and every  *)
(* location is visited in the planned order; if it was anchored, too, the  *)
(* robots are on its paths.                                                *)
THEOREM SafetyInvariance ==
    ASSUME PlannerKeepsContract
    PROVE  Spec => []SafetyInv
BY InitSafetyInv, NextSafetyInv, PTL DEF Spec
-----------------------------------------------------------------------------
(* The visit sequences, read backwards: a robot that is at a visit or past *)
(* it has every earlier visit of the location behind it.                   *)

(* The robot of the m-th visit of a location has left it when the robot of *)
(* a later visit, the n-th, is there.                                      *)
LEMMA EarlierVisitsLeft ==
    ASSUME TypeInv, VisitsInOrder, constraints.commit # None,
           NEW e \in DOMAIN Plan.visits,
           NEW m \in DOMAIN Plan.visits[e].sequence,
           NEW n \in DOMAIN Plan.visits[e].sequence, m < n,
           Pos(Plan.visits[e].sequence[n].robot) >= Plan.visits[e].sequence[n].index
    PROVE  HasStarted(<<Plan.visits[e].sequence[m].robot,
                        Plan.visits[e].sequence[m].index>>)
<1> DEFINE s == Plan.visits[e].sequence
           T == {x \in m + 1 .. n : Pos(s[x].robot) >= s[x].index}
<1>1. Plan \in PlanRecords
  BY PlanParts
<1>2. /\ s \in Seq(VisitItems) /\ Len(s) \in Nat
      /\ \A x \in 1 .. Len(s) : s[x].robot \in Robots /\ s[x].index \in Nat
  BY <1>1, VisitsType
<1>3. m \in 1 .. Len(s) /\ n \in 1 .. Len(s) /\ m \in Nat /\ n \in Nat
  BY <1>2
<1>4. \A x \in 1 .. Len(s) - 1 : Pos(s[x + 1].robot) >= s[x + 1].index
                                 => HasStarted(<<s[x].robot, s[x].index>>)
  BY DEF VisitsInOrder, VisitsFollow
<1>5. T \in SUBSET Nat /\ n \in T
  BY <1>3
<1>6. PICK x \in T : \A y \in T : x <= y
  BY <1>5, LeastNatural
<1>7. x \in m + 1 .. n /\ Pos(s[x].robot) >= s[x].index
  BY <1>6
<1> HIDE DEF T
<1>8. x - 1 \in 1 .. Len(s) - 1 /\ (x - 1) + 1 = x
  BY <1>2, <1>3, <1>7
<1>9. HasStarted(<<s[x - 1].robot, s[x - 1].index>>)
  BY <1>4, <1>7, <1>8
<1>10. CASE x = m + 1
  BY <1>3, <1>9, <1>10
<1>11. CASE x # m + 1
  <2>1. x - 1 \in m + 1 .. n
    BY <1>3, <1>7, <1>11
  <2>2. /\ s[x - 1].robot \in Robots /\ s[x - 1].index \in Nat
        /\ Pos(s[x - 1].robot) \in Nat \cup {-1}
    <3>1. x - 1 \in 1 .. Len(s)
      BY <1>2, <1>8
    <3>2. s[x - 1].robot \in Robots /\ s[x - 1].index \in Nat
      BY <1>2, <3>1
    <3> QED
      BY <3>2, PosType
  <2>3. Pos(s[x - 1].robot) >= s[x - 1].index
    BY <1>9, <2>2 DEF HasStarted
  <2>4. x - 1 \in T
    BY <2>1, <2>3 DEF T
  <2> QED
    BY <1>3, <1>6, <1>7, <2>4
<1> QED
  BY <1>10, <1>11

(* The same for two named visits of one entry.                             *)
LEMMA EarlierVisitLeft ==
    ASSUME TypeInv, VisitsInOrder, constraints.commit # None,
           NEW r, NEW i, NEW q, NEW j, VisitBefore(Plan, r, i, q, j), j = Pos(q),
           j \in Nat
    PROVE  HasStarted(<<r, i>>)
<1>1. PICK e \in DOMAIN Plan.visits : \E m, n \in DOMAIN Plan.visits[e].sequence :
         /\ m < n
         /\ Plan.visits[e].sequence[m] = [robot |-> r, index |-> i]
         /\ Plan.visits[e].sequence[n] = [robot |-> q, index |-> j]
  BY DEF VisitBefore
<1>2. PICK m \in DOMAIN Plan.visits[e].sequence, n \in DOMAIN Plan.visits[e].sequence :
         /\ m < n
         /\ Plan.visits[e].sequence[m] = [robot |-> r, index |-> i]
         /\ Plan.visits[e].sequence[n] = [robot |-> q, index |-> j]
  BY <1>1
<1>3. Pos(Plan.visits[e].sequence[n].robot) >= Plan.visits[e].sequence[n].index
  BY <1>2
<1> QED
  BY <1>2, <1>3, EarlierVisitsLeft

(* A robot that stands on a visit has not left it.                         *)
LEMMA StandingNotLeft ==
    ASSUME TypeInv, NEW r \in Robots, ~moving[r]
    PROVE  ~HasStarted(<<r, Pos(r)>>)
BY PosType DEF HasStarted

(* Two visits of one location by different robots are in one entry, so one *)
(* comes first.                                                            *)
LEMMA SharedVisitsOrdered ==
    ASSUME NEW p \in PlanRecords, WellFormed(p),
           NEW r \in Robots, NEW s \in Robots, r # s, NEW i \in Nat, NEW j \in Nat,
           i + 1 <= Len(p.steps[r]), j + 1 <= Len(p.steps[s]),
           p.steps[r][i + 1] = p.steps[s][j + 1]
    PROVE  VisitBefore(p, r, i, s, j) \/ VisitBefore(p, s, j, r, i)
<1>1. Len(p.steps[r]) \in Nat /\ Len(p.steps[s]) \in Nat
  BY DEF PlanRecords
<1>2. PICK x \in Nat, y \in Nat : x = i + 1 /\ y = j + 1 /\ x - 1 = i /\ y - 1 = j
  OBVIOUS
<1>3. x \in 1 .. Len(p.steps[r]) /\ y \in 1 .. Len(p.steps[s])
  BY <1>1, <1>2
<1>4. PICK e \in DOMAIN p.visits :
         \E m, n \in DOMAIN p.visits[e].sequence :
            /\ p.visits[e].sequence[m] = [robot |-> r, index |-> i]
            /\ p.visits[e].sequence[n] = [robot |-> s, index |-> j]
  <2>1. p.steps[r][x] = p.steps[s][y]
    BY <1>2
  <2>2. \E e \in DOMAIN p.visits :
           \E m, n \in DOMAIN p.visits[e].sequence :
              /\ p.visits[e].sequence[m] = [robot |-> r, index |-> x - 1]
              /\ p.visits[e].sequence[n] = [robot |-> s, index |-> y - 1]
    BY <1>3, <2>1 DEF WellFormed, CoversSharedVisits
  <2> QED
    BY <1>2, <2>2
<1>5. PICK m \in DOMAIN p.visits[e].sequence, n \in DOMAIN p.visits[e].sequence :
         /\ p.visits[e].sequence[m] = [robot |-> r, index |-> i]
         /\ p.visits[e].sequence[n] = [robot |-> s, index |-> j]
  BY <1>4
<1>6. m # n
  BY <1>5
<1>7. m \in Nat /\ n \in Nat
  <2>1. p.visits[e].sequence \in Seq(VisitItems)
    BY VisitsType
  <2> QED
    BY <2>1
<1>8. m < n \/ n < m
  BY <1>6, <1>7
<1> QED
  BY <1>5, <1>8 DEF VisitBefore

(* A visit at a start comes first, so two robots do not start together and *)
(* no visit comes before one at a start.                                   *)
LEMMA StartsFirst ==
    ASSUME NEW p \in PlanRecords, WellFormed(p),
           NEW r \in Robots, NEW s \in Robots, r # s, NEW i \in Nat
    PROVE  ~VisitBefore(p, s, i, r, 0)
<1> SUFFICES ASSUME VisitBefore(p, s, i, r, 0) PROVE FALSE
  OBVIOUS
<1>1. PICK e \in DOMAIN p.visits : \E m, n \in DOMAIN p.visits[e].sequence :
         /\ m < n
         /\ p.visits[e].sequence[m] = [robot |-> s, index |-> i]
         /\ p.visits[e].sequence[n] = [robot |-> r, index |-> 0]
  BY DEF VisitBefore
<1> DEFINE q == p.visits[e].sequence
<1>2. PICK m \in DOMAIN q, n \in DOMAIN q :
         m < n /\ q[n] = [robot |-> r, index |-> 0]
  BY <1>1
<1>3. /\ q \in Seq(VisitItems) /\ Len(q) \in Nat
      /\ \A x \in 1 .. Len(q) : q[x].robot \in Robots /\ q[x].index \in Nat
  BY VisitsType
<1>4. n - 1 \in 1 .. Len(q) - 1 /\ n - 1 \in 1 .. Len(q) /\ (n - 1) + 1 = n
  BY <1>2, <1>3
<1>5. PICK x \in 1 .. Len(q) - 1 : x + 1 = n /\ x \in 1 .. Len(q)
  BY <1>4
<1>6. IF q[x].robot = q[x + 1].robot THEN q[x].index < q[x + 1].index
                                     ELSE q[x + 1].index # 0
  BY DEF WellFormed, OrderedVisits
<1>7. q[x].index \in Nat /\ q[n].index = 0
  BY <1>2, <1>3, <1>5
<1> QED
  BY <1>5, <1>6, <1>7

(* Two robots on one location would both be at a visit of one sequence, and *)
(* the earlier of the two visits is over.                                  *)
LEMMA ExclusionHolds ==
    ASSUME SafetyInv
    PROVE  VertexExclusion
<1> SUFFICES ASSUME drained, anchored,
                    NEW r \in Robots, NEW s \in Robots, r # s,
                    ~moving[r], ~moving[s], at[r] = at[s]
             PROVE  FALSE
  BY DEF VertexExclusion, Apart
<1> USE DEF SafetyInv
<1>1. FleetOnPlan /\ VisitsInOrder /\ constraints.commit # None
  BY DEF FleetOnPlan, PlanServed
<1>2. Plan \in PlanRecords /\ WellFormed(Plan)
  BY <1>1, PlanParts DEF CommitCurrent
<1>3. Pos(r) \in Nat /\ Pos(s) \in Nat
  BY PosType
<1>4. /\ Pos(r) + 1 <= Len(Plan.steps[r]) /\ at[r] = Plan.steps[r][Pos(r) + 1]
      /\ Pos(s) + 1 <= Len(Plan.steps[s]) /\ at[s] = Plan.steps[s][Pos(s) + 1]
  BY <1>1 DEF FleetOnPlan, OnPath
<1>5. VisitBefore(Plan, r, Pos(r), s, Pos(s)) \/ VisitBefore(Plan, s, Pos(s), r, Pos(r))
  BY <1>2, <1>3, <1>4, SharedVisitsOrdered
<1>6. HasStarted(<<r, Pos(r)>>) \/ HasStarted(<<s, Pos(s)>>)
  BY <1>1, <1>3, <1>5, EarlierVisitLeft
<1> QED
  BY <1>6, StandingNotLeft

(* Two robots never stand on one location under a plan that took over      *)
(* drained and started the robots where they were, standing or moving:     *)
(* whatever the fleet, the map and the plans before it, late, stale and    *)
(* lost messages and plans the H-cons intake rejects do no harm as long as *)
(* the planner orders the visits of every shared location.                 *)
THEOREM Exclusion ==
    ASSUME PlannerKeepsContract
    PROVE  Spec => []VertexExclusion
BY SafetyInvariance, ExclusionHolds, PTL

(* An open bit for the constraints in force is backed by what the robots   *)
(* have done, each following predecessor has left, each opposing one has   *)
(* arrived, if the plan took over drained: wherever it starts the robots,  *)
(* and while they move.                                                    *)
THEOREM ReleasesAreSound ==
    ASSUME PlannerKeepsContract
    PROVE  Spec => []ReleaseSound
<1>1. SafetyInv => ReleaseSound
  <2> SUFFICES ASSUME SafetyInv, drained, NEW r \in Robots, constraints.commit # None,
                      releaseSeen[r].commit = constraints.commit,
                      NEW d \in Dependencies[constraints.plan], d[2] \in releaseSeen[r].bits
               PROVE  IF IsOpposing(Plan, d) THEN HasCompleted(d[1]) ELSE HasStarted(d[1])
    BY DEF ReleaseSound, BitsTrue
  <2>1. d \in OrderingDeps(Plan)
    BY PlanParts DEF SafetyInv
  <2>2. BackedRelease(releaseSeen[r])
    BY DEF SafetyInv, PlanServed, ReleasesBacked
  <2> QED
    BY <2>1, <2>2 DEF BackedRelease, Backed
<1> QED
  BY <1>1, SafetyInvariance, PTL
-----------------------------------------------------------------------------
(* Stability of the published bits.  A tick recomputes them from scratch,  *)
(* so an open bit survives only because the accounting behind it grows     *)
(* under one commit number: the bits published for the active commit are   *)
(* among those the graph would release now.                                *)

OpenBitsHold ==
    \A r \in Robots :
        Publishes(graph, r) /\ releaseTopic[r].commit = activeCommit
        => \A seg \in releaseTopic[r].bits :
              seg \in ReleaseBits(graph, entered, completed) /\ seg[1] = r

(* More events never close a bit.                                          *)
LEMMA MoreEventsMoreBits ==
    ASSUME NEW g, NEW e1, NEW c1, NEW e2, NEW c2, e1 \subseteq e2, c1 \subseteq c2
    PROVE  ReleaseBits(g, e1, c1) \subseteq ReleaseBits(g, e2, c2)
BY DEF ReleaseBits, Permitted

(* Nothing is published at the start.                                      *)
LEMMA InitOpenBits == Init => OpenBitsHold
BY DEF Init, OpenBitsHold, Publishes, EmptyGraph

(* A tick only adds to the accounting, so it only opens bits.              *)
LEMMA TickKeepsBits ==
    ASSUME OpenBitsHold, OnTick, TypeInv
    PROVE  /\ OpenBitsHold'
           /\ \A r \in Robots : releaseTopic'[r].commit = releaseTopic[r].commit
                                => releaseTopic[r].bits \subseteq releaseTopic'[r].bits
<1>1. /\ graph' = graph /\ activeCommit' = activeCommit
      /\ entered \subseteq entered' /\ completed \subseteq completed'
      /\ released' = ReleaseBits(graph, entered', completed')
  BY DEF OnTick, DrainedEntered, DrainedCompleted
<1>2. ReleaseBits(graph, entered, completed) \subseteq released'
  BY <1>1, MoreEventsMoreBits
<1>3. \A r \in Robots :
         IF Publishes(graph, r)
         THEN /\ releaseTopic'[r].commit = activeCommit
              /\ releaseTopic'[r].bits = {seg \in released' : seg[1] = r}
         ELSE releaseTopic'[r] = releaseTopic[r]
  <2>1. releaseTopic' = [r \in Robots |->
          IF Publishes(graph, r)
          THEN [commit |-> activeCommit,
                bits   |-> {seg \in released' : seg[1] = r},
                ack    |-> entryAck[r]]
          ELSE releaseTopic[r]]
    BY DEF OnTick
  <2> QED
    BY <2>1
<1>4. \A r \in Robots : Publishes(graph, r)' <=> Publishes(graph, r)
  BY <1>1 DEF Publishes
<1>5. ReleaseBits(graph, entered, completed)' = released'
  BY <1>1
<1>6. OpenBitsHold'
  <2> SUFFICES ASSUME NEW r \in Robots, Publishes(graph, r)',
                      NEW seg \in releaseTopic'[r].bits
               PROVE  seg \in ReleaseBits(graph, entered, completed)' /\ seg[1] = r
    BY DEF OpenBitsHold
  <2>1. seg \in released' /\ seg[1] = r
    BY <1>3, <1>4
  <2> QED
    BY <1>5, <2>1
<1>7. ASSUME NEW r \in Robots, releaseTopic'[r].commit = releaseTopic[r].commit
      PROVE  releaseTopic[r].bits \subseteq releaseTopic'[r].bits
  <2>1. CASE Publishes(graph, r)
    <3>1. /\ releaseTopic[r].commit = activeCommit
          /\ releaseTopic'[r].bits = {seg \in released' : seg[1] = r}
      BY <1>3, <1>7, <2>1
    <3>2. \A seg \in releaseTopic[r].bits : seg \in released' /\ seg[1] = r
      BY <1>2, <2>1, <3>1 DEF OpenBitsHold
    <3> QED
      BY <3>1, <3>2
  <2>2. CASE ~Publishes(graph, r)
    BY <1>3, <2>2
  <2> QED
    BY <2>1, <2>2
<1> QED
  BY <1>6, <1>7

(* A new graph comes with a commit number nothing was published for, and a *)
(* rejected plan leaves nothing to publish.                                *)
LEMMA PlanKeepsBits ==
    ASSUME PlannerKeepsContract, SafetyInv, NEW i \in DOMAIN Plans, OnPlan(i)
    PROVE  OpenBitsHold' /\ UNCHANGED releaseTopic
<1>1. releaseTopic' = releaseTopic /\ graph' = CompiledGraph(Plans[i])
  BY PlanType DEF OnPlan
<1>2. CASE i \in Accepted
  <2>1. activeCommit' = commitSeq
    BY <1>2 DEF OnPlan
  <2>2. ASSUME NEW r \in Robots PROVE releaseTopic[r].commit # commitSeq
    <3>1. releaseTopic[r].commit < commitSeq
      BY DEF SafetyInv, ReleasesPast
    <3>2. \A c \in Nat : ~(c < c)
      OBVIOUS
    <3>3. commitSeq \in Nat
      BY DEF SafetyInv, TypeInv, TypeOK
    <3> QED
      BY <3>1, <3>2, <3>3
  <2> QED
    BY <1>1, <2>1, <2>2 DEF OpenBitsHold
<1>3. CASE i \notin Accepted
  <2>1. graph' = EmptyGraph
    BY <1>1, <1>3, PlanType DEF PlannerKeepsContract, CompiledGraph
  <2>2. \A r \in Robots : ~Publishes(graph, r)'
    BY <2>1 DEF Publishes, EmptyGraph
  <2> QED
    BY <1>1, <2>2 DEF OpenBitsHold
<1> QED
  BY <1>2, <1>3

(* No step closes a bit under its commit number.                           *)
LEMMA NextKeepsBits ==
    ASSUME PlannerKeepsContract, SafetyInv, OpenBitsHold, [Next]_vars
    PROVE  /\ OpenBitsHold'
           /\ \A r \in Robots : releaseTopic'[r].commit = releaseTopic[r].commit
                                => releaseTopic[r].bits \subseteq releaseTopic'[r].bits
<1>1. CASE OnTick
  BY <1>1, TickKeepsBits DEF SafetyInv
<1>2. CASE \E i \in DOMAIN Plans : OnPlan(i)
  BY <1>2, PlanKeepsBits
<1>3. CASE UNCHANGED <<graph, entered, completed, activeCommit, releaseTopic>>
  BY <1>3 DEF OpenBitsHold, Publishes
<1>4. CASE \E edge \in StopEdges : OnStopDeclarations(edge)
  BY <1>3, <1>4 DEF OnStopDeclarations, graphVars
<1>5. ASSUME NEW r \in Robots, Robot(r) \/ LoseEvent(r)
      PROVE  UNCHANGED <<graph, entered, completed, activeCommit, releaseTopic>>
  BY <1>5 DEF Robot, Move, LoseEvent, OnEntryEvents, DeliverRelease, Adopt, Depart,
              Arrive, ArriveAtStart, nodeVars, graphVars
<1>6. CASE UNCHANGED vars
  BY <1>3, <1>6 DEF vars, nodeVars
<1> QED
  BY <1>1, <1>2, <1>3, <1>4, <1>5, <1>6 DEF Next

(* A bit that was published open stays open under its commit number,       *)
(* although every tick computes the bits anew.                             *)
THEOREM BitsAreStable ==
    ASSUME PlannerKeepsContract
    PROVE  Spec => ReleaseStable
<1> DEFINE IInv == SafetyInv /\ OpenBitsHold
           Kept == \A r \in Robots :
                      releaseTopic'[r].commit = releaseTopic[r].commit
                      => releaseTopic[r].bits \subseteq releaseTopic'[r].bits
<1>1. Init => IInv
  BY InitSafetyInv, InitOpenBits
<1>2. IInv /\ [Next]_vars => IInv'
  BY NextSafetyInv, NextKeepsBits
<1>3. IInv /\ [Next]_vars => [Kept]_vars
  BY NextKeepsBits
<1> QED
  BY <1>1, <1>2, <1>3, PTL DEF Spec, ReleaseStable
-----------------------------------------------------------------------------
(* Between locations.  A robot in motion has not arrived, so of two robots *)
(* that cross one edge in opposite directions the later one of the plan    *)
(* cannot be on it yet.                                                    *)

CrossingsAreOrdered == \A i \in DOMAIN Plans : HconsOk(Plans[i]) => CrossingsOrdered(Plans[i])

(* Of two opposite crossings the plan orders one after the other's visit of *)
(* its far end, and a robot on the edge has not made that visit yet.       *)
LEMMA CrossingsApart ==
    ASSUME CrossingsAreOrdered, SafetyInv, FleetOnPlan, VisitsInOrder,
           NEW r \in Robots, NEW s \in Robots, r # s, moving[r], moving[s],
           Pos(r) # -1, Pos(s) # -1, at[r] = heads[s], at[s] = heads[r]
    PROVE  FALSE
<1> USE DEF SafetyInv
<1>1. constraints.commit # None /\ constraints.plan \in DOMAIN Plans
  BY PlanParts DEF FleetOnPlan
<1>2. CrossingsOrdered(Plan)
  BY <1>1, OutcomeOk DEF CommitCurrent, CrossingsAreOrdered, Plan
<1>3. /\ Pos(r) \in Nat /\ Pos(s) \in Nat
      /\ Len(Plan.steps[r]) \in Nat /\ Len(Plan.steps[s]) \in Nat
  BY <1>1, PosType, PlanParts
<1>4. /\ Pos(r) + 2 <= Len(Plan.steps[r]) /\ heads[r] = Plan.steps[r][Pos(r) + 2]
      /\ at[r] = Plan.steps[r][Pos(r) + 1]
      /\ Pos(s) + 2 <= Len(Plan.steps[s]) /\ heads[s] = Plan.steps[s][Pos(s) + 2]
      /\ at[s] = Plan.steps[s][Pos(s) + 1]
  BY DEF FleetOnPlan, OnPath
<1>5. PICK i \in Nat, j \in Nat :
         /\ i = Pos(r) + 1 /\ j = Pos(s) + 1
         /\ i + 1 = Pos(r) + 2 /\ j + 1 = Pos(s) + 2
         /\ i - 1 = Pos(r) /\ j - 1 = Pos(s)
         /\ i \in 1 .. Len(Plan.steps[r]) - 1 /\ j \in 1 .. Len(Plan.steps[s]) - 1
  BY <1>3, <1>4
<1>6. /\ Plan.steps[r][i] = Plan.steps[s][j + 1]
      /\ Plan.steps[r][i + 1] = Plan.steps[s][j]
  BY <1>4, <1>5
<1>7. VisitBefore(Plan, r, i, s, j - 1) \/ VisitBefore(Plan, s, j, r, i - 1)
  BY <1>2, <1>5, <1>6 DEF CrossingsOrdered
<1>8. HasStarted(<<r, i>>) \/ HasStarted(<<s, j>>)
  BY <1>1, <1>3, <1>5, <1>7, EarlierVisitLeft
<1> QED
  BY <1>3, <1>5, <1>8 DEF HasStarted

(* A robot that still ends a move of an earlier plan heads for its start,  *)
(* which nobody leaves before it has been there.                           *)
LEMMA StartNotLeft ==
    ASSUME SafetyInv, FleetOnPlan, VisitsInOrder,
           NEW r \in Robots, NEW s \in Robots, r # s, moving[r], moving[s],
           Pos(r) = -1, Pos(s) # -1, at[s] = heads[r]
    PROVE  FALSE
<1> USE DEF SafetyInv
<1>1. constraints.commit # None /\ Plan \in PlanRecords /\ WellFormed(Plan)
  BY PlanParts DEF FleetOnPlan, CommitCurrent
<1>2. /\ Pos(s) \in Nat
      /\ Len(Plan.steps[r]) \in Nat /\ Len(Plan.steps[s]) \in Nat
  BY <1>1, PosType, PlanParts
<1>3. /\ 1 <= Len(Plan.steps[r]) /\ heads[r] = Plan.steps[r][1]
      /\ Pos(s) + 1 <= Len(Plan.steps[s]) /\ at[s] = Plan.steps[s][Pos(s) + 1]
  BY <1>2 DEF FleetOnPlan, OnPath
<1>4. \/ VisitBefore(Plan, r, 0, s, Pos(s))
      \/ VisitBefore(Plan, s, Pos(s), r, 0)
  BY <1>1, <1>2, <1>3, SharedVisitsOrdered
<1>5. VisitBefore(Plan, r, 0, s, Pos(s))
  BY <1>1, <1>2, <1>4, StartsFirst
<1>6. HasStarted(<<r, 0>>)
  BY <1>1, <1>2, <1>5, EarlierVisitLeft
<1> QED
  BY <1>6 DEF HasStarted

(* So two moves meet head on neither within the plan in force, nor across  *)
(* two plans, nor within an earlier one.                                   *)
LEMMA NoHeadOnHolds ==
    ASSUME CrossingsAreOrdered, SafetyInv
    PROVE  NoHeadOn
<1> SUFFICES ASSUME drained, anchored,
                    NEW r \in Robots, NEW s \in Robots, r # s, moving[r], moving[s],
                    at[r] = heads[s], at[s] = heads[r]
             PROVE  FALSE
  BY DEF NoHeadOn, HeadOn
<1>1. FleetOnPlan /\ VisitsInOrder
  BY DEF SafetyInv, PlanServed
<1>2. CASE Pos(r) = -1 /\ Pos(s) = -1
  BY <1>1, <1>2 DEF FleetOnPlan, OldMovesApart
<1>3. CASE Pos(r) = -1 /\ Pos(s) # -1
  BY <1>1, <1>3, StartNotLeft
<1>4. CASE Pos(r) # -1 /\ Pos(s) = -1
  BY <1>1, <1>4, StartNotLeft
<1>5. CASE Pos(r) # -1 /\ Pos(s) # -1
  BY <1>1, <1>5, CrossingsApart
<1> QED
  BY <1>2, <1>3, <1>4, <1>5

(* Two robots never meet head on between two locations, under a plan that  *)
(* took over drained and started the robots where they were, when the      *)
(* plans order every pair of opposite crossings of an edge: moves begun    *)
(* under earlier plans are included.                                       *)
THEOREM HeadOnFree ==
    ASSUME PlannerKeepsContract, CrossingsAreOrdered
    PROVE  Spec => []NoHeadOn
BY SafetyInvariance, NoHeadOnHolds, PTL
-----------------------------------------------------------------------------
(* Escalation.  The policy is told of an escalation it ordered but never   *)
(* that it ended: the node does not call what would clear the flag.        *)

(* No step climbs from the first rung to the second.                       *)
LEMMA LadderStep ==
    ASSUME TypeOK, NeverPartialReplan, [Next]_vars
    PROVE  NeverPartialReplan'
<1>1. CASE OnTick
  <2>1. /\ rung \in 0 .. 3 /\ blocked \subseteq blocked'
        /\ blocked' = blocked \cup pendingBlocked
    BY <1>1 DEF OnTick, TypeOK
  <2>2. CASE Escalates(policy, blocked \cup pendingBlocked)
    <3>1. /\ rung' = StepUp(rung) /\ policy'.pending /\ blocked' # {}
      BY <1>1, <2>1, <2>2 DEF OnTick, Escalates
    <3>2. rung = 0
      BY <2>1, <2>2 DEF Escalates, NeverPartialReplan
    <3> QED
      BY <3>1, <3>2 DEF StepUp, NeverPartialReplan
  <2>3. CASE ~Escalates(policy, blocked \cup pendingBlocked)
    <3>1. UNCHANGED <<rung, policy>>
      BY <1>1, <2>3 DEF OnTick
    <3> QED
      BY <2>1, <3>1 DEF NeverPartialReplan
  <2> QED
    BY <2>2, <2>3
<1>2. CASE \E i \in DOMAIN Plans : OnPlan(i)
  BY <1>2 DEF OnPlan, ResetRuntime, NeverPartialReplan
<1>3. CASE UNCHANGED <<rung, blocked, policy>>
  BY <1>3 DEF NeverPartialReplan
<1>4. CASE \E edge \in StopEdges : OnStopDeclarations(edge)
  BY <1>3, <1>4 DEF OnStopDeclarations, graphVars
<1>5. ASSUME NEW r \in Robots, Robot(r) \/ LoseEvent(r)
      PROVE  UNCHANGED <<rung, blocked, policy>>
  BY <1>5 DEF Robot, Move, LoseEvent, OnEntryEvents, DeliverRelease, Adopt, Depart,
              Arrive, ArriveAtStart, nodeVars, graphVars
<1>6. CASE UNCHANGED vars
  BY <1>3, <1>6 DEF vars, nodeVars
<1> QED
  BY <1>1, <1>2, <1>3, <1>4, <1>5, <1>6 DEF Next

(* The node never climbs past the first rung of its escalation ladder,     *)
(* however many edges are declared blocked and however often the plan      *)
(* changes: the flag of the first escalation holds every other one back.   *)
THEOREM FirstRungIsLast == Spec => []NeverPartialReplan
<1>1. Init => NeverPartialReplan
  BY DEF Init, NeverPartialReplan
<1> QED
  BY <1>1, LadderStep, TypeCorrect, PTL DEF Spec
=============================================================================

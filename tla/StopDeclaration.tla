-------------------------- MODULE StopDeclaration --------------------------
(***************************************************************************)
(* How a blocked edge becomes a stop declaration: the simulated laser of   *)
(* mrs_sim/observation_node (blockages of the scenario, one scan per       *)
(* robot, best effort), the onboard node of mrs_trajopt (latched inputs,   *)
(* age of the latest scan, hysteresis, evidence of an infeasible subgoal,  *)
(* declarations on a change only).  The execution server that takes the    *)
(* declarations is in SadgExecution; the transport is external.            *)
(*                                                                         *)
(* Lengths are multiples of the smallest range of the laser.  A robot's    *)
(* heading is along the edge it drives on, so its scan is the one reading  *)
(* along that edge; the readings across it never fall below the threshold. *)
(***************************************************************************)
EXTENDS Integers, Sequences

CONSTANTS
    Robots,
    Edges,
    NoEdge,        \* "no segment"
    Lane,          \* the edge a robot drives on
    Length,        \* length of the edges
    Occlusion,     \* obs_occlusion_range_m
    Events,        \* the blockages of the scenario, in the order of time
    Commits,       \* the first segment per robot, by commit of the server
    NOpen, NClose, NHold,   \* hysteresis thresholds, in control ticks
    MaxAge,        \* obs_max_age_ticks
    NTraj,         \* traj_replan_period_ticks
    ScanGap,       \* bound: control ticks between two scans that arrive
    Disturbances   \* bound: trajectory ticks that do not go as planned

RangeMin == 1

ASSUME LaneAssumption    == NoEdge \notin Edges /\ Lane \in [Robots -> Edges]
ASSUME CommitsAssumption == Commits \in Seq([Robots -> Edges \cup {NoEdge}])
ASSUME EventsAssumption  == Events \in Seq([edge : Edges, block : BOOLEAN])
ASSUME TickAssumption    ==
    /\ NOpen \in Nat \ {0} /\ NClose \in Nat \ {0} /\ NHold \in Nat \ {0}
    /\ MaxAge \in Nat \ {0} /\ NTraj \in Nat \ {0}
    /\ ScanGap \in Nat \ {0} /\ Disturbances \in Nat
ASSUME LengthAssumption  == Length \in Nat /\ Occlusion \in Nat

VARIABLES
    \* the world and observation_node: distance to the end of the lane,
    \* blocked edges, next event of the scenario, the scan on its way
    left, blocked, nextEvent, scan,
    \* trajopt_node: latched inputs, first odometry, resolved segment
    registered, nodesKnown, latest, odom, segment,
    \* trajopt_node: latest observation and control ticks since it arrived
    obs, age,
    \* the tick service and the declaration state of every robot
    service, disturbed,
    \* /stop_declaration: what each robot has sent
    sent,
    \* history: control ticks since the onset of the open declaration
    held

worldVars  == <<left, blocked, nextEvent>>
inputVars  == <<registered, nodesKnown, latest, odom, segment>>
tickVars   == <<service, disturbed, sent, held>>
vars       == <<worldVars, scan, inputVars, obs, age, tickVars>>

Reasons  == {"exogenous_block", "infeasible_subgoal", "unresolvable_locally"}
Closed   == [edge |-> NoEdge, reason |-> "none"]
Onsets   == [edge : Edges, reason : Reasons]
Services == [tick : 0 .. NTraj - 1, openRun : 0 .. NOpen, closeRun : 0 .. NClose,
             sinceOpen : 0 .. NHold, confirmed : BOOLEAN, evidence : BOOLEAN,
             open : Onsets \cup {Closed}]
Messages == [seq : Nat, edge : Edges, declared : BOOLEAN, reason : Reasons]

Init ==
    /\ left = [r \in Robots |-> Length] /\ blocked = {} /\ nextEvent = 1
    /\ scan = [r \in Robots |-> "none"]
    /\ registered = FALSE /\ nodesKnown = FALSE /\ latest = 0
    /\ odom = [r \in Robots |-> FALSE]
    /\ segment = [r \in Robots |-> NoEdge]
    /\ obs = [r \in Robots |-> "none"] /\ age = [r \in Robots |-> 0]
    /\ service = [r \in Robots |-> [tick |-> 0, openRun |-> 0, closeRun |-> 0,
                                    sinceOpen |-> 0, confirmed |-> FALSE,
                                    evidence |-> FALSE, open |-> Closed]]
    /\ disturbed = 0
    /\ sent = [r \in Robots |-> <<>>]
    /\ held = [r \in Robots |-> 0]

-----------------------------------------------------------------------------
(* The world and observation_node. *)

\* fault: the service starts before the goal is resolved
StartedOnOdom(r) == odom[r]

\* the service of a robot exists (TryStartService); its commands move it
Started(r) == odom[r] /\ segment[r] # NoEdge

\* a tick of the integrator of mrs_sim: whatever its last command is, a
\* robot on its lane comes nearer to the end of it, or stands still
Move(r) ==
    /\ Started(r) /\ left[r] > 0
    /\ left' = [left EXCEPT ![r] = @ - 1]
    /\ UNCHANGED <<blocked, nextEvent, scan, inputVars, obs, age, tickVars>>

\* the scenario's events numbered in due: of those of an edge the last counts
Applied(B, due) ==
    {e \in Edges :
        LET mine == {k \in due : Events[k].edge = e}
        IN  IF mine = {} THEN e \in B
            ELSE \E k \in mine : Events[k].block /\ \A m \in mine : m <= k}

\* BuildScan: what is left of the edge, at least the smallest range
Reading(r, B) ==
    IF Lane[r] \in B \/ left[r] < RangeMin THEN RangeMin ELSE left[r]

\* ScanToObservation and HasCollapsedRay
Collapsed(r, B) == IF Reading(r, B) <= Occlusion THEN "collapsed" ELSE "clear"

(* OnTick of observation_node: the events that are due, then a scan per    *)
(* robot; the topic keeps the newest and may lose it.                      *)
ObservationTick ==
    \E last \in nextEvent - 1 .. Len(Events) :
       /\ nextEvent' = last + 1
       /\ blocked' = Applied(blocked, nextEvent .. last)
       /\ scan' = [r \in Robots |-> Collapsed(r, blocked')]
       /\ UNCHANGED <<left, inputVars, obs, age, tickVars>>

LoseScan(r) ==
    /\ scan[r] # "none"
    /\ scan' = [scan EXCEPT ![r] = "none"]
    /\ UNCHANGED <<worldVars, inputVars, obs, age, tickVars>>

-----------------------------------------------------------------------------
(* trajopt_node: inputs. *)

\* the first segment a robot has under a commit sticks once it is resolved
Resolved(known, commit, isRegistered) ==
    [r \in Robots |-> IF /\ segment[r] = NoEdge /\ isRegistered
                         /\ known /\ commit # 0
                      THEN Commits[commit][r] ELSE segment[r]]

OnRobotSpecs ==
    /\ ~registered /\ registered' = TRUE
    /\ UNCHANGED <<worldVars, scan, nodesKnown, latest, odom, segment, obs, age,
                   tickVars>>

OnRoadmap ==
    /\ ~nodesKnown /\ nodesKnown' = TRUE
    /\ segment' = Resolved(TRUE, latest, registered)
    /\ UNCHANGED <<worldVars, scan, registered, latest, odom, obs, age, tickVars>>

\* the latched topic delivers the newest commit; older ones may be skipped
OnExecutionConstraints ==
    \E k \in latest + 1 .. Len(Commits) :
       /\ latest' = k
       /\ segment' = Resolved(nodesKnown, k, registered)
       /\ UNCHANGED <<worldVars, scan, registered, nodesKnown, odom, obs, age,
                      tickVars>>

OnOdom(r) ==
    /\ registered /\ ~odom[r]
    /\ odom' = [odom EXCEPT ![r] = TRUE]
    /\ UNCHANGED <<worldVars, scan, registered, nodesKnown, latest, segment, obs, age,
                   tickVars>>

OnScan(r) ==
    /\ registered /\ scan[r] # "none"
    /\ obs' = [obs EXCEPT ![r] = scan[r]]
    /\ age' = [age EXCEPT ![r] = 0]
    /\ scan' = [scan EXCEPT ![r] = "none"]
    /\ UNCHANGED <<worldVars, inputVars, tickVars>>

-----------------------------------------------------------------------------
(* trajopt_node: the control tick. *)

\* fault: the age of the observation is not looked at
StaleRaw(r, a) == obs[r] = "collapsed"

\* fault: the bound itself counts as stale
RawBelowBound(r, a) == obs[r] = "collapsed" /\ a < MaxAge

\* IsQ1RawPredicate on the observation as old as this tick finds it
Raw(r, a) == obs[r] = "collapsed" /\ a <= MaxAge

\* counters are only compared with their thresholds, so they stop there
Count(n, threshold) == IF n < threshold THEN n + 1 ELSE threshold

\* fault: a declaration may close as soon as the path is seen clear
UpdatedWithoutHold(s, raw) ==
    LET opening == IF raw THEN Count(s.openRun, NOpen) ELSE 0
        closing == IF raw THEN 0 ELSE Count(s.closeRun, NClose)
        opens   == ~s.confirmed /\ raw /\ opening >= NOpen
        closes  == s.confirmed /\ ~raw /\ closing >= NClose
    IN  [s EXCEPT !.openRun   = IF closes THEN 0 ELSE opening,
                  !.closeRun  = closing,
                  !.confirmed = (@ \/ opens) /\ ~closes]

\* DeclarationLedger::update
Updated(s, raw) ==
    LET opening == IF raw THEN Count(s.openRun, NOpen) ELSE 0
        closing == IF raw THEN 0 ELSE Count(s.closeRun, NClose)
        opens   == ~s.confirmed /\ raw /\ opening >= NOpen
        since   == IF s.confirmed THEN Count(s.sinceOpen, NHold)
                   ELSE IF opens THEN 0 ELSE s.sinceOpen
        closes  == s.confirmed /\ ~raw /\ since >= NHold /\ closing >= NClose
    IN  [s EXCEPT !.openRun   = IF closes THEN 0 ELSE opening,
                  !.closeRun  = closing,
                  !.sinceOpen = since,
                  !.confirmed = (@ \/ opens) /\ ~closes]

\* DeclarationRegulator::classify
Classify(q1, q2) == CASE q1         -> "exogenous_block"
                      [] ~q1 /\ q2  -> "infeasible_subgoal"
                      [] ~q1 /\ ~q2 -> "unresolvable_locally"

(* ControlTickService::run_tick.  A trajectory tick plans, finds its       *)
(* subgoal out of reach without reversing (the evidence is used up by the  *)
(* same tick), or throws before the ledger is updated, in which case such  *)
(* evidence is left to the next tick.                                      *)
RunTick(s, raw, outcome) ==
    LET tick == [s EXCEPT !.tick = (@ + 1) % NTraj,
                          !.evidence = @ \/ outcome \in {"infeasible", "infeasible_throws"}]
        done == [Updated(tick, raw) EXCEPT !.evidence = FALSE]
    IN  IF outcome \in {"throws", "infeasible_throws"}
        THEN [service |-> tick, stop |-> TRUE, reason |-> "unresolvable_locally"]
        ELSE [service |-> done, stop |-> done.confirmed \/ tick.evidence,
              reason  |-> Classify(done.confirmed, tick.evidence)]

Opening(before, out) == out.stop /\ before = Closed

\* fault: a release has to carry the reason the tick would give
ClosingForReason(before, out) ==
    ~out.stop /\ before # Closed /\ before.reason = out.reason

Closing(before, out) == ~out.stop /\ before # Closed

\* HandleStopDeclarationTransition: the state of the declaration
Transition(r, out) ==
    LET before == service[r].open
    IN  CASE Opening(before, out) -> [edge |-> segment[r], reason |-> out.reason]
          [] ~Opening(before, out) /\ Closing(before, out) -> Closed
          [] OTHER -> before

\* fault: a release is sent without a number of its own
NewMessagesUnnumbered(r, out) ==
    LET before == service[r].open
        after  == Transition(r, out)
        Message(d, flag) == [seq |-> (Len(sent[r]) + 1) \div 2, edge |-> d.edge,
                             declared |-> flag, reason |-> d.reason]
    IN  IF Opening(before, out) THEN <<Message(after, TRUE)>>
        ELSE IF Closing(before, out) THEN <<Message(before, FALSE)>> ELSE <<>>

\* HandleStopDeclarationTransition: what it publishes
NewMessages(r, out) ==
    LET before == service[r].open
        after  == Transition(r, out)
        Message(d, flag) == [seq |-> Len(sent[r]), edge |-> d.edge, declared |-> flag,
                             reason |-> d.reason]
    IN  IF Opening(before, out) THEN <<Message(after, TRUE)>>
        ELSE IF Closing(before, out) THEN <<Message(before, FALSE)>> ELSE <<>>

Outcomes == {"planned", "infeasible", "throws", "infeasible_throws"}

\* one trajectory tick at most goes wrong in a control tick
Unplanned(outcome) == \E r \in Robots : outcome[r] # "planned"

MayGoWrong(r) == Started(r) /\ (service[r].tick + 1) % NTraj = 0

OnControlTick ==
    \E outcome \in [Robots -> Outcomes] :
       /\ \A r \in Robots : outcome[r] # "planned" => MayGoWrong(r)
       /\ Unplanned(outcome) => disturbed < Disturbances
       /\ registered => \A r \in Robots : age[r] < ScanGap
       /\ age' = [r \in Robots |-> IF registered THEN age[r] + 1 ELSE age[r]]
       /\ LET out == [r \in Robots |-> RunTick(service[r], Raw(r, age'[r]), outcome[r])]
          IN  /\ service' = [r \in Robots |->
                               IF Started(r)
                               THEN [out[r].service EXCEPT !.open = Transition(r, out[r])]
                               ELSE service[r]]
              /\ sent' = [r \in Robots |-> IF Started(r)
                                           THEN sent[r] \o NewMessages(r, out[r])
                                           ELSE sent[r]]
              /\ held' = [r \in Robots |->
                            IF Started(r) /\ Opening(service[r].open, out[r]) THEN 0
                            ELSE Count(held[r], NHold)]
       /\ disturbed' = IF Unplanned(outcome) THEN disturbed + 1 ELSE disturbed
       /\ UNCHANGED <<worldVars, scan, inputVars, obs>>

-----------------------------------------------------------------------------
Next ==
    \/ ObservationTick \/ OnRobotSpecs \/ OnRoadmap \/ OnExecutionConstraints
    \/ OnControlTick
    \/ \E r \in Robots : Move(r) \/ LoseScan(r) \/ OnOdom(r) \/ OnScan(r)

Spec == Init /\ [][Next]_vars

(* Executors serve their timers and callbacks.  Scans are lost only now    *)
(* and then, which ScanGap states for the control ticks.                   *)
Fairness ==
    /\ WF_vars(ObservationTick) /\ WF_vars(OnControlTick)
    /\ \A r \in Robots : SF_vars(OnScan(r))

FairSpec == Spec /\ Fairness

-----------------------------------------------------------------------------
TypeOK ==
    /\ left \in [Robots -> 0 .. Length]
    /\ blocked \subseteq Edges
    /\ nextEvent \in 1 .. Len(Events) + 1
    /\ scan \in [Robots -> {"none", "clear", "collapsed"}]
    /\ registered \in BOOLEAN /\ nodesKnown \in BOOLEAN
    /\ latest \in 0 .. Len(Commits)
    /\ odom \in [Robots -> BOOLEAN]
    /\ segment \in [Robots -> Edges \cup {NoEdge}]
    /\ obs \in [Robots -> {"none", "clear", "collapsed"}]
    /\ age \in [Robots -> 0 .. ScanGap]
    /\ service \in [Robots -> Services]
    /\ disturbed \in 0 .. Disturbances
    /\ sent \in [Robots -> Seq(Messages)]
    /\ held \in [Robots -> 0 .. NHold]

(* Whatever replans, lost scans and mixed reasons do in between, a robot   *)
(* numbers its declarations 0, 1, 2, ... on its own, alternates onset and  *)
(* release, and releases exactly what the onset named; its last message    *)
(* tells its state (HandleStopDeclarationTransition).                      *)
DeclarationsPaired ==
    \A r \in Robots :
       /\ \A k \in 1 .. Len(sent[r]) :
             /\ sent[r][k].seq = k - 1
             /\ sent[r][k].declared <=> k % 2 = 1
             /\ k % 2 = 0 => /\ sent[r][k].edge = sent[r][k - 1].edge
                             /\ sent[r][k].reason = sent[r][k - 1].reason
       /\ service[r].open # Closed <=> Len(sent[r]) % 2 = 1

(* A declaration that an edge is blocked for everybody is not made on an   *)
(* observation older than the staleness bound, however many scans are lost.*)
OnsetIsFresh ==
    [][\A r \in Robots :
          /\ service[r].open = Closed
          /\ service'[r].open.reason = "exogenous_block"
          => obs[r] = "collapsed" /\ age'[r] <= MaxAge]_vars

(* Non-Zeno: a declared blockage is not released before NHold control      *)
(* ticks have passed since its onset was sent.                             *)
HoldRespected ==
    [][\A r \in Robots :
          /\ service[r].open.reason = "exogenous_block"
          /\ service'[r].open = Closed
          => held'[r] >= NHold]_vars

(* A robot in front of an edge that stays blocked ends up declaring a stop *)
(* for as long as that lasts, though scans are lost and plans fail.        *)
BlockReported ==
    \A r \in Robots :
       <>[](Started(r) /\ Lane[r] \in blocked) => <>[](service[r].open # Closed)

(* When the way ahead stays clear, the declaration is released for good.   *)
ClearReported ==
    \A r \in Robots :
       <>[](Lane[r] \notin blocked /\ left[r] > Occlusion)
       => <>[](service[r].open = Closed)

(* A robot declares an edge blocked for everybody only if it is.           *)
OnlyBlockedEdgesDeclared ==
    \A r \in Robots :
       service[r].open.reason = "exogenous_block" => \E k \in 1 .. nextEvent - 1 :
          Events[k].edge = Lane[r] /\ Events[k].block
=============================================================================

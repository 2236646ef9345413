---------------------------- MODULE Assignment ----------------------------
(***************************************************************************)
(* mrta_node: the online task assigner.  Tasks are released one by one; a  *)
(* greedy policy appends all goals of a task to the queue of one robot, or *)
(* keeps the task in a pool that is retried whenever a goal completes.     *)
(* Operators may show a robot another goal without touching its queue.     *)
(* Every handler drains what it ingested and publishes the assignment when *)
(* its content changed.  The injector, the completion monitor, the         *)
(* operators and the transport are external.                               *)
(*                                                                         *)
(* A task is its release index, a goal a record of its task, its position  *)
(* in the task and its location; goal ids are unique, so a goal stands for *)
(* its id.                                                                 *)
(***************************************************************************)
EXTENDS Integers, Sequences, SequencesExt, FiniteSets

CONSTANTS
    Robots,     \* the roster, by index: names in ascending order
    Locations,  \* the vertices of the roadmap that are endpoints
    Q,          \* goal_queue_capacity
    Releases,   \* the tasks by release index, each the locations of its goals
    Start,      \* the vertex a robot was configured with
    Dist,       \* millimetres from a vertex to an endpoint, where reachable
    Messages,   \* the operator command messages that may arrive
    Resolvable  \* the robots and locations the goal id resolver knows

NoTask == 0

Commands == [robot : Nat, seq : Nat, active : BOOLEAN, location : Locations]
Goals    == [task : Nat, leg : Nat, location : Locations]

ASSUME RosterAssumption   == Robots \subseteq Nat /\ Q \in Nat \ {0}
ASSUME ReleasesAssumption == Releases \in Seq(Seq(Locations))
ASSUME MessagesAssumption == Messages \subseteq Seq(Commands)
ASSUME DistAssumption     == \A pair \in DOMAIN Dist : Dist[pair] \in Nat

VARIABLES
    \* mrta_node: the distance table is there; releases that came before it
    built, deferred,
    \* the assigner: queues, pool and goals assigned so far
    base,
    \* the operator latch of every robot
    latch,
    \* the latched topic /assignment; revision 0 is "nothing published"
    published,
    \* the next release to arrive
    nextRelease,
    \* the completion monitor: its copy of the assignment, the goals each
    \* robot has reported; /goal_completion on its way to the node
    seen, reported, doneQ

nodeVars    == <<built, deferred, base, latch, published, nextRelease>>
monitorVars == <<seen, reported, doneQ>>
vars        == <<nodeVars, monitorVars>>

-----------------------------------------------------------------------------
\* FoldLeft, as a recursive function that a proof can expand
Folded(Op(_, _), x, seq) ==
    LET after[n \in 0 .. Len(seq)] == IF n = 0 THEN x ELSE Op(after[n - 1], seq[n])
    IN  after[Len(seq)]

\* the elements of a sequence that are in S, in their order (SelectSeq, as a
\* recursive function)
Only(seq, S) ==
    LET upTo[n \in 0 .. Len(seq)] ==
            IF n = 0 THEN <<>>
            ELSE IF seq[n] \in S THEN Append(upTo[n - 1], seq[n]) ELSE upTo[n - 1]
    IN  upTo[Len(seq)]

GoalsOf(t) == [k \in DOMAIN Releases[t] |->
                  [task |-> t, leg |-> k, location |-> Releases[t][k]]]

NoGoals == [r \in Robots |-> <<>>]

Init ==
    /\ built = FALSE /\ deferred = <<>>
    /\ base = [queue      |-> NoGoals,
               pool       |-> <<>>,
               cumulative |-> [r \in Robots |-> 0]]
    /\ latch = [r \in Robots |-> [seq |-> -1, active |-> FALSE]]
    /\ published = [revision |-> 0, goals |-> NoGoals, unassigned |-> {}]
    /\ nextRelease = 1
    /\ seen = NoGoals /\ reported = NoGoals /\ doneQ = <<>>

-----------------------------------------------------------------------------
(* The greedy policy (GreedyTailAppend). *)

\* fault: a task only shuns the goals that are about to be carried out
InUseAtHead(b, loc) ==
    \E r \in Robots : b.queue[r] # <<>> /\ Head(b.queue[r]).location = loc

\* some uncompleted goal of some robot is at the location
InUse(b, loc) ==
    \E r \in Robots : \E k \in DOMAIN b.queue[r] : b.queue[r][k].location = loc

Origin(b, r) == IF b.queue[r] = <<>> THEN Start[r] ELSE Last(b.queue[r]).location

\* fault: the spare slot of the ring counts as capacity
CandidatesBeyondPolicy(b, t) ==
    {r \in Robots :
        /\ Releases[t] # <<>>
        /\ \A k \in DOMAIN Releases[t] : ~InUse(b, Releases[t][k])
        /\ Len(b.queue[r]) + Len(Releases[t]) <= Q + 1
        /\ <<Origin(b, r), Head(Releases[t])>> \in DOMAIN Dist}

\* the robots that can take the task now
Candidates(b, t) ==
    {r \in Robots :
        /\ Releases[t] # <<>>
        /\ \A k \in DOMAIN Releases[t] : ~InUse(b, Releases[t][k])
        /\ Len(b.queue[r]) + Len(Releases[t]) <= Q
        /\ <<Origin(b, r), Head(Releases[t])>> \in DOMAIN Dist}

\* nearest first, then the shorter queue, then the lower load, then the name
Rank(b, t, r) ==
    <<Dist[<<Origin(b, r), Head(Releases[t])>>], Len(b.queue[r]), b.cumulative[r], r>>

Precedes(x, y) ==
    \E i \in 1 .. 4 : x[i] < y[i] /\ \A j \in 1 .. i - 1 : x[j] = y[j]

Best(b, t) ==
    CHOOSE r \in Candidates(b, t) :
        \A s \in Candidates(b, t) \ {r} : Precedes(Rank(b, t, r), Rank(b, t, s))

\* fault: the goals are served before the ones already queued
AppendAtHead(b, t, r) ==
    [b EXCEPT !.queue[r] = GoalsOf(t) \o @, !.cumulative[r] = @ + Len(Releases[t])]

AppendGoals(b, t, r) ==
    [b EXCEPT !.queue[r] = @ \o GoalsOf(t), !.cumulative[r] = @ + Len(Releases[t])]

OnRelease(b, t) ==
    IF Candidates(b, t) = {} THEN [b EXCEPT !.pool = Append(@, t)]
                             ELSE AppendGoals(b, t, Best(b, t))

\* the pool is served in release order and the first task that finds no
\* robot holds back the others
ServeFront(b, t) ==
    IF b.pool # <<>> /\ t = Head(b.pool) /\ Candidates(b, t) # {}
    THEN [AppendGoals(b, t, Best(b, t)) EXCEPT !.pool = Tail(@)]
    ELSE b

\* fault: freed capacity is left to the next release
NoRetry(b) == b

RetryPool(b) == Folded(ServeFront, b, b.pool)

\* fault: whatever the robot completed, its head is done
PopUnmatched(b, r, goal) ==
    IF b.queue[r] # <<>> THEN RetryPool([b EXCEPT !.queue[r] = Tail(@)]) ELSE b

\* a completion that is not the head of the robot's queue is not consumed
OnCompletion(b, r, goal) ==
    IF b.queue[r] # <<>> /\ goal = Head(b.queue[r])
    THEN RetryPool([b EXCEPT !.queue[r] = Tail(@)])
    ELSE b

-----------------------------------------------------------------------------
(* The override latch and the published view. *)

\* fault: the end of an override is not taken for a change
ApplyActiveOnly(state, c) ==
    IF c.robot \notin Robots \/ c.seq <= state.latch[c.robot].seq
    THEN state
    ELSE [latch   |-> [state.latch EXCEPT ![c.robot] =
                         IF c.active
                         THEN [seq |-> c.seq, active |-> TRUE, location |-> c.location]
                         ELSE [seq |-> c.seq, active |-> FALSE]],
          touched |-> state.touched \/ c.active]

\* highest sequence number wins; touched tells whether the override changed
ApplyCommand(state, c) ==
    LET old == state.latch[c.robot]
        new == IF c.active THEN [seq |-> c.seq, active |-> TRUE, location |-> c.location]
                           ELSE [seq |-> c.seq, active |-> FALSE]
    IN  IF c.robot \notin Robots \/ c.seq <= old.seq
        THEN state
        ELSE [latch   |-> [state.latch EXCEPT ![c.robot] = new],
              touched |-> \/ state.touched
                          \/ old.active # new.active
                          \/ new.active /\ old.location # new.location]

\* the operator's goal stands in for the queue when it has a goal id
Projected(l, r) == l[r].active /\ <<r, l[r].location>> \in Resolvable

ViewGoals(b, l) ==
    [r \in Robots |->
        IF Projected(l, r)
        THEN << [task |-> NoTask, leg |-> r, location |-> l[r].location] >>
        ELSE b.queue[r]]

\* fault: a change of the pool alone is not published
SameGoals(p, b, l) == p.revision > 0 /\ p.goals = ViewGoals(b, l)

\* fault: every drain publishes
NeverSame(p, b, l) == FALSE

SameContent(p, b, l) ==
    p.revision > 0 /\ p.goals = ViewGoals(b, l) /\ p.unassigned = ToSet(b.pool)

\* the topic after a drain that touched something
Published(p, b, l) ==
    IF SameContent(p, b, l)
    THEN p
    ELSE [revision   |-> p.revision + 1,
          goals      |-> ViewGoals(b, l),
          unassigned |-> ToSet(b.pool)]

-----------------------------------------------------------------------------
(* The handlers of the node. *)

\* one release through the adapter (no empty task), the policy and the topic
Release(s, t) ==
    IF Releases[t] = <<>>
    THEN s
    ELSE LET b == OnRelease(s.base, t)
         IN  [base |-> b, published |-> Published(s.published, b, latch)]

\* fault: releases that came before the roadmap are forgotten
ReplayNothing(s) == s

Replay(s) == Folded(Release, s, deferred)

(* /roadmap: the table is built and the deferred releases are replayed. *)
OnRoadmap ==
    /\ built' = TRUE
    /\ deferred' = <<>>
    /\ LET s == Replay([base |-> base, published |-> published])
       IN  base' = s.base /\ published' = s.published
    /\ UNCHANGED <<latch, nextRelease, monitorVars>>

(* /task_release: put off while there is no distance table. *)
OnTaskRelease ==
    /\ nextRelease <= Len(Releases)
    /\ nextRelease' = nextRelease + 1
    /\ IF built
       THEN /\ LET s == Release([base |-> base, published |-> published], nextRelease)
               IN  base' = s.base /\ published' = s.published
            /\ UNCHANGED deferred
       ELSE /\ deferred' = Append(deferred, nextRelease)
            /\ UNCHANGED <<base, published>>
    /\ UNCHANGED <<built, latch, monitorVars>>

(* /goal_completion *)
OnGoalCompletion ==
    /\ doneQ # <<>>
    /\ doneQ' = Tail(doneQ)
    /\ base' = OnCompletion(base, Head(doneQ).robot, Head(doneQ).goal)
    /\ published' = IF base' = base THEN published ELSE Published(published, base', latch)
    /\ UNCHANGED <<built, deferred, latch, nextRelease, seen, reported>>

\* the ring sorts what it holds by robot, then by number; the sort is stable
Orders(msg) ==
    LET before(i, j) == \/ msg[i].robot < msg[j].robot
                        \/ /\ msg[i].robot = msg[j].robot
                           /\ \/ msg[i].seq < msg[j].seq
                              \/ msg[i].seq = msg[j].seq /\ i < j
    IN  {o \in [DOMAIN msg -> DOMAIN msg] : \A i, j \in DOMAIN msg : i < j => before(o[i], o[j])}

(* /{robot}/operator_command: the goal overrides of one message. *)
OnOperatorCommand(msg) ==
    \E o \in Orders(msg) :
        LET s == Folded(ApplyCommand, [latch |-> latch, touched |-> FALSE],
                        [i \in DOMAIN msg |-> msg[o[i]]])
        IN  /\ latch' = s.latch
            /\ published' = IF s.touched THEN Published(published, base, latch') ELSE published
            /\ UNCHANGED <<built, deferred, base, nextRelease, monitorVars>>

-----------------------------------------------------------------------------
(* The transport and the completion monitor (external). *)

DeliverAssignment ==
    /\ seen' = published.goals
    /\ UNCHANGED <<nodeVars, reported, doneQ>>

\* a robot works through the list it was last shown, ahead of the node if
\* the completions are slow; every goal is reported once
Complete(r) ==
    /\ \E k \in DOMAIN seen[r] :
          /\ seen[r][k] \notin ToSet(reported[r])
          /\ \A j \in 1 .. k - 1 : seen[r][j] \in ToSet(reported[r])
          /\ reported' = [reported EXCEPT ![r] = Append(@, seen[r][k])]
          /\ doneQ' = Append(doneQ, [robot |-> r, goal |-> seen[r][k]])
    /\ UNCHANGED <<nodeVars, seen>>

-----------------------------------------------------------------------------
Next == \/ OnRoadmap
        \/ OnTaskRelease
        \/ OnGoalCompletion
        \/ \E msg \in Messages : OnOperatorCommand(msg)
        \/ DeliverAssignment
        \/ \E r \in Robots : Complete(r)

Spec == Init /\ [][Next]_vars

(* The roadmap is latched and the injector publishes the whole instance;   *)
(* the node's executor serves every waiting callback; robots that have a   *)
(* goal reach it.  Operators are not bound to do anything.  The fairness   *)
(* of a handler is stated on the variable no other action changes that way.*)
Fairness == /\ WF_built(built' = TRUE)
            /\ WF_nextRelease(nextRelease <= Len(Releases) /\ nextRelease' = nextRelease + 1)
            /\ WF_doneQ(doneQ # <<>> /\ doneQ' = Tail(doneQ))
            /\ WF_vars(DeliverAssignment)
            /\ \A r \in Robots : WF_vars(Complete(r))

FairSpec == Spec /\ Fairness

-----------------------------------------------------------------------------
Completions == [robot : Robots, goal : Goals]

\* a robot's own goals among those it reported; an operator's goal has no task
Own(r) == Only(reported[r], {g \in Goals : g.task # NoTask})

\* the completions of r's own goals that are still on their way
InFlight(r) ==
    LET mine == Only(doneQ, {m \in Completions : m.robot = r /\ m.goal.task # NoTask})
    IN  [k \in DOMAIN mine |-> mine[k].goal]

\* what the node has taken off r's queue, then what is still on it
Consumed(r) == SubSeq(Own(r), 1, Len(Own(r)) - Len(InFlight(r)))
History(r)  == Consumed(r) \o base.queue[r]

\* every task of the instance fits an idle robot
Feasible ==
    \A t \in DOMAIN Releases :
        \E r \in Robots : /\ Len(Releases[t]) \in 1 .. Q
                          /\ <<Start[r], Head(Releases[t])>> \in DOMAIN Dist

Served(t) == \A k \in DOMAIN Releases[t] :
                \E r \in Robots : GoalsOf(t)[k] \in ToSet(Consumed(r))

(* The types of the state; a queue stays within the policy's capacity. *)
TypeOK ==
    /\ built \in BOOLEAN /\ deferred \in Seq(Nat) /\ (built => deferred = <<>>)
    /\ base.queue \in [Robots -> Seq(Goals)]
    /\ \A r \in Robots : Len(base.queue[r]) <= Q
    /\ base.pool \in Seq(Nat) /\ base.cumulative \in [Robots -> Nat]
    /\ \A r \in Robots : latch[r].active \in BOOLEAN /\ latch[r].seq \in Nat \cup {-1}
    /\ published.revision \in Nat /\ published.goals \in [Robots -> Seq(Goals)]
    /\ published.unassigned \in SUBSET Nat
    /\ nextRelease \in 1 .. Len(Releases) + 1
    /\ seen \in [Robots -> Seq(Goals)] /\ reported \in [Robots -> Seq(Goals)]
    /\ \A k \in DOMAIN doneQ : doneQ[k].robot \in Robots /\ doneQ[k].goal \in Goals

(* Two tasks whose goals are both unfinished never share an endpoint, even *)
(* while one waits far back in a queue (A8).                               *)
EndpointsExclusive ==
    \A r, s \in Robots :
        \A i \in DOMAIN base.queue[r], j \in DOMAIN base.queue[s] :
            base.queue[r][i].location = base.queue[s][j].location
            => base.queue[r][i].task = base.queue[s][j].task

(* The completions on their way are the next goals of the node's queue, in *)
(* order: none is refused as a mismatch, its goal left behind for good, and *)
(* they fit the depth of the completion subscription.                      *)
CompletionsMatch ==
    \A r \in Robots : IsPrefix(InFlight(r), base.queue[r])

(* A released task is never lost, split or given twice: it waits once for  *)
(* the roadmap, or once in the pool, or one robot has all its goals, in    *)
(* their order, and no other robot any.                                    *)
TaskConservation ==
    \A t \in 1 .. nextRelease - 1 :
        LET places == {i \in DOMAIN deferred : deferred[i] = t}
                      \cup {-i : i \in {j \in DOMAIN base.pool : base.pool[j] = t}}
            of(r)  == Only(History(r), {g \in Goals : g.task = t})
        IN  Releases[t] = <<>>
            \/ /\ Cardinality(places) = 1
               /\ \A r \in Robots : of(r) = <<>>
            \/ /\ places = {}
               /\ \E r \in Robots : of(r) = GoalsOf(t)
                                    /\ \A s \in Robots \ {r} : of(s) = <<>>

(* A task that waits is retried some day: while the pool holds one, some   *)
(* robot still has a goal to complete (the pool is retried at no other     *)
(* moment).                                                                *)
NoStrandedPool ==
    Feasible /\ base.pool # <<>> => \E r \in Robots : base.queue[r] # <<>>

(* Suppressing publications never hides a change: the latched assignment   *)
(* is what the state and the latches say now.                              *)
PublishedIsCurrent ==
    published.revision > 0
    => /\ published.goals = ViewGoals(base, latch)
       /\ published.unassigned = ToSet(base.pool)

(* The goals a robot was given, the finished ones included, only grow at   *)
(* the end: nothing is taken away, moved or put in front, whatever the     *)
(* operators and the order of the messages (SC-17).                        *)
HistoryExtends == [][\A r \in Robots : IsPrefix(History(r), History(r)')]_vars

(* A revision stands for a change: no publication repeats the one before.  *)
NoNoopPublication ==
    [][published' # published /\ published.revision > 0
       => \/ published'.goals # published.goals
          \/ published'.unassigned # published.unassigned]_vars

(* Every released task of a feasible instance is carried out. *)
EveryTaskServed ==
    \A t \in DOMAIN Releases : (Feasible /\ nextRelease > t) ~> Served(t)
=============================================================================

------------------------ MODULE SadgContract_proofs ------------------------
(***************************************************************************)
(* What SadgExecution promises beyond the safety of the fleet, for every   *)
(* fleet, map and sequence of plans: its acknowledgements are honest, and  *)
(* it implements VisitOrder.  The last theorem takes the contract on the   *)
(* plans from what the planner checks.                                     *)
(***************************************************************************)
EXTENDS SadgExecution_proofs

-----------------------------------------------------------------------------
(* The acknowledgement.  When the published number covers every event a    *)
(* robot has sent, the graph behind it knows every move of the robot.      *)
(* Plans come at any time, drained or not, compile or fail the H-cons      *)
(* intake; it holds until the channel loses an event.                      *)

\* the events on their way are the ones that are not acknowledged, in order
EventsCounted ==
    \A r \in Robots :
        /\ entryAck[r] + Len(entryQ[r]) = nextSeq[r]
        /\ \A n \in DOMAIN entryQ[r] : entryQ[r][n].seq + 1 = entryAck[r] + n

\* no release acknowledges more than the node has read
AckBehind == \A r \in Robots : releaseTopic[r].ack <= entryAck[r]

OnItsWay(seg) ==
    \E n \in DOMAIN entryQ[seg[1]] : entryQ[seg[1]][n].segment = seg

ArrivalOnItsWay(seg) ==
    \E n \in DOMAIN entryQ[seg[1]] :
        entryQ[seg[1]][n].segment = seg /\ entryQ[seg[1]][n].entered

\* a move on a segment of the graph is accounted for, buffered or on its way
MoveKnown(seg) ==
    /\ HasStarted(seg) => \/ seg \in entered \cup pendingStarted \cup pendingCompleted
                          \/ OnItsWay(seg)
    /\ HasCompleted(seg) => \/ seg \in completed \cup pendingCompleted
                            \/ ArrivalOnItsWay(seg)

MovesKnown == \A seg \in graph.segments : MoveKnown(seg)

\* the next commit number is new: none was published, none is in force
NumbersBehind ==
    /\ \A r \in Robots : releaseTopic[r].commit < commitSeq
    /\ (\E r \in Robots : Publishes(graph, r)) => activeCommit < commitSeq

AckInv == /\ lost = 0 /\ TypeInv /\ NumbersBehind
          /\ EventsCounted /\ AckBehind /\ MovesKnown /\ AckReflected

\* a plan the generator refuses leaves a graph of its own under old constraints
IntakeSuffices == \A i \in DOMAIN Plans : HconsOk(Plans[i]) => Outcome(Plans[i]) = "ok"

-----------------------------------------------------------------------------
(* At the start there is no event and no graph.                            *)
LEMMA InitAckInv == Init => AckInv
<1> SUFFICES ASSUME Init PROVE AckInv
  OBVIOUS
<1>1. TypeInv
  BY InitTypeInv
<1>2. /\ \A r \in Robots : entryAck[r] = 0 /\ nextSeq[r] = 0 /\ entryQ[r] = <<>>
      /\ \A r \in Robots : releaseTopic[r] = NoRelease
  BY DEF Init
<1>3. EventsCounted /\ AckBehind
  <2>1. NoRelease.ack = 0
    BY DEF NoRelease
  <2>2. Len(<<>>) = 0 /\ DOMAIN <<>> = {}
    <3>1. <<>> \in Seq(Event) /\ Len(<<>>) = 0
      OBVIOUS
    <3>2. DOMAIN <<>> = 1 .. 0
      BY <3>1
    <3> QED
      BY <3>1, <3>2
  <2>3. ASSUME NEW r \in Robots
        PROVE  entryAck[r] + Len(entryQ[r]) = nextSeq[r] /\ DOMAIN entryQ[r] = {}
    <3>1. Len(entryQ[r]) = 0 /\ DOMAIN entryQ[r] = {}
      BY <1>2, <2>2
    <3> QED
      BY <1>2, <3>1
  <2>4. EventsCounted
    BY <2>3 DEF EventsCounted
  <2> QED
    BY <1>2, <2>1, <2>4 DEF AckBehind
<1>4. MovesKnown /\ AckReflected
  BY DEF Init, MovesKnown, AckReflected, Publishes, EmptyGraph
<1>5. NumbersBehind
  <2>1. NoRelease.commit = -1 /\ commitSeq = 0
    BY DEF Init, NoRelease, None
  <2>2. \A r \in Robots : ~Publishes(graph, r)
    BY DEF Init, Publishes, EmptyGraph
  <2> QED
    BY <1>2, <2>1, <2>2 DEF NumbersBehind
<1>6. lost = 0
  BY DEF Init
<1> QED
  BY <1>1, <1>3, <1>4, <1>5, <1>6 DEF AckInv

(* Segments of the graph belong to robots of the fleet.                    *)
LEMMA GraphSegs ==
    ASSUME TypeInv
    PROVE  \A seg \in graph.segments : seg \in Segs /\ seg[1] \in Robots /\ seg[2] \in Nat
BY DEF TypeInv, TypeOK, Segs

(* Adopting the constraints moves no robot.                                *)
LEMMA AdoptKeepsPos ==
    ASSUME TypeInv, NEW r \in Robots, Adopt(r)
    PROVE  \A s \in Robots : Pos(s)' = Pos(s)
<1>1. UNCHANGED <<constraints, moving>> /\ ~Adopted(r) /\ constraints.commit # None
  BY DEF Adopt, nodeVars
<1>2. \A s \in Robots \ {r} : adopted'[s] = adopted[s] /\ idx'[s] = idx[s]
  BY DEF Adopt, TypeInv, TypeOK
<1>3. adopted'[r] = constraints /\ idx'[r] = IF moving[r] THEN -1 ELSE 0
  BY DEF Adopt, TypeInv, TypeOK
<1> QED
  BY <1>1, <1>2, <1>3 DEF Pos, Adopted

(* Nothing has happened on a plan that comes that the graph could miss,    *)
(* and nothing was published under its number.                             *)
LEMMA OnPlanAckInv ==
    ASSUME IntakeSuffices, AckInv, NEW i \in DOMAIN Plans, OnPlan(i)
    PROVE  AckInv'
<1> USE DEF AckInv
<1>1. TypeInv'
  BY OnPlanTypeInv
<1>2. UNCHANGED <<entryAck, releaseTopic, entryQ, nextSeq, adopted, idx, moving, lost>>
  BY DEF OnPlan, robotVars
<1>3. EventsCounted' /\ AckBehind'
  BY <1>2 DEF EventsCounted, AckBehind
<1>4. CASE i \in Accepted
  <2>1. /\ constraints' = [commit |-> commitSeq, plan |-> i]
        /\ activeCommit' = commitSeq /\ commitSeq' = commitSeq + 1
        /\ commitSeq \in Nat
    BY <1>4 DEF OnPlan, TypeInv, TypeOK
  <2>2. \A r \in Robots : Pos(r)' = IF moving'[r] THEN -1 ELSE 0
    <3>1. \A r \in Robots : adopted[r].commit < commitSeq
                           /\ adopted[r].commit \in Nat \cup {None}
      BY DEF TypeInv, RobotsOnPlans, TypeOK
    <3>2. \A r \in Robots : ~Adopted(r)'
      BY <1>2, <2>1, <3>1 DEF Adopted, None
    <3> QED
      BY <3>2 DEF Pos
  <2>3. ASSUME NEW seg \in graph'.segments
        PROVE  ~HasStarted(seg)' /\ ~HasCompleted(seg)'
    <3>1. seg[1] \in Robots /\ seg[2] \in Nat
      BY <1>1, GraphSegs DEF TypeInv, TypeOK, Segs
    <3> QED
      BY <2>2, <3>1 DEF HasStarted, HasCompleted
  <2>4. MovesKnown' /\ AckReflected'
    BY <2>3 DEF MovesKnown, MoveKnown, AckReflected
  <2>5. NumbersBehind'
    <3>1. \A r \in Robots : /\ releaseTopic[r].commit < commitSeq
                            /\ releaseTopic[r].commit \in Nat \cup {-1}
      BY DEF NumbersBehind, TypeInv, TypeOK, Release, None
    <3> QED
      BY <1>2, <2>1, <3>1 DEF NumbersBehind
  <2> QED
    BY <1>1, <1>2, <1>3, <2>4, <2>5
<1>5. CASE i \notin Accepted
  <2>1. graph' = EmptyGraph /\ commitSeq' = commitSeq
    <3>1. ~HconsOk(Plans[i])
      BY <1>5, PlanType DEF IntakeSuffices
    <3> QED
      BY <1>5, <3>1, PlanType DEF OnPlan, CompiledGraph
  <2>2. MovesKnown' /\ AckReflected' /\ NumbersBehind'
    BY <1>2, <2>1 DEF MovesKnown, AckReflected, Publishes, EmptyGraph, NumbersBehind
  <2> QED
    BY <1>1, <1>2, <1>3, <2>2
<1> QED
  BY <1>4, <1>5

(* A tick takes every buffered move on a segment of the graph into the     *)
(* accounting and publishes the number it has read up to: when that is all *)
(* the robot sent, nothing is left on its way.                             *)
LEMMA OnTickAckInv ==
    ASSUME AckInv, OnTick
    PROVE  AckInv'
<1> USE DEF AckInv
<1>1. TypeInv'
  BY NodeTypeInv
<1>2. UNCHANGED <<graph, activeCommit, commitSeq, constraints, entryAck, entryQ, nextSeq,
                  adopted, idx, moving, lost>>
  BY DEF OnTick, robotVars, historyVars
<1>3. EventsCounted'
  BY <1>2 DEF EventsCounted
<1>4. \A r \in Robots :
         releaseTopic'[r] = IF Publishes(graph, r)
                            THEN [commit |-> activeCommit,
                                  bits   |-> {seg \in released' : seg[1] = r},
                                  ack    |-> entryAck[r]]
                            ELSE releaseTopic[r]
  BY DEF OnTick
<1>5. ASSUME NEW r \in Robots
      PROVE  /\ Publishes(graph, r) => /\ releaseTopic'[r].ack = entryAck[r]
                                       /\ releaseTopic'[r].commit = activeCommit
             /\ ~Publishes(graph, r) => releaseTopic'[r] = releaseTopic[r]
  <2>1. CASE Publishes(graph, r)
    <3>1. releaseTopic'[r] = [commit |-> activeCommit,
                              bits   |-> {seg \in released' : seg[1] = r},
                              ack    |-> entryAck[r]]
      BY <1>4, <2>1
    <3> QED
      BY <2>1, <3>1
  <2>2. CASE ~Publishes(graph, r)
    BY <1>4, <2>2
  <2> QED
    BY <2>1, <2>2
<1>6. AckBehind'
  <2>1. \A r \in Robots : entryAck[r] \in Nat
    BY DEF TypeInv, TypeOK
  <2> QED
    BY <1>2, <1>5, <2>1 DEF AckBehind
<1>7. \A seg : /\ HasStarted(seg)' <=> HasStarted(seg)
               /\ HasCompleted(seg)' <=> HasCompleted(seg)
               /\ OnItsWay(seg)' <=> OnItsWay(seg)
               /\ ArrivalOnItsWay(seg)' <=> ArrivalOnItsWay(seg)
  BY <1>2 DEF HasStarted, HasCompleted, Pos, Adopted, OnItsWay, ArrivalOnItsWay
<1>8. ASSUME NEW seg \in graph.segments
      PROVE  /\ HasStarted(seg)   => seg \in entered' \/ OnItsWay(seg)
             /\ HasCompleted(seg) => seg \in completed' \/ ArrivalOnItsWay(seg)
  <2>1. MoveKnown(seg)
    BY DEF MovesKnown
  <2>2. entered' = DrainedEntered /\ completed' = DrainedCompleted
    BY DEF OnTick
  <2> QED
    BY <2>1, <2>2 DEF MoveKnown, DrainedEntered, DrainedCompleted
<1>9. MovesKnown'
  BY <1>2, <1>7, <1>8 DEF MovesKnown, MoveKnown
<1>10. AckReflected'
  <2> SUFFICES ASSUME NEW r \in Robots, Publishes(graph, r)',
                      releaseTopic'[r].ack = nextSeq'[r],
                      NEW seg \in graph'.segments, seg[1] = r
               PROVE  /\ HasStarted(seg)' => seg \in entered'
                      /\ HasCompleted(seg)' => seg \in completed'
    BY DEF AckReflected
  <2>1. Publishes(graph, r) /\ entryAck[r] = nextSeq[r] /\ seg \in graph.segments
    BY <1>2, <1>5 DEF Publishes
  <2>2. entryQ[r] \in Seq(Event) /\ Len(entryQ[r]) \in Nat /\ entryAck[r] \in Nat
    BY DEF TypeInv, TypeOK
  <2>3. Len(entryQ[r]) = 0
    BY <2>1, <2>2 DEF EventsCounted
  <2>4. DOMAIN entryQ[r] = {}
    BY <2>2, <2>3
  <2>5. ~OnItsWay(seg) /\ ~ArrivalOnItsWay(seg)
    BY <2>4 DEF OnItsWay, ArrivalOnItsWay
  <2> QED
    BY <1>7, <1>8, <2>1, <2>5
<1>11. NumbersBehind'
  BY <1>2, <1>5 DEF NumbersBehind, Publishes
<1> QED
  BY <1>1, <1>2, <1>3, <1>6, <1>9, <1>10, <1>11

(* Reading an event moves it from the channel to the buffers and moves the *)
(* acknowledgement by exactly one.                                         *)
LEMMA OnEntryEventsAckInv ==
    ASSUME AckInv, NEW r \in Robots, OnEntryEvents(r)
    PROVE  AckInv'
<1> USE DEF AckInv
<1>1. TypeInv'
  BY NodeTypeInv
<1>2. UNCHANGED <<graph, entered, completed, activeCommit, commitSeq, constraints,
                  releaseTopic, nextSeq, adopted, idx, moving, lost>>
  BY DEF OnEntryEvents, graphVars, historyVars
<1>3. \A seg : /\ HasStarted(seg)' <=> HasStarted(seg)
               /\ HasCompleted(seg)' <=> HasCompleted(seg)
  BY <1>2 DEF HasStarted, HasCompleted, Pos, Adopted
<1>4. AckReflected' /\ NumbersBehind'
  BY <1>2, <1>3 DEF AckReflected, Publishes, NumbersBehind
<1>5. /\ entryQ[r] \in Seq(Event) /\ entryQ[r] # <<>>
      /\ entryAck \in [Robots -> Nat] /\ entryQ \in [Robots -> Seq(Event)]
      /\ releaseTopic[r].ack \in Nat
  BY DEF OnEntryEvents, TypeInv, TypeOK, Release
<1> DEFINE q == entryQ[r]
           t == Tail(q)
           e == Head(q)
<1>6. /\ Len(q) \in Nat /\ Len(q) >= 1 /\ e = q[1] /\ e \in Event
      /\ 1 \in DOMAIN q
      /\ Len(t) \in Nat /\ Len(t) + 1 = Len(q)
      /\ \A n \in DOMAIN t : n \in Nat /\ n + 1 \in DOMAIN q /\ t[n] = q[n + 1]
      /\ \A n \in DOMAIN q : n = 1 \/ (n - 1 \in DOMAIN t /\ t[n - 1] = q[n])
  BY <1>5
<1>7. e.seq \in Nat /\ e.seq = entryAck[r]
  <2>1. entryAck[r] \in Nat /\ e.seq \in Nat
    BY <1>5, <1>6 DEF Event
  <2>2. q[1].seq + 1 = entryAck[r] + 1
    BY <1>6 DEF EventsCounted
  <2>3. e.seq + 1 = entryAck[r] + 1
    BY <1>6, <2>2
  <2> QED
    BY <2>1, <2>3
<1>8. /\ entryAck' = [entryAck EXCEPT ![r] = entryAck[r] + 1]
      /\ entryQ' = [entryQ EXCEPT ![r] = t]
      /\ pendingStarted \subseteq pendingStarted'
      /\ pendingCompleted \subseteq pendingCompleted'
      /\ IF e.entered THEN e.segment \in pendingCompleted'
                      ELSE e.segment \in pendingStarted'
  <2>1. /\ entryAck' = [entryAck EXCEPT ![r] = IF e.seq + 1 > entryAck[r]
                                              THEN e.seq + 1 ELSE entryAck[r]]
        /\ entryQ' = [entryQ EXCEPT ![r] = t]
    BY DEF OnEntryEvents
  <2>2. pendingStarted \subseteq pendingStarted' /\ pendingCompleted \subseteq pendingCompleted'
    BY DEF OnEntryEvents
  <2>3. IF e.entered THEN e.segment \in pendingCompleted'
                     ELSE e.segment \in pendingStarted'
    BY DEF OnEntryEvents
  <2>4. e.seq + 1 = entryAck[r] + 1 /\ e.seq + 1 > entryAck[r]
    BY <1>7
  <2> HIDE DEF q, t, e
  <2>5. entryAck' = [entryAck EXCEPT ![r] = entryAck[r] + 1]
    BY <2>1, <2>4
  <2> QED
    BY <2>1, <2>2, <2>3, <2>5
<1>9. q = entryQ[r]
  OBVIOUS
<1> HIDE DEF q, t, e
<1>10. /\ entryAck'[r] = entryAck[r] + 1 /\ entryQ'[r] = t
       /\ \A s \in Robots \ {r} : entryAck'[s] = entryAck[s] /\ entryQ'[s] = entryQ[s]
  BY <1>5, <1>8
<1>11. AckBehind'
  <2>1. entryAck[r] \in Nat /\ releaseTopic[r].ack <= entryAck[r]
    BY <1>5 DEF AckBehind
  <2>2. releaseTopic[r].ack <= entryAck[r] + 1
    BY <1>5, <2>1
  <2>3. ASSUME NEW s \in Robots
        PROVE  releaseTopic'[s].ack <= entryAck'[s]
    <3>1. CASE s = r
      BY <1>2, <1>10, <2>2, <3>1
    <3>2. CASE s # r
      BY <1>2, <1>10, <3>2 DEF AckBehind
    <3> QED
      BY <3>1, <3>2
  <2> QED
    BY <2>3 DEF AckBehind
<1>12. EventsCounted'
  <2>1. entryAck[r] \in Nat /\ entryAck[r] + Len(q) = nextSeq[r]
    BY <1>5, <1>9 DEF EventsCounted
  <2>2. entryAck[r] + 1 + Len(t) = nextSeq[r]
    BY <1>6, <2>1
  <2>3. ASSUME NEW n \in DOMAIN t
        PROVE  t[n].seq + 1 = entryAck[r] + 1 + n
    <3>1. n \in Nat /\ n + 1 \in DOMAIN q /\ t[n] = q[n + 1]
      BY <1>6
    <3>2. q[n + 1].seq + 1 = entryAck[r] + (n + 1)
      BY <1>9, <3>1 DEF EventsCounted
    <3> QED
      BY <2>1, <3>1, <3>2
  <2>4. ASSUME NEW s \in Robots
        PROVE  /\ entryAck'[s] + Len(entryQ'[s]) = nextSeq'[s]
               /\ \A n \in DOMAIN entryQ'[s] : entryQ'[s][n].seq + 1 = entryAck'[s] + n
    <3>1. CASE s = r
      BY <1>2, <1>10, <2>2, <2>3, <3>1
    <3>2. CASE s # r
      BY <1>2, <1>10, <3>2 DEF EventsCounted
    <3> QED
      BY <3>1, <3>2
  <2> QED
    BY <2>4 DEF EventsCounted
<1>13. MovesKnown'
  <2> SUFFICES ASSUME NEW seg \in graph.segments
               PROVE  MoveKnown(seg)'
    BY <1>2 DEF MovesKnown
  <2>1. MoveKnown(seg) /\ seg[1] \in Robots
    BY GraphSegs DEF MovesKnown
  <2>2. OnItsWay(seg) => OnItsWay(seg)' \/ seg \in pendingStarted' \cup pendingCompleted'
    <3> SUFFICES ASSUME NEW n \in DOMAIN entryQ[seg[1]], entryQ[seg[1]][n].segment = seg
                 PROVE  OnItsWay(seg)' \/ seg \in pendingStarted' \cup pendingCompleted'
      BY DEF OnItsWay
    <3>1. CASE seg[1] = r
      <4>1. n \in DOMAIN q /\ q[n].segment = seg /\ entryQ'[seg[1]] = t
        BY <1>9, <1>10, <3>1
      <4>2. CASE n = 1
        BY <1>6, <1>8, <4>1, <4>2
      <4>3. CASE n # 1
        BY <1>6, <4>1, <4>3 DEF OnItsWay
      <4> QED
        BY <4>2, <4>3
    <3>2. CASE seg[1] # r
      BY <1>10, <2>1, <3>2 DEF OnItsWay
    <3> QED
      BY <3>1, <3>2
  <2>3. ArrivalOnItsWay(seg) => ArrivalOnItsWay(seg)' \/ seg \in pendingCompleted'
    <3> SUFFICES ASSUME NEW n \in DOMAIN entryQ[seg[1]], entryQ[seg[1]][n].segment = seg,
                        entryQ[seg[1]][n].entered
                 PROVE  ArrivalOnItsWay(seg)' \/ seg \in pendingCompleted'
      BY DEF ArrivalOnItsWay
    <3>1. CASE seg[1] = r
      <4>1. /\ n \in DOMAIN q /\ q[n].segment = seg /\ q[n].entered
            /\ entryQ'[seg[1]] = t
        BY <1>9, <1>10, <3>1
      <4>2. CASE n = 1
        BY <1>6, <1>8, <4>1, <4>2
      <4>3. CASE n # 1
        BY <1>6, <4>1, <4>3 DEF ArrivalOnItsWay
      <4> QED
        BY <4>2, <4>3
    <3>2. CASE seg[1] # r
      BY <1>10, <2>1, <3>2 DEF ArrivalOnItsWay
    <3> QED
      BY <3>1, <3>2
  <2> QED
    BY <1>2, <1>3, <1>8, <2>1, <2>2, <2>3 DEF MoveKnown
<1> QED
  BY <1>1, <1>2, <1>4, <1>11, <1>12, <1>13

(* The steps that neither move a robot nor touch the accounting.           *)
LEMMA QuietAckInv ==
    ASSUME AckInv, TypeInv',
           UNCHANGED <<graph, entered, completed, pendingStarted, pendingCompleted,
                       entryAck, activeCommit, commitSeq, releaseTopic, nextSeq,
                       entryQ, lost>>,
           \A r \in Robots : \/ Pos(r)' = Pos(r) /\ (moving'[r] = moving[r])
                             \/ (Pos(r) = -1) /\ (Pos(r)' = 0) /\ ~moving'[r]
    PROVE  AckInv'
<1> USE DEF AckInv
<1>1. EventsCounted' /\ AckBehind' /\ NumbersBehind'
  BY DEF EventsCounted, AckBehind, NumbersBehind, Publishes
<1>2. \A seg \in graph.segments : /\ HasStarted(seg)' => HasStarted(seg)
                                  /\ HasCompleted(seg)' => HasCompleted(seg)
                                  /\ OnItsWay(seg)' <=> OnItsWay(seg)
                                  /\ ArrivalOnItsWay(seg)' <=> ArrivalOnItsWay(seg)
  BY GraphSegs DEF HasStarted, HasCompleted, OnItsWay, ArrivalOnItsWay
<1>3. MovesKnown' /\ AckReflected'
  BY <1>2 DEF MovesKnown, MoveKnown, AckReflected, Publishes
<1> QED
  BY <1>1, <1>3

(* A robot that reports a move has sent one event more than any release    *)
(* acknowledges, and the event names the move.                             *)
LEMMA EmitAckInv ==
    ASSUME AckInv, TypeInv', NEW r \in Robots, NEW ent \in BOOLEAN, Emit(r, ent),
           idx[r] # -1,
           UNCHANGED <<graph, entered, completed, pendingStarted, pendingCompleted,
                       entryAck, activeCommit, commitSeq, releaseTopic, lost>>,
           \A s \in Robots \ {r} : Pos(s)' = Pos(s) /\ moving'[s] = moving[s],
           \A k \in Nat : /\ HasStarted(<<r, k>>)'
                             => HasStarted(<<r, k>>) \/ k = idx[r]
                          /\ HasCompleted(<<r, k>>)'
                             => HasCompleted(<<r, k>>) \/ (k = idx[r] /\ ent)
    PROVE  AckInv'
<1> USE DEF AckInv
<1> DEFINE e == [seq |-> nextSeq[r], segment |-> <<r, idx[r]>>, entered |-> ent]
           q == entryQ[r]
<1>1. /\ entryQ \in [Robots -> Seq(Event)] /\ nextSeq \in [Robots -> Nat]
      /\ \A s \in Robots : /\ entryAck[s] \in Nat /\ releaseTopic[s].ack \in Nat
      /\ e \in Event /\ q \in Seq(Event)
  <2>1. idx[r] \in Nat /\ nextSeq[r] \in Nat
    BY DEF TypeInv, TypeOK
  <2>2. e \in Event
    BY <2>1 DEF Event, Segs
  <2> QED
    BY <2>2 DEF TypeInv, TypeOK, Release
<1>2. entryQ' = [entryQ EXCEPT ![r] = Append(q, e)]
  BY DEF Emit
<1>3. nextSeq' = [nextSeq EXCEPT ![r] = nextSeq[r] + 1]
  BY DEF Emit
<1>4. /\ entryQ'[r] = Append(q, e) /\ nextSeq'[r] = nextSeq[r] + 1
      /\ \A s \in Robots \ {r} : entryQ'[s] = entryQ[s] /\ nextSeq'[s] = nextSeq[s]
  BY <1>1, <1>2, <1>3
<1>5. e.seq = nextSeq[r] /\ e.segment = <<r, idx[r]>> /\ e.entered = ent
  OBVIOUS
<1> HIDE DEF e
<1>6. /\ Len(q) \in Nat /\ Len(Append(q, e)) = Len(q) + 1
      /\ DOMAIN Append(q, e) = 1 .. Len(q) + 1 /\ DOMAIN q = 1 .. Len(q)
      /\ Append(q, e)[Len(q) + 1] = e
      /\ \A n \in 1 .. Len(q) : Append(q, e)[n] = q[n]
  BY <1>1, AppendProperties
<1>7. entryAck[r] + Len(q) = nextSeq[r] /\ nextSeq[r] \in Nat
  BY <1>1 DEF EventsCounted
<1>8. EventsCounted'
  <2>1. entryAck[r] + Len(Append(q, e)) = nextSeq[r] + 1
    BY <1>1, <1>6, <1>7
  <2>2. ASSUME NEW n \in DOMAIN Append(q, e)
        PROVE  Append(q, e)[n].seq + 1 = entryAck[r] + n
    <3>1. CASE n = Len(q) + 1
      BY <1>1, <1>5, <1>6, <1>7, <3>1
    <3>2. CASE n # Len(q) + 1
      <4>1. n \in DOMAIN q
        BY <1>6, <2>2, <3>2
      <4> QED
        BY <1>6, <4>1 DEF EventsCounted
    <3> QED
      BY <3>1, <3>2
  <2> QED
    BY <1>4, <2>1, <2>2 DEF EventsCounted
<1>9. AckBehind' /\ NumbersBehind'
  BY DEF AckBehind, NumbersBehind, Publishes
<1>10. ASSUME NEW s \in Robots, NEW k \in Nat
       PROVE  LET seg == <<s, k>>
              IN  /\ OnItsWay(seg) => OnItsWay(seg)'
                  /\ ArrivalOnItsWay(seg) => ArrivalOnItsWay(seg)'
                  /\ s = r /\ k = idx[r] => OnItsWay(seg)'
                  /\ s = r /\ k = idx[r] /\ ent => ArrivalOnItsWay(seg)'
                  /\ s # r => /\ HasStarted(seg)' <=> HasStarted(seg)
                              /\ HasCompleted(seg)' <=> HasCompleted(seg)
  <2>1. CASE s # r
    <3>1. /\ entryQ'[s] = entryQ[s] /\ Pos(s)' = Pos(s) /\ moving'[s] = moving[s]
      BY <1>4, <2>1
    <3> QED
      BY <2>1, <3>1 DEF OnItsWay, ArrivalOnItsWay, HasStarted, HasCompleted
  <2>2. CASE s = r
    <3> DEFINE a == Append(q, e)
    <3>1. /\ entryQ'[s] = a /\ entryQ[s] = q
          /\ Len(q) + 1 \in DOMAIN a /\ a[Len(q) + 1] = e
      BY <1>4, <1>6, <2>2
    <3>2. \A n \in DOMAIN q : n \in DOMAIN a /\ a[n] = q[n]
      BY <1>6
    <3> HIDE DEF a, q
    <3>3. OnItsWay(<<s, k>>) => OnItsWay(<<s, k>>)'
      BY <3>1, <3>2 DEF OnItsWay
    <3>4. ArrivalOnItsWay(<<s, k>>) => ArrivalOnItsWay(<<s, k>>)'
      BY <3>1, <3>2 DEF ArrivalOnItsWay
    <3>5. k = idx[r] => OnItsWay(<<s, k>>)'
      BY <1>5, <2>2, <3>1 DEF OnItsWay
    <3>6. k = idx[r] /\ ent => ArrivalOnItsWay(<<s, k>>)'
      BY <1>5, <2>2, <3>1 DEF ArrivalOnItsWay
    <3> QED
      BY <2>2, <3>3, <3>4, <3>5, <3>6
  <2> QED
    BY <2>1, <2>2
<1>11. MovesKnown'
  <2> SUFFICES ASSUME NEW seg \in graph.segments
               PROVE  MoveKnown(seg)'
    BY DEF MovesKnown
  <2>1. PICK s \in Robots, k \in Nat : seg = <<s, k>>
    BY GraphSegs DEF Segs
  <2>2. MoveKnown(<<s, k>>)
    BY <2>1 DEF MovesKnown
  <2>3. MoveKnown(<<s, k>>)'
    BY <1>10, <2>2 DEF MoveKnown
  <2> QED
    BY <2>1, <2>3
<1>12. AckReflected'
  <2> SUFFICES ASSUME NEW s \in Robots, Publishes(graph, s),
                      releaseTopic[s].commit = activeCommit,
                      releaseTopic[s].ack = nextSeq'[s],
                      NEW seg \in graph.segments, seg[1] = s
               PROVE  /\ HasStarted(seg)' => seg \in entered
                      /\ HasCompleted(seg)' => seg \in completed
    BY DEF AckReflected, Publishes
  <2>1. s # r
    <3>1. releaseTopic[r].ack <= entryAck[r]
      BY DEF AckBehind
    <3>2. releaseTopic[r].ack < nextSeq[r] + 1
      BY <1>1, <1>6, <1>7, <3>1
    <3>3. nextSeq'[r] = nextSeq[r] + 1 /\ releaseTopic[r].ack \in Nat
      BY <1>1, <1>4
    <3> QED
      BY <3>2, <3>3
  <2>2. seg[1] \in Robots /\ seg = <<s, seg[2]>> /\ seg[2] \in Nat
    BY GraphSegs DEF Segs
  <2>3. /\ HasStarted(seg)' <=> HasStarted(seg)
        /\ HasCompleted(seg)' <=> HasCompleted(seg)
    BY <1>10, <2>1, <2>2
  <2>4. releaseTopic[s].ack = nextSeq[s]
    BY <1>4, <2>1
  <2> QED
    BY <2>3, <2>4 DEF AckReflected
<1> QED
  BY <1>8, <1>9, <1>11, <1>12

(* A robot that adopts the constraints is where they count it to be.       *)
LEMMA AdoptAckInv ==
    ASSUME AckInv, NEW r \in Robots, Adopt(r)
    PROVE  AckInv'
<1>1. TypeInv'
  BY RobotTypeInv DEF AckInv
<1>2. UNCHANGED <<graph, entered, completed, pendingStarted, pendingCompleted, entryAck,
                  activeCommit, commitSeq, releaseTopic, moving, nextSeq, entryQ, lost>>
  BY DEF Adopt, nodeVars, historyVars
<1>3. \A s \in Robots : Pos(s)' = Pos(s)
  BY AdoptKeepsPos DEF AckInv
<1> QED
  BY <1>1, <1>2, <1>3, QuietAckInv

(* A departure is reported as one; on an older plan, it starts nothing.    *)
LEMMA DepartAckInv ==
    ASSUME AckInv, NEW r \in Robots, Depart(r)
    PROVE  AckInv'
<1>1. TypeInv'
  BY RobotTypeInv DEF AckInv
<1>2. /\ UNCHANGED <<graph, entered, completed, pendingStarted, pendingCompleted,
                     entryAck, activeCommit, commitSeq, releaseTopic, constraints,
                     adopted, idx, lost>>
      /\ Emit(r, FALSE)
      /\ moving' = [moving EXCEPT ![r] = TRUE]
      /\ ~moving[r]
  BY DEF Depart, nodeVars
<1>3. /\ idx[r] # -1 /\ moving'[r]
      /\ \A s \in Robots \ {r} : moving'[s] = moving[s]
  BY <1>2 DEF AckInv, TypeInv, TypeOK, RobotsOnPlans
<1>4. \A s \in Robots : Adopted(s)' <=> Adopted(s)
  BY <1>2 DEF Adopted
<1>5. \A s \in Robots \ {r} : Pos(s)' = Pos(s)
  BY <1>2, <1>3, <1>4 DEF Pos
<1>6. \A k \in Nat : /\ HasStarted(<<r, k>>)' => HasStarted(<<r, k>>) \/ k = idx[r]
                     /\ HasCompleted(<<r, k>>)' => HasCompleted(<<r, k>>)
  <2>1. CASE Adopted(r)
    <3>1. Pos(r)' = idx[r] /\ Pos(r) = idx[r]
      BY <1>2, <1>4, <2>1 DEF Pos
    <3> QED
      BY <3>1 DEF HasStarted, HasCompleted
  <2>2. CASE ~Adopted(r)
    <3>1. Pos(r)' = -1
      BY <1>3, <1>4, <2>2 DEF Pos
    <3> QED
      BY <3>1 DEF HasStarted, HasCompleted
  <2> QED
    BY <2>1, <2>2
<1> QED
  BY <1>1, <1>2, <1>3, <1>5, <1>6, EmitAckInv

(* An arrival is reported as one, and was started before.                  *)
LEMMA ArriveAckInv ==
    ASSUME AckInv, NEW r \in Robots, Arrive(r)
    PROVE  AckInv'
<1>1. TypeInv'
  BY RobotTypeInv DEF AckInv
<1>2. /\ UNCHANGED <<graph, entered, completed, pendingStarted, pendingCompleted,
                     entryAck, activeCommit, commitSeq, releaseTopic, constraints,
                     adopted, heads, lost>>
      /\ Emit(r, TRUE) /\ Entered(r) /\ moving[r]
  BY DEF Arrive, nodeVars
<1>3. idx[r] # -1 /\ idx[r] \in Nat
  BY DEF Arrive, AckInv, TypeInv, TypeOK
<1>4. /\ Pos(r)' = Pos(r) + 1 /\ ~moving'[r]
      /\ \A s \in Robots \ {r} : Pos(s)' = Pos(s) /\ moving'[s] = moving[s]
  BY <1>2, EnteredStep DEF AckInv
<1>5. Pos(r) = idx[r] \/ Pos(r) = -1
  BY <1>2 DEF Pos
<1>6. \A k \in Nat : /\ HasStarted(<<r, k>>)' => HasStarted(<<r, k>>) \/ k = idx[r]
                     /\ HasCompleted(<<r, k>>)' => HasCompleted(<<r, k>>) \/ k = idx[r]
  BY <1>3, <1>4, <1>5 DEF HasStarted, HasCompleted
<1> QED
  BY <1>1, <1>2, <1>3, <1>4, <1>6, EmitAckInv

(* A move of an earlier plan that ends starts nothing on the plan in force. *)
LEMMA ArriveAtStartAckInv ==
    ASSUME AckInv, NEW r \in Robots, ArriveAtStart(r)
    PROVE  AckInv'
<1>1. TypeInv'
  BY RobotTypeInv DEF AckInv
<1>2. /\ UNCHANGED <<graph, entered, completed, pendingStarted, pendingCompleted,
                     entryAck, activeCommit, commitSeq, releaseTopic, constraints,
                     adopted, heads, nextSeq, entryQ, lost>>
      /\ Entered(r) /\ moving[r] /\ idx[r] = -1
  BY DEF ArriveAtStart, nodeVars, historyVars
<1>3. /\ Pos(r)' = Pos(r) + 1 /\ ~moving'[r]
      /\ \A s \in Robots \ {r} : Pos(s)' = Pos(s) /\ moving'[s] = moving[s]
  BY <1>2, EnteredStep DEF AckInv
<1>4. Pos(r) = -1 /\ Pos(r)' = 0
  BY <1>2, <1>3 DEF Pos
<1> QED
  BY <1>1, <1>2, <1>3, <1>4, QuietAckInv

(* Every step keeps the acknowledgement honest, unless an event is lost.   *)
LEMMA NextAckInv ==
    ASSUME IntakeSuffices, AckInv, [Next]_vars, lost' = 0
    PROVE  AckInv'
<1>1. CASE OnTick
  BY <1>1, OnTickAckInv
<1>2. CASE \E i \in DOMAIN Plans : OnPlan(i)
  BY <1>2, OnPlanAckInv
<1>3. TypeInv'
  BY NextTypeInv DEF AckInv
<1>4. ASSUME UNCHANGED <<graph, entered, completed, pendingStarted, pendingCompleted,
                         entryAck, activeCommit, commitSeq, releaseTopic, moving, nextSeq,
                         entryQ, constraints, adopted, idx, lost>>
      PROVE  AckInv'
  <2>1. \A r \in Robots : Pos(r)' = Pos(r)
    BY <1>4 DEF Pos, Adopted
  <2> QED
    BY <1>3, <1>4, <2>1, QuietAckInv
<1>5. CASE \E edge \in StopEdges : OnStopDeclarations(edge)
  BY <1>4, <1>5 DEF OnStopDeclarations, graphVars, robotVars, historyVars
<1>6. ASSUME NEW r \in Robots, Robot(r) \/ LoseEvent(r)
      PROVE  AckInv'
  <2>1. CASE OnEntryEvents(r)
    BY <2>1, OnEntryEventsAckInv
  <2>2. CASE DeliverRelease(r)
    BY <1>4, <2>2 DEF DeliverRelease, nodeVars, historyVars
  <2>3. CASE Adopt(r)
    BY <2>3, AdoptAckInv
  <2>4. CASE Depart(r)
    BY <2>4, DepartAckInv
  <2>5. CASE Arrive(r)
    BY <2>5, ArriveAckInv
  <2>6. CASE ArriveAtStart(r)
    BY <2>6, ArriveAtStartAckInv
  <2>7. CASE LoseEvent(r)
    <3>1. lost = 0 /\ lost' = lost + 1
      BY <2>7 DEF LoseEvent, AckInv
    <3> QED
      BY <3>1
  <2> QED
    BY <1>6, <2>1, <2>2, <2>3, <2>4, <2>5, <2>6, <2>7 DEF Robot, Move
<1>7. CASE UNCHANGED vars
  BY <1>4, <1>7 DEF vars, nodeVars, robotVars, historyVars
<1> QED
  BY <1>1, <1>2, <1>5, <1>6, <1>7 DEF Next

(* A lost event stays lost.                                                *)
LEMMA LossesStay == TypeInv /\ [Next]_vars /\ lost' = 0 => lost = 0
<1> SUFFICES ASSUME TypeInv, [Next]_vars, lost' = 0 PROVE lost = 0
  OBVIOUS
<1>1. lost \in Nat
  BY ChannelAssumption DEF TypeInv, TypeOK
<1>2. ASSUME NEW r \in Robots, LoseEvent(r) PROVE lost' = lost + 1
  BY <1>2 DEF LoseEvent
<1>3. ASSUME NEW r \in Robots, Robot(r) PROVE lost' = lost
  BY <1>3 DEF Robot, Move, OnEntryEvents, DeliverRelease, Adopt, Depart, Arrive,
              ArriveAtStart, historyVars
<1>4. ASSUME NEW i \in DOMAIN Plans, OnPlan(i) PROVE lost' = lost
  BY <1>4 DEF OnPlan
<1>5. CASE OnTick \/ (\E edge \in StopEdges : OnStopDeclarations(edge)) \/ UNCHANGED vars
  BY <1>5 DEF OnTick, OnStopDeclarations, vars, historyVars
<1>6. lost' = lost \/ lost' = lost + 1
  BY <1>2, <1>3, <1>4, <1>5 DEF Next
<1> QED
  BY <1>1, <1>6

(* When the acknowledgement on a robot's latched release covers every      *)
(* event the robot has sent, the graph the release was computed from knows *)
(* every departure and every arrival of the robot, however the events and  *)
(* the ticks interleave and however often plans are replaced or rejected.  *)
THEOREM AckIsHonest ==
    ASSUME IntakeSuffices
    PROVE  Spec => []AckReflected
<1>1. Init => TypeInv /\ (lost = 0 => AckInv)
  BY InitAckInv DEF AckInv
<1>2. TypeInv /\ (lost = 0 => AckInv) /\ [Next]_vars => (TypeInv /\ (lost = 0 => AckInv))'
  BY NextTypeInv, NextAckInv, LossesStay
<1>3. TypeInv /\ (lost = 0 => AckInv) => AckReflected
  BY DEF AckInv, AckReflected
<1> QED
  BY <1>1, <1>2, <1>3, PTL DEF Spec

-----------------------------------------------------------------------------
(* The refinement.  The server with its graph, its bits and its messages   *)
(* implements VisitOrder.  A plan that compiles is the abstract replan,    *)
(* wherever it finds the robots, a departure is Leave, both arrivals are   *)
(* Enter, and everything else, losses included, is invisible.  That Enter  *)
(* waits for all earlier visits comes from the safety invariant after the  *)
(* step: what is over when the robot is there was over when it went in.    *)

(* Plans are taken in order; before the first commit nobody moves. *)
PlansAdvance ==
    /\ constraints.plan < nextPlan
    /\ constraints.commit = None
       => constraints.plan = 0 /\ \A r \in Robots : ~moving[r] /\ adopted[r].commit = None

LEMMA InitPlansAdvance == Init => PlansAdvance
BY DEF Init, PlansAdvance, None

LEMMA NextPlansAdvance == TypeInv /\ PlansAdvance /\ [Next]_vars => PlansAdvance'
<1> SUFFICES ASSUME TypeInv, PlansAdvance, [Next]_vars PROVE PlansAdvance'
  OBVIOUS
<1>1. ASSUME NEW i \in DOMAIN Plans, OnPlan(i) PROVE PlansAdvance'
  <2>1. /\ i \in Nat /\ nextPlan' = i + 1 /\ i >= nextPlan
        /\ constraints.plan \in Nat /\ nextPlan \in Nat /\ commitSeq \in Nat
        /\ UNCHANGED <<moving, adopted>>
    BY <1>1, PlansAssumption DEF OnPlan, robotVars, TypeInv, TypeOK
  <2>2. CASE constraints' = [commit |-> commitSeq, plan |-> i]
    BY <2>1, <2>2 DEF PlansAdvance, None
  <2>3. CASE constraints' = constraints
    BY <2>1, <2>3 DEF PlansAdvance
  <2> QED
    BY <1>1, <2>2, <2>3 DEF OnPlan
<1>2. CASE UNCHANGED <<constraints, nextPlan, moving, adopted>>
  BY <1>2 DEF PlansAdvance
<1>3. CASE constraints.commit # None /\ UNCHANGED <<constraints, nextPlan>>
  BY <1>3 DEF PlansAdvance
<1>4. ASSUME NEW r \in Robots, Depart(r) \/ Arrive(r) \/ ArriveAtStart(r) \/ Adopt(r)
      PROVE  constraints.commit # None
  BY <1>4 DEF PlansAdvance, Depart, Arrive, ArriveAtStart, Adopt
<1>5. \/ \E i \in DOMAIN Plans : OnPlan(i)
      \/ UNCHANGED <<constraints, nextPlan, moving, adopted>>
      \/ constraints.commit # None /\ UNCHANGED <<constraints, nextPlan>>
  <2>1. ASSUME NEW r \in Robots, Depart(r) \/ Arrive(r) \/ ArriveAtStart(r) \/ Adopt(r)
        PROVE  UNCHANGED <<constraints, nextPlan>>
    BY <2>1 DEF Depart, Arrive, ArriveAtStart, Adopt, nodeVars
  <2> QED
    BY <1>4, <2>1
       DEF Next, vars, nodeVars, robotVars, OnTick, OnStopDeclarations, Robot, Move,
           OnEntryEvents, DeliverRelease, LoseEvent
<1> QED
  BY <1>1, <1>2, <1>3, <1>5

-----------------------------------------------------------------------------
(* The safety invariant, read as what the abstract guard asks for. *)
EarlierOver ==
    drained /\ constraints.commit # None
    => \A e \in DOMAIN Plan.visits :
          \A m, n \in DOMAIN Plan.visits[e].sequence :
             /\ m < n
             /\ Pos(Plan.visits[e].sequence[n].robot) >= Plan.visits[e].sequence[n].index
             => HasStarted(<<Plan.visits[e].sequence[m].robot,
                             Plan.visits[e].sequence[m].index>>)

LEMMA EarlierVisitsOver == SafetyInv => EarlierOver
<1>1. SafetyInv /\ drained => TypeInv /\ VisitsInOrder
  BY DEF SafetyInv, PlanServed
<1> QED
  BY <1>1, EarlierVisitsLeft DEF EarlierOver

-----------------------------------------------------------------------------
(* The steps. *)

LEMMA InitMaps == Init => Discipline!Init
<1> SUFFICES ASSUME Init PROVE Discipline!Init
  OBVIOUS
<1>1. \A r \in Robots : Pos(r) = 0
  BY DEF Init, Pos, Adopted
<1> QED
  BY <1>1 DEF Init, Discipline!Init

\* a step that leaves the plan and the robots alone is invisible
LEMMA QuietMaps ==
    ASSUME UNCHANGED <<constraints, moving, at, heads, drained>>,
           \A r \in Robots : Pos(r)' = Pos(r)
    PROVE  UNCHANGED Discipline!vars
BY DEF Discipline!vars

\* a plan that compiles takes over, wherever the robots are
LEMMA OnPlanMaps ==
    ASSUME TypeInv, PlansAdvance, NEW i \in DOMAIN Plans, OnPlan(i), drained'
    PROVE  Discipline!Replan(i) \/ UNCHANGED Discipline!vars
<1>1. /\ i >= nextPlan /\ i \in Nat
      /\ UNCHANGED <<adopted, idx, moving, at, heads>>
  BY PlansAssumption DEF OnPlan, robotVars
<1>2. CASE i \in Accepted
  <2>1. constraints' = [commit |-> commitSeq, plan |-> i] /\ drained' = Drained
    BY <1>2 DEF OnPlan
  <2>2. \A r \in Robots : adopted[r].commit \in Nat \cup {None} /\ adopted[r].commit < commitSeq
                          /\ commitSeq \in Nat
    BY DEF TypeInv, TypeOK, RobotsOnPlans
  <2>3. \A r \in Robots : Pos(r)' = IF moving[r] THEN -1 ELSE 0
    <3>1. \A r \in Robots : adopted'[r].commit # commitSeq
      BY <1>1, <2>2 DEF None
    <3>2. \A r \in Robots : ~Adopted(r)'
      BY <2>1, <3>1 DEF Adopted
    <3> QED
      BY <1>1, <3>2 DEF Pos
  <2>4. i > constraints.plan
    BY <1>1 DEF PlansAdvance, TypeInv, TypeOK
  <2>5. /\ constraints'.plan = i
        /\ [r \in Robots |-> Pos(r)]' = [r \in Robots |-> IF moving[r] THEN -1 ELSE 0]
    BY <2>1, <2>3
  <2>6. drained' = TRUE
    BY <2>1 DEF Drained
  <2> QED
    BY <1>1, <1>2, <2>4, <2>5, <2>6 DEF Discipline!Replan
<1>3. CASE i \notin Accepted
  <2>1. UNCHANGED <<constraints, drained>>
    BY <1>3 DEF OnPlan
  <2>2. \A r \in Robots : Pos(r)' = Pos(r)
    BY <1>1, <2>1 DEF Pos, Adopted
  <2> QED
    BY <1>1, <2>1, <2>2, QuietMaps
<1> QED
  BY <1>2, <1>3

\* a departure that keeps the plan settled is one on the plan in force
LEMMA DepartMaps ==
    ASSUME TypeInv, NEW r \in Robots, Depart(r), drained'
    PROVE  Discipline!Leave(r)
<1>1. /\ drained' = (drained /\ Adopted(r)) /\ drained \in BOOLEAN
      /\ moving' = [moving EXCEPT ![r] = TRUE]
      /\ heads' = [heads EXCEPT ![r] = Path(r)[idx[r] + 2]]
      /\ ~moving[r] /\ idx[r] + 1 < Len(Path(r))
      /\ UNCHANGED <<constraints, adopted, idx, at>>
  BY DEF Depart, Emit, nodeVars, TypeInv, TypeOK
<1>2. Adopted(r) /\ drained' = drained
  BY <1>1
<1>3. Pos(r) = idx[r] /\ Path(r) = Plans[constraints.plan].steps[r]
  BY <1>2 DEF Pos, Path, Adopted
<1>4. \A q \in Robots : Pos(q)' = Pos(q)
  <2>1. \A q \in Robots \ {r} : moving'[q] = moving[q]
    BY <1>1 DEF TypeInv, TypeOK
  <2> QED
    BY <1>1, <1>2, <2>1 DEF Pos, Adopted
<1>5. constraints.plan # 0
  BY <1>2, PlansAssumption DEF Adopted, TypeInv, PlanInForce
<1> QED
  BY <1>1, <1>2, <1>3, <1>4, <1>5 DEF Discipline!Leave, Discipline!Path

\* what is over after r has entered was over before, but for r's own visits
LEMMA EnteredHasTurn ==
    ASSUME TypeInv, EarlierOver', drained', constraints.commit # None,
           NEW r \in Robots, moving[r], Entered(r),
           UNCHANGED <<commitSeq, constraints, adopted, heads>>
    PROVE  Discipline!HasItsTurn(r)
<1>1. /\ Pos(r)' = Pos(r) + 1 /\ Pos(r)' \in Nat /\ ~moving'[r]
      /\ \A q \in Robots \ {r} : Pos(q)' = Pos(q) /\ moving'[q] = moving[q]
  BY EnteredStep
<1>2. Plan' = Plan /\ Pos(r) \in Nat \cup {-1}
  BY PosType DEF Plan
<1> SUFFICES ASSUME NEW e \in DOMAIN Plan.visits,
                    NEW m \in DOMAIN Plan.visits[e].sequence,
                    NEW n \in DOMAIN Plan.visits[e].sequence, m < n,
                    Plan.visits[e].sequence[n].robot = r,
                    Plan.visits[e].sequence[n].index = Pos(r) + 1
             PROVE  Discipline!Left(Plan.visits[e].sequence[m].robot,
                                    Plan.visits[e].sequence[m].index)
  BY DEF Discipline!HasItsTurn, Plan
<1>3. PICK q \in Robots, i \in Nat : /\ q = Plan.visits[e].sequence[m].robot
                                     /\ i = Plan.visits[e].sequence[m].index
  <2>1. Plan \in PlanRecords
    BY PlanParts
  <2> QED
    BY <2>1, VisitsType
<1>4. HasStarted(<<q, i>>)'
  <2>1. Plan'.visits = Plan.visits /\ constraints'.commit # None
    BY <1>2
  <2>2. Pos(Plan.visits[e].sequence[n].robot)' >= Plan.visits[e].sequence[n].index
    BY <1>1, <1>2
  <2> QED
    BY <1>2, <1>3, <2>1, <2>2 DEF EarlierOver
<1>5. Pos(q)' > i \/ (Pos(q)' = i /\ moving'[q])
  BY <1>4 DEF HasStarted
<1>6. Pos(q) > i \/ (Pos(q) = i /\ moving[q])
  <2>1. CASE q = r
    <3>1. Pos(r) + 1 > i
      BY <1>1, <1>5, <2>1
    <3>2. Pos(r) > i \/ Pos(r) = i
      BY <1>2, <1>3, <3>1
    <3> QED
      BY <2>1, <3>2
  <2>2. CASE q # r
    BY <1>1, <1>5, <2>2
  <2> QED
    BY <2>1, <2>2
<1> QED
  BY <1>3, <1>6 DEF Discipline!Left

\* both arrivals are the abstract one
LEMMA EnteredMaps ==
    ASSUME TypeInv, EarlierOver', drained', drained' = drained, constraints.commit # None,
           NEW r \in Robots, moving[r], Entered(r),
           UNCHANGED <<commitSeq, constraints, adopted, heads>>
    PROVE  Discipline!Enter(r)
<1>1. /\ Pos(r)' = Pos(r) + 1
      /\ \A q \in Robots \ {r} : Pos(q)' = Pos(q)
  BY EnteredStep
<1>2. [q \in Robots |-> Pos(q)]' = [[q \in Robots |-> Pos(q)] EXCEPT ![r] = Pos(r) + 1]
  BY <1>1
<1>3. constraints.plan # 0
  BY PlansAssumption DEF TypeInv, PlanInForce
<1>4. Discipline!HasItsTurn(r)
  BY EnteredHasTurn
<1> QED
  BY <1>2, <1>3, <1>4 DEF Entered, Discipline!Enter

LEMMA NextMaps ==
    TypeInv /\ PlansAdvance /\ EarlierOver' /\ [Next]_vars
    => [Discipline!Next]_(Discipline!vars)
<1> SUFFICES ASSUME TypeInv, PlansAdvance, EarlierOver', [Next]_vars
             PROVE  Discipline!Next \/ UNCHANGED Discipline!vars
  OBVIOUS
<1>1. CASE ~drained'
  BY <1>1 DEF Discipline!Next, Discipline!Disturbed
<1>2. CASE drained'
  <2>1. ASSUME NEW i \in DOMAIN Plans, OnPlan(i)
        PROVE  Discipline!Next \/ UNCHANGED Discipline!vars
    BY <1>2, <2>1, OnPlanMaps DEF Discipline!Next
  <2>2. ASSUME NEW r \in Robots, Depart(r) PROVE Discipline!Next
    BY <1>2, <2>2, DepartMaps DEF Discipline!Next
  <2>3. ASSUME NEW r \in Robots, Arrive(r) \/ ArriveAtStart(r) PROVE Discipline!Next
    <3>1. /\ moving[r] /\ Entered(r)
          /\ UNCHANGED <<commitSeq, constraints, adopted, heads>>
      BY <2>3 DEF Arrive, ArriveAtStart, nodeVars
    <3>2. drained' = drained
      BY <1>2, <2>3 DEF Arrive, ArriveAtStart, Emit, historyVars, TypeInv, TypeOK
    <3>3. constraints.commit # None
      BY <3>1 DEF PlansAdvance
    <3>4. Discipline!Enter(r)
      BY <1>2, <3>1, <3>2, <3>3, EnteredMaps
    <3> QED
      BY <3>4 DEF Discipline!Next
  <2>4. ASSUME NEW r \in Robots, Adopt(r) PROVE UNCHANGED Discipline!vars
    <3>1. UNCHANGED <<constraints, moving, at, heads, drained>>
      BY <2>4 DEF Adopt, nodeVars, historyVars
    <3> QED
      BY <2>4, <3>1, AdoptKeepsPos, QuietMaps
  <2>5. CASE UNCHANGED <<constraints, adopted, idx, moving, at, heads, drained>>
    <3>1. \A q \in Robots : Pos(q)' = Pos(q)
      BY <2>5 DEF Pos, Adopted
    <3> QED
      BY <2>5, <3>1, QuietMaps
  <2>6. \/ \E i \in DOMAIN Plans : OnPlan(i)
        \/ \E r \in Robots : Depart(r) \/ Arrive(r) \/ ArriveAtStart(r) \/ Adopt(r)
        \/ UNCHANGED <<constraints, adopted, idx, moving, at, heads, drained>>
    BY DEF Next, vars, nodeVars, robotVars, historyVars, OnTick, OnStopDeclarations,
           Robot, Move, OnEntryEvents, DeliverRelease, LoseEvent
  <2> QED
    BY <2>1, <2>2, <2>3, <2>4, <2>5, <2>6
<1> QED
  BY <1>1, <1>2

(* The fleet moves as if every robot saw every other and waited its turn   *)
(* (ReleaseChecker::release_check behind /segment_release), under every    *)
(* plan that takes over with no report of an earlier one to come, standing *)
(* or in motion, wherever it starts the robots.                            *)
THEOREM Implements ==
    ASSUME PlannerKeepsContract
    PROVE  Spec => VisitOrderKept
<1>1. Init => PlansAdvance
  BY InitPlansAdvance
<1>2. TypeInv /\ PlansAdvance /\ [Next]_vars => PlansAdvance'
  BY NextPlansAdvance
<1>3. SafetyInv => TypeInv /\ EarlierOver
  BY EarlierVisitsOver DEF SafetyInv
<1>4. Init => Discipline!Init
  BY InitMaps
<1>5. TypeInv /\ PlansAdvance /\ EarlierOver' /\ [Next]_vars
      => [Discipline!Next]_(Discipline!vars)
  BY NextMaps
<1> QED
  BY <1>1, <1>2, <1>3, <1>4, <1>5, SafetyInvariance, PTL
     DEF Spec, VisitOrderKept, Discipline!Spec

-----------------------------------------------------------------------------
(* A planner that publishes only what passes its own checks, with every    *)
(* shared location listed.                                                 *)
PlannerChecks == \A i \in DOMAIN Plans : Passes(Plans[i]) /\ ListsVisits(Plans[i])

(* The planner's checks are all that has to be assumed of the plans: no    *)
(* two robots are on one location or head-on on one edge and the fleet     *)
(* keeps the visit order, under every plan of the sequence that takes over *)
(* as these properties ask (drained, anchored).  That a plan does is not   *)
(* the planner's to ensure: mrs_mapf knows neither the reports on their    *)
(* way nor where the robots are, and the runs undrained and elsewhere show *)
(* what follows.                                                           *)
THEOREM CheckedFleet ==
    ASSUME PlannerChecks
    PROVE  Spec => /\ []VertexExclusion
                   /\ []NoHeadOn
                   /\ VisitOrderKept
<1>1. \A i \in DOMAIN Plans : Plans[i] \in PlanRecords
  BY PlansAssumption
<1>2. PlannerKeepsContract
  BY <1>1, ChecksMeetContract DEF PlannerChecks, PlannerKeepsContract
<1>3. CrossingsAreOrdered
  BY <1>1, ChecksOrderCrossings DEF PlannerChecks, CrossingsAreOrdered
<1>4. Spec => []VertexExclusion
  BY <1>2, Exclusion
<1>5. Spec => []NoHeadOn
  BY <1>2, <1>3, HeadOnFree
<1>6. Spec => VisitOrderKept
  BY <1>2, Implements
<1> QED
  BY <1>4, <1>5, <1>6
=============================================================================

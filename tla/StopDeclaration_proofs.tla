----------------------- MODULE StopDeclaration_proofs -----------------------
(***************************************************************************)
(* For all thresholds, scenarios, maps and fleets: the declarations of a   *)
(* robot are well formed (TypeCorrect, Pairing), rest on a recent          *)
(* observation (Freshness) and are not taken back before the hold is over  *)
(* (Hold).  The argument is about one robot's control tick (TickFacts);    *)
(* nothing else changes what the invariant speaks of.                      *)
(***************************************************************************)
EXTENDS StopDeclaration, TLAPS

-----------------------------------------------------------------------------
(* Sequences and parity. *)

LEMMA OneMore ==
    ASSUME NEW S, NEW s \in Seq(S), NEW x \in S
    PROVE  /\ s \o <<x>> \in Seq(S)
           /\ Len(s \o <<x>>) = Len(s) + 1
           /\ (s \o <<x>>)[Len(s) + 1] = x
           /\ \A k \in 1 .. Len(s) : (s \o <<x>>)[k] = s[k]
<1>1. <<x>> \in Seq(S) /\ Len(<<x>>) = 1 /\ <<x>>[1] = x
  OBVIOUS
<1>2. s \o <<x>> \in Seq(S) /\ Len(s \o <<x>>) = Len(s) + 1
  BY <1>1
<1>3. (s \o <<x>>)[Len(s) + 1] = x
  BY <1>1
<1>4. \A k \in 1 .. Len(s) : (s \o <<x>>)[k] = s[k]
  BY <1>1
<1> QED BY <1>2, <1>3, <1>4

LEMMA Parity ==
    ASSUME NEW n \in Nat
    PROVE  n % 2 # 1 <=> (n + 1) % 2 = 1
OBVIOUS

-----------------------------------------------------------------------------
(* One tick of the service. *)

LEMMA CountFacts ==
    ASSUME NEW t \in Nat, NEW n \in 0 .. t
    PROVE  Count(n, t) \in 0 .. t /\ Count(n, t) >= n
BY DEF Count

\* DeclarationLedger::update: a confirmation starts a hold, on a blocked
\* reading; a closure ends a full one
LEMMA UpdatedFacts ==
    ASSUME NEW s \in Services, NEW raw \in BOOLEAN
    PROVE  LET u == Updated(s, raw)
           IN  /\ u \in Services
               /\ u.open = s.open /\ u.evidence = s.evidence
               /\ ~s.confirmed /\ u.confirmed => raw /\ u.sinceOpen = 0
               /\ s.confirmed => u.sinceOpen = Count(s.sinceOpen, NHold)
               /\ s.confirmed /\ ~u.confirmed => u.sinceOpen >= NHold
<1>0. /\ NOpen \in Nat /\ NClose \in Nat /\ NHold \in Nat
      /\ s.openRun \in 0 .. NOpen /\ s.closeRun \in 0 .. NClose
      /\ s.sinceOpen \in 0 .. NHold /\ s.confirmed \in BOOLEAN
  BY TickAssumption DEF Services
<1>1. /\ Count(s.openRun, NOpen) \in 0 .. NOpen
      /\ Count(s.closeRun, NClose) \in 0 .. NClose
      /\ Count(s.sinceOpen, NHold) \in 0 .. NHold
  BY <1>0, CountFacts
<1> DEFINE opening == IF raw THEN Count(s.openRun, NOpen) ELSE 0
           closing == IF raw THEN 0 ELSE Count(s.closeRun, NClose)
           opens   == ~s.confirmed /\ raw /\ opening >= NOpen
           since   == IF s.confirmed THEN Count(s.sinceOpen, NHold)
                      ELSE IF opens THEN 0 ELSE s.sinceOpen
           closes  == s.confirmed /\ ~raw /\ since >= NHold /\ closing >= NClose
           u == [s EXCEPT !.openRun   = IF closes THEN 0 ELSE opening,
                          !.closeRun  = closing,
                          !.sinceOpen = since,
                          !.confirmed = (s.confirmed \/ opens) /\ ~closes]
<1>2. Updated(s, raw) = u
  BY DEF Updated
<1>3. opening \in 0 .. NOpen /\ closing \in 0 .. NClose /\ since \in 0 .. NHold
  BY <1>0, <1>1
<1>4. (IF closes THEN 0 ELSE opening) \in 0 .. NOpen
      /\ ((s.confirmed \/ opens) /\ ~closes) \in BOOLEAN
  BY <1>0, <1>3
<1>5. /\ u.sinceOpen = since /\ u.confirmed = ((s.confirmed \/ opens) /\ ~closes)
      /\ u.open = s.open /\ u.evidence = s.evidence
  BY DEF Services
<1>6. u \in Services
  <2> HIDE DEF opening, closing, opens, since, closes
  <2> QED BY <1>3, <1>4 DEF Services
<1>7. ~s.confirmed /\ u.confirmed => raw /\ u.sinceOpen = 0
  BY <1>5
<1>8. s.confirmed => u.sinceOpen = Count(s.sinceOpen, NHold)
  BY <1>5
<1>9. s.confirmed /\ ~u.confirmed => u.sinceOpen >= NHold
  BY <1>5
<1> QED BY <1>2, <1>5, <1>6, <1>7, <1>8, <1>9

\* ControlTickService::run_tick: a confirmed blockage always stops, and only
\* a confirmed blockage is called exogenous
LEMMA TickFacts ==
    ASSUME NEW s \in Services, NEW raw \in BOOLEAN, NEW outcome \in Outcomes
    PROVE  LET out == RunTick(s, raw, outcome)
               u   == out.service
           IN  /\ u \in Services /\ u.open = s.open
               /\ out.stop \in BOOLEAN /\ out.reason \in Reasons
               /\ u.confirmed => out.stop
               /\ out.reason = "exogenous_block" => u.confirmed
               /\ ~s.confirmed /\ u.confirmed => raw /\ u.sinceOpen = 0
               /\ s.confirmed => \/ u.confirmed /\ u.sinceOpen = s.sinceOpen
                                 \/ u.sinceOpen = Count(s.sinceOpen, NHold)
               /\ s.confirmed /\ ~u.confirmed => u.sinceOpen >= NHold
<1> DEFINE tick == [s EXCEPT !.tick = (s.tick + 1) % NTraj,
                             !.evidence = s.evidence
                                \/ outcome \in {"infeasible", "infeasible_throws"}]
           upd  == Updated(tick, raw)
           done == [upd EXCEPT !.evidence = FALSE]
<1>1. tick \in Services /\ tick.open = s.open /\ tick.confirmed = s.confirmed
      /\ tick.sinceOpen = s.sinceOpen /\ tick.evidence \in BOOLEAN
  <2>1. (s.tick + 1) % NTraj \in 0 .. NTraj - 1
    BY TickAssumption DEF Services
  <2>2. (s.evidence \/ outcome \in {"infeasible", "infeasible_throws"}) \in BOOLEAN
    OBVIOUS
  <2> QED BY <2>1, <2>2 DEF Services
<1> HIDE DEF tick
<1>2. /\ upd \in Services /\ upd.open = s.open
      /\ ~s.confirmed /\ upd.confirmed => raw /\ upd.sinceOpen = 0
      /\ s.confirmed => upd.sinceOpen = Count(s.sinceOpen, NHold)
      /\ s.confirmed /\ ~upd.confirmed => upd.sinceOpen >= NHold
  BY <1>1, UpdatedFacts
<1> HIDE DEF upd
<1>3. /\ done \in Services /\ done.open = upd.open
      /\ done.confirmed = upd.confirmed /\ done.sinceOpen = upd.sinceOpen
  BY <1>2 DEF Services
<1> HIDE DEF done
<1>4. CASE outcome \in {"throws", "infeasible_throws"}
  <2>1. RunTick(s, raw, outcome)
           = [service |-> tick, stop |-> TRUE, reason |-> "unresolvable_locally"]
    BY <1>4 DEF RunTick, tick
  <2> QED BY <2>1, <1>1 DEF Reasons, Services
<1>5. CASE outcome \notin {"throws", "infeasible_throws"}
  <2>1. RunTick(s, raw, outcome)
           = [service |-> done, stop |-> done.confirmed \/ tick.evidence,
              reason  |-> Classify(done.confirmed, tick.evidence)]
    BY <1>5 DEF RunTick, tick, upd, done
  <2>2. done.confirmed \in BOOLEAN
    BY <1>3 DEF Services
  <2>3. /\ Classify(done.confirmed, tick.evidence) \in Reasons
        /\ Classify(done.confirmed, tick.evidence) = "exogenous_block" => done.confirmed
    BY <2>2, <1>1 DEF Classify, Reasons
  <2> QED BY <2>1, <2>2, <2>3, <1>1, <1>2, <1>3
<1> QED BY <1>4, <1>5

-----------------------------------------------------------------------------
(* One robot's control tick. *)

\* what OnControlTick does to robot r
Ticks(r, outcome) ==
    LET out == RunTick(service[r], Raw(r, age'[r]), outcome)
    IN  IF Started(r)
        THEN /\ service'[r] = [out.service EXCEPT !.open = Transition(r, out)]
             /\ sent'[r] = sent[r] \o NewMessages(r, out)
             /\ held'[r] = IF Opening(service[r].open, out) THEN 0
                           ELSE Count(held[r], NHold)
        ELSE /\ service'[r] = service[r] /\ sent'[r] = sent[r]
             /\ held'[r] = Count(held[r], NHold)

LEMMA ControlTickPerRobot ==
    ASSUME OnControlTick
    PROVE  /\ age' \in [Robots -> {age[r] : r \in Robots} \cup {age[r] + 1 : r \in Robots}]
           /\ service' = [r \in Robots |-> service'[r]]
           /\ sent' = [r \in Robots |-> sent'[r]]
           /\ held' = [r \in Robots |-> held'[r]]
           /\ \A r \in Robots : \E outcome \in Outcomes : Ticks(r, outcome)
           /\ disturbed' \in {disturbed, disturbed + 1}
           /\ disturbed' # disturbed => disturbed < Disturbances
           /\ UNCHANGED <<worldVars, scan, inputVars, obs>>
<1>1. PICK outcome \in [Robots -> Outcomes] :
         /\ Unplanned(outcome) => disturbed < Disturbances
         /\ registered => \A r \in Robots : age[r] < ScanGap
         /\ age' = [r \in Robots |-> IF registered THEN age[r] + 1 ELSE age[r]]
         /\ LET out == [r \in Robots |-> RunTick(service[r], Raw(r, age'[r]), outcome[r])]
            IN  /\ service' = [r \in Robots |->
                                 IF Started(r)
                                 THEN [out[r].service EXCEPT !.open = Transition(r, out[r])]
                                 ELSE service[r]]
                /\ sent' = [r \in Robots |-> IF Started(r)
                                             THEN sent[r] \o NewMessages(r, out[r])
                                             ELSE sent[r]]
                /\ held' = [r \in Robots |->
                              IF Started(r) /\ Opening(service[r].open, out[r]) THEN 0
                              ELSE Count(held[r], NHold)]
         /\ disturbed' = IF Unplanned(outcome) THEN disturbed + 1 ELSE disturbed
         /\ UNCHANGED <<worldVars, scan, inputVars, obs>>
  BY DEF OnControlTick
<1>2. \A r \in Robots : Ticks(r, outcome[r])
  <2> TAKE r \in Robots
  <2> QED BY <1>1 DEF Ticks
<1>3. \A r \in Robots : outcome[r] \in Outcomes
  OBVIOUS
<1>4. age' \in [Robots -> {age[r] : r \in Robots} \cup {age[r] + 1 : r \in Robots}]
  BY <1>1
<1>5. /\ service' = [r \in Robots |-> service'[r]]
      /\ sent' = [r \in Robots |-> sent'[r]]
      /\ held' = [r \in Robots |-> held'[r]]
  BY <1>1
<1>6. disturbed' \in {disturbed, disturbed + 1}
      /\ (disturbed' # disturbed => disturbed < Disturbances)
      /\ UNCHANGED <<worldVars, scan, inputVars, obs>>
  BY <1>1
<1> QED BY <1>2, <1>3, <1>4, <1>5, <1>6

Message(r, d, flag) ==
    [seq |-> Len(sent[r]), edge |-> d.edge, declared |-> flag, reason |-> d.reason]

Keeps(r) ==
    /\ service'[r].open = service[r].open /\ sent'[r] = sent[r]
    /\ held'[r] = Count(held[r], NHold)

Declares(r) ==
    /\ service[r].open = Closed /\ service'[r].open \in Onsets
    /\ sent'[r] = sent[r] \o <<Message(r, service'[r].open, TRUE)>>
    /\ held'[r] = 0

Releases(r) ==
    /\ service[r].open \in Onsets /\ service'[r].open = Closed
    /\ sent'[r] = sent[r] \o <<Message(r, service[r].open, FALSE)>>
    /\ held'[r] = Count(held[r], NHold)

\* the robot that starts has a segment, so what is declared names an edge
LEMMA TickCases ==
    ASSUME TypeOK, NEW r \in Robots, NEW outcome \in Outcomes, Ticks(r, outcome)
    PROVE  LET out == RunTick(service[r], Raw(r, age'[r]), outcome)
           IN  /\ service'[r] \in Services
               /\ \/ ~Started(r) /\ service'[r] = service[r] /\ Keeps(r)
                  \/ /\ Started(r)
                     /\ service'[r] = [out.service EXCEPT !.open = service'[r].open]
                     /\ out.service \in Services
                     /\ \/ out.stop /\ out.reason = service'[r].open.reason /\ Declares(r)
                        \/ ~out.stop /\ Releases(r)
                        \/ (out.stop <=> service[r].open # Closed) /\ Keeps(r)
<1> DEFINE out == RunTick(service[r], Raw(r, age'[r]), outcome)
<1>1. /\ service[r] \in Services /\ sent[r] \in Seq(Messages)
      /\ segment[r] \in Edges \cup {NoEdge}
  BY DEF TypeOK
<1>2. Raw(r, age'[r]) \in BOOLEAN
  BY DEF Raw
<1>3. /\ out.service \in Services /\ out.service.open = service[r].open
      /\ out.stop \in BOOLEAN /\ out.reason \in Reasons
  BY <1>1, <1>2, TickFacts
<1>4. CASE ~Started(r)
  BY <1>4, <1>1 DEF Ticks, Keeps
<1>5. CASE Started(r)
  <2> HIDE DEF out
  <2>1. segment[r] \in Edges /\ service[r].open \in Onsets \cup {Closed}
    BY <1>5, <1>1 DEF Started, Services
  <2>2. service'[r] = [out.service EXCEPT !.open = Transition(r, out)]
        /\ sent'[r] = sent[r] \o NewMessages(r, out)
        /\ held'[r] = IF Opening(service[r].open, out) THEN 0
                      ELSE Count(held[r], NHold)
    BY <1>5 DEF Ticks, out
  <2>3. CASE Opening(service[r].open, out)
    <3>1. Transition(r, out) = [edge |-> segment[r], reason |-> out.reason]
      BY <2>3 DEF Transition
    <3>2. Transition(r, out) \in Onsets
      BY <3>1, <2>1, <1>3 DEF Onsets
    <3>3. service'[r].open = Transition(r, out) /\ service'[r] \in Services
          /\ service'[r] = [out.service EXCEPT !.open = service'[r].open]
      BY <2>2, <3>2, <1>3 DEF Services
    <3>4. NewMessages(r, out) = <<Message(r, Transition(r, out), TRUE)>>
      BY <2>3 DEF NewMessages, Message
    <3>5. Declares(r)
      BY <2>2, <2>3, <3>2, <3>3, <3>4, <1>1 DEF Declares, Opening
    <3>6. service'[r].open.reason = out.reason
      BY <3>1, <3>3
    <3> QED BY <3>3, <3>5, <3>6, <2>3, <1>3, <1>5 DEF Opening, out
  <2>4. CASE ~Opening(service[r].open, out) /\ Closing(service[r].open, out)
    <3>1. Transition(r, out) = Closed
      BY <2>4 DEF Transition
    <3>2. service'[r].open = Closed /\ service'[r] \in Services
          /\ service'[r] = [out.service EXCEPT !.open = service'[r].open]
      BY <2>2, <3>1, <1>3 DEF Services
    <3>3. NewMessages(r, out) = <<Message(r, service[r].open, FALSE)>>
      BY <2>4 DEF NewMessages, Message
    <3>4. Releases(r)
      BY <2>1, <2>2, <2>4, <3>2, <3>3, <1>1 DEF Releases, Closing
    <3> QED BY <3>2, <3>4, <2>4, <1>3, <1>5 DEF Closing, out
  <2>5. CASE ~Opening(service[r].open, out) /\ ~Closing(service[r].open, out)
    <3>1. Transition(r, out) = service[r].open
      BY <2>5 DEF Transition
    <3>2. service'[r].open = service[r].open /\ service'[r] \in Services
          /\ service'[r] = [out.service EXCEPT !.open = service'[r].open]
      BY <2>1, <2>2, <3>1, <1>3 DEF Services
    <3>3. NewMessages(r, out) = <<>>
      BY <2>5 DEF NewMessages
    <3>4. Keeps(r)
      BY <2>2, <2>5, <3>2, <3>3, <1>1 DEF Keeps
    <3>5. out.stop <=> service[r].open # Closed
      BY <2>5, <1>3 DEF Opening, Closing
    <3> QED BY <3>2, <3>4, <3>5, <1>3, <1>5 DEF out
  <2> QED BY <2>3, <2>4, <2>5
<1> QED BY <1>4, <1>5

\* a tick leaves the service, the messages and the history in their types
LEMMA TickTypes ==
    ASSUME TypeOK, NEW r \in Robots, NEW outcome \in Outcomes, Ticks(r, outcome)
    PROVE  /\ service'[r] \in Services
           /\ sent'[r] \in Seq(Messages)
           /\ held'[r] \in 0 .. NHold
<1>1. service'[r] \in Services /\ (Keeps(r) \/ Declares(r) \/ Releases(r))
  BY TickCases
<1>2. sent[r] \in Seq(Messages) /\ NHold \in Nat /\ held[r] \in 0 .. NHold
  BY TickAssumption DEF TypeOK
<1>3. held'[r] \in 0 .. NHold
  <2>1. Count(held[r], NHold) \in 0 .. NHold
    BY <1>2, CountFacts
  <2>2. held'[r] \in {0, Count(held[r], NHold)}
    BY <1>1 DEF Keeps, Declares, Releases
  <2> QED BY <2>1, <2>2, <1>2
<1>4. \A d \in Onsets, flag \in BOOLEAN : Message(r, d, flag) \in Messages
  BY <1>2 DEF Message, Messages, Onsets
<1>5. sent'[r] \in Seq(Messages)
  <2>1. CASE Keeps(r)
    BY <2>1, <1>2 DEF Keeps
  <2>2. CASE Declares(r)
    <3>1. Message(r, service'[r].open, TRUE) \in Messages
      BY <2>2, <1>4 DEF Declares
    <3>2. sent[r] \o <<Message(r, service'[r].open, TRUE)>> \in Seq(Messages)
      BY <3>1, <1>2, OneMore
    <3> QED BY <2>2, <3>2, <1>2 DEF Declares
  <2>3. CASE Releases(r)
    <3>1. Message(r, service[r].open, FALSE) \in Messages
      BY <2>3, <1>4 DEF Releases
    <3>2. sent[r] \o <<Message(r, service[r].open, FALSE)>> \in Seq(Messages)
      BY <3>1, <1>2, OneMore
    <3> QED BY <2>3, <3>2, <1>2 DEF Releases
  <2> QED BY <2>1, <2>2, <2>3, <1>1
<1> QED BY <1>1, <1>3, <1>5

LEMMA TypeInit == Init => TypeOK
<1>1. Len(Events) \in Nat /\ Len(Commits) \in Nat
  BY EventsAssumption, CommitsAssumption
<1>2. ASSUME Init PROVE service \in [Robots -> Services]
  BY <1>2, TickAssumption DEF Init, Services
<1>3. ASSUME Init PROVE sent \in [Robots -> Seq(Messages)]
  BY <1>3 DEF Init
<1> SUFFICES ASSUME Init PROVE TypeOK
  OBVIOUS
<1>4. /\ left \in [Robots -> 0 .. Length] /\ age \in [Robots -> 0 .. ScanGap]
      /\ held \in [Robots -> 0 .. NHold] /\ disturbed \in 0 .. Disturbances
      /\ nextEvent \in 1 .. Len(Events) + 1 /\ latest \in 0 .. Len(Commits)
  BY <1>1, TickAssumption, LengthAssumption DEF Init
<1> QED BY <1>2, <1>3, <1>4 DEF Init, TypeOK

LEMMA TypeNext == TypeOK /\ [Next]_vars => TypeOK'
<1> SUFFICES ASSUME TypeOK, [Next]_vars PROVE TypeOK'
  OBVIOUS
<1>1. \A k \in 1 .. Len(Commits), q \in Robots : Commits[k][q] \in Edges \cup {NoEdge}
  BY CommitsAssumption
<1>2. ASSUME NEW known, NEW commit \in 0 .. Len(Commits), NEW isRegistered
      PROVE  Resolved(known, commit, isRegistered) \in [Robots -> Edges \cup {NoEdge}]
  BY <1>1, CommitsAssumption DEF Resolved, TypeOK
<1>3. CASE ObservationTick
  <2>1. PICK last \in nextEvent - 1 .. Len(Events) :
           /\ nextEvent' = last + 1
           /\ blocked' = Applied(blocked, nextEvent .. last)
           /\ scan' = [r \in Robots |-> Collapsed(r, blocked')]
           /\ UNCHANGED <<left, inputVars, obs, age, tickVars>>
    BY <1>3 DEF ObservationTick
  <2>2. Len(Events) \in Nat /\ nextEvent' \in 1 .. Len(Events) + 1
    BY <2>1, EventsAssumption DEF TypeOK
  <2>3. blocked' \subseteq Edges
    BY <2>1 DEF Applied
  <2>4. scan' \in [Robots -> {"none", "clear", "collapsed"}]
    BY <2>1 DEF Collapsed
  <2> QED BY <2>1, <2>2, <2>3, <2>4 DEF TypeOK, inputVars, tickVars
<1>4. CASE OnRobotSpecs
  BY <1>4 DEF OnRobotSpecs, TypeOK, worldVars, tickVars
<1>5. CASE OnRoadmap
  BY <1>5, <1>2 DEF OnRoadmap, TypeOK, worldVars, tickVars
<1>6. CASE OnExecutionConstraints
  <2>1. PICK k \in latest + 1 .. Len(Commits) :
           /\ latest' = k
           /\ segment' = Resolved(nodesKnown, k, registered)
           /\ UNCHANGED <<worldVars, scan, registered, nodesKnown, odom, obs, age, tickVars>>
    BY <1>6 DEF OnExecutionConstraints
  <2>2. k \in 0 .. Len(Commits)
    BY CommitsAssumption DEF TypeOK
  <2> QED BY <2>1, <2>2, <1>2 DEF TypeOK, worldVars, tickVars
<1>7. CASE OnControlTick
  <2>1. \A r \in Robots : \E outcome \in Outcomes : Ticks(r, outcome)
    BY <1>7, ControlTickPerRobot
  <2>2. \A r \in Robots : /\ service'[r] \in Services
                          /\ sent'[r] \in Seq(Messages)
                          /\ held'[r] \in 0 .. NHold
    BY <2>1, TickTypes
  <2>3. /\ service' \in [Robots -> Services] /\ sent' \in [Robots -> Seq(Messages)]
        /\ held' \in [Robots -> 0 .. NHold]
    BY <2>2, <1>7, ControlTickPerRobot
  <2>4. age' \in [Robots -> 0 .. ScanGap]
    BY <1>7, TickAssumption DEF OnControlTick, TypeOK
  <2>5. disturbed' \in 0 .. Disturbances
    BY <1>7, ControlTickPerRobot, TickAssumption DEF TypeOK
  <2>6. UNCHANGED <<worldVars, scan, inputVars, obs>>
    BY <1>7, ControlTickPerRobot
  <2> QED BY <2>3, <2>4, <2>5, <2>6 DEF TypeOK, worldVars, inputVars
<1>8. ASSUME NEW r \in Robots, Move(r) PROVE TypeOK'
  BY <1>8, LengthAssumption DEF Move, TypeOK, inputVars, tickVars
<1>9. ASSUME NEW r \in Robots, LoseScan(r) PROVE TypeOK'
  BY <1>9 DEF LoseScan, TypeOK, worldVars, inputVars, tickVars
<1>10. ASSUME NEW r \in Robots, OnOdom(r) PROVE TypeOK'
  BY <1>10 DEF OnOdom, TypeOK, worldVars, tickVars
<1>11. ASSUME NEW r \in Robots, OnScan(r) PROVE TypeOK'
  BY <1>11, TickAssumption DEF OnScan, TypeOK, worldVars, inputVars, tickVars
<1>12. CASE UNCHANGED vars
  BY <1>12 DEF vars, TypeOK, worldVars, inputVars, tickVars
<1> QED BY <1>3, <1>4, <1>5, <1>6, <1>7, <1>8, <1>9, <1>10, <1>11, <1>12 DEF Next

\* the latched inputs, the service and the messages of every robot keep the
\* types the callbacks rely on
THEOREM TypeCorrect == Spec => []TypeOK
<1>1. Init => TypeOK
  BY TypeInit
<1>2. TypeOK /\ [Next]_vars => TypeOK'
  BY TypeNext
<1> QED BY <1>1, <1>2, PTL DEF Spec

-----------------------------------------------------------------------------
(* Pairing of onsets and releases. *)

\* the last message is what an open declaration was opened with
OpenIsLast ==
    \A r \in Robots : service[r].open # Closed =>
       /\ sent[r][Len(sent[r])].edge = service[r].open.edge
       /\ sent[r][Len(sent[r])].reason = service[r].open.reason

PairInv == DeclarationsPaired /\ OpenIsLast

\* the same for one robot: what it sent, and its open declaration
Paired(q, open) ==
    /\ \A k \in 1 .. Len(q) :
          /\ q[k].seq = k - 1
          /\ q[k].declared <=> k % 2 = 1
          /\ k % 2 = 0 => /\ q[k].edge = q[k - 1].edge
                          /\ q[k].reason = q[k - 1].reason
    /\ open # Closed <=> Len(q) % 2 = 1
    /\ open # Closed => q[Len(q)].edge = open.edge /\ q[Len(q)].reason = open.reason

LEMMA PairedPerRobot == PairInv <=> \A r \in Robots : Paired(sent[r], service[r].open)
BY DEF PairInv, DeclarationsPaired, OpenIsLast, Paired

\* an onset is never the closed state
LEMMA OnsetNotClosed == ASSUME NEW d \in Onsets PROVE d # Closed
BY LaneAssumption DEF Onsets, Closed

\* one more message, an onset or the release of the open pair, keeps the
\* messages of a robot paired
LEMMA PairedExtends ==
    ASSUME NEW q \in Seq(Messages), NEW m \in Messages, NEW open, NEW after,
           Paired(q, open),
           m.seq = Len(q), m.declared <=> open = Closed,
           after # Closed <=> open = Closed,
           open # Closed => m.edge = open.edge /\ m.reason = open.reason,
           after # Closed => m.edge = after.edge /\ m.reason = after.reason
    PROVE  Paired(q \o <<m>>, after)
<1> DEFINE n == Len(q)
           p == q \o <<m>>
<1>1. n \in Nat
  OBVIOUS
<1>2. Len(p) = n + 1 /\ p[n + 1] = m /\ \A k \in 1 .. n : p[k] = q[k]
  BY OneMore
<1>3. /\ open # Closed <=> n % 2 = 1
      /\ open # Closed => q[n].edge = open.edge /\ q[n].reason = open.reason
      /\ \A k \in 1 .. n : /\ q[k].seq = k - 1
                           /\ q[k].declared <=> k % 2 = 1
                           /\ k % 2 = 0 => /\ q[k].edge = q[k - 1].edge
                                           /\ q[k].reason = q[k - 1].reason
  BY DEF Paired
<1> HIDE DEF p, n
<1>4. (n + 1) % 2 = 1 <=> open = Closed
  BY <1>1, <1>3, Parity
<1>5. ASSUME NEW k \in 1 .. n + 1
      PROVE  /\ p[k].seq = k - 1
             /\ p[k].declared <=> k % 2 = 1
             /\ k % 2 = 0 => /\ p[k].edge = p[k - 1].edge
                             /\ p[k].reason = p[k - 1].reason
  <2>1. CASE k = n + 1
    <3>1. m.seq = k - 1 /\ (m.declared <=> k % 2 = 1)
      BY <2>1, <1>1, <1>4 DEF n
    <3>2. ASSUME k % 2 = 0
          PROVE  m.edge = p[k - 1].edge /\ m.reason = p[k - 1].reason
      <4>1. open # Closed /\ k - 1 = n
        BY <3>2, <2>1, <1>1, <1>4
      <4>2. n \in 1 .. n
        BY <4>1, <1>1, <1>3
      <4> QED BY <4>1, <4>2, <1>2, <1>3
    <3> QED BY <3>1, <3>2, <2>1, <1>2
  <2>2. CASE k # n + 1
    <3>1. k \in 1 .. n /\ (k % 2 = 0 => k - 1 \in 1 .. n)
      BY <2>2, <1>1
    <3>2. p[k] = q[k] /\ (k % 2 = 0 => p[k - 1] = q[k - 1])
      BY <3>1, <1>2
    <3> QED BY <3>1, <3>2, <1>3
  <2> QED BY <2>1, <2>2
<1>6. after # Closed <=> Len(p) % 2 = 1
  BY <1>2, <1>4
<1>7. after # Closed => p[Len(p)].edge = after.edge /\ p[Len(p)].reason = after.reason
  BY <1>2
<1> QED BY <1>2, <1>5, <1>6, <1>7 DEF Paired, p

LEMMA TickPaired ==
    ASSUME TypeOK, NEW r \in Robots, NEW outcome \in Outcomes, Ticks(r, outcome),
           Paired(sent[r], service[r].open)
    PROVE  Paired(sent'[r], service'[r].open)
<1>1. sent[r] \in Seq(Messages) /\ Len(sent[r]) \in Nat
  BY DEF TypeOK
<1>2. Keeps(r) \/ Declares(r) \/ Releases(r)
  BY TickCases
<1>3. \A d \in Onsets, flag \in BOOLEAN : Message(r, d, flag) \in Messages
  BY <1>1 DEF Message, Messages, Onsets
<1>4. CASE Keeps(r)
  BY <1>4 DEF Keeps
<1>5. CASE Declares(r)
  <2> DEFINE m == Message(r, service'[r].open, TRUE)
  <2>1. /\ m.seq = Len(sent[r]) /\ m.declared = TRUE /\ m \in Messages
        /\ m.edge = service'[r].open.edge /\ m.reason = service'[r].open.reason
    BY <1>3, <1>5 DEF Message, Declares
  <2>2. /\ service[r].open = Closed /\ service'[r].open # Closed
        /\ sent'[r] = sent[r] \o <<m>>
    BY <1>5, OnsetNotClosed DEF Declares
  <2> HIDE DEF m
  <2> QED BY <2>1, <2>2, <1>1, PairedExtends
<1>6. CASE Releases(r)
  <2> DEFINE m == Message(r, service[r].open, FALSE)
  <2>1. /\ m.seq = Len(sent[r]) /\ m.declared = FALSE /\ m \in Messages
        /\ m.edge = service[r].open.edge /\ m.reason = service[r].open.reason
    BY <1>3, <1>6 DEF Message, Releases
  <2>2. /\ service[r].open # Closed /\ service'[r].open = Closed
        /\ sent'[r] = sent[r] \o <<m>>
    BY <1>6, OnsetNotClosed DEF Releases
  <2> HIDE DEF m
  <2> QED BY <2>1, <2>2, <1>1, PairedExtends
<1> QED BY <1>2, <1>4, <1>5, <1>6

\* only the control tick touches the service, the messages and the history
LEMMA OnlyTicks ==
    [Next]_vars => OnControlTick \/ UNCHANGED <<service, sent, held>>
BY DEF Next, vars, ObservationTick, OnRobotSpecs, OnRoadmap, OnExecutionConstraints,
       Move, LoseScan, OnOdom, OnScan, tickVars

LEMMA PairInit == Init => PairInv
<1> SUFFICES ASSUME Init, NEW r \in Robots PROVE Paired(sent[r], service[r].open)
  BY PairedPerRobot
<1>1. sent[r] = <<>> /\ service[r].open = Closed
  BY DEF Init
<1> QED BY <1>1 DEF Paired

LEMMA PairNext == TypeOK /\ PairInv /\ [Next]_vars => PairInv'
<1> SUFFICES ASSUME TypeOK, PairInv, [Next]_vars, NEW r \in Robots
             PROVE  Paired(sent'[r], service'[r].open)
  BY DEF Paired, PairInv, DeclarationsPaired, OpenIsLast
<1>1. Paired(sent[r], service[r].open)
  BY PairedPerRobot
<1>2. CASE OnControlTick
  BY <1>1, <1>2, ControlTickPerRobot, TickPaired
<1>3. CASE UNCHANGED <<service, sent, held>>
  BY <1>1, <1>3
<1> QED BY <1>2, <1>3, OnlyTicks

\* a robot numbers its declarations in order and alternates onset and
\* release of the same pair (HandleStopDeclarationTransition)
THEOREM Pairing == Spec => []DeclarationsPaired
<1>1. Init => PairInv
  BY PairInit
<1>2. TypeOK /\ PairInv /\ [Next]_vars => PairInv'
  BY PairNext
<1>3. PairInv => DeclarationsPaired
  BY DEF PairInv
<1> QED BY <1>1, <1>2, <1>3, TypeCorrect, PTL DEF Spec

-----------------------------------------------------------------------------
(* The hold of a declared blockage, and what it rests on. *)

\* a service whose open declaration is held long enough for its ledger
Covered(s, h) ==
    /\ s.confirmed => s.open # Closed
    /\ s.open.reason = "exogenous_block" =>
          /\ s.confirmed => h >= s.sinceOpen
          /\ ~s.confirmed => h >= NHold

HoldInv == \A r \in Robots : Covered(service[r], held[r])

LEMMA CountMonotone ==
    ASSUME NEW t \in Nat, NEW m \in 0 .. t, NEW n \in 0 .. t, m >= n
    PROVE  Count(m, t) >= Count(n, t)
BY DEF Count

LEMMA TickCovered ==
    ASSUME TypeOK, NEW r \in Robots, NEW outcome \in Outcomes, Ticks(r, outcome),
           Covered(service[r], held[r])
    PROVE  /\ Covered(service'[r], held'[r])
           /\ Releases(r) /\ service[r].open.reason = "exogenous_block"
                 => held'[r] >= NHold
           /\ Declares(r) /\ service'[r].open.reason = "exogenous_block"
                 => Raw(r, age'[r])
<1> DEFINE s == service[r]
           t == service'[r]
           h == held[r]
           out == RunTick(s, Raw(r, age'[r]), outcome)
           u == out.service
<1>1. /\ s \in Services /\ h \in 0 .. NHold /\ NHold \in Nat /\ s.sinceOpen \in 0 .. NHold
      /\ s.confirmed \in BOOLEAN
  BY TickAssumption DEF TypeOK, Services
<1>2. Raw(r, age'[r]) \in BOOLEAN
  BY DEF Raw
<1>3. /\ u \in Services
      /\ out.stop \in BOOLEAN
      /\ u.confirmed => out.stop
      /\ out.reason = "exogenous_block" => u.confirmed
      /\ ~s.confirmed /\ u.confirmed => Raw(r, age'[r]) /\ u.sinceOpen = 0
      /\ s.confirmed => \/ u.confirmed /\ u.sinceOpen = s.sinceOpen
                        \/ u.sinceOpen = Count(s.sinceOpen, NHold)
      /\ s.confirmed /\ ~u.confirmed => u.sinceOpen >= NHold
  BY <1>1, <1>2, TickFacts
<1>4. /\ t \in Services
      /\ \/ ~Started(r) /\ t = s /\ Keeps(r)
         \/ /\ t = [u EXCEPT !.open = t.open]
            /\ \/ out.stop /\ out.reason = t.open.reason /\ Declares(r)
               \/ ~out.stop /\ Releases(r)
               \/ (out.stop <=> s.open # Closed) /\ Keeps(r)
  BY TickCases
<1>5. /\ s.confirmed => s.open # Closed
      /\ s.open.reason = "exogenous_block" =>
            (s.confirmed => h >= s.sinceOpen) /\ (~s.confirmed => h >= NHold)
  BY DEF Covered
<1>6. /\ Count(h, NHold) \in 0 .. NHold /\ Count(h, NHold) >= h
      /\ Count(s.sinceOpen, NHold) \in 0 .. NHold
      /\ h >= s.sinceOpen => Count(h, NHold) >= Count(s.sinceOpen, NHold)
  BY <1>1, CountFacts, CountMonotone
<1>7. Declares(r) => ~Keeps(r) /\ ~Releases(r)
  BY OnsetNotClosed DEF Declares, Keeps, Releases
<1>8. Keeps(r) => ~Releases(r)
  BY OnsetNotClosed DEF Keeps, Releases
<1> HIDE DEF out
<1>9. ASSUME t = [u EXCEPT !.open = t.open]
      PROVE  t.confirmed = u.confirmed /\ t.sinceOpen = u.sinceOpen
  BY <1>3, <1>9 DEF Services
<1>10. u.sinceOpen \in 0 .. NHold /\ u.confirmed \in BOOLEAN
  BY <1>3 DEF Services
<1>11. ASSUME s.open.reason = "exogenous_block", ~u.confirmed
       PROVE  Count(h, NHold) >= NHold
  BY <1>1, <1>3, <1>5, <1>6, <1>10, <1>11
<1>12. CASE ~Started(r) /\ t = s /\ Keeps(r)
  <2>1. held'[r] = Count(h, NHold)
    BY <1>12 DEF Keeps
  <2>2. Covered(s, held'[r])
    BY <2>1, <1>1, <1>5, <1>6 DEF Covered
  <2> QED BY <2>2, <1>7, <1>8, <1>12
<1>13. CASE /\ t = [u EXCEPT !.open = t.open]
            /\ out.stop /\ out.reason = t.open.reason /\ Declares(r)
  <2>1. s.open = Closed /\ t.open # Closed /\ held'[r] = 0
    BY <1>13, OnsetNotClosed DEF Declares
  <2>2. ~s.confirmed
    BY <2>1, <1>5
  <2>3. t.open.reason = "exogenous_block" => u.confirmed /\ Raw(r, age'[r]) /\ u.sinceOpen = 0
    BY <2>2, <1>3, <1>13
  <2>4. Covered(t, held'[r])
    BY <2>1, <2>3, <1>9, <1>13 DEF Covered
  <2> QED BY <2>3, <2>4, <1>7, <1>13
<1>14. CASE t = [u EXCEPT !.open = t.open] /\ ~out.stop /\ Releases(r)
  <2>1. t.open = Closed /\ held'[r] = Count(h, NHold) /\ ~u.confirmed
    BY <1>14, <1>3 DEF Releases
  <2>2. t.open.reason # "exogenous_block" /\ ~t.confirmed
    BY <2>1, <1>9, <1>14 DEF Closed
  <2>3. s.open.reason = "exogenous_block" => held'[r] >= NHold
    BY <2>1, <1>11
  <2> QED BY <2>2, <2>3, <1>7, <1>14 DEF Covered
<1>15. CASE t = [u EXCEPT !.open = t.open] /\ (out.stop <=> s.open # Closed) /\ Keeps(r)
  <2>1. t.open = s.open /\ held'[r] = Count(h, NHold)
    BY <1>15 DEF Keeps
  <2>2. t.confirmed => t.open # Closed
    BY <2>1, <1>3, <1>9, <1>15
  <2>3. ASSUME t.open.reason = "exogenous_block", t.confirmed PROVE held'[r] >= t.sinceOpen
    <3>1. u.confirmed /\ s.open.reason = "exogenous_block" /\ t.sinceOpen = u.sinceOpen
      BY <2>1, <2>3, <1>9, <1>15
    <3>2. CASE s.confirmed
      BY <3>1, <3>2, <2>1, <1>1, <1>3, <1>5, <1>6
    <3>3. CASE ~s.confirmed
      BY <3>1, <3>3, <2>1, <1>1, <1>3, <1>6
    <3> QED BY <3>2, <3>3, <1>1
  <2>4. ASSUME t.open.reason = "exogenous_block", ~t.confirmed PROVE held'[r] >= NHold
    BY <2>1, <2>4, <1>9, <1>11, <1>15
  <2>5. Covered(t, held'[r])
    BY <2>2, <2>3, <2>4 DEF Covered
  <2> QED BY <2>5, <1>7, <1>8, <1>15
<1> QED BY <1>4, <1>12, <1>13, <1>14, <1>15

LEMMA HoldInit == Init => HoldInv
<1> SUFFICES ASSUME Init, NEW r \in Robots PROVE Covered(service[r], held[r])
  BY DEF HoldInv
<1>1. service[r].open = Closed /\ ~service[r].confirmed
  BY DEF Init
<1> QED BY <1>1 DEF Covered, Closed

LEMMA HoldNext == TypeOK /\ HoldInv /\ [Next]_vars => HoldInv'
<1> SUFFICES ASSUME TypeOK, HoldInv, [Next]_vars, NEW r \in Robots
             PROVE  Covered(service'[r], held'[r])
  BY DEF HoldInv, Covered
<1>1. Covered(service[r], held[r])
  BY DEF HoldInv
<1>2. CASE OnControlTick
  BY <1>1, <1>2, ControlTickPerRobot, TickCovered
<1>3. CASE UNCHANGED <<service, sent, held>>
  BY <1>1, <1>3
<1> QED BY <1>2, <1>3, OnlyTicks

\* a step that opens or closes a declaration is a tick that sends it
LEMMA ChangesAreSent ==
    ASSUME TypeOK, HoldInv, [Next]_vars, NEW r \in Robots, service'[r].open # service[r].open
    PROVE  \/ Declares(r) /\ (service'[r].open.reason = "exogenous_block"
                                => Raw(r, age'[r]))
           \/ Releases(r) /\ (service[r].open.reason = "exogenous_block"
                                => held'[r] >= NHold)
<1>1. OnControlTick
  BY OnlyTicks
<1>2. PICK outcome \in Outcomes : Ticks(r, outcome)
  BY <1>1, ControlTickPerRobot
<1>3. Declares(r) \/ Releases(r)
  BY <1>2, TickCases DEF Keeps
<1>4. Covered(service[r], held[r])
  BY DEF HoldInv
<1> QED BY <1>2, <1>3, <1>4, TickCovered

\* a declared blockage is not released before its hold is over
\* (DeclarationLedger::update)
THEOREM Hold == Spec => HoldRespected
<1> DEFINE Held(r) == /\ service[r].open.reason = "exogenous_block"
                      /\ service'[r].open = Closed
                      => held'[r] >= NHold
<1>1. ASSUME TypeOK, HoldInv, [Next]_vars, NEW r \in Robots PROVE Held(r)
  <2> SUFFICES ASSUME service[r].open.reason = "exogenous_block",
                      service'[r].open = Closed
               PROVE  held'[r] >= NHold
    OBVIOUS
  <2>1. service[r].open # Closed
    BY DEF Closed
  <2> QED BY <2>1, <1>1, ChangesAreSent, OnsetNotClosed DEF Declares
<1>2. TypeOK /\ HoldInv /\ [Next]_vars => [\A r \in Robots : Held(r)]_vars
  BY <1>1
<1>3. TypeOK /\ HoldInv /\ [Next]_vars => HoldInv'
  BY HoldNext
<1>4. Init => HoldInv
  BY HoldInit
<1> QED BY <1>2, <1>3, <1>4, TypeCorrect, PTL DEF Spec, HoldRespected

\* an edge is declared blocked for everybody on a recent observation only
\* (ControlTickService::run_tick, IsQ1RawPredicate)
THEOREM Freshness == Spec => OnsetIsFresh
<1> DEFINE Fresh(r) == /\ service[r].open = Closed
                       /\ service'[r].open.reason = "exogenous_block"
                       => obs[r] = "collapsed" /\ age'[r] <= MaxAge
<1>1. ASSUME TypeOK, HoldInv, [Next]_vars, NEW r \in Robots PROVE Fresh(r)
  <2> SUFFICES ASSUME service[r].open = Closed,
                      service'[r].open.reason = "exogenous_block"
               PROVE  obs[r] = "collapsed" /\ age'[r] <= MaxAge
    OBVIOUS
  <2>1. service'[r].open # Closed
    BY DEF Closed
  <2> QED BY <2>1, <1>1, ChangesAreSent, OnsetNotClosed DEF Releases, Raw
<1>2. TypeOK /\ HoldInv /\ [Next]_vars => [\A r \in Robots : Fresh(r)]_vars
  BY <1>1
<1>3. TypeOK /\ HoldInv /\ [Next]_vars => HoldInv'
  BY HoldNext
<1>4. Init => HoldInv
  BY HoldInit
<1> QED BY <1>2, <1>3, <1>4, TypeCorrect, PTL DEF Spec, OnsetIsFresh
=============================================================================

----------------------- MODULE PlanSelfChecks_proofs -----------------------
(***************************************************************************)
(* What the planner's self-checks are worth to the server: a plan that     *)
(* passes them, and whose visit order lists the visits of its paths, is    *)
(* one the server's compiler accepts and the fleet executes in order.      *)
(*                                                                         *)
(* The heart of it is a set of segments rather than an induction.  Between *)
(* two visits m < n of a location by different robots, the segments that   *)
(* hand the location over, visit by visit, form a set (Lane) in which each *)
(* but the first waits for another.  If two robots crossed one edge in     *)
(* opposite directions and neither were first, the lanes of its two ends   *)
(* would together be a set in which everyone waits: a cycle.               *)
(*                                                                         *)
(* For two robots that cross an edge in one direction, the lanes of its    *)
(* two ends run in opposite directions unless both ends list the two in    *)
(* the same order; so the H-cons comparison of the two ends, each a        *)
(* restriction of a visit sequence, finds them equal.                      *)
(***************************************************************************)
EXTENDS PlanSelfChecks, FiniteSetTheorems, FunctionTheorems, SequenceTheorems, TLAPS

-----------------------------------------------------------------------------
(* The compiler. *)

(* A segment of a plan is a pair of a robot and an index that has a next   *)
(* step (IN04-IN06).                                                       *)
LEMMA SegmentsMember ==
    ASSUME NEW p
    PROVE  \A seg : seg \in Segments(p) <=>
               \E r \in Robots : \E k \in 0 .. Len(p.steps[r]) - 2 : seg = <<r, k>>
BY DEF Segments

(* The items of a visit sequence are visits of robots.                     *)
LEMMA VisitsType ==
    ASSUME NEW p \in PlanRecords, NEW e \in DOMAIN p.visits
    PROVE  /\ p.visits[e].sequence \in Seq(VisitItems)
           /\ Len(p.visits[e].sequence) \in Nat
           /\ \A m \in 1 .. Len(p.visits[e].sequence) :
                 /\ p.visits[e].sequence[m].robot \in Robots
                 /\ p.visits[e].sequence[m].index \in Nat
<1>1. p.visits \in Seq([location : Vertices, sequence : Seq(VisitItems)])
  BY DEF PlanRecords
<1>2. p.visits[e] \in [location : Vertices, sequence : Seq(VisitItems)]
  BY <1>1, ElementOfSeq, LenProperties
<1>3. p.visits[e].sequence \in Seq(VisitItems)
  BY <1>2
<1> DEFINE s == p.visits[e].sequence
<1>4. Len(s) \in Nat /\ \A m \in 1 .. Len(s) : s[m] \in VisitItems
  BY <1>3
<1>5. \A it \in VisitItems : it.robot \in Robots /\ it.index \in Nat
  BY DEF VisitItems
<1> QED
  BY <1>3, <1>4, <1>5

-----------------------------------------------------------------------------
(* The seam self-check derives the sequential chain and the ordering a     *)
(* second time, from the segments; both derivations agree.                 *)

(* The sequential chain is the pairs of neighbouring segments of a robot.  *)
LEMMA ChainAgrees ==
    ASSUME NEW p \in PlanRecords
    PROVE  SequentialDeps(p) = ExpectedChain(p)
<1>1. \A r \in Robots : Len(p.steps[r]) \in Nat
  BY DEF PlanRecords
<1>2. ASSUME NEW d \in SequentialDeps(p)
      PROVE  d \in ExpectedChain(p)
  <2>1. PICK r \in Robots : \E k \in 0 .. Len(p.steps[r]) - 3 :
                                d = << <<r, k>>, <<r, k + 1>> >>
    BY <1>2 DEF SequentialDeps
  <2>2. PICK k \in 0 .. Len(p.steps[r]) - 3 : d = << <<r, k>>, <<r, k + 1>> >>
    BY <2>1
  <2>3. k \in 0 .. Len(p.steps[r]) - 2 /\ k + 1 \in 0 .. Len(p.steps[r]) - 2
    BY <1>1
  <2>4. <<r, k>> \in Segments(p) /\ <<r, k + 1>> \in Segments(p)
    BY <2>3, SegmentsMember
  <2> QED
    BY <2>2, <2>4 DEF ExpectedChain
<1>3. ASSUME NEW d \in ExpectedChain(p)
      PROVE  d \in SequentialDeps(p)
  <2>1. /\ d \in Segments(p) \X Segments(p)
        /\ d[1][1] = d[2][1] /\ d[2][2] = d[1][2] + 1
    BY <1>3 DEF ExpectedChain
  <2>2. PICK r \in Robots : \E k \in 0 .. Len(p.steps[r]) - 2 : d[1] = <<r, k>>
    BY <2>1, SegmentsMember
  <2>3. PICK k \in 0 .. Len(p.steps[r]) - 2 : d[1] = <<r, k>>
    BY <2>2
  <2>4. PICK q \in Robots : \E j \in 0 .. Len(p.steps[q]) - 2 : d[2] = <<q, j>>
    BY <2>1, SegmentsMember
  <2>5. PICK j \in 0 .. Len(p.steps[q]) - 2 : d[2] = <<q, j>>
    BY <2>4
  <2>6. q = r /\ j = k + 1
    BY <2>1, <2>3, <2>5
  <2>7. k \in 0 .. Len(p.steps[r]) - 3
    BY <1>1, <2>5, <2>6
  <2>8. d = << <<r, k>>, <<r, k + 1>> >>
    BY <2>1, <2>3, <2>5, <2>6
  <2> QED
    BY <2>7, <2>8 DEF SequentialDeps
<1> QED
  BY <1>2, <1>3

(* When every entry compiles, skipping the dependencies of missing segments *)
(* skips nothing.                                                          *)
LEMMA OrderingAgrees ==
    ASSUME NEW p, CompiledEntries(p) = DOMAIN p.visits, NEW N \in Nat,
           DOMAIN p.visits = 1 .. N
    PROVE  OrderingDeps(p) = ExpectedOrdering(p)
<1>1. ASSUME NEW e \in DOMAIN p.visits
      PROVE  Handovers(p, e) = {n \in Handovers(p, e) :
                                   /\ Dep(p, e, n)[1] \in Segments(p)
                                   /\ Dep(p, e, n)[2] \in Segments(p)}
  <2>1. e \in 1 .. e /\ e \in CompiledEntries(p)
    BY <1>1
  <2>2. Generates(p, e)
    BY <2>1 DEF CompiledEntries
  <2> QED
    BY <2>2 DEF Generates
<1> QED
  BY <1>1 DEF OrderingDeps, ExpectedOrdering

(* The seam self-check never turns a plan away that passed the H-cons      *)
(* intake and compiled: what it checks follows from the two, so the        *)
(* "seam inconsistent" outcome of the compiler cannot occur.               *)
THEOREM SeamNeverInconsistent ==
    ASSUME NEW p \in PlanRecords
    PROVE  Outcome(p) # "seam_inconsistent"
<1>1. SUFFICES ASSUME HconsOk(p), CompiledEntries(p) = DOMAIN p.visits
               PROVE  SeamSelfCheck(p, CompiledGraph(p))
  BY DEF Outcome
<1>2. /\ CompiledGraph(p).segments = Segments(p)
      /\ CompiledGraph(p).sequential = SequentialDeps(p)
      /\ CompiledGraph(p).ordering = OrderingDeps(p)
  BY <1>1 DEF CompiledGraph
<1>3. Len(p.visits) \in Nat /\ DOMAIN p.visits = 1 .. Len(p.visits)
  BY DEF PlanRecords
<1>4. SequentialDeps(p) = ExpectedChain(p) /\ OrderingDeps(p) = ExpectedOrdering(p)
  BY <1>1, <1>3, ChainAgrees, OrderingAgrees
<1>5. \A r \in Robots : \A k \in 0 .. Len(p.steps[r]) - 2 : <<r, k>> \in Segments(p)
  BY SegmentsMember
<1> QED
  BY <1>1, <1>2, <1>4, <1>5 DEF SeamSelfCheck

-----------------------------------------------------------------------------
(* The planner's graph. *)

Leaves(s, q) == <<s[q].robot, s[q].index>>
Enters(s, q) == <<s[q].robot, s[q].index - 1>>

\* from what is begun before visit q to what visit q lets begin
LaneAt(s, q, n) ==
    {<<s[q].robot, k>> :
        k \in (IF s[q - 1].robot = s[q].robot THEN s[q - 1].index ELSE s[q].index - 1)
              .. (IF q = n THEN s[q].index - 1 ELSE s[q].index)}

Lane(s, m, n) == {Leaves(s, m)} \cup UNION {LaneAt(s, q, n) : q \in m + 1 .. n}

-----------------------------------------------------------------------------
(* The visits of a listed plan are steps, in path order. *)
LEMMA VisitsNumbered ==
    ASSUME NEW p \in PlanRecords, VisitsAreSteps(p), PathOrdered(p),
           NEW e \in DOMAIN p.visits, NEW s, s = p.visits[e].sequence
    PROVE  /\ s \in Seq(VisitItems) /\ Len(s) \in Nat /\ DOMAIN s = 1 .. Len(s)
           /\ \A q \in 1 .. Len(s) :
                 /\ s[q].robot \in Robots /\ s[q].index \in Nat
                 /\ Len(p.steps[s[q].robot]) \in Nat
                 /\ s[q].index <= Len(p.steps[s[q].robot]) - 1
           /\ \A m, n \in 1 .. Len(s) :
                 m < n /\ s[m].robot = s[n].robot => s[m].index < s[n].index
<1>1. /\ s \in Seq(VisitItems) /\ Len(s) \in Nat /\ DOMAIN s = 1 .. Len(s)
  BY VisitsType
<1>2. \A r \in Robots : Len(p.steps[r]) \in Nat
  BY DEF PlanRecords
<1>3. \A q \in 1 .. Len(s) : /\ s[q].robot \in Robots
                             /\ s[q].index \in 0 .. Len(p.steps[s[q].robot]) - 1
  BY <1>1 DEF VisitsAreSteps
<1>4. \A m, n \in 1 .. Len(s) :
         m < n /\ s[m].robot = s[n].robot => s[m].index < s[n].index
  BY <1>1 DEF PathOrdered
<1> QED BY <1>1, <1>2, <1>3, <1>4

(* A segment's number is below the last index of its robot's path. *)
LEMMA SegmentNumber ==
    ASSUME NEW p, NEW r, NEW k, <<r, k>> \in Segments(p)
    PROVE  k \in 0 .. Len(p.steps[r]) - 2
BY DEF Segments

(* Two segments of one robot, one after the other, are an edge. *)
LEMMA ChainEdge ==
    ASSUME NEW p \in PlanRecords, NEW r \in Robots, NEW k \in Nat,
           <<r, k>> \in Segments(p), <<r, k + 1>> \in Segments(p)
    PROVE  << <<r, k>>, <<r, k + 1>> >> \in SegmentEdges(p)
<1>1. Len(p.steps[r]) \in Nat
  BY DEF PlanRecords
<1>2. k + 1 \in 0 .. Len(p.steps[r]) - 2
  BY <1>1 DEF Segments
<1>3. k \in 0 .. Len(p.steps[r]) - 3
  BY <1>1, <1>2
<1>4. << <<r, k>>, <<r, k + 1>> >> \in SequentialDeps(p)
  BY <1>3 DEF SequentialDeps
<1> QED BY <1>4 DEF SegmentEdges

(* A segment number up to the last one is a segment. *)
LEMMA InSegments ==
    ASSUME NEW p \in PlanRecords, NEW r \in Robots, NEW k \in Nat,
           k <= Len(p.steps[r]) - 2
    PROVE  <<r, k>> \in Segments(p)
<1>1. Len(p.steps[r]) \in Nat
  BY DEF PlanRecords
<1>2. k \in 0 .. Len(p.steps[r]) - 2
  BY <1>1
<1> QED BY <1>2 DEF Segments

(* Every visit that another follows is left, and a handover is an edge. *)
LEMMA Handover ==
    ASSUME NEW p \in PlanRecords, VisitsAreSteps(p), PathOrdered(p), NoMissingEdge(p),
           NEW e \in DOMAIN p.visits, NEW s, s = p.visits[e].sequence,
           NEW q \in 1 .. Len(s) - 1
    PROVE  /\ Leaves(s, q) \in Segments(p)
           /\ s[q].robot # s[q + 1].robot
              => /\ s[q + 1].index >= 1
                 /\ Enters(s, q + 1) \in Segments(p)
                 /\ <<Leaves(s, q), Enters(s, q + 1)>> \in SegmentEdges(p)
<1>0. Len(s) \in Nat
  BY VisitsNumbered
<1>1. /\ q \in 1 .. Len(s) /\ q + 1 \in 1 .. Len(s) /\ q < q + 1
  BY <1>0
<1>2. /\ s[q].robot \in Robots /\ s[q].index \in Nat /\ s[q + 1].index \in Nat
      /\ Len(p.steps[s[q].robot]) \in Nat /\ Len(p.steps[s[q + 1].robot]) \in Nat
      /\ s[q + 1].index <= Len(p.steps[s[q + 1].robot]) - 1
      /\ s[q].robot = s[q + 1].robot => s[q].index < s[q + 1].index
  BY <1>1, VisitsNumbered
<1>3. CASE s[q].robot = s[q + 1].robot
  <2>0. PICK i \in Nat, j \in Nat, l \in Nat :
              i = s[q].index /\ j = s[q + 1].index /\ l = Len(p.steps[s[q].robot])
    BY <1>2
  <2>1. i < j /\ j <= l - 1
    BY <2>0, <1>2, <1>3
  <2>2. i <= l - 2
    BY <2>1
  <2> QED BY <1>2, <1>3, <2>0, <2>2, InSegments DEF Leaves
<1>4. CASE s[q].robot # s[q + 1].robot
  <2>1. q \in Retreats(p, e)
    BY <1>4 DEF Retreats
  <2>2. /\ HasSegments(p, e, q)
        /\ Retreat(p, e, q) = <<Leaves(s, q), Enters(s, q + 1)>>
    BY <2>1 DEF NoMissingEdge, Retreat, Leaves, Enters
  <2>3. /\ s[q + 1].index >= 1
        /\ Leaves(s, q) \in Segments(p) /\ Enters(s, q + 1) \in Segments(p)
    BY <2>2 DEF HasSegments
  <2>4. Retreat(p, e, q) \in SegmentEdges(p)
    BY <2>1, <2>2 DEF SegmentEdges
  <2> QED BY <2>2, <2>3, <2>4
<1> QED BY <1>3, <1>4

(* The lane between two visits by different robots: the one leaves from    *)
(* it, the other enters through it, and all but the first segment wait for *)
(* another of the lane.                                                    *)
LEMMA LaneWaits ==
    ASSUME NEW p \in PlanRecords, VisitsAreSteps(p), PathOrdered(p), NoMissingEdge(p),
           NEW e \in DOMAIN p.visits, NEW s, s = p.visits[e].sequence,
           NEW m \in 1 .. Len(s), NEW n \in 1 .. Len(s), m < n,
           s[m].robot # s[n].robot
    PROVE  /\ Lane(s, m, n) \subseteq Segments(p)
           /\ Leaves(s, m) \in Lane(s, m, n) /\ Enters(s, n) \in Lane(s, m, n)
           /\ \A x \in Lane(s, m, n) :
                 x # Leaves(s, m)
                 => \E d \in SegmentEdges(p) : d[2] = x /\ d[1] \in Lane(s, m, n)
<1>1. Len(s) \in Nat
  BY VisitsNumbered
<1>2. \A q \in 1 .. Len(s) :
         /\ s[q].robot \in Robots /\ s[q].index \in Nat
         /\ Len(p.steps[s[q].robot]) \in Nat
         /\ s[q].index <= Len(p.steps[s[q].robot]) - 1
  BY VisitsNumbered
<1>3. \A q \in 2 .. Len(s) :
         /\ q - 1 \in 1 .. Len(s) - 1 /\ q - 1 \in 1 .. Len(s)
         /\ q \in 1 .. Len(s) /\ q - 1 < q /\ (q - 1) + 1 = q
  BY <1>1
<1>4. \A q \in 2 .. Len(s) :
         /\ s[q - 1].robot = s[q].robot => s[q - 1].index < s[q].index
         /\ s[q - 1].robot # s[q].robot
            => /\ s[q].index >= 1 /\ Enters(s, q) \in Segments(p)
               /\ <<Leaves(s, q - 1), Enters(s, q)>> \in SegmentEdges(p)
  <2> SUFFICES ASSUME NEW q \in 2 .. Len(s)
               PROVE  /\ s[q - 1].robot = s[q].robot => s[q - 1].index < s[q].index
                      /\ s[q - 1].robot # s[q].robot
                         => /\ s[q].index >= 1 /\ Enters(s, q) \in Segments(p)
                            /\ <<Leaves(s, q - 1), Enters(s, q)>> \in SegmentEdges(p)
    OBVIOUS
  <2>1. s[q - 1].robot = s[q].robot => s[q - 1].index < s[q].index
    BY <1>3, VisitsNumbered
  <2>2. PICK t \in 1 .. Len(s) - 1 : t = q - 1 /\ t + 1 = q
    BY <1>3
  <2>3. s[t].robot # s[t + 1].robot
        => /\ s[t + 1].index >= 1
           /\ Enters(s, t + 1) \in Segments(p)
           /\ <<Leaves(s, t), Enters(s, t + 1)>> \in SegmentEdges(p)
    BY Handover
  <2> QED BY <2>1, <2>2, <2>3
<1>5. \A q \in m + 1 .. n : q \in 2 .. Len(s) /\ q - 1 \in m .. n - 1
  BY <1>1
<1>6. \A q \in m .. n - 1 : Leaves(s, q) \in Segments(p)
  <2> SUFFICES ASSUME NEW q \in m .. n - 1 PROVE Leaves(s, q) \in Segments(p)
    OBVIOUS
  <2>1. q \in 1 .. Len(s) - 1
    BY <1>1
  <2> QED BY <2>1, Handover
\* the lane holds the departure before every visit and the entry of the last
<1>7. \A q \in m + 1 .. n - 1 :
         /\ s[q].index >= 1
         /\ Leaves(s, q) \in LaneAt(s, q, n)
         /\ <<s[q].robot, s[q].index - 1>> \in LaneAt(s, q, n)
  <2> SUFFICES ASSUME NEW q \in m + 1 .. n - 1
               PROVE  /\ s[q].index >= 1
                      /\ Leaves(s, q) \in LaneAt(s, q, n)
                      /\ <<s[q].robot, s[q].index - 1>> \in LaneAt(s, q, n)
    OBVIOUS
  <2>1. q \in m + 1 .. n /\ q # n
    OBVIOUS
  <2>2. /\ q \in 2 .. Len(s) /\ s[q].index \in Nat /\ s[q - 1].index \in Nat
    BY <2>1, <1>5, <1>3, <1>2
  <2>3. CASE s[q - 1].robot = s[q].robot
    <3>1. s[q - 1].index < s[q].index
      BY <2>2, <2>3, <1>4
    <3>2. PICK i \in Nat, j \in Nat : i = s[q - 1].index /\ j = s[q].index
      BY <2>2
    <3>3. i < j
      BY <3>1, <3>2
    <3>4. j \in i .. j /\ j - 1 \in i .. j /\ j >= 1
      BY <3>3
    <3>5. /\ Leaves(s, q) \in LaneAt(s, q, n)
          /\ <<s[q].robot, j - 1>> \in LaneAt(s, q, n)
      BY <2>1, <2>3, <3>2, <3>4 DEF LaneAt, Leaves
    <3> QED BY <3>2, <3>4, <3>5
  <2>4. CASE s[q - 1].robot # s[q].robot
    <3>1. s[q].index >= 1
      BY <2>2, <2>4, <1>4
    <3>2. PICK j \in Nat : j = s[q].index
      BY <2>2
    <3>3. j \in j - 1 .. j /\ j - 1 \in j - 1 .. j
      BY <3>2
    <3>4. /\ Leaves(s, q) \in LaneAt(s, q, n)
          /\ <<s[q].robot, j - 1>> \in LaneAt(s, q, n)
      BY <2>1, <2>4, <3>2, <3>3 DEF LaneAt, Leaves
    <3> QED BY <3>1, <3>2, <3>4
  <2> QED BY <2>3, <2>4
<1>8. Enters(s, n) \in LaneAt(s, n, n)
  <2>1. n \in m + 1 .. n
    OBVIOUS
  <2>2. n \in 2 .. Len(s) /\ s[n].index \in Nat /\ s[n - 1].index \in Nat
    BY <2>1, <1>5, <1>3, <1>2
  <2>3. CASE s[n - 1].robot = s[n].robot
    <3>1. PICK i \in Nat, j \in Nat : i = s[n - 1].index /\ j = s[n].index
      BY <2>2
    <3>2. i < j
      BY <2>2, <2>3, <3>1, <1>4
    <3>3. j - 1 \in i .. j - 1
      BY <3>2
    <3> QED BY <2>3, <3>1, <3>3 DEF LaneAt, Enters
  <2>4. CASE s[n - 1].robot # s[n].robot
    <3>1. PICK j \in Nat : j = s[n].index
      BY <2>2
    <3>2. j - 1 \in j - 1 .. j - 1
      BY <3>1
    <3> QED BY <2>4, <3>1, <3>2 DEF LaneAt, Enters
  <2> QED BY <2>3, <2>4
<1>9. \A q \in m .. n - 1 : Leaves(s, q) \in Lane(s, m, n)
  <2> SUFFICES ASSUME NEW q \in m .. n - 1 PROVE Leaves(s, q) \in Lane(s, m, n)
    OBVIOUS
  <2>1. q = m \/ (q \in m + 1 .. n - 1 /\ q \in m + 1 .. n)
    OBVIOUS
  <2> QED BY <2>1, <1>7 DEF Lane
<1>10. Leaves(s, m) \in Lane(s, m, n) /\ Enters(s, n) \in Lane(s, m, n)
  <2>1. n \in m + 1 .. n
    OBVIOUS
  <2> QED BY <2>1, <1>8 DEF Lane
<1>11. \A q \in m + 1 .. n : LaneAt(s, q, n) \subseteq Segments(p)
  <2> SUFFICES ASSUME NEW q \in m + 1 .. n, NEW k,
                      k \in (IF s[q - 1].robot = s[q].robot THEN s[q - 1].index
                                                           ELSE s[q].index - 1)
                            .. (IF q = n THEN s[q].index - 1 ELSE s[q].index)
               PROVE  <<s[q].robot, k>> \in Segments(p)
    BY DEF LaneAt
  <2>1. /\ q \in 2 .. Len(s) /\ s[q].index \in Nat /\ s[q - 1].index \in Nat
        /\ s[q].robot \in Robots /\ Len(p.steps[s[q].robot]) \in Nat
        /\ s[q].index <= Len(p.steps[s[q].robot]) - 1
    BY <1>5, <1>3, <1>2
  <2>2. PICK i \in Nat, j \in Nat, l \in Nat :
              i = s[q - 1].index /\ j = s[q].index /\ l = Len(p.steps[s[q].robot])
    BY <2>1
  <2>3. /\ s[q - 1].robot # s[q].robot => j >= 1
        /\ j <= l - 1
    BY <2>1, <2>2, <1>4
  <2>4. q # n => j <= l - 2
    <3>1. q # n => q \in m .. n - 1
      OBVIOUS
    <3>2. q # n => <<s[q].robot, j>> \in Segments(p)
      BY <3>1, <2>2, <1>6 DEF Leaves
    <3>3. q # n => j \in 0 .. l - 2
      BY <3>2, <2>2, SegmentNumber
    <3> QED BY <3>3, <2>2
  <2>5. CASE s[q - 1].robot = s[q].robot
    <3>1. k \in i .. (IF q = n THEN j - 1 ELSE j)
      BY <2>2, <2>5
    <3>2. k \in Nat /\ k <= l - 2
      BY <2>3, <2>4, <3>1
    <3> QED BY <2>1, <2>2, <3>2, InSegments
  <2>6. CASE s[q - 1].robot # s[q].robot
    <3>1. k \in j - 1 .. (IF q = n THEN j - 1 ELSE j)
      BY <2>2, <2>6
    <3>2. k \in Nat /\ k <= l - 2
      BY <2>3, <2>4, <2>6, <3>1
    <3> QED BY <2>1, <2>2, <3>2, InSegments
  <2> QED BY <2>5, <2>6
<1>12. Lane(s, m, n) \subseteq Segments(p)
  <2>1. m \in m .. n - 1
    OBVIOUS
  <2> QED BY <2>1, <1>6, <1>11 DEF Lane
<1>13. ASSUME NEW x \in Lane(s, m, n), x # Leaves(s, m)
       PROVE  \E d \in SegmentEdges(p) : d[2] = x /\ d[1] \in Lane(s, m, n)
  <2>0. PICK q \in m + 1 .. n : x \in LaneAt(s, q, n)
    BY <1>13 DEF Lane
  <2>1. PICK k \in (IF s[q - 1].robot = s[q].robot THEN s[q - 1].index ELSE s[q].index - 1)
                    .. (IF q = n THEN s[q].index - 1 ELSE s[q].index) :
              x = <<s[q].robot, k>>
    BY <2>0 DEF LaneAt
  <2>2. /\ q \in 2 .. Len(s) /\ q - 1 \in m .. n - 1
        /\ s[q].index \in Nat /\ s[q - 1].index \in Nat /\ s[q].robot \in Robots
    BY <1>5, <1>3, <1>2
  <2>3. PICK low \in Nat, top \in Int :
           /\ low = (IF s[q - 1].robot = s[q].robot THEN s[q - 1].index ELSE s[q].index - 1)
           /\ top = (IF q = n THEN s[q].index - 1 ELSE s[q].index)
    <3>1. PICK i \in Nat, j \in Nat : i = s[q - 1].index /\ j = s[q].index
      BY <2>2
    <3>2. s[q - 1].robot # s[q].robot => j >= 1
      BY <2>2, <3>1, <1>4
    <3>3. /\ (IF s[q - 1].robot = s[q].robot THEN i ELSE j - 1) \in Nat
          /\ (IF q = n THEN j - 1 ELSE j) \in Int
      BY <3>2
    <3> QED BY <3>1, <3>3
  <2>3a. k \in low .. top
    BY <2>1, <2>3
  <2>4. CASE k # low
    <3>1. k - 1 \in Nat /\ k - 1 \in low .. top /\ (k - 1) + 1 = k
      BY <2>3a, <2>4
    <3>2. <<s[q].robot, k - 1>> \in LaneAt(s, q, n)
      BY <3>1, <2>3 DEF LaneAt
    <3>3. <<s[q].robot, k - 1>> \in Lane(s, m, n)
      BY <3>2 DEF Lane
    <3>4. <<s[q].robot, k - 1>> \in Segments(p) /\ <<s[q].robot, k>> \in Segments(p)
      BY <3>3, <1>12, <1>13, <2>1
    <3>5. << <<s[q].robot, k - 1>>, <<s[q].robot, k>> >> \in SegmentEdges(p)
      BY <2>2, <3>1, <3>4, ChainEdge
    <3> QED BY <3>3, <3>5, <2>1
  <2>5. CASE k = low /\ s[q - 1].robot # s[q].robot
    <3>1. x = Enters(s, q)
      BY <2>5, <2>1, <2>3 DEF Enters
    <3>2. <<Leaves(s, q - 1), Enters(s, q)>> \in SegmentEdges(p)
      BY <2>2, <2>5, <1>4
    <3>3. Leaves(s, q - 1) \in Lane(s, m, n)
      BY <2>2, <1>9
    <3> QED BY <3>1, <3>2, <3>3
  <2>6. CASE k = low /\ s[q - 1].robot = s[q].robot
    <3> DEFINE t == q - 1
    <3>1. x = Leaves(s, t)
      BY <2>6, <2>1, <2>3 DEF Leaves
    <3>2. t \in m + 1 .. n - 1 /\ t \in m + 1 .. n /\ t \in 1 .. Len(s)
      BY <2>2, <3>1, <1>13, <1>3
    <3>3. /\ s[t].index >= 1 /\ s[t].index \in Nat /\ s[t].robot \in Robots
          /\ <<s[t].robot, s[t].index - 1>> \in LaneAt(s, t, n)
      BY <3>2, <1>7, <1>2
    <3>4. <<s[t].robot, s[t].index - 1>> \in Lane(s, m, n)
      BY <3>2, <3>3 DEF Lane
    <3>5. /\ <<s[t].robot, s[t].index - 1>> \in Segments(p)
          /\ <<s[t].robot, s[t].index>> \in Segments(p)
      BY <3>4, <1>12, <1>13, <3>1 DEF Leaves
    <3>6. PICK j \in Nat : j = s[t].index - 1 /\ j + 1 = s[t].index
      BY <3>3
    <3>7. << <<s[t].robot, j>>, <<s[t].robot, j + 1>> >> \in SegmentEdges(p)
      BY <3>3, <3>5, <3>6, ChainEdge
    <3> QED BY <3>1, <3>4, <3>6, <3>7 DEF Leaves
  <2> QED BY <2>4, <2>5, <2>6
<1> QED BY <1>10, <1>12, <1>13

-----------------------------------------------------------------------------
(* Of two robots that cross one edge in opposite directions, one has its   *)
(* visit of its far end listed first: else the lanes of the two ends close *)
(* a cycle.                                                                *)
THEOREM ChecksOrderCrossings ==
    ASSUME NEW p \in PlanRecords, Passes(p), ListsVisits(p)
    PROVE  CrossingsOrdered(p)
<1> SUFFICES ASSUME NEW r \in Robots, NEW t \in Robots,
                    NEW i \in 1 .. Len(p.steps[r]) - 1, NEW j \in 1 .. Len(p.steps[t]) - 1,
                    r # t,
                    p.steps[r][i] = p.steps[t][j + 1], p.steps[r][i + 1] = p.steps[t][j],
                    ~VisitBefore(p, r, i, t, j - 1), ~VisitBefore(p, t, j, r, i - 1)
             PROVE  FALSE
  BY DEF CrossingsOrdered
<1>1. /\ VisitsAreSteps(p) /\ PathOrdered(p) /\ CoversSharedVisits(p)
      /\ NoMissingEdge(p) /\ Acyclic(p)
  BY DEF ListsVisits, Passes
<1>2. Len(p.steps[r]) \in Nat /\ Len(p.steps[t]) \in Nat
  BY DEF PlanRecords
<1>3. /\ i \in 1 .. Len(p.steps[r]) /\ i + 1 \in 1 .. Len(p.steps[r])
      /\ j \in 1 .. Len(p.steps[t]) /\ j + 1 \in 1 .. Len(p.steps[t])
      /\ (i + 1) - 1 = i /\ (j + 1) - 1 = j
  BY <1>2
\* each end of the edge is listed, and in the order that is not allowed
<1>4. \A u, w \in Robots : \A a, b : \A g \in DOMAIN p.visits :
         \A m, n \in DOMAIN p.visits[g].sequence :
            /\ u # w /\ ~VisitBefore(p, u, a, w, b)
            /\ p.visits[g].sequence[m] = [robot |-> u, index |-> a]
            /\ p.visits[g].sequence[n] = [robot |-> w, index |-> b]
            => /\ m \in 1 .. Len(p.visits[g].sequence) /\ n \in 1 .. Len(p.visits[g].sequence)
               /\ n < m
  <2> SUFFICES ASSUME NEW u \in Robots, NEW w \in Robots, NEW a, NEW b,
                      NEW g \in DOMAIN p.visits,
                      NEW m \in DOMAIN p.visits[g].sequence,
                      NEW n \in DOMAIN p.visits[g].sequence,
                      u # w, ~VisitBefore(p, u, a, w, b),
                      p.visits[g].sequence[m] = [robot |-> u, index |-> a],
                      p.visits[g].sequence[n] = [robot |-> w, index |-> b]
               PROVE  /\ m \in 1 .. Len(p.visits[g].sequence)
                      /\ n \in 1 .. Len(p.visits[g].sequence)
                      /\ n < m
    OBVIOUS
  <2>1. /\ Len(p.visits[g].sequence) \in Nat
        /\ DOMAIN p.visits[g].sequence = 1 .. Len(p.visits[g].sequence)
    BY <1>1, VisitsNumbered
  <2>2. ~(m < n)
    BY DEF VisitBefore
  <2>3. m # n
    OBVIOUS
  <2> QED BY <2>1, <2>2, <2>3
<1>5. PICK e \in DOMAIN p.visits :
         \E m, n \in DOMAIN p.visits[e].sequence :
            /\ p.visits[e].sequence[m] = [robot |-> r, index |-> i]
            /\ p.visits[e].sequence[n] = [robot |-> t, index |-> j - 1]
  <2>1. PICK k \in 1 .. Len(p.steps[r]) : k = i + 1 /\ k - 1 = i
    BY <1>3
  <2>2. p.steps[r][k] = p.steps[t][j]
    BY <2>1
  <2>3. \E e \in DOMAIN p.visits : \E m, n \in DOMAIN p.visits[e].sequence :
            /\ p.visits[e].sequence[m] = [robot |-> r, index |-> k - 1]
            /\ p.visits[e].sequence[n] = [robot |-> t, index |-> j - 1]
    BY <1>1, <1>3, <2>2 DEF CoversSharedVisits
  <2> QED BY <2>1, <2>3
<1>6. PICK f \in DOMAIN p.visits :
         \E m, n \in DOMAIN p.visits[f].sequence :
            /\ p.visits[f].sequence[m] = [robot |-> r, index |-> i - 1]
            /\ p.visits[f].sequence[n] = [robot |-> t, index |-> j]
  <2>1. PICK k \in 1 .. Len(p.steps[t]) : k = j + 1 /\ k - 1 = j
    BY <1>3
  <2>2. p.steps[r][i] = p.steps[t][k]
    BY <2>1
  <2>3. \E f \in DOMAIN p.visits : \E m, n \in DOMAIN p.visits[f].sequence :
            /\ p.visits[f].sequence[m] = [robot |-> r, index |-> i - 1]
            /\ p.visits[f].sequence[n] = [robot |-> t, index |-> k - 1]
    BY <1>1, <1>3, <2>2 DEF CoversSharedVisits
  <2> QED BY <2>1, <2>3
<1> DEFINE se == p.visits[e].sequence
           sf == p.visits[f].sequence
<1>7. PICK m1 \in 1 .. Len(se), n1 \in 1 .. Len(se) :
         /\ n1 < m1
         /\ se[m1] = [robot |-> r, index |-> i] /\ se[n1] = [robot |-> t, index |-> j - 1]
  BY <1>4, <1>5
<1>8. PICK m2 \in 1 .. Len(sf), n2 \in 1 .. Len(sf) :
         /\ m2 < n2
         /\ sf[m2] = [robot |-> r, index |-> i - 1] /\ sf[n2] = [robot |-> t, index |-> j]
  BY <1>4, <1>6
<1> DEFINE A == Lane(se, n1, m1)
           B == Lane(sf, m2, n2)
           x == <<t, j - 1>>
           y == <<r, i - 1>>
<1>9. Leaves(se, n1) = x /\ Enters(se, m1) = y /\ Leaves(sf, m2) = y /\ Enters(sf, n2) = x
  BY <1>7, <1>8 DEF Leaves, Enters
<1>10. /\ A \subseteq Segments(p) /\ x \in A /\ y \in A
       /\ \A z \in A : z # x => \E d \in SegmentEdges(p) : d[2] = z /\ d[1] \in A
  <2>1. se[n1].robot # se[m1].robot
    BY <1>7
  <2>2. /\ Lane(se, n1, m1) \subseteq Segments(p)
        /\ Leaves(se, n1) \in Lane(se, n1, m1)
        /\ Enters(se, m1) \in Lane(se, n1, m1)
        /\ \A z \in Lane(se, n1, m1) :
              z # Leaves(se, n1)
              => \E d \in SegmentEdges(p) : d[2] = z /\ d[1] \in Lane(se, n1, m1)
    BY <1>1, <1>7, <2>1, LaneWaits
  <2> QED BY <1>9, <2>2
<1>11. /\ B \subseteq Segments(p) /\ x \in B /\ y \in B
       /\ \A z \in B : z # y => \E d \in SegmentEdges(p) : d[2] = z /\ d[1] \in B
  <2>1. sf[m2].robot # sf[n2].robot
    BY <1>8
  <2>2. /\ Lane(sf, m2, n2) \subseteq Segments(p)
        /\ Leaves(sf, m2) \in Lane(sf, m2, n2)
        /\ Enters(sf, n2) \in Lane(sf, m2, n2)
        /\ \A z \in Lane(sf, m2, n2) :
              z # Leaves(sf, m2)
              => \E d \in SegmentEdges(p) : d[2] = z /\ d[1] \in Lane(sf, m2, n2)
    BY <1>1, <1>8, <2>1, LaneWaits
  <2> QED BY <1>9, <2>2
<1>12. x # y
  OBVIOUS
<1> HIDE DEF A, B, x, y
<1>13. \A z \in A \cup B : \E d \in SegmentEdges(p) : d[2] = z /\ d[1] \in A \cup B
  <2> SUFFICES ASSUME NEW z \in A \cup B
               PROVE  \E d \in SegmentEdges(p) : d[2] = z /\ d[1] \in A \cup B
    OBVIOUS
  <2>1. (z \in A /\ z # x) \/ (z \in B /\ z # y)
    BY <1>10, <1>11, <1>12
  <2>2. CASE z \in A /\ z # x
    BY <1>10, <2>2
  <2>3. CASE z \in B /\ z # y
    BY <1>11, <2>3
  <2> QED BY <2>1, <2>2, <2>3
<1>14. A \cup B \in SUBSET Segments(p) /\ A \cup B # {}
  BY <1>10, <1>11
<1> QED
  BY <1>1, <1>13, <1>14 DEF Acyclic

(* What the planner checked and listed keeps the plan contract the server  *)
(* relies on, and every handover it tested compiles.                       *)
THEOREM ChecksMeetContract ==
    ASSUME NEW p \in PlanRecords, Passes(p), ListsVisits(p)
    PROVE  WellFormed(p) /\ (HconsOk(p) => Outcome(p) = "ok")
<1>1. VisitsAreSteps(p) /\ PathOrdered(p) /\ CoversSharedVisits(p) /\ NoMissingEdge(p)
  BY DEF ListsVisits, Passes
<1>2. OrderedVisits(p)
  <2> SUFFICES ASSUME NEW e \in DOMAIN p.visits,
                      NEW m \in 1 .. Len(p.visits[e].sequence) - 1
               PROVE  IF p.visits[e].sequence[m].robot = p.visits[e].sequence[m + 1].robot
                      THEN p.visits[e].sequence[m].index < p.visits[e].sequence[m + 1].index
                      ELSE p.visits[e].sequence[m + 1].index # 0
    BY DEF OrderedVisits
  <2> DEFINE s == p.visits[e].sequence
  <2>1. Len(s) \in Nat
    BY <1>1, VisitsNumbered
  <2>2. m \in 1 .. Len(s) /\ m + 1 \in 1 .. Len(s) /\ m < m + 1
    BY <2>1
  <2>3. s[m].robot = s[m + 1].robot => s[m].index < s[m + 1].index
    BY <1>1, <2>2, VisitsNumbered
  <2>4. s[m].robot # s[m + 1].robot => s[m + 1].index >= 1
    BY <1>1, Handover
  <2> QED BY <2>3, <2>4
<1>3. \A e \in DOMAIN p.visits : Generates(p, e)
  <2> SUFFICES ASSUME NEW e \in DOMAIN p.visits, NEW m \in Handovers(p, e)
               PROVE  Dep(p, e, m)[1] \in Segments(p) /\ Dep(p, e, m)[2] \in Segments(p)
    BY DEF Generates
  <2>1. m \in Retreats(p, e)
    BY DEF Handovers, Retreats
  <2>2. HasSegments(p, e, m)
    BY <1>1, <2>1 DEF NoMissingEdge
  <2> QED BY <2>2 DEF HasSegments, Retreat, Dep
<1>4. CompiledEntries(p) = DOMAIN p.visits
  <2>1. \A e \in DOMAIN p.visits : 1 .. e \subseteq DOMAIN p.visits
    BY DEF PlanRecords
  <2> QED BY <1>3, <2>1 DEF CompiledEntries
<1>5. HconsOk(p) => Outcome(p) = "ok"
  BY <1>4, SeamNeverInconsistent DEF Outcome
<1> QED BY <1>1, <1>2, <1>5 DEF WellFormed

-----------------------------------------------------------------------------
(* A non-empty set of natural numbers has a least element.                 *)
LEMMA LeastNatural ==
    ASSUME NEW T \in SUBSET Nat, T # {}
    PROVE  \E x \in T : \A y \in T : x <= y
<1> DEFINE Below == OpToRel(<, Nat)
<1>1. IsWellFoundedOn(Below, Nat)
  BY NatLessThanWellFounded
<1>2. \A x, y \in Nat : <<x, y>> \in Below <=> x < y
  BY DEF OpToRel
<1> HIDE DEF Below
<1>3. PICK x \in T : \A y \in T : ~(<<y, x>> \in Below)
  <2>1. T \subseteq Nat
    OBVIOUS
  <2> QED
    BY <1>1, <2>1, WFMin, Zenon
<1>4. ASSUME NEW y \in T PROVE x <= y
  <2>1. x \in Nat /\ y \in Nat
    BY <1>4
  <2>2. ~(y < x)
    BY <1>2, <1>3, <2>1
  <2> QED
    BY <2>1, <2>2
<1> QED
  BY <1>4

(* Sequences in order. *)

\* before[x] are the elements of S that come before x
StrictOrder(S, before) ==
    /\ before \in [S -> SUBSET S]
    /\ \A x \in S : x \notin before[x]
    /\ \A x, y \in S : x \in before[y] => before[x] \subseteq before[y]
    /\ \A x, y \in S : x # y => x \in before[y] \/ y \in before[x]

(* Fewer elements come before an earlier one.                              *)
LEMMA RankGrows ==
    ASSUME NEW S, IsFiniteSet(S), NEW before, StrictOrder(S, before)
    PROVE  /\ Cardinality(S) \in Nat
           /\ \A x \in S : Cardinality(before[x]) + 1 \in 1 .. Cardinality(S)
           /\ \A x, y \in S : x \in before[y]
                              => Cardinality(before[x]) < Cardinality(before[y])
           /\ \A x, y \in S : Cardinality(before[x]) = Cardinality(before[y]) => x = y
<1>1. \A x \in S : before[x] \in SUBSET S /\ x \notin before[x]
  BY DEF StrictOrder
<1>2. Cardinality(S) \in Nat
  BY FS_CardinalityType
<1>3. ASSUME NEW x \in S
      PROVE  /\ IsFiniteSet(before[x]) /\ Cardinality(before[x]) \in Nat
             /\ Cardinality(before[x]) < Cardinality(S)
  <2>1. before[x] \in SUBSET S /\ before[x] # S
    BY <1>1
  <2>2. IsFiniteSet(before[x])
    BY <2>1, FS_Subset
  <2>3. Cardinality(before[x]) <= Cardinality(S) /\ Cardinality(S) # Cardinality(before[x])
    BY <2>1, FS_Subset
  <2>4. Cardinality(before[x]) \in Nat
    BY <2>2, FS_CardinalityType
  <2> QED  BY <1>2, <2>2, <2>3, <2>4
<1>4. ASSUME NEW x \in S, NEW y \in S, x \in before[y]
      PROVE  Cardinality(before[x]) < Cardinality(before[y])
  <2>1. before[x] \in SUBSET before[y] /\ before[x] # before[y]
    BY <1>1, <1>4 DEF StrictOrder
  <2>2. /\ Cardinality(before[x]) <= Cardinality(before[y])
        /\ Cardinality(before[y]) # Cardinality(before[x])
    BY <1>3, <2>1, FS_Subset
  <2> QED  BY <1>3, <2>2
<1>5. ASSUME NEW x \in S, NEW y \in S, Cardinality(before[x]) = Cardinality(before[y])
      PROVE  x = y
  <2>1. ~(x \in before[y]) /\ ~(y \in before[x])
    BY <1>3, <1>4, <1>5
  <2> QED  BY <2>1 DEF StrictOrder
<1>6. ASSUME NEW x \in S
      PROVE  Cardinality(before[x]) + 1 \in 1 .. Cardinality(S)
  BY <1>2, <1>3
<1> QED  BY <1>2, <1>4, <1>5, <1>6

(* Every place is taken: the ranks are as many as the elements.            *)
LEMMA RankOnto ==
    ASSUME NEW S, IsFiniteSet(S), NEW before, StrictOrder(S, before),
           NEW k \in 1 .. Cardinality(S)
    PROVE  \E x \in S : Cardinality(before[x]) = k - 1
<1> DEFINE N == Cardinality(S)
           f == [x \in S |-> Cardinality(before[x]) + 1]
<1>1. N \in Nat /\ f \in [S -> 1 .. N]
  BY RankGrows
<1>2. \A x, y \in S : f[x] = f[y] => x = y
  <2> SUFFICES ASSUME NEW x \in S, NEW y \in S, f[x] = f[y]
               PROVE  x = y
    OBVIOUS
  <2>1. Cardinality(before[x]) + 1 = Cardinality(before[y]) + 1
    OBVIOUS
  <2>2. Cardinality(before[x]) + 1 \in 1 .. N /\ Cardinality(before[y]) + 1 \in 1 .. N
    BY RankGrows
  <2>3. Cardinality(before[x]) \in Nat /\ Cardinality(before[y]) \in Nat
    <3>1. before[x] \in SUBSET S /\ before[y] \in SUBSET S
      BY DEF StrictOrder
    <3> QED  BY <3>1, FS_Subset, FS_CardinalityType
  <2>4. Cardinality(before[x]) = Cardinality(before[y])
    BY <2>1, <2>3
  <2> QED  BY <2>4, RankGrows
<1> HIDE DEF N
<1>3. f \in Injection(S, 1 .. N)
  <2> HIDE DEF f
  <2> QED  BY <1>1, <1>2, Fun_IsInj
<1>4. IsFiniteSet(1 .. N) /\ Cardinality(1 .. N) = N
  BY <1>1, FS_Interval
<1>5. f \in Surjection(S, 1 .. N)
  <2>1. Cardinality(S) = Cardinality(1 .. N)
    BY <1>4 DEF N
  <2> HIDE DEF f
  <2> QED  BY <1>3, <1>4, <2>1, FS_Injection
<1>6. \E x \in S : f[x] = k
  <2> HIDE DEF f
  <2>1. \A t \in 1 .. N : \E x \in S : f[x] = t
    BY <1>5, Fun_SurjectionProperties
  <2>2. k \in 1 .. N
    BY DEF N
  <2> QED  BY <2>1, <2>2
<1>7. PICK x \in S : f[x] = k
  BY <1>6
<1>8. Cardinality(before[x]) \in Nat
  <2>1. before[x] \in SUBSET S
    BY DEF StrictOrder
  <2> QED  BY <2>1, FS_Subset, FS_CardinalityType
<1> QED  BY <1>7, <1>8

\* q lists every element of S once, in the order of "before"
Sorts(q, S, before) ==
    /\ q \in Seq(S) /\ Len(q) \in Nat /\ Len(q) = Cardinality(S) /\ DOMAIN q = 1 .. Len(q)
    /\ \A k \in 1 .. Len(q) : q[k] \in S /\ Cardinality(before[q[k]]) = k - 1
    /\ \A x \in S : \E k \in 1 .. Len(q) : q[k] = x
    /\ \A i, j \in 1 .. Len(q) : i < j => q[i] \in before[q[j]]

(* What Arranged returns: the elements, each once, in the order asked for. *)
LEMMA ArrangedSorts ==
    ASSUME NEW S, IsFiniteSet(S), NEW before, StrictOrder(S, before)
    PROVE  Sorts(Arranged(S, before), S, before)
<1> DEFINE N == Cardinality(S)
           q == Arranged(S, before)
<1>1. N \in Nat
  BY RankGrows
<1>2. ASSUME NEW k \in 1 .. N
      PROVE  q[k] \in S /\ Cardinality(before[q[k]]) = k - 1
  <2>1. q[k] = CHOOSE x \in S : Cardinality(before[x]) = k - 1
    BY DEF Arranged
  <2>2. \E x \in S : Cardinality(before[x]) = k - 1
    BY RankOnto
  <2> HIDE DEF q
  <2> QED  BY <2>1, <2>2
<1>3. DOMAIN q = 1 .. N /\ q = [k \in 1 .. N |-> q[k]]
  BY DEF Arranged
<1> HIDE DEF q, N
<1>4. q \in Seq(S) /\ Len(q) = N
  BY <1>1, <1>2, <1>3
<1>5. ASSUME NEW x \in S
      PROVE  \E k \in 1 .. N : q[k] = x
  <2> DEFINE k == Cardinality(before[x]) + 1
  <2>1. k \in 1 .. N
    BY RankGrows DEF N
  <2>2. Cardinality(before[x]) \in Nat
    <3>1. before[x] \in SUBSET S
      BY DEF StrictOrder
    <3> QED  BY <3>1, FS_Subset, FS_CardinalityType
  <2>3. k - 1 = Cardinality(before[x])
    BY <2>2
  <2> HIDE DEF k
  <2>4. q[k] \in S /\ Cardinality(before[q[k]]) = Cardinality(before[x])
    BY <1>2, <2>1, <2>3
  <2>5. q[k] = x
    BY <2>4, RankGrows
  <2> QED  BY <2>1, <2>5
<1>6. ASSUME NEW i \in 1 .. N, NEW j \in 1 .. N, i < j
      PROVE  q[i] \in before[q[j]]
  <2>1. /\ q[i] \in S /\ Cardinality(before[q[i]]) = i - 1
        /\ q[j] \in S /\ Cardinality(before[q[j]]) = j - 1
    BY <1>2
  <2>2. i \in Int /\ j \in Int /\ ~(j - 1 < i - 1) /\ i - 1 # j - 1
    BY <1>1, <1>6
  <2>3. q[i] # q[j]
    BY <2>1, <2>2
  <2>4. ~(q[j] \in before[q[i]])
    <3>1. q[j] \in before[q[i]] => Cardinality(before[q[j]]) < Cardinality(before[q[i]])
      BY <2>1, RankGrows
    <3> QED  BY <2>1, <2>2, <3>1
  <2> QED  BY <2>1, <2>3, <2>4 DEF StrictOrder
<1>7. N = Cardinality(S)
  BY DEF N
<1>8. Sorts(q, S, before)
  BY <1>1, <1>2, <1>3, <1>4, <1>5, <1>6, <1>7 DEF Sorts
<1> QED  BY <1>8 DEF q

(* Sets that correspond, order and all, are arranged alike.                *)
LEMMA ArrangedAlike ==
    ASSUME NEW S, IsFiniteSet(S), NEW before, StrictOrder(S, before),
           NEW T, NEW after, StrictOrder(T, after), NEW g \in Bijection(S, T),
           \A x, y \in S : y \in before[x] <=> g[y] \in after[g[x]]
    PROVE  /\ Cardinality(T) = Cardinality(S)
           /\ \A k \in 1 .. Cardinality(S) : Arranged(T, after)[k] = g[Arranged(S, before)[k]]
<1>1. /\ g \in [S -> T] /\ \A x, y \in S : g[x] = g[y] => x = y
      /\ \A t \in T : \E x \in S : g[x] = t
  BY Fun_BijectionProperties
<1>2. IsFiniteSet(T) /\ Cardinality(T) = Cardinality(S)
  <2>1. ExistsBijection(S, T)
    BY Fun_ExistsBij
  <2> QED  BY <2>1, FS_Bijection
<1>3. ASSUME NEW x \in S
      PROVE  Cardinality(after[g[x]]) = Cardinality(before[x])
  <2> DEFINE B == before[x]
             C == after[g[x]]
             h == [y \in B |-> g[y]]
  <2>1. B \in SUBSET S /\ C \in SUBSET T
    BY <1>1 DEF StrictOrder
  <2>2. h \in [B -> C]
    BY <2>1
  <2>3. \A y, z \in B : h[y] = h[z] => y = z
    BY <1>1, <2>1
  <2>4. \A t \in C : \E y \in B : h[y] = t
    <3> SUFFICES ASSUME NEW t \in C PROVE \E y \in B : h[y] = t
      OBVIOUS
    <3>1. PICK y \in S : g[y] = t
      BY <1>1, <2>1
    <3>2. y \in B
      BY <3>1
    <3> QED  BY <3>1, <3>2
  <2>5. IsFiniteSet(B)
    BY <2>1, FS_Subset
  <2> HIDE DEF h, B, C
  <2>6. h \in Bijection(B, C)
    BY <2>2, <2>3, <2>4, Fun_IsBij
  <2>7. ExistsBijection(B, C)
    BY <2>6, Fun_ExistsBij
  <2>8. Cardinality(C) = Cardinality(B)
    BY <2>5, <2>7, FS_Bijection
  <2> QED  BY <2>8 DEF B, C
<1> DEFINE q == Arranged(S, before)
           u == Arranged(T, after)
<1>4. /\ Len(q) = Cardinality(S)
      /\ \A k \in 1 .. Len(q) : q[k] \in S /\ Cardinality(before[q[k]]) = k - 1
  BY ArrangedSorts DEF Sorts
<1>5. /\ Len(u) = Cardinality(T)
      /\ \A k \in 1 .. Len(u) : u[k] \in T /\ Cardinality(after[u[k]]) = k - 1
  BY <1>2, ArrangedSorts DEF Sorts
<1> HIDE DEF q, u
<1>6. ASSUME NEW k \in 1 .. Cardinality(S)
      PROVE  u[k] = g[q[k]]
  <2>1. q[k] \in S /\ g[q[k]] \in T /\ Cardinality(after[g[q[k]]]) = k - 1
    BY <1>1, <1>3, <1>4
  <2>2. u[k] \in T /\ Cardinality(after[u[k]]) = k - 1
    BY <1>2, <1>5
  <2>3. \A x, y \in T : Cardinality(after[x]) = Cardinality(after[y]) => x = y
    BY <1>2, RankGrows
  <2> QED  BY <2>1, <2>2, <2>3
<1> QED  BY <1>2, <1>6 DEF q, u

-----------------------------------------------------------------------------
(* One order at both ends of an edge. *)

\* every segment of X, x aside, waits for another of X
Waits(p, X, x) ==
    /\ X \subseteq Segments(p)
    /\ \A z \in X : z # x => \E d \in SegmentEdges(p) : d[2] = z /\ d[1] \in X

(* Two sets that wait but for the first segment of the lane of the tail    *)
(* and the first of the lane of the head, the latter the successor of the  *)
(* segment w: together they would be a cycle.                              *)
LEMMA LanesClose ==
    ASSUME NEW p, Acyclic(p), NEW A, NEW B, NEW u, NEW w, NEW y, NEW z,
           Waits(p, A, u), Waits(p, B, z), u \in B, y \in A, w \in Segments(p),
           u # z, <<y, w>> \in SegmentEdges(p), <<w, z>> \in SegmentEdges(p)
    PROVE  FALSE
<1> DEFINE X == A \cup B \cup {w}
<1>1. \A x \in X : \E d \in SegmentEdges(p) : d[2] = x /\ d[1] \in X
  <2> SUFFICES ASSUME NEW x \in X
               PROVE  \E d \in SegmentEdges(p) : d[2] = x /\ d[1] \in X
    OBVIOUS
  <2>1. CASE x = w
    <3>1. <<y, w>>[2] = x /\ <<y, w>>[1] \in X
      BY <2>1
    <3> QED  BY <3>1
  <2>2. CASE x = z
    <3>1. <<w, z>>[2] = x /\ <<w, z>>[1] \in X
      BY <2>2
    <3> QED  BY <3>1
  <2>3. CASE x \in A /\ x # u
    BY <2>3 DEF Waits
  <2>4. CASE x \in B /\ x # z
    BY <2>4 DEF Waits
  <2> QED  BY <2>1, <2>2, <2>3, <2>4
<1>2. X \in SUBSET Segments(p) /\ X # {}
  BY DEF Waits
<1> HIDE DEF X
<1> QED  BY <1>1, <1>2 DEF Acyclic

\* the visit number m of s is r's with index i
Stands(s, m, r, i) == m \in 1 .. Len(s) /\ s[m].robot = r /\ s[m].index = i

(* Two robots that cross one edge keep the order of its tail at its head:  *)
(* else the lanes of the two ends close a cycle.                           *)
LEMMA EdgeOrder ==
    ASSUME NEW p \in PlanRecords, Passes(p), ListsVisits(p),
           NEW e \in DOMAIN p.visits, NEW f \in DOMAIN p.visits,
           NEW se, se = p.visits[e].sequence, NEW sf, sf = p.visits[f].sequence,
           NEW r \in Robots, NEW t \in Robots, NEW i \in Nat, NEW j \in Nat,
           NEW m1, NEW m2, NEW n1, NEW n2,
           Stands(se, m1, r, i), Stands(se, m2, t, j),
           Stands(sf, n1, r, i + 1), Stands(sf, n2, t, j + 1),
           <<r, i>> \in Segments(p), <<t, j>> \in Segments(p),
           m1 < m2
    PROVE  n1 < n2
<1>1. /\ VisitsAreSteps(p) /\ PathOrdered(p) /\ NoMissingEdge(p) /\ Acyclic(p)
  BY DEF ListsVisits, Passes
<1>2. Len(se) \in Nat /\ Len(sf) \in Nat
  BY <1>1, VisitsNumbered
<1>3. /\ m1 \in 1 .. Len(se) /\ m2 \in 1 .. Len(se)
      /\ n1 \in 1 .. Len(sf) /\ n2 \in 1 .. Len(sf)
  BY DEF Stands
<1>4. CASE r = t
  <2>1. i < j
    BY <1>1, <1>4, VisitsNumbered DEF Stands
  <2>2. n2 < n1 => j + 1 < i + 1
    BY <1>1, <1>4, VisitsNumbered DEF Stands
  <2>3. n1 # n2
    BY <2>1 DEF Stands
  <2> QED  BY <1>2, <1>3, <2>1, <2>2, <2>3
<1>5. CASE r # t
  <2>1. n1 # n2
    BY <1>5 DEF Stands
  <2> SUFFICES ASSUME n2 < n1 PROVE FALSE
    BY <1>2, <1>3, <2>1
  <2>2. /\ Waits(p, Lane(se, m1, m2), Leaves(se, m1))
        /\ Enters(se, m2) \in Lane(se, m1, m2)
    <3>1. se[m1].robot # se[m2].robot
      BY <1>5 DEF Stands
    <3> QED  BY <1>1, <1>3, <3>1, LaneWaits DEF Waits
  <2>3. /\ Waits(p, Lane(sf, n2, n1), Leaves(sf, n2))
        /\ Leaves(sf, n2) \in Lane(sf, n2, n1) /\ Enters(sf, n1) \in Lane(sf, n2, n1)
    <3>1. sf[n2].robot # sf[n1].robot
      BY <1>5 DEF Stands
    <3> QED  BY <1>1, <1>3, <3>1, LaneWaits DEF Waits
  <2>4. /\ Leaves(se, m1) = <<r, i>> /\ Enters(se, m2) = <<t, j - 1>>
        /\ Leaves(sf, n2) = <<t, j + 1>>
    BY DEF Stands, Leaves, Enters
  <2>5. Enters(sf, n1) = <<r, i>>
    <3>1. (i + 1) - 1 = i
      OBVIOUS
    <3> QED  BY <3>1 DEF Stands, Enters
  <2>6. <<t, j - 1>> \in Segments(p) /\ <<t, j + 1>> \in Segments(p)
    BY <2>2, <2>3, <2>4 DEF Waits
  <2>7. << <<t, j>>, <<t, j + 1>> >> \in SegmentEdges(p)
    BY <2>6, ChainEdge
  <2>8. << <<t, j - 1>>, <<t, j>> >> \in SegmentEdges(p)
    <3>1. j - 1 \in Nat
      BY <2>6, SegmentNumber
    <3>2. PICK k \in Nat : k = j - 1 /\ k + 1 = j
      BY <3>1
    <3>3. << <<t, k>>, <<t, k + 1>> >> \in SegmentEdges(p)
      BY <2>6, <3>2, ChainEdge
    <3> QED  BY <3>2, <3>3
  <2>9. <<r, i>> # <<t, j + 1>>
    BY <1>5
  <2> QED  BY <1>1, <2>2, <2>3, <2>4, <2>5, <2>7, <2>8, <2>9, LanesClose
<1> QED  BY <1>4, <1>5

(* A map lists a location once. *)
OneEntryEach(p) ==
    \A e, f \in DOMAIN p.visits : p.visits[e].location = p.visits[f].location => e = f

(* So the visits of a location are those of its entry.                     *)
LEMMA VisitsOfEntry ==
    ASSUME NEW p, OneEntryEach(p), NEW e \in DOMAIN p.visits, DOMAIN p.visits \subseteq Int
    PROVE  /\ Listed(p, p.visits[e].location)
           /\ VisitsAt(p, p.visits[e].location) = p.visits[e].sequence
<1> DEFINE v == p.visits[e].location
           entries == {g \in DOMAIN p.visits : p.visits[g].location = v}
<1>1. entries = {e}
  BY DEF OneEntryEach
<1>2. (CHOOSE g \in entries : \A f \in entries : f <= g) = e
  BY <1>1
<1> QED  BY <1>2 DEF VisitsAt, Listed

(* Numbers are in order. *)
Upwards(M) == [m \in M |-> {n \in M : n < m}]

(* A set of positions is ordered by being earlier.                         *)
LEMMA NumbersInOrder ==
    ASSUME NEW n \in Nat, NEW M \in SUBSET (1 .. n)
    PROVE  IsFiniteSet(M) /\ StrictOrder(M, Upwards(M))
<1>1. IsFiniteSet(1 .. n)
  BY FS_Interval
<1>2. IsFiniteSet(M)
  BY <1>1, FS_Subset
<1>3. \A m \in M : m \in Int
  OBVIOUS
<1>4. StrictOrder(M, Upwards(M))
  <2>1. Upwards(M) \in [M -> SUBSET M]
    BY DEF Upwards
  <2>2. \A m \in M : Upwards(M)[m] = {k \in M : k < m}
    BY DEF Upwards
  <2>3. \A m \in M : m \notin Upwards(M)[m]
    BY <1>3, <2>2
  <2>4. \A x, y \in M : x \in Upwards(M)[y] => Upwards(M)[x] \subseteq Upwards(M)[y]
    <3> SUFFICES ASSUME NEW x \in M, NEW y \in M, x \in Upwards(M)[y], NEW k \in Upwards(M)[x]
                 PROVE  k \in Upwards(M)[y]
      OBVIOUS
    <3>1. x < y /\ k \in M /\ k < x
      BY <2>2
    <3>2. k < y
      BY <1>3, <3>1
    <3> QED  BY <2>2, <3>1, <3>2
  <2>5. \A x, y \in M : x # y => x \in Upwards(M)[y] \/ y \in Upwards(M)[x]
    BY <1>3, <2>2
  <2> QED  BY <2>1, <2>3, <2>4, <2>5 DEF StrictOrder
<1> QED  BY <1>2, <1>4

(* Two robots that visit one location stand in the entry of the location.  *)
LEMMA SharedEntry ==
    ASSUME NEW p \in PlanRecords, ListsVisits(p),
           NEW r \in Robots, NEW t \in Robots, r # t,
           NEW i \in 1 .. Len(p.steps[r]), NEW j \in 1 .. Len(p.steps[t]),
           p.steps[r][i] = p.steps[t][j]
    PROVE  \E e \in DOMAIN p.visits :
              /\ p.visits[e].location = p.steps[r][i]
              /\ \E m : Stands(p.visits[e].sequence, m, r, i - 1)
<1>1. VisitsAreSteps(p) /\ PathOrdered(p) /\ CoversSharedVisits(p)
  BY DEF ListsVisits
<1>2. PICK e \in DOMAIN p.visits :
         \E m, n \in DOMAIN p.visits[e].sequence :
            /\ p.visits[e].sequence[m] = [robot |-> r, index |-> i - 1]
            /\ p.visits[e].sequence[n] = [robot |-> t, index |-> j - 1]
  BY <1>1 DEF CoversSharedVisits
<1>3. PICK m \in DOMAIN p.visits[e].sequence :
         p.visits[e].sequence[m] = [robot |-> r, index |-> i - 1]
  BY <1>2
<1>4. m \in 1 .. Len(p.visits[e].sequence)
  BY <1>1, VisitsNumbered
<1>5. Stands(p.visits[e].sequence, m, r, i - 1)
  BY <1>3, <1>4 DEF Stands
<1>6. p.visits[e].location = p.steps[r][(i - 1) + 1]
  BY <1>1, <1>3 DEF VisitsAreSteps
<1>7. Len(p.steps[r]) \in Nat
  BY DEF PlanRecords
<1>8. (i - 1) + 1 = i
  BY <1>7
<1> QED  BY <1>5, <1>6, <1>8

\* robots in numbers use the edge
Contended(U) == \E s, t \in U : s[1] # t[1]

\* the segments of U all visit v, listed as the sequence s, back steps later
AllVisit(p, U, v, s, back) ==
    /\ Listed(p, v) /\ s = VisitsAt(p, v)
    /\ \E e \in DOMAIN p.visits : s = p.visits[e].sequence
    /\ \A u \in U : \E m : Stands(s, m, u[1], u[2] + back)

(* The users of a contended edge are all listed at both of its ends.       *)
LEMMA UsersListed ==
    ASSUME NEW p \in PlanRecords, ListsVisits(p), OneEntryEach(p), NEW a, NEW b,
           NEW U, U = Users(p, a, b), Contended(U)
    PROVE  AllVisit(p, U, a, VisitsAt(p, a), 0) /\ AllVisit(p, U, b, VisitsAt(p, b), 1)
<1>1. \A u \in U : /\ u = <<u[1], u[2]>> /\ u[1] \in Robots /\ u[2] \in Nat
                   /\ Len(p.steps[u[1]]) \in Nat
                   /\ u[2] + 1 \in 1 .. Len(p.steps[u[1]]) /\ u[2] + 2 \in 1 .. Len(p.steps[u[1]])
                   /\ p.steps[u[1]][u[2] + 1] = a /\ p.steps[u[1]][u[2] + 2] = b
  <2> SUFFICES ASSUME NEW u \in U
               PROVE  /\ u = <<u[1], u[2]>> /\ u[1] \in Robots /\ u[2] \in Nat
                      /\ Len(p.steps[u[1]]) \in Nat
                      /\ u[2] + 1 \in 1 .. Len(p.steps[u[1]])
                      /\ u[2] + 2 \in 1 .. Len(p.steps[u[1]])
                      /\ p.steps[u[1]][u[2] + 1] = a /\ p.steps[u[1]][u[2] + 2] = b
    OBVIOUS
  <2>1. u \in Segments(p) /\ From(p, u) = a /\ To(p, u) = b
    BY DEF Users
  <2>2. PICK r \in Robots : \E k \in 0 .. Len(p.steps[r]) - 2 : u = <<r, k>>
    BY <2>1, SegmentsMember
  <2>3. PICK k \in 0 .. Len(p.steps[r]) - 2 : u = <<r, k>>
    BY <2>2
  <2>4. Len(p.steps[r]) \in Nat
    BY DEF PlanRecords
  <2>5. k \in Nat /\ k + 1 \in 1 .. Len(p.steps[r]) /\ k + 2 \in 1 .. Len(p.steps[r])
    BY <2>4
  <2> QED  BY <2>1, <2>3, <2>4, <2>5 DEF From, To
<1>2. DOMAIN p.visits \subseteq Int
  BY DEF PlanRecords
<1>3. ASSUME NEW back \in {0, 1}, NEW v, \A u \in U : p.steps[u[1]][u[2] + back + 1] = v
      PROVE  AllVisit(p, U, v, VisitsAt(p, v), back)
  <2>1. \A u, w \in U :
           u[1] # w[1]
           => \E e \in DOMAIN p.visits :
                 /\ p.visits[e].location = v
                 /\ \E m : Stands(p.visits[e].sequence, m, u[1], u[2] + back)
    <3> SUFFICES ASSUME NEW u \in U, NEW w \in U, u[1] # w[1]
                 PROVE  \E e \in DOMAIN p.visits :
                           /\ p.visits[e].location = v
                           /\ \E m : Stands(p.visits[e].sequence, m, u[1], u[2] + back)
      OBVIOUS
    <3>1. PICK i \in 1 .. Len(p.steps[u[1]]), j \in 1 .. Len(p.steps[w[1]]) :
             i = u[2] + back + 1 /\ j = w[2] + back + 1 /\ i - 1 = u[2] + back
      BY <1>1
    <3>2. p.steps[u[1]][i] = v /\ p.steps[w[1]][j] = v
      BY <1>3, <3>1
    <3>3. \E e \in DOMAIN p.visits :
             /\ p.visits[e].location = p.steps[u[1]][i]
             /\ \E m : Stands(p.visits[e].sequence, m, u[1], i - 1)
      BY <1>1, <3>2, SharedEntry
    <3> QED  BY <3>1, <3>2, <3>3
  <2>2. PICK e \in DOMAIN p.visits : p.visits[e].location = v
    BY <2>1 DEF Contended
  <2>3. Listed(p, v) /\ VisitsAt(p, v) = p.visits[e].sequence
    BY <1>2, <2>2, VisitsOfEntry
  <2>4. ASSUME NEW u \in U PROVE \E m : Stands(VisitsAt(p, v), m, u[1], u[2] + back)
    <3>1. PICK w \in U : u[1] # w[1]
      BY DEF Contended
    <3>2. PICK g \in DOMAIN p.visits :
             /\ p.visits[g].location = v
             /\ \E m : Stands(p.visits[g].sequence, m, u[1], u[2] + back)
      BY <2>1, <3>1
    <3>3. g = e
      BY <2>2, <3>2 DEF OneEntryEach
    <3> QED  BY <2>3, <3>2, <3>3
  <2> QED  BY <2>3, <2>4 DEF AllVisit
<1>4. \A u \in U : u[2] + 0 + 1 = u[2] + 1 /\ u[2] + 1 + 1 = u[2] + 2
  BY <1>1
<1>5. AllVisit(p, U, a, VisitsAt(p, a), 0)
  BY <1>1, <1>3, <1>4
<1>6. AllVisit(p, U, b, VisitsAt(p, b), 1)
  BY <1>1, <1>3, <1>4
<1> QED  BY <1>5, <1>6

\* the segment position m of s stands for, and the positions that stand for
\* segments of U
Item(s, m, back)  == <<s[m].robot, s[m].index - back>>
Mine(s, U, back)  == {m \in DOMAIN s : Item(s, m, back) \in U}

(* What the H-cons check compares: segments, arranged by position.         *)
LEMMA RestrictedIs ==
    ASSUME NEW p, NEW v, NEW U, NEW back, NEW s, s = VisitsAt(p, v),
           NEW M, M = Mine(s, U, back), Cardinality(M) \in Nat
    PROVE  Restricted(p, v, U, back)
             = [k \in 1 .. Cardinality(M) |-> Item(s, Arranged(M, Upwards(M))[k], back)]
<1>1. DOMAIN Arranged(M, Upwards(M)) = 1 .. Cardinality(M)
  BY DEF Arranged
<1>2. Restricted(p, v, U, back)
        = [k \in DOMAIN Arranged(M, Upwards(M)) |-> Item(s, Arranged(M, Upwards(M))[k], back)]
  BY DEF Restricted, Mine, Item, Upwards
<1> QED  BY <1>1, <1>2

(* A plan that passes and lists its visits gives the robots of every edge  *)
(* one order at both ends: the server's H-cons intake accepts it.          *)
THEOREM ChecksKeepOneOrder ==
    ASSUME NEW p \in PlanRecords, Passes(p), ListsVisits(p), OneEntryEach(p)
    PROVE  HconsOk(p)
<1> SUFFICES ASSUME NEW a \in Vertices, NEW b \in Vertices, Contended(Users(p, a, b))
             PROVE  /\ Listed(p, a) /\ Listed(p, b)
                    /\ Restricted(p, a, Users(p, a, b), 0) = Restricted(p, b, Users(p, a, b), 1)
  BY DEF HconsOk, Contended
<1> DEFINE U == Users(p, a, b)
           sa == VisitsAt(p, a)
           sb == VisitsAt(p, b)
           M == Mine(sa, U, 0)
           N == Mine(sb, U, 1)
<1>1. AllVisit(p, U, a, sa, 0) /\ AllVisit(p, U, b, sb, 1)
  BY UsersListed
<1>2. VisitsAreSteps(p) /\ PathOrdered(p)
  BY DEF ListsVisits
<1>3. PICK e \in DOMAIN p.visits : sa = p.visits[e].sequence
  BY <1>1 DEF AllVisit
<1>4. PICK f \in DOMAIN p.visits : sb = p.visits[f].sequence
  BY <1>1 DEF AllVisit
<1>5. \A u \in U : u \in Segments(p) /\ \E r \in Robots : \E k \in Nat : u = <<r, k>>
  <2>1. \A u \in U : u \in Segments(p)
    BY DEF Users
  <2> QED  BY <2>1, SegmentsMember
<1> HIDE DEF U, sa, sb
<1>6. /\ Len(sa) \in Nat /\ DOMAIN sa = 1 .. Len(sa)
      /\ Len(sb) \in Nat /\ DOMAIN sb = 1 .. Len(sb)
      /\ \A m \in 1 .. Len(sa) : sa[m].index \in Nat
      /\ \A m \in 1 .. Len(sb) : sb[m].index \in Nat
  BY <1>2, <1>3, <1>4, VisitsNumbered
<1>7. \A m, n \in 1 .. Len(sb) :
         m < n /\ sb[m].robot = sb[n].robot => sb[m].index < sb[n].index
  BY <1>2, <1>4, VisitsNumbered
\* a position is the visit of a user
<1>8. \A m \in M : /\ m \in 1 .. Len(sa) /\ Item(sa, m, 0) \in U
                   /\ \A r, k : Item(sa, m, 0) = <<r, k>> => Stands(sa, m, r, k)
  <2> SUFFICES ASSUME NEW m \in M
               PROVE  /\ m \in 1 .. Len(sa) /\ Item(sa, m, 0) \in U
                      /\ \A r, k : Item(sa, m, 0) = <<r, k>> => Stands(sa, m, r, k)
    OBVIOUS
  <2>1. m \in 1 .. Len(sa) /\ Item(sa, m, 0) \in U
    BY <1>6 DEF Mine
  <2>2. sa[m].index - 0 = sa[m].index
    BY <1>6, <2>1
  <2> QED  BY <2>1, <2>2 DEF Item, Stands
<1>9. \A n \in N : /\ n \in 1 .. Len(sb) /\ Item(sb, n, 1) \in U
                   /\ \A r, k : Item(sb, n, 1) = <<r, k>> => Stands(sb, n, r, k + 1)
  <2> SUFFICES ASSUME NEW n \in N
               PROVE  /\ n \in 1 .. Len(sb) /\ Item(sb, n, 1) \in U
                      /\ \A r, k : Item(sb, n, 1) = <<r, k>> => Stands(sb, n, r, k + 1)
    OBVIOUS
  <2>1. n \in 1 .. Len(sb) /\ Item(sb, n, 1) \in U
    BY <1>6 DEF Mine
  <2>2. (sb[n].index - 1) + 1 = sb[n].index
    BY <1>6, <2>1
  <2> QED  BY <2>1, <2>2 DEF Item, Stands
<1>10. \A u \in U : \E m \in M : Item(sa, m, 0) = u
  <2> SUFFICES ASSUME NEW u \in U PROVE \E m \in M : Item(sa, m, 0) = u
    OBVIOUS
  <2>1. PICK r \in Robots, k \in Nat : u = <<r, k>>
    BY <1>5
  <2>2. PICK m : Stands(sa, m, u[1], u[2] + 0)
    BY <1>1 DEF AllVisit
  <2>3. m \in 1 .. Len(sa) /\ Item(sa, m, 0) = u
    BY <2>1, <2>2 DEF Stands, Item
  <2> QED  BY <1>6, <2>3 DEF Mine
<1>11. \A u \in U : \E n \in N : Item(sb, n, 1) = u
  <2> SUFFICES ASSUME NEW u \in U PROVE \E n \in N : Item(sb, n, 1) = u
    OBVIOUS
  <2>1. PICK r \in Robots, k \in Nat : u = <<r, k>>
    BY <1>5
  <2>2. PICK n : Stands(sb, n, u[1], u[2] + 1)
    BY <1>1 DEF AllVisit
  <2>3. (k + 1) - 1 = k
    OBVIOUS
  <2>4. n \in 1 .. Len(sb) /\ Item(sb, n, 1) = u
    BY <2>1, <2>2, <2>3 DEF Stands, Item
  <2> QED  BY <1>6, <2>4 DEF Mine
<1>12. \A m, n \in N : Item(sb, m, 1) = Item(sb, n, 1) => m = n
  <2> SUFFICES ASSUME NEW m \in N, NEW n \in N, Item(sb, m, 1) = Item(sb, n, 1)
               PROVE  m = n
    OBVIOUS
  <2>1. PICK r \in Robots, k \in Nat : Item(sb, m, 1) = <<r, k>>
    BY <1>5, <1>9
  <2>2. Stands(sb, m, r, k + 1) /\ Stands(sb, n, r, k + 1)
    BY <1>9, <2>1
  <2>3. ~(m < n) /\ ~(n < m) /\ m \in Int /\ n \in Int
    BY <1>6, <1>7, <2>2 DEF Stands
  <2> QED  BY <2>3
<1> DEFINE g == [m \in M |-> CHOOSE n \in N : Item(sb, n, 1) = Item(sa, m, 0)]
<1>13. \A m \in M : g[m] \in N /\ Item(sb, g[m], 1) = Item(sa, m, 0)
  <2> SUFFICES ASSUME NEW m \in M PROVE g[m] \in N /\ Item(sb, g[m], 1) = Item(sa, m, 0)
    OBVIOUS
  <2>1. \E n \in N : Item(sb, n, 1) = Item(sa, m, 0)
    BY <1>8, <1>11
  <2> HIDE DEF N
  <2> QED  BY <2>1
<1>14. g \in [M -> N]
  BY <1>13
<1> HIDE DEF g, M, N
<1>15. \A m, n \in M : m < n => g[m] < g[n]
  <2> SUFFICES ASSUME NEW m \in M, NEW n \in M, m < n PROVE g[m] < g[n]
    OBVIOUS
  <2>1. PICK r \in Robots, i \in Nat : Item(sa, m, 0) = <<r, i>> /\ <<r, i>> \in Segments(p)
    BY <1>5, <1>8
  <2>2. PICK t \in Robots, j \in Nat : Item(sa, n, 0) = <<t, j>> /\ <<t, j>> \in Segments(p)
    BY <1>5, <1>8
  <2>3. /\ Stands(sa, m, r, i) /\ Stands(sa, n, t, j)
        /\ Stands(sb, g[m], r, i + 1) /\ Stands(sb, g[n], t, j + 1)
    BY <1>8, <1>9, <1>13, <2>1, <2>2
  <2> QED  BY <1>3, <1>4, <2>1, <2>2, <2>3, EdgeOrder
<1>16. /\ \A m \in M : m \in Int
       /\ \A n \in N : n \in Int
  BY <1>6, <1>8, <1>9
<1>17. \A m, n \in M : m # n => ~(g[m] < g[n] /\ g[n] < g[m]) /\ (m < n \/ n < m) /\ g[m] # g[n]
  <2> SUFFICES ASSUME NEW m \in M, NEW n \in M, m # n
               PROVE  ~(g[m] < g[n] /\ g[n] < g[m]) /\ (m < n \/ n < m) /\ g[m] # g[n]
    OBVIOUS
  <2>1. g[m] \in Int /\ g[n] \in Int /\ m \in Int /\ n \in Int
    BY <1>13, <1>16
  <2>2. m < n \/ n < m
    BY <2>1
  <2>3. g[m] < g[n] \/ g[n] < g[m]
    BY <1>15, <2>2
  <2> QED  BY <2>1, <2>2, <2>3
<1>18. \A m, n \in M : n < m <=> g[n] < g[m]
  <2> SUFFICES ASSUME NEW m \in M, NEW n \in M PROVE n < m <=> g[n] < g[m]
    OBVIOUS
  <2>1. g[m] \in Int /\ g[n] \in Int /\ m \in Int /\ n \in Int
    BY <1>13, <1>16
  <2>2. CASE m = n
    BY <2>1, <2>2
  <2>3. CASE m # n
    BY <1>15, <1>17, <2>3
  <2> QED  BY <2>2, <2>3
<1>19. g \in Bijection(M, N)
  <2>1. \A m, n \in M : g[m] = g[n] => m = n
    BY <1>17
  <2>2. \A n \in N : \E m \in M : g[m] = n
    <3> SUFFICES ASSUME NEW n \in N PROVE \E m \in M : g[m] = n
      OBVIOUS
    <3>1. PICK m \in M : Item(sa, m, 0) = Item(sb, n, 1)
      BY <1>9, <1>10
    <3> QED  BY <1>12, <1>13, <3>1
  <2> QED  BY <1>14, <2>1, <2>2, Fun_IsBij
<1>20. /\ IsFiniteSet(M) /\ StrictOrder(M, Upwards(M))
       /\ IsFiniteSet(N) /\ StrictOrder(N, Upwards(N))
  <2>1. M \in SUBSET (1 .. Len(sa)) /\ N \in SUBSET (1 .. Len(sb))
    BY <1>8, <1>9
  <2> QED  BY <1>6, <2>1, NumbersInOrder
<1>21. \A x, y \in M : y \in Upwards(M)[x] <=> g[y] \in Upwards(N)[g[x]]
  BY <1>13, <1>18 DEF Upwards
<1>22. /\ Cardinality(N) = Cardinality(M)
       /\ \A k \in 1 .. Cardinality(M) :
             Arranged(N, Upwards(N))[k] = g[Arranged(M, Upwards(M))[k]]
  BY <1>19, <1>20, <1>21, ArrangedAlike
<1>23. Cardinality(M) \in Nat
  BY <1>20, FS_CardinalityType
<1>24. \A k \in 1 .. Cardinality(M) : Arranged(M, Upwards(M))[k] \in M
  BY <1>20, ArrangedSorts DEF Sorts
<1>25. /\ Restricted(p, a, U, 0)
            = [k \in 1 .. Cardinality(M) |-> Item(sa, Arranged(M, Upwards(M))[k], 0)]
       /\ Restricted(p, b, U, 1)
            = [k \in 1 .. Cardinality(N) |-> Item(sb, Arranged(N, Upwards(N))[k], 1)]
  <2>1. M = Mine(sa, U, 0) /\ N = Mine(sb, U, 1) /\ sa = VisitsAt(p, a) /\ sb = VisitsAt(p, b)
    BY DEF M, N, sa, sb
  <2> QED  BY <1>22, <1>23, <2>1, RestrictedIs
<1>26. Restricted(p, a, U, 0) = Restricted(p, b, U, 1)
  <2>1. \A k \in 1 .. Cardinality(M) :
           Item(sb, Arranged(N, Upwards(N))[k], 1) = Item(sa, Arranged(M, Upwards(M))[k], 0)
    BY <1>13, <1>22, <1>24
  <2> QED  BY <1>22, <1>25, <2>1
<1>27. Listed(p, a) /\ Listed(p, b)
  BY <1>1 DEF AllVisit
<1> QED  BY <1>26, <1>27 DEF U

(* What the planner checked and listed, every location once, compiles, and *)
(* the graph the server draws from it is executed in order: neither the    *)
(* H-cons intake nor the seam self-check ever turns such a plan away.      *)
THEOREM ChecksCompile ==
    ASSUME NEW p \in PlanRecords, Passes(p), ListsVisits(p), OneEntryEach(p)
    PROVE  Outcome(p) = "ok" /\ WellFormed(p) /\ CrossingsOrdered(p)
BY ChecksKeepOneOrder, ChecksMeetContract, ChecksOrderCrossings
=============================================================================

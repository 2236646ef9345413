--------------------------- MODULE SadgCompiler ---------------------------
(***************************************************************************)
(* The constraint compiler of mrs_sadg: from a discrete plan (the paths of *)
(* the robots and, for every shared location, the order of the visits) to  *)
(* the segments and the dependencies of the execution graph.               *)
(*                                                                         *)
(* A plan p is a record:                                                   *)
(*   p.steps[r]   the locations robot r goes through; <<>> when the plan   *)
(*                does not name r (steps[k].location is p.steps[r][k+1])   *)
(*   p.visits     the visit_order entries, in message order; an entry has  *)
(*                a location and the sequence of its visits, items         *)
(*                [robot, index]                                           *)
(* The segment "{robot}#{k}" is the pair <<robot, k>>, k counted from 0.   *)
(***************************************************************************)
EXTENDS Integers, Sequences, FiniteSets

CONSTANTS Robots, Vertices

VisitItems == [robot : Robots, index : Nat]

PlanRecords == [steps  : [Robots -> Seq(Vertices)],
                visits : Seq([location : Vertices, sequence : Seq(VisitItems)])]

\* the elements of a finite set in order, when before[x] are those before x
Arranged(S, before) ==
    [k \in 1 .. Cardinality(S) |-> CHOOSE x \in S : Cardinality(before[x]) = k - 1]

-----------------------------------------------------------------------------
(* Segments (IN04-IN06) and the sequential chain (IN07). *)

Segments(p) ==
    UNION {{<<r, k>> : k \in 0 .. Len(p.steps[r]) - 2} : r \in Robots}

From(p, seg) == p.steps[seg[1]][seg[2] + 1]
To(p, seg)   == p.steps[seg[1]][seg[2] + 2]

SequentialDeps(p) ==
    UNION {{<< <<r, k>>, <<r, k + 1>> >> : k \in 0 .. Len(p.steps[r]) - 3} :
               r \in Robots}

-----------------------------------------------------------------------------
(* H-cons: robots that share a directed edge keep one order at both ends.  *)

Users(p, a, b) == {seg \in Segments(p) : From(p, seg) = a /\ To(p, seg) = b}

\* the visit sequence the map keeps for a location: the last entry wins
VisitsAt(p, v) ==
    LET entries == {e \in DOMAIN p.visits : p.visits[e].location = v}
    IN  p.visits[CHOOSE e \in entries : \A f \in entries : f <= e].sequence

Listed(p, v) == \E e \in DOMAIN p.visits : p.visits[e].location = v

\* the visits of a location by the given segments, back = 0 at the tail of
\* the edge (departure index) and 1 at its head (arrival index shifted back)
Restricted(p, v, users, back) ==
    LET s       == VisitsAt(p, v)
        item(m) == <<s[m].robot, s[m].index - back>>
        mine    == {m \in DOMAIN s : item(m) \in users}
        inOrder == Arranged(mine, [m \in mine |-> {n \in mine : n < m}])
    IN  [k \in DOMAIN inOrder |-> item(inOrder[k])]

HconsOk(p) ==
    \A a, b \in Vertices :
        LET users == Users(p, a, b)
        IN  (\E s, t \in users : s[1] # t[1])
            => /\ Listed(p, a) /\ Listed(p, b)
               /\ Restricted(p, a, users, 0) = Restricted(p, b, users, 1)

-----------------------------------------------------------------------------
(* The generator: one ordering dependency per pair of consecutive visits   *)
(* by different robots, from the segment that leaves the location to the   *)
(* one that enters it.                                                     *)

\* fault: the last pair of visits is forgotten
HandoversShort(p, e) ==
    LET s == p.visits[e].sequence
    IN  {m \in 1 .. Len(s) - 2 : s[m].robot # s[m + 1].robot /\ s[m + 1].index # 0}

Handovers(p, e) ==
    LET s == p.visits[e].sequence
    IN  {m \in 1 .. Len(s) - 1 : s[m].robot # s[m + 1].robot /\ s[m + 1].index # 0}

Dep(p, e, m) ==
    LET s == p.visits[e].sequence
    IN  << <<s[m].robot, s[m].index>>, <<s[m + 1].robot, s[m + 1].index - 1>> >>

\* both segments exist for every dependency of the entry
Generates(p, e) ==
    \A m \in Handovers(p, e) :
        Dep(p, e, m)[1] \in Segments(p) /\ Dep(p, e, m)[2] \in Segments(p)

\* entries are compiled in message order and the first bad one ends the loop
CompiledEntries(p) == {e \in DOMAIN p.visits : \A f \in 1 .. e : Generates(p, f)}

OrderingDeps(p) ==
    UNION {{Dep(p, e, m) : m \in Handovers(p, e)} : e \in CompiledEntries(p)}

\* the two segments cross one edge in opposite directions
IsOpposing(p, d) == From(p, d[2]) = To(p, d[1])

-----------------------------------------------------------------------------
(* The seam self-check that closes a compilation (IN14).                   *)

ExpectedOrdering(p) ==
    UNION {{Dep(p, e, m) : m \in {n \in Handovers(p, e) :
                                     /\ Dep(p, e, n)[1] \in Segments(p)
                                     /\ Dep(p, e, n)[2] \in Segments(p)}} :
               e \in DOMAIN p.visits}

ExpectedChain(p) ==
    {d \in Segments(p) \X Segments(p) : d[1][1] = d[2][1] /\ d[2][2] = d[1][2] + 1}

SeamSelfCheck(p, g) ==
    /\ \A r \in Robots : \A k \in 0 .. Len(p.steps[r]) - 2 : <<r, k>> \in g.segments
    /\ g.sequential = ExpectedChain(p)
    /\ g.ordering = ExpectedOrdering(p)
    /\ HconsOk(p)

-----------------------------------------------------------------------------
(* ConstraintCompiler::compile: the graph it leaves behind, also when it   *)
(* fails, and its outcome.                                                 *)

EmptyGraph == [segments |-> {}, sequential |-> {}, ordering |-> {}, opposing |-> {}]

CompiledGraph(p) ==
    IF HconsOk(p)
    THEN [segments   |-> Segments(p),
          sequential |-> SequentialDeps(p),
          ordering   |-> OrderingDeps(p),
          opposing   |-> {d \in OrderingDeps(p) : IsOpposing(p, d)}]
    ELSE EmptyGraph

Outcome(p) ==
    CASE ~HconsOk(p)                             -> "hcons_violation"
      [] HconsOk(p) /\ CompiledEntries(p) # DOMAIN p.visits
                                                 -> "malformed_plan"
      [] HconsOk(p) /\ CompiledEntries(p) = DOMAIN p.visits
                    /\ ~SeamSelfCheck(p, CompiledGraph(p))
                                                 -> "seam_inconsistent"
      [] OTHER                                   -> "ok"

-----------------------------------------------------------------------------
(* What mrs.discrete_plan promises of a plan, as far as exclusion needs it. *)

\* every robot stands somewhere, and two robots that visit one location
\* have their visits in one entry
CoversSharedVisits(p) ==
    /\ \A r \in Robots : Len(p.steps[r]) >= 1
    /\ \A r, s \in Robots :
          \A i \in 1 .. Len(p.steps[r]), j \in 1 .. Len(p.steps[s]) :
             r # s /\ p.steps[r][i] = p.steps[s][j]
             => \E e \in DOMAIN p.visits :
                   \E m, n \in DOMAIN p.visits[e].sequence :
                      /\ p.visits[e].sequence[m] = [robot |-> r, index |-> i - 1]
                      /\ p.visits[e].sequence[n] = [robot |-> s, index |-> j - 1]

\* one robot's visits come in path order, and a visit at a start is first
OrderedVisits(p) ==
    \A e \in DOMAIN p.visits :
        LET s == p.visits[e].sequence
        IN  \A m \in 1 .. Len(s) - 1 :
               IF s[m].robot = s[m + 1].robot
               THEN s[m].index < s[m + 1].index
               ELSE s[m + 1].index # 0

WellFormed(p) == CoversSharedVisits(p) /\ OrderedVisits(p)

\* in one entry, r's visit at index i comes before s's visit at index j
VisitBefore(p, r, i, s, j) ==
    \E e \in DOMAIN p.visits :
        \E m, n \in DOMAIN p.visits[e].sequence :
            /\ m < n
            /\ p.visits[e].sequence[m] = [robot |-> r, index |-> i]
            /\ p.visits[e].sequence[n] = [robot |-> s, index |-> j]

\* of two robots that cross one edge in opposite directions, one visits its
\* far end before the other does
CrossingsOrdered(p) ==
    \A r, s \in Robots :
        \A i \in 1 .. Len(p.steps[r]) - 1, j \in 1 .. Len(p.steps[s]) - 1 :
           /\ r # s
           /\ p.steps[r][i] = p.steps[s][j + 1]
           /\ p.steps[r][i + 1] = p.steps[s][j]
           => VisitBefore(p, r, i, s, j - 1) \/ VisitBefore(p, s, j, r, i - 1)
=============================================================================

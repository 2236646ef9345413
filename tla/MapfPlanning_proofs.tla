------------------------ MODULE MapfPlanning_proofs ------------------------
(***************************************************************************)
(* Theorems about MapfPlanning, for every fleet, roadmap, sequence of      *)
(* assignments and search: what is published comes from the robots' frozen *)
(* positions, and, unless a goal carries the order of an older plan, the   *)
(* server's compiler accepts it.  A draft's visit order is an arrangement  *)
(* of the visits of the timed paths, by the time of the visit.             *)
(***************************************************************************)
EXTENDS MapfPlanning, PlanSelfChecks_proofs

(* What build_visit_order is given: for every robot a path and the times   *)
(* of arrival along it, which grow.                                        *)

TimedPath(w) ==
    /\ w.steps \in Seq(Vertices) /\ Len(w.steps) \in Nat \ {0}
    /\ \A i \in 1 .. Len(w.steps) : w.arrival[i] \in Nat
    /\ \A i, j \in 1 .. Len(w.steps) : i < j => w.arrival[i] < w.arrival[j]

Timed(c) == \A r \in Robots : TimedPath(c[r])

(* What grows from each number to the next grows.                          *)
LEMMA StepwiseGrows ==
    ASSUME NEW n \in Nat, NEW t, \A i \in 1 .. n : t[i] \in Nat,
           \A i \in 1 .. n - 1 : t[i] < t[i + 1]
    PROVE  \A i, j \in 1 .. n : i < j => t[i] < t[j]
<1> SUFFICES ASSUME NEW i \in 1 .. n, NEW j0 \in 1 .. n, i < j0, ~(t[i] < t[j0])
             PROVE  FALSE
  OBVIOUS
<1> DEFINE Bad == {j \in 1 .. n : i < j /\ ~(t[i] < t[j])}
<1>1. Bad \in SUBSET Nat /\ Bad # {}
  BY j0 \in Bad
<1>2. PICK j \in Bad : \A k \in Bad : j <= k
  BY <1>1, LeastNatural
<1>3. j \in 1 .. n /\ i < j /\ ~(t[i] < t[j])
  BY <1>2
<1>4. j - 1 \in 1 .. n - 1 /\ j - 1 \in 1 .. n /\ (j - 1) + 1 = j
  BY <1>3
<1>5. t[j - 1] < t[j]
  BY <1>4
<1>6. CASE j - 1 = i
  BY <1>3, <1>5, <1>6
<1>7. CASE j - 1 # i
  <2>1. j - 1 \notin Bad
    BY <1>2, <1>3
  <2>2. t[i] < t[j - 1]
    BY <1>3, <1>4, <1>7, <2>1
  <2> QED  BY <1>3, <1>4, <1>5, <2>2
<1> QED  BY <1>6, <1>7

(* What the safe-interval search returns is a path with growing times.     *)
LEMMA SearchIsTimed ==
    ASSUME NEW v \in Vertices, NEW w \in SearchedFrom[v]
    PROVE  TimedPath(w)
<1>1. PICK u \in {x \in Walks : x[1] = v} :
         w \in {[steps |-> u, arrival |-> t] : t \in Schedules(Len(u))}
  BY DEF SearchedFrom
<1>2. PICK t \in Schedules(Len(u)) : w = [steps |-> u, arrival |-> t]
  BY <1>1
<1>3. PICK n \in 1 .. MaxSteps : u \in [1 .. n -> Vertices]
  BY <1>1 DEF Walks
<1>4. u \in Seq(Vertices) /\ Len(u) = n /\ n \in Nat \ {0}
  BY <1>3, BoundsAssumption
<1>5. /\ t \in [1 .. n -> 0 .. n * (MaxWait + 1)]
      /\ \A i \in 1 .. n - 1 : t[i + 1] - t[i] \in 1 .. MaxWait + 1
  BY <1>2, <1>4 DEF Schedules
<1>6. n * (MaxWait + 1) \in Nat
  BY <1>4, BoundsAssumption
<1>7. \A i \in 1 .. n : t[i] \in Nat
  BY <1>5, <1>6
<1>8. \A i \in 1 .. n - 1 : t[i] < t[i + 1]
  <2> SUFFICES ASSUME NEW i \in 1 .. n - 1 PROVE t[i] < t[i + 1]
    OBVIOUS
  <2>1. i \in 1 .. n /\ i + 1 \in 1 .. n
    BY <1>4
  <2>2. t[i + 1] - t[i] >= 1 /\ t[i] \in Nat /\ t[i + 1] \in Nat
    BY <1>5, <1>7, <2>1, BoundsAssumption
  <2> QED  BY <2>2
<1>9. \A i, j \in 1 .. n : i < j => t[i] < t[j]
  BY <1>4, <1>7, <1>8, StepwiseGrows
<1> QED  BY <1>2, <1>4, <1>7, <1>9 DEF TimedPath

(* So is a path walked without waiting.                                    *)
LEMMA WaitlessIsTimed ==
    ASSUME NEW s \in Seq(Vertices), Len(s) # 0
    PROVE  TimedPath(Waitless(s))
<1>1. Len(s) \in Nat \ {0} /\ DOMAIN s = 1 .. Len(s)
  OBVIOUS
<1>2. /\ Waitless(s).steps = s
      /\ \A i \in 1 .. Len(s) : Waitless(s).arrival[i] = i - 1
  BY <1>1 DEF Waitless
<1>3. \A i \in 1 .. Len(s) : i - 1 \in Nat
  BY <1>1
<1>4. \A i, j \in 1 .. Len(s) : i < j => i - 1 < j - 1
  BY <1>1
<1> QED  BY <1>1, <1>2, <1>3, <1>4 DEF TimedPath

-----------------------------------------------------------------------------
\* when a visit begins
TimeOf(c, it) == c[it.robot].arrival[it.index + 1]

(* The visits of a location are the steps of the paths that lie on it.     *)
LEMMA VisitorsAre ==
    ASSUME NEW c, Timed(c), NEW v, NEW x
    PROVE  x \in Visitors(c, v)
           <=> \E r \in Robots : \E i \in 1 .. Len(c[r].steps) :
                  x = [robot |-> r, index |-> i - 1] /\ c[r].steps[i] = v
<1>1. \A r \in Robots : Len(c[r].steps) \in Nat /\ DOMAIN c[r].steps = 1 .. Len(c[r].steps)
  BY DEF Timed, TimedPath
<1>2. \A r \in Robots : \A i \in 1 .. Len(c[r].steps) : (i - 1) + 1 = i
  BY <1>1
<1>3. ASSUME NEW r \in Robots, NEW i \in 1 .. Len(c[r].steps), x = [robot |-> r, index |-> i - 1]
      PROVE  c[x.robot].steps[x.index + 1] = c[r].steps[i]
  <2>1. x.robot = r /\ x.index + 1 = (i - 1) + 1
    BY <1>3
  <2> QED  BY <1>2, <2>1
<1>4. x \in Visitors(c, v) =>
         \E r \in Robots : \E i \in 1 .. Len(c[r].steps) :
            x = [robot |-> r, index |-> i - 1] /\ c[r].steps[i] = v
  <2> SUFFICES ASSUME x \in Visitors(c, v)
               PROVE  \E r \in Robots : \E i \in 1 .. Len(c[r].steps) :
                         x = [robot |-> r, index |-> i - 1] /\ c[r].steps[i] = v
    OBVIOUS
  <2>1. PICK r \in Robots : \E i \in DOMAIN c[r].steps : x = [robot |-> r, index |-> i - 1]
    BY DEF Visitors
  <2>2. PICK i \in 1 .. Len(c[r].steps) : x = [robot |-> r, index |-> i - 1]
    BY <1>1, <2>1
  <2>3. c[x.robot].steps[x.index + 1] = v
    BY DEF Visitors
  <2> QED  BY <1>3, <2>2, <2>3
<1>5. ASSUME NEW r \in Robots, NEW i \in 1 .. Len(c[r].steps),
             x = [robot |-> r, index |-> i - 1], c[r].steps[i] = v
      PROVE  x \in Visitors(c, v)
  <2>1. c[x.robot].steps[x.index + 1] = v
    BY <1>3, <1>5
  <2>2. x \in {[robot |-> r, index |-> k - 1] : k \in DOMAIN c[r].steps}
    BY <1>1, <1>5
  <2> QED  BY <2>1, <2>2 DEF Visitors
<1> QED  BY <1>4, <1>5

(* A visit is a step of the path of its robot, at a time.                  *)
LEMMA VisitorType ==
    ASSUME NEW c, Timed(c), NEW v, NEW x \in Visitors(c, v)
    PROVE  /\ x \in VisitItems /\ x = [robot |-> x.robot, index |-> x.index]
           /\ x.robot \in Robots /\ x.index \in Nat
           /\ x.index + 1 \in 1 .. Len(c[x.robot].steps)
           /\ x.index \in 0 .. Len(c[x.robot].steps) - 1
           /\ c[x.robot].steps[x.index + 1] = v
           /\ TimeOf(c, x) \in Nat
<1>1. PICK r \in Robots : \E i \in 1 .. Len(c[r].steps) :
                             x = [robot |-> r, index |-> i - 1] /\ c[r].steps[i] = v
  BY VisitorsAre
<1>2. PICK i \in 1 .. Len(c[r].steps) : x = [robot |-> r, index |-> i - 1] /\ c[r].steps[i] = v
  BY <1>1
<1>3. Len(c[r].steps) \in Nat /\ c[r].arrival[i] \in Nat
  BY DEF Timed, TimedPath
<1>4. i - 1 \in Nat /\ i - 1 \in 0 .. Len(c[r].steps) - 1 /\ (i - 1) + 1 = i
  BY <1>3
<1>5. x.robot = r /\ x.index = i - 1
  BY <1>2
<1>6. x.index + 1 = i
  BY <1>4, <1>5
<1>7. x \in VisitItems /\ x = [robot |-> x.robot, index |-> x.index]
  BY <1>2, <1>4 DEF VisitItems
<1> QED  BY <1>2, <1>3, <1>4, <1>5, <1>6, <1>7 DEF TimeOf

(* Finitely many robots make finitely many visits.                         *)
AllVisits(c) ==
    UNION {{[robot |-> r, index |-> i - 1] : i \in DOMAIN c[r].steps} : r \in Robots}

(* A finite fleet visits a location finitely often.                        *)
LEMMA FiniteVisits ==
    ASSUME NEW c, Timed(c)
    PROVE  IsFiniteSet(AllVisits(c)) /\ \A v : IsFiniteSet(Visitors(c, v))
<1> DEFINE ByRobot == [r \in Robots |-> {[robot |-> r, index |-> i - 1] : i \in DOMAIN c[r].steps}]
           Each == {{[robot |-> r, index |-> i - 1] : i \in DOMAIN c[r].steps} : r \in Robots}
<1>1. ByRobot \in Surjection(Robots, Each)
  <2>1. ByRobot \in [Robots -> Each]
    OBVIOUS
  <2>2. \A X \in Each : \E r \in Robots : ByRobot[r] = X
    OBVIOUS
  <2> HIDE DEF ByRobot, Each
  <2> QED  BY <2>1, <2>2, Fun_IsSurj
<1>2. IsFiniteSet(Each)
  <2> HIDE DEF ByRobot, Each
  <2> QED  BY <1>1, RosterAssumption, FS_Surjection
<1>3. ASSUME NEW X \in Each PROVE IsFiniteSet(X)
  <2>1. PICK r \in Robots : X = {[robot |-> r, index |-> i - 1] : i \in DOMAIN c[r].steps}
    OBVIOUS
  <2>2. Len(c[r].steps) \in Nat /\ DOMAIN c[r].steps = 1 .. Len(c[r].steps)
    BY DEF Timed, TimedPath
  <2> DEFINE f == [i \in 1 .. Len(c[r].steps) |-> [robot |-> r, index |-> i - 1]]
  <2>3. f \in [1 .. Len(c[r].steps) -> X] /\ \A x \in X : \E i \in 1 .. Len(c[r].steps) : f[i] = x
    BY <2>1, <2>2
  <2>4. IsFiniteSet(1 .. Len(c[r].steps))
    BY <2>2, FS_Interval
  <2> HIDE DEF f, Each
  <2>5. f \in Surjection(1 .. Len(c[r].steps), X)
    BY <2>3, Fun_IsSurj
  <2> QED  BY <2>4, <2>5, FS_Surjection
<1>4. IsFiniteSet(AllVisits(c))
  <2>1. AllVisits(c) = UNION Each
    BY DEF AllVisits
  <2> HIDE DEF Each
  <2> QED  BY <1>2, <1>3, <2>1, FS_UNION
<1>5. ASSUME NEW v PROVE IsFiniteSet(Visitors(c, v))
  <2>1. Visitors(c, v) \in SUBSET AllVisits(c)
    BY DEF Visitors, AllVisits
  <2> QED  BY <1>4, <2>1, FS_Subset
<1> QED  BY <1>4, <1>5

(* So finitely many locations are shared.                                  *)
LEMMA FiniteShared ==
    ASSUME NEW c, Timed(c)
    PROVE  IsFiniteSet(Shared(c))
<1> DEFINE At == [x \in AllVisits(c) |-> c[x.robot].steps[x.index + 1]]
           Visited == {At[x] : x \in AllVisits(c)}
<1>1. At \in Surjection(AllVisits(c), Visited)
  <2>1. At \in [AllVisits(c) -> Visited] /\ \A v \in Visited : \E x \in AllVisits(c) : At[x] = v
    OBVIOUS
  <2> HIDE DEF At, Visited
  <2> QED  BY <2>1, Fun_IsSurj
<1>2. IsFiniteSet(Visited)
  <2> HIDE DEF At, Visited
  <2> QED  BY <1>1, FiniteVisits, FS_Surjection
<1>3. ASSUME NEW v \in Shared(c) PROVE v \in Visited
  <2>1. Visitors(c, v) # {}
    <3>1. Cardinality(Visitors(c, v)) >= 2
      BY DEF Shared
    <3>2. Cardinality({}) = 0
      BY FS_EmptySet
    <3> QED  BY <3>1, <3>2
  <2>2. PICK x \in AllVisits(c) : c[x.robot].steps[x.index + 1] = v
    BY <2>1 DEF Visitors, AllVisits
  <2>3. At[x] = v
    BY <2>2
  <2> QED  BY <2>3
<1> HIDE DEF Visited
<1> QED  BY <1>2, <1>3, FS_Subset

(* Two visits make a location shared.                                      *)
LEMMA TwoVisits ==
    ASSUME NEW c, Timed(c), NEW v \in Vertices,
           NEW x \in Visitors(c, v), NEW y \in Visitors(c, v), x # y
    PROVE  v \in Shared(c)
<1>1. IsFiniteSet(Visitors(c, v))
  BY FiniteVisits
<1>2. {x, y} \in SUBSET Visitors(c, v)
  OBVIOUS
<1>3. Cardinality({x, y}) = 2
  <2>1. IsFiniteSet({x}) /\ Cardinality({x}) = 1
    BY FS_Singleton
  <2>2. Cardinality({x} \cup {y}) = 1 + 1
    BY <2>1, FS_AddElement
  <2>3. {x} \cup {y} = {x, y}
    OBVIOUS
  <2> QED  BY <2>2, <2>3
<1>4. Cardinality(Visitors(c, v)) >= 2
  <2>1. Cardinality({x, y}) <= Cardinality(Visitors(c, v))
    BY <1>1, <1>2, FS_Subset
  <2> QED  BY <1>1, <1>3, <2>1, FS_CardinalityType
<1> QED  BY <1>4 DEF Shared

(* The visits of a location are totally ordered by time, robot and index.  *)
Earlier(c, S) == [x \in S |-> {y \in S : EntersFirst(c, y, x)}]

(* Time, then rank, orders the visits of a location strictly: no robot is  *)
(* on it twice at once.                                                    *)
LEMMA VisitsOrdered ==
    ASSUME NEW c, Timed(c), NEW v
    PROVE  StrictOrder(Visitors(c, v), Earlier(c, Visitors(c, v)))
<1> DEFINE S == Visitors(c, v)
<1>1. \A x \in S : /\ x.robot \in Robots /\ x.index \in Nat /\ TimeOf(c, x) \in Nat
                   /\ Rank[x.robot] \in Nat
                   /\ x = [robot |-> x.robot, index |-> x.index]
  BY VisitorType, RankAssumption
<1>2. \A x, y : EntersFirst(c, x, y)
        <=> \/ TimeOf(c, x) < TimeOf(c, y)
            \/ TimeOf(c, x) = TimeOf(c, y) /\ Rank[x.robot] < Rank[y.robot]
            \/ TimeOf(c, x) = TimeOf(c, y) /\ x.robot = y.robot /\ x.index < y.index
  BY DEF EntersFirst, TimeOf
<1> HIDE DEF S
<1>3. \A x \in S : ~EntersFirst(c, x, x)
  BY <1>1, <1>2
<1>4. ASSUME NEW x \in S, NEW y \in S, NEW z \in S, EntersFirst(c, x, y), EntersFirst(c, y, z)
      PROVE  EntersFirst(c, x, z)
  BY <1>1, <1>2, <1>4
<1>5. ASSUME NEW x \in S, NEW y \in S, x # y
      PROVE  EntersFirst(c, x, y) \/ EntersFirst(c, y, x)
  <2>1. Rank[x.robot] = Rank[y.robot] => x.robot = y.robot
    BY <1>1, RankAssumption
  <2>2. x.robot # y.robot \/ x.index # y.index
    BY <1>1, <1>5
  <2> QED  BY <1>1, <1>2, <2>1, <2>2
<1>6. Earlier(c, S) \in [S -> SUBSET S]
      /\ \A x \in S : Earlier(c, S)[x] = {y \in S : EntersFirst(c, y, x)}
  BY DEF Earlier
<1>7. StrictOrder(S, Earlier(c, S))
  BY <1>3, <1>4, <1>5, <1>6 DEF StrictOrder
<1> QED  BY <1>7 DEF S

(* Without a prefix, the sequence of a location is its visits in that      *)
(* order.                                                                  *)
LEMMA SequencedSorts ==
    ASSUME NEW c, Timed(c), NEW v \in Vertices
    PROVE  Sorts(Sequenced(c, v, NoPrefix), Visitors(c, v), Earlier(c, Visitors(c, v)))
<1> DEFINE S == Visitors(c, v)
           q == Arranged(S, Earlier(c, S))
<1>1. Sorts(q, S, Earlier(c, S))
  BY VisitsOrdered, FiniteVisits, ArrangedSorts
<1>2. Visitors(c, v) \ ToSet(NoPrefix[v]) = S /\ NoPrefix[v] = <<>>
  BY DEF NoPrefix, ToSet
<1>3. Sequenced(c, v, NoPrefix) = <<>> \o q
  BY <1>2 DEF Sequenced, Earlier
<1>4. q \in Seq(S)
  BY <1>1 DEF Sorts
<1> HIDE DEF q
<1>5. <<>> \o q = q
  BY <1>4, ConcatEmptySeq
<1> QED  BY <1>1, <1>3, <1>5 DEF q

(* A finite set is listed, each of its elements once. *)
LEMMA SetToSeqLists ==
    ASSUME NEW S, IsFiniteSet(S), NEW q, q = SetToSeq(S)
    PROVE  /\ Cardinality(S) \in Nat /\ q \in [1 .. Cardinality(S) -> S] /\ q \in Seq(S)
           /\ DOMAIN q = 1 .. Cardinality(S)
           /\ \A i, j \in DOMAIN q : q[i] = q[j] => i = j
           /\ \A x \in S : \E k \in DOMAIN q : q[k] = x
<1> DEFINE n == Cardinality(S)
<1>1. n \in Nat /\ ExistsBijection(1 .. n, S)
  BY FS_CardinalityType
<1>2. PICK f \in Bijection(1 .. n, S) : TRUE
  BY <1>1 DEF ExistsBijection
<1>3. f \in [1 .. n -> S] /\ IsInjective(f)
  <2>1. f \in [1 .. n -> S] /\ \A a, b \in 1 .. n : f[a] = f[b] => a = b
    <3> HIDE DEF n
    <3> QED  BY <1>2, Fun_BijectionProperties
  <2> QED  BY <2>1 DEF IsInjective
<1>4. q \in [1 .. n -> S] /\ IsInjective(q)
  BY <1>3 DEF SetToSeq
<1> HIDE DEF n
<1>5. DOMAIN q = 1 .. n /\ \A i, j \in DOMAIN q : q[i] = q[j] => i = j
  BY <1>4 DEF IsInjective
<1>6. q \in Injection(1 .. n, S)
  BY <1>4, <1>5, Fun_IsInj
<1>7. Cardinality(1 .. n) = n
  BY <1>1, FS_Interval
<1>8. q \in Surjection(1 .. n, S)
  <2>1. Cardinality(1 .. n) = Cardinality(S)
    BY <1>7 DEF n
  <2> QED  BY <1>6, <2>1, FS_Injection
<1>9. \A x \in S : \E k \in 1 .. n : q[k] = x
  <2> DEFINE D == 1 .. n
  <2>1. q \in Surjection(D, S)
    BY <1>8
  <2> HIDE DEF D
  <2>2. \A x \in S : \E k \in D : q[k] = x
    BY <2>1, Fun_SurjectionProperties
  <2> QED  BY <2>2 DEF D
<1>10. q \in Seq(S)
  BY <1>1, <1>4
<1> QED  BY <1>1, <1>4, <1>5, <1>9, <1>10 DEF n

(* The entries a draft may hold.                                           *)
EntriesOf(c) == {Entry(c, v, NoPrefix) : v \in Shared(c)}

(* The visit order of a draft: an entry for every shared location.         *)
LEMMA DraftEntries ==
    ASSUME NEW c, Timed(c), NEW d, d = Draft(c, NoPrefix)
    PROVE  /\ d = [steps |-> d.steps, visits |-> d.visits]
           /\ d.steps = [r \in Robots |-> c[r].steps]
           /\ d.visits \in Seq(EntriesOf(c))
           /\ \A e \in DOMAIN d.visits : \E v \in Shared(c) : d.visits[e] = Entry(c, v, NoPrefix)
           /\ \A v \in Shared(c) : \E e \in DOMAIN d.visits : d.visits[e] = Entry(c, v, NoPrefix)
           /\ \A e, f \in DOMAIN d.visits : d.visits[e] = d.visits[f] => e = f
<1> DEFINE E == EntriesOf(c)
           En == [v \in Shared(c) |-> Entry(c, v, NoPrefix)]
           q == SetToSeq(E)
<1>1. d.steps = [r \in Robots |-> c[r].steps] /\ d.visits = q
      /\ d = [steps |-> d.steps, visits |-> d.visits]
  BY DEF Draft, EntriesOf
<1>2. En \in Surjection(Shared(c), E)
  <2>1. En \in [Shared(c) -> E] /\ \A x \in E : \E v \in Shared(c) : En[v] = x
    BY DEF EntriesOf
  <2> HIDE DEF En, E
  <2> QED  BY <2>1, Fun_IsSurj
<1>3. IsFiniteSet(E)
  <2> HIDE DEF En, E
  <2> QED  BY <1>2, FiniteShared, FS_Surjection
<1> HIDE DEF q
<1>4. /\ q \in [1 .. Cardinality(E) -> E] /\ q \in Seq(E) /\ DOMAIN q = 1 .. Cardinality(E)
      /\ \A i, j \in DOMAIN q : q[i] = q[j] => i = j
      /\ \A x \in E : \E k \in DOMAIN q : q[k] = x
  <2> HIDE DEF E
  <2> QED  BY <1>3, SetToSeqLists DEF q
<1>5. \A e \in DOMAIN q : q[e] \in E
  <2> HIDE DEF E
  <2> QED  BY <1>4
<1>6. \A v \in Shared(c) : Entry(c, v, NoPrefix) \in E
  BY DEF EntriesOf
<1>7. \A e \in DOMAIN q : \E v \in Shared(c) : q[e] = Entry(c, v, NoPrefix)
  BY <1>5 DEF EntriesOf
<1> HIDE DEF E
<1>8. \A v \in Shared(c) : \E e \in DOMAIN q : q[e] = Entry(c, v, NoPrefix)
  BY <1>4, <1>6
<1> QED  BY <1>1, <1>4, <1>7, <1>8 DEF E

(* An entry holds the visits of its location, in the order of entry.       *)
LEMMA EntryHolds ==
    ASSUME NEW c, Timed(c), NEW v \in Vertices, NEW s, s = Entry(c, v, NoPrefix).sequence
    PROVE  /\ Entry(c, v, NoPrefix).location = v
           /\ s \in Seq(VisitItems) /\ Len(s) \in Nat /\ DOMAIN s = 1 .. Len(s)
           /\ \A m \in DOMAIN s : s[m] \in Visitors(c, v)
           /\ \A x \in Visitors(c, v) : \E m \in DOMAIN s : s[m] = x
           /\ \A m, n \in DOMAIN s : m < n => EntersFirst(c, s[m], s[n])
<1>1. Entry(c, v, NoPrefix).location = v /\ s = Sequenced(c, v, NoPrefix)
  BY DEF Entry
<1> DEFINE V == Visitors(c, v)
           B == Earlier(c, V)
<1> HIDE DEF B
<1>2. Sorts(s, V, B)
  BY <1>1, SequencedSorts DEF B
<1>3. V \subseteq VisitItems
  BY VisitorType
<1> HIDE DEF V
<1>4. /\ s \in Seq(V) /\ Len(s) \in Nat /\ DOMAIN s = 1 .. Len(s)
      /\ \A m \in 1 .. Len(s) : s[m] \in V
      /\ \A x \in V : \E m \in 1 .. Len(s) : s[m] = x
      /\ \A m, n \in 1 .. Len(s) : m < n => s[m] \in B[s[n]]
  BY <1>2 DEF Sorts
<1>5. \A x, y \in V : x \in B[y] => EntersFirst(c, x, y)
  BY DEF Earlier, B
<1>6. s \in Seq(VisitItems)
  BY <1>3, <1>4
<1>7. \A m, n \in 1 .. Len(s) : m < n => EntersFirst(c, s[m], s[n])
  BY <1>4, <1>5
<1> QED  BY <1>1, <1>4, <1>6, <1>7 DEF V

(* Of two visits of one robot the earlier one is nearer to its start.      *)
LEMMA FirstIsNearer ==
    ASSUME NEW c, Timed(c), NEW v, NEW x \in Visitors(c, v), NEW y \in Visitors(c, v),
           EntersFirst(c, x, y), x.robot = y.robot
    PROVE  x.index < y.index
<1> DEFINE r == x.robot
<1>1. /\ r \in Robots /\ x.index \in Nat /\ y.index \in Nat
      /\ x.index + 1 \in 1 .. Len(c[r].steps) /\ y.index + 1 \in 1 .. Len(c[r].steps)
      /\ TimeOf(c, x) \in Nat /\ TimeOf(c, y) \in Nat /\ Rank[r] \in Nat
  BY VisitorType, RankAssumption
<1>2. TimeOf(c, x) = c[r].arrival[x.index + 1] /\ TimeOf(c, y) = c[r].arrival[y.index + 1]
  BY DEF TimeOf
<1>3. \/ TimeOf(c, x) < TimeOf(c, y)
      \/ TimeOf(c, x) = TimeOf(c, y) /\ Rank[r] < Rank[r]
      \/ TimeOf(c, x) = TimeOf(c, y) /\ x.index < y.index
  BY DEF EntersFirst, TimeOf
<1>4. \A i, j \in 1 .. Len(c[r].steps) : i < j => c[r].arrival[i] < c[r].arrival[j]
  BY <1>1 DEF Timed, TimedPath
<1> HIDE DEF r
<1>5. CASE TimeOf(c, x) < TimeOf(c, y)
  <2>1. ~(y.index + 1 < x.index + 1)
    <3>1. y.index + 1 < x.index + 1 => TimeOf(c, y) < TimeOf(c, x)
      BY <1>1, <1>2, <1>4
    <3> QED  BY <1>1, <1>5, <3>1
  <2>2. x.index # y.index
    BY <1>1, <1>2, <1>5
  <2> QED  BY <1>1, <2>1, <2>2
<1> QED  BY <1>1, <1>3, <1>5

(* A draft of the whole fleet is a plan that lists its visits.             *)
LEMMA DraftLists ==
    ASSUME NEW c, Timed(c), NEW d, d = Draft(c, NoPrefix)
    PROVE  d \in PlanRecords /\ ListsVisits(d) /\ OneEntryEach(d)
<1>1. /\ d = [steps |-> d.steps, visits |-> d.visits]
      /\ d.steps = [r \in Robots |-> c[r].steps]
      /\ d.visits \in Seq(EntriesOf(c))
      /\ \A e \in DOMAIN d.visits : \E v \in Shared(c) : d.visits[e] = Entry(c, v, NoPrefix)
      /\ \A v \in Shared(c) : \E e \in DOMAIN d.visits : d.visits[e] = Entry(c, v, NoPrefix)
      /\ \A e, f \in DOMAIN d.visits : d.visits[e] = d.visits[f] => e = f
  BY DraftEntries
<1>2. \A r \in Robots : d.steps[r] = c[r].steps /\ c[r].steps \in Seq(Vertices)
                        /\ Len(d.steps[r]) \in Nat /\ Len(d.steps[r]) >= 1
  BY <1>1 DEF Timed, TimedPath
<1>3. Shared(c) \subseteq Vertices
  BY DEF Shared
<1>4. d \in PlanRecords
  <2>1. ASSUME NEW v \in Shared(c)
        PROVE  Entry(c, v, NoPrefix) \in [location : Vertices, sequence : Seq(VisitItems)]
    <3>1. v \in Vertices
      BY <1>3
    <3>2. Entry(c, v, NoPrefix).sequence \in Seq(VisitItems)
      BY <3>1, EntryHolds
    <3>3. Entry(c, v, NoPrefix) = [location |-> v, sequence |-> Entry(c, v, NoPrefix).sequence]
      BY DEF Entry
    <3> QED  BY <3>1, <3>2, <3>3
  <2>2. d.visits \in Seq([location : Vertices, sequence : Seq(VisitItems)])
    <3> DEFINE E == EntriesOf(c)
               T == [location : Vertices, sequence : Seq(VisitItems)]
    <3>1. E \subseteq T
      BY <2>1 DEF EntriesOf
    <3>2. d.visits \in Seq(E)
      BY <1>1
    <3> HIDE DEF E, T
    <3>3. d.visits \in Seq(T)
      BY <3>1, <3>2
    <3> QED  BY <3>3 DEF T
  <2>3. d.steps \in [Robots -> Seq(Vertices)]
    BY <1>1, <1>2
  <2>4. [steps |-> d.steps, visits |-> d.visits] \in PlanRecords
    BY <2>2, <2>3 DEF PlanRecords
  <2> QED  BY <1>1, <2>4
\* what an entry of the draft is
<1>5. ASSUME NEW e \in DOMAIN d.visits, NEW s, s = d.visits[e].sequence
      PROVE  \E v \in Shared(c) :
                /\ d.visits[e] = Entry(c, v, NoPrefix) /\ d.visits[e].location = v
                /\ \A m \in DOMAIN s : s[m] \in Visitors(c, v)
                /\ \A m, n \in DOMAIN s : m < n => EntersFirst(c, s[m], s[n])
  <2>1. PICK v \in Shared(c) : d.visits[e] = Entry(c, v, NoPrefix)
    BY <1>1
  <2>2. v \in Vertices /\ s = Entry(c, v, NoPrefix).sequence
    BY <1>3, <1>5, <2>1
  <2>3. /\ Entry(c, v, NoPrefix).location = v
        /\ \A m \in DOMAIN s : s[m] \in Visitors(c, v)
        /\ \A m, n \in DOMAIN s : m < n => EntersFirst(c, s[m], s[n])
    BY <2>2, EntryHolds
  <2> QED  BY <2>1, <2>3
<1>6. VisitsAreSteps(d)
  <2> SUFFICES ASSUME NEW e \in DOMAIN d.visits, NEW m \in DOMAIN d.visits[e].sequence,
                      NEW it, it = d.visits[e].sequence[m]
               PROVE  /\ it.robot \in Robots
                      /\ it.index \in 0 .. Len(d.steps[it.robot]) - 1
                      /\ d.steps[it.robot][it.index + 1] = d.visits[e].location
    BY DEF VisitsAreSteps
  <2>1. PICK v \in Shared(c) : d.visits[e].location = v /\ it \in Visitors(c, v)
    BY <1>5
  <2>2. /\ it.robot \in Robots /\ it.index \in 0 .. Len(c[it.robot].steps) - 1
        /\ c[it.robot].steps[it.index + 1] = v
    BY <2>1, VisitorType
  <2> QED  BY <1>2, <2>1, <2>2
<1>7. PathOrdered(d)
  <2> SUFFICES ASSUME NEW e \in DOMAIN d.visits, NEW s, s = d.visits[e].sequence,
                      NEW m \in DOMAIN s, NEW n \in DOMAIN s, m < n, s[m].robot = s[n].robot
               PROVE  s[m].index < s[n].index
    BY DEF PathOrdered
  <2>1. PICK v \in Shared(c) : /\ s[m] \in Visitors(c, v) /\ s[n] \in Visitors(c, v)
                               /\ EntersFirst(c, s[m], s[n])
    BY <1>5
  <2> QED  BY <2>1, FirstIsNearer
<1>8. CoversSharedVisits(d)
  <2> SUFFICES ASSUME NEW r \in Robots, NEW t \in Robots,
                      NEW i \in 1 .. Len(d.steps[r]), NEW j \in 1 .. Len(d.steps[t]),
                      r # t, d.steps[r][i] = d.steps[t][j]
               PROVE  \E e \in DOMAIN d.visits : \E m, n \in DOMAIN d.visits[e].sequence :
                         /\ d.visits[e].sequence[m] = [robot |-> r, index |-> i - 1]
                         /\ d.visits[e].sequence[n] = [robot |-> t, index |-> j - 1]
    BY <1>2 DEF CoversSharedVisits
  <2> DEFINE v == c[r].steps[i]
             x == [robot |-> r, index |-> i - 1]
             y == [robot |-> t, index |-> j - 1]
  <2>1. i \in 1 .. Len(c[r].steps) /\ j \in 1 .. Len(c[t].steps) /\ c[t].steps[j] = v
    BY <1>2
  <2>2. v \in Vertices
    BY <1>2, <2>1, ElementOfSeq
  <2>3. x \in Visitors(c, v) /\ y \in Visitors(c, v) /\ x # y
    BY <2>1, VisitorsAre
  <2> HIDE DEF v, x, y
  <2>4. v \in Shared(c)
    BY <2>2, <2>3, TwoVisits
  <2>5. PICK e \in DOMAIN d.visits : d.visits[e] = Entry(c, v, NoPrefix)
    BY <1>1, <2>4
  <2>6. PICK s : s = d.visits[e].sequence /\ s = Entry(c, v, NoPrefix).sequence
    BY <2>5
  <2>7. \A z \in Visitors(c, v) : \E m \in DOMAIN s : s[m] = z
    BY <2>2, <2>6, EntryHolds
  <2>8. \E m, n \in DOMAIN s : s[m] = x /\ s[n] = y
    BY <2>3, <2>7
  <2> QED  BY <2>6, <2>8 DEF x, y
<1>9. OneEntryEach(d)
  <2> SUFFICES ASSUME NEW e \in DOMAIN d.visits, NEW f \in DOMAIN d.visits,
                      d.visits[e].location = d.visits[f].location
               PROVE  e = f
    BY DEF OneEntryEach
  <2>1. PICK v \in Shared(c) : d.visits[e] = Entry(c, v, NoPrefix) /\ d.visits[e].location = v
    BY <1>5
  <2>2. PICK w \in Shared(c) : d.visits[f] = Entry(c, w, NoPrefix) /\ d.visits[f].location = w
    BY <1>5
  <2> QED  BY <1>1, <2>1, <2>2
<1> QED  BY <1>4, <1>6, <1>7, <1>8, <1>9 DEF ListsVisits

-----------------------------------------------------------------------------
\* Restricted, of the visit sequence
RestrictedTo(s, U, back) ==
    LET item(m) == <<s[m].robot, s[m].index - back>>
        mine    == {m \in DOMAIN s : item(m) \in U}
        inOrder == Arranged(mine, [m \in mine |-> {n \in mine : n < m}])
    IN  [k \in DOMAIN inOrder |-> item(inOrder[k])]

(* What counts of a plan is its paths and its visits.                      *)
LEMMA SamePlan ==
    ASSUME NEW p, NEW q, p.steps = q.steps, p.visits = q.visits
    PROVE  /\ Outcome(p) = Outcome(q) /\ WellFormed(p) = WellFormed(q)
           /\ ListsVisits(p) = ListsVisits(q) /\ CrossingsOrdered(p) = CrossingsOrdered(q)
           /\ StartCollision(p) = StartCollision(q)
<1>1. Segments(p) = Segments(q) /\ SequentialDeps(p) = SequentialDeps(q)
  BY DEF Segments, SequentialDeps
<1>2. \A x : From(p, x) = From(q, x) /\ To(p, x) = To(q, x)
  BY DEF From, To
<1>3. \A a, b : Users(p, a, b) = Users(q, a, b)
  BY <1>1, <1>2 DEF Users
<1>4. \A v : VisitsAt(p, v) = VisitsAt(q, v) /\ (Listed(p, v) <=> Listed(q, v))
  BY DEF VisitsAt, Listed
<1>5. \A v, U, back : Restricted(p, v, U, back) = Restricted(q, v, U, back)
  <2>1. \A r, v, U, back : Restricted(r, v, U, back) = RestrictedTo(VisitsAt(r, v), U, back)
    BY DEF Restricted, RestrictedTo
  <2> QED  BY <1>4, <2>1
<1>6. HconsOk(p) <=> HconsOk(q)
  BY <1>3, <1>4, <1>5 DEF HconsOk
<1>7. \A e : Handovers(p, e) = Handovers(q, e)
  BY DEF Handovers
<1>8. \A e, m : Dep(p, e, m) = Dep(q, e, m)
  BY DEF Dep
<1>9. \A e : Generates(p, e) <=> Generates(q, e)
  BY <1>1, <1>7, <1>8 DEF Generates
<1>10. CompiledEntries(p) = CompiledEntries(q)
  BY <1>9 DEF CompiledEntries
<1>11. OrderingDeps(p) = OrderingDeps(q)
  BY <1>7, <1>8, <1>10 DEF OrderingDeps
<1>12. ExpectedOrdering(p) = ExpectedOrdering(q) /\ ExpectedChain(p) = ExpectedChain(q)
  BY <1>1, <1>7, <1>8 DEF ExpectedOrdering, ExpectedChain
<1>13. CompiledGraph(p) = CompiledGraph(q)
  BY <1>1, <1>2, <1>6, <1>11 DEF CompiledGraph, IsOpposing
<1>14. \A g : SeamSelfCheck(p, g) <=> SeamSelfCheck(q, g)
  BY <1>6, <1>12 DEF SeamSelfCheck
<1>15. Outcome(p) = Outcome(q)
  BY <1>6, <1>10, <1>13, <1>14 DEF Outcome
<1>16. WellFormed(p) = WellFormed(q)
  BY DEF WellFormed, CoversSharedVisits, OrderedVisits
<1>17. ListsVisits(p) = ListsVisits(q)
  BY DEF ListsVisits, VisitsAreSteps, PathOrdered, CoversSharedVisits
<1>18. CrossingsOrdered(p) = CrossingsOrdered(q)
  BY DEF CrossingsOrdered, VisitBefore
<1>19. StartCollision(p) = StartCollision(q)
  BY DEF StartCollision
<1> QED  BY <1>15, <1>16, <1>17, <1>18, <1>19

-----------------------------------------------------------------------------
Steps    == [Robots -> Seq(Vertices)]
Outcomes == {"none", "REJECTED", "PLANNED", "FALLBACK", "ABORTED"}

(* What is known of a goal, whatever plan is in force.                     *)
GoalType(g, number) ==
    /\ g.goal \in 1 .. number
    /\ g.affected \subseteq Robots
    /\ g.baseline \in [DOMAIN g.baseline -> Nat]
    /\ DOMAIN g.heading = DOMAIN g.baseline /\ DOMAIN g.baseline \subseteq Robots
    /\ g.plan_revision \in Nat

(* A goal that counts segments refers to a plan not newer than the one in  *)
(* force; while that is the one in force, the counts lead to where the     *)
(* robots were heading.                                                    *)
GoalInv(g, plan) ==
    DOMAIN g.baseline # {}
    => /\ g.plan_revision <= plan.revision
       /\ g.plan_revision = plan.revision
          => \A r \in DOMAIN g.baseline : g.heading[r] = plan.steps[r][g.baseline[r] + 1]

PlanInv(plan, next) ==
    /\ next \in Nat
    /\ plan.revision = next - 1
    /\ plan.steps \in Steps
    /\ next = 0 => plan = NoPlan

InputInv ==
    /\ inputs \subseteq Complete
    /\ assignment \in 0 .. Len(Assignments) /\ attempted \in 0 .. assignment
    /\ inputs = Complete /\ assignment # 0 => attempted = assignment

(* Every plan had an assignment attempted or a goal answered.              *)
CountInv ==
    /\ sent \in 0 .. MaxGoals /\ IsFiniteSet(goals)
    /\ nextRevision + Cardinality(goals) <= attempted + sent

PlanningInv ==
    /\ InputInv /\ CountInv
    /\ PlanInv(published, nextRevision)
    /\ \A g \in goals : GoalType(g, sent) /\ GoalInv(g, published)
    /\ answer.outcome \in Outcomes

-----------------------------------------------------------------------------
(* What a result holds. *)

Request(req) ==
    /\ req.start \in [Robots -> Vertices]
    /\ req.affected \subseteq Robots
    /\ req.previous.steps \in Steps

(* A robot that stands still has a plan of one step.                       *)
LEMMA StandingStill ==
    ASSUME NEW v \in Vertices
    PROVE  <<v>> \in Seq(Vertices) /\ <<v>>[1] = v
OBVIOUS

(* A path of the search is a walk from the vertex asked for.               *)
LEMMA WalkFromStart ==
    ASSUME NEW v \in Vertices, NEW p \in SearchedFrom[v]
    PROVE  p.steps \in Seq(Vertices) /\ p.steps[1] = v
<1>1. PICK w \in {u \in Walks : u[1] = v} :
         p \in {[steps |-> w, arrival |-> t] : t \in Schedules(Len(w))}
  BY DEF SearchedFrom
<1>2. p.steps = w
  BY <1>1
<1>3. PICK n \in 1 .. MaxSteps : w \in [1 .. n -> Vertices]
  BY <1>1 DEF Walks
<1>4. w \in Seq(Vertices)
  BY <1>3, BoundsAssumption
<1> QED  BY <1>1, <1>2, <1>4

\* the path of a robot that is not searched for
Kept(req, r) == IF req.previous # NoPlan THEN req.previous.steps[r] ELSE <<req.start[r]>>

(* The paths of a draft, when the search has solved for scope.             *)
LEMMA CombinedSteps ==
    ASSUME NEW req, Request(req), NEW scope \in SUBSET Robots,
           NEW f \in Solutions(req.start, scope)
    PROVE  LET steps == Draft(Combined(req, f), req.prefix).steps
           IN  /\ steps \in Steps
               /\ \A r \in scope : steps[r][1] = req.start[r]
               /\ \A r \in Robots \ scope : steps[r] = Kept(req, r)
<1> DEFINE c == Combined(req, f)
           steps == Draft(c, req.prefix).steps
<1>1. steps = [r \in Robots |-> c[r].steps]
  BY DEF Draft
<1>2. DOMAIN f = scope /\ \A r \in scope : f[r] \in SearchedFrom[req.start[r]]
  BY DEF Solutions
<1>3. ASSUME NEW r \in Robots
      PROVE  /\ c[r].steps \in Seq(Vertices)
             /\ r \in scope => c[r].steps[1] = req.start[r]
             /\ r \notin scope => c[r].steps = Kept(req, r)
  <2>1. req.start[r] \in Vertices /\ req.previous.steps[r] \in Seq(Vertices)
    BY DEF Request, Steps
  <2>2. CASE r \in scope
    <3>1. c[r] = f[r]
      BY <1>2, <2>2 DEF Combined
    <3> QED  BY <1>2, <2>1, <2>2, <3>1, WalkFromStart
  <2>3. CASE r \notin scope /\ req.previous # NoPlan
    <3>1. c[r].steps = req.previous.steps[r]
      BY <1>2, <2>3 DEF Combined, Waitless
    <3> QED  BY <2>1, <2>3, <3>1 DEF Kept
  <2>4. CASE r \notin scope /\ req.previous = NoPlan
    <3>1. c[r].steps = <<req.start[r]>>
      BY <1>2, <2>4 DEF Combined, Parked, Waitless
    <3> QED  BY <2>1, <2>4, <3>1 DEF Kept
  <2> QED  BY <2>2, <2>3, <2>4
<1> QED  BY <1>1, <1>3 DEF Steps

Result(req, result) ==
    /\ result.draft.steps \in Steps
    /\ result.how \in {"scope", "global", "stop", "none"}
    /\ result.how = "scope"
       => /\ \A r \in req.affected : result.draft.steps[r][1] = req.start[r]
          /\ \A r \in Robots \ req.affected : result.draft.steps[r] = Kept(req, r)
    /\ result.how \in {"global", "stop"}
       => \A r \in Robots : result.draft.steps[r][1] = req.start[r]

(* What is published, whichever branch of plan() it comes from.            *)
LEMMA ResultSteps ==
    ASSUME NEW req, Request(req), NEW result \in Results(req)
    PROVE  Result(req, result)
<1>1. CASE result \in {[how |-> "scope", draft |-> d] : d \in Checked(req, req.affected)}
  <2>1. PICK f \in Solutions(req.start, req.affected) :
           result = [how |-> "scope", draft |-> Draft(Combined(req, f), req.prefix)]
    BY <1>1 DEF Checked
  <2>2. req.affected \in SUBSET Robots
    BY DEF Request
  <2>3. /\ result.draft.steps \in Steps
        /\ \A r \in req.affected : result.draft.steps[r][1] = req.start[r]
        /\ \A r \in Robots \ req.affected : result.draft.steps[r] = Kept(req, r)
    BY <2>1, <2>2, CombinedSteps
  <2> QED  BY <2>1, <2>3 DEF Result
<1>2. CASE result \in {[how |-> "global", draft |-> d] : d \in Checked(req, Robots)}
  <2>1. PICK f \in Solutions(req.start, Robots) :
           result = [how |-> "global", draft |-> Draft(Combined(req, f), req.prefix)]
    BY <1>2 DEF Checked
  <2>2. /\ result.draft.steps \in Steps
        /\ \A r \in Robots : result.draft.steps[r][1] = req.start[r]
    BY <2>1, CombinedSteps
  <2> QED  BY <2>1, <2>2 DEF Result
<1>3. CASE result \in {IF Passes(SafetyStop(req))
                       THEN [how |-> "stop", draft |-> SafetyStop(req)]
                       ELSE [how |-> "none", draft |-> SafetyStop(req)]}
  <2>1. /\ result.how \in {"stop", "none"}
        /\ result.draft = SafetyStop(req)
    BY <1>3
  <2>2. SafetyStop(req).steps = [r \in Robots |-> <<req.start[r]>>]
    BY DEF SafetyStop, Draft, Parked, Waitless
  <2>3. \A r \in Robots : req.start[r] \in Vertices
    BY DEF Request
  <2>4. \A r \in Robots : <<req.start[r]>> \in Seq(Vertices) /\ <<req.start[r]>>[1] = req.start[r]
    BY <2>3, StandingStill
  <2>5. \A r \in Robots : SafetyStop(req).steps[r] = <<req.start[r]>>
    BY <2>2
  <2>6. SafetyStop(req).steps \in Steps
    BY <2>2, <2>4 DEF Steps
  <2> QED  BY <2>1, <2>4, <2>5, <2>6 DEF Result
<1> QED  BY <1>1, <1>2, <1>3 DEF Results

(* A publication takes the next revision. *)
LEMMA PublishKeepsPlan ==
    ASSUME PlanInv(published, nextRevision), NEW result, result.draft.steps \in Steps,
           Publish(result)
    PROVE  /\ PlanInv(published', nextRevision')
           /\ result.how = "none" => published' = published /\ nextRevision' = nextRevision
           /\ result.how # "none" => /\ nextRevision' = nextRevision + 1
                                     /\ published'.revision = nextRevision
                                     /\ published' # published
                                     /\ published'.steps = result.draft.steps
<1>1. CASE result.how = "none"
  BY <1>1 DEF Publish, PlanInv
<1>2. CASE result.how # "none"
  <2>1. /\ nextRevision' = nextRevision + 1
        /\ published'.revision = nextRevision
        /\ published'.steps = result.draft.steps
    BY <1>2 DEF Publish
  <2>2. published' # published
    BY <2>1 DEF PlanInv
  <2> QED  BY <1>2, <2>1, <2>2 DEF PlanInv
<1> QED  BY <1>1, <1>2

(* What is known of a goal outlives a publication. *)
LEMMA GoalsOutlivePlans ==
    ASSUME PlanInv(published, nextRevision), PlanInv(published', nextRevision'),
           \/ published' = published
           \/ published'.revision = nextRevision,
           NEW g, GoalType(g, sent), GoalInv(g, published)
    PROVE  GoalInv(g, published')
<1>1. CASE published' = published
  BY <1>1 DEF GoalInv
<1>2. CASE published'.revision = nextRevision
  <2>0. nextRevision \in Nat /\ published.revision = nextRevision - 1
    BY DEF PlanInv
  <2>1. published.revision < published'.revision /\ published'.revision \in Nat
    BY <1>2, <2>0
  <2>2. published.revision \in Int
    BY DEF PlanInv
  <2> QED  BY <2>1, <2>2 DEF GoalInv, GoalType
<1> QED  BY <1>1, <1>2

-----------------------------------------------------------------------------
(* The requests of the node are well formed. *)

(* An attempt for an assignment asks about the fleet as assigned.          *)
LEMMA RosterRequest ==
    ASSUME NEW a \in 1 .. Len(Assignments)
    PROVE  Request(WholeRoster(a))
<1>1. Assignments[a] \in [Robots -> Vertices]
  BY AssignmentsAssumption
<1>2. NoPlan.steps \in Steps
  BY DEF NoPlan, Steps
<1> QED  BY <1>1, <1>2 DEF Request, WholeRoster

GoalRequest(g) == [start |-> FrozenStart(g), affected |-> g.affected,
                   prefix |-> g.prefix, previous |-> published]

(* A goal that resolves asks about vertices of the plan it counts on.      *)
LEMMA GoalRequestOk ==
    ASSUME PlanningInv, NEW g \in goals, Ready(g)
    PROVE  Request(GoalRequest(g))
<1>1. Assignments[assignment] \in [Robots -> Vertices]
  BY AssignmentsAssumption DEF Ready, PlanningInv, InputInv
<1>2. published.steps \in Steps
  BY DEF PlanningInv, PlanInv
<1>3. g.affected \subseteq Robots /\ g.baseline \in [DOMAIN g.baseline -> Nat]
  BY DEF PlanningInv, GoalType
<1>4. ASSUME NEW r \in Robots PROVE FrozenStart(g)[r] \in Vertices
  <2>1. CASE r \in DOMAIN g.baseline
    <3>1. g.baseline[r] \in Nat /\ g.baseline[r] < Len(published.steps[r])
      BY <1>3, <2>1 DEF Ready, BaselineResolves
    <3>2. published.steps[r] \in Seq(Vertices)
      BY <1>2 DEF Steps
    <3>3. g.baseline[r] + 1 \in 1 .. Len(published.steps[r])
      BY <3>1, <3>2
    <3>4. published.steps[r][g.baseline[r] + 1] \in Vertices
      BY <3>2, <3>3, ElementOfSeq
    <3> QED  BY <2>1, <3>4 DEF FrozenStart
  <2>2. CASE r \notin DOMAIN g.baseline
    BY <1>1, <2>2 DEF FrozenStart
  <2> QED  BY <2>1, <2>2
<1>5. FrozenStart(g) \in [Robots -> Vertices]
  BY <1>4 DEF FrozenStart
<1> QED  BY <1>2, <1>3, <1>5 DEF Request, GoalRequest

-----------------------------------------------------------------------------
(* The invariant: every plan in force has the paths and the revision its   *)
(* goals take for granted.                                                 *)

(* The node starts with nothing received, planned or asked.                *)
LEMMA PlanningInit == Init => PlanningInv
<1> SUFFICES ASSUME Init PROVE PlanningInv
  OBVIOUS
<1>1. InputInv
  BY DEF Init, InputInv, Complete
<1>2. CountInv
  BY FS_EmptySet, BoundsAssumption DEF Init, CountInv
<1>3. PlanInv(published, nextRevision)
  BY DEF Init, PlanInv, NoPlan, Steps
<1>4. answer.outcome \in Outcomes
  BY DEF Init, NoAnswer, Outcomes
<1> QED  BY <1>1, <1>2, <1>3, <1>4 DEF Init, PlanningInv

(* An attempt leaves the goals alone and the last assignment attempted.    *)
LEMMA AttemptStep ==
    ASSUME PlanningInv, inputs' \subseteq Complete,
           assignment' \in assignment .. Len(Assignments), assignment' \in Nat,
           MaybePlan(inputs', assignment'), UNCHANGED <<goals, sent, answer>>,
           inputs' = inputs \/ assignment' = assignment,
           inputs \subseteq inputs'
    PROVE  PlanningInv'
<1> USE DEF PlanningInv
<1>1. CASE inputs' = Complete /\ assignment' # 0 /\ assignment' # attempted
  <2>1. attempted' = assignment'
    BY <1>1 DEF MaybePlan
  <2>2. PICK result \in Results(WholeRoster(assignment')) : Publish(result)
    BY <1>1 DEF MaybePlan
  <2>3. Result(WholeRoster(assignment'), result)
    <3>1. assignment' \in 1 .. Len(Assignments)
      BY <1>1
    <3> QED  BY <2>2, <3>1, RosterRequest, ResultSteps
  <2>4. /\ PlanInv(published', nextRevision')
        /\ nextRevision' <= nextRevision + 1 /\ nextRevision' \in Nat
        /\ published' = published \/ published'.revision = nextRevision
    <3>1. result.draft.steps \in Steps
      BY <2>3 DEF Result
    <3>2. /\ PlanInv(published', nextRevision')
          /\ result.how = "none" => published' = published /\ nextRevision' = nextRevision
          /\ result.how # "none" => /\ nextRevision' = nextRevision + 1
                                    /\ published'.revision = nextRevision
      BY <2>2, <3>1, PublishKeepsPlan
    <3>3. nextRevision \in Nat
      BY DEF PlanInv
    <3> QED  BY <3>2, <3>3
  <2>5. InputInv'
    BY <2>1 DEF InputInv
  <2>6. attempted < attempted'
    BY <1>1, <2>1 DEF InputInv
  <2>7. CountInv'
    <3>1. Cardinality(goals) \in Nat
      BY FS_CardinalityType DEF CountInv
    <3>2. attempted \in Nat /\ attempted' \in Nat /\ sent \in Nat
      BY <2>1 DEF InputInv, CountInv
    <3>3. nextRevision \in Nat
      BY DEF PlanInv
    <3> QED  BY <2>4, <2>6, <3>1, <3>2, <3>3 DEF CountInv
  <2>8. \A g \in goals' : GoalType(g, sent') /\ GoalInv(g, published')
    BY <2>4, GoalsOutlivePlans
  <2> QED  BY <2>4, <2>5, <2>7, <2>8
<1>2. CASE ~(inputs' = Complete /\ assignment' # 0 /\ assignment' # attempted)
  <2>1. UNCHANGED <<attempted, published, nextRevision>>
    BY <1>2 DEF MaybePlan
  <2>2. InputInv'
    BY <1>2, <2>1 DEF InputInv
  <2> QED  BY <2>1, <2>2 DEF CountInv
<1> QED  BY <1>1, <1>2

(* A goal with a number of its own. *)
LEMMA SentGoal ==
    ASSUME PlanningInv, NEW g, sent < MaxGoals, sent' = sent + 1,
           goals' = goals \cup {g},
           UNCHANGED <<inputs, assignment, attempted, published, nextRevision, answer>>,
           GoalType(g, sent'), GoalInv(g, published)
    PROVE  PlanningInv'
<1> USE DEF PlanningInv
<1>1. InputInv' /\ PlanInv(published', nextRevision')
  BY DEF InputInv
<1>2. CountInv'
  <2>1. IsFiniteSet(goals') /\ Cardinality(goals') <= Cardinality(goals) + 1
    <3>1. IsFiniteSet(goals)
      BY DEF CountInv
    <3>2. Cardinality(goals) \in Nat
      BY <3>1, FS_CardinalityType
    <3>3. /\ IsFiniteSet(goals \cup {g})
          /\ Cardinality(goals \cup {g}) = IF g \in goals THEN Cardinality(goals)
                                           ELSE Cardinality(goals) + 1
      BY <3>1, FS_AddElement
    <3>4. Cardinality(goals') = IF g \in goals THEN Cardinality(goals)
                                ELSE Cardinality(goals) + 1
      BY <3>3
    <3>5. IsFiniteSet(goals')
      BY <3>3
    <3> QED  BY <3>2, <3>4, <3>5
  <2>2. Cardinality(goals) \in Nat /\ Cardinality(goals') \in Nat
    BY <2>1, FS_CardinalityType DEF CountInv
  <2>3. nextRevision \in Nat /\ attempted \in Nat /\ sent \in Nat
    BY DEF PlanInv, InputInv, CountInv
  <2>4. sent' \in 0 .. MaxGoals
    BY BoundsAssumption, <2>3
  <2> QED  BY <2>1, <2>2, <2>3, <2>4 DEF CountInv
<1>3. ASSUME NEW h \in goals' PROVE GoalType(h, sent') /\ GoalInv(h, published')
  <2>1. CASE h \in goals
    BY <2>1 DEF GoalType, CountInv
  <2>2. CASE h = g
    BY <2>2
  <2> QED  BY <2>1, <2>2
<1> QED  BY <1>1, <1>2, <1>3

(* A goal that is answered, with a publication or without.                 *)
LEMMA AnsweredGoal ==
    ASSUME PlanningInv, NEW g \in goals, NEW outcome \in Outcomes, NEW revision,
           Answered(g, outcome, revision), PlanInv(published', nextRevision'),
           \/ published' = published /\ nextRevision' = nextRevision
           \/ published'.revision = nextRevision /\ nextRevision' = nextRevision + 1
    PROVE  PlanningInv'
<1> USE DEF PlanningInv
<1>1. UNCHANGED <<inputs, assignment, attempted, sent>> /\ goals' = goals \ {g}
      /\ answer'.outcome = outcome
  BY DEF Answered
<1>2. InputInv'
  BY <1>1 DEF InputInv
<1>3. CountInv'
  <2>1. IsFiniteSet(goals') /\ Cardinality(goals') = Cardinality(goals) - 1
    BY <1>1, FS_RemoveElement DEF CountInv
  <2>2. Cardinality(goals) \in Nat
    BY FS_CardinalityType DEF CountInv
  <2>3. nextRevision \in Nat /\ attempted \in Nat /\ sent \in Nat
    BY DEF PlanInv, InputInv, CountInv
  <2>4. nextRevision' <= nextRevision + 1 /\ nextRevision' \in Nat
    BY <2>3
  <2> QED  BY <1>1, <2>1, <2>2, <2>3, <2>4 DEF CountInv
<1>4. \A h \in goals' : GoalType(h, sent') /\ GoalInv(h, published')
  BY <1>1, GoalsOutlivePlans
<1> QED  BY <1>1, <1>2, <1>3, <1>4

OutcomeOf(result) ==
    IF result.how = "scope" THEN "PLANNED"
    ELSE IF result.how = "none" THEN "ABORTED" ELSE "FALLBACK"

(* What a served goal leaves behind. *)
LEMMA ReplanResult ==
    ASSUME PlanningInv, NEW g \in goals, Replan(g)
    PROVE  \E result \in Results(GoalRequest(g)) :
              /\ Result(GoalRequest(g), result) /\ Publish(result)
              /\ Answered(g, OutcomeOf(result), nextRevision)
<1>1. Ready(g)
  BY DEF Replan
<1>2. PICK result \in Results(GoalRequest(g)) :
         Publish(result) /\ Answered(g, OutcomeOf(result), nextRevision)
  BY DEF Replan, GoalRequest, OutcomeOf
<1>3. Result(GoalRequest(g), result)
  BY <1>1, <1>2, GoalRequestOk, ResultSteps
<1> QED  BY <1>2, <1>3

(* Every step keeps the invariant.                                         *)
LEMMA PlanningNext == PlanningInv /\ [Next]_vars => PlanningInv'
<1> SUFFICES ASSUME PlanningInv, [Next]_vars PROVE PlanningInv'
  OBVIOUS
<1> USE DEF PlanningInv
<1>1. ASSUME NEW i \in Complete, OnInput(i) PROVE PlanningInv'
  <2>1. /\ inputs' \subseteq Complete /\ inputs \subseteq inputs'
        /\ assignment' = assignment /\ assignment \in 0 .. Len(Assignments)
    BY <1>1 DEF OnInput, InputInv
  <2>2. MaybePlan(inputs', assignment') /\ UNCHANGED <<goals, sent, answer>>
    BY <1>1 DEF OnInput
  <2>3. assignment' \in assignment .. Len(Assignments) /\ assignment' \in Nat
    BY <2>1
  <2> QED  BY <2>1, <2>2, <2>3, AttemptStep
<1>2. ASSUME NEW a \in DOMAIN Assignments, OnAssignment(a) PROVE PlanningInv'
  <2>1. /\ inputs' = inputs /\ inputs' \subseteq Complete
        /\ assignment' = a /\ a > assignment /\ assignment \in Nat
    BY <1>2 DEF OnAssignment, InputInv
  <2>2. MaybePlan(inputs', assignment') /\ UNCHANGED <<goals, sent, answer>>
    BY <1>2 DEF OnAssignment
  <2>3. a \in 1 .. Len(Assignments)
    BY AssignmentsAssumption
  <2>4. assignment' \in assignment .. Len(Assignments) /\ assignment' \in Nat
    BY <2>1, <2>3
  <2> QED  BY <2>1, <2>2, <2>4, AttemptStep
<1>3. ASSUME NEW affected \in SUBSET Robots \ {{}}, NEW covered \in {{}, affected, Robots},
             NEW begun \in Begun, SendGoal(affected, covered, begun)
      PROVE  PlanningInv'
  <2> DEFINE g == [goal |-> sent + 1, affected |-> affected,
                   baseline |-> [r \in covered |-> begun[r]],
                   heading  |-> [r \in covered |-> published.steps[r][begun[r] + 1]],
                   prefix   |-> OrderMade(begun), plan_revision |-> published.revision]
  <2>1. /\ sent < MaxGoals /\ sent' = sent + 1 /\ goals' = goals \cup {g}
        /\ published # NoPlan
        /\ UNCHANGED <<inputs, assignment, attempted, published, nextRevision, answer>>
    BY <1>3 DEF SendGoal
  <2>2. published.revision \in Nat
    BY <2>1 DEF PlanInv
  <2>3. covered \subseteq Robots /\ \A r \in Robots : begun[r] \in Nat
    BY BoundsAssumption DEF Begun
  <2>4. GoalType(g, sent')
    BY <2>1, <2>2, <2>3 DEF GoalType, CountInv
  <2>5. GoalInv(g, published)
    BY <2>1, <2>2, <2>3 DEF GoalInv
  <2> HIDE DEF g
  <2> QED  BY <2>1, <2>4, <2>5, SentGoal
<1>4. ASSUME NEW affected \in SUBSET Robots \ {{}}, SendEarlyGoal(affected)
      PROVE  PlanningInv'
  <2> DEFINE g == [goal |-> sent + 1, affected |-> affected, baseline |-> <<>>,
                   heading |-> <<>>, prefix |-> NoPrefix, plan_revision |-> 0]
  <2>1. /\ sent < MaxGoals /\ sent' = sent + 1 /\ goals' = goals \cup {g}
        /\ UNCHANGED <<inputs, assignment, attempted, published, nextRevision, answer>>
    BY <1>4 DEF SendEarlyGoal
  <2>2. GoalType(g, sent') /\ GoalInv(g, published)
    BY <2>1 DEF GoalType, GoalInv, CountInv
  <2> HIDE DEF g
  <2> QED  BY <2>1, <2>2, SentGoal
<1>5. ASSUME NEW g \in goals, Reject(g) PROVE PlanningInv'
  <2>1. /\ Answered(g, "REJECTED", nextRevision)
        /\ published' = published /\ nextRevision' = nextRevision
    BY <1>5 DEF Reject
  <2>2. "REJECTED" \in Outcomes
    BY DEF Outcomes
  <2> QED  BY <2>1, <2>2, AnsweredGoal
<1>6. ASSUME NEW g \in goals, Replan(g) PROVE PlanningInv'
  <2>1. PICK result \in Results(GoalRequest(g)) :
           /\ Result(GoalRequest(g), result) /\ Publish(result)
           /\ Answered(g, OutcomeOf(result), nextRevision)
    BY <1>6, ReplanResult
  <2>2. result.draft.steps \in Steps
    BY <2>1 DEF Result
  <2>3. /\ PlanInv(published', nextRevision')
        /\ \/ published' = published /\ nextRevision' = nextRevision
           \/ published'.revision = nextRevision /\ nextRevision' = nextRevision + 1
    BY <2>1, <2>2, PublishKeepsPlan
  <2>4. OutcomeOf(result) \in Outcomes
    BY DEF OutcomeOf, Outcomes
  <2> QED  BY <2>1, <2>3, <2>4, AnsweredGoal
<1>7. ASSUME UNCHANGED vars PROVE PlanningInv'
  BY <1>7 DEF vars, InputInv, CountInv
<1> QED  BY <1>1, <1>2, <1>3, <1>4, <1>5, <1>6, <1>7 DEF Next

(* Revisions, plans and goals keep their types; there are never more plans *)
(* than assignments attempted and goals answered (PublishDraft).           *)
THEOREM TypeCorrect == Spec => []TypeOK
<1>1. PlanningInv => TypeOK
  <2> SUFFICES ASSUME PlanningInv PROVE TypeOK
    OBVIOUS
  <2> USE DEF PlanningInv
  <2>1. nextRevision \in Nat /\ published.revision = nextRevision - 1
        /\ published.steps \in [Robots -> Seq(Vertices)]
    BY DEF PlanInv, Steps
  <2>2. nextRevision \in 0 .. Len(Assignments) + MaxGoals
    <3>1. Cardinality(goals) \in Nat
      BY FS_CardinalityType DEF CountInv
    <3>2. /\ attempted \in Nat /\ sent \in Nat /\ attempted <= Len(Assignments)
          /\ sent <= MaxGoals /\ Len(Assignments) \in Nat
      BY AssignmentsAssumption, BoundsAssumption DEF InputInv, CountInv
    <3> QED  BY <2>1, <3>1, <3>2, BoundsAssumption DEF CountInv
  <2>3. \A g \in goals : /\ g.goal \in 1 .. sent /\ g.affected \subseteq Robots
                         /\ g.baseline \in [DOMAIN g.baseline -> Nat]
                         /\ g.plan_revision \in Nat
    BY DEF GoalType
  <2> QED  BY <2>1, <2>2, <2>3 DEF TypeOK, InputInv, CountInv, Outcomes
<1> QED  BY <1>1, PlanningInit, PlanningNext, PTL DEF Spec

(* As soon as roadmap, robots and an assignment are there, the last        *)
(* assignment has had its attempt, in whatever order they came (MaybePlan).*)
THEOREM LastIsAttempted == Spec => []LatestAttempted
<1>1. PlanningInv => LatestAttempted
  BY DEF PlanningInv, InputInv, LatestAttempted
<1> QED  BY <1>1, PlanningInit, PlanningNext, PTL DEF Spec

-----------------------------------------------------------------------------
(* What an attempt does to plans. *)

(* Only an answer removes a goal, and only one at a time.                  *)
LEMMA GoalsLeave ==
    ASSUME PlanningInv, [Next]_vars, NEW g \in goals, g \notin goals'
    PROVE  Reject(g) \/ Replan(g)
<1>1. \A a \in DOMAIN Assignments : OnAssignment(a) => g \in goals'
  BY DEF OnAssignment
<1>2. \A i \in Complete : OnInput(i) => g \in goals'
  BY DEF OnInput
<1>3. \A affected, covered, begun : SendGoal(affected, covered, begun) => g \in goals'
  BY DEF SendGoal
<1>4. \A affected : SendEarlyGoal(affected) => g \in goals'
  BY DEF SendEarlyGoal
<1>5. ASSUME NEW h \in goals, h # g, Reject(h) \/ Replan(h) PROVE g \in goals'
  BY <1>5 DEF Reject, Replan, Answered
<1>6. UNCHANGED vars => g \in goals'
  BY DEF vars
<1> QED  BY <1>1, <1>2, <1>3, <1>4, <1>5, <1>6 DEF Next

(* The plan an answered goal got. *)
LEMMA AnswerGives ==
    ASSUME PlanningInv, [Next]_vars, NEW g \in goals, g \notin goals',
           answer'.outcome \in {"PLANNED", "FALLBACK"}
    PROVE  /\ Ready(g)
           /\ answer'.outcome = "PLANNED"
              => /\ \A r \in g.affected : published'.steps[r][1] = FrozenStart(g)[r]
                 /\ \A r \in Robots \ g.affected :
                       published'.steps[r] = IF published # NoPlan THEN published.steps[r]
                                             ELSE <<Assignments[assignment][r]>>
           /\ answer'.outcome = "FALLBACK"
              => \A r \in Robots : published'.steps[r][1] = FrozenStart(g)[r]
<1>1. Replan(g)
  BY GoalsLeave DEF Reject, Answered
<1>2. PICK result \in Results(GoalRequest(g)) :
         /\ Result(GoalRequest(g), result) /\ Publish(result)
         /\ Answered(g, OutcomeOf(result), nextRevision)
  BY <1>1, ReplanResult
<1>3. answer'.outcome = OutcomeOf(result)
  BY <1>2 DEF Answered
<1>4. result.how # "none" /\ result.how \in {"scope", "global", "stop", "none"}
  BY <1>2, <1>3 DEF OutcomeOf, Result
<1>5. published'.steps = result.draft.steps
  BY <1>2, <1>4 DEF Publish
<1>6. \A r \in Robots : published = NoPlan => FrozenStart(g)[r] = Assignments[assignment][r]
  BY <1>1 DEF Replan, Ready, BaselineResolves, FrozenStart
<1>7. g.affected \subseteq Robots
  BY DEF PlanningInv, GoalType
<1>8. /\ GoalRequest(g).start = FrozenStart(g) /\ GoalRequest(g).affected = g.affected
      /\ GoalRequest(g).previous = published
  BY DEF GoalRequest
<1>9. CASE result.how = "scope"
  <2>1. answer'.outcome = "PLANNED"
    BY <1>3, <1>9 DEF OutcomeOf
  <2>2. /\ \A r \in g.affected : published'.steps[r][1] = FrozenStart(g)[r]
        /\ \A r \in Robots \ g.affected : published'.steps[r] = Kept(GoalRequest(g), r)
    BY <1>2, <1>5, <1>8, <1>9 DEF Result
  <2>3. \A r \in Robots : Kept(GoalRequest(g), r) = IF published # NoPlan
                                                    THEN published.steps[r]
                                                    ELSE <<Assignments[assignment][r]>>
    BY <1>6, <1>8 DEF Kept
  <2> QED  BY <1>1, <1>7, <2>1, <2>2, <2>3 DEF Replan
<1>10. CASE result.how \in {"global", "stop"}
  <2>1. answer'.outcome = "FALLBACK"
    BY <1>3, <1>10 DEF OutcomeOf
  <2>2. \A r \in Robots : published'.steps[r][1] = FrozenStart(g)[r]
    BY <1>2, <1>5, <1>8, <1>10 DEF Result
  <2> QED  BY <1>1, <2>1, <2>2 DEF Replan
<1> QED  BY <1>4, <1>9, <1>10

(* A goal answered PLANNED leaves the robots it does not name alone        *)
(* (combine_plans).                                                        *)
THEOREM ScopeIsKept == Spec => ScopeKept
<1> DEFINE Left == \A g \in goals \ goals' :
                      answer'.outcome = "PLANNED"
                      => \A r \in Robots \ g.affected :
                            published'.steps[r] = IF published # NoPlan THEN published.steps[r]
                                                  ELSE <<Assignments[assignment][r]>>
<1>1. PlanningInv /\ [Next]_vars => [Left]_vars
  BY AnswerGives
<1>2. ScopeKept <=> [][Left]_vars
  BY DEF ScopeKept
<1> HIDE DEF Left
<1> QED  BY <1>1, <1>2, PlanningInit, PlanningNext, PTL DEF Spec

(* A replanned robot starts where it was heading for when its segments     *)
(* were counted, although the plan may have been replaced in between       *)
(* (resolve_frozen_starts).                                                *)
THEOREM BaselineIsHonoured == Spec => BaselineHonoured
<1> DEFINE Honoured == \A g \in goals \ goals' : \A r \in DOMAIN g.heading :
                          \/ answer'.outcome = "PLANNED" /\ r \in g.affected
                          \/ answer'.outcome = "FALLBACK"
                          => published'.steps[r][1] = g.heading[r]
<1>1. ASSUME PlanningInv, [Next]_vars, NEW g \in goals \ goals', NEW r \in DOMAIN g.heading,
             \/ answer'.outcome = "PLANNED" /\ r \in g.affected
             \/ answer'.outcome = "FALLBACK"
      PROVE  published'.steps[r][1] = g.heading[r]
  <2>1. r \in DOMAIN g.baseline /\ r \in Robots
    BY <1>1 DEF PlanningInv, GoalType
  <2>2. Ready(g) /\ published'.steps[r][1] = FrozenStart(g)[r]
    BY <1>1, <2>1, AnswerGives
  <2>3. published.revision = g.plan_revision
    BY <2>1, <2>2 DEF Ready, BaselineResolves
  <2>4. g.heading[r] = published.steps[r][g.baseline[r] + 1]
    BY <1>1, <2>1, <2>3 DEF PlanningInv, GoalInv
  <2>5. FrozenStart(g)[r] = published.steps[r][g.baseline[r] + 1]
    BY <2>1 DEF FrozenStart
  <2> QED  BY <2>2, <2>4, <2>5
<1>2. PlanningInv /\ [Next]_vars => [Honoured]_vars
  BY <1>1
<1>3. BaselineHonoured <=> [][Honoured]_vars
  BY DEF BaselineHonoured
<1> HIDE DEF Honoured
<1> QED  BY <1>2, <1>3, PlanningInit, PlanningNext, PTL DEF Spec

(* A fleet parked on different vertices shares no location and has no      *)
(* segment: nothing the self-checks could find.                            *)
LEMMA ParkedVisit ==
    ASSUME NEW start \in [Robots -> Vertices], NEW c,
           \A r \in Robots : c[r].steps = <<start[r]>>,
           NEW v \in Vertices, NEW z \in Visitors(c, v)
    PROVE  \E r \in Robots : z = [robot |-> r, index |-> 0] /\ start[r] = v
<1>1. PICK r \in Robots : \E i \in DOMAIN c[r].steps : z = [robot |-> r, index |-> i - 1]
  BY DEF Visitors
<1>2. DOMAIN <<start[r]>> = {1} /\ <<start[r]>>[1] = start[r]
  OBVIOUS
<1>3. DOMAIN c[r].steps = {1} /\ c[r].steps[1] = start[r]
  BY <1>2
<1>4. z = [robot |-> r, index |-> 0]
  BY <1>1, <1>3
<1>5. c[z.robot].steps[z.index + 1] = v
  BY DEF Visitors
<1>6. z.robot = r /\ z.index + 1 = 1
  BY <1>4
<1>7. c[r].steps[1] = v
  BY <1>5, <1>6
<1> QED  BY <1>3, <1>4, <1>7

(* Robots parked apart share no location.                                  *)
LEMMA ParkedShareNothing ==
    ASSUME NEW start \in [Robots -> Vertices], Apart(start), NEW c,
           \A r \in Robots : c[r].steps = <<start[r]>>
    PROVE  Shared(c) = {}
<1> SUFFICES ASSUME NEW v \in Vertices, Cardinality(Visitors(c, v)) >= 2
             PROVE  FALSE
  BY DEF Shared
<1>1. ASSUME NEW x \in Visitors(c, v), NEW y \in Visitors(c, v)
      PROVE  x = y
  <2>1. PICK r \in Robots : x = [robot |-> r, index |-> 0] /\ start[r] = v
    BY ParkedVisit
  <2>2. PICK s \in Robots : y = [robot |-> s, index |-> 0] /\ start[s] = v
    BY ParkedVisit
  <2>3. r = s
    BY <2>1, <2>2 DEF Apart
  <2> QED  BY <2>1, <2>2, <2>3
<1>2. CASE Visitors(c, v) = {}
  <2>1. Cardinality(Visitors(c, v)) = 0
    BY <1>2, FS_EmptySet
  <2> QED  BY <2>1
<1>3. CASE Visitors(c, v) # {}
  <2>1. PICK x : Visitors(c, v) = {x}
    BY <1>1, <1>3
  <2>2. Cardinality(Visitors(c, v)) = 1
    BY <2>1, FS_Singleton
  <2> QED  BY <2>2
<1> QED  BY <1>2, <1>3

(* No shared location, no entry in the visit order.                        *)
LEMMA NothingToOrder == DOMAIN SetToSeq({}) = {}
<1>1. SetToSeq({}) \in [1 .. 0 -> {}]
  <2>1. Cardinality({}) = 0
    BY FS_EmptySet
  <2>2. [i \in 1 .. 0 |-> i] \in [1 .. 0 -> {}] /\ IsInjective([i \in 1 .. 0 |-> i])
    BY DEF IsInjective
  <2>3. \E f \in [1 .. 0 -> {}] : IsInjective(f)
    BY <2>2
  <2> QED  BY <2>1, <2>3 DEF SetToSeq
<1> QED  BY <1>1

(* Nothing the self-checks could find in a fleet parked apart.             *)
LEMMA ParkedPasses ==
    ASSUME NEW start \in [Robots -> Vertices], Apart(start), NEW c, NEW prefix,
           \A r \in Robots : c[r].steps = <<start[r]>>,
           NEW p, p = Draft(c, prefix)
    PROVE  Passes(p)
<1>1. ASSUME NEW r \in Robots
      PROVE  Len(p.steps[r]) = 1 /\ p.steps[r][1] = start[r]
  <2>1. p.steps[r] = <<start[r]>>
    BY DEF Draft
  <2> QED  BY <2>1
<1>2. DOMAIN p.visits = {}
  <2>1. p.visits = SetToSeq({Entry(c, v, prefix) : v \in Shared(c)})
    BY DEF Draft
  <2>2. {Entry(c, v, prefix) : v \in Shared(c)} = {}
    BY ParkedShareNothing
  <2> QED  BY <2>1, <2>2, NothingToOrder
<1>3. Segments(p) = {}
  <2>1. ASSUME NEW r \in Robots, NEW k \in 0 .. Len(p.steps[r]) - 2
        PROVE  FALSE
    <3>1. Len(p.steps[r]) = 1
      BY <1>1
    <3>2. k \in Int /\ 0 <= k /\ k <= 1 - 2
      BY <3>1
    <3> QED  BY <3>2
  <2>2. ASSUME NEW seg \in Segments(p)
        PROVE  FALSE
    <3>1. PICK r \in Robots : \E k \in 0 .. Len(p.steps[r]) - 2 : seg = <<r, k>>
      BY <2>2 DEF Segments
    <3> QED  BY <2>1, <3>1
  <2> QED  BY <2>2
<1>4. ~StartCollision(p)
  BY <1>1 DEF StartCollision, Apart
<1>5. NoMissingEdge(p)
  BY <1>2 DEF NoMissingEdge
<1>6. Acyclic(p)
  BY <1>3 DEF Acyclic
<1> QED  BY <1>4, <1>5, <1>6 DEF Passes

(* Robots parked apart pass the checks.                                    *)
LEMMA SafetyStopPasses ==
    ASSUME NEW req, req.start \in [Robots -> Vertices], Apart(req.start)
    PROVE  Passes(SafetyStop(req))
<1>1. \A r \in Robots : [s \in Robots |-> Parked(req.start[s])][r].steps = <<req.start[r]>>
  BY DEF Parked, Waitless
<1> QED  BY <1>1, ParkedPasses DEF SafetyStop

(* So an attempt from distinct vertices has a result to publish.           *)
LEMMA ApartPublishes ==
    ASSUME PlanningInv, NEW req, Request(req), Apart(req.start),
           NEW result \in Results(req), Publish(result)
    PROVE  published' # published
<1>1. result.how # "none"
  BY SafetyStopPasses DEF Results, Request
<1>2. result.draft.steps \in Steps
  BY ResultSteps DEF Result
<1> QED  BY <1>1, <1>2, PublishKeepsPlan DEF PlanningInv

(* An attempt that starts the robots on different vertices ends with a new *)
(* plan, whatever the search returns: the safety stop is always there      *)
(* (run_once, R29).                                                        *)
THEOREM EveryAttemptPublishes == Spec => AttemptsPublish
<1> DEFINE Ends == /\ attempted' # attempted /\ Apart(Assignments[attempted'])
                      => published' # published
                   /\ \A g \in goals \ goals' :
                         answer'.outcome # "REJECTED" /\ Apart(FrozenStart(g))
                         => published' # published
<1>1. ASSUME PlanningInv, [Next]_vars, attempted' # attempted, Apart(Assignments[attempted'])
      PROVE  published' # published
  <2>1. MaybePlan(inputs', assignment')
    BY <1>1 DEF Next, vars, OnInput, OnAssignment, SendGoal, SendEarlyGoal, Reject, Replan,
                Answered
  <2>2. attempted' = assignment' /\ assignment' # 0
    BY <1>1, <2>1 DEF MaybePlan
  <2>3. PICK result \in Results(WholeRoster(assignment')) : Publish(result)
    BY <1>1, <2>1 DEF MaybePlan
  <2>4. assignment' \in 1 .. Len(Assignments)
    BY <1>1, <2>2, PlanningNext DEF PlanningInv, InputInv
  <2>5. WholeRoster(assignment').start = Assignments[attempted']
    BY <2>2 DEF WholeRoster
  <2> QED  BY <1>1, <2>3, <2>4, <2>5, RosterRequest, ApartPublishes
<1>2. ASSUME PlanningInv, [Next]_vars, NEW g \in goals \ goals',
             answer'.outcome # "REJECTED", Apart(FrozenStart(g))
      PROVE  published' # published
  <2>1. Replan(g)
    BY <1>2, GoalsLeave DEF Reject, Answered
  <2>2. PICK result \in Results(GoalRequest(g)) : Publish(result)
    BY <1>2, <2>1, ReplanResult
  <2>3. Request(GoalRequest(g)) /\ GoalRequest(g).start = FrozenStart(g)
    BY <1>2, <2>1, GoalRequestOk DEF Replan, GoalRequest
  <2> QED  BY <1>2, <2>2, <2>3, ApartPublishes
<1>3. PlanningInv /\ [Next]_vars => [Ends]_vars
  BY <1>1, <1>2
<1>4. AttemptsPublish <=> [][Ends]_vars
  BY DEF AttemptsPublish
<1> HIDE DEF Ends
<1> QED  BY <1>3, <1>4, PlanningInit, PlanningNext, PTL DEF Spec

-----------------------------------------------------------------------------
(* What is published is lawful. *)

\* passed the checks, lists its visits, and has one entry a location
Lawful(d) == d \in PlanRecords /\ Passes(d) /\ ListsVisits(d) /\ OneEntryEach(d)

\* a published plan as the compiler reads it
PathsOf(plan) == [steps |-> plan.steps, visits |-> plan.visits]

\* a plan passed the checks and lists its visits
PlanLawful(plan) == plan # NoPlan => Lawful(PathsOf(plan))

(* While no goal carries an order of its own, so does no attempt.          *)
LawInv ==
    /\ PlanLawful(published)
    /\ \A g \in goals : g.prefix = NoPrefix

(* The robots searched for, kept or parked all have a timed path.          *)
LEMMA CombinedIsTimed ==
    ASSUME NEW req, Request(req), PlanLawful(req.previous), NEW scope \in SUBSET Robots,
           NEW f \in Solutions(req.start, scope)
    PROVE  Timed(Combined(req, f))
<1> SUFFICES ASSUME NEW r \in Robots PROVE TimedPath(Combined(req, f)[r])
  BY DEF Timed
<1>1. DOMAIN f = scope /\ \A s \in scope : f[s] \in SearchedFrom[req.start[s]]
  BY DEF Solutions
<1>2. req.start[r] \in Vertices /\ req.previous.steps[r] \in Seq(Vertices)
  BY DEF Request, Steps
<1>3. CASE r \in scope
  <2>1. Combined(req, f)[r] = f[r]
    BY <1>1, <1>3 DEF Combined
  <2> QED  BY <1>1, <1>2, <1>3, <2>1, SearchIsTimed
<1>4. CASE r \notin scope /\ req.previous # NoPlan
  <2>1. Combined(req, f)[r] = Waitless(req.previous.steps[r])
    BY <1>1, <1>4 DEF Combined
  <2>2. Len(req.previous.steps[r]) >= 1
    BY <1>4 DEF PlanLawful, Lawful, ListsVisits, CoversSharedVisits, PathsOf
  <2>3. Len(req.previous.steps[r]) # 0
    BY <2>2
  <2> QED  BY <1>2, <2>1, <2>3, WaitlessIsTimed
<1>5. CASE r \notin scope /\ req.previous = NoPlan
  <2>1. Combined(req, f)[r] = Waitless(<<req.start[r]>>)
    BY <1>1, <1>5 DEF Combined, Parked
  <2>2. <<req.start[r]>> \in Seq(Vertices) /\ Len(<<req.start[r]>>) # 0
    BY <1>2
  <2> QED  BY <2>1, <2>2, WaitlessIsTimed
<1> QED  BY <1>3, <1>4, <1>5

(* A draft with no order carried in is lawful once it passes.              *)
LEMMA DraftIsLawful ==
    ASSUME NEW c, Timed(c), NEW d, d = Draft(c, NoPrefix), Passes(d)
    PROVE  Lawful(d) /\ PathsOf(d) = d
<1>1. d \in PlanRecords /\ ListsVisits(d) /\ OneEntryEach(d)
  BY DraftLists
<1>2. d = [steps |-> d.steps, visits |-> d.visits]
  BY DEF Draft
<1> QED  BY <1>1, <1>2 DEF Lawful, PathsOf

(* Whichever branch of the attempt it comes from (run_once).               *)
LEMMA ResultIsLawful ==
    ASSUME NEW req, Request(req), PlanLawful(req.previous), req.prefix = NoPrefix,
           NEW result \in Results(req), result.how # "none"
    PROVE  Lawful(result.draft) /\ PathsOf(result.draft) = result.draft
<1>1. ASSUME NEW scope \in SUBSET Robots, NEW d \in Checked(req, scope)
      PROVE  Lawful(d) /\ PathsOf(d) = d
  <2>1. PICK f \in Solutions(req.start, scope) : d = Draft(Combined(req, f), NoPrefix) /\ Passes(d)
    BY DEF Checked
  <2>2. Timed(Combined(req, f))
    BY CombinedIsTimed
  <2> QED  BY <2>1, <2>2, DraftIsLawful
<1>2. Passes(SafetyStop(req)) => Lawful(SafetyStop(req)) /\ PathsOf(SafetyStop(req)) = SafetyStop(req)
  <2> DEFINE c == [r \in Robots |-> Parked(req.start[r])]
  <2>1. Timed(c)
    <3> SUFFICES ASSUME NEW r \in Robots PROVE TimedPath(Parked(req.start[r]))
      BY DEF Timed
    <3>1. req.start[r] \in Vertices
      BY DEF Request
    <3>2. <<req.start[r]>> \in Seq(Vertices) /\ Len(<<req.start[r]>>) # 0
      BY <3>1
    <3> QED  BY <3>2, WaitlessIsTimed DEF Parked
  <2>2. SafetyStop(req) = Draft(c, NoPrefix)
    BY DEF SafetyStop
  <2> HIDE DEF c
  <2> QED  BY <2>1, <2>2, DraftIsLawful
<1>3. req.affected \in SUBSET Robots /\ Robots \in SUBSET Robots
  BY DEF Request
<1>4. \/ \E d \in Checked(req, req.affected) : result.draft = d
      \/ \E d \in Checked(req, Robots) : result.draft = d
      \/ Passes(SafetyStop(req)) /\ result.draft = SafetyStop(req)
  BY DEF Results
<1> QED  BY <1>1, <1>2, <1>3, <1>4

(* What an attempt publishes is lawful when the plan before was.           *)
LEMMA PublishesLawful ==
    ASSUME NEW req, Request(req), PlanLawful(req.previous), req.prefix = NoPrefix,
           PlanLawful(published), NEW result \in Results(req), Publish(result)
    PROVE  PlanLawful(published')
<1>1. CASE result.how = "none"
  BY <1>1 DEF Publish, PlanLawful
<1>2. CASE result.how # "none"
  <2>1. published'.steps = result.draft.steps /\ published'.visits = result.draft.visits
    BY <1>2 DEF Publish
  <2>2. PathsOf(published') = PathsOf(result.draft)
    BY <2>1 DEF PathsOf
  <2>3. Lawful(result.draft) /\ PathsOf(result.draft) = result.draft
    BY <1>2, ResultIsLawful
  <2> QED  BY <2>2, <2>3 DEF PlanLawful
<1> QED  BY <1>1, <1>2

(* An attempt set off by an input. *)
LEMMA AttemptIsLawful ==
    ASSUME PlanLawful(published), NEW in, NEW a, a # 0 => a \in 1 .. Len(Assignments),
           MaybePlan(in, a)
    PROVE  PlanLawful(published')
<1>1. CASE in = Complete /\ a # 0 /\ a # attempted
  <2>1. PICK result \in Results(WholeRoster(a)) : Publish(result)
    BY <1>1 DEF MaybePlan
  <2>2. Request(WholeRoster(a))
    BY <1>1, RosterRequest
  <2>3. WholeRoster(a).prefix = NoPrefix /\ PlanLawful(WholeRoster(a).previous)
    BY DEF WholeRoster, PlanLawful
  <2> QED  BY <2>1, <2>2, <2>3, PublishesLawful
<1>2. CASE ~(in = Complete /\ a # 0 /\ a # attempted)
  BY <1>2 DEF MaybePlan, PlanLawful
<1> QED  BY <1>1, <1>2

(* Every step keeps to lawful plans, unless goals carry an order.          *)
LEMMA LawNext ==
    ASSUME ~OrderCarried, PlanningInv, LawInv, [Next]_vars
    PROVE  LawInv'
<1> USE DEF LawInv
<1>1. assignment \in 0 .. Len(Assignments) /\ Len(Assignments) \in Nat
      /\ DOMAIN Assignments = 1 .. Len(Assignments)
  BY AssignmentsAssumption DEF PlanningInv, InputInv
<1>2. ASSUME NEW i \in Complete, OnInput(i) PROVE LawInv'
  <2>1. MaybePlan(inputs', assignment) /\ goals' = goals
    BY <1>2 DEF OnInput
  <2>2. assignment # 0 => assignment \in 1 .. Len(Assignments)
    BY <1>1
  <2>3. PlanLawful(published')
    BY <2>1, <2>2, AttemptIsLawful
  <2> QED  BY <2>1, <2>3
<1>3. ASSUME NEW a \in DOMAIN Assignments, OnAssignment(a) PROVE LawInv'
  <2>1. MaybePlan(inputs, a) /\ goals' = goals
    BY <1>3 DEF OnAssignment
  <2>2. PlanLawful(published')
    BY <1>1, <2>1, AttemptIsLawful
  <2> QED  BY <2>1, <2>2
<1>4. ASSUME NEW affected \in SUBSET Robots \ {{}}, NEW covered \in {{}, affected, Robots},
             NEW begun \in Begun, SendGoal(affected, covered, begun)
      PROVE  LawInv'
  <2>1. OrderMade(begun) = NoPrefix
    BY DEF OrderMade, NoPrefix
  <2>2. PICK g : g.prefix = NoPrefix /\ goals' = goals \cup {g} /\ published' = published
    BY <1>4, <2>1 DEF SendGoal
  <2> QED  BY <2>2 DEF PlanLawful
<1>5. ASSUME NEW affected \in SUBSET Robots \ {{}}, SendEarlyGoal(affected) PROVE LawInv'
  <2>1. PICK g : g.prefix = NoPrefix /\ goals' = goals \cup {g} /\ published' = published
    BY <1>5 DEF SendEarlyGoal
  <2> QED  BY <2>1 DEF PlanLawful
<1>6. ASSUME NEW g \in goals, Reject(g) PROVE LawInv'
  BY <1>6 DEF Reject, Answered, PlanLawful
<1>7. ASSUME NEW g \in goals, Replan(g) PROVE LawInv'
  <2>1. PICK result \in Results(GoalRequest(g)) :
           Publish(result) /\ Answered(g, OutcomeOf(result), nextRevision)
    BY <1>7, ReplanResult
  <2>2. Request(GoalRequest(g))
    BY <1>7, GoalRequestOk DEF Replan
  <2>3. GoalRequest(g).prefix = NoPrefix /\ PlanLawful(GoalRequest(g).previous)
    BY DEF GoalRequest
  <2>4. PlanLawful(published')
    BY <2>1, <2>2, <2>3, PublishesLawful
  <2>5. goals' \subseteq goals
    BY <2>1 DEF Answered
  <2> QED  BY <2>4, <2>5
<1>8. ASSUME UNCHANGED vars PROVE LawInv'
  BY <1>8 DEF vars, PlanLawful
<1> QED  BY <1>2, <1>3, <1>4, <1>5, <1>6, <1>7, <1>8 DEF Next

(* Whatever the search returns and however attempts and goals interleave,  *)
(* the server's compiler accepts every plan published: the planner's graph *)
(* and the server's, drawn separately, agree.  The premise is needed: a    *)
(* goal that carries the order of an older plan can have it published as   *)
(* the order of a new one.                                                 *)
THEOREM PublishedIsLawful ==
    ASSUME ~OrderCarried
    PROVE  Spec => []PublishedCompiles
<1>1. Init => LawInv
  BY DEF Init, LawInv, PlanLawful
<1>2. PlanningInv /\ LawInv /\ [Next]_vars => LawInv'
  BY LawNext
<1>3. LawInv => PublishedCompiles
  <2> SUFFICES ASSUME LawInv, published # NoPlan
               PROVE  /\ Outcome(published) = "ok"
                      /\ WellFormed(published) /\ ListsVisits(published)
                      /\ CrossingsOrdered(published) /\ ~StartCollision(published)
    BY DEF PublishedCompiles
  <2> DEFINE d == PathsOf(published)
  <2>1. d.steps = published.steps /\ d.visits = published.visits
    BY DEF PathsOf
  <2>2. d \in PlanRecords /\ Passes(d) /\ ListsVisits(d) /\ OneEntryEach(d)
    BY DEF LawInv, PlanLawful, Lawful
  <2> HIDE DEF d
  <2>3. Outcome(d) = "ok" /\ WellFormed(d) /\ CrossingsOrdered(d)
    BY <2>2, ChecksCompile
  <2>4. ~StartCollision(d)
    BY <2>2 DEF Passes
  <2> QED  BY <2>1, <2>2, <2>3, <2>4, SamePlan
<1> QED  BY <1>1, <1>2, <1>3, PlanningInit, PlanningNext, PTL DEF Spec
=============================================================================

------------------------- MODULE Assignment_proofs -------------------------
(***************************************************************************)
(* Theorems about Assignment, for every roster, capacity, sequence of      *)
(* tasks, distances and operator messages.                                 *)
(***************************************************************************)
EXTENDS Assignment, SequenceTheorems, WellFoundedInduction, TLAPS

-----------------------------------------------------------------------------
(* Induction on the natural numbers without an operator parameter, and     *)
(* from it that a fold exists and stays where its steps stay.              *)

(* A non-empty set of natural numbers has a least element. *)
LEMMA Least ==
    ASSUME NEW T, T \subseteq Nat, T # {}
    PROVE  \E m \in T : \A n \in T : m <= n
<1> DEFINE R == {ss \in Nat \X Nat : ss[1] < ss[2]}
<1>1. IsWellFoundedOn(R, Nat)
  BY NatLessThanWellFounded DEF OpToRel
<1>2. PICK m \in T : \A n \in T : ~(<<n, m>> \in R)
  <2> HIDE DEF R
  <2> QED  BY <1>1, WFMin
<1>3. ASSUME NEW n \in T
      PROVE  m <= n
  <2>1. <<n, m>> \in Nat \X Nat /\ (n < m => <<n, m>> \in R)
    OBVIOUS
  <2>2. ~(n < m)
    BY <1>2, <2>1
  <2> QED  BY <2>2
<1> QED  BY <1>3

(* The elements with the least key. *)
LEMMA LeastBy ==
    ASSUME NEW C, C # {}, NEW key \in [C -> Nat]
    PROVE  \E W \in SUBSET C : /\ W # {} /\ \A r, s \in W : key[r] = key[s]
                              /\ \A r \in W, s \in C \ W : key[r] < key[s]
<1> DEFINE T == {key[r] : r \in C}
<1>1. T \subseteq Nat /\ T # {}
  OBVIOUS
<1>2. PICK m \in T : \A n \in T : m <= n
  <2> HIDE DEF T
  <2> QED  BY <1>1, Least
<1> DEFINE W == {r \in C : key[r] = m}
<1>3. \A s \in C : key[s] \in Nat /\ m <= key[s]
  BY <1>2
<1>4. W # {} /\ \A r, s \in W : key[r] = key[s]
  BY <1>2
<1>5. \A r \in W, s \in C \ W : key[r] < key[s]
  BY <1>1, <1>3
<1> QED  BY <1>4, <1>5

(* Induction up to N. *)
LEMMA UpTo ==
    ASSUME NEW N \in Nat, NEW S, 0 \in S, \A n \in 1 .. N : n - 1 \in S => n \in S
    PROVE  \A n \in 0 .. N : n \in S
<1> SUFFICES ASSUME NEW m \in 0 .. N, m \notin S PROVE FALSE
  OBVIOUS
<1> DEFINE T == {n \in 0 .. N : n \notin S}
<1>1. PICK x \in T : \A y \in T : x <= y
  <2>1. T \subseteq Nat /\ T # {}
    OBVIOUS
  <2> HIDE DEF T
  <2> QED  BY <2>1, Least
<1>2. x \in 1 .. N /\ x - 1 \notin S
  OBVIOUS
<1>3. x - 1 \in T
  BY <1>2
<1> QED  BY <1>1, <1>3

Iteration(f, X, N, step, x) ==
    /\ f \in [0 .. N -> X] /\ f[0] = x
    /\ \A n \in 1 .. N : f[n] = step[n][f[n - 1]]

Steppers(N, X) == [1 .. N -> [X -> X]]

(* N steps, each defined on all of X, can be made one after the other.     *)
LEMMA IterationExists ==
    ASSUME NEW X, NEW N \in Nat, NEW step \in Steppers(N, X), NEW x \in X
    PROVE  \E f : Iteration(f, X, N, step, x)
<1> USE DEF Steppers
<1> DEFINE Good(m, f) == Iteration(f, X, m, step, x)
           S == {m \in 0 .. N : \E f : Good(m, f)}
<1>1. 0 \in S
  <2>1. Good(0, [n \in 0 .. 0 |-> x])
    BY DEF Iteration
  <2> HIDE DEF Good
  <2> QED  BY <2>1
<1>2. ASSUME NEW n \in 1 .. N, n - 1 \in S
      PROVE  n \in S
  <2>1. PICK f : Good(n - 1, f)
    BY <1>2
  <2> DEFINE g == [i \in 0 .. n |-> IF i = n THEN step[n][f[n - 1]] ELSE f[i]]
  <2>2. f[n - 1] \in X
    BY <2>1 DEF Iteration
  <2>3. g \in [0 .. n -> X]
    BY <2>1, <2>2 DEF Iteration
  <2>4. g[0] = x
    BY <2>1 DEF Iteration
  <2>5. ASSUME NEW i \in 1 .. n
        PROVE  g[i] = step[i][g[i - 1]]
    <3>1. CASE i = n
      <4>1. g[n] = step[n][f[n - 1]] /\ g[n - 1] = f[n - 1]
        OBVIOUS
      <4> QED  BY <3>1, <4>1
    <3>2. CASE i # n
      <4>1. i \in 1 .. n - 1 /\ g[i] = f[i] /\ g[i - 1] = f[i - 1]
        BY <3>2
      <4> QED  BY <2>1, <4>1 DEF Iteration
    <3> QED  BY <3>1, <3>2
  <2>6. Good(n, g)
    BY <2>3, <2>4, <2>5 DEF Iteration
  <2> HIDE DEF Good, g
  <2> QED  BY <2>6
<1>3. N \in S
  <2> HIDE DEF S
  <2>1. \A n \in 1 .. N : n - 1 \in S => n \in S
    BY <1>2
  <2>2. \A n \in 0 .. N : n \in S
    BY <1>1, <2>1, UpTo
  <2> QED  BY <2>2
<1> QED  BY <1>3

(* What every step keeps, all of them have. *)
LEMMA StepsStay ==
    ASSUME NEW X, NEW N \in Nat, NEW f, f[0] \in X,
           \A n \in 1 .. N : f[n - 1] \in X => f[n] \in X
    PROVE  \A n \in 0 .. N : f[n] \in X
<1> DEFINE S == {n \in 0 .. N : f[n] \in X}
<1>1. 0 \in S /\ \A n \in 1 .. N : n - 1 \in S => n \in S
  OBVIOUS
<1>2. \A n \in 0 .. N : n \in S
  <2> HIDE DEF S
  <2> QED  BY <1>1, UpTo
<1> QED  BY <1>2

ServeFrontRun(f, X, x, seq) ==
    /\ f \in [0 .. Len(seq) -> X] /\ f[0] = x
    /\ \A n \in 1 .. Len(seq) : f[n] = ServeFront(f[n - 1], seq[n])
    /\ Folded(ServeFront, x, seq) = f[Len(seq)]

(* Serving the pool is a run of services, and stays in a set each keeps.   *)
LEMMA ServingRuns ==
    ASSUME NEW X, NEW D, \A z \in X, d \in D : ServeFront(z, d) \in X,
           NEW x \in X, NEW seq \in Seq(D)
    PROVE  \E f : ServeFrontRun(f, X, x, seq)
<1> DEFINE N == Len(seq)
           Runs(f) == f = [n \in 0 .. N |-> IF n = 0 THEN x ELSE ServeFront(f[n - 1], seq[n])]
           step == [n \in 1 .. N |-> [z \in X |-> ServeFront(z, seq[n])]]
<1>1. N \in Nat /\ \A n \in 1 .. N : seq[n] \in D
  OBVIOUS
<1>2. step \in Steppers(N, X)
  BY <1>1 DEF Steppers
<1>3. \E f : Runs(f)
  <2>1. PICK f : Iteration(f, X, N, step, x)
    <3> HIDE DEF step, N
    <3> QED  BY <1>1, <1>2, IterationExists
  <2>2. /\ f \in [0 .. N -> X] /\ f[0] = x
        /\ \A n \in 1 .. N : f[n] = step[n][f[n - 1]]
    <3> HIDE DEF step, N
    <3> QED  BY <2>1 DEF Iteration
  <2>3. ASSUME NEW n \in 1 .. N
        PROVE  f[n] = ServeFront(f[n - 1], seq[n])
    <3>1. f[n - 1] \in X
      <4> HIDE DEF N, step
      <4> QED  BY <1>1, <2>2
    <3>2. step[n][f[n - 1]] = ServeFront(f[n - 1], seq[n])
      <4> HIDE DEF N
      <4> QED  BY <3>1
    <3> QED  BY <2>2, <3>2
  <2>4. \A n \in 0 .. N : f[n] = IF n = 0 THEN x ELSE ServeFront(f[n - 1], seq[n])
    <3> HIDE DEF N, step
    <3> SUFFICES ASSUME NEW n \in 0 .. N
                 PROVE  f[n] = IF n = 0 THEN x ELSE ServeFront(f[n - 1], seq[n])
      OBVIOUS
    <3>1. n = 0 \/ n \in 1 .. N
      BY <1>1
    <3> QED  BY <1>1, <2>2, <2>3, <3>1
  <2>5. f = [n \in 0 .. N |-> IF n = 0 THEN x ELSE ServeFront(f[n - 1], seq[n])]
    <3> HIDE DEF N, step
    <3> QED  BY <2>2, <2>4
  <2> QED  BY <2>5
<1>4. PICK f : Runs(f) /\ Folded(ServeFront, x, seq) = f[N]
  BY <1>3 DEF Folded
<1>5. f[0] = x /\ \A n \in 1 .. N : f[n] = ServeFront(f[n - 1], seq[n])
  <2> HIDE DEF N
  <2>1. \A n \in 0 .. N : f[n] = IF n = 0 THEN x ELSE ServeFront(f[n - 1], seq[n])
    BY <1>4
  <2>2. 0 \in 0 .. N /\ \A n \in 1 .. N : n \in 0 .. N /\ n # 0
    BY <1>1
  <2> QED  BY <2>1, <2>2
<1>6. \A n \in 1 .. N : f[n - 1] \in X => f[n] \in X
  <2> HIDE DEF N
  <2> QED  BY <1>1, <1>5
<1>7. \A n \in 0 .. N : f[n] \in X
  <2> HIDE DEF N
  <2> QED  BY <1>1, <1>5, <1>6, StepsStay
<1>8. f \in [0 .. N -> X]
  <2>1. f = [n \in 0 .. N |-> IF n = 0 THEN x ELSE ServeFront(f[n - 1], seq[n])]
    BY <1>4
  <2> HIDE DEF N
  <2> QED  BY <1>7, <2>1
<1>9. ServeFrontRun(f, X, x, seq)
  BY <1>4, <1>5, <1>8 DEF ServeFrontRun
<1> QED  BY <1>9

LEMMA ServingStays ==
    ASSUME NEW X, NEW D, \A z \in X, d \in D : ServeFront(z, d) \in X,
           NEW x \in X, NEW seq \in Seq(D)
    PROVE  Folded(ServeFront, x, seq) \in X
<1>1. PICK f : ServeFrontRun(f, X, x, seq)
  BY ServingRuns
<1>2. Len(seq) \in 0 .. Len(seq)
  OBVIOUS
<1> QED  BY <1>1, <1>2 DEF ServeFrontRun

ReleaseRun(f, X, x, seq) ==
    /\ f \in [0 .. Len(seq) -> X] /\ f[0] = x
    /\ \A n \in 1 .. Len(seq) : f[n] = Release(f[n - 1], seq[n])
    /\ Folded(Release, x, seq) = f[Len(seq)]

(* So is replaying releases a run of releases.                             *)
LEMMA ReleasingRuns ==
    ASSUME NEW X, NEW D, \A z \in X, d \in D : Release(z, d) \in X,
           NEW x \in X, NEW seq \in Seq(D)
    PROVE  \E f : ReleaseRun(f, X, x, seq)
<1> DEFINE N == Len(seq)
           Runs(f) == f = [n \in 0 .. N |-> IF n = 0 THEN x ELSE Release(f[n - 1], seq[n])]
           step == [n \in 1 .. N |-> [z \in X |-> Release(z, seq[n])]]
<1>1. N \in Nat /\ \A n \in 1 .. N : seq[n] \in D
  OBVIOUS
<1>2. step \in Steppers(N, X)
  BY <1>1 DEF Steppers
<1>3. \E f : Runs(f)
  <2>1. PICK f : Iteration(f, X, N, step, x)
    <3> HIDE DEF step, N
    <3> QED  BY <1>1, <1>2, IterationExists
  <2>2. /\ f \in [0 .. N -> X] /\ f[0] = x
        /\ \A n \in 1 .. N : f[n] = step[n][f[n - 1]]
    <3> HIDE DEF step, N
    <3> QED  BY <2>1 DEF Iteration
  <2>3. ASSUME NEW n \in 1 .. N
        PROVE  f[n] = Release(f[n - 1], seq[n])
    <3>1. f[n - 1] \in X
      <4> HIDE DEF N, step
      <4> QED  BY <1>1, <2>2
    <3>2. step[n][f[n - 1]] = Release(f[n - 1], seq[n])
      <4> HIDE DEF N
      <4> QED  BY <3>1
    <3> QED  BY <2>2, <3>2
  <2>4. \A n \in 0 .. N : f[n] = IF n = 0 THEN x ELSE Release(f[n - 1], seq[n])
    <3> HIDE DEF N, step
    <3> SUFFICES ASSUME NEW n \in 0 .. N
                 PROVE  f[n] = IF n = 0 THEN x ELSE Release(f[n - 1], seq[n])
      OBVIOUS
    <3>1. n = 0 \/ n \in 1 .. N
      BY <1>1
    <3> QED  BY <1>1, <2>2, <2>3, <3>1
  <2>5. f = [n \in 0 .. N |-> IF n = 0 THEN x ELSE Release(f[n - 1], seq[n])]
    <3> HIDE DEF N, step
    <3> QED  BY <2>2, <2>4
  <2> QED  BY <2>5
<1>4. PICK f : Runs(f) /\ Folded(Release, x, seq) = f[N]
  BY <1>3 DEF Folded
<1>5. f[0] = x /\ \A n \in 1 .. N : f[n] = Release(f[n - 1], seq[n])
  <2> HIDE DEF N
  <2>1. \A n \in 0 .. N : f[n] = IF n = 0 THEN x ELSE Release(f[n - 1], seq[n])
    BY <1>4
  <2>2. 0 \in 0 .. N /\ \A n \in 1 .. N : n \in 0 .. N /\ n # 0
    BY <1>1
  <2> QED  BY <2>1, <2>2
<1>6. \A n \in 1 .. N : f[n - 1] \in X => f[n] \in X
  <2> HIDE DEF N
  <2> QED  BY <1>1, <1>5
<1>7. \A n \in 0 .. N : f[n] \in X
  <2> HIDE DEF N
  <2> QED  BY <1>1, <1>5, <1>6, StepsStay
<1>8. f \in [0 .. N -> X]
  <2>1. f = [n \in 0 .. N |-> IF n = 0 THEN x ELSE Release(f[n - 1], seq[n])]
    BY <1>4
  <2> HIDE DEF N
  <2> QED  BY <1>7, <2>1
<1>9. ReleaseRun(f, X, x, seq)
  BY <1>4, <1>5, <1>8 DEF ReleaseRun
<1> QED  BY <1>9

LEMMA ReleasingStays ==
    ASSUME NEW X, NEW D, \A z \in X, d \in D : Release(z, d) \in X,
           NEW x \in X, NEW seq \in Seq(D)
    PROVE  Folded(Release, x, seq) \in X
<1>1. PICK f : ReleaseRun(f, X, x, seq)
  BY ReleasingRuns
<1>2. Len(seq) \in 0 .. Len(seq)
  OBVIOUS
<1> QED  BY <1>1, <1>2 DEF ReleaseRun

(* Applying commands stays in a set each command keeps.                    *)
LEMMA ApplyingStays ==
    ASSUME NEW X, NEW D, \A z \in X, d \in D : ApplyCommand(z, d) \in X,
           NEW x \in X, NEW seq \in Seq(D)
    PROVE  Folded(ApplyCommand, x, seq) \in X
<1> DEFINE N == Len(seq)
           Runs(f) == f = [n \in 0 .. N |-> IF n = 0 THEN x ELSE ApplyCommand(f[n - 1], seq[n])]
           step == [n \in 1 .. N |-> [z \in X |-> ApplyCommand(z, seq[n])]]
<1>1. N \in Nat /\ \A n \in 1 .. N : seq[n] \in D
  OBVIOUS
<1>2. step \in Steppers(N, X)
  BY <1>1 DEF Steppers
<1>3. \E f : Runs(f)
  <2>1. PICK f : Iteration(f, X, N, step, x)
    <3> HIDE DEF step, N
    <3> QED  BY <1>1, <1>2, IterationExists
  <2>2. /\ f \in [0 .. N -> X] /\ f[0] = x
        /\ \A n \in 1 .. N : f[n] = step[n][f[n - 1]]
    <3> HIDE DEF step, N
    <3> QED  BY <2>1 DEF Iteration
  <2>3. ASSUME NEW n \in 1 .. N
        PROVE  f[n] = ApplyCommand(f[n - 1], seq[n])
    <3>1. f[n - 1] \in X
      <4> HIDE DEF N, step
      <4> QED  BY <1>1, <2>2
    <3>2. step[n][f[n - 1]] = ApplyCommand(f[n - 1], seq[n])
      <4> HIDE DEF N
      <4> QED  BY <3>1
    <3> QED  BY <2>2, <3>2
  <2>4. \A n \in 0 .. N : f[n] = IF n = 0 THEN x ELSE ApplyCommand(f[n - 1], seq[n])
    <3> HIDE DEF N, step
    <3> SUFFICES ASSUME NEW n \in 0 .. N
                 PROVE  f[n] = IF n = 0 THEN x ELSE ApplyCommand(f[n - 1], seq[n])
      OBVIOUS
    <3>1. n = 0 \/ n \in 1 .. N
      BY <1>1
    <3> QED  BY <1>1, <2>2, <2>3, <3>1
  <2>5. f = [n \in 0 .. N |-> IF n = 0 THEN x ELSE ApplyCommand(f[n - 1], seq[n])]
    <3> HIDE DEF N, step
    <3> QED  BY <2>2, <2>4
  <2> QED  BY <2>5
<1>4. PICK f : Runs(f) /\ Folded(ApplyCommand, x, seq) = f[N]
  BY <1>3 DEF Folded
<1>5. f[0] = x /\ \A n \in 1 .. N : f[n] = ApplyCommand(f[n - 1], seq[n])
  <2> HIDE DEF N
  <2>1. \A n \in 0 .. N : f[n] = IF n = 0 THEN x ELSE ApplyCommand(f[n - 1], seq[n])
    BY <1>4
  <2>2. 0 \in 0 .. N /\ \A n \in 1 .. N : n \in 0 .. N /\ n # 0
    BY <1>1
  <2> QED  BY <2>1, <2>2
<1>6. \A n \in 1 .. N : f[n - 1] \in X => f[n] \in X
  <2> HIDE DEF N
  <2> QED  BY <1>1, <1>5
<1>7. \A n \in 0 .. N : f[n] \in X
  <2> HIDE DEF N
  <2> QED  BY <1>1, <1>5, <1>6, StepsStay
<1> QED  BY <1>1, <1>4, <1>7

-----------------------------------------------------------------------------
(* The invariant. *)

Bases == [queue      : [Robots -> Seq(Goals)],
          pool       : Seq(DOMAIN Releases),
          cumulative : [Robots -> Nat]]

(* A8, of queues. *)
Exclusive(queue) ==
    \A r, s \in Robots : \A i \in DOMAIN queue[r] : \A j \in DOMAIN queue[s] :
        queue[r][i].location = queue[s][j].location => queue[r][i].task = queue[s][j].task

GoodBases == {b \in Bases : Exclusive(b.queue) /\ \A r \in Robots : Len(b.queue[r]) <= Q}

Latched == [seq : Nat \cup {-1}, active : {FALSE}]
           \cup [seq : Nat, active : {TRUE}, location : Locations]

Assignments == [revision : Nat, goals : [Robots -> Seq(Goals)], unassigned : SUBSET Nat]

(* The topic says what the state and the latches say. *)
Current(p, b, l) ==
    p.revision > 0 => p.goals = ViewGoals(b, l) /\ p.unassigned = ToSet(b.pool)

NodeInv ==
    /\ built \in BOOLEAN /\ deferred \in Seq(DOMAIN Releases) /\ (built => deferred = <<>>)
    /\ base \in GoodBases
    /\ latch \in [Robots -> Latched]
    /\ published \in Assignments /\ Current(published, base, latch)
    /\ nextRelease \in 1 .. Len(Releases) + 1

MonitorInv ==
    /\ seen \in [Robots -> Seq(Goals)] /\ reported \in [Robots -> Seq(Goals)]
    /\ doneQ \in Seq([robot : Robots, goal : Goals])

AssignInv == NodeInv /\ MonitorInv

-----------------------------------------------------------------------------
(* The policy. *)

LEMMA ReleaseType ==
    ASSUME NEW t \in DOMAIN Releases
    PROVE  /\ t \in Nat /\ Releases[t] \in Seq(Locations)
           /\ GoalsOf(t) \in Seq(Goals) /\ Len(GoalsOf(t)) = Len(Releases[t])
           /\ DOMAIN GoalsOf(t) = DOMAIN Releases[t]
           /\ \A k \in DOMAIN Releases[t] : /\ GoalsOf(t)[k].task = t
                                            /\ GoalsOf(t)[k].location = Releases[t][k]
<1>1. t \in Nat /\ Releases[t] \in Seq(Locations)
  BY ReleasesAssumption
<1>2. DOMAIN Releases[t] = 1 .. Len(Releases[t]) /\ Len(Releases[t]) \in Nat
  BY <1>1
<1>3. \A k \in DOMAIN Releases[t] : Releases[t][k] \in Locations /\ k \in Nat
  BY <1>1, <1>2
<1>4. GoalsOf(t) \in [1 .. Len(Releases[t]) -> Goals]
  BY <1>1, <1>2, <1>3 DEF GoalsOf, Goals
<1>5. GoalsOf(t) \in Seq(Goals) /\ Len(GoalsOf(t)) = Len(Releases[t])
  BY <1>2, <1>4
<1> QED  BY <1>1, <1>2, <1>4, <1>5 DEF GoalsOf

(* The ranking has a first robot, whatever it ranks: the keys are natural  *)
(* numbers and the last one tells robots apart.                            *)
LEMMA BestIsCandidate ==
    ASSUME NEW b \in GoodBases, NEW t \in DOMAIN Releases, Candidates(b, t) # {}
    PROVE  Best(b, t) \in Candidates(b, t)
<1> DEFINE C == Candidates(b, t)
           x(r) == Rank(b, t, r)
<1>1. \A r \in C : r \in Robots /\ r \in Nat
  BY RosterAssumption DEF Candidates
<1>2. ASSUME NEW r \in C
      PROVE  x(r)[1] \in Nat /\ x(r)[2] \in Nat /\ x(r)[3] \in Nat /\ x(r)[4] = r
  <2>1. Dist[<<Origin(b, r), Head(Releases[t])>>] \in Nat
    BY DistAssumption DEF Candidates
  <2>2. b.queue[r] \in Seq(Goals) /\ b.cumulative[r] \in Nat
    BY <1>1 DEF GoodBases, Bases
  <2> QED  BY <2>1, <2>2 DEF Rank
<1>3. PICK C1 \in SUBSET C : /\ C1 # {} /\ \A r, s \in C1 : x(r)[1] = x(s)[1]
                             /\ \A r \in C1, s \in C \ C1 : x(r)[1] < x(s)[1]
  <2> DEFINE key == [r \in C |-> x(r)[1]]
  <2>1. key \in [C -> Nat] /\ C # {}
    BY <1>2
  <2>2. PICK W \in SUBSET C : /\ W # {} /\ \A r, s \in W : key[r] = key[s]
                             /\ \A r \in W, s \in C \ W : key[r] < key[s]
    <3> HIDE DEF key, C, x
    <3> QED  BY <2>1, LeastBy
  <2>3. \A r \in C : key[r] = x(r)[1]
    OBVIOUS
  <2> HIDE DEF key, C, x
  <2> QED  BY <2>2, <2>3
<1>4. PICK C2 \in SUBSET C1 : /\ C2 # {} /\ \A r, s \in C2 : x(r)[2] = x(s)[2]
                             /\ \A r \in C2, s \in C1 \ C2 : x(r)[2] < x(s)[2]
  <2> DEFINE key == [r \in C1 |-> x(r)[2]]
  <2>1. key \in [C1 -> Nat] /\ C1 # {}
    BY <1>2, <1>3
  <2>2. PICK W \in SUBSET C1 : /\ W # {} /\ \A r, s \in W : key[r] = key[s]
                             /\ \A r \in W, s \in C1 \ W : key[r] < key[s]
    <3> HIDE DEF key, C, x
    <3> QED  BY <2>1, LeastBy
  <2>3. \A r \in C1 : key[r] = x(r)[2]
    OBVIOUS
  <2> HIDE DEF key, C, x
  <2> QED  BY <2>2, <2>3
<1>5. PICK C3 \in SUBSET C2 : /\ C3 # {} /\ \A r, s \in C3 : x(r)[3] = x(s)[3]
                             /\ \A r \in C3, s \in C2 \ C3 : x(r)[3] < x(s)[3]
  <2> DEFINE key == [r \in C2 |-> x(r)[3]]
  <2>1. key \in [C2 -> Nat] /\ C2 # {}
    BY <1>2, <1>4
  <2>2. PICK W \in SUBSET C2 : /\ W # {} /\ \A r, s \in W : key[r] = key[s]
                             /\ \A r \in W, s \in C2 \ W : key[r] < key[s]
    <3> HIDE DEF key, C, x
    <3> QED  BY <2>1, LeastBy
  <2>3. \A r \in C2 : key[r] = x(r)[3]
    OBVIOUS
  <2> HIDE DEF key, C, x
  <2> QED  BY <2>2, <2>3
<1>6. PICK r \in C3 : \A s \in C3 : r <= s
  BY <1>1, <1>5, Least
<1>7. ASSUME NEW s \in C \ {r}
      PROVE  Precedes(x(r), x(s))
  <2> HIDE DEF C, x
  <2>1. CASE s \notin C1
    <3>1. x(r)[1] < x(s)[1]
      BY <1>3, <2>1
    <3> QED  BY <3>1 DEF Precedes
  <2>2. CASE s \in C1 \ C2
    <3>1. x(r)[1] = x(s)[1] /\ x(r)[2] < x(s)[2]
      BY <1>3, <1>4, <2>2
    <3>2. \A j \in 1 .. 2 - 1 : x(r)[j] = x(s)[j]
      BY <3>1
    <3> QED  BY <3>1, <3>2 DEF Precedes
  <2>3. CASE s \in C2 \ C3
    <3>1. x(r)[1] = x(s)[1] /\ x(r)[2] = x(s)[2] /\ x(r)[3] < x(s)[3]
      BY <1>3, <1>4, <1>5, <2>3
    <3>2. \A j \in 1 .. 3 - 1 : x(r)[j] = x(s)[j]
      BY <3>1
    <3> QED  BY <3>1, <3>2 DEF Precedes
  <2>4. CASE s \in C3
    <3>1. x(r)[1] = x(s)[1] /\ x(r)[2] = x(s)[2] /\ x(r)[3] = x(s)[3]
      BY <1>3, <1>4, <1>5, <2>4
    <3>2. x(r)[4] < x(s)[4]
      BY <1>1, <1>2, <1>6, <2>4
    <3>3. \A j \in 1 .. 4 - 1 : x(r)[j] = x(s)[j]
      BY <3>1
    <3> QED  BY <3>2, <3>3 DEF Precedes
  <2> QED  BY <2>1, <2>2, <2>3, <2>4
<1>8. \E q \in C : \A s \in C \ {q} : Precedes(x(q), x(s))
  BY <1>7
<1> QED  BY <1>8 DEF Best

(* A task goes where none of its endpoints is in use and where it fits.    *)
LEMMA AppendKeeps ==
    ASSUME NEW b \in GoodBases, NEW t \in DOMAIN Releases, NEW r \in Candidates(b, t)
    PROVE  AppendGoals(b, t, r) \in GoodBases /\ AppendGoals(b, t, r).pool = b.pool
<1> DEFINE c == AppendGoals(b, t, r)
<1>1. r \in Robots /\ Len(b.queue[r]) + Len(Releases[t]) <= Q
  BY DEF Candidates
<1>2. b.queue \in [Robots -> Seq(Goals)] /\ b.cumulative \in [Robots -> Nat]
      /\ b.pool \in Seq(DOMAIN Releases) /\ Exclusive(b.queue)
      /\ \A s \in Robots : Len(b.queue[s]) <= Q
  BY DEF GoodBases, Bases
<1>3. Len(Releases[t]) \in Nat
  BY ReleaseType
<1>4. /\ c.queue = [b.queue EXCEPT ![r] = @ \o GoalsOf(t)]
      /\ c.cumulative = [b.cumulative EXCEPT ![r] = @ + Len(Releases[t])]
      /\ c.pool = b.pool
      /\ c = [queue |-> c.queue, pool |-> c.pool, cumulative |-> c.cumulative]
  <2>1. b = [queue |-> b.queue, pool |-> b.pool, cumulative |-> b.cumulative]
    BY DEF GoodBases, Bases
  <2>2. c = [b EXCEPT !.queue      = [b.queue EXCEPT ![r] = @ \o GoalsOf(t)],
                      !.cumulative = [b.cumulative EXCEPT ![r] = @ + Len(Releases[t])]]
    BY <2>1 DEF AppendGoals
  <2> HIDE DEF c
  <2> QED  BY <2>1, <2>2
<1> HIDE DEF c
<1>5. c.queue \in [Robots -> Seq(Goals)] /\ c.cumulative \in [Robots -> Nat]
  BY <1>1, <1>2, <1>3, <1>4, ReleaseType
<1>6. c \in Bases
  BY <1>2, <1>4, <1>5 DEF Bases
<1>7. \A s \in Robots : Len(c.queue[s]) <= Q
  <2>1. Len(c.queue[r]) = Len(b.queue[r]) + Len(Releases[t])
    <3>1. c.queue[r] = b.queue[r] \o GoalsOf(t) /\ b.queue[r] \in Seq(Goals)
      BY <1>1, <1>2, <1>4
    <3>2. GoalsOf(t) \in Seq(Goals) /\ Len(GoalsOf(t)) = Len(Releases[t])
      BY ReleaseType
    <3>3. Len(b.queue[r] \o GoalsOf(t)) = Len(b.queue[r]) + Len(GoalsOf(t))
      BY <3>1, <3>2, ConcatProperties
    <3> QED  BY <3>1, <3>2, <3>3
  <2>2. \A s \in Robots \ {r} : c.queue[s] = b.queue[s]
    BY <1>2, <1>4
  <2> QED  BY <1>1, <1>2, <2>1, <2>2
<1>8. \A s \in Robots : \A i \in DOMAIN c.queue[s] :
         \/ i \in DOMAIN b.queue[s] /\ c.queue[s][i] = b.queue[s][i]
         \/ \E k \in DOMAIN Releases[t] : c.queue[s][i] = GoalsOf(t)[k]
  <2> SUFFICES ASSUME NEW s \in Robots, NEW i \in DOMAIN c.queue[s]
               PROVE  \/ i \in DOMAIN b.queue[s] /\ c.queue[s][i] = b.queue[s][i]
                      \/ \E k \in DOMAIN Releases[t] : c.queue[s][i] = GoalsOf(t)[k]
    OBVIOUS
  <2>1. CASE s # r
    BY <1>2, <1>4, <2>1
  <2>2. CASE s = r
    <3>1. c.queue[r] = b.queue[r] \o GoalsOf(t) /\ b.queue[r] \in Seq(Goals)
      BY <1>1, <1>2, <1>4
    <3>2. CASE i <= Len(b.queue[r])
      BY <2>2, <3>1, <3>2, ReleaseType
    <3>3. CASE i > Len(b.queue[r])
      <4>1. i - Len(b.queue[r]) \in DOMAIN GoalsOf(t)
            /\ c.queue[s][i] = GoalsOf(t)[i - Len(b.queue[r])]
        BY <2>2, <3>1, <3>3, ReleaseType
      <4> QED  BY <4>1, ReleaseType
    <3>4. i \in Nat /\ Len(b.queue[r]) \in Nat
      BY <2>2, <3>1, ReleaseType
    <3> QED  BY <3>2, <3>3, <3>4
  <2> QED  BY <2>1, <2>2
<1>9. ASSUME NEW s \in Robots, NEW i \in DOMAIN b.queue[s], NEW k \in DOMAIN Releases[t]
      PROVE  b.queue[s][i].location # GoalsOf(t)[k].location
  <2>1. ~InUse(b, Releases[t][k])
    BY DEF Candidates
  <2> QED  BY <2>1, ReleaseType DEF InUse
<1>10. Exclusive(c.queue)
  <2> SUFFICES ASSUME NEW s \in Robots, NEW w \in Robots,
                      NEW i \in DOMAIN c.queue[s], NEW j \in DOMAIN c.queue[w],
                      c.queue[s][i].location = c.queue[w][j].location
               PROVE  c.queue[s][i].task = c.queue[w][j].task
    BY DEF Exclusive
  <2>1. CASE /\ i \in DOMAIN b.queue[s] /\ c.queue[s][i] = b.queue[s][i]
             /\ j \in DOMAIN b.queue[w] /\ c.queue[w][j] = b.queue[w][j]
    BY <1>2, <2>1 DEF Exclusive
  <2>2. CASE \E k, m \in DOMAIN Releases[t] :
                c.queue[s][i] = GoalsOf(t)[k] /\ c.queue[w][j] = GoalsOf(t)[m]
    BY <2>2, ReleaseType
  <2> QED  BY <1>8, <1>9, <2>1, <2>2
<1>11. c \in GoodBases
  BY <1>6, <1>7, <1>10 DEF GoodBases
<1> QED  BY <1>4, <1>11 DEF c

LEMMA PoolKeeps ==
    ASSUME NEW b \in GoodBases, NEW pool \in Seq(DOMAIN Releases)
    PROVE  [b EXCEPT !.pool = pool] \in GoodBases
BY DEF GoodBases, Bases

LEMMA ServeKeeps ==
    ASSUME NEW b \in GoodBases, NEW t \in DOMAIN Releases
    PROVE  ServeFront(b, t) \in GoodBases
<1>1. CASE b.pool # <<>> /\ t = Head(b.pool) /\ Candidates(b, t) # {}
  <2> DEFINE c == AppendGoals(b, t, Best(b, t))
  <2>1. c \in GoodBases /\ c.pool = b.pool
    BY <1>1, BestIsCandidate, AppendKeeps
  <2>2. Tail(b.pool) \in Seq(DOMAIN Releases)
    BY <1>1 DEF GoodBases, Bases
  <2>3. ServeFront(b, t) = [c EXCEPT !.pool = Tail(b.pool)]
    BY <1>1, <2>1 DEF ServeFront
  <2> HIDE DEF c
  <2> QED  BY <2>1, <2>2, <2>3, PoolKeeps
<1>2. CASE ~(b.pool # <<>> /\ t = Head(b.pool) /\ Candidates(b, t) # {})
  BY <1>2 DEF ServeFront
<1> QED  BY <1>1, <1>2

LEMMA RetryKeeps ==
    ASSUME NEW b \in GoodBases
    PROVE  RetryPool(b) \in GoodBases
<1>1. b.pool \in Seq(DOMAIN Releases)
  BY DEF GoodBases, Bases
<1> QED  BY <1>1, ServeKeeps, ServingStays DEF RetryPool

LEMMA CompletionPops ==
    ASSUME NEW b \in GoodBases, NEW r \in Robots, b.queue[r] # <<>>
    PROVE  [b EXCEPT !.queue[r] = Tail(@)] \in GoodBases
<1> DEFINE c == [b EXCEPT !.queue[r] = Tail(@)]
<1>1. /\ b.queue \in [Robots -> Seq(Goals)] /\ Exclusive(b.queue)
      /\ \A s \in Robots : Len(b.queue[s]) <= Q
  BY DEF GoodBases, Bases
<1>2. /\ Tail(b.queue[r]) \in Seq(Goals)
      /\ Len(Tail(b.queue[r])) = Len(b.queue[r]) - 1
      /\ \A i \in DOMAIN Tail(b.queue[r]) :
            i + 1 \in DOMAIN b.queue[r] /\ Tail(b.queue[r])[i] = b.queue[r][i + 1]
  BY <1>1
<1>3. c \in Bases /\ c.queue = [b.queue EXCEPT ![r] = Tail(@)]
  BY <1>1, <1>2 DEF GoodBases, Bases
<1> HIDE DEF c
<1>4. \A s \in Robots : Len(c.queue[s]) <= Q
  <2>1. Q \in Nat /\ Len(b.queue[r]) \in Nat
    BY <1>1, RosterAssumption
  <2> QED  BY <1>1, <1>2, <1>3, <2>1
<1>5. \A s \in Robots : \A i \in DOMAIN c.queue[s] :
         \E k \in DOMAIN b.queue[s] : c.queue[s][i] = b.queue[s][k]
  BY <1>1, <1>2, <1>3
<1>6. Exclusive(c.queue)
  <2> SUFFICES ASSUME NEW s \in Robots, NEW w \in Robots,
                      NEW i \in DOMAIN c.queue[s], NEW j \in DOMAIN c.queue[w],
                      c.queue[s][i].location = c.queue[w][j].location
               PROVE  c.queue[s][i].task = c.queue[w][j].task
    BY DEF Exclusive
  <2>1. PICK k \in DOMAIN b.queue[s] : c.queue[s][i] = b.queue[s][k]
    BY <1>5
  <2>2. PICK m \in DOMAIN b.queue[w] : c.queue[w][j] = b.queue[w][m]
    BY <1>5
  <2>3. b.queue[s][k].location = b.queue[w][m].location
        => b.queue[s][k].task = b.queue[w][m].task
    BY <1>1 DEF Exclusive
  <2> QED  BY <2>1, <2>2, <2>3
<1>7. c \in GoodBases
  BY <1>3, <1>4, <1>6 DEF GoodBases
<1> QED  BY <1>7 DEF c

LEMMA CompletionKeeps ==
    ASSUME NEW b \in GoodBases, NEW r \in Robots, NEW goal
    PROVE  OnCompletion(b, r, goal) \in GoodBases
<1>1. CASE b.queue[r] # <<>> /\ goal = Head(b.queue[r])
  BY <1>1, CompletionPops, RetryKeeps DEF OnCompletion
<1>2. CASE ~(b.queue[r] # <<>> /\ goal = Head(b.queue[r]))
  BY <1>2 DEF OnCompletion
<1> QED  BY <1>1, <1>2

LEMMA ReleaseKeeps ==
    ASSUME NEW b \in GoodBases, NEW t \in DOMAIN Releases
    PROVE  OnRelease(b, t) \in GoodBases
<1>1. Append(b.pool, t) \in Seq(DOMAIN Releases)
  BY DEF GoodBases, Bases
<1>2. [b EXCEPT !.pool = Append(@, t)] = [b EXCEPT !.pool = Append(b.pool, t)]
  BY DEF GoodBases, Bases
<1> QED  BY <1>1, <1>2, PoolKeeps, BestIsCandidate, AppendKeeps DEF OnRelease

-----------------------------------------------------------------------------
(* The published view. *)

LEMMA ViewType ==
    ASSUME NEW b \in GoodBases, NEW l \in [Robots -> Latched]
    PROVE  ViewGoals(b, l) \in [Robots -> Seq(Goals)] /\ ToSet(b.pool) \in SUBSET Nat
<1>1. ASSUME NEW r \in Robots, Projected(l, r)
      PROVE  << [task |-> NoTask, leg |-> r, location |-> l[r].location] >> \in Seq(Goals)
  <2>1. l[r] \in Latched /\ l[r].active = TRUE
    BY <1>1 DEF Projected, Latched
  <2>2. l[r].location \in Locations
    BY <2>1 DEF Latched
  <2>3. [task |-> NoTask, leg |-> r, location |-> l[r].location] \in Goals
    BY <2>2, RosterAssumption DEF Goals, NoTask
  <2> QED  BY <2>3
<1>2. b.queue \in [Robots -> Seq(Goals)] /\ b.pool \in Seq(DOMAIN Releases)
  BY DEF GoodBases, Bases
<1>3. ViewGoals(b, l) \in [Robots -> Seq(Goals)]
  BY <1>1, <1>2 DEF ViewGoals
<1>4. DOMAIN Releases \subseteq Nat
  BY ReleasesAssumption
<1>5. ToSet(b.pool) \in SUBSET Nat
  BY <1>2, <1>4 DEF ToSet
<1> QED  BY <1>3, <1>5

(* A drain leaves the topic current, whether or not it publishes.          *)
LEMMA PublishedCurrent ==
    ASSUME NEW p \in Assignments, NEW b \in GoodBases, NEW l \in [Robots -> Latched]
    PROVE  Published(p, b, l) \in Assignments /\ Current(Published(p, b, l), b, l)
<1>1. CASE SameContent(p, b, l)
  BY <1>1 DEF Published, SameContent, Current
<1>2. CASE ~SameContent(p, b, l)
  <2> DEFINE goals == ViewGoals(b, l)
             pool  == ToSet(b.pool)
             q     == [revision |-> p.revision + 1, goals |-> goals, unassigned |-> pool]
  <2>1. Published(p, b, l) = q
    BY <1>2 DEF Published
  <2>2. goals \in [Robots -> Seq(Goals)] /\ pool \in SUBSET Nat
    BY ViewType
  <2> HIDE DEF goals, pool
  <2>3. q \in Assignments /\ q.goals = goals /\ q.unassigned = pool
    BY <2>2 DEF Assignments
  <2> QED  BY <2>1, <2>3 DEF Current, goals, pool
<1> QED  BY <1>1, <1>2

(* The node between two releases of a replay. *)
Replayed == {s \in [base : GoodBases, published : Assignments] :
                Current(s.published, s.base, latch)}

LEMMA OneRelease ==
    ASSUME latch \in [Robots -> Latched], NEW s \in Replayed, NEW t \in DOMAIN Releases
    PROVE  Release(s, t) \in Replayed
<1>1. CASE Releases[t] = <<>>
  BY <1>1 DEF Release
<1>2. CASE Releases[t] # <<>>
  <2> DEFINE b == OnRelease(s.base, t)
             p == Published(s.published, b, latch)
  <2>1. b \in GoodBases /\ s.published \in Assignments
    BY ReleaseKeeps DEF Replayed
  <2>2. p \in Assignments /\ Current(p, b, latch)
    <3> HIDE DEF b
    <3> QED  BY <2>1, PublishedCurrent
  <2>3. Release(s, t) = [base |-> b, published |-> p]
    BY <1>2 DEF Release
  <2> HIDE DEF b, p
  <2> QED  BY <2>1, <2>2, <2>3 DEF Replayed
<1> QED  BY <1>1, <1>2

(* The override latches show the same as before. *)
SameOverride(l, m) ==
    \A r \in Robots : l[r].active = m[r].active /\ (l[r].active => l[r].location = m[r].location)

Applied == {s \in [latch : [Robots -> Latched], touched : BOOLEAN] :
               ~s.touched => SameOverride(s.latch, latch)}

(* Commands that touch nothing leave the override as it was.               *)
LEMMA OneCommand ==
    ASSUME NEW s \in Applied, NEW c \in Commands
    PROVE  ApplyCommand(s, c) \in Applied
<1> DEFINE new == IF c.active THEN [seq |-> c.seq, active |-> TRUE, location |-> c.location]
                              ELSE [seq |-> c.seq, active |-> FALSE]
           old == s.latch[c.robot]
           touches == \/ s.touched
                      \/ old.active # new.active
                      \/ new.active /\ old.location # new.location
<1>1. CASE c.robot \notin Robots \/ c.seq <= old.seq
  BY <1>1 DEF ApplyCommand
<1>2. CASE c.robot \in Robots /\ ~(c.seq <= old.seq)
  <2>1. new \in Latched /\ new.active \in BOOLEAN
    BY DEF Latched, Commands
  <2>2. s.latch \in [Robots -> Latched] /\ s.touched \in BOOLEAN
        /\ (~s.touched => SameOverride(s.latch, latch))
    BY DEF Applied
  <2>3. old.active \in BOOLEAN
    BY <1>2, <2>2 DEF Latched
  <2>4. ApplyCommand(s, c) = [latch   |-> [s.latch EXCEPT ![c.robot] = new],
                              touched |-> touches]
    BY <1>2 DEF ApplyCommand
  <2> HIDE DEF new
  <2>5. [s.latch EXCEPT ![c.robot] = new] \in [Robots -> Latched]
    BY <2>1, <2>2
  <2>6. touches \in BOOLEAN
    BY <2>2
  <2>7. ~touches => SameOverride([s.latch EXCEPT ![c.robot] = new], latch)
    <3> SUFFICES ASSUME ~touches, NEW r \in Robots
                 PROVE  LET l == [s.latch EXCEPT ![c.robot] = new]
                        IN  /\ l[r].active = latch[r].active
                            /\ l[r].active => l[r].location = latch[r].location
      BY DEF SameOverride
    <3>1. old.active = new.active /\ (new.active => old.location = new.location)
      OBVIOUS
    <3>2. SameOverride(s.latch, latch)
      BY <2>2
    <3>3. CASE r = c.robot
      BY <1>2, <2>2, <3>1, <3>2, <3>3 DEF SameOverride
    <3>4. CASE r # c.robot
      BY <1>2, <2>2, <3>2, <3>4 DEF SameOverride
    <3> QED  BY <3>3, <3>4
  <2> HIDE DEF touches
  <2> QED  BY <2>4, <2>5, <2>6, <2>7 DEF Applied
<1> QED  BY <1>1, <1>2

LEMMA SameOverrideSameView ==
    ASSUME NEW b, NEW l, NEW m, SameOverride(l, m)
    PROVE  ViewGoals(b, l) = ViewGoals(b, m)
<1>1. ASSUME NEW r \in Robots
      PROVE  ViewGoals(b, l)[r] = ViewGoals(b, m)[r]
  BY DEF SameOverride, ViewGoals, Projected
<1> QED  BY <1>1 DEF ViewGoals

-----------------------------------------------------------------------------
(* The invariant is inductive. *)

LEMMA AssignInit == Init => AssignInv
<1> SUFFICES ASSUME Init PROVE AssignInv
  OBVIOUS
<1>1. NoGoals \in [Robots -> Seq(Goals)] /\ \A r \in Robots : NoGoals[r] = <<>>
  BY DEF NoGoals
<1>2. base \in Bases /\ base.queue = NoGoals
  BY <1>1 DEF Init, Bases
<1>3. base \in GoodBases
  BY <1>1, <1>2, RosterAssumption DEF GoodBases, Exclusive
<1>4. latch \in [Robots -> Latched]
  BY DEF Init, Latched
<1>5. published \in Assignments /\ Current(published, base, latch)
  BY <1>1 DEF Init, Assignments, Current
<1>6. nextRelease \in 1 .. Len(Releases) + 1
  BY ReleasesAssumption DEF Init
<1>7. <<>> \in Seq(DOMAIN Releases) /\ <<>> \in Seq([robot : Robots, goal : Goals])
  OBVIOUS
<1>8. NodeInv
  BY <1>3, <1>4, <1>5, <1>6, <1>7 DEF Init, NodeInv
<1>9. MonitorInv
  BY <1>1, <1>7 DEF Init, MonitorInv
<1> QED  BY <1>8, <1>9 DEF AssignInv

LEMMA AssignNext == AssignInv /\ [Next]_vars => AssignInv'
<1> SUFFICES ASSUME AssignInv, [Next]_vars PROVE AssignInv'
  OBVIOUS
<1> USE DEF AssignInv
<1>1. CASE OnRoadmap
  <2> DEFINE s0 == [base |-> base, published |-> published]
             s == Replay(s0)
  <2>1. s0 \in Replayed /\ deferred \in Seq(DOMAIN Releases) /\ latch \in [Robots -> Latched]
    BY DEF NodeInv, Replayed
  <2>2. s \in Replayed
    <3> HIDE DEF s0
    <3> QED  BY <2>1, OneRelease, ReleasingStays DEF Replay
  <2>3. base' = s.base /\ published' = s.published /\ latch' = latch
    BY <1>1 DEF OnRoadmap
  <2>4. base' \in GoodBases /\ published' \in Assignments /\ Current(published', base', latch')
    <3> HIDE DEF s
    <3> QED  BY <2>2, <2>3 DEF Replayed
  <2>5. NodeInv'
    <3> HIDE DEF s
    <3> QED  BY <1>1, <2>4 DEF OnRoadmap, NodeInv
  <2> QED  BY <1>1, <2>5 DEF OnRoadmap, MonitorInv, monitorVars
<1>2. CASE OnTaskRelease
  <2>1. nextRelease \in DOMAIN Releases /\ nextRelease' \in 1 .. Len(Releases) + 1
    BY <1>2, ReleasesAssumption DEF OnTaskRelease, NodeInv
  <2>2. CASE built
    <3> DEFINE s0 == [base |-> base, published |-> published]
               s == Release(s0, nextRelease)
    <3>1. s0 \in Replayed /\ latch \in [Robots -> Latched]
      BY DEF NodeInv, Replayed
    <3>2. s \in Replayed
      <4> HIDE DEF s0
      <4> QED  BY <2>1, <3>1, OneRelease
    <3>3. base' = s.base /\ published' = s.published /\ latch' = latch
      BY <1>2, <2>2 DEF OnTaskRelease
    <3>4. base' \in GoodBases /\ published' \in Assignments /\ Current(published', base', latch')
      <4> HIDE DEF s
      <4> QED  BY <3>2, <3>3 DEF Replayed
    <3>5. NodeInv'
      <4> HIDE DEF s
      <4> QED  BY <1>2, <2>1, <2>2, <3>4 DEF OnTaskRelease, NodeInv
    <3> QED  BY <1>2, <3>5 DEF OnTaskRelease, MonitorInv, monitorVars
  <2>3. CASE ~built
    <3>1. deferred' \in Seq(DOMAIN Releases)
      <4>1. deferred' = Append(deferred, nextRelease) /\ deferred \in Seq(DOMAIN Releases)
        BY <1>2, <2>3 DEF OnTaskRelease, NodeInv
      <4> QED  BY <2>1, <4>1, AppendProperties
    <3>2. NodeInv'
      BY <1>2, <2>1, <2>3, <3>1 DEF OnTaskRelease, NodeInv
    <3> QED  BY <1>2, <3>2 DEF OnTaskRelease, MonitorInv, monitorVars
  <2> QED  BY <2>2, <2>3 DEF NodeInv
<1>3. CASE OnGoalCompletion
  <2>1. Head(doneQ).robot \in Robots /\ doneQ' \in Seq([robot : Robots, goal : Goals])
    <3> DEFINE M == [robot : Robots, goal : Goals]
    <3>1. doneQ \in Seq(M) /\ doneQ # <<>> /\ doneQ' = Tail(doneQ)
      BY <1>3 DEF OnGoalCompletion, MonitorInv
    <3>2. Head(doneQ) \in M /\ Tail(doneQ) \in Seq(M)
      <4> HIDE DEF M
      <4> QED  BY <3>1, HeadTailProperties
    <3> QED  BY <3>1, <3>2
  <2>2. base' \in GoodBases
    BY <1>3, <2>1, CompletionKeeps DEF OnGoalCompletion, NodeInv
  <2>3. published' \in Assignments /\ Current(published', base', latch)
    BY <1>3, <2>2, PublishedCurrent DEF OnGoalCompletion, NodeInv
  <2>4. NodeInv'
    BY <1>3, <2>2, <2>3 DEF OnGoalCompletion, NodeInv
  <2> QED  BY <1>3, <2>1, <2>4 DEF OnGoalCompletion, MonitorInv
<1>4. ASSUME NEW msg \in Messages, OnOperatorCommand(msg)
      PROVE  AssignInv'
  <2>1. PICK o \in Orders(msg) :
           LET s == Folded(ApplyCommand, [latch |-> latch, touched |-> FALSE],
                           [i \in DOMAIN msg |-> msg[o[i]]])
           IN  /\ latch' = s.latch
               /\ published' = IF s.touched THEN Published(published, base, latch') ELSE published
               /\ UNCHANGED <<built, deferred, base, nextRelease, monitorVars>>
    BY <1>4 DEF OnOperatorCommand
  <2> DEFINE s0 == [latch |-> latch, touched |-> FALSE]
             sorted == [i \in DOMAIN msg |-> msg[o[i]]]
             s == Folded(ApplyCommand, s0, sorted)
  <2>2. sorted \in Seq(Commands)
    <3>1. msg \in Seq(Commands) /\ o \in [DOMAIN msg -> DOMAIN msg]
      BY MessagesAssumption DEF Orders
    <3>2. \A i \in DOMAIN msg : msg[o[i]] \in Commands
      BY <3>1
    <3>3. DOMAIN msg = 1 .. Len(msg) /\ Len(msg) \in Nat
      BY <3>1
    <3> QED  BY <3>2, <3>3
  <2>3. s0 \in Applied
    BY DEF NodeInv, Applied, SameOverride
  <2>4. s \in Applied
    <3> HIDE DEF s0, sorted
    <3> QED  BY <2>2, <2>3, OneCommand, ApplyingStays
  <2>5. /\ latch' = s.latch
        /\ published' = IF s.touched THEN Published(published, base, latch') ELSE published
        /\ UNCHANGED <<built, deferred, base, nextRelease, monitorVars>>
    BY <2>1
  <2> HIDE DEF s
  <2>6. latch' \in [Robots -> Latched]
    BY <2>4, <2>5 DEF Applied
  <2>7. published' \in Assignments /\ Current(published', base, latch')
    <3>1. CASE s.touched
      BY <2>5, <2>6, <3>1, PublishedCurrent DEF NodeInv
    <3>2. CASE ~s.touched
      <4>1. SameOverride(latch', latch)
        BY <2>4, <2>5, <3>2 DEF Applied
      <4>2. ViewGoals(base, latch') = ViewGoals(base, latch)
        BY <4>1, SameOverrideSameView
      <4> QED  BY <2>5, <3>2, <4>2 DEF NodeInv, Current
    <3> QED  BY <3>1, <3>2
  <2>8. NodeInv'
    BY <2>5, <2>6, <2>7 DEF NodeInv
  <2> QED  BY <2>5, <2>8 DEF MonitorInv, monitorVars
<1>5. CASE DeliverAssignment
  BY <1>5 DEF DeliverAssignment, NodeInv, MonitorInv, nodeVars, Assignments
<1>6. ASSUME NEW r \in Robots, Complete(r)
      PROVE  AssignInv'
  <2>1. PICK k \in DOMAIN seen[r] :
           /\ reported' = [reported EXCEPT ![r] = Append(@, seen[r][k])]
           /\ doneQ' = Append(doneQ, [robot |-> r, goal |-> seen[r][k]])
    BY <1>6 DEF Complete
  <2>2. seen[r][k] \in Goals
    BY <2>1 DEF MonitorInv
  <2>3. MonitorInv'
    BY <1>6, <2>1, <2>2 DEF Complete, MonitorInv
  <2> QED  BY <1>6, <2>3 DEF Complete, NodeInv, nodeVars
<1>7. CASE UNCHANGED vars
  BY <1>7 DEF vars, nodeVars, monitorVars, NodeInv, MonitorInv
<1> QED  BY <1>1, <1>2, <1>3, <1>4, <1>5, <1>6, <1>7 DEF Next

(* Queues, pool, latches and the topic keep their types, and no queue is   *)
(* ever longer than the policy's capacity (GreedyTailAppend).              *)
THEOREM TypeCorrect == Spec => []TypeOK
<1>1. AssignInv => TypeOK
  <2> SUFFICES ASSUME AssignInv PROVE TypeOK
    OBVIOUS
  <2>1. DOMAIN Releases \subseteq Nat
    BY ReleasesAssumption
  <2>2. deferred \in Seq(Nat) /\ base.pool \in Seq(Nat)
    BY <2>1 DEF AssignInv, NodeInv, GoodBases, Bases
  <2>3. \A r \in Robots : latch[r].active \in BOOLEAN /\ latch[r].seq \in Nat \cup {-1}
    BY DEF AssignInv, NodeInv, Latched
  <2>4. \A k \in DOMAIN doneQ : doneQ[k].robot \in Robots /\ doneQ[k].goal \in Goals
    <3> DEFINE M == [robot : Robots, goal : Goals]
    <3>1. doneQ \in Seq(M)
      BY DEF AssignInv, MonitorInv
    <3>2. \A k \in DOMAIN doneQ : doneQ[k] \in M
      <4> HIDE DEF M
      <4> QED  BY <3>1
    <3> QED  BY <3>2
  <2>5. /\ base.queue \in [Robots -> Seq(Goals)] /\ base.cumulative \in [Robots -> Nat]
        /\ \A r \in Robots : Len(base.queue[r]) <= Q
    BY DEF AssignInv, NodeInv, GoodBases, Bases
  <2>6. /\ published.revision \in Nat /\ published.goals \in [Robots -> Seq(Goals)]
        /\ published.unassigned \in SUBSET Nat
    BY DEF AssignInv, NodeInv, Assignments
  <2> QED  BY <2>2, <2>3, <2>4, <2>5, <2>6 DEF AssignInv, NodeInv, MonitorInv, TypeOK
<1> QED  BY <1>1, AssignInit, AssignNext, PTL DEF Spec

(* Unfinished goals of two tasks never share an endpoint, in whatever      *)
(* order releases, replays and completions come (A8).                      *)
THEOREM EndpointsStayApart == Spec => []EndpointsExclusive
<1>1. AssignInv => EndpointsExclusive
  BY DEF AssignInv, NodeInv, GoodBases, Exclusive, EndpointsExclusive
<1> QED  BY <1>1, AssignInit, AssignNext, PTL DEF Spec

(* The latched assignment is what queues, pool and override latches say,   *)
(* although a drain publishes only when it finds a difference (drain_once).*)
THEOREM TopicIsCurrent == Spec => []PublishedIsCurrent
<1>1. AssignInv => PublishedIsCurrent
  BY DEF AssignInv, NodeInv, Current, PublishedIsCurrent
<1> QED  BY <1>1, AssignInit, AssignNext, PTL DEF Spec

-----------------------------------------------------------------------------
(* A replay may publish more than once.  Goals and pool only grow in it,   *)
(* so what it publishes last is not what stood there before.               *)

Extends(big, small) ==
    Len(small) <= Len(big) /\ \A i \in 1 .. Len(small) : big[i] = small[i]

Below(p, q) ==
    (\A r \in Robots : Extends(q.goals[r], p.goals[r])) /\ p.unassigned \subseteq q.unassigned

SameAs(p, q) == p.goals = q.goals /\ p.unassigned = q.unassigned

LEMMA BelowOrder ==
    ASSUME NEW p \in Assignments, NEW q \in Assignments, NEW w \in Assignments
    PROVE  /\ Below(p, p)
           /\ Below(p, q) /\ Below(q, w) => Below(p, w)
           /\ Below(p, q) /\ Below(q, p) => SameAs(p, q)
<1>1. \A r \in Robots : /\ p.goals[r] \in Seq(Goals) /\ q.goals[r] \in Seq(Goals)
                        /\ w.goals[r] \in Seq(Goals)
                        /\ Len(p.goals[r]) \in Nat /\ Len(q.goals[r]) \in Nat
                        /\ Len(w.goals[r]) \in Nat
  BY DEF Assignments
<1>2. Below(p, p)
  BY <1>1 DEF Below, Extends
<1>3. Below(p, q) /\ Below(q, w) => Below(p, w)
  BY <1>1 DEF Below, Extends
<1>4. ASSUME Below(p, q), Below(q, p)
      PROVE  SameAs(p, q)
  <2>1. ASSUME NEW r \in Robots
        PROVE  p.goals[r] = q.goals[r]
    <3>1. Len(p.goals[r]) = Len(q.goals[r])
      BY <1>1, <1>4 DEF Below, Extends
    <3>2. \A i \in 1 .. Len(p.goals[r]) : p.goals[r][i] = q.goals[r][i]
      BY <1>4 DEF Below, Extends
    <3> QED  BY <1>1, <3>1, <3>2, SeqEqual
  <2>2. p.goals \in [Robots -> Seq(Goals)] /\ q.goals \in [Robots -> Seq(Goals)]
    BY DEF Assignments
  <2> QED  BY <1>4, <2>1, <2>2 DEF SameAs, Below
<1> QED  BY <1>2, <1>3, <1>4

LEMMA ReleaseGrows ==
    ASSUME NEW b \in GoodBases, NEW t \in DOMAIN Releases
    PROVE  /\ \A r \in Robots : Extends(OnRelease(b, t).queue[r], b.queue[r])
           /\ ToSet(b.pool) \subseteq ToSet(OnRelease(b, t).pool)
<1>1. b.queue \in [Robots -> Seq(Goals)] /\ b.pool \in Seq(DOMAIN Releases)
  BY DEF GoodBases, Bases
<1>2. \A r \in Robots : Len(b.queue[r]) \in Nat
  BY <1>1
<1>3. CASE Candidates(b, t) = {}
  <2> DEFINE pool == Append(b.pool, t)
  <2>1. OnRelease(b, t) = [b EXCEPT !.pool = pool]
    BY <1>3 DEF OnRelease
  <2>2. OnRelease(b, t).queue = b.queue /\ OnRelease(b, t).pool = pool
    BY <2>1 DEF GoodBases, Bases
  <2>3. Len(pool) = Len(b.pool) + 1 /\ \A i \in 1 .. Len(b.pool) : pool[i] = b.pool[i]
    BY <1>1
  <2>4. DOMAIN pool = 1 .. Len(b.pool) + 1 /\ DOMAIN b.pool = 1 .. Len(b.pool)
        /\ Len(b.pool) \in Nat
    BY <1>1
  <2> HIDE DEF pool
  <2>5. ToSet(b.pool) \subseteq ToSet(pool)
    BY <2>3, <2>4 DEF ToSet
  <2> QED  BY <1>2, <2>2, <2>5 DEF Extends
<1>4. CASE Candidates(b, t) # {}
  <2> DEFINE best == Best(b, t)
  <2>1. best \in Candidates(b, t) /\ best \in Robots
    BY <1>4, BestIsCandidate DEF Candidates
  <2>2. OnRelease(b, t) = AppendGoals(b, t, best)
    BY <1>4 DEF OnRelease
  <2> HIDE DEF best
  <2>3. OnRelease(b, t).pool = b.pool
    BY <2>1, <2>2, AppendKeeps
  <2>4. OnRelease(b, t).queue = [b.queue EXCEPT ![best] = @ \o GoalsOf(t)]
    BY <2>2 DEF AppendGoals, GoodBases, Bases
  <2>5. GoalsOf(t) \in Seq(Goals)
    BY ReleaseType
  <2>6. Extends(b.queue[best] \o GoalsOf(t), b.queue[best])
    <3>1. b.queue[best] \in Seq(Goals)
      BY <1>1, <2>1
    <3> QED  BY <2>5, <3>1, ConcatProperties DEF Extends
  <2>7. ASSUME NEW r \in Robots
        PROVE  Extends(OnRelease(b, t).queue[r], b.queue[r])
    <3>1. CASE r = best
      BY <1>1, <2>4, <2>6, <3>1
    <3>2. CASE r # best
      <4>1. OnRelease(b, t).queue[r] = b.queue[r]
        BY <1>1, <2>4, <3>2
      <4> QED  BY <1>2, <4>1 DEF Extends
    <3> QED  BY <3>1, <3>2
  <2> QED  BY <2>3, <2>7
<1> QED  BY <1>3, <1>4

(* What a replay has published so far, compared with what stood there. *)
Moved(p0, p) ==
    p0.revision > 0 => /\ p.revision > 0
                       /\ Below(p0, p)
                       /\ p = p0 \/ ~SameAs(p, p0)

MovedOn == {s \in Replayed : Moved(published, s.published)}

LEMMA OneReleaseMoves ==
    ASSUME latch \in [Robots -> Latched], published \in Assignments,
           NEW s \in MovedOn, NEW t \in DOMAIN Releases
    PROVE  Release(s, t) \in MovedOn
<1>1. s \in Replayed /\ Release(s, t) \in Replayed
  BY OneRelease DEF MovedOn
<1>2. CASE Releases[t] = <<>> \/ published.revision = 0
  <2>1. CASE Releases[t] = <<>>
    BY <2>1 DEF Release
  <2>2. CASE published.revision = 0
    BY <1>1, <2>2 DEF MovedOn, Moved
  <2> QED  BY <1>2, <2>1, <2>2
<1>3. CASE Releases[t] # <<>> /\ published.revision # 0
  <2> DEFINE b == OnRelease(s.base, t)
             p == Published(s.published, b, latch)
  <2>1. Release(s, t) = [base |-> b, published |-> p]
    BY <1>3 DEF Release
  <2>2. /\ s.base \in GoodBases /\ s.published \in Assignments
        /\ Current(s.published, s.base, latch)
    BY <1>1 DEF Replayed
  <2>3. published.revision > 0
    BY <1>3 DEF Assignments
  <2>4. /\ s.published.revision > 0 /\ Below(published, s.published)
        /\ s.published = published \/ ~SameAs(s.published, published)
    BY <2>3 DEF MovedOn, Moved
  <2>5. p \in Assignments /\ Current(p, b, latch)
    <3>1. b \in GoodBases
      BY <2>2, ReleaseKeeps
    <3> HIDE DEF b
    <3> QED  BY <2>2, <3>1, PublishedCurrent
  <2>6. p.revision > 0 /\ (p = s.published \/ ~SameAs(p, s.published))
    <3>1. CASE SameContent(s.published, b, latch)
      BY <2>4, <3>1 DEF Published
    <3>2. CASE ~SameContent(s.published, b, latch)
      <4>1. p = [revision |-> s.published.revision + 1, goals |-> ViewGoals(b, latch),
                 unassigned |-> ToSet(b.pool)]
        BY <3>2 DEF Published
      <4>2. s.published.revision \in Nat
        BY <2>2 DEF Assignments
      <4>3. p.goals = ViewGoals(b, latch) /\ p.unassigned = ToSet(b.pool)
            /\ p.revision = s.published.revision + 1
        BY <4>1
      <4> HIDE DEF p, b
      <4> QED  BY <2>4, <3>2, <4>2, <4>3 DEF SameContent, SameAs
    <3> QED  BY <3>1, <3>2
  <2>7. /\ \A r \in Robots : Extends(b.queue[r], s.base.queue[r])
        /\ ToSet(s.base.pool) \subseteq ToSet(b.pool)
    BY <2>2, ReleaseGrows
  <2> HIDE DEF b, p
  <2>8. Below(s.published, p)
    <3>1. s.published.goals = ViewGoals(s.base, latch) /\ p.goals = ViewGoals(b, latch)
          /\ s.published.unassigned = ToSet(s.base.pool) /\ p.unassigned = ToSet(b.pool)
      BY <2>2, <2>4, <2>5, <2>6 DEF Current
    <3>2. ASSUME NEW r \in Robots
          PROVE  Extends(p.goals[r], s.published.goals[r])
      <4>1. CASE Projected(latch, r)
        <5>1. p.goals[r] = s.published.goals[r]
          BY <3>1, <4>1 DEF ViewGoals
        <5>2. p.goals[r] \in Seq(Goals) /\ Len(p.goals[r]) \in Nat
          BY <2>5 DEF Assignments
        <5> QED  BY <5>1, <5>2 DEF Extends
      <4>2. CASE ~Projected(latch, r)
        BY <2>7, <3>1, <4>2 DEF ViewGoals
      <4> QED  BY <4>1, <4>2
    <3> QED  BY <2>7, <3>1, <3>2 DEF Below
  <2>9. Below(published, p)
    BY <2>2, <2>4, <2>5, <2>8, BelowOrder
  <2>10. p = published \/ ~SameAs(p, published)
    <3>1. CASE s.published = published
      BY <2>6, <3>1
    <3>2. CASE s.published # published /\ SameAs(p, published)
      <4>1. Below(s.published, published)
        BY <2>8, <3>2 DEF Below, SameAs
      <4>2. SameAs(s.published, published)
        BY <2>2, <2>4, <4>1, BelowOrder DEF SameAs
      <4> QED  BY <2>4, <3>2, <4>2
    <3> QED  BY <3>1, <3>2
  <2> QED  BY <1>1, <2>1, <2>6, <2>9, <2>10 DEF MovedOn, Moved
<1> QED  BY <1>2, <1>3

LEMMA DrainMoves ==
    ASSUME NEW p \in Assignments, NEW b, NEW l, p.revision > 0, Published(p, b, l) # p
    PROVE  ~SameAs(Published(p, b, l), p)
BY DEF Published, SameContent, SameAs

(* Whatever a step publishes differs from what the topic held, although a  *)
(* replay or a message of several commands drains more than once (A32).    *)
THEOREM EveryRevisionIsAChange == Spec => NoNoopPublication
<1> DEFINE Changes == published' # published /\ published.revision > 0
                      => \/ published'.goals # published.goals
                         \/ published'.unassigned # published.unassigned
<1>1. ASSUME AssignInv, [Next]_vars, published' # published, published.revision > 0
      PROVE  ~SameAs(published', published)
  <2>1. published \in Assignments /\ latch \in [Robots -> Latched] /\ base \in GoodBases
    BY <1>1 DEF AssignInv, NodeInv
  <2> DEFINE s0 == [base |-> base, published |-> published]
  <2>2. s0 \in MovedOn
    <3>1. s0 \in Replayed
      BY <1>1, <2>1 DEF Replayed, AssignInv, NodeInv
    <3> QED  BY <2>1, <3>1, BelowOrder DEF MovedOn, Moved
  <2>3. CASE OnRoadmap
    <3>1. deferred \in Seq(DOMAIN Releases)
      BY <1>1 DEF AssignInv, NodeInv
    <3> DEFINE s == Replay(s0)
    <3>2. s \in MovedOn
      <4> HIDE DEF s0
      <4> QED  BY <2>1, <2>2, <3>1, OneReleaseMoves, ReleasingStays DEF Replay
    <3>3. published' = s.published
      BY <2>3 DEF OnRoadmap
    <3> HIDE DEF s
    <3> QED  BY <1>1, <3>2, <3>3 DEF MovedOn, Moved
  <2>4. CASE OnTaskRelease
    <3> DEFINE s == Release(s0, nextRelease)
    <3>1. built /\ published' = s.published
      BY <1>1, <2>4 DEF OnTaskRelease
    <3>2. nextRelease \in DOMAIN Releases
      BY <1>1, <2>4, ReleasesAssumption DEF OnTaskRelease, AssignInv, NodeInv
    <3>3. s \in MovedOn
      <4> HIDE DEF s0
      <4> QED  BY <2>1, <2>2, <3>2, OneReleaseMoves
    <3> HIDE DEF s
    <3> QED  BY <1>1, <3>1, <3>3 DEF MovedOn, Moved
  <2>5. CASE OnGoalCompletion
    BY <1>1, <2>1, <2>5, DrainMoves DEF OnGoalCompletion
  <2>6. ASSUME NEW msg \in Messages, OnOperatorCommand(msg)
        PROVE  ~SameAs(published', published)
    <3>1. published' = published \/ published' = Published(published, base, latch')
      BY <2>6 DEF OnOperatorCommand
    <3> QED  BY <1>1, <2>1, <3>1, DrainMoves
  <2>7. CASE DeliverAssignment \/ (\E r \in Robots : Complete(r)) \/ UNCHANGED vars
    BY <1>1, <2>7 DEF DeliverAssignment, Complete, vars, nodeVars
  <2> QED  BY <1>1, <2>3, <2>4, <2>5, <2>6, <2>7 DEF Next
<1>2. AssignInv /\ [Next]_vars => [Changes]_vars
  BY <1>1 DEF SameAs
<1>3. NoNoopPublication <=> [][Changes]_vars
  BY DEF NoNoopPublication
<1> HIDE DEF Changes
<1> QED  BY <1>2, <1>3, AssignInit, AssignNext, PTL DEF Spec
=============================================================================

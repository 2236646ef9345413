---------------------- MODULE AssignmentHistory_proofs ----------------------
(***************************************************************************)
(* What becomes of a task in Assignment, for every roster, capacity,       *)
(* sequence of tasks, distances and operator messages: no task is lost or  *)
(* given twice, the completions on their way are the next goals of the     *)
(* queue, what a robot was given only grows at the end, and no pool is     *)
(* left without a goal whose completion retries it.                        *)
(***************************************************************************)
EXTENDS Assignment_proofs, FiniteSetTheorems

-----------------------------------------------------------------------------
(* Sequences. *)

LEMMA Associative ==
    ASSUME NEW X, NEW a \in Seq(X), NEW b \in Seq(X), NEW c \in Seq(X)
    PROVE  (a \o b) \o c = a \o (b \o c)
<1>1. /\ a \o b \in Seq(X) /\ b \o c \in Seq(X)
      /\ (a \o b) \o c \in Seq(X) /\ a \o (b \o c) \in Seq(X)
  BY ConcatProperties
<1>2. Len(a) \in Nat /\ Len(b) \in Nat /\ Len(c) \in Nat
  OBVIOUS
<1>3. /\ Len(a \o b) = Len(a) + Len(b) /\ Len(b \o c) = Len(b) + Len(c)
      /\ Len((a \o b) \o c) = Len(a) + Len(b) + Len(c)
      /\ Len(a \o (b \o c)) = Len(a) + Len(b) + Len(c)
  BY <1>1, <1>2, ConcatProperties
<1>4. ASSUME NEW i \in 1 .. Len(a) + Len(b) + Len(c)
      PROVE  ((a \o b) \o c)[i] = (a \o (b \o c))[i]
  <2>1. ((a \o b) \o c)[i] = IF i <= Len(a) + Len(b)
                              THEN (a \o b)[i] ELSE c[i - (Len(a) + Len(b))]
    BY <1>1, <1>2, <1>3, ConcatProperties
  <2>2. (a \o (b \o c))[i] = IF i <= Len(a) THEN a[i] ELSE (b \o c)[i - Len(a)]
    BY <1>1, <1>2, <1>3, ConcatProperties
  <2>3. CASE i <= Len(a)
    BY <1>2, <2>1, <2>2, <2>3, ConcatProperties
  <2>4. CASE Len(a) < i /\ i <= Len(a) + Len(b)
    <3>1. (a \o b)[i] = b[i - Len(a)] /\ (b \o c)[i - Len(a)] = b[i - Len(a)]
      BY <1>2, <2>4, ConcatProperties
    <3> QED  BY <1>2, <2>1, <2>2, <2>4, <3>1
  <2>5. CASE Len(a) + Len(b) < i
    <3>1. (b \o c)[i - Len(a)] = c[i - (Len(a) + Len(b))]
      BY <1>2, <2>5, ConcatProperties
    <3> QED  BY <1>2, <2>1, <2>2, <2>5, <3>1
  <2> QED  BY <1>2, <2>3, <2>4, <2>5
<1> QED  BY <1>1, <1>3, <1>4, SeqEqual

\* names for \o and Append that the provers do not take apart
Join(s, t) == s \o t
Plus(s, x) == Append(s, x)

Agree(u, v, n) == \A i \in 1 .. n : u[i] = v[i]

\* q stands in h after the first n elements
Carries(h, n, q) == \A i \in 1 .. Len(q) : h[n + i] = q[i]

LEMMA JoinType ==
    ASSUME NEW X, NEW s \in Seq(X), NEW t \in Seq(X)
    PROVE  /\ Join(s, t) \in Seq(X) /\ Len(Join(s, t)) = Len(s) + Len(t)
           /\ \A i \in 1 .. Len(s) : Join(s, t)[i] = s[i]
           /\ Carries(Join(s, t), Len(s), t)
BY ConcatProperties DEF Join, Carries

LEMMA JoinAssociative ==
    ASSUME NEW X, NEW a \in Seq(X), NEW b \in Seq(X), NEW c \in Seq(X)
    PROVE  Join(Join(a, b), c) = Join(a, Join(b, c))
BY Associative DEF Join

LEMMA JoinNothing ==
    ASSUME NEW X, NEW s \in Seq(X)
    PROVE  Join(s, <<>>) = s /\ Join(<<>>, s) = s
BY ConcatEmptySeq DEF Join

LEMMA PlusType ==
    ASSUME NEW X, NEW s \in Seq(X), NEW x \in X
    PROVE  /\ Plus(s, x) \in Seq(X) /\ Len(Plus(s, x)) = Len(s) + 1
           /\ \A i \in 1 .. Len(s) : Plus(s, x)[i] = s[i]
           /\ Plus(s, x)[Len(s) + 1] = x
BY AppendProperties DEF Plus

LEMMA PlusIsJoin ==
    ASSUME NEW X, NEW s \in Seq(X), NEW x \in X
    PROVE  Plus(s, x) = Join(s, <<x>>)
BY AppendIsConcat DEF Plus, Join

LEMMA PlusJoin ==
    ASSUME NEW X, NEW a \in Seq(X), NEW b \in Seq(X), NEW x \in X
    PROVE  Plus(Join(a, b), x) = Join(a, Plus(b, x))
<1> DEFINE y == <<x>>
<1>1. y \in Seq(X) /\ Plus(b, x) = Join(b, y)
  BY PlusIsJoin
<1>2. Plus(Join(a, b), x) = Join(Join(a, b), y)
  BY JoinType, PlusIsJoin
<1> HIDE DEF y
<1> QED  BY <1>1, <1>2, JoinAssociative

-----------------------------------------------------------------------------
(* Only, the filter of sequences. *)

Filtering(f, X, seq, S) ==
    /\ f \in [0 .. Len(seq) -> Seq(X)] /\ f[0] = <<>>
    /\ \A n \in 1 .. Len(seq) :
          f[n] = IF seq[n] \in S THEN Plus(f[n - 1], seq[n]) ELSE f[n - 1]

(* The filter is the last of as many steps as the sequence has elements.   *)
LEMMA OnlyRuns ==
    ASSUME NEW X, NEW S, NEW seq \in Seq(X)
    PROVE  \E f : Filtering(f, X, seq, S) /\ f[Len(seq)] = Only(seq, S)
<1> DEFINE N == Len(seq)
           next(z, n) == IF seq[n] \in S THEN Plus(z, seq[n]) ELSE z
           Runs(f) == f = [n \in 0 .. N |->
                             IF n = 0 THEN <<>>
                             ELSE IF seq[n] \in S THEN Plus(f[n - 1], seq[n]) ELSE f[n - 1]]
           step == [n \in 1 .. N |-> [z \in Seq(X) |-> next(z, n)]]
<1>1. N \in Nat /\ \A n \in 1 .. N : seq[n] \in X
  OBVIOUS
<1>2. ASSUME NEW z \in Seq(X), NEW n \in 1 .. N
      PROVE  next(z, n) \in Seq(X)
  <2>1. seq[n] \in X
    BY <1>1
  <2> QED  BY <2>1, PlusType
<1>3. step \in Steppers(N, Seq(X))
  <2> HIDE DEF N, next
  <2> QED  BY <1>2 DEF Steppers
<1>4. PICK f : Iteration(f, Seq(X), N, step, <<>>)
  <2>1. <<>> \in Seq(X)
    OBVIOUS
  <2> HIDE DEF step, N
  <2> QED  BY <1>1, <1>3, <2>1, IterationExists
<1>5. f \in [0 .. N -> Seq(X)] /\ f[0] = <<>>
  <2> HIDE DEF step, N
  <2> QED  BY <1>4 DEF Iteration
<1>6. ASSUME NEW n \in 1 .. N
      PROVE  f[n] = next(f[n - 1], n)
  <2>1. f[n - 1] \in Seq(X)
    <3> HIDE DEF N, step
    <3> QED  BY <1>1, <1>5
  <2>2. step[n][f[n - 1]] = next(f[n - 1], n)
    <3> HIDE DEF N, next
    <3> QED  BY <2>1
  <2>3. f[n] = step[n][f[n - 1]]
    <3> HIDE DEF N, step
    <3> QED  BY <1>4 DEF Iteration
  <2> QED  BY <2>2, <2>3
<1>7. Runs(f)
  <2>1. ASSUME NEW n \in 0 .. N
        PROVE  f[n] = IF n = 0 THEN <<>>
                      ELSE IF seq[n] \in S THEN Plus(f[n - 1], seq[n]) ELSE f[n - 1]
    <3>1. n = 0 \/ n \in 1 .. N
      <4> HIDE DEF N
      <4> QED  BY <1>1
    <3> HIDE DEF N
    <3>2. CASE n = 0
      BY <1>5, <3>2
    <3>3. CASE n # 0
      BY <1>6, <3>1, <3>3
    <3> QED  BY <3>2, <3>3
  <2> HIDE DEF N
  <2> QED  BY <1>5, <2>1
<1>8. PICK g : Runs(g) /\ Only(seq, S) = g[N]
  BY <1>7 DEF Only, Plus
<1>9. g[0] = <<>> /\ \A n \in 1 .. N : g[n] = next(g[n - 1], n)
  <2> HIDE DEF N
  <2>1. \A n \in 0 .. N : g[n] = IF n = 0 THEN <<>> ELSE next(g[n - 1], n)
    BY <1>8
  <2>2. 0 \in 0 .. N /\ \A n \in 1 .. N : n \in 0 .. N /\ n # 0
    BY <1>1
  <2> HIDE DEF next
  <2> QED  BY <2>1, <2>2
<1>10. \A n \in 1 .. N : g[n - 1] \in Seq(X) => g[n] \in Seq(X)
  <2> HIDE DEF N, next
  <2> QED  BY <1>2, <1>9
<1>11. \A n \in 0 .. N : g[n] \in Seq(X)
  <2>1. g[0] \in Seq(X)
    BY <1>9
  <2> HIDE DEF N
  <2> QED  BY <1>1, <1>10, <2>1, StepsStay
<1>12. g \in [0 .. N -> Seq(X)]
  <2>1. g = [n \in 0 .. N |->
              IF n = 0 THEN <<>>
              ELSE IF seq[n] \in S THEN Plus(g[n - 1], seq[n]) ELSE g[n - 1]]
    BY <1>8
  <2> HIDE DEF N
  <2> QED  BY <1>11, <2>1
<1>13. Filtering(g, X, seq, S)
  BY <1>9, <1>12 DEF Filtering
<1> QED  BY <1>8, <1>13

LEMMA OnlyType ==
    ASSUME NEW X, NEW S, NEW seq \in Seq(X)
    PROVE  Only(seq, S) \in Seq(X)
<1>1. PICK f : Filtering(f, X, seq, S) /\ f[Len(seq)] = Only(seq, S)
  BY OnlyRuns
<1>2. Len(seq) \in 0 .. Len(seq)
  OBVIOUS
<1> QED  BY <1>1, <1>2 DEF Filtering

(* The filter of a concatenation is the concatenation of the filters.      *)
LEMMA OnlyConcat ==
    ASSUME NEW X, NEW S, NEW s \in Seq(X), NEW t \in Seq(X)
    PROVE  Only(Join(s, t), S) = Join(Only(s, S), Only(t, S))
<1> DEFINE u == Join(s, t)
           m == Len(s)
           N == Len(t)
<1>1. /\ u \in Seq(X) /\ Len(u) = m + N /\ m \in Nat /\ N \in Nat
      /\ \A n \in 1 .. m : u[n] = s[n]
      /\ \A n \in 1 .. N : u[m + n] = t[n]
  <2>1. m \in Nat /\ N \in Nat
    OBVIOUS
  <2>2. u \in Seq(X) /\ Len(u) = m + N
    BY JoinType
  <2>3. \A n \in 1 .. m : u[n] = s[n]
    BY JoinType
  <2>4. \A n \in 1 .. N : u[m + n] = t[n]
    BY JoinType DEF Carries
  <2> HIDE DEF u, m, N
  <2> QED  BY <2>1, <2>2, <2>3, <2>4
<1>2. PICK f : Filtering(f, X, s, S) /\ f[m] = Only(s, S)
  BY OnlyRuns
<1>3. PICK g : Filtering(g, X, t, S) /\ g[N] = Only(t, S)
  BY OnlyRuns
<1>4. PICK h : Filtering(h, X, u, S) /\ h[m + N] = Only(u, S)
  <2> HIDE DEF u
  <2> QED  BY <1>1, OnlyRuns
<1> HIDE DEF u
<1>5. \A n \in 0 .. m : n \in {i \in 0 .. m : h[i] = f[i]}
  <2> DEFINE A == {i \in 0 .. m : h[i] = f[i]}
  <2>1. 0 \in A
    BY <1>1, <1>2, <1>4 DEF Filtering
  <2>2. ASSUME NEW n \in 1 .. m, n - 1 \in A
        PROVE  n \in A
    <3>1. u[n] = s[n] /\ h[n - 1] = f[n - 1] /\ n \in 1 .. Len(u)
      BY <1>1, <2>2
    <3>2. f[n] = IF s[n] \in S THEN Plus(f[n - 1], s[n]) ELSE f[n - 1]
      BY <1>2 DEF Filtering
    <3>3. h[n] = IF u[n] \in S THEN Plus(h[n - 1], u[n]) ELSE h[n - 1]
      BY <1>4, <3>1 DEF Filtering
    <3>4. h[n] = f[n]
      BY <3>1, <3>2, <3>3
    <3> QED  BY <3>4
  <2> HIDE DEF A, m
  <2> QED  BY <1>1, <2>1, <2>2, UpTo DEF A
<1>6. h[m] = f[m]
  BY <1>1, <1>5
<1>7. f[m] \in Seq(X) /\ \A n \in 0 .. N : g[n] \in Seq(X)
  <2>1. f \in [0 .. m -> Seq(X)] /\ g \in [0 .. N -> Seq(X)]
    BY <1>2, <1>3 DEF Filtering
  <2> HIDE DEF m, N
  <2> QED  BY <1>1, <2>1
<1> DEFINE a == f[m]
<1>8. \A n \in 0 .. N : n \in {i \in 0 .. N : h[m + i] = Join(a, g[i])}
  <2> DEFINE A == {i \in 0 .. N : h[m + i] = Join(a, g[i])}
  <2>1. 0 \in A
    <3>1. g[0] = <<>> /\ Join(a, <<>>) = a
      BY <1>3, <1>7, JoinNothing DEF Filtering
    <3>2. h[m + 0] = Join(a, g[0])
      BY <1>1, <1>6, <3>1
    <3>3. 0 \in 0 .. N
      BY <1>1
    <3> HIDE DEF a, m, N
    <3> QED  BY <3>2, <3>3
  <2>2. ASSUME NEW n \in 1 .. N, n - 1 \in A
        PROVE  n \in A
    <3>1. /\ u[m + n] = t[n] /\ h[m + (n - 1)] = Join(a, g[n - 1])
          /\ m + n \in 1 .. Len(u) /\ (m + n) - 1 = m + (n - 1) /\ n - 1 \in 0 .. N
      <4>1. u[m + n] = t[n] /\ h[m + (n - 1)] = Join(a, g[n - 1])
        BY <1>1, <2>2
      <4>2. Len(u) = m + N /\ m \in Nat /\ N \in Nat
        BY <1>1
      <4> HIDE DEF m, N, a, A
      <4>3. m + n \in 1 .. Len(u) /\ (m + n) - 1 = m + (n - 1) /\ n - 1 \in 0 .. N
        BY <4>2
      <4> QED  BY <4>1, <4>3
    <3>2. g[n] = IF t[n] \in S THEN Plus(g[n - 1], t[n]) ELSE g[n - 1]
      BY <1>3 DEF Filtering
    <3>3. h[m + n] = IF u[m + n] \in S THEN Plus(h[m + n - 1], u[m + n]) ELSE h[m + n - 1]
      BY <1>4, <3>1 DEF Filtering
    <3>4. Plus(Join(a, g[n - 1]), t[n]) = Join(a, Plus(g[n - 1], t[n]))
      <4>1. a \in Seq(X) /\ g[n - 1] \in Seq(X) /\ t[n] \in X
        BY <1>7, <3>1
      <4> HIDE DEF a, A, m, N
      <4> QED  BY <4>1, PlusJoin
    <3>5. h[m + n] = Join(a, g[n])
      BY <3>1, <3>2, <3>3, <3>4
    <3> HIDE DEF a, m, N
    <3> QED  BY <3>5
  <2> HIDE DEF A, N
  <2>3. \A n \in 0 .. N : n \in A
    BY <1>1, <2>1, <2>2, UpTo
  <2> QED  BY <2>3 DEF A
<1>9. h[m + N] = Join(f[m], g[N])
  <2>1. N \in 0 .. N
    BY <1>1
  <2> HIDE DEF m, N, a
  <2>2. h[m + N] = Join(a, g[N])
    BY <1>8, <2>1
  <2> QED  BY <2>2 DEF a
<1> QED  BY <1>2, <1>3, <1>4, <1>9 DEF u

LEMMA OnlyNothing ==
    ASSUME NEW S
    PROVE  Only(<<>>, S) = <<>>
<1>1. <<>> \in Seq({}) /\ Len(<<>>) = 0
  OBVIOUS
<1>2. PICK f : Filtering(f, {}, <<>>, S) /\ f[Len(<<>>)] = Only(<<>>, S)
  BY <1>1, OnlyRuns
<1> QED  BY <1>1, <1>2 DEF Filtering

LEMMA OnlyOne ==
    ASSUME NEW X, NEW S, NEW x \in X
    PROVE  Only(<<x>>, S) = IF x \in S THEN <<x>> ELSE <<>>
<1>1. <<x>> \in Seq(X) /\ Len(<<x>>) = 1 /\ <<x>>[1] = x
  OBVIOUS
<1>2. PICK f : Filtering(f, X, <<x>>, S) /\ f[1] = Only(<<x>>, S)
  BY <1>1, OnlyRuns
<1>3. f[0] = <<>> /\ f[1] = IF x \in S THEN Plus(f[0], x) ELSE f[0]
  BY <1>1, <1>2 DEF Filtering
<1>4. Plus(<<>>, x) = <<x>>
  BY DEF Plus
<1> QED  BY <1>2, <1>3, <1>4

LEMMA OnlyPlus ==
    ASSUME NEW X, NEW S, NEW s \in Seq(X), NEW x \in X
    PROVE  Only(Plus(s, x), S) = IF x \in S THEN Plus(Only(s, S), x) ELSE Only(s, S)
<1> DEFINE y == <<x>>
<1>1. Plus(s, x) = Join(s, y) /\ y \in Seq(X)
  BY PlusIsJoin
<1>2. Only(y, S) = IF x \in S THEN y ELSE <<>>
  BY OnlyOne
<1>3. Only(s, S) \in Seq(X)
  BY OnlyType
<1>4. Plus(Only(s, S), x) = Join(Only(s, S), y) /\ Join(Only(s, S), <<>>) = Only(s, S)
  BY <1>3, PlusIsJoin, JoinNothing
<1> HIDE DEF y
<1>5. Only(Plus(s, x), S) = Join(Only(s, S), Only(y, S))
  BY <1>1, OnlyConcat
<1> QED  BY <1>2, <1>4, <1>5

LEMMA OnlyHead ==
    ASSUME NEW X, NEW S, NEW s \in Seq(X), s # <<>>
    PROVE  Only(s, S) = IF Head(s) \in S THEN Join(<<Head(s)>>, Only(Tail(s), S))
                                         ELSE Only(Tail(s), S)
<1> DEFINE a == <<Head(s)>>
           b == Tail(s)
<1>1. Head(s) \in X /\ a \in Seq(X) /\ b \in Seq(X)
  OBVIOUS
<1>2. s = Join(a, b)
  BY DEF Join
<1>3. Only(a, S) = IF Head(s) \in S THEN a ELSE <<>>
  BY <1>1, OnlyOne
<1> HIDE DEF a, b
<1>4. Only(s, S) = Join(Only(a, S), Only(b, S))
  BY <1>1, <1>2, OnlyConcat
<1>5. Join(<<>>, Only(b, S)) = Only(b, S)
  BY <1>1, OnlyType, JoinNothing
<1>6. Only(s, S) = IF Head(s) \in S THEN Join(a, Only(b, S)) ELSE Only(b, S)
  BY <1>3, <1>4, <1>5
<1> QED  BY <1>6 DEF a, b

(* What is kept of a sequence of which all or nothing is wanted.           *)
LEMMA OnlyAllOrNone ==
    ASSUME NEW X, NEW S, NEW s \in Seq(X)
    PROVE  /\ (\A i \in 1 .. Len(s) : s[i] \in S) => Only(s, S) = s
           /\ (\A i \in 1 .. Len(s) : s[i] \notin S) => Only(s, S) = <<>>
<1>1. PICK f : Filtering(f, X, s, S) /\ f[Len(s)] = Only(s, S)
  BY OnlyRuns
<1> DEFINE N == Len(s)
<1>2. /\ N \in Nat /\ f[0] = <<>> /\ \A n \in 0 .. N : f[n] \in Seq(X)
      /\ \A n \in 1 .. N : f[n] = IF s[n] \in S THEN Plus(f[n - 1], s[n]) ELSE f[n - 1]
  <2>1. f \in [0 .. N -> Seq(X)] /\ f[0] = <<>> /\ N \in Nat
    BY <1>1 DEF Filtering
  <2>2. \A n \in 0 .. N : f[n] \in Seq(X)
    <3> HIDE DEF N
    <3> QED  BY <2>1
  <2>3. \A n \in 1 .. N : f[n] = IF s[n] \in S THEN Plus(f[n - 1], s[n]) ELSE f[n - 1]
    BY <1>1 DEF Filtering
  <2> HIDE DEF N
  <2> QED  BY <2>1, <2>2, <2>3
<1>3. ASSUME \A i \in 1 .. N : s[i] \notin S
      PROVE  f[N] = <<>>
  <2> DEFINE E == { <<>> }
  <2>1. f[0] \in E /\ \A n \in 1 .. N : f[n - 1] \in E => f[n] \in E
    BY <1>2, <1>3
  <2>2. \A n \in 0 .. N : f[n] \in E
    <3> HIDE DEF N, E
    <3> QED  BY <1>2, <2>1, StepsStay
  <2>3. N \in 0 .. N
    BY <1>2
  <2> QED  BY <2>2, <2>3
<1>4. ASSUME \A i \in 1 .. N : s[i] \in S
      PROVE  f[N] = s
  <2> DEFINE Same(n) == Len(f[n]) = n /\ \A i \in 1 .. n : f[n][i] = s[i]
             A == {n \in 0 .. N : Same(n)}
  <2>1. 0 \in A
    <3>1. Len(f[0]) = 0
      BY <1>2
    <3> QED  BY <1>2, <3>1
  <2>2. ASSUME NEW n \in 1 .. N, n - 1 \in A
        PROVE  n \in A
    <3>1. f[n] = Plus(f[n - 1], s[n]) /\ f[n - 1] \in Seq(X) /\ Len(f[n - 1]) = n - 1
          /\ \A i \in 1 .. n - 1 : f[n - 1][i] = s[i]
      BY <1>2, <1>4, <2>2
    <3>2. Len(f[n]) = n /\ (\A i \in 1 .. n - 1 : f[n][i] = f[n - 1][i]) /\ f[n][n] = s[n]
      <4>1. s[n] \in X
        OBVIOUS
      <4> HIDE DEF Same, A, N
      <4> DEFINE c == f[n - 1]
                 x == s[n]
      <4>2. c \in Seq(X) /\ x \in X /\ f[n] = Plus(c, x)
        BY <3>1, <4>1
      <4> HIDE DEF c, x
      <4>3. Len(Plus(c, x)) = Len(c) + 1 /\ Plus(c, x)[Len(c) + 1] = x
        BY <4>2, PlusType
      <4>4. \A i \in 1 .. Len(c) : Plus(c, x)[i] = c[i]
        BY <4>2, PlusType
      <4>5. Len(c) = n - 1 /\ n \in Nat
        BY <1>2, <3>1 DEF c, N
      <4> QED  BY <4>2, <4>3, <4>4, <4>5 DEF c, x
    <3>3. Same(n)
      BY <3>1, <3>2
    <3> HIDE DEF Same
    <3> QED  BY <3>3
  <2>3. \A n \in 0 .. N : n \in A
    <3> HIDE DEF A, N
    <3> QED  BY <1>2, <2>1, <2>2, UpTo
  <2>4. Same(N)
    BY <1>2, <2>3
  <2>5. f[N] \in Seq(X)
    BY <1>2
  <2> QED  BY <2>4, <2>5, SeqEqual
<1> QED  BY <1>1, <1>3, <1>4

(* An element that is wanted is kept, and nothing else.                    *)
LEMMA OnlyElements ==
    ASSUME NEW X, NEW S, NEW s \in Seq(X)
    PROVE  /\ \A i \in 1 .. Len(s) : s[i] \in S => \E j \in 1 .. Len(Only(s, S)) : Only(s, S)[j] = s[i]
           /\ \A j \in 1 .. Len(Only(s, S)) : /\ Only(s, S)[j] \in S
                                              /\ \E i \in 1 .. Len(s) : Only(s, S)[j] = s[i]
<1>1. PICK f : Filtering(f, X, s, S) /\ f[Len(s)] = Only(s, S)
  BY OnlyRuns
<1> DEFINE N == Len(s)
<1>2. /\ N \in Nat /\ f[0] = <<>> /\ \A n \in 0 .. N : f[n] \in Seq(X)
      /\ \A n \in 1 .. N : f[n] = IF s[n] \in S THEN Plus(f[n - 1], s[n]) ELSE f[n - 1]
  <2>1. f \in [0 .. N -> Seq(X)] /\ f[0] = <<>> /\ N \in Nat
    BY <1>1 DEF Filtering
  <2>2. \A n \in 0 .. N : f[n] \in Seq(X)
    <3> HIDE DEF N
    <3> QED  BY <2>1
  <2>3. \A n \in 1 .. N : f[n] = IF s[n] \in S THEN Plus(f[n - 1], s[n]) ELSE f[n - 1]
    BY <1>1 DEF Filtering
  <2> HIDE DEF N
  <2> QED  BY <2>1, <2>2, <2>3
<1> DEFINE Covers(n) == \A i \in 1 .. n : s[i] \in S => \E j \in 1 .. Len(f[n]) : f[n][j] = s[i]
           From(n) == \A j \in 1 .. Len(f[n]) : f[n][j] \in S /\ \E i \in 1 .. n : f[n][j] = s[i]
           A == {n \in 0 .. N : Covers(n) /\ From(n)}
<1>3. 0 \in A
  <2>1. Len(f[0]) = 0
    BY <1>2
  <2> QED  BY <1>2, <2>1
<1>4. ASSUME NEW n \in 1 .. N, n - 1 \in A
      PROVE  n \in A
  <2>1. Covers(n - 1) /\ From(n - 1) /\ f[n - 1] \in Seq(X) /\ n \in Nat /\ n - 1 \in Nat
    BY <1>2, <1>4
  <2>2. CASE s[n] \notin S
    <3>1. f[n] = f[n - 1]
      BY <1>2, <2>2
    <3> DEFINE g == f[n - 1]
    <3> HIDE DEF g
    <3>2. Covers(n) /\ From(n)
      <4>1. \A i \in 1 .. n : s[i] \in S => i \in 1 .. n - 1
        BY <2>1, <2>2
      <4>2. \A i \in 1 .. n - 1 : i \in 1 .. n
        BY <2>1
      <4> QED  BY <2>1, <3>1, <4>1, <4>2
    <3> HIDE DEF Covers, From
    <3> QED  BY <3>2
  <2>3. CASE s[n] \in S
    <3>1. f[n] = Plus(f[n - 1], s[n])
      BY <1>2, <2>3
    <3>2. /\ Len(f[n]) = Len(f[n - 1]) + 1 /\ Len(f[n - 1]) \in Nat
          /\ \A j \in 1 .. Len(f[n - 1]) : f[n][j] = f[n - 1][j]
          /\ f[n][Len(f[n - 1]) + 1] = s[n]
      <4>1. s[n] \in X /\ Len(f[n - 1]) \in Nat
        BY <2>1
      <4> HIDE DEF Covers, From, A, N
      <4> DEFINE c == f[n - 1]
                 x == s[n]
      <4>2. c \in Seq(X) /\ x \in X /\ f[n] = Plus(c, x) /\ Len(c) \in Nat
        BY <2>1, <3>1, <4>1
      <4> HIDE DEF c, x
      <4>3. Len(Plus(c, x)) = Len(c) + 1 /\ Plus(c, x)[Len(c) + 1] = x
        BY <4>2, PlusType
      <4>4. \A i \in 1 .. Len(c) : Plus(c, x)[i] = c[i]
        BY <4>2, PlusType
      <4> QED  BY <4>2, <4>3, <4>4 DEF c, x
    <3>3. Covers(n)
      <4> SUFFICES ASSUME NEW i \in 1 .. n, s[i] \in S
                   PROVE  \E j \in 1 .. Len(f[n]) : f[n][j] = s[i]
        OBVIOUS
      <4>1. CASE i = n
        BY <3>2, <4>1
      <4>2. CASE i # n
        <5>1. i \in 1 .. n - 1
          BY <2>1, <4>2
        <5>2. PICK j \in 1 .. Len(f[n - 1]) : f[n - 1][j] = s[i]
          BY <2>1, <5>1
        <5>3. j \in 1 .. Len(f[n])
          BY <3>2
        <5> QED  BY <3>2, <5>2, <5>3
      <4> QED  BY <4>1, <4>2
    <3>4. From(n)
      <4> SUFFICES ASSUME NEW j \in 1 .. Len(f[n])
                   PROVE  f[n][j] \in S /\ \E i \in 1 .. n : f[n][j] = s[i]
        OBVIOUS
      <4>1. CASE j = Len(f[n - 1]) + 1
        BY <2>1, <2>3, <3>2, <4>1
      <4>2. CASE j # Len(f[n - 1]) + 1
        <5>1. j \in 1 .. Len(f[n - 1])
          BY <3>2, <4>2
        <5>2. f[n - 1][j] \in S /\ \E i \in 1 .. n - 1 : f[n - 1][j] = s[i]
          BY <2>1, <5>1
        <5>3. \A i \in 1 .. n - 1 : i \in 1 .. n
          BY <2>1
        <5> QED  BY <3>2, <5>1, <5>2, <5>3
      <4> QED  BY <4>1, <4>2
    <3> HIDE DEF Covers, From
    <3> QED  BY <3>3, <3>4
  <2> QED  BY <2>2, <2>3
<1>5. \A n \in 0 .. N : n \in A
  <2> HIDE DEF A, N
  <2> QED  BY <1>2, <1>3, <1>4, UpTo
<1>6. Covers(N) /\ From(N)
  <2>1. N \in 0 .. N
    BY <1>2
  <2> HIDE DEF Covers, From, N
  <2> QED  BY <1>5, <2>1
<1> QED  BY <1>1, <1>6

-----------------------------------------------------------------------------
(* What a robot was given, as sequences: o are its own goals among those   *)
(* it reported, f the completions on their way, q its queue, s the list it *)
(* was last shown.                                                         *)

Distinct(s) == \A i, j \in DOMAIN s : s[i] = s[j] => i = j

Spent(o, f) == SubSeq(o, 1, Len(o) - Len(f))

\* s stands in h, and its first goal is no later than the one after n
Segment(s, h, n) ==
    \E a \in 0 .. n : a + Len(s) <= Len(h) /\ \A k \in 1 .. Len(s) : s[k] = h[a + k]

\* an operator's goal, or a queue that was the robot's at some time
Shown(s, h, n) == (Len(s) = 1 /\ s[1].task = NoTask) \/ Segment(s, h, n)

Ledger(o, f, q, s) ==
    /\ Len(f) <= Len(o) /\ Extends(q, f)
    /\ \A i \in 1 .. Len(f) : o[Len(o) - Len(f) + i] = f[i]
    /\ Shown(s, Join(Spent(o, f), q), Len(Spent(o, f)))

LEMMA ExtendsOrder ==
    ASSUME NEW X, NEW a \in Seq(X), NEW b \in Seq(X), NEW c \in Seq(X)
    PROVE  /\ Extends(a, a)
           /\ Extends(b, a) /\ Extends(c, b) => Extends(c, a)
<1>1. Len(a) \in Nat /\ Len(b) \in Nat /\ Len(c) \in Nat
  OBVIOUS
<1> QED  BY <1>1 DEF Extends

LEMMA JoinExtends ==
    ASSUME NEW X, NEW a \in Seq(X), NEW b \in Seq(X)
    PROVE  Extends(Join(a, b), a)
<1>1. Len(Join(a, b)) = Len(a) + Len(b) /\ \A i \in 1 .. Len(a) : Join(a, b)[i] = a[i]
  BY JoinType
<1> QED  BY <1>1 DEF Extends

LEMMA JoinKeepsExtends ==
    ASSUME NEW X, NEW c \in Seq(X), NEW a \in Seq(X), NEW b \in Seq(X), Extends(b, a)
    PROVE  Extends(Join(c, b), Join(c, a))
<1> DEFINE u == Join(c, a)
           v == Join(c, b)
<1>1. Len(a) \in Nat /\ Len(b) \in Nat /\ Len(c) \in Nat /\ Len(a) <= Len(b)
      /\ \A i \in 1 .. Len(a) : b[i] = a[i]
  BY DEF Extends
<1>2. Len(u) = Len(c) + Len(a) /\ \A i \in 1 .. Len(c) : u[i] = c[i]
  BY JoinType
<1>3. \A i \in 1 .. Len(a) : u[Len(c) + i] = a[i]
  BY JoinType DEF Carries
<1>4. Len(v) = Len(c) + Len(b) /\ \A i \in 1 .. Len(c) : v[i] = c[i]
  BY JoinType
<1>5. \A i \in 1 .. Len(b) : v[Len(c) + i] = b[i]
  BY JoinType DEF Carries
<1> HIDE DEF u, v
<1>6. ASSUME NEW i \in 1 .. Len(u)
      PROVE  v[i] = u[i]
  <2>1. CASE i <= Len(c)
    BY <1>1, <1>2, <1>4, <2>1
  <2>2. CASE Len(c) < i
    <3> DEFINE j == i - Len(c)
    <3>1. j \in 1 .. Len(a) /\ j \in 1 .. Len(b) /\ i = Len(c) + j
      BY <1>1, <1>2, <2>2
    <3> HIDE DEF j
    <3> QED  BY <1>1, <1>3, <1>5, <3>1
  <2> QED  BY <1>1, <1>2, <2>1, <2>2
<1>7. Extends(v, u)
  BY <1>1, <1>2, <1>4, <1>6 DEF Extends
<1> QED  BY <1>7 DEF u, v

LEMMA SpentType ==
    ASSUME NEW X, NEW o \in Seq(X), NEW f \in Seq(X), Len(f) <= Len(o)
    PROVE  /\ Spent(o, f) \in Seq(X) /\ Len(Spent(o, f)) = Len(o) - Len(f)
           /\ \A i \in 1 .. Len(o) - Len(f) : Spent(o, f)[i] = o[i]
<1>1. Len(o) \in Nat /\ Len(f) \in Nat
  OBVIOUS
<1>2. \A i \in 1 .. Len(o) - Len(f) : o[i] \in X
  BY <1>1
<1> QED  BY <1>1, <1>2, SubSeqProperties DEF Spent

(* The finished goals and the queue, place by place.                       *)
LEMMA HistoryShape ==
    ASSUME NEW X, NEW o \in Seq(X), NEW f \in Seq(X), NEW q \in Seq(X), Len(f) <= Len(o)
    PROVE  /\ Join(Spent(o, f), q) \in Seq(X)
           /\ Len(Join(Spent(o, f), q)) = Len(o) - Len(f) + Len(q)
           /\ Agree(Join(Spent(o, f), q), o, Len(o) - Len(f))
           /\ Carries(Join(Spent(o, f), q), Len(o) - Len(f), q)
<1> DEFINE c == Spent(o, f)
<1>1. c \in Seq(X) /\ Len(c) = Len(o) - Len(f)
  BY SpentType
<1>2. \A i \in 1 .. Len(o) - Len(f) : c[i] = o[i]
  BY SpentType
<1> HIDE DEF c
<1>3. Join(c, q) \in Seq(X) /\ Len(Join(c, q)) = Len(c) + Len(q)
  BY <1>1, JoinType
<1>4. \A i \in 1 .. Len(c) : Join(c, q)[i] = c[i]
  BY <1>1, JoinType
<1>5. Carries(Join(c, q), Len(c), q)
  BY <1>1, JoinType
<1>6. Agree(Join(c, q), o, Len(o) - Len(f))
  BY <1>1, <1>2, <1>4 DEF Agree
<1>7. Carries(Join(c, q), Len(o) - Len(f), q)
  BY <1>1, <1>5
<1>8. Len(Join(c, q)) = Len(o) - Len(f) + Len(q)
  BY <1>1, <1>3
<1> QED  BY <1>3, <1>6, <1>7, <1>8 DEF c

(* The robot reported the goals it was given, in that order.               *)
LEMMA ReportedInOrder ==
    ASSUME NEW X, NEW o \in Seq(X), NEW f \in Seq(X), NEW q \in Seq(X), NEW s,
           Ledger(o, f, q, s)
    PROVE  Extends(Join(Spent(o, f), q), o)
<1> DEFINE h == Join(Spent(o, f), q)
<1>1. /\ Len(f) <= Len(o) /\ Len(f) <= Len(q)
      /\ \A i \in 1 .. Len(f) : q[i] = f[i]
      /\ \A i \in 1 .. Len(f) : o[Len(o) - Len(f) + i] = f[i]
      /\ Len(o) \in Nat /\ Len(f) \in Nat /\ Len(q) \in Nat
  BY DEF Ledger, Extends
<1>2. h \in Seq(X) /\ Len(h) = Len(o) - Len(f) + Len(q)
  BY <1>1, HistoryShape
<1>3. \A i \in 1 .. Len(o) - Len(f) : h[i] = o[i]
  BY <1>1, HistoryShape DEF Agree
<1>4. \A i \in 1 .. Len(q) : h[Len(o) - Len(f) + i] = q[i]
  BY <1>1, HistoryShape DEF Carries
<1> HIDE DEF h
<1>5. ASSUME NEW i \in 1 .. Len(o)
      PROVE  h[i] = o[i]
  <2>1. CASE i <= Len(o) - Len(f)
    BY <1>1, <1>3, <2>1
  <2>2. CASE i > Len(o) - Len(f)
    <3> DEFINE j == i - (Len(o) - Len(f))
    <3>1. j \in 1 .. Len(f) /\ j \in 1 .. Len(q) /\ i = Len(o) - Len(f) + j
      BY <1>1, <2>2
    <3> HIDE DEF j
    <3> QED  BY <1>1, <1>4, <3>1
  <2> QED  BY <1>1, <2>1, <2>2
<1>6. Extends(h, o)
  BY <1>1, <1>2, <1>5 DEF Extends
<1> QED  BY <1>6 DEF h

LEMMA SegmentStays ==
    ASSUME NEW X, NEW s \in Seq(X), NEW h \in Seq(X), NEW g \in Seq(X), Extends(g, h),
           NEW n \in Nat, NEW m \in Nat, n <= m, Shown(s, h, n)
    PROVE  Shown(s, g, m)
<1>1. CASE Len(s) = 1 /\ s[1].task = NoTask
  BY <1>1 DEF Shown
<1>2. CASE Segment(s, h, n)
  <2>1. PICK a \in 0 .. n : a + Len(s) <= Len(h) /\ \A k \in 1 .. Len(s) : s[k] = h[a + k]
    BY <1>2 DEF Segment
  <2>2. Len(s) \in Nat /\ Len(h) \in Nat /\ Len(g) \in Nat
    OBVIOUS
  <2>3. Len(h) <= Len(g) /\ \A i \in 1 .. Len(h) : g[i] = h[i]
    BY DEF Extends
  <2>4. a \in 0 .. m /\ a + Len(s) <= Len(g)
    BY <2>1, <2>2, <2>3
  <2>5. ASSUME NEW k \in 1 .. Len(s)
        PROVE  s[k] = g[a + k]
    <3>1. a + k \in 1 .. Len(h)
      BY <2>1, <2>2
    <3> QED  BY <2>1, <2>3, <3>1
  <2> QED  BY <2>4, <2>5 DEF Shown, Segment
<1> QED  BY <1>1, <1>2 DEF Shown

(* Goals are appended to the queue.                                        *)
LEMMA LedgerGrows ==
    ASSUME NEW X, NEW o \in Seq(X), NEW f \in Seq(X), NEW q \in Seq(X), NEW p \in Seq(X),
           NEW s \in Seq(X), Ledger(o, f, q, s), Extends(p, q)
    PROVE  /\ Ledger(o, f, p, s)
           /\ Extends(Join(Spent(o, f), p), Join(Spent(o, f), q))
<1>1. Len(f) <= Len(o) /\ Extends(q, f)
      /\ \A i \in 1 .. Len(f) : o[Len(o) - Len(f) + i] = f[i]
  BY DEF Ledger
<1> DEFINE c == Spent(o, f)
<1>2. c \in Seq(X) /\ Len(c) \in Nat /\ Shown(s, Join(c, q), Len(c))
  BY <1>1, SpentType DEF Ledger
<1> HIDE DEF c
<1>3. Extends(Join(c, p), Join(c, q)) /\ Join(c, p) \in Seq(X) /\ Join(c, q) \in Seq(X)
  BY <1>2, JoinKeepsExtends, JoinType
<1>4. Shown(s, Join(c, p), Len(c))
  BY <1>2, <1>3, SegmentStays
<1>5. Extends(p, f)
  BY <1>1, ExtendsOrder
<1>6. Ledger(o, f, p, s)
  BY <1>1, <1>4, <1>5 DEF Ledger, c
<1> QED  BY <1>3, <1>6 DEF c

(* The robot is shown its queue, nothing yet, or an operator's goal.       *)
LEMMA LedgerShows ==
    ASSUME NEW X, NEW o \in Seq(X), NEW f \in Seq(X), NEW q \in Seq(X), NEW s,
           Ledger(o, f, q, s), NEW u,
           \/ u = q
           \/ u = <<>>
           \/ Len(u) = 1 /\ u[1].task = NoTask
    PROVE  Ledger(o, f, q, u)
<1> DEFINE h == Join(Spent(o, f), q)
           n == Len(Spent(o, f))
<1>1. Len(f) <= Len(o) /\ Len(o) \in Nat /\ Len(f) \in Nat /\ Len(q) \in Nat
  BY DEF Ledger
<1>2. n = Len(o) - Len(f) /\ n \in Nat
  BY <1>1, SpentType
<1>3. Len(h) = n + Len(q)
  BY <1>1, <1>2, HistoryShape
<1>4. \A i \in 1 .. Len(q) : h[n + i] = q[i]
  <2>1. Carries(h, Len(o) - Len(f), q)
    BY <1>1, HistoryShape
  <2> HIDE DEF h, n
  <2> QED  BY <1>2, <2>1 DEF Carries
<1> HIDE DEF h, n
<1>5. Shown(u, h, n)
  <2>1. CASE u = q
    <3>1. n \in 0 .. n /\ n + Len(q) <= Len(h)
      BY <1>1, <1>2, <1>3
    <3> QED  BY <1>4, <2>1, <3>1 DEF Shown, Segment
  <2>2. CASE u = <<>>
    <3>1. Len(u) = 0 /\ 0 \in 0 .. n /\ 0 + 0 <= Len(h)
      BY <1>1, <1>2, <1>3, <2>2
    <3>2. \A k \in 1 .. 0 : u[k] = h[0 + k]
      OBVIOUS
    <3> QED  BY <3>1, <3>2 DEF Shown, Segment
  <2>3. CASE Len(u) = 1 /\ u[1].task = NoTask
    BY <2>3 DEF Shown
  <2> QED  BY <2>1, <2>2, <2>3
<1> QED  BY <1>5 DEF Ledger, h, n

OfTasks(h) == \A i \in DOMAIN h : h[i].task # NoTask

\* of the goals of tasks in s, the k-th is the first that is not in o
FirstUnreported(o, s, k) ==
    /\ \A i \in 1 .. Len(o) : o[i] # s[k]
    /\ \A j \in 1 .. k - 1 : s[j].task # NoTask => \E i \in 1 .. Len(o) : o[i] = s[j]

(* The robot reports the first goal of its list that it has not reported:  *)
(* that is the next goal of what it was given.                             *)
LEMMA LedgerReports ==
    ASSUME NEW X, NEW o \in Seq(X), NEW f \in Seq(X), NEW q \in Seq(X), NEW s \in Seq(X),
           Ledger(o, f, q, s), Distinct(Join(Spent(o, f), q)), OfTasks(Join(Spent(o, f), q)),
           NEW k \in DOMAIN s, s[k].task # NoTask, FirstUnreported(o, s, k)
    PROVE  /\ Ledger(Plus(o, s[k]), Plus(f, s[k]), q, s)
           /\ Spent(Plus(o, s[k]), Plus(f, s[k])) = Spent(o, f)
<1> DEFINE h == Join(Spent(o, f), q)
           n == Len(o) - Len(f)
           g == s[k]
<1>1. /\ Len(f) <= Len(o) /\ Len(f) <= Len(q)
      /\ \A i \in 1 .. Len(f) : q[i] = f[i]
      /\ \A i \in 1 .. Len(f) : o[Len(o) - Len(f) + i] = f[i]
      /\ Len(o) \in Nat /\ Len(f) \in Nat /\ Len(q) \in Nat /\ Len(s) \in Nat
      /\ k \in 1 .. Len(s) /\ g \in X
  BY DEF Ledger, Extends
<1>2. h \in Seq(X) /\ Len(h) = n + Len(q) /\ n \in Nat
  BY <1>1, HistoryShape
<1>3. \A i \in 1 .. Len(q) : h[n + i] = q[i]
  BY <1>1, HistoryShape DEF Carries
<1>4. Len(o) <= Len(h) /\ \A i \in 1 .. Len(o) : h[i] = o[i]
  BY ReportedInOrder DEF Extends
<1>5. Distinct(h) /\ \A i \in DOMAIN h : h[i].task # NoTask
  BY DEF OfTasks
<1>6. Shown(s, h, n)
  <2>1. Shown(s, h, Len(Spent(o, f)))
    BY DEF Ledger
  <2>2. Len(Spent(o, f)) = n
    BY <1>1, SpentType
  <2> HIDE DEF h, n
  <2> QED  BY <2>1, <2>2
<1>7. PICK a \in 0 .. n : a + Len(s) <= Len(h) /\ \A i \in 1 .. Len(s) : s[i] = h[a + i]
  <2>1. ~(Len(s) = 1 /\ s[1].task = NoTask)
    BY <1>1
  <2> HIDE DEF h, n
  <2> QED  BY <1>6, <2>1 DEF Shown, Segment
<1>8. a + k \in 1 .. Len(h) /\ g = h[a + k]
  <2> HIDE DEF h, n
  <2> QED  BY <1>1, <1>2, <1>7 DEF g
<1>9. a + k > Len(o)
  <2> HIDE DEF h, n
  <2>1. ~(a + k \in 1 .. Len(o))
    BY <1>4, <1>8 DEF g, FirstUnreported
  <2> QED  BY <1>1, <1>2, <1>8, <2>1
<1>10. a + k <= Len(o) + 1
  <2>1. CASE k = 1
    BY <1>1, <1>2, <2>1
  <2>2. CASE k # 1
    <3> DEFINE j == k - 1
               b == a + j
    <3> HIDE DEF h, n
    <3>1. j \in 1 .. Len(s) /\ j \in 1 .. k - 1
      BY <1>1, <2>2
    <3>2. b \in 1 .. Len(h) /\ s[j] = h[b]
      <4> HIDE DEF j
      <4> QED  BY <1>1, <1>2, <1>7, <3>1
    <3>3. DOMAIN h = 1 .. Len(h)
      BY <1>2
    <3>4. a + k = b + 1 /\ b \in Nat /\ k \in Nat
      BY <1>1, <1>2
    <3> HIDE DEF j, b
    <3>5. s[j].task # NoTask
      BY <1>5, <3>2, <3>3
    <3>6. PICK i \in 1 .. Len(o) : o[i] = s[j]
      BY <3>1, <3>5 DEF j, FirstUnreported
    <3>7. i \in 1 .. Len(h) /\ h[i] = h[b]
      BY <1>1, <1>2, <1>4, <3>2, <3>6
    <3>8. i = b
      BY <1>5, <3>2, <3>3, <3>7 DEF Distinct
    <3> QED  BY <1>1, <3>4, <3>8
  <2> QED  BY <2>1, <2>2
<1>11. a + k = Len(o) + 1
  <2>1. a \in Int /\ k \in Int /\ Len(o) \in Int
    BY <1>1, <1>2
  <2> HIDE DEF h, n
  <2> QED  BY <1>9, <1>10, <2>1
<1>12. Len(f) + 1 <= Len(q) /\ q[Len(f) + 1] = g
  <2>1. n + (Len(f) + 1) = Len(o) + 1 /\ Len(f) + 1 \in 1 .. Len(q)
    BY <1>1, <1>2, <1>8, <1>11
  <2>2. h[n + (Len(f) + 1)] = q[Len(f) + 1]
    BY <1>3, <2>1
  <2> HIDE DEF h, n, g
  <2> QED  BY <1>1, <1>8, <1>11, <2>1, <2>2
<1> DEFINE o2 == Plus(o, g)
           f2 == Plus(f, g)
<1>13. /\ o2 \in Seq(X) /\ Len(o2) = Len(o) + 1 /\ o2[Len(o) + 1] = g
       /\ \A i \in 1 .. Len(o) : o2[i] = o[i]
  <2> HIDE DEF g
  <2> QED  BY <1>1, PlusType
<1>14. /\ f2 \in Seq(X) /\ Len(f2) = Len(f) + 1 /\ f2[Len(f) + 1] = g
       /\ \A i \in 1 .. Len(f) : f2[i] = f[i]
  <2> HIDE DEF g
  <2> QED  BY <1>1, PlusType
<1> HIDE DEF o2, f2, g, h, n
<1>15. Len(f2) <= Len(o2) /\ Extends(q, f2)
  <2>1. ASSUME NEW i \in 1 .. Len(f2)
        PROVE  q[i] = f2[i]
    <3>1. CASE i = Len(f) + 1
      BY <1>12, <1>14, <3>1
    <3>2. CASE i # Len(f) + 1
      <4>1. i \in 1 .. Len(f)
        BY <1>1, <1>14, <3>2
      <4> QED  BY <1>1, <1>14, <4>1
    <3> QED  BY <3>1, <3>2
  <2> QED  BY <1>1, <1>12, <1>13, <1>14, <2>1 DEF Extends
<1>16. ASSUME NEW i \in 1 .. Len(f2)
       PROVE  o2[Len(o2) - Len(f2) + i] = f2[i]
  <2>1. Len(o2) - Len(f2) = Len(o) - Len(f)
    BY <1>1, <1>13, <1>14
  <2>2. CASE i = Len(f) + 1
    <3>1. Len(o) - Len(f) + i = Len(o) + 1
      BY <1>1, <2>2
    <3> QED  BY <1>13, <1>14, <2>1, <2>2, <3>1
  <2>3. CASE i # Len(f) + 1
    <3>1. i \in 1 .. Len(f) /\ Len(o) - Len(f) + i \in 1 .. Len(o)
      BY <1>1, <1>14, <2>3
    <3> QED  BY <1>1, <1>13, <1>14, <2>1, <3>1
  <2> QED  BY <2>2, <2>3
<1>17. Spent(o2, f2) = Spent(o, f)
  <2>1. Len(o2) - Len(f2) = Len(o) - Len(f)
    BY <1>1, <1>13, <1>14
  <2>2. /\ Spent(o, f) \in Seq(X) /\ Len(Spent(o, f)) = Len(o) - Len(f)
        /\ \A i \in 1 .. Len(o) - Len(f) : Spent(o, f)[i] = o[i]
    BY <1>1, SpentType
  <2>3. /\ Spent(o2, f2) \in Seq(X) /\ Len(Spent(o2, f2)) = Len(o2) - Len(f2)
        /\ \A i \in 1 .. Len(o2) - Len(f2) : Spent(o2, f2)[i] = o2[i]
    BY <1>13, <1>14, <1>15, SpentType
  <2>4. ASSUME NEW i \in 1 .. Len(Spent(o2, f2))
        PROVE  Spent(o2, f2)[i] = Spent(o, f)[i]
    <3>1. i \in 1 .. Len(o) - Len(f) /\ i \in 1 .. Len(o)
      BY <1>1, <2>1, <2>3
    <3> QED  BY <1>13, <2>1, <2>2, <2>3, <3>1
  <2> DEFINE x == Spent(o, f)
             y == Spent(o2, f2)
  <2>5. x \in Seq(X) /\ y \in Seq(X) /\ Len(y) = Len(x)
    BY <2>1, <2>2, <2>3
  <2> HIDE DEF x, y
  <2>6. \A i \in 1 .. Len(y) : y[i] = x[i]
    BY <2>4 DEF x, y
  <2>7. y = x
    BY <2>5, <2>6, SeqEqual
  <2> QED  BY <2>7 DEF x, y
<1>18. Shown(s, Join(Spent(o2, f2), q), Len(Spent(o2, f2)))
  BY <1>17 DEF Ledger
<1>19. Ledger(o2, f2, q, s)
  BY <1>15, <1>16, <1>18 DEF Ledger
<1> QED  BY <1>17, <1>19 DEF o2, f2, g

(* The node takes the first completion on its way: it is the head of the   *)
(* queue, and goes over to the finished goals.                             *)
LEMMA LedgerConsumes ==
    ASSUME NEW X, NEW o \in Seq(X), NEW f \in Seq(X), NEW q \in Seq(X), NEW s \in Seq(X),
           Ledger(o, f, q, s), f # <<>>
    PROVE  /\ q # <<>> /\ Head(q) = Head(f)
           /\ Ledger(o, Tail(f), Tail(q), s)
           /\ Join(Spent(o, Tail(f)), Tail(q)) = Join(Spent(o, f), q)
           /\ Tail(f) \in Seq(X) /\ Tail(q) \in Seq(X)
<1> DEFINE n == Len(o) - Len(f)
           f2 == Tail(f)
           q2 == Tail(q)
           h  == Join(Spent(o, f), q)
           h2 == Join(Spent(o, f2), q2)
<1>1. /\ Len(f) <= Len(o) /\ Len(f) <= Len(q)
      /\ \A i \in 1 .. Len(f) : q[i] = f[i]
      /\ \A i \in 1 .. Len(f) : o[n + i] = f[i]
      /\ Len(o) \in Nat /\ Len(f) \in Nat /\ Len(q) \in Nat
  BY DEF Ledger, Extends
<1>2. Len(f) >= 1
  BY <1>1
<1>3. q # <<>>
  BY <1>1, <1>2
<1>4. Head(q) = Head(f)
  BY <1>1, <1>2
<1>5. /\ f2 \in Seq(X) /\ Len(f2) = Len(f) - 1
      /\ \A i \in 1 .. Len(f) - 1 : f2[i] = f[i + 1]
  BY <1>1, HeadTailProperties
<1>6. /\ q2 \in Seq(X) /\ Len(q2) = Len(q) - 1
      /\ \A i \in 1 .. Len(q) - 1 : q2[i] = q[i + 1]
  BY <1>1, <1>3, HeadTailProperties
<1>7. h \in Seq(X) /\ Len(h) = n + Len(q) /\ n \in Nat
  BY <1>1, HistoryShape
<1>8. \A i \in 1 .. n : h[i] = o[i]
  BY <1>1, HistoryShape DEF Agree
<1>9. \A i \in 1 .. Len(q) : h[n + i] = q[i]
  BY <1>1, HistoryShape DEF Carries
<1> HIDE DEF f2, q2
<1>10. Len(f2) <= Len(o) /\ Len(o) - Len(f2) = n + 1
  BY <1>1, <1>5
<1>11. h2 \in Seq(X) /\ Len(h2) = n + 1 + Len(q2)
  BY <1>5, <1>6, <1>10, HistoryShape
<1>12. \A i \in 1 .. n + 1 : h2[i] = o[i]
  <2>1. Agree(h2, o, Len(o) - Len(f2))
    BY <1>5, <1>6, <1>10, HistoryShape
  <2> HIDE DEF h2, n
  <2> QED  BY <1>10, <2>1 DEF Agree
<1>13. \A i \in 1 .. Len(q2) : h2[n + 1 + i] = q2[i]
  <2>1. Carries(h2, Len(o) - Len(f2), q2)
    BY <1>5, <1>6, <1>10, HistoryShape
  <2> HIDE DEF h2, n
  <2> QED  BY <1>10, <2>1 DEF Carries
<1>14. o[n + 1] = q[1]
  BY <1>1, <1>2
<1> HIDE DEF h, h2, n
<1>15. Len(h2) = Len(h)
  BY <1>1, <1>6, <1>7, <1>11
<1>16. ASSUME NEW i \in 1 .. Len(h)
       PROVE  h2[i] = h[i]
  <2>1. CASE i <= n
    BY <1>7, <1>8, <1>12, <2>1
  <2>2. CASE i = n + 1
    <3>1. h[n + 1] = q[1] /\ h2[n + 1] = o[n + 1]
      BY <1>1, <1>2, <1>7, <1>9, <1>12
    <3> QED  BY <1>14, <2>2, <3>1
  <2>3. CASE i > n + 1
    <3> DEFINE j == i - (n + 1)
    <3>1. j \in 1 .. Len(q2) /\ i = n + 1 + j /\ j + 1 \in 1 .. Len(q)
          /\ i = n + (j + 1) /\ j \in 1 .. Len(q) - 1
      BY <1>1, <1>6, <1>7, <2>3
    <3> HIDE DEF j
    <3>2. h2[i] = q2[j] /\ h[i] = q[j + 1] /\ q2[j] = q[j + 1]
      BY <1>6, <1>9, <1>13, <3>1
    <3> QED  BY <3>2
  <2> QED  BY <1>1, <1>7, <2>1, <2>2, <2>3
<1>17. h2 = h
  BY <1>7, <1>11, <1>15, <1>16, SeqEqual
<1>18. Extends(q2, f2)
  <2>1. ASSUME NEW i \in 1 .. Len(f2)
        PROVE  q2[i] = f2[i]
    <3>1. i + 1 \in 1 .. Len(f) /\ i \in 1 .. Len(f) - 1 /\ i \in 1 .. Len(q) - 1
      BY <1>1, <1>5
    <3> QED  BY <1>1, <1>5, <1>6, <3>1
  <2> QED  BY <1>1, <1>5, <1>6, <2>1 DEF Extends
<1>19. ASSUME NEW i \in 1 .. Len(f2)
       PROVE  o[Len(o) - Len(f2) + i] = f2[i]
  <2>1. i + 1 \in 1 .. Len(f) /\ i \in 1 .. Len(f) - 1
    BY <1>1, <1>5
  <2>2. Len(o) - Len(f2) + i = n + (i + 1)
    <3>1. i \in Int /\ n \in Int
      BY <1>7, <2>1
    <3>2. Len(o) - Len(f2) + i = n + 1 + i
      BY <1>10
    <3> QED  BY <3>1, <3>2
  <2> QED  BY <1>1, <1>5, <2>1, <2>2
<1>20. Shown(s, h2, Len(Spent(o, f2)))
  <2>1. Len(Spent(o, f)) = n /\ Len(Spent(o, f2)) = n + 1
    <3>1. Len(Spent(o, f)) = n
      BY <1>1, SpentType DEF n
    <3>2. Len(Spent(o, f2)) = Len(o) - Len(f2)
      BY <1>5, <1>10, SpentType
    <3> QED  BY <1>10, <3>1, <3>2
  <2>2. Shown(s, h, n)
    BY <2>1 DEF Ledger, h
  <2>3. n + 1 \in Nat /\ n <= n + 1 /\ Extends(h2, h)
    BY <1>7, <1>17, ExtendsOrder
  <2>4. Shown(s, h2, n + 1)
    BY <1>7, <1>11, <2>2, <2>3, SegmentStays
  <2> QED  BY <2>1, <2>4
<1>21. Ledger(o, f2, q2, s)
  BY <1>10, <1>18, <1>19, <1>20 DEF Ledger, h2
<1> QED  BY <1>3, <1>4, <1>5, <1>6, <1>17, <1>21 DEF h, h2, f2, q2

-----------------------------------------------------------------------------
(* The completions on their way. *)

OwnGoals == {g \in Goals : g.task # NoTask}

Mine(r) == {m \in Completions : m.robot = r /\ m.goal.task # NoTask}

GoalsIn(ms) == [k \in DOMAIN ms |-> ms[k].goal]

Flight(d, r) == GoalsIn(Only(d, Mine(r)))

LEMMA GoalsInType ==
    ASSUME NEW ms \in Seq(Completions)
    PROVE  /\ GoalsIn(ms) \in Seq(Goals) /\ Len(GoalsIn(ms)) = Len(ms)
           /\ \A k \in 1 .. Len(ms) : GoalsIn(ms)[k] = ms[k].goal
<1>1. Len(ms) \in Nat /\ DOMAIN ms = 1 .. Len(ms)
  OBVIOUS
<1>2. \A k \in 1 .. Len(ms) : ms[k].goal \in Goals
  <2>1. \A k \in 1 .. Len(ms) : ms[k] \in Completions
    OBVIOUS
  <2> QED  BY <2>1 DEF Completions
<1>3. GoalsIn(ms) = [k \in 1 .. Len(ms) |-> ms[k].goal]
  BY <1>1 DEF GoalsIn
<1>4. GoalsIn(ms) \in [1 .. Len(ms) -> Goals]
  BY <1>2, <1>3
<1>5. GoalsIn(ms) \in Seq(Goals) /\ Len(GoalsIn(ms)) = Len(ms)
  BY <1>1, <1>4
<1> QED  BY <1>3, <1>5

LEMMA GoalsInPlus ==
    ASSUME NEW ms \in Seq(Completions), NEW m \in Completions
    PROVE  GoalsIn(Plus(ms, m)) = Plus(GoalsIn(ms), m.goal)
<1> DEFINE u == GoalsIn(Plus(ms, m))
           v == Plus(GoalsIn(ms), m.goal)
           p == Plus(ms, m)
<1>1. /\ p \in Seq(Completions) /\ Len(p) = Len(ms) + 1 /\ p[Len(ms) + 1] = m
      /\ \A i \in 1 .. Len(ms) : p[i] = ms[i]
  BY PlusType
<1>2. m.goal \in Goals /\ Len(ms) \in Nat
  BY DEF Completions
<1>3. /\ GoalsIn(ms) \in Seq(Goals) /\ Len(GoalsIn(ms)) = Len(ms)
      /\ \A k \in 1 .. Len(ms) : GoalsIn(ms)[k] = ms[k].goal
  BY GoalsInType
<1> HIDE DEF p
<1>4. /\ GoalsIn(p) \in Seq(Goals) /\ Len(GoalsIn(p)) = Len(ms) + 1
      /\ \A k \in 1 .. Len(ms) + 1 : GoalsIn(p)[k] = p[k].goal
  BY <1>1, GoalsInType
<1> DEFINE x == GoalsIn(ms)
           y == m.goal
<1>5. v \in Seq(Goals) /\ Len(v) = Len(ms) + 1 /\ v[Len(ms) + 1] = m.goal
      /\ \A i \in 1 .. Len(ms) : v[i] = x[i]
  <2>1. x \in Seq(Goals) /\ y \in Goals /\ Len(x) = Len(ms)
    BY <1>2, <1>3
  <2> HIDE DEF x, y
  <2>2. Plus(x, y) \in Seq(Goals) /\ Len(Plus(x, y)) = Len(x) + 1
    BY <2>1, PlusType
  <2>3. Plus(x, y)[Len(x) + 1] = y
    BY <2>1, PlusType
  <2>4. \A i \in 1 .. Len(x) : Plus(x, y)[i] = x[i]
    BY <2>1, PlusType
  <2>5. v = Plus(x, y) /\ y = m.goal
    BY DEF x, y
  <2> HIDE DEF v
  <2> QED  BY <2>1, <2>2, <2>3, <2>4, <2>5
<1>6. \A i \in 1 .. Len(ms) + 1 : GoalsIn(p)[i] = v[i]
  <2> SUFFICES ASSUME NEW i \in 1 .. Len(ms) + 1 PROVE GoalsIn(p)[i] = v[i]
    OBVIOUS
  <2> HIDE DEF v
  <2>1. CASE i = Len(ms) + 1
    BY <1>1, <1>2, <1>4, <1>5, <2>1
  <2>2. CASE i # Len(ms) + 1
    <3>1. i \in 1 .. Len(ms)
      BY <1>2, <2>2
    <3> QED  BY <1>1, <1>3, <1>4, <1>5, <3>1
  <2> QED  BY <2>1, <2>2
<1> HIDE DEF v
<1>7. GoalsIn(p) = v
  BY <1>4, <1>5, <1>6, SeqEqual
<1> QED  BY <1>7 DEF p, v

LEMMA GoalsInHead ==
    ASSUME NEW ms \in Seq(Completions), NEW m \in Completions
    PROVE  LET u == GoalsIn(Join(<<m>>, ms))
           IN  u # <<>> /\ Head(u) = m.goal /\ Tail(u) = GoalsIn(ms)
<1> DEFINE a == <<m>>
           p == Join(a, ms)
           u == GoalsIn(p)
           w == GoalsIn(ms)
<1>1. a \in Seq(Completions) /\ Len(a) = 1 /\ a[1] = m /\ Len(ms) \in Nat
  OBVIOUS
<1> HIDE DEF a
<1>2. p \in Seq(Completions) /\ Len(p) = 1 + Len(ms) /\ p[1] = m
  <2>1. p \in Seq(Completions) /\ Len(p) = Len(a) + Len(ms)
    BY <1>1, JoinType
  <2>2. \A i \in 1 .. Len(a) : p[i] = a[i]
    BY <1>1, JoinType
  <2> HIDE DEF p
  <2> QED  BY <1>1, <2>1, <2>2
<1>3. \A i \in 1 .. Len(ms) : p[1 + i] = ms[i]
  <2>1. Carries(p, Len(a), ms)
    BY <1>1, JoinType
  <2> HIDE DEF p
  <2> QED  BY <1>1, <2>1 DEF Carries
<1> HIDE DEF p
<1>4. /\ u \in Seq(Goals) /\ Len(u) = 1 + Len(ms)
      /\ \A k \in 1 .. 1 + Len(ms) : u[k] = p[k].goal
  BY <1>2, GoalsInType
<1>5. /\ w \in Seq(Goals) /\ Len(w) = Len(ms)
      /\ \A k \in 1 .. Len(ms) : w[k] = ms[k].goal
  BY GoalsInType
<1> HIDE DEF u, w
<1>6. u # <<>> /\ Head(u) = m.goal
  <2>1. Len(u) >= 1 /\ 1 \in 1 .. 1 + Len(ms)
    BY <1>1, <1>4
  <2>2. u[1] = m.goal
    BY <1>2, <1>4, <2>1
  <2> QED  BY <1>4, <2>1, <2>2
<1>7. /\ Tail(u) \in Seq(Goals) /\ Len(Tail(u)) = Len(u) - 1
      /\ \A i \in 1 .. Len(Tail(u)) : Tail(u)[i] = u[i + 1]
  BY <1>4, <1>6, HeadTailProperties
<1>8. Len(Tail(u)) = Len(w)
  BY <1>1, <1>4, <1>5, <1>7
<1>9. ASSUME NEW i \in 1 .. Len(w)
      PROVE  Tail(u)[i] = w[i]
  <2>1. i + 1 \in 1 .. 1 + Len(ms) /\ i + 1 = 1 + i /\ i \in 1 .. Len(ms)
    BY <1>1, <1>5
  <2>2. Tail(u)[i] = u[i + 1]
    BY <1>7, <1>8
  <2>3. u[i + 1] = p[i + 1].goal
    BY <1>4, <2>1
  <2>4. p[i + 1] = ms[i]
    BY <1>3, <2>1
  <2> QED  BY <1>5, <2>1, <2>2, <2>3, <2>4
<1> DEFINE z == Tail(u)
<1>10. z \in Seq(Goals) /\ Len(w) = Len(z) /\ \A i \in 1 .. Len(w) : w[i] = z[i]
  BY <1>7, <1>8, <1>9
<1> HIDE DEF z
<1>11. w = z
  BY <1>5, <1>10, SeqEqual
<1> QED  BY <1>6, <1>11 DEF z, u, w, p, a

LEMMA FlightReports ==
    ASSUME NEW d \in Seq(Completions), NEW m \in Completions, NEW r
    PROVE  Flight(Plus(d, m), r) = IF m \in Mine(r) THEN Plus(Flight(d, r), m.goal)
                                                    ELSE Flight(d, r)
<1> DEFINE o == Only(d, Mine(r))
<1>1. o \in Seq(Completions)
  BY OnlyType
<1>2. Only(Plus(d, m), Mine(r)) = IF m \in Mine(r) THEN Plus(o, m) ELSE o
  BY OnlyPlus
<1> HIDE DEF o
<1>3. GoalsIn(Plus(o, m)) = Plus(GoalsIn(o), m.goal)
  BY <1>1, GoalsInPlus
<1> QED  BY <1>2, <1>3 DEF Flight, o

LEMMA FlightTakes ==
    ASSUME NEW d \in Seq(Completions), d # <<>>, NEW r
    PROVE  /\ Head(d) \in Mine(r) => /\ Flight(d, r) # <<>>
                                     /\ Head(Flight(d, r)) = Head(d).goal
                                     /\ Tail(Flight(d, r)) = Flight(Tail(d), r)
           /\ Head(d) \notin Mine(r) => Flight(d, r) = Flight(Tail(d), r)
<1> DEFINE m == Head(d)
           o == Only(Tail(d), Mine(r))
<1>1. m \in Completions /\ Tail(d) \in Seq(Completions)
  BY HeadTailProperties
<1>2. o \in Seq(Completions)
  BY <1>1, OnlyType
<1>3. Only(d, Mine(r)) = IF m \in Mine(r) THEN Join(<<m>>, o) ELSE o
  BY OnlyHead
<1> HIDE DEF m, o
<1>4. LET u == GoalsIn(Join(<<m>>, o))
      IN  u # <<>> /\ Head(u) = m.goal /\ Tail(u) = GoalsIn(o)
  BY <1>1, <1>2, GoalsInHead
<1>5. Flight(Tail(d), r) = GoalsIn(o)
  BY DEF Flight, o
<1>6. CASE m \in Mine(r)
  <2>1. Flight(d, r) = GoalsIn(Join(<<m>>, o))
    BY <1>3, <1>6 DEF Flight
  <2> QED  BY <1>4, <1>5, <1>6, <2>1 DEF m
<1>7. CASE m \notin Mine(r)
  <2>1. Flight(d, r) = GoalsIn(o)
    BY <1>3, <1>7 DEF Flight
  <2> QED  BY <1>5, <1>7, <2>1 DEF m
<1> QED  BY <1>6, <1>7

LEMMA FlightType ==
    ASSUME NEW d \in Seq(Completions), NEW r
    PROVE  Flight(d, r) \in Seq(Goals)
<1>1. Only(d, Mine(r)) \in Seq(Completions)
  BY OnlyType
<1> QED  BY <1>1, GoalsInType DEF Flight

-----------------------------------------------------------------------------
(* Tasks and what the robots were given of them. *)

TaskGoals(t) == {g \in Goals : g.task = t}

Histories == [Robots -> Seq(Goals)]

\* no goal stands twice, and every one is a goal of a task
Sound(h) ==
    \A r \in Robots : Distinct(h[r]) /\ \A i \in DOMAIN h[r] : h[r][i].task \in DOMAIN Releases

NotGiven(h, t) == \A r \in Robots : Only(h[r], TaskGoals(t)) = <<>>

GivenTo(h, t, r) ==
    /\ Only(h[r], TaskGoals(t)) = GoalsOf(t)
    /\ \A s \in Robots \ {r} : Only(h[s], TaskGoals(t)) = <<>>

\* the released tasks wait or were given to one robot, the others were not
Conserved(h, waiting, next) ==
    /\ h \in Histories /\ Sound(h)
    /\ waiting \subseteq 1 .. next - 1
    /\ \A t \in DOMAIN Releases : t >= next \/ t \in waiting => NotGiven(h, t)
    /\ \A t \in 1 .. next - 1 :
          Releases[t] = <<>> \/ t \in waiting \/ \E r \in Robots : GivenTo(h, t, r)

Given(h, t, r) == [h EXCEPT ![r] = Join(@, GoalsOf(t))]

LEMMA TaskOnly ==
    ASSUME NEW t \in DOMAIN Releases, NEW u
    PROVE  Only(GoalsOf(t), TaskGoals(u)) = IF u = t THEN GoalsOf(t) ELSE <<>>
<1> DEFINE s == GoalsOf(t)
<1>1. s \in Seq(Goals) /\ DOMAIN s = DOMAIN Releases[t]
      /\ \A k \in DOMAIN Releases[t] : s[k].task = t
  BY ReleaseType
<1> HIDE DEF s
<1>2. \A k \in 1 .. Len(s) : s[k].task = t /\ s[k] \in Goals
  BY <1>1
<1>3. CASE u = t
  <2>1. \A k \in 1 .. Len(s) : s[k] \in TaskGoals(u)
    BY <1>2, <1>3 DEF TaskGoals
  <2>2. Only(s, TaskGoals(u)) = s
    BY <1>1, <2>1, OnlyAllOrNone
  <2> QED  BY <1>3, <2>2 DEF s
<1>4. CASE u # t
  <2>1. \A k \in 1 .. Len(s) : s[k] \notin TaskGoals(u)
    BY <1>2, <1>4 DEF TaskGoals
  <2>2. Only(s, TaskGoals(u)) = <<>>
    BY <1>1, <2>1, OnlyAllOrNone
  <2> QED  BY <1>4, <2>2 DEF s
<1> QED  BY <1>3, <1>4

LEMMA GoalsApart ==
    ASSUME NEW t \in DOMAIN Releases
    PROVE  Distinct(GoalsOf(t))
<1>1. \A k \in DOMAIN GoalsOf(t) : GoalsOf(t)[k].leg = k
  BY DEF GoalsOf
<1> HIDE DEF GoalsOf
<1> QED  BY <1>1 DEF Distinct

(* A goal that stands nowhere in s, no goal of t being there.              *)
LEMMA NotAmong ==
    ASSUME NEW s \in Seq(Goals), NEW t, Only(s, TaskGoals(t)) = <<>>
    PROVE  \A i \in DOMAIN s : s[i].task # t
<1> SUFFICES ASSUME NEW i \in DOMAIN s, s[i].task = t PROVE FALSE
  OBVIOUS
<1>1. i \in 1 .. Len(s) /\ s[i] \in TaskGoals(t)
  BY DEF TaskGoals
<1>2. PICK j \in 1 .. Len(Only(s, TaskGoals(t))) : Only(s, TaskGoals(t))[j] = s[i]
  BY <1>1, OnlyElements
<1>3. Len(Only(s, TaskGoals(t))) = 0
  OBVIOUS
<1> QED  BY <1>2, <1>3

LEMMA JoinDistinct ==
    ASSUME NEW s \in Seq(Goals), NEW u \in Seq(Goals), NEW t, Distinct(s), Distinct(u),
           \A i \in DOMAIN s : s[i].task # t /\ s[i].task \in DOMAIN Releases,
           \A i \in DOMAIN u : u[i].task = t, t \in DOMAIN Releases
    PROVE  /\ Distinct(Join(s, u))
           /\ \A i \in DOMAIN Join(s, u) : Join(s, u)[i].task \in DOMAIN Releases
<1> DEFINE v == Join(s, u)
           m == Len(s)
           n == Len(u)
<1>1. m \in Nat /\ n \in Nat /\ DOMAIN s = 1 .. m /\ DOMAIN u = 1 .. n
  OBVIOUS
<1>2. v \in Seq(Goals) /\ Len(v) = m + n
  BY JoinType
<1>3. \A i \in 1 .. m : v[i] = s[i]
  BY JoinType
<1>4. Carries(v, m, u)
  BY JoinType
<1> HIDE DEF v, m
<1>5. \A i \in 1 .. n : v[m + i] = u[i]
  BY <1>4 DEF Carries
<1> HIDE DEF n
<1>6. DOMAIN v = 1 .. m + n
  BY <1>1, <1>2
<1>7. \A i \in DOMAIN v : i \in 1 .. m \/ \E k \in 1 .. n : i = m + k
  <2> SUFFICES ASSUME NEW i \in 1 .. m + n, i \notin 1 .. m
               PROVE  \E k \in 1 .. n : i = m + k
    BY <1>6
  <2>1. i - m \in 1 .. n /\ i = m + (i - m)
    BY <1>1
  <2> QED  BY <2>1
<1>8. /\ \A i \in 1 .. m : v[i].task # t /\ v[i].task \in DOMAIN Releases
      /\ \A k \in 1 .. n : v[m + k].task = t
  BY <1>1, <1>3, <1>5
<1>10. \A i \in DOMAIN v : v[i].task \in DOMAIN Releases
  BY <1>7, <1>8
<1>9. ASSUME NEW i \in DOMAIN v, NEW j \in DOMAIN v, v[i] = v[j]
      PROVE  i = j
  <2>1. CASE i \in 1 .. m /\ j \in 1 .. m
    BY <1>1, <1>3, <1>9, <2>1 DEF Distinct
  <2>2. CASE i \in 1 .. m /\ \E k \in 1 .. n : j = m + k
    BY <1>8, <1>9, <2>2
  <2>3. CASE j \in 1 .. m /\ \E k \in 1 .. n : i = m + k
    BY <1>8, <1>9, <2>3
  <2>4. CASE (\E k \in 1 .. n : i = m + k) /\ \E k \in 1 .. n : j = m + k
    <3>1. PICK k \in 1 .. n : i = m + k
      BY <2>4
    <3>2. PICK l \in 1 .. n : j = m + l
      BY <2>4
    <3>3. u[k] = u[l]
      BY <1>5, <1>9, <3>1, <3>2
    <3> QED  BY <1>1, <3>1, <3>2, <3>3 DEF Distinct
  <2> QED  BY <1>7, <2>1, <2>2, <2>3, <2>4
<1> QED  BY <1>9, <1>10 DEF Distinct, v

(* One robot is given a task no robot had.                                 *)
LEMMA GivingOne ==
    ASSUME NEW h \in Histories, NEW t \in DOMAIN Releases, NEW r \in Robots, NotGiven(h, t)
    PROVE  /\ Given(h, t, r) \in Histories
           /\ GivenTo(Given(h, t, r), t, r)
           /\ Sound(h) => Sound(Given(h, t, r))
           /\ \A u, s : u # t /\ s \in Robots
                 => Only(Given(h, t, r)[s], TaskGoals(u)) = Only(h[s], TaskGoals(u))
<1> DEFINE u0 == GoalsOf(t)
           g == Given(h, t, r)
           x == h[r]
<1>1. u0 \in Seq(Goals) /\ \A k \in DOMAIN u0 : u0[k].task = t
  BY ReleaseType
<1>2. x \in Seq(Goals) /\ \A s \in Robots : h[s] \in Seq(Goals)
  BY DEF Histories
<1>3. Distinct(u0)
  BY GoalsApart
<1>4. \A u : Only(u0, TaskGoals(u)) = IF u = t THEN u0 ELSE <<>>
  BY TaskOnly
<1>5. g \in [Robots -> Seq(Goals)] /\ g[r] = Join(x, u0) /\ \A s \in Robots \ {r} : g[s] = h[s]
  <2> HIDE DEF u0
  <2>1. Join(x, u0) \in Seq(Goals)
    BY <1>1, <1>2, JoinType
  <2> QED  BY <1>2, <2>1 DEF Given, Histories, u0
<1> HIDE DEF u0, g
<1>6. \A u : Only(g[r], TaskGoals(u)) = Join(Only(x, TaskGoals(u)), Only(u0, TaskGoals(u)))
  BY <1>1, <1>2, <1>5, OnlyConcat
<1>7. Only(x, TaskGoals(t)) = <<>>
  BY DEF NotGiven
<1>8. GivenTo(g, t, r)
  <2>1. Only(g[r], TaskGoals(t)) = Join(<<>>, u0)
    BY <1>4, <1>6, <1>7
  <2>2. Only(g[r], TaskGoals(t)) = u0
    BY <1>1, <2>1, JoinNothing
  <2>3. \A s \in Robots \ {r} : Only(g[s], TaskGoals(t)) = <<>>
    BY <1>5 DEF NotGiven
  <2> QED  BY <2>2, <2>3 DEF GivenTo, u0
<1>9. ASSUME NEW u, NEW s \in Robots, u # t
      PROVE  Only(g[s], TaskGoals(u)) = Only(h[s], TaskGoals(u))
  <2>1. CASE s = r
    <3>1. Only(g[r], TaskGoals(u)) = Join(Only(x, TaskGoals(u)), <<>>)
      BY <1>4, <1>6, <1>9
    <3>2. Only(x, TaskGoals(u)) \in Seq(Goals)
      BY <1>2, OnlyType
    <3> QED  BY <2>1, <3>1, <3>2, JoinNothing
  <2>2. CASE s # r
    BY <1>5, <2>2
  <2> QED  BY <2>1, <2>2
<1>10. ASSUME Sound(h)
       PROVE  Sound(g)
  <2>1. Distinct(x) /\ \A i \in DOMAIN x : x[i].task \in DOMAIN Releases
    BY <1>10 DEF Sound
  <2>2. \A i \in DOMAIN x : x[i].task # t
    BY <1>2, <1>7, NotAmong
  <2> HIDE DEF x
  <2>3. Distinct(Join(x, u0)) /\ \A i \in DOMAIN Join(x, u0) : Join(x, u0)[i].task \in DOMAIN Releases
    BY <1>1, <1>2, <1>3, <2>1, <2>2, JoinDistinct
  <2>4. Distinct(g[r]) /\ \A i \in DOMAIN g[r] : g[r][i].task \in DOMAIN Releases
    BY <1>5, <2>3
  <2> QED  BY <1>5, <1>10, <2>4 DEF Sound
<1>11. g \in Histories
  BY <1>5 DEF Histories
<1> QED  BY <1>8, <1>9, <1>10, <1>11 DEF g

(* A waiting task is given, or turns out to be empty, or arrives.          *)
LEMMA Giving ==
    ASSUME NEW h, NEW w, NEW next \in Nat, next <= Len(Releases) + 1, Conserved(h, w, next),
           NEW t \in w, NEW r \in Robots
    PROVE  t \in DOMAIN Releases /\ Conserved(Given(h, t, r), w \ {t}, next)
<1> DEFINE g == Given(h, t, r)
<1>1. \A u \in 1 .. next - 1 : u \in DOMAIN Releases
  BY ReleasesAssumption
<1>2. t \in DOMAIN Releases /\ h \in Histories /\ NotGiven(h, t) /\ t \in 1 .. next - 1
  BY <1>1 DEF Conserved
<1>3. g \in Histories /\ GivenTo(g, t, r)
  BY <1>2, GivingOne
<1>4. \A u, s : u # t /\ s \in Robots => Only(g[s], TaskGoals(u)) = Only(h[s], TaskGoals(u))
  BY <1>2, GivingOne
<1>5. Sound(g)
  BY <1>2, GivingOne DEF Conserved
<1> HIDE DEF g
<1>6. \A u \in DOMAIN Releases : u >= next \/ u \in w \ {t} => NotGiven(g, u)
  <2> SUFFICES ASSUME NEW u \in DOMAIN Releases, u >= next \/ u \in w \ {t}
               PROVE  NotGiven(g, u)
    OBVIOUS
  <2>1. u # t
    BY <1>2
  <2>2. NotGiven(h, u)
    BY DEF Conserved
  <2> QED  BY <1>4, <2>1, <2>2 DEF NotGiven
<1>7. ASSUME NEW u \in 1 .. next - 1
      PROVE  Releases[u] = <<>> \/ u \in w \ {t} \/ \E s \in Robots : GivenTo(g, u, s)
  <2>1. CASE u = t
    BY <1>3, <2>1
  <2>2. CASE u # t
    <3>1. ASSUME NEW s \in Robots, GivenTo(h, u, s)
          PROVE  GivenTo(g, u, s)
      BY <1>4, <2>2, <3>1 DEF GivenTo
    <3> QED  BY <2>2, <3>1 DEF Conserved
  <2> QED  BY <2>1, <2>2
<1> QED  BY <1>2, <1>3, <1>5, <1>6, <1>7 DEF Conserved, g

LEMMA Skipping ==
    ASSUME NEW h, NEW w, NEW next, Conserved(h, w, next), NEW t, Releases[t] = <<>>
    PROVE  Conserved(h, w \ {t}, next)
BY DEF Conserved

LEMMA Arriving ==
    ASSUME NEW h, NEW w, NEW next \in Nat \ {0}, Conserved(h, w, next)
    PROVE  Conserved(h, w \cup {next}, next + 1)
<1>1. w \cup {next} \subseteq 1 .. (next + 1) - 1
  BY DEF Conserved
<1>2. \A t \in DOMAIN Releases : t >= next + 1 \/ t \in w \cup {next} => NotGiven(h, t)
  <2>1. \A t \in DOMAIN Releases : t \in Nat
    BY ReleasesAssumption
  <2>2. \A t \in DOMAIN Releases : t >= next + 1 \/ t \in w \cup {next} => t >= next \/ t \in w
    BY <2>1
  <2> QED  BY <2>2 DEF Conserved
<1>3. \A t \in 1 .. (next + 1) - 1 : t \in 1 .. next - 1 \/ t = next
  OBVIOUS
<1>4. \A t \in 1 .. (next + 1) - 1 :
         Releases[t] = <<>> \/ t \in w \cup {next} \/ \E r \in Robots : GivenTo(h, t, r)
  BY <1>3 DEF Conserved
<1> QED  BY <1>1, <1>2, <1>4 DEF Conserved

-----------------------------------------------------------------------------
(* The policy conserves the tasks. *)

\* what the robots were given: the goals they have finished, then their queues
Hist(c, queue) == [r \in Robots |-> Join(c[r], queue[r])]

\* the tasks in the pool and those in w wait, each at one place
TasksKept(c, w, next, b) ==
    /\ Conserved(Hist(c, b.queue), ToSet(b.pool) \cup w, next)
    /\ Distinct(b.pool) /\ ToSet(b.pool) \cap w = {}

Longer(p, q) == \A r \in Robots : Extends(p[r], q[r])

Keeping(c, w, next, q) ==
    {b \in GoodBases : TasksKept(c, w, next, b) /\ Longer(b.queue, q)}

LEMMA LongerOrder ==
    ASSUME NEW p \in Histories, NEW q \in Histories, NEW u \in Histories
    PROVE  Longer(p, p) /\ (Longer(q, p) /\ Longer(u, q) => Longer(u, p))
<1>1. \A r \in Robots : p[r] \in Seq(Goals) /\ q[r] \in Seq(Goals) /\ u[r] \in Seq(Goals)
  BY DEF Histories
<1> QED  BY <1>1, ExtendsOrder DEF Longer

LEMMA HistGiven ==
    ASSUME NEW c \in Histories, NEW b \in GoodBases, NEW t \in DOMAIN Releases, NEW r \in Robots
    PROVE  /\ Hist(c, AppendGoals(b, t, r).queue) = Given(Hist(c, b.queue), t, r)
           /\ Longer(AppendGoals(b, t, r).queue, b.queue)
           /\ AppendGoals(b, t, r).queue[r] = Join(b.queue[r], GoalsOf(t))
<1> DEFINE u == GoalsOf(t)
           p == AppendGoals(b, t, r).queue
           q == b.queue
<1>1. u \in Seq(Goals) /\ q \in [Robots -> Seq(Goals)] /\ c \in [Robots -> Seq(Goals)]
  BY ReleaseType DEF GoodBases, Bases, Histories
<1>2. p = [q EXCEPT ![r] = Join(q[r], u)]
  <2> HIDE DEF u
  <2>1. b = [queue |-> b.queue, pool |-> b.pool, cumulative |-> b.cumulative]
    BY DEF GoodBases, Bases
  <2>2. AppendGoals(b, t, r) = [b EXCEPT !.queue      = [b.queue EXCEPT ![r] = @ \o u],
                                        !.cumulative = [b.cumulative EXCEPT ![r] = @ + Len(Releases[t])]]
    BY <2>1 DEF AppendGoals, u
  <2>3. p = [q EXCEPT ![r] = @ \o u]
    BY <2>1, <2>2
  <2> QED  BY <2>3 DEF Join
<1> HIDE DEF u, p, q
<1>3. p[r] = Join(q[r], u) /\ \A s \in Robots \ {r} : p[s] = q[s]
  BY <1>1, <1>2
<1>4. Join(c[r], Join(q[r], u)) = Join(Join(c[r], q[r]), u)
  <2>1. c[r] \in Seq(Goals) /\ q[r] \in Seq(Goals)
    BY <1>1
  <2> QED  BY <1>1, <2>1, JoinAssociative
<1>5. Hist(c, p) = Given(Hist(c, q), t, r)
  <2>1. Given(Hist(c, q), t, r) = [Hist(c, q) EXCEPT ![r] = Join(Join(c[r], q[r]), u)]
    BY DEF Given, Hist, u
  <2>2. ASSUME NEW s \in Robots
        PROVE  Hist(c, p)[s] = [Hist(c, q) EXCEPT ![r] = Join(Join(c[r], q[r]), u)][s]
    BY <1>3, <1>4 DEF Hist
  <2> QED  BY <2>1, <2>2 DEF Hist
<1>6. Longer(p, q)
  <2> SUFFICES ASSUME NEW s \in Robots PROVE Extends(p[s], q[s])
    BY DEF Longer
  <2>1. q[s] \in Seq(Goals)
    BY <1>1
  <2>2. CASE s = r
    BY <1>1, <1>3, <2>1, <2>2, JoinExtends
  <2>3. CASE s # r
    BY <1>1, <1>3, <2>1, <2>3, ExtendsOrder
  <2> QED  BY <2>2, <2>3
<1> QED  BY <1>3, <1>5, <1>6 DEF p, q, u

LEMMA ToSetAppend ==
    ASSUME NEW X, NEW s \in Seq(X), NEW x \in X, Distinct(s), x \notin ToSet(s)
    PROVE  ToSet(Append(s, x)) = ToSet(s) \cup {x} /\ Distinct(Append(s, x))
<1> DEFINE p == Append(s, x)
           N == Len(s)
<1>1. /\ N \in Nat /\ DOMAIN s = 1 .. N /\ DOMAIN p = 1 .. N + 1
      /\ p[N + 1] = x /\ \A i \in 1 .. N : p[i] = s[i]
  BY AppendProperties
<1> HIDE DEF p, N
<1>2. \A i \in 1 .. N + 1 : i \in 1 .. N \/ i = N + 1
  BY <1>1
<1>3. ToSet(p) = ToSet(s) \cup {x}
  BY <1>1, <1>2 DEF ToSet
<1>4. ASSUME NEW i \in DOMAIN p, NEW j \in DOMAIN p, p[i] = p[j]
      PROVE  i = j
  BY <1>1, <1>2, <1>4 DEF ToSet, Distinct
<1> QED  BY <1>3, <1>4 DEF Distinct, p

LEMMA ToSetTail ==
    ASSUME NEW X, NEW s \in Seq(X), s # <<>>, Distinct(s)
    PROVE  /\ ToSet(Tail(s)) = ToSet(s) \ {Head(s)} /\ Distinct(Tail(s))
           /\ Head(s) \in ToSet(s)
<1> DEFINE p == Tail(s)
           N == Len(s)
           x == Head(s)
<1>1. /\ N \in Nat /\ N >= 1 /\ DOMAIN s = 1 .. N /\ DOMAIN p = 1 .. N - 1
      /\ x = s[1] /\ \A i \in 1 .. N - 1 : p[i] = s[i + 1]
  BY HeadTailProperties
<1> HIDE DEF p, N, x
<1>2. \A i \in 1 .. N : i = 1 \/ (i - 1 \in 1 .. N - 1 /\ (i - 1) + 1 = i)
  BY <1>1
<1>3. \A i \in 1 .. N - 1 : i + 1 \in 1 .. N /\ i + 1 # 1
  BY <1>1
<1>4. ToSet(p) \subseteq ToSet(s) \ {x}
  BY <1>1, <1>3 DEF ToSet, Distinct
<1>5. ASSUME NEW y \in ToSet(s) \ {x}
      PROVE  y \in ToSet(p)
  <2>1. PICK i \in 1 .. N : y = s[i]
    BY <1>1 DEF ToSet
  <2>2. i - 1 \in 1 .. N - 1 /\ (i - 1) + 1 = i
    BY <1>1, <1>2, <2>1
  <2>3. p[i - 1] = y
    BY <1>1, <2>1, <2>2
  <2> QED  BY <1>1, <2>2, <2>3 DEF ToSet
<1>6. ASSUME NEW i \in DOMAIN p, NEW j \in DOMAIN p, p[i] = p[j]
      PROVE  i = j
  <2>1. s[i + 1] = s[j + 1] /\ i + 1 \in DOMAIN s /\ j + 1 \in DOMAIN s
    BY <1>1, <1>3, <1>6
  <2>2. i + 1 = j + 1
    BY <2>1 DEF Distinct
  <2> QED  BY <1>1, <2>2
<1>7. x \in ToSet(s)
  BY <1>1 DEF ToSet
<1> QED  BY <1>4, <1>5, <1>6, <1>7 DEF Distinct, p, x

LEMMA BaseParts ==
    ASSUME NEW b \in GoodBases
    PROVE  /\ b.queue \in Histories /\ b.pool \in Seq(DOMAIN Releases)
           /\ \A pool : /\ [b EXCEPT !.pool = pool].queue = b.queue
                        /\ [b EXCEPT !.pool = pool].pool = pool
BY DEF GoodBases, Bases, Histories

(* Serving the pool keeps them.                                            *)
LEMMA ServeConserves ==
    ASSUME NEW c \in Histories, NEW w, NEW next \in Nat, next <= Len(Releases) + 1,
           NEW q \in Histories, NEW b \in Keeping(c, w, next, q), NEW t \in DOMAIN Releases
    PROVE  ServeFront(b, t) \in Keeping(c, w, next, q)
<1>1. CASE ~(b.pool # <<>> /\ t = Head(b.pool) /\ Candidates(b, t) # {})
  BY <1>1 DEF ServeFront
<1>2. CASE b.pool # <<>> /\ t = Head(b.pool) /\ Candidates(b, t) # {}
  <2> DEFINE r == Best(b, t)
             a == AppendGoals(b, t, r)
             d == [a EXCEPT !.pool = Tail(b.pool)]
  <2>1. b \in GoodBases /\ TasksKept(c, w, next, b) /\ Longer(b.queue, q)
    BY DEF Keeping
  <2>2. r \in Candidates(b, t) /\ r \in Robots
    BY <1>2, <2>1, BestIsCandidate DEF Candidates
  <2> HIDE DEF r
  <2>3. a \in GoodBases /\ a.pool = b.pool
    BY <2>1, <2>2, AppendKeeps
  <2>4. Hist(c, a.queue) = Given(Hist(c, b.queue), t, r) /\ Longer(a.queue, b.queue)
    BY <2>1, <2>2, HistGiven
  <2>5. ServeFront(b, t) = d /\ d \in GoodBases
    BY <1>2, <2>1, <2>3, ServeKeeps DEF ServeFront, r
  <2> HIDE DEF a
  <2>6. d.queue = a.queue /\ d.pool = Tail(b.pool) /\ a.queue \in Histories
    BY <2>3, BaseParts
  <2> HIDE DEF d
  <2>7. /\ ToSet(Tail(b.pool)) = ToSet(b.pool) \ {t} /\ Distinct(Tail(b.pool))
        /\ t \in ToSet(b.pool)
    BY <1>2, <2>1, BaseParts, ToSetTail DEF TasksKept
  <2>8. Conserved(Given(Hist(c, b.queue), t, r), (ToSet(b.pool) \cup w) \ {t}, next)
    BY <2>1, <2>2, <2>7, Giving DEF TasksKept
  <2>9. (ToSet(b.pool) \cup w) \ {t} = ToSet(Tail(b.pool)) \cup w /\ ToSet(Tail(b.pool)) \cap w = {}
    BY <2>1, <2>7 DEF TasksKept
  <2>10. TasksKept(c, w, next, d)
    BY <2>4, <2>6, <2>7, <2>8, <2>9 DEF TasksKept
  <2>11. Longer(d.queue, q)
    BY <2>1, <2>4, <2>6, BaseParts, LongerOrder
  <2> QED  BY <2>5, <2>10, <2>11 DEF Keeping
<1> QED  BY <1>1, <1>2

LEMMA RetryConserves ==
    ASSUME NEW c \in Histories, NEW w, NEW next \in Nat, next <= Len(Releases) + 1,
           NEW q \in Histories, NEW b \in Keeping(c, w, next, q)
    PROVE  RetryPool(b) \in Keeping(c, w, next, q)
<1>1. b.pool \in Seq(DOMAIN Releases)
  BY BaseParts DEF Keeping
<1> QED  BY <1>1, ServeConserves, ServingStays DEF RetryPool

(* A task whose turn it is goes to a robot or to the end of the pool.      *)
LEMMA ReleaseConserves ==
    ASSUME NEW c \in Histories, NEW w, NEW next \in Nat, next <= Len(Releases) + 1,
           NEW q \in Histories, NEW b \in Keeping(c, w, next, q), NEW t \in w
    PROVE  t \in DOMAIN Releases /\ OnRelease(b, t) \in Keeping(c, w \ {t}, next, q)
<1>1. b \in GoodBases /\ TasksKept(c, w, next, b) /\ Longer(b.queue, q)
  BY DEF Keeping
<1>2. t \in DOMAIN Releases
  <2>1. t \in 1 .. next - 1
    BY <1>1 DEF TasksKept, Conserved
  <2> QED  BY <2>1, ReleasesAssumption
<1>3. CASE Candidates(b, t) = {}
  <2> DEFINE pool == Append(b.pool, t)
             d == [b EXCEPT !.pool = pool]
  <2>1. OnRelease(b, t) = d
    <3>1. b = [queue |-> b.queue, pool |-> b.pool, cumulative |-> b.cumulative]
      BY <1>1 DEF GoodBases, Bases
    <3> QED  BY <1>3, <3>1 DEF OnRelease
  <2>2. b.pool \in Seq(DOMAIN Releases) /\ t \notin ToSet(b.pool) /\ Distinct(b.pool)
    BY <1>1, BaseParts DEF TasksKept
  <2>3. ToSet(pool) = ToSet(b.pool) \cup {t} /\ Distinct(pool)
    BY <1>2, <2>2, ToSetAppend
  <2> HIDE DEF pool
  <2>4. d.queue = b.queue /\ d.pool = pool
    BY <1>1, BaseParts
  <2>5. d \in GoodBases
    BY <1>1, <1>2, <2>1, ReleaseKeeps
  <2> HIDE DEF d
  <2>6. ToSet(pool) \cup (w \ {t}) = ToSet(b.pool) \cup w /\ ToSet(pool) \cap (w \ {t}) = {}
    BY <1>1, <2>3 DEF TasksKept
  <2>7. TasksKept(c, w \ {t}, next, d)
    BY <1>1, <2>3, <2>4, <2>6 DEF TasksKept
  <2> QED  BY <1>1, <1>2, <2>1, <2>4, <2>5, <2>7 DEF Keeping
<1>4. CASE Candidates(b, t) # {}
  <2> DEFINE r == Best(b, t)
             a == AppendGoals(b, t, r)
  <2>1. r \in Candidates(b, t) /\ r \in Robots
    BY <1>1, <1>2, <1>4, BestIsCandidate DEF Candidates
  <2>2. OnRelease(b, t) = a
    BY <1>4 DEF OnRelease
  <2> HIDE DEF r
  <2>3. a \in GoodBases /\ a.pool = b.pool
    BY <1>1, <1>2, <2>1, AppendKeeps
  <2>4. Hist(c, a.queue) = Given(Hist(c, b.queue), t, r) /\ Longer(a.queue, b.queue)
    BY <1>1, <1>2, <2>1, HistGiven
  <2> HIDE DEF a
  <2>5. Conserved(Given(Hist(c, b.queue), t, r), (ToSet(b.pool) \cup w) \ {t}, next)
    BY <1>1, <2>1, Giving DEF TasksKept
  <2>6. (ToSet(b.pool) \cup w) \ {t} = ToSet(a.pool) \cup (w \ {t}) /\ ToSet(a.pool) \cap (w \ {t}) = {}
    BY <1>1, <2>3 DEF TasksKept
  <2>7. TasksKept(c, w \ {t}, next, a)
    BY <1>1, <2>3, <2>4, <2>5, <2>6 DEF TasksKept
  <2>8. Longer(a.queue, q)
    BY <1>1, <2>3, <2>4, BaseParts, LongerOrder
  <2> QED  BY <1>2, <2>2, <2>3, <2>7, <2>8 DEF Keeping
<1> QED  BY <1>2, <1>3, <1>4

-----------------------------------------------------------------------------
(* A pool has a goal that will retry it. *)

Busy(b) == \E r \in Robots : b.queue[r] # <<>>

Live(b) == Feasible /\ b.pool # <<>> => Busy(b)

(* With all queues empty, a task of a feasible instance finds a robot.     *)
LEMMA IdleTakes ==
    ASSUME NEW b \in GoodBases, NEW t \in DOMAIN Releases, Feasible, ~Busy(b)
    PROVE  Candidates(b, t) # {}
<1>1. PICK r \in Robots : /\ Len(Releases[t]) \in 1 .. Q
                          /\ <<Start[r], Head(Releases[t])>> \in DOMAIN Dist
  BY DEF Feasible
<1>2. \A s \in Robots : b.queue[s] = <<>>
  BY DEF Busy
<1>3. Releases[t] # <<>>
  <2>1. Len(Releases[t]) # 0
    BY <1>1
  <2> QED  BY <2>1
<1>4. \A k \in DOMAIN Releases[t] : ~InUse(b, Releases[t][k])
  <2>1. \A s \in Robots : DOMAIN b.queue[s] = {}
    BY <1>2
  <2> QED  BY <2>1 DEF InUse
<1>5. Len(b.queue[r]) + Len(Releases[t]) <= Q
  <2>1. Len(b.queue[r]) = 0
    BY <1>2
  <2>2. Q \in Nat
    BY RosterAssumption
  <2> QED  BY <1>1, <2>1, <2>2
<1>6. Origin(b, r) = Start[r]
  BY <1>2 DEF Origin
<1>7. r \in Candidates(b, t)
  BY <1>1, <1>3, <1>4, <1>5, <1>6 DEF Candidates
<1> QED  BY <1>7

(* The robot that was given a task has goals.                              *)
LEMMA TakerIsBusy ==
    ASSUME NEW b \in GoodBases, NEW t \in DOMAIN Releases, Candidates(b, t) # {}
    PROVE  /\ Busy(AppendGoals(b, t, Best(b, t)))
           /\ Longer(AppendGoals(b, t, Best(b, t)).queue, b.queue)
           /\ AppendGoals(b, t, Best(b, t)).pool = b.pool
<1> DEFINE r == Best(b, t)
           a == AppendGoals(b, t, r)
           x == b.queue[r]
           u == GoalsOf(t)
<1>1. r \in Candidates(b, t) /\ r \in Robots /\ Releases[t] # <<>>
  BY BestIsCandidate DEF Candidates
<1> HIDE DEF r
<1>2. NoGoals \in Histories
  BY DEF NoGoals, Histories
<1>3. a.queue[r] = Join(x, u) /\ Longer(a.queue, b.queue)
  BY <1>1, <1>2, HistGiven
<1>4. a.pool = b.pool
  BY <1>1, AppendKeeps
<1> HIDE DEF a
<1>5. x \in Seq(Goals) /\ u \in Seq(Goals) /\ Len(u) # 0
  <2>1. Releases[t] \in Seq(Locations) /\ Len(Releases[t]) # 0
    BY <1>1, ReleaseType
  <2> QED  BY <1>1, <2>1, ReleaseType DEF GoodBases, Bases
<1> HIDE DEF x, u
<1>6. Len(Join(x, u)) # 0
  <2>1. Len(Join(x, u)) = Len(x) + Len(u)
    BY <1>5, JoinType
  <2>2. Len(x) \in Nat /\ Len(u) \in Nat
    BY <1>5
  <2> QED  BY <1>5, <2>1, <2>2
<1>7. a.queue[r] # <<>>
  BY <1>3, <1>6
<1> QED  BY <1>1, <1>3, <1>4, <1>7 DEF Busy, a, r

LEMMA BusyStays ==
    ASSUME NEW b \in GoodBases, NEW d \in GoodBases, Longer(d.queue, b.queue), Busy(b)
    PROVE  Busy(d)
<1>1. PICK r \in Robots : b.queue[r] # <<>>
  BY DEF Busy
<1>2. b.queue[r] \in Seq(Goals) /\ d.queue[r] \in Seq(Goals)
  BY DEF GoodBases, Bases
<1>3. Len(b.queue[r]) <= Len(d.queue[r])
  BY DEF Longer, Extends
<1>4. d.queue[r] # <<>>
  BY <1>1, <1>2, <1>3
<1> QED  BY <1>4 DEF Busy

LEMMA ReleaseLive ==
    ASSUME NEW b \in GoodBases, NEW t \in DOMAIN Releases
    PROVE  Live(OnRelease(b, t))
<1>1. CASE Candidates(b, t) # {}
  BY <1>1, TakerIsBusy DEF OnRelease, Live
<1>2. CASE Candidates(b, t) = {}
  <2> DEFINE d == [b EXCEPT !.pool = Append(@, t)]
  <2>1. OnRelease(b, t) = d
    BY <1>2 DEF OnRelease
  <2>2. d.queue = b.queue
    BY DEF GoodBases, Bases
  <2>3. Feasible => Busy(b)
    BY <1>2, IdleTakes
  <2> HIDE DEF d
  <2> QED  BY <2>1, <2>2, <2>3 DEF Live, Busy
<1> QED  BY <1>1, <1>2

LEMMA ServeGrows ==
    ASSUME NEW b \in GoodBases, NEW t \in DOMAIN Releases
    PROVE  /\ Longer(ServeFront(b, t).queue, b.queue)
           /\ b.pool # <<>> /\ t = Head(b.pool) /\ Candidates(b, t) # {} => Busy(ServeFront(b, t))
<1>1. CASE ~(b.pool # <<>> /\ t = Head(b.pool) /\ Candidates(b, t) # {})
  <2>1. ServeFront(b, t) = b
    BY <1>1 DEF ServeFront
  <2>2. Longer(b.queue, b.queue)
    BY BaseParts, LongerOrder
  <2> QED  BY <1>1, <2>1, <2>2
<1>2. CASE b.pool # <<>> /\ t = Head(b.pool) /\ Candidates(b, t) # {}
  <2> DEFINE a == AppendGoals(b, t, Best(b, t))
             d == [a EXCEPT !.pool = Tail(@)]
  <2>1. ServeFront(b, t) = d
    BY <1>2 DEF ServeFront
  <2>2. Busy(a) /\ Longer(a.queue, b.queue)
    BY <1>2, TakerIsBusy
  <2>3. a \in GoodBases
    BY <1>2, BestIsCandidate, AppendKeeps
  <2> HIDE DEF a
  <2>4. d.queue = a.queue
    BY <2>3 DEF GoodBases, Bases
  <2> HIDE DEF d
  <2> QED  BY <2>1, <2>2, <2>4 DEF Busy
<1> QED  BY <1>1, <1>2

(* Whatever the pool was before, once it was retried it is not stranded.   *)
LEMMA RetryLive ==
    ASSUME NEW b \in GoodBases
    PROVE  Live(RetryPool(b))
<1> DEFINE N == Len(b.pool)
<1>1. b.pool \in Seq(DOMAIN Releases) /\ N \in Nat
  BY BaseParts
<1>2. PICK f : ServeFrontRun(f, GoodBases, b, b.pool)
  BY <1>1, ServeKeeps, ServingRuns
<1>3. /\ f \in [0 .. N -> GoodBases] /\ f[0] = b /\ RetryPool(b) = f[N]
      /\ \A n \in 1 .. N : f[n] = ServeFront(f[n - 1], b.pool[n])
  BY <1>2 DEF ServeFrontRun, RetryPool
<1>4. CASE b.pool = <<>>
  <2>1. N = 0
    BY <1>4
  <2> HIDE DEF N
  <2> QED  BY <1>3, <1>4, <2>1 DEF Live
<1>5. CASE b.pool # <<>> /\ Feasible
  <2>1. N >= 1 /\ \A n \in 1 .. N : b.pool[n] \in DOMAIN Releases
    BY <1>1, <1>5
  <2>2. Head(b.pool) = b.pool[1]
    BY <1>1, <1>5
  <2> HIDE DEF N
  <2>3. \A n \in 1 .. N : f[n - 1] \in GoodBases /\ f[n] \in GoodBases
    BY <1>1, <1>3
  <2> DEFINE S == {n \in 0 .. N : n = 0 \/ Busy(f[n])}
  <2>4. ASSUME NEW n \in 1 .. N, n - 1 \in S
        PROVE  n \in S
    <3> DEFINE x == f[n - 1]
               t == b.pool[n]
    <3>1. x \in GoodBases /\ t \in DOMAIN Releases /\ f[n] = ServeFront(x, t) /\ f[n] \in GoodBases
      BY <1>3, <2>1, <2>3
    <3>2. Busy(x) \/ n = 1
      BY <2>4
    <3>3. CASE Busy(x)
      <4> HIDE DEF x, t
      <4>1. Longer(ServeFront(x, t).queue, x.queue)
        BY <3>1, ServeGrows
      <4>2. Busy(f[n])
        BY <3>1, <3>3, <4>1, BusyStays
      <4> QED  BY <4>2
    <3>4. CASE n = 1 /\ ~Busy(x)
      <4>1. x = b /\ t = Head(b.pool)
        BY <1>3, <2>2, <3>4
      <4> HIDE DEF x, t
      <4>2. Candidates(x, t) # {}
        BY <1>5, <3>1, <3>4, IdleTakes
      <4>3. Busy(ServeFront(x, t))
        BY <1>5, <3>1, <4>1, <4>2, ServeGrows
      <4> QED  BY <3>1, <4>3
    <3> QED  BY <3>2, <3>3, <3>4
  <2>5. N \in S
    <3>1. 0 \in S
      BY <1>1
    <3> HIDE DEF S
    <3>2. \A n \in 0 .. N : n \in S
      BY <1>1, <2>4, <3>1, UpTo
    <3> QED  BY <1>1, <3>2
  <2>6. Busy(f[N])
    BY <2>1, <2>5
  <2> QED  BY <1>3, <2>6 DEF Live
<1>6. CASE ~Feasible
  BY <1>6 DEF Live
<1> QED  BY <1>4, <1>5, <1>6

-----------------------------------------------------------------------------
(* Releases, one by one. *)

\* what the topic says while nothing was published is that no robot has goals
Quiet(p) == p.revision = 0 => p.goals = NoGoals

Steady(c, w, next, q) ==
    {s \in Replayed : s.base \in Keeping(c, w, next, q) /\ Live(s.base) /\ Quiet(s.published)}

LEMMA PublishedQuiet ==
    ASSUME NEW p \in Assignments, NEW b, NEW l, Quiet(p)
    PROVE  Quiet(Published(p, b, l))
<1>1. CASE SameContent(p, b, l)
  BY <1>1 DEF Published
<1>2. CASE ~SameContent(p, b, l)
  <2> DEFINE goals == ViewGoals(b, l)
             pool == ToSet(b.pool)
             x == [revision |-> p.revision + 1, goals |-> goals, unassigned |-> pool]
  <2>1. Published(p, b, l) = x
    BY <1>2 DEF Published
  <2> HIDE DEF goals, pool
  <2>2. p.revision \in Nat /\ x.revision = p.revision + 1
    BY DEF Assignments
  <2>3. x.revision # 0
    BY <2>2
  <2> QED  BY <2>1, <2>3 DEF Quiet
<1> QED  BY <1>1, <1>2

LEMMA OneReleaseConserves ==
    ASSUME latch \in [Robots -> Latched], NEW c \in Histories, NEW w,
           NEW next \in Nat, next <= Len(Releases) + 1, NEW q \in Histories,
           NEW s \in Steady(c, w, next, q), NEW t \in w
    PROVE  t \in DOMAIN Releases /\ Release(s, t) \in Steady(c, w \ {t}, next, q)
<1>1. s \in Replayed /\ s.base \in Keeping(c, w, next, q) /\ Live(s.base) /\ Quiet(s.published)
  BY DEF Steady
<1>2. t \in DOMAIN Releases /\ OnRelease(s.base, t) \in Keeping(c, w \ {t}, next, q)
  BY <1>1, ReleaseConserves
<1>3. Release(s, t) \in Replayed
  BY <1>1, <1>2, OneRelease
<1>4. CASE Releases[t] = <<>>
  <2> DEFINE h == Hist(c, s.base.queue)
             pool == ToSet(s.base.pool)
  <2>1. Release(s, t) = s
    BY <1>4 DEF Release
  <2>2. /\ s.base \in GoodBases /\ Longer(s.base.queue, q) /\ Conserved(h, pool \cup w, next)
        /\ Distinct(s.base.pool) /\ pool \cap w = {}
    BY <1>1 DEF Keeping, TasksKept
  <2> HIDE DEF h, pool
  <2>3. Conserved(h, (pool \cup w) \ {t}, next)
    BY <1>4, <2>2, Skipping
  <2>4. (pool \cup w) \ {t} = pool \cup (w \ {t}) /\ pool \cap (w \ {t}) = {}
    BY <2>2
  <2>5. Conserved(h, pool \cup (w \ {t}), next)
    BY <2>3, <2>4
  <2>6. TasksKept(c, w \ {t}, next, s.base)
    BY <2>2, <2>4, <2>5 DEF TasksKept, h, pool
  <2> QED  BY <1>1, <1>2, <1>3, <2>1, <2>2, <2>6 DEF Steady, Keeping
<1>5. CASE Releases[t] # <<>>
  <2> DEFINE b == OnRelease(s.base, t)
             p == Published(s.published, b, latch)
             z == [base |-> b, published |-> p]
  <2>1. Release(s, t) = z
    BY <1>5 DEF Release
  <2>2. Live(b) /\ b \in Keeping(c, w \ {t}, next, q)
    BY <1>1, <1>2, ReleaseLive DEF Keeping
  <2>3. Quiet(p)
    <3>1. s.published \in Assignments
      BY <1>1 DEF Replayed
    <3> HIDE DEF b
    <3> QED  BY <1>1, <3>1, PublishedQuiet
  <2> HIDE DEF b, p
  <2> QED  BY <1>2, <1>3, <2>1, <2>2, <2>3 DEF Steady
<1> QED  BY <1>2, <1>4, <1>5

(* The replay: what is left to replay becomes less with every release.     *)
LEMMA ReplayConserves ==
    ASSUME latch \in [Robots -> Latched], NEW c \in Histories,
           NEW next \in Nat, next <= Len(Releases) + 1, NEW q \in Histories,
           NEW d \in Seq(DOMAIN Releases), Distinct(d), NEW s \in Steady(c, ToSet(d), next, q)
    PROVE  Folded(Release, s, d) \in Steady(c, {}, next, q)
<1> DEFINE N == Len(d)
           left(n) == {d[i] : i \in n + 1 .. N}
<1>1. N \in Nat /\ DOMAIN d = 1 .. N /\ \A n \in 1 .. N : d[n] \in DOMAIN Releases
  OBVIOUS
<1>2. s \in Replayed
  BY DEF Steady
<1>3. PICK f : ReleaseRun(f, Replayed, s, d)
  BY <1>2, OneRelease, ReleasingRuns
<1>4. /\ f[0] = s /\ Folded(Release, s, d) = f[N]
      /\ \A n \in 1 .. N : f[n] = Release(f[n - 1], d[n])
  BY <1>3 DEF ReleaseRun
<1> HIDE DEF N
<1>5. left(0) = ToSet(d) /\ left(N) = {}
  <2>1. left(0) = ToSet(d)
    BY <1>1 DEF ToSet
  <2>2. left(N) = {}
    BY <1>1
  <2> QED  BY <2>1, <2>2
<1>6. ASSUME NEW n \in 1 .. N
      PROVE  d[n] \in left(n - 1) /\ left(n - 1) \ {d[n]} = left(n)
  <2>1. \A i : i \in (n - 1) + 1 .. N <=> i = n \/ i \in n + 1 .. N
    BY <1>1
  <2>2. \A i \in n + 1 .. N : i \in DOMAIN d /\ i # n
    BY <1>1
  <2>3. \A i \in n + 1 .. N : d[i] # d[n]
    BY <1>1, <2>2 DEF Distinct
  <2> QED  BY <2>1, <2>3
<1> DEFINE S == {n \in 0 .. N : f[n] \in Steady(c, left(n), next, q)}
<1>7. 0 \in S
  <2> HIDE DEF left
  <2> QED  BY <1>1, <1>4, <1>5
<1>8. ASSUME NEW n \in 1 .. N, n - 1 \in S
      PROVE  n \in S
  <2> HIDE DEF left
  <2>1. f[n - 1] \in Steady(c, left(n - 1), next, q)
    BY <1>8
  <2>2. f[n] = Release(f[n - 1], d[n])
    BY <1>4
  <2>3. f[n] \in Steady(c, left(n - 1) \ {d[n]}, next, q)
    BY <1>6, <2>1, <2>2, OneReleaseConserves
  <2>4. left(n - 1) \ {d[n]} = left(n) /\ n \in 0 .. N
    BY <1>1, <1>6
  <2> QED  BY <2>3, <2>4
<1>9. N \in S
  <2> HIDE DEF S
  <2>1. \A n \in 0 .. N : n \in S
    BY <1>1, <1>7, <1>8, UpTo
  <2> QED  BY <1>1, <2>1
<1> HIDE DEF left
<1> QED  BY <1>4, <1>5, <1>9

-----------------------------------------------------------------------------
(* The invariant. *)

SpentGoals == [r \in Robots |-> Spent(Own(r), Flight(doneQ, r))]

HistoryNow == Hist(SpentGoals, base.queue)

TaskInv == TasksKept(SpentGoals, ToSet(deferred), nextRelease, base) /\ Distinct(deferred)

LedgerInv == \A r \in Robots : Ledger(Own(r), Flight(doneQ, r), base.queue[r], seen[r])

HistoryInv == AssignInv /\ TaskInv /\ LedgerInv /\ Live(base) /\ Quiet(published)

LEMMA HistoryTypes ==
    ASSUME HistoryInv
    PROVE  /\ SpentGoals \in Histories /\ base.queue \in Histories /\ HistoryNow \in Histories
           /\ base \in GoodBases /\ nextRelease \in Nat /\ nextRelease <= Len(Releases) + 1
           /\ doneQ \in Seq(Completions)
           /\ \A r \in Robots : /\ reported[r] \in Seq(Goals) /\ seen[r] \in Seq(Goals)
                                /\ Own(r) \in Seq(Goals) /\ Flight(doneQ, r) \in Seq(Goals)
                                /\ base.queue[r] \in Seq(Goals)
                                /\ HistoryNow[r] = Join(Spent(Own(r), Flight(doneQ, r)), base.queue[r])
<1>1. base \in GoodBases /\ nextRelease \in 1 .. Len(Releases) + 1
      /\ doneQ \in Seq(Completions)
      /\ reported \in [Robots -> Seq(Goals)] /\ seen \in [Robots -> Seq(Goals)]
  BY DEF HistoryInv, AssignInv, NodeInv, MonitorInv, Completions
<1>2. base.queue \in [Robots -> Seq(Goals)]
  BY <1>1 DEF GoodBases, Bases
<1>3. ASSUME NEW r \in Robots
      PROVE  /\ Own(r) \in Seq(Goals) /\ Flight(doneQ, r) \in Seq(Goals)
             /\ Spent(Own(r), Flight(doneQ, r)) \in Seq(Goals)
  <2>1. Own(r) \in Seq(Goals)
    BY <1>1, OnlyType DEF Own
  <2>2. Flight(doneQ, r) \in Seq(Goals)
    BY <1>1, FlightType
  <2>3. Len(Flight(doneQ, r)) <= Len(Own(r))
    BY DEF HistoryInv, LedgerInv, Ledger
  <2> QED  BY <2>1, <2>2, <2>3, SpentType
<1>4. SpentGoals \in Histories
  BY <1>3 DEF SpentGoals, Histories
<1>5. HistoryNow \in Histories
  BY <1>2, <1>3, JoinType DEF HistoryNow, Hist, SpentGoals, Histories
<1>6. nextRelease \in Nat /\ nextRelease <= Len(Releases) + 1
  BY <1>1
<1>7. \A r \in Robots : HistoryNow[r] = Join(Spent(Own(r), Flight(doneQ, r)), base.queue[r])
  BY DEF HistoryNow, Hist, SpentGoals
<1>8. base.queue \in Histories
  BY <1>2 DEF Histories
<1> QED  BY <1>1, <1>2, <1>3, <1>4, <1>5, <1>6, <1>7, <1>8

(* History is what the property calls it.                                  *)
LEMMA HistoryIs ==
    ASSUME NEW r \in Robots
    PROVE  History(r) = HistoryNow[r] /\ Consumed(r) = SpentGoals[r] /\ InFlight(r) = Flight(doneQ, r)
<1>1. InFlight(r) = Flight(doneQ, r)
  BY DEF InFlight, Flight, Mine, GoalsIn
<1>2. Consumed(r) = SpentGoals[r]
  BY <1>1 DEF Consumed, SpentGoals, Spent
<1>3. History(r) = HistoryNow[r]
  BY <1>2 DEF History, HistoryNow, Hist, Join
<1> QED  BY <1>1, <1>2, <1>3

\* what a step has to show beside the types
HistoryStep ==
    /\ TaskInv' /\ LedgerInv' /\ Live(base)' /\ Quiet(published)'
    /\ Longer(HistoryNow', HistoryNow)

(* A step that only appends to queues.                                     *)
LEMMA GrowingStep ==
    ASSUME HistoryInv, UNCHANGED monitorVars, base' \in GoodBases,
           Longer(base'.queue, base.queue)
    PROVE  /\ LedgerInv' /\ SpentGoals' = SpentGoals
           /\ Longer(HistoryNow', HistoryNow)
<1>1. reported' = reported /\ doneQ' = doneQ /\ seen' = seen
  BY DEF monitorVars
<1>2. \A r \in Robots : base'.queue[r] \in Seq(Goals)
  BY DEF GoodBases, Bases
<1>3. ASSUME NEW r \in Robots
      PROVE  /\ Ledger(Own(r), Flight(doneQ, r), base'.queue[r], seen[r])
             /\ Extends(Join(Spent(Own(r), Flight(doneQ, r)), base'.queue[r]),
                        Join(Spent(Own(r), Flight(doneQ, r)), base.queue[r]))
  <2>1. Ledger(Own(r), Flight(doneQ, r), base.queue[r], seen[r])
    BY DEF HistoryInv, LedgerInv
  <2>2. Extends(base'.queue[r], base.queue[r])
    BY DEF Longer
  <2> QED  BY <1>2, <2>1, <2>2, HistoryTypes, LedgerGrows
<1>4. \A r \in Robots : Own(r)' = Own(r)
  BY <1>1 DEF Own
<1>5. LedgerInv'
  BY <1>1, <1>3, <1>4 DEF LedgerInv
<1>6. SpentGoals' = SpentGoals
  BY <1>1, <1>4 DEF SpentGoals
<1>7. Longer(HistoryNow', HistoryNow)
  BY <1>1, <1>3, <1>4 DEF Longer, HistoryNow, Hist, SpentGoals
<1> QED  BY <1>5, <1>6, <1>7

LEMMA SteadyNow ==
    ASSUME HistoryInv
    PROVE  [base |-> base, published |-> published]
              \in Steady(SpentGoals, ToSet(deferred), nextRelease, base.queue)
<1> DEFINE s == [base |-> base, published |-> published]
<1>1. s \in Replayed
  BY DEF HistoryInv, AssignInv, NodeInv, Replayed
<1>2. base \in GoodBases /\ Longer(base.queue, base.queue)
  BY HistoryTypes, LongerOrder
<1>3. base \in Keeping(SpentGoals, ToSet(deferred), nextRelease, base.queue)
  BY <1>2 DEF Keeping, HistoryInv, TaskInv
<1> QED  BY <1>1, <1>3 DEF Steady, HistoryInv

LEMMA RoadmapKeepsHistory == HistoryInv /\ OnRoadmap => HistoryStep
<1> SUFFICES ASSUME HistoryInv, OnRoadmap PROVE HistoryStep
  OBVIOUS
<1> DEFINE s0 == [base |-> base, published |-> published]
           s == Replay(s0)
<1>1. s0 \in Steady(SpentGoals, ToSet(deferred), nextRelease, base.queue)
  BY SteadyNow
<1>2. deferred \in Seq(DOMAIN Releases) /\ Distinct(deferred) /\ latch \in [Robots -> Latched]
  BY DEF HistoryInv, TaskInv, AssignInv, NodeInv
<1>3. base' = s.base /\ published' = s.published /\ deferred' = <<>>
      /\ nextRelease' = nextRelease /\ UNCHANGED monitorVars
  BY DEF OnRoadmap
<1> HIDE DEF s0
<1>4. s \in Steady(SpentGoals, {}, nextRelease, base.queue)
  BY <1>1, <1>2, HistoryTypes, ReplayConserves DEF Replay
<1> HIDE DEF s
<1>5. /\ base' \in Keeping(SpentGoals, {}, nextRelease, base.queue)
      /\ Live(base') /\ Quiet(published')
  BY <1>3, <1>4 DEF Steady
<1>6. base' \in GoodBases /\ Longer(base'.queue, base.queue)
      /\ TasksKept(SpentGoals, {}, nextRelease, base')
  BY <1>5 DEF Keeping
<1>7. LedgerInv' /\ SpentGoals' = SpentGoals /\ Longer(HistoryNow', HistoryNow)
  BY <1>3, <1>6, GrowingStep
<1>8. ToSet(deferred') = {} /\ Distinct(deferred')
  BY <1>3 DEF ToSet, Distinct
<1>9. TaskInv'
  BY <1>3, <1>6, <1>7, <1>8 DEF TaskInv
<1> QED  BY <1>5, <1>7, <1>9 DEF HistoryStep

LEMMA TaskReleaseKeepsHistory == HistoryInv /\ OnTaskRelease => HistoryStep
<1> SUFFICES ASSUME HistoryInv, OnTaskRelease PROVE HistoryStep
  OBVIOUS
<1> DEFINE c == SpentGoals
           next == nextRelease
           s0 == [base |-> base, published |-> published]
           h == Hist(c, base.queue)
<1>1. s0 \in Steady(c, ToSet(deferred), next, base.queue)
  BY SteadyNow
<1>2. /\ deferred \in Seq(DOMAIN Releases) /\ Distinct(deferred) /\ latch \in [Robots -> Latched]
      /\ (built => deferred = <<>>) /\ built \in BOOLEAN /\ next \in 1 .. Len(Releases) + 1
  BY DEF HistoryInv, TaskInv, AssignInv, NodeInv
<1>3. next <= Len(Releases) /\ nextRelease' = next + 1 /\ UNCHANGED monitorVars
  BY DEF OnTaskRelease
<1>4. /\ next \in Nat \ {0} /\ next \in DOMAIN Releases /\ next + 1 \in Nat
      /\ next + 1 <= Len(Releases) + 1
  BY <1>2, <1>3, ReleasesAssumption
<1>5. Conserved(h, ToSet(base.pool) \cup ToSet(deferred), next)
      /\ Distinct(base.pool) /\ ToSet(base.pool) \cap ToSet(deferred) = {}
  BY DEF HistoryInv, TaskInv, TasksKept
<1>6. next \notin ToSet(base.pool) /\ next \notin ToSet(deferred)
  <2>1. ToSet(base.pool) \cup ToSet(deferred) \subseteq 1 .. next - 1
    BY <1>5 DEF Conserved
  <2>2. next \notin 1 .. next - 1
    BY <1>4
  <2> QED  BY <2>1, <2>2
<1>7. Conserved(h, (ToSet(base.pool) \cup ToSet(deferred)) \cup {next}, next + 1)
  <2> HIDE DEF h
  <2> QED  BY <1>4, <1>5, Arriving
<1>8. base \in GoodBases /\ Longer(base.queue, base.queue)
  BY HistoryTypes, LongerOrder
<1>9. CASE ~built
  <2>1. /\ deferred' = Append(deferred, next) /\ base' = base /\ published' = published
    BY <1>9 DEF OnTaskRelease
  <2>2. ToSet(deferred') = ToSet(deferred) \cup {next} /\ Distinct(deferred')
    BY <1>2, <1>4, <1>6, <2>1, ToSetAppend
  <2>3. LedgerInv' /\ SpentGoals' = SpentGoals /\ Longer(HistoryNow', HistoryNow)
    BY <1>3, <1>8, <2>1, GrowingStep
  <2>4. ToSet(base.pool) \cup ToSet(deferred') = (ToSet(base.pool) \cup ToSet(deferred)) \cup {next}
        /\ ToSet(base.pool) \cap ToSet(deferred') = {}
    BY <1>5, <1>6, <2>2
  <2>5. TasksKept(c, ToSet(deferred'), next + 1, base)
    BY <1>5, <1>7, <2>4 DEF TasksKept
  <2>6. TaskInv'
    <3>1. TasksKept(SpentGoals', ToSet(deferred'), nextRelease', base')
      BY <1>3, <2>1, <2>3, <2>5
    <3> QED  BY <2>2, <3>1 DEF TaskInv
  <2>7. Live(base)' /\ Quiet(published)'
    BY <2>1 DEF HistoryInv
  <2> QED  BY <2>3, <2>6, <2>7 DEF HistoryStep
<1>10. CASE built
  <2> DEFINE s == Release(s0, next)
  <2>1. base' = s.base /\ published' = s.published /\ deferred' = deferred /\ deferred = <<>>
    BY <1>2, <1>10 DEF OnTaskRelease
  <2>2. ToSet(deferred) = {}
    BY <2>1 DEF ToSet
  <2>3. s0 \in Steady(c, {next}, next + 1, base.queue)
    <3>1. (ToSet(base.pool) \cup ToSet(deferred)) \cup {next} = ToSet(base.pool) \cup {next}
          /\ ToSet(base.pool) \cap {next} = {}
      BY <1>6, <2>2
    <3>2. TasksKept(c, {next}, next + 1, base)
      BY <1>5, <1>7, <3>1 DEF TasksKept
    <3>3. base \in Keeping(c, {next}, next + 1, base.queue)
      BY <1>8, <3>2 DEF Keeping
    <3>4. s0 \in Replayed /\ Live(s0.base) /\ Quiet(s0.published) /\ s0.base = base
      BY <1>1 DEF Steady
    <3> HIDE DEF s0
    <3> QED  BY <3>3, <3>4 DEF Steady
  <2> HIDE DEF s0
  <2>4. s \in Steady(c, {next} \ {next}, next + 1, base.queue)
    <3>1. next \in {next} /\ c \in Histories /\ base.queue \in Histories
      BY HistoryTypes
    <3> HIDE DEF c, next
    <3> QED  BY <1>2, <1>4, <2>3, <3>1, OneReleaseConserves
  <2>5. {next} \ {next} = {}
    OBVIOUS
  <2> HIDE DEF s
  <2>6. base' \in Keeping(c, {}, next + 1, base.queue) /\ Live(base') /\ Quiet(published')
    BY <2>1, <2>4, <2>5 DEF Steady
  <2>7. base' \in GoodBases /\ Longer(base'.queue, base.queue) /\ TasksKept(c, {}, next + 1, base')
    BY <2>6 DEF Keeping
  <2>8. LedgerInv' /\ SpentGoals' = SpentGoals /\ Longer(HistoryNow', HistoryNow)
    BY <1>3, <2>7, GrowingStep
  <2>9. ToSet(deferred') = {} /\ Distinct(deferred')
    BY <1>2, <2>1, <2>2
  <2>10. TaskInv'
    BY <1>3, <2>7, <2>8, <2>9 DEF TaskInv
  <2> QED  BY <2>6, <2>8, <2>10 DEF HistoryStep
<1> QED  BY <1>2, <1>9, <1>10

(* Goals in a queue are goals of tasks; an operator's goal never is there. *)
LEMMA QueuedGoals ==
    ASSUME HistoryInv, NEW r \in Robots
    PROVE  /\ Distinct(HistoryNow[r])
           /\ \A i \in DOMAIN HistoryNow[r] : HistoryNow[r][i].task # NoTask
           /\ \A i \in DOMAIN base.queue[r] : base.queue[r][i].task # NoTask
<1> DEFINE c == Spent(Own(r), Flight(doneQ, r))
           q == base.queue[r]
           h == HistoryNow[r]
<1>1. Sound(HistoryNow)
  BY DEF HistoryInv, TaskInv, TasksKept, Conserved, HistoryNow
<1>2. Distinct(h) /\ \A i \in DOMAIN h : h[i].task # NoTask
  BY <1>1, ReleasesAssumption DEF Sound, NoTask
<1>3. c \in Seq(Goals) /\ q \in Seq(Goals) /\ h = Join(c, q)
  <2>1. q \in Seq(Goals) /\ h = Join(c, q) /\ SpentGoals \in Histories
    BY HistoryTypes
  <2>2. c \in Seq(Goals)
    BY <2>1 DEF SpentGoals, Histories
  <2> QED  BY <2>1, <2>2
<1> HIDE DEF c, q, h
<1>4. h \in Seq(Goals) /\ Len(h) = Len(c) + Len(q)
  BY <1>3, JoinType
<1>5. Carries(h, Len(c), q)
  BY <1>3, JoinType
<1>6. Len(c) \in Nat /\ Len(q) \in Nat /\ DOMAIN q = 1 .. Len(q) /\ DOMAIN h = 1 .. Len(h)
  BY <1>3, <1>4
<1>7. ASSUME NEW i \in DOMAIN q
      PROVE  q[i].task # NoTask
  <2>1. Len(c) + i \in DOMAIN h /\ i \in 1 .. Len(q)
    BY <1>4, <1>6
  <2>2. h[Len(c) + i] = q[i]
    BY <1>5, <2>1 DEF Carries
  <2> QED  BY <1>2, <2>1, <2>2
<1> QED  BY <1>2, <1>7 DEF h, q

LEMMA CompletionKeepsHistory == HistoryInv /\ OnGoalCompletion => HistoryStep
<1> SUFFICES ASSUME HistoryInv, OnGoalCompletion PROVE HistoryStep
  OBVIOUS
<1> DEFINE m == Head(doneQ)
           rest == Tail(doneQ)
           r == m.robot
           q == base.queue
           f(s) == Flight(doneQ, s)
<1>1. doneQ \in Seq(Completions) /\ doneQ # <<>> /\ doneQ' = rest
  BY HistoryTypes DEF OnGoalCompletion
<1>2. /\ base' = OnCompletion(base, r, m.goal)
      /\ published' = IF base' = base THEN published ELSE Published(published, base', latch)
      /\ deferred' = deferred /\ nextRelease' = nextRelease /\ seen' = seen /\ reported' = reported
  BY DEF OnGoalCompletion
<1>3. m \in Completions /\ r \in Robots
  <2>1. m \in Completions
    BY <1>1, HeadTailProperties
  <2> HIDE DEF m
  <2> QED  BY <2>1 DEF Completions
<1>4. \A s : Own(s)' = Own(s)
  BY <1>2 DEF Own
<1>5. \A s \in Robots : /\ Ledger(Own(s), f(s), q[s], seen[s])
                        /\ Own(s) \in Seq(Goals) /\ f(s) \in Seq(Goals) /\ q[s] \in Seq(Goals)
                        /\ seen[s] \in Seq(Goals)
  BY HistoryTypes DEF HistoryInv, LedgerInv
<1>6. published \in Assignments
  BY DEF HistoryInv, AssignInv, NodeInv
<1>7. Quiet(published')
  BY <1>2, <1>6, PublishedQuiet DEF HistoryInv
<1>8. \A s : /\ m \in Mine(s) => /\ f(s) # <<>> /\ Head(f(s)) = m.goal
                                 /\ Tail(f(s)) = Flight(rest, s)
             /\ m \notin Mine(s) => f(s) = Flight(rest, s)
  BY <1>1, FlightTakes
<1>9. \A s \in Robots : s # r => m \notin Mine(s)
  BY DEF Mine
<1> HIDE DEF m, rest
<1>10. CASE m \notin Mine(r)
  <2>1. m.goal.task = NoTask
    BY <1>3, <1>10 DEF Mine
  <2>2. ~(q[r] # <<>> /\ m.goal = Head(q[r]))
    <3> SUFFICES ASSUME q[r] # <<>>, m.goal = Head(q[r]) PROVE FALSE
      OBVIOUS
    <3>1. 1 \in DOMAIN q[r] /\ Head(q[r]) = q[r][1]
      <4>1. q[r] \in Seq(Goals)
        BY <1>3, <1>5
      <4> QED  BY <4>1
    <3> QED  BY <1>3, <2>1, <3>1, QueuedGoals
  <2>3. base' = base
    BY <1>2, <2>2 DEF OnCompletion
  <2>4. \A s \in Robots : f(s) = Flight(rest, s)
    BY <1>8, <1>9, <1>10
  <2>5. LedgerInv'
    <3>1. \A s \in Robots : Ledger(Own(s)', Flight(doneQ', s), base'.queue[s], seen'[s])
      BY <1>1, <1>2, <1>4, <1>5, <2>3, <2>4
    <3> QED  BY <3>1 DEF LedgerInv
  <2>6. SpentGoals' = SpentGoals
    BY <1>1, <1>4, <2>4 DEF SpentGoals
  <2>7. TaskInv'
    BY <1>2, <2>3, <2>6 DEF HistoryInv, TaskInv
  <2>8. HistoryNow' = HistoryNow
    BY <2>3, <2>6 DEF HistoryNow
  <2>9. Longer(HistoryNow', HistoryNow)
    BY <2>8, HistoryTypes, LongerOrder
  <2> QED  BY <1>7, <2>3, <2>5, <2>7, <2>9 DEF HistoryStep, HistoryInv
<1>11. CASE m \in Mine(r)
  <2>1. f(r) # <<>> /\ Head(f(r)) = m.goal /\ Tail(f(r)) = Flight(rest, r)
    BY <1>8, <1>11
  <2>2. \A s \in Robots \ {r} : f(s) = Flight(rest, s)
    BY <1>8, <1>9
  <2> DEFINE o  == Own(r)
             f0 == Flight(doneQ, r)
             q0 == base.queue[r]
             s0 == seen[r]
  <2>3. /\ q0 # <<>> /\ Head(q0) = Head(f0)
        /\ Ledger(o, Tail(f0), Tail(q0), s0)
        /\ Join(Spent(o, Tail(f0)), Tail(q0)) = Join(Spent(o, f0), q0)
        /\ Tail(f0) \in Seq(Goals) /\ Tail(q0) \in Seq(Goals)
    <3>1. /\ Ledger(o, f0, q0, s0) /\ o \in Seq(Goals) /\ f0 \in Seq(Goals) /\ q0 \in Seq(Goals)
          /\ s0 \in Seq(Goals) /\ f0 # <<>>
      BY <1>3, <1>5, <2>1
    <3> HIDE DEF o, f0, q0, s0
    <3> QED  BY <3>1, LedgerConsumes
  <2> DEFINE b == [base EXCEPT !.queue[r] = Tail(@)]
             p == [q EXCEPT ![r] = Tail(q0)]
             c == [s \in Robots |-> Spent(Own(s), Flight(rest, s))]
  <2>4. base' = RetryPool(b)
    BY <1>2, <2>1, <2>3 DEF OnCompletion
  <2>5. b.queue = p /\ b.pool = base.pool
    <3>1. base \in GoodBases
      BY HistoryTypes
    <3> QED  BY <3>1 DEF GoodBases, Bases
  <2>6. p[r] = Tail(q0) /\ \A s \in Robots \ {r} : p[s] = q[s]
    <3>1. q \in [Robots -> Seq(Goals)]
      BY HistoryTypes DEF Histories
    <3> QED  BY <1>3, <3>1
  <2>7. b \in GoodBases
    <3>1. base \in GoodBases
      BY HistoryTypes
    <3>2. base.queue[r] # <<>>
      BY <2>3
    <3> QED  BY <1>3, <3>1, <3>2, CompletionPops
  <2> HIDE DEF b, p
  <2>8. \A s \in Robots : Ledger(Own(s), Flight(rest, s), p[s], seen[s])
    <3> SUFFICES ASSUME NEW s \in Robots PROVE Ledger(Own(s), Flight(rest, s), p[s], seen[s])
      OBVIOUS
    <3>1. CASE s = r
      BY <2>1, <2>3, <2>6, <3>1
    <3>2. CASE s # r
      BY <1>5, <2>2, <2>6, <3>2
    <3> QED  BY <3>1, <3>2
  <2>9. Hist(c, p) = HistoryNow
    <3>1. ASSUME NEW s \in Robots
          PROVE  Join(Spent(Own(s), Flight(rest, s)), p[s]) = Join(Spent(Own(s), f(s)), q[s])
      <4>1. CASE s = r
        BY <2>1, <2>3, <2>6, <4>1
      <4>2. CASE s # r
        BY <2>2, <2>6, <4>2
      <4> QED  BY <4>1, <4>2
    <3> QED  BY <3>1 DEF HistoryNow, Hist, SpentGoals
  <2>10. SpentGoals' = c
    BY <1>1, <1>4 DEF SpentGoals
  <2>11. \A s \in Robots : /\ Flight(rest, s) \in Seq(Goals) /\ p[s] \in Seq(Goals)
                           /\ Spent(Own(s), Flight(rest, s)) \in Seq(Goals)
    <3> SUFFICES ASSUME NEW s \in Robots
                 PROVE  /\ Flight(rest, s) \in Seq(Goals) /\ p[s] \in Seq(Goals)
                        /\ Spent(Own(s), Flight(rest, s)) \in Seq(Goals)
      OBVIOUS
    <3>1. Flight(rest, s) \in Seq(Goals)
      <4>1. rest \in Seq(Completions)
        BY <1>1, HeadTailProperties DEF rest
      <4> QED  BY <4>1, FlightType
    <3>2. Len(Flight(rest, s)) <= Len(Own(s))
      BY <2>8 DEF Ledger
    <3>3. p[s] \in Seq(Goals)
      BY <2>5, <2>7, BaseParts DEF Histories
    <3> QED  BY <1>5, <3>1, <3>2, <3>3, SpentType
  <2>12. c \in Histories /\ p \in Histories
    <3>1. c \in Histories
      BY <2>11 DEF Histories
    <3>2. p \in Histories
      BY <2>5, <2>7, BaseParts
    <3> QED  BY <3>1, <3>2
  <2> HIDE DEF c
  <2>13. b \in Keeping(c, ToSet(deferred), nextRelease, p)
    <3>1. TasksKept(c, ToSet(deferred), nextRelease, b)
      BY <2>5, <2>9 DEF HistoryInv, TaskInv, TasksKept, HistoryNow
    <3>2. Longer(p, p)
      BY <2>12, LongerOrder
    <3> QED  BY <2>5, <2>7, <3>1, <3>2 DEF Keeping
  <2>14. base' \in Keeping(c, ToSet(deferred), nextRelease, p)
    BY <2>4, <2>12, <2>13, HistoryTypes, RetryConserves
  <2>15. base' \in GoodBases /\ Longer(base'.queue, p)
         /\ TasksKept(c, ToSet(deferred), nextRelease, base')
    BY <2>14 DEF Keeping
  <2>16. Live(base')
    BY <2>4, <2>7, RetryLive
  <2>17. \A s \in Robots :
            /\ Ledger(Own(s), Flight(rest, s), base'.queue[s], seen[s])
            /\ Extends(Join(Spent(Own(s), Flight(rest, s)), base'.queue[s]),
                       Join(Spent(Own(s), Flight(rest, s)), p[s]))
    <3> SUFFICES ASSUME NEW s \in Robots
                 PROVE  /\ Ledger(Own(s), Flight(rest, s), base'.queue[s], seen[s])
                        /\ Extends(Join(Spent(Own(s), Flight(rest, s)), base'.queue[s]),
                                   Join(Spent(Own(s), Flight(rest, s)), p[s]))
      OBVIOUS
    <3>1. base'.queue[s] \in Seq(Goals) /\ Extends(base'.queue[s], p[s])
      BY <2>15 DEF GoodBases, Bases, Longer
    <3> QED  BY <1>5, <2>8, <2>11, <3>1, LedgerGrows
  <2>18. LedgerInv'
    <3>1. \A s \in Robots : Ledger(Own(s)', Flight(doneQ', s), base'.queue[s], seen'[s])
      BY <1>1, <1>2, <1>4, <2>17
    <3> QED  BY <3>1 DEF LedgerInv
  <2>19. Longer(HistoryNow', HistoryNow)
    <3>1. Longer(Hist(c, base'.queue), Hist(c, p))
      BY <2>17 DEF Longer, Hist, c
    <3> QED  BY <2>9, <2>10, <3>1 DEF HistoryNow
  <2>20. TaskInv'
    BY <1>2, <2>10, <2>15 DEF HistoryInv, TaskInv
  <2> QED  BY <1>7, <2>16, <2>18, <2>19, <2>20 DEF HistoryStep
<1> QED  BY <1>10, <1>11

(* A step of the transport or the operators that leaves the tasks alone.   *)
LEMMA QuietStep ==
    ASSUME HistoryInv, LedgerInv', SpentGoals' = SpentGoals, Quiet(published'),
           UNCHANGED <<base, deferred, nextRelease>>
    PROVE  HistoryStep
<1>1. HistoryNow' = HistoryNow
  BY DEF HistoryNow
<1>2. Longer(HistoryNow', HistoryNow)
  BY <1>1, HistoryTypes, LongerOrder
<1>3. TaskInv'
  BY DEF HistoryInv, TaskInv
<1>4. Live(base)'
  BY DEF HistoryInv
<1> QED  BY <1>2, <1>3, <1>4 DEF HistoryStep

LEMMA SameLedger ==
    ASSUME HistoryInv, UNCHANGED <<base, seen, reported, doneQ>>
    PROVE  LedgerInv' /\ SpentGoals' = SpentGoals
<1>1. \A r : Own(r)' = Own(r)
  BY DEF Own
<1> QED  BY <1>1 DEF HistoryInv, LedgerInv, SpentGoals

LEMMA CommandKeepsHistory ==
    ASSUME HistoryInv, NEW msg \in Messages, OnOperatorCommand(msg)
    PROVE  HistoryStep
<1>1. /\ published' = published \/ published' = Published(published, base, latch')
      /\ UNCHANGED <<built, deferred, base, nextRelease, monitorVars>>
  BY DEF OnOperatorCommand
<1>2. published \in Assignments /\ Quiet(published)
  BY DEF HistoryInv, AssignInv, NodeInv
<1>3. Quiet(published')
  BY <1>1, <1>2, PublishedQuiet
<1>4. LedgerInv' /\ SpentGoals' = SpentGoals
  BY <1>1, SameLedger DEF monitorVars
<1> QED  BY <1>1, <1>3, <1>4, QuietStep

LEMMA DeliveryKeepsHistory == HistoryInv /\ DeliverAssignment => HistoryStep
<1> SUFFICES ASSUME HistoryInv, DeliverAssignment PROVE HistoryStep
  OBVIOUS
<1>1. seen' = published.goals /\ UNCHANGED nodeVars /\ reported' = reported /\ doneQ' = doneQ
  BY DEF DeliverAssignment
<1>2. base' = base /\ published' = published /\ deferred' = deferred /\ nextRelease' = nextRelease
  BY <1>1 DEF nodeVars
<1>3. \A r : Own(r)' = Own(r)
  BY <1>1 DEF Own
<1>4. ASSUME NEW r \in Robots
      PROVE  Ledger(Own(r), Flight(doneQ, r), base.queue[r], published.goals[r])
  <2> DEFINE u == published.goals[r]
             q == base.queue[r]
  <2>1. \/ u = q
        \/ u = <<>>
        \/ Len(u) = 1 /\ u[1].task = NoTask
    <3>1. CASE published.revision = 0
      <4>1. published.goals = NoGoals
        BY <3>1 DEF HistoryInv, Quiet
      <4> QED  BY <4>1 DEF NoGoals
    <3>2. CASE published.revision # 0
      <4>1. published \in Assignments /\ Current(published, base, latch)
        BY DEF HistoryInv, AssignInv, NodeInv
      <4>2. published.goals = ViewGoals(base, latch)
        BY <3>2, <4>1 DEF Assignments, Current
      <4>3. CASE Projected(latch, r)
        <5>1. u = << [task |-> NoTask, leg |-> r, location |-> latch[r].location] >>
          BY <4>2, <4>3 DEF ViewGoals
        <5> QED  BY <5>1
      <4>4. CASE ~Projected(latch, r)
        BY <4>2, <4>4 DEF ViewGoals
      <4> QED  BY <4>3, <4>4
    <3> QED  BY <3>1, <3>2
  <2>2. /\ Own(r) \in Seq(Goals) /\ Flight(doneQ, r) \in Seq(Goals) /\ q \in Seq(Goals)
        /\ Ledger(Own(r), Flight(doneQ, r), q, seen[r])
    BY HistoryTypes DEF HistoryInv, LedgerInv
  <2> HIDE DEF u, q
  <2>3. Ledger(Own(r), Flight(doneQ, r), q, u)
    BY <2>1, <2>2, LedgerShows
  <2> QED  BY <2>3 DEF u, q
<1>5. LedgerInv'
  BY <1>1, <1>2, <1>3, <1>4 DEF LedgerInv
<1>6. SpentGoals' = SpentGoals
  BY <1>1, <1>3 DEF SpentGoals
<1>7. Quiet(published')
  BY <1>2 DEF HistoryInv
<1> QED  BY <1>2, <1>5, <1>6, <1>7, QuietStep

(* A robot reports the first goal of its list that it has not reported.    *)
LEMMA CompleteKeepsHistory ==
    ASSUME HistoryInv, NEW r \in Robots, Complete(r)
    PROVE  HistoryStep
<1>1. PICK k \in DOMAIN seen[r] :
         /\ seen[r][k] \notin ToSet(reported[r])
         /\ \A j \in 1 .. k - 1 : seen[r][j] \in ToSet(reported[r])
         /\ reported' = [reported EXCEPT ![r] = Append(@, seen[r][k])]
         /\ doneQ' = Append(doneQ, [robot |-> r, goal |-> seen[r][k]])
  BY DEF Complete
<1> DEFINE s == seen[r]
           g == s[k]
           m == [robot |-> r, goal |-> g]
           o == Own(r)
           f == Flight(doneQ, r)
           q == base.queue[r]
           p == reported[r]
<1>2. base' = base /\ seen' = seen /\ published' = published /\ deferred' = deferred
      /\ nextRelease' = nextRelease
  BY DEF Complete, nodeVars
<1>3. /\ s \in Seq(Goals) /\ p \in Seq(Goals) /\ o \in Seq(Goals) /\ f \in Seq(Goals)
      /\ q \in Seq(Goals) /\ doneQ \in Seq(Completions) /\ Ledger(o, f, q, s)
      /\ reported \in [Robots -> Seq(Goals)]
  BY HistoryTypes DEF HistoryInv, LedgerInv, AssignInv, MonitorInv
<1>4. k \in DOMAIN s /\ g \in Goals /\ Len(s) \in Nat /\ DOMAIN s = 1 .. Len(s)
  BY <1>3
<1>5. m \in Completions
  BY <1>4 DEF Completions
<1>6. m.robot = r /\ m.goal = g
  OBVIOUS
<1>7. reported' = [reported EXCEPT ![r] = Plus(p, g)] /\ doneQ' = Plus(doneQ, m)
  BY <1>1 DEF Plus
<1>8. reported'[r] = Plus(p, g) /\ \A w \in Robots \ {r} : reported'[w] = reported[w]
  <2> HIDE DEF g, p
  <2> QED  BY <1>3, <1>7
<1>9. \A w \in Robots \ {r} : Own(w)' = Own(w)
  BY <1>8 DEF Own
<1>10. Own(r)' = IF g \in OwnGoals THEN Plus(o, g) ELSE o
  <2>1. Own(r)' = Only(Plus(p, g), OwnGoals) /\ o = Only(p, OwnGoals)
    BY <1>8 DEF Own, OwnGoals
  <2> HIDE DEF o, p, g
  <2> QED  BY <1>3, <1>4, <2>1, OnlyPlus
<1> HIDE DEF m
<1>11. \A w : Flight(doneQ', w) = IF m \in Mine(w) THEN Plus(Flight(doneQ, w), m.goal)
                                                   ELSE Flight(doneQ, w)
  BY <1>3, <1>5, <1>7, FlightReports
<1>12. \A w \in Robots \ {r} : Flight(doneQ', w) = Flight(doneQ, w)
  BY <1>6, <1>11 DEF Mine
<1>13. Quiet(published')
  BY <1>2 DEF HistoryInv
<1>14. CASE g.task = NoTask
  <2>1. Own(r)' = o /\ Flight(doneQ', r) = f
    BY <1>6, <1>10, <1>11, <1>14 DEF OwnGoals, Mine
  <2>2. \A w \in Robots : Own(w)' = Own(w) /\ Flight(doneQ', w) = Flight(doneQ, w)
    BY <1>9, <1>12, <2>1
  <2>3. LedgerInv' /\ SpentGoals' = SpentGoals
    BY <1>2, <2>2 DEF HistoryInv, LedgerInv, SpentGoals
  <2> QED  BY <1>2, <1>13, <2>3, QuietStep
<1>15. CASE g.task # NoTask
  <2>1. Own(r)' = Plus(o, g) /\ Flight(doneQ', r) = Plus(f, g)
    BY <1>4, <1>5, <1>6, <1>10, <1>11, <1>15 DEF OwnGoals, Mine
  <2>2. /\ \A i \in 1 .. Len(p) : p[i] \in OwnGoals => \E j \in 1 .. Len(o) : o[j] = p[i]
        /\ \A j \in 1 .. Len(o) : \E i \in 1 .. Len(p) : o[j] = p[i]
    <3>1. o = Only(p, OwnGoals)
      BY DEF Own, OwnGoals
    <3> HIDE DEF o, p
    <3> QED  BY <1>3, <3>1, OnlyElements
  <2>3. ToSet(p) = {p[i] : i \in 1 .. Len(p)} /\ \A i \in 1 .. Len(p) : p[i] \in Goals
    <3>1. DOMAIN p = 1 .. Len(p)
      BY <1>3
    <3> QED  BY <1>3, <3>1 DEF ToSet
  <2>4. g \notin ToSet(p) /\ \A j \in 1 .. k - 1 : s[j] \in ToSet(p)
    BY <1>1
  <2>5. \A i \in 1 .. Len(o) : o[i] # g
    <3> HIDE DEF o, p, g
    <3> QED  BY <2>2, <2>3, <2>4
  <2>6. \A j \in 1 .. k - 1 : s[j].task # NoTask => \E i \in 1 .. Len(o) : o[i] = s[j]
    <3> HIDE DEF o, p, g, s
    <3> QED  BY <2>2, <2>3, <2>4 DEF OwnGoals
  <2>7. /\ Distinct(Join(Spent(o, f), q))
        /\ \A i \in DOMAIN Join(Spent(o, f), q) : Join(Spent(o, f), q)[i].task # NoTask
    <3>1. HistoryNow[r] = Join(Spent(o, f), q)
      BY HistoryTypes
    <3> HIDE DEF o, f, q
    <3> QED  BY <3>1, QueuedGoals
  <2>8. /\ Ledger(Plus(o, g), Plus(f, g), q, s)
        /\ Spent(Plus(o, g), Plus(f, g)) = Spent(o, f)
    <3> HIDE DEF o, f, q, s
    <3>1. s[k].task # NoTask /\ k \in DOMAIN s
      BY <1>4, <1>15
    <3>2. FirstUnreported(o, s, k)
      BY <2>5, <2>6 DEF FirstUnreported
    <3>3. o \in Seq(Goals) /\ f \in Seq(Goals) /\ q \in Seq(Goals) /\ s \in Seq(Goals)
      BY <1>3
    <3>4. Ledger(o, f, q, s)
      BY <1>3
    <3>5. Distinct(Join(Spent(o, f), q)) /\ OfTasks(Join(Spent(o, f), q))
      BY <2>7 DEF OfTasks
    <3> QED  BY <3>1, <3>2, <3>3, <3>4, <3>5, LedgerReports
  <2> HIDE DEF g
  <2>9. LedgerInv'
    <3>1. \A w \in Robots : Ledger(Own(w)', Flight(doneQ', w), base'.queue[w], seen'[w])
      <4> SUFFICES ASSUME NEW w \in Robots
                   PROVE  Ledger(Own(w)', Flight(doneQ', w), base'.queue[w], seen'[w])
        OBVIOUS
      <4>1. CASE w = r
        BY <1>2, <2>1, <2>8, <4>1
      <4>2. CASE w # r
        BY <1>2, <1>9, <1>12, <4>2 DEF HistoryInv, LedgerInv
      <4> QED  BY <4>1, <4>2
    <3> QED  BY <3>1 DEF LedgerInv
  <2>10. SpentGoals' = SpentGoals
    <3>1. \A w \in Robots : Spent(Own(w)', Flight(doneQ', w)) = Spent(Own(w), Flight(doneQ, w))
      BY <1>9, <1>12, <2>1, <2>8
    <3> QED  BY <3>1 DEF SpentGoals
  <2> QED  BY <1>2, <1>13, <2>9, <2>10, QuietStep
<1> QED  BY <1>14, <1>15

LEMMA HistoryInit == Init => HistoryInv
<1> SUFFICES ASSUME Init PROVE HistoryInv
  OBVIOUS
<1>1. AssignInv
  BY AssignInit
<1>2. /\ deferred = <<>> /\ base.pool = <<>> /\ base.queue = NoGoals /\ nextRelease = 1
      /\ seen = NoGoals /\ reported = NoGoals /\ doneQ = <<>>
      /\ published.goals = NoGoals
  BY DEF Init
<1>3. \A r \in Robots : NoGoals[r] = <<>>
  BY DEF NoGoals
<1>4. \A r \in Robots : Own(r) = <<>> /\ Flight(doneQ, r) = <<>>
  <2>1. \A r \in Robots : Own(r) = <<>>
    BY <1>2, <1>3, OnlyNothing DEF Own
  <2>2. ASSUME NEW r \in Robots
        PROVE  Flight(doneQ, r) = <<>>
    <3>1. Only(doneQ, Mine(r)) = <<>>
      BY <1>2, OnlyNothing
    <3>2. GoalsIn(<<>>) = <<>>
      BY DEF GoalsIn
    <3> QED  BY <3>1, <3>2 DEF Flight
  <2> QED  BY <2>1, <2>2
<1>5. \A r \in Robots : Spent(Own(r), Flight(doneQ, r)) = <<>>
  <2>1. Spent(<<>>, <<>>) = <<>>
    <3> DEFINE e == <<>>
    <3>2. e \in Seq(Goals) /\ Len(e) <= Len(e) /\ Len(e) - Len(e) = 0
      OBVIOUS
    <3> HIDE DEF e
    <3>3. Spent(e, e) \in Seq(Goals)
      BY <3>2, SpentType
    <3>4. Len(Spent(e, e)) = Len(e) - Len(e)
      BY <3>2, SpentType
    <3>5. Spent(e, e) = <<>>
      BY <3>2, <3>3, <3>4, EmptySeq
    <3> QED  BY <3>5 DEF e
  <2> QED  BY <1>4, <2>1
<1>6. HistoryNow = NoGoals
  <2>1. Join(<<>>, <<>>) = <<>>
    <3>1. <<>> \in Seq(Goals)
      OBVIOUS
    <3> QED  BY <3>1, JoinNothing
  <2>2. \A r \in Robots : Join(SpentGoals[r], base.queue[r]) = <<>>
    BY <1>2, <1>3, <1>5, <2>1 DEF SpentGoals
  <2> QED  BY <2>2 DEF HistoryNow, Hist, NoGoals
<1>7. ToSet(deferred) = {} /\ ToSet(base.pool) = {} /\ Distinct(deferred) /\ Distinct(base.pool)
  BY <1>2 DEF ToSet, Distinct
<1>8. Conserved(HistoryNow, {}, nextRelease)
  <2>1. NoGoals \in Histories
    BY DEF NoGoals, Histories
  <2>2. Sound(NoGoals)
    BY <1>3 DEF Sound, Distinct
  <2>3. \A t : NotGiven(NoGoals, t)
    BY <1>3, OnlyNothing DEF NotGiven
  <2>4. 1 .. nextRelease - 1 = {}
    BY <1>2
  <2> QED  BY <1>6, <2>1, <2>2, <2>3, <2>4 DEF Conserved
<1>9. TaskInv
  <2>1. ToSet(base.pool) \cup ToSet(deferred) = {} /\ ToSet(base.pool) \cap ToSet(deferred) = {}
    BY <1>7
  <2> QED  BY <1>7, <1>8, <2>1 DEF TaskInv, TasksKept, HistoryNow
<1>10. LedgerInv
  <2> SUFFICES ASSUME NEW r \in Robots
               PROVE  Ledger(Own(r), Flight(doneQ, r), base.queue[r], seen[r])
    BY DEF LedgerInv
  <2>1. Ledger(<<>>, <<>>, <<>>, <<>>)
    <3>1. Len(<<>>) = 0 /\ Spent(<<>>, <<>>) = <<>> /\ Join(<<>>, <<>>) = <<>>
      <4>1. <<>> \in Seq(Goals)
        OBVIOUS
      <4>2. Join(<<>>, <<>>) = <<>>
        BY <4>1, JoinNothing
      <4>3. Spent(<<>>, <<>>) = <<>>
        BY <1>4, <1>5
      <4> QED  BY <4>2, <4>3
    <3>2. Extends(<<>>, <<>>)
      BY DEF Extends
    <3>3. Shown(<<>>, <<>>, 0)
      <4>1. 0 \in 0 .. 0 /\ 0 + Len(<<>>) <= Len(<<>>) /\ \A k \in 1 .. Len(<<>>) : <<>>[k] = <<>>[0 + k]
        BY <3>1
      <4> QED  BY <4>1 DEF Shown, Segment
    <3> QED  BY <3>1, <3>2, <3>3 DEF Ledger
  <2> QED  BY <1>2, <1>3, <1>4, <2>1
<1>11. Live(base) /\ Quiet(published)
  BY <1>2 DEF Live, Quiet
<1> QED  BY <1>1, <1>9, <1>10, <1>11 DEF HistoryInv

LEMMA HistoryNext ==
    HistoryInv /\ [Next]_vars => HistoryInv' /\ Longer(HistoryNow', HistoryNow)
<1> SUFFICES ASSUME HistoryInv, [Next]_vars
             PROVE  HistoryInv' /\ Longer(HistoryNow', HistoryNow)
  OBVIOUS
<1>1. AssignInv'
  BY AssignNext DEF HistoryInv
<1>2. CASE OnRoadmap
  BY <1>1, <1>2, RoadmapKeepsHistory DEF HistoryInv, HistoryStep
<1>3. CASE OnTaskRelease
  BY <1>1, <1>3, TaskReleaseKeepsHistory DEF HistoryInv, HistoryStep
<1>4. CASE OnGoalCompletion
  BY <1>1, <1>4, CompletionKeepsHistory DEF HistoryInv, HistoryStep
<1>5. CASE \E msg \in Messages : OnOperatorCommand(msg)
  BY <1>1, <1>5, CommandKeepsHistory DEF HistoryInv, HistoryStep
<1>6. CASE DeliverAssignment
  BY <1>1, <1>6, DeliveryKeepsHistory DEF HistoryInv, HistoryStep
<1>7. CASE \E r \in Robots : Complete(r)
  BY <1>1, <1>7, CompleteKeepsHistory DEF HistoryInv, HistoryStep
<1>8. CASE UNCHANGED vars
  <2>1. UNCHANGED <<base, deferred, nextRelease, seen, reported, doneQ, published>>
    BY <1>8 DEF vars, nodeVars, monitorVars
  <2>2. LedgerInv' /\ SpentGoals' = SpentGoals
    BY <2>1, SameLedger
  <2>3. HistoryStep
    BY <2>1, <2>2, QuietStep DEF HistoryInv
  <2> QED  BY <1>1, <2>3 DEF HistoryInv, HistoryStep
<1> QED  BY <1>2, <1>3, <1>4, <1>5, <1>6, <1>7, <1>8 DEF Next

-----------------------------------------------------------------------------
(* The theorems. *)

(* While the pool holds a task of a feasible instance, some robot has a    *)
(* goal whose completion retries the pool (on_goal_completion).            *)
THEOREM PoolNeverStranded == Spec => []NoStrandedPool
<1>1. HistoryInv => NoStrandedPool
  BY DEF HistoryInv, Live, Busy, NoStrandedPool
<1> QED  BY <1>1, HistoryInit, HistoryNext, PTL DEF Spec

LEMMA ExtendsIsPrefix ==
    ASSUME NEW s \in Seq(Goals), NEW t \in Seq(Goals), Extends(t, s)
    PROVE  IsPrefix(s, t)
<1>1. Len(s) \in Nat /\ Len(t) \in Nat /\ Len(s) <= Len(t) /\ \A i \in 1 .. Len(s) : t[i] = s[i]
  BY DEF Extends
<1> DEFINE u == SubSeq(t, 1, Len(s))
<1>2. \A i \in 1 .. Len(s) : t[i] \in Goals
  BY <1>1
<1>3. u \in Seq(Goals) /\ Len(u) = Len(s) /\ \A i \in 1 .. Len(s) : u[i] = t[i]
  BY <1>1, <1>2, SubSeqProperties
<1> HIDE DEF u
<1>4. Len(u) = Len(s) /\ \A i \in 1 .. Len(u) : u[i] = s[i]
  BY <1>1, <1>3
<1>5. u = s
  BY <1>3, <1>4, SeqEqual
<1> QED  BY <1>1, <1>5 DEF IsPrefix, u

(* However slowly completions arrive, and whatever operators have shown    *)
(* the robots meanwhile, the next completion is that of the head of the    *)
(* queue: none is refused as a mismatch.                                   *)
THEOREM NoCompletionIsRefused == Spec => []CompletionsMatch
<1>1. ASSUME HistoryInv, NEW r \in Robots
      PROVE  IsPrefix(InFlight(r), base.queue[r])
  <2>1. Extends(base.queue[r], Flight(doneQ, r))
    BY <1>1 DEF HistoryInv, LedgerInv, Ledger
  <2>2. IsPrefix(Flight(doneQ, r), base.queue[r])
    BY <1>1, <2>1, HistoryTypes, ExtendsIsPrefix
  <2> QED  BY <2>2, HistoryIs
<1>2. HistoryInv => CompletionsMatch
  BY <1>1 DEF CompletionsMatch
<1> QED  BY <1>2, HistoryInit, HistoryNext, PTL DEF Spec

(* A released task is neither lost, nor split, nor given twice: it waits   *)
(* at one place or one robot was given all of it, in order, whenever the   *)
(* roadmap comes and however often the pool is retried.                    *)
THEOREM TasksAreConserved == Spec => []TaskConservation
<1>1. ASSUME HistoryInv, NEW t \in 1 .. nextRelease - 1
      PROVE  LET places == {i \in DOMAIN deferred : deferred[i] = t}
                            \cup {-i : i \in {j \in DOMAIN base.pool : base.pool[j] = t}}
                 of(r)  == Only(History(r), {g \in Goals : g.task = t})
             IN  Releases[t] = <<>>
                 \/ /\ Cardinality(places) = 1
                    /\ \A r \in Robots : of(r) = <<>>
                 \/ /\ places = {}
                    /\ \E r \in Robots : of(r) = GoalsOf(t)
                                         /\ \A s \in Robots \ {r} : of(s) = <<>>
  <2> DEFINE late   == {i \in DOMAIN deferred : deferred[i] = t}
             pooled == {-i : i \in {j \in DOMAIN base.pool : base.pool[j] = t}}
             waiting == ToSet(base.pool) \cup ToSet(deferred)
  <2>1. /\ Conserved(HistoryNow, waiting, nextRelease)
        /\ Distinct(base.pool) /\ Distinct(deferred)
        /\ ToSet(base.pool) \cap ToSet(deferred) = {}
    BY <1>1 DEF HistoryInv, TaskInv, TasksKept, HistoryNow
  <2>2. t \in DOMAIN Releases
    <3>1. nextRelease \in Nat /\ nextRelease <= Len(Releases) + 1
      BY <1>1, HistoryTypes
    <3> QED  BY <3>1, ReleasesAssumption
  <2>3. \A r \in Robots : Only(History(r), {g \in Goals : g.task = t}) = Only(HistoryNow[r], TaskGoals(t))
    BY HistoryIs DEF TaskGoals
  <2>4. CASE t \in waiting
    <3>1. NotGiven(HistoryNow, t)
      BY <2>1, <2>2, <2>4 DEF Conserved
    <3>2. \E x : late \cup pooled = {x}
      <4>1. CASE t \in ToSet(deferred)
        <5>1. t \notin ToSet(base.pool)
          BY <2>1, <4>1
        <5>2. pooled = {}
          BY <5>1 DEF ToSet
        <5>3. PICK i \in DOMAIN deferred : deferred[i] = t
          BY <4>1 DEF ToSet
        <5>4. late = {i}
          BY <2>1, <5>3 DEF Distinct
        <5> QED  BY <5>2, <5>4
      <4>2. CASE t \in ToSet(base.pool)
        <5>1. t \notin ToSet(deferred)
          BY <2>1, <4>2
        <5>2. late = {}
          BY <5>1 DEF ToSet
        <5>3. PICK i \in DOMAIN base.pool : base.pool[i] = t
          BY <4>2 DEF ToSet
        <5>4. {j \in DOMAIN base.pool : base.pool[j] = t} = {i}
          BY <2>1, <5>3 DEF Distinct
        <5>5. pooled = {-i}
          BY <5>4
        <5> QED  BY <5>2, <5>5
      <4> QED  BY <2>4, <4>1, <4>2
    <3> HIDE DEF late, pooled
    <3>3. Cardinality(late \cup pooled) = 1
      BY <3>2, FS_Singleton
    <3>4. \A r \in Robots : Only(HistoryNow[r], TaskGoals(t)) = <<>>
      BY <3>1 DEF NotGiven
    <3> QED  BY <2>3, <3>3, <3>4 DEF late, pooled
  <2>5. CASE t \notin waiting /\ Releases[t] # <<>>
    <3>1. late = {} /\ pooled = {}
      BY <2>5 DEF ToSet
    <3>2. PICK r \in Robots : GivenTo(HistoryNow, t, r)
      BY <2>1, <2>5 DEF Conserved
    <3>3. Only(HistoryNow[r], TaskGoals(t)) = GoalsOf(t)
          /\ \A s \in Robots \ {r} : Only(HistoryNow[s], TaskGoals(t)) = <<>>
      BY <3>2 DEF GivenTo
    <3> QED  BY <2>3, <3>1, <3>3
  <2> QED  BY <2>4, <2>5
<1>2. HistoryInv => TaskConservation
  BY <1>1 DEF TaskConservation
<1> QED  BY <1>2, HistoryInit, HistoryNext, PTL DEF Spec

\* what HistoryInv says of the history the property speaks of
HistoryShown == \A r \in Robots : HistoryNow[r] \in Seq(Goals) /\ History(r) = HistoryNow[r]

(* What a robot was given grows at the end only, in every step (SC-17).    *)
THEOREM HistoryOnlyGrows == Spec => HistoryExtends
<1> DEFINE Grows == \A r \in Robots : IsPrefix(History(r), History(r)')
<1>1. HistoryInv => HistoryShown
  BY HistoryTypes, HistoryIs DEF HistoryShown, Histories
<1>2. HistoryInv' => HistoryShown'
  BY <1>1, PTL
<1>3. ASSUME HistoryShown, HistoryShown', Longer(HistoryNow', HistoryNow)
      PROVE  Grows
  <2> SUFFICES ASSUME NEW r \in Robots PROVE IsPrefix(History(r), History(r)')
    OBVIOUS
  <2>1. HistoryNow[r] \in Seq(Goals) /\ History(r) = HistoryNow[r]
    BY <1>3 DEF HistoryShown
  <2>2. HistoryNow'[r] \in Seq(Goals) /\ History(r)' = HistoryNow'[r]
    BY <1>3 DEF HistoryShown
  <2>3. Extends(HistoryNow'[r], HistoryNow[r])
    BY <1>3 DEF Longer
  <2>4. IsPrefix(HistoryNow[r], HistoryNow'[r])
    BY <2>1, <2>2, <2>3, ExtendsIsPrefix
  <2> QED  BY <2>1, <2>2, <2>4
<1>4. HistoryInv /\ [Next]_vars => [Grows]_vars
  BY <1>1, <1>2, <1>3, HistoryNext
<1>5. HistoryExtends <=> [][Grows]_vars
  BY DEF HistoryExtends
<1> HIDE DEF Grows
<1> QED  BY <1>4, <1>5, HistoryInit, HistoryNext, PTL DEF Spec
=============================================================================

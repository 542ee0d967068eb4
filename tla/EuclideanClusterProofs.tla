----------------------- MODULE EuclideanClusterProofs -----------------------
(***************************************************************************)
(* Proofs about EuclideanCluster for any number of candidates and any      *)
(* neighbourhood relation: the union-find forest stays sound under linking *)
(* and path compression, and in the end the labels are the connected       *)
(* classes, numbered in the order in which they first occur.               *)
(***************************************************************************)
EXTENDS EuclideanCluster, FiniteSetTheorems, FunctionTheorems, WellFoundedInduction, NaturalsInduction, TLAPS

-----------------------------------------------------------------------------
(***************************************************************************)
(* Numbers and finite sets                                                 *)
(***************************************************************************)
\* Induction, as a property of sets.
LEMMA NaturalsReached ==
    ASSUME NEW T \in SUBSET Nat, 0 \in T, \A n \in T : n + 1 \in T
    PROVE  T = Nat
  <1> SUFFICES ASSUME Nat \ T # {} PROVE FALSE
    OBVIOUS
  <1>1. PICK x \in Nat \ T : \A y \in Nat \ T : ~(<<y, x>> \in OpToRel(<, Nat))
    BY WFMin, NatLessThanWellFounded
  <1>2. x # 0 /\ x - 1 \in Nat /\ x - 1 < x /\ (x - 1) + 1 = x
    OBVIOUS
  <1>3. x - 1 \in T
    BY <1>1, <1>2 DEF OpToRel
  <1> QED BY <1>2, <1>3

LEMMA FiniteBounded ==
    ASSUME NEW T \in SUBSET Nat, IsFiniteSet(T)
    PROVE  \E n \in Nat : \A m \in T : m < n
  <1> DEFINE A(x) == {y \in T : y > x}
             C == {A(x) : x \in Nat}
  <1>1. C \subseteq FiniteSubsetsOf(T) /\ C # {}
    <2>1. \A x \in Nat : A(x) \in SUBSET T
      OBVIOUS
    <2>2. \A x \in Nat : IsFiniteSet(A(x))
      BY <2>1, FS_Subset
    <2>3. A(0) \in C
      OBVIOUS
    <2> QED BY <2>1, <2>2, <2>3 DEF FiniteSubsetsOf
  <1>2. PICK B \in C : \A D \in C : ~(<<D, B>> \in StrictSubsetOrdering(T))
    BY <1>1, FS_StrictSubsetOrderingWellFounded, WFMin
  <1>3. PICK n \in Nat : B = A(n)
    OBVIOUS
  <1>4. ASSUME NEW m \in T PROVE m < n + 1
    <2> SUFFICES ASSUME ~(m < n + 1) PROVE FALSE
      OBVIOUS
    <2>1. m \in Nat /\ m > n /\ ~(m > m)
      OBVIOUS
    <2>2. A(m) \subseteq A(n) /\ m \in A(n) /\ m \notin A(m)
      <3>1. \A y \in T : y \in Nat
        OBVIOUS
      <3>2. \A y \in T : y > m => y > n
        BY <2>1, <3>1
      <3> QED BY <2>1, <3>2
    <2>3. A(m) \in C /\ A(m) \in SUBSET T /\ A(n) \in SUBSET T /\ A(m) # A(n)
      BY <2>1, <2>2
    <2>4. <<A(m), A(n)>> \in StrictSubsetOrdering(T)
      <3> HIDE DEF A
      <3> QED BY <2>2, <2>3 DEF StrictSubsetOrdering
    <2> QED BY <1>2, <1>3, <2>3, <2>4
  <1>5. n + 1 \in Nat
    OBVIOUS
  <1> HIDE DEF A, C
  <1> QED BY <1>4, <1>5

LEMMA CandidatesFinite ==
    /\ Count \in Nat
    /\ IsFiniteSet(Candidates)
    /\ Cardinality(Candidates) = Count
    /\ Candidates \subseteq Nat
    /\ \A i \in Candidates : i \in Nat /\ 0 <= i /\ i < Count
  <1>1. Count \in Nat /\ 0 \in Int /\ Count - 1 \in Int
    BY ClusterAssumption
  <1>2. IsFiniteSet(0 .. Count - 1) /\ Cardinality(0 .. Count - 1) = IF 0 > Count - 1 THEN 0 ELSE Count - 1 - 0 + 1
    BY <1>1, FS_Interval
  <1>3. \A i \in 0 .. Count - 1 : i \in Nat /\ 0 <= i /\ i < Count
    BY <1>1
  <1> QED BY <1>1, <1>2, <1>3 DEF Candidates

\* f lists v, p[v], p[p[v]] and so on, up to N applications of p.
Iteration(S, p, v, N, f) == /\ f \in [0 .. N -> S]
                            /\ f[0] = v
                            /\ \A k \in 0 .. N - 1 : f[k + 1] = p[f[k]]

\* A function can be applied any number of times over.
LEMMA Iterated ==
    ASSUME NEW S, NEW p \in [S -> S], NEW v \in S, NEW N \in Nat
    PROVE  \E f : Iteration(S, p, v, N, f)
  <1> DEFINE Way(n, f) == /\ f \in [0 .. n -> S]
                          /\ f[0] = v
                          /\ \A k \in 0 .. n - 1 : f[k + 1] = p[f[k]]
             T == {n \in Nat : \E f : Way(n, f)}
  <1>1. 0 \in T
    <2> DEFINE f == [k \in 0 .. 0 |-> v]
    <2>1. Way(0, f)
      OBVIOUS
    <2> QED BY <2>1
  <1>2. ASSUME NEW n \in T
        PROVE  n + 1 \in T
    <2>1. PICK f : Way(n, f)
      OBVIOUS
    <2> DEFINE g == [k \in 0 .. n + 1 |-> IF k = n + 1 THEN p[f[n]] ELSE f[k]]
    <2>2. n \in Nat /\ n \in 0 .. n /\ n + 1 \in 0 .. n + 1
      OBVIOUS
    <2>3. \A k \in 0 .. n : k \in 0 .. n + 1 /\ k # n + 1 /\ g[k] = f[k]
      BY <2>2
    <2>4. g[n + 1] = p[f[n]]
      BY <2>2
    <2>5. g \in [0 .. n + 1 -> S]
      <3>1. \A k \in 0 .. n + 1 : k # n + 1 => k \in 0 .. n
        BY <2>2
      <3>2. p[f[n]] \in S
        BY <2>1, <2>2
      <3> QED BY <2>1, <3>1, <3>2
    <2> HIDE DEF g
    <2>6. \A k \in 0 .. (n + 1) - 1 : g[k + 1] = p[g[k]]
      <3> SUFFICES ASSUME NEW k \in 0 .. (n + 1) - 1 PROVE g[k + 1] = p[g[k]]
        OBVIOUS
      <3>1. k \in 0 .. n
        BY <2>2
      <3>2. CASE k = n
        BY <2>2, <2>3, <2>4, <3>2
      <3>3. CASE k # n
        <4>1. k \in 0 .. n - 1 /\ k + 1 \in 0 .. n
          BY <2>2, <3>1, <3>3
        <4> QED BY <2>1, <2>3, <3>1, <4>1
      <3> QED BY <3>2, <3>3
    <2>7. 0 \in 0 .. n
      BY <2>2
    <2>8. Way(n + 1, g)
      BY <2>1, <2>3, <2>5, <2>6, <2>7
    <2> QED BY <2>2, <2>8
  <1>3. T = Nat
    <2> HIDE DEF Way
    <2> QED BY <1>1, <1>2, NaturalsReached
  <1> QED BY <1>3 DEF Iteration

-----------------------------------------------------------------------------
(***************************************************************************)
(* Paths and roots of any forest p                                         *)
(***************************************************************************)
AncestorOf(p, v) == LET up[k \in 0 .. Count] == IF k = 0 THEN v ELSE p[up[k - 1]] IN up
PathOf(p, v) == {AncestorOf(p, v)[k] : k \in 0 .. Count}
RootOf(p, v) == CHOOSE r \in PathOf(p, v) : p[r] = r

Forest(p, rank) == /\ p \in [Candidates -> Candidates]
                   /\ rank \in [Candidates -> Nat]
                   /\ \A i \in Candidates : p[i] # i => rank[i] < rank[p[i]]

\* The parent of every member of S is in S.
Upward(p, S) == S \subseteq Candidates /\ \A x \in S : p[x] \in S

LEMMA AncestorSteps ==
    ASSUME NEW p \in [Candidates -> Candidates], NEW v \in Candidates
    PROVE  LET up == AncestorOf(p, v)
           IN  /\ up \in [0 .. Count -> Candidates]
               /\ up[0] = v
               /\ \A k \in 0 .. Count - 1 : up[k + 1] = p[up[k]]
  <1>1. Count \in Nat
    BY CandidatesFinite
  <1>2. PICK f : Iteration(Candidates, p, v, Count, f)
    BY <1>1, Iterated
  <1>4. f \in [0 .. Count -> Candidates] /\ f[0] = v /\ \A k \in 0 .. Count - 1 : f[k + 1] = p[f[k]]
    BY <1>2 DEF Iteration
  <1> DEFINE F(g) == g = [k \in 0 .. Count |-> IF k = 0 THEN v ELSE p[g[k - 1]]]
  <1>5. F(f)
    <2>1. \A k \in 0 .. Count : k # 0 => k - 1 \in 0 .. Count - 1 /\ (k - 1) + 1 = k
      BY CandidatesFinite
    <2>2. \A k \in 0 .. Count : f[k] = IF k = 0 THEN v ELSE p[f[k - 1]]
      BY <1>4, <2>1
    <2>3. f = [k \in 0 .. Count |-> f[k]]
      BY <1>4
    <2> QED BY <2>2, <2>3
  <1>6. AncestorOf(p, v) = CHOOSE g : F(g)
    BY DEF AncestorOf
  <1> HIDE DEF F
  <1>7. F(AncestorOf(p, v))
    BY <1>5, <1>6
  <1> DEFINE up == AncestorOf(p, v)
  <1> HIDE DEF up
  <1>8. up = [k \in 0 .. Count |-> IF k = 0 THEN v ELSE p[up[k - 1]]]
    BY <1>7 DEF F, up
  <1>9. up[0] = v
    <2>1. 0 \in 0 .. Count
      BY CandidatesFinite
    <2> QED BY <1>8, <2>1
  <1>10. \A k \in 0 .. Count - 1 : up[k + 1] = p[up[k]]
    <2>1. \A k \in 0 .. Count - 1 : k + 1 \in 0 .. Count /\ k + 1 # 0 /\ (k + 1) - 1 = k
      BY CandidatesFinite
    <2> QED BY <1>8, <2>1
  <1>11. \A k \in 0 .. Count : up[k] \in Candidates
    <2> DEFINE U == {k \in Nat : k <= Count => up[k] \in Candidates}
    <2>1. 0 \in U
      BY <1>9
    <2>2. ASSUME NEW k \in U PROVE k + 1 \in U
      <3>1. k + 1 <= Count => k \in 0 .. Count - 1 /\ k <= Count
        BY CandidatesFinite
      <3> QED BY <1>10, <3>1
    <2>3. U = Nat
      <3> HIDE DEF U
      <3>1. U \subseteq Nat
        BY DEF U
      <3> QED BY <2>1, <2>2, <3>1, NaturalsReached
    <2>4. \A k \in 0 .. Count : k \in Nat /\ k <= Count
      BY CandidatesFinite
    <2> QED BY <2>3, <2>4
  <1>12. up \in [0 .. Count -> Candidates]
    BY <1>8, <1>11
  <1> QED BY <1>9, <1>10, <1>12 DEF up

\* A path never leaves an upward set that holds its start.
LEMMA PathWithin ==
    ASSUME NEW p \in [Candidates -> Candidates], NEW v \in Candidates,
           NEW S, Upward(p, S), v \in S
    PROVE  PathOf(p, v) \subseteq S
  <1> DEFINE up == AncestorOf(p, v)
  <1>1. /\ up[0] = v
        /\ \A k \in 0 .. Count - 1 : up[k + 1] = p[up[k]]
    BY AncestorSteps
  <1>2. PathOf(p, v) = {up[k] : k \in 0 .. Count}
    BY DEF PathOf
  <1> HIDE DEF up
  <1> DEFINE U == {k \in Nat : k <= Count => up[k] \in S}
  <1>3. 0 \in U
    BY <1>1
  <1>4. ASSUME NEW k \in U PROVE k + 1 \in U
    <2>1. k + 1 <= Count => k \in 0 .. Count - 1 /\ k <= Count
      BY CandidatesFinite
    <2> QED BY <1>1, <2>1 DEF Upward
  <1>5. U = Nat
    <2>1. U \subseteq Nat
      OBVIOUS
    <2> HIDE DEF U
    <2> QED BY <1>3, <1>4, <2>1, NaturalsReached
  <1>6. \A k \in 0 .. Count : k \in Nat /\ k <= Count
    BY CandidatesFinite
  <1> QED BY <1>2, <1>5, <1>6

\* Ranks grow along a path, so it reaches a root within Count steps.
LEMMA PathUpward ==
    ASSUME NEW p, NEW rank, Forest(p, rank), NEW v \in Candidates
    PROVE  Upward(p, PathOf(p, v)) /\ v \in PathOf(p, v)
  <1> DEFINE up == AncestorOf(p, v)
  <1>1. /\ up \in [0 .. Count -> Candidates]
        /\ up[0] = v
        /\ \A k \in 0 .. Count - 1 : up[k + 1] = p[up[k]]
    BY AncestorSteps DEF Forest
  <1>2. PathOf(p, v) = {up[k] : k \in 0 .. Count}
    BY DEF PathOf
  <1> HIDE DEF up
  <1> DEFINE Climbs(k) == \A i, j \in 0 .. k : i < j => rank[up[i]] < rank[up[j]]
             U == {k \in Nat : k <= Count => p[up[k]] = up[k] \/ Climbs(k)}
  <1>3. 0 \in U
    <2>1. Climbs(0)
      OBVIOUS
    <2> QED BY <2>1
  <1>4. ASSUME NEW k \in U PROVE k + 1 \in U
    <2> SUFFICES ASSUME k + 1 <= Count PROVE p[up[k + 1]] = up[k + 1] \/ Climbs(k + 1)
      OBVIOUS
    <2>1. k \in Nat /\ k \in 0 .. Count - 1 /\ k <= Count /\ k \in 0 .. k /\ k + 1 \in 0 .. Count /\ k \in 0 .. Count
      BY CandidatesFinite
    <2>2. up[k + 1] = p[up[k]] /\ up[k] \in Candidates /\ up[k + 1] \in Candidates
      BY <1>1, <2>1
    <2>3. CASE p[up[k]] = up[k]
      BY <2>2, <2>3
    <2>4. CASE p[up[k]] # up[k] /\ Climbs(k)
      <3>1. rank[up[k]] < rank[up[k + 1]]
        BY <2>2, <2>4 DEF Forest
      <3>2. \A i \in 0 .. Count : rank[up[i]] \in Nat
        BY <1>1 DEF Forest
      <3>3. \A i \in 0 .. k : i \in 0 .. Count /\ (i # k => i < k)
        <4>1. k \in Nat /\ Count \in Nat /\ k <= Count
          BY <2>1, CandidatesFinite
        <4> HIDE DEF Climbs, U
        <4> QED BY <4>1
      <3>4. \A i \in 0 .. k : rank[up[i]] < rank[up[k + 1]]
        <4> SUFFICES ASSUME NEW i \in 0 .. k PROVE rank[up[i]] < rank[up[k + 1]]
          OBVIOUS
        <4>1. CASE i = k
          BY <3>1, <4>1
        <4>2. CASE i # k
          <5>1. rank[up[i]] < rank[up[k]]
            BY <2>1, <2>4, <3>3, <4>2
          <5>2. rank[up[i]] \in Nat /\ rank[up[k]] \in Nat /\ rank[up[k + 1]] \in Nat
            BY <2>1, <3>2, <3>3
          <5> QED BY <3>1, <5>1, <5>2
        <4> QED BY <4>1, <4>2
      <3>5. Climbs(k + 1)
        <4> SUFFICES ASSUME NEW i \in 0 .. k + 1, NEW j \in 0 .. k + 1, i < j
                     PROVE  rank[up[i]] < rank[up[j]]
          OBVIOUS
        <4>1. i \in 0 .. k /\ (j # k + 1 => j \in 0 .. k)
          BY <2>1
        <4>2. CASE j = k + 1
          BY <3>4, <4>1, <4>2
        <4>3. CASE j # k + 1
          BY <2>4, <4>1, <4>3
        <4> QED BY <4>2, <4>3
      <3> QED BY <3>5
    <2> QED BY <2>1, <2>3, <2>4
  <1>5. U = Nat
    <2>1. U \subseteq Nat
      OBVIOUS
    <2> HIDE DEF U
    <2> QED BY <1>3, <1>4, <2>1, NaturalsReached
  <1>6. p[up[Count]] = up[Count]
    <2> SUFFICES ASSUME p[up[Count]] # up[Count] PROVE FALSE
      OBVIOUS
    <2>1. Climbs(Count)
      BY <1>5, CandidatesFinite
    <2>2. IsFiniteSet(0 .. Count) /\ Cardinality(0 .. Count) = Count + 1
      <3>1. 0 \in Int /\ Count \in Int /\ ~(0 > Count) /\ Count - 0 + 1 = Count + 1
        BY CandidatesFinite
      <3> QED BY <3>1, FS_Interval
    <2>3. Cardinality(Candidates) < Cardinality(0 .. Count)
      BY <2>2, CandidatesFinite
    <2>4. PICK i \in 0 .. Count, j \in 0 .. Count : i # j /\ up[i] = up[j]
      BY <1>1, <2>2, <2>3, CandidatesFinite, FS_PigeonHole
    <2>5. rank[up[i]] \in Nat /\ rank[up[j]] \in Nat
      BY <1>1 DEF Forest
    <2>6. i < j \/ j < i
      BY <2>4
    <2>7. rank[up[i]] < rank[up[j]] \/ rank[up[j]] < rank[up[i]]
      BY <2>1, <2>6
    <2> QED BY <2>4, <2>5, <2>7
  <1>7. ASSUME NEW k \in 0 .. Count PROVE p[up[k]] \in PathOf(p, v)
    <2>1. CASE k = Count
      BY <1>2, <1>6, <2>1
    <2>2. CASE k # Count
      <3>1. k \in 0 .. Count - 1 /\ k + 1 \in 0 .. Count
        BY <2>2, CandidatesFinite
      <3> QED BY <1>1, <1>2, <3>1
    <2> QED BY <2>1, <2>2
  <1>8. v \in PathOf(p, v)
    <2>1. 0 \in 0 .. Count
      BY CandidatesFinite
    <2> QED BY <1>1, <1>2, <2>1
  <1>9. PathOf(p, v) \subseteq Candidates
    BY <1>1, <1>2
  <1> QED BY <1>2, <1>7, <1>8, <1>9 DEF Upward

\* The root of a tree: there is one, it is unique, and it is in every upward
\* set that holds a member.
LEMMA RootMeans ==
    ASSUME NEW p, NEW rank, Forest(p, rank), NEW v \in Candidates
    PROVE  /\ RootOf(p, v) \in Candidates
           /\ p[RootOf(p, v)] = RootOf(p, v)
           /\ \A S : Upward(p, S) /\ v \in S => RootOf(p, v) \in S
  <1> DEFINE P == PathOf(p, v)
  <1>1. Upward(p, P) /\ v \in P
    BY PathUpward
  <1>2. P \subseteq Candidates
    BY <1>1 DEF Upward
  <1>3. \E r \in P : p[r] = r
    <2> HIDE DEF P
    <2> SUFFICES ASSUME \A r \in P : p[r] # r PROVE FALSE
      OBVIOUS
    <2> DEFINE U == {n \in Nat : \E r \in P : rank[r] >= n}
    <2>1. \A r \in P : rank[r] \in Nat /\ p[r] \in P /\ rank[p[r]] \in Nat /\ rank[r] < rank[p[r]]
      BY <1>1, <1>2 DEF Upward, Forest
    <2>2. 0 \in U
      BY <1>1, <2>1
    <2>3. ASSUME NEW n \in U PROVE n + 1 \in U
      <3>1. PICK r \in P : rank[r] >= n
        OBVIOUS
      <3>2. rank[p[r]] >= n + 1
        BY <2>1, <3>1
      <3> QED BY <2>1, <3>2
    <2>4. U = Nat
      <3>1. U \subseteq Nat
        OBVIOUS
      <3> HIDE DEF U
      <3> QED BY <2>2, <2>3, <3>1, NaturalsReached
    <2> DEFINE ranks == {rank[r] : r \in P}
    <2>5. IsFiniteSet(P)
      BY <1>2, CandidatesFinite, FS_Subset
    <2>6. IsFiniteSet(ranks)
      <3> DEFINE h == [r \in P |-> rank[r]]
      <3>1. h \in Surjection(P, ranks)
        BY DEF Surjection
      <3> QED BY <2>5, <3>1, FS_Surjection
    <2>7. \A n \in Nat : \E m \in ranks : m >= n
      BY <2>4
    <2>8. ranks \in SUBSET Nat
      BY <2>1
    <2> HIDE DEF ranks
    <2>9. \E n \in Nat : \A m \in ranks : m < n
      BY <2>6, <2>8, FiniteBounded
    <2> QED BY <2>7, <2>8, <2>9
  <1>4. RootOf(p, v) \in P /\ p[RootOf(p, v)] = RootOf(p, v)
    BY <1>3 DEF RootOf
  <1>5. ASSUME NEW S, Upward(p, S), v \in S
        PROVE  RootOf(p, v) \in S
    <2>1. P \subseteq S
      BY <1>5, PathWithin DEF Forest
    <2> QED BY <1>4, <2>1
  <1> QED BY <1>2, <1>4, <1>5

\* A path goes on with the path of its second member.
LEMMA PathTail ==
    ASSUME NEW p, NEW rank, Forest(p, rank), NEW v \in Candidates
    PROVE  PathOf(p, v) \subseteq {v} \union PathOf(p, p[v])
  <1>1. p \in [Candidates -> Candidates] /\ p[v] \in Candidates
    BY DEF Forest
  <1>2. Upward(p, PathOf(p, p[v])) /\ p[v] \in PathOf(p, p[v])
    BY <1>1, PathUpward
  <1>3. Upward(p, {v} \union PathOf(p, p[v]))
    BY <1>2 DEF Upward
  <1> QED BY <1>1, <1>3, PathWithin

\* A root's path is the root alone.
LEMMA RootPath ==
    ASSUME NEW p, NEW rank, Forest(p, rank), NEW v \in Candidates, p[v] = v
    PROVE  PathOf(p, v) = {v} /\ RootOf(p, v) = v
  <1>1. Upward(p, {v})
    BY DEF Upward
  <1>2. PathOf(p, v) \subseteq {v}
    BY <1>1, PathWithin DEF Forest
  <1>3. v \in PathOf(p, v)
    BY PathUpward
  <1>4. RootOf(p, v) \in {v}
    BY <1>1, RootMeans
  <1> QED BY <1>2, <1>3, <1>4

\* A path has one root.
LEMMA OneRoot ==
    ASSUME NEW p, NEW rank, Forest(p, rank), NEW v \in Candidates,
           NEW r \in PathOf(p, v), NEW s \in PathOf(p, v), p[r] = r, p[s] = s
    PROVE  r = s
  <1> DEFINE S == {x \in PathOf(p, v) : r \in PathOf(p, x)}
  <1>1. Upward(p, PathOf(p, v)) /\ v \in PathOf(p, v)
    BY PathUpward
  <1>2. PathOf(p, v) \subseteq Candidates
    BY <1>1 DEF Upward
  <1>3. ASSUME NEW x \in S PROVE p[x] \in S
    <2>1. x \in Candidates /\ p[x] \in PathOf(p, v) /\ r \in PathOf(p, x)
      BY <1>1, <1>2 DEF Upward
    <2>2. r \in {x} \union PathOf(p, p[x])
      BY <2>1, PathTail
    <2>3. CASE r = x
      BY <2>1, <2>3
    <2>4. CASE r \in PathOf(p, p[x])
      BY <2>1, <2>4
    <2> QED BY <2>2, <2>3, <2>4
  <1>4. Upward(p, S)
    BY <1>2, <1>3 DEF Upward
  <1>5. PathOf(p, v) \subseteq S
    <2>1. v \in S
      BY <1>1
    <2> HIDE DEF S
    <2> QED BY <1>4, <2>1, PathWithin DEF Forest
  <1>6. r \in PathOf(p, s) /\ s \in Candidates
    BY <1>2, <1>5
  <1> QED BY <1>6, RootPath

\* A candidate and its parent have the same root.
LEMMA RootParent ==
    ASSUME NEW p, NEW rank, Forest(p, rank), NEW v \in Candidates
    PROVE  RootOf(p, p[v]) = RootOf(p, v)
  <1>1. CASE p[v] = v
    BY <1>1
  <1>2. CASE p[v] # v
    <2> DEFINE r == RootOf(p, v)
               s == RootOf(p, p[v])
               P == PathOf(p, v)
               Q == PathOf(p, p[v])
    <2>1. p[v] \in Candidates
      BY DEF Forest
    <2>2. Upward(p, P) /\ v \in P /\ Upward(p, Q) /\ p[v] \in Q
      BY <2>1, PathUpward
    <2>3. r \in P /\ p[r] = r
      BY <2>2, RootMeans
    <2>4. s \in Q /\ p[s] = s
      BY <2>1, <2>2, RootMeans
    <2>5. r \in {v} \union Q
      BY <2>3, PathTail
    <2>6. r \in Q
      BY <1>2, <2>3, <2>5
    <2> HIDE DEF P, r, s
    <2>7. r = s
      BY <2>1, <2>3, <2>4, <2>6, OneRoot
    <2> QED BY <2>7 DEF r, s
  <1> QED BY <1>1, <1>2

\* What roots are, without paths: whatever is the same for a candidate and its
\* parent, and at a root is that root.
LEMMA RootsAre ==
    ASSUME NEW p, NEW rank, Forest(p, rank), NEW R,
           \A x \in Candidates : R[p[x]] = R[x],
           \A x \in Candidates : p[x] = x => R[x] = x
    PROVE  \A v \in Candidates : RootOf(p, v) = R[v]
  <1> TAKE v \in Candidates
  <1> DEFINE S == {x \in Candidates : R[x] = R[v]}
  <1>1. Upward(p, S) /\ v \in S
    BY DEF Upward, Forest
  <1>2. RootOf(p, v) \in S /\ RootOf(p, v) \in Candidates /\ p[RootOf(p, v)] = RootOf(p, v)
    <2> HIDE DEF S
    <2> QED BY <1>1, RootMeans
  <1> QED BY <1>2

\* Ranks grow towards the root.
LEMMA RankOfRoot ==
    ASSUME NEW p, NEW rank, Forest(p, rank), NEW v \in Candidates, p[v] # v
    PROVE  rank[v] < rank[RootOf(p, v)]
  <1> DEFINE S == {x \in Candidates : rank[x] > rank[v]}
  <1>1. p[v] \in Candidates /\ p[v] \in S
    BY DEF Forest
  <1>2. ASSUME NEW x \in S PROVE p[x] \in S
    <2>1. p[x] \in Candidates /\ rank[x] \in Nat /\ rank[v] \in Nat /\ rank[p[x]] \in Nat /\ rank[x] > rank[v]
      BY DEF Forest
    <2>2. p[x] = x \/ rank[x] < rank[p[x]]
      BY DEF Forest
    <2>3. rank[p[x]] > rank[v]
      BY <2>1, <2>2
    <2> QED BY <2>1, <2>3
  <1>3. Upward(p, S)
    BY <1>2 DEF Upward
  <1>4. RootOf(p, p[v]) \in S
    <2> HIDE DEF S
    <2> QED BY <1>1, <1>3, RootMeans
  <1>5. RootOf(p, v) \in S /\ RootOf(p, v) \in Candidates
    BY <1>4, RootParent
  <1> QED BY <1>5 DEF Forest

-----------------------------------------------------------------------------
(***************************************************************************)
(* What find and unite do to the forest                                    *)
(***************************************************************************)
\* Path compression keeps the forest and moves no candidate to another tree.
LEMMA Compression ==
    ASSUME NEW p, NEW rank, Forest(p, rank), NEW X,
           NEW q, q = [i \in Candidates |-> IF i \in X THEN RootOf(p, i) ELSE p[i]]
    PROVE  /\ Forest(q, rank)
           /\ \A v \in Candidates : RootOf(q, v) = RootOf(p, v)
           /\ \A v \in Candidates : q[v] = v <=> p[v] = v
  <1> DEFINE R == [v \in Candidates |-> RootOf(p, v)]
  <1>1. \A v \in Candidates : RootOf(p, v) \in Candidates /\ p[RootOf(p, v)] = RootOf(p, v)
    BY RootMeans
  <1>2. \A v \in Candidates : p[v] = v => RootOf(p, v) = v
    BY RootPath
  <1>3. \A v \in Candidates : q[v] = v <=> p[v] = v
    BY <1>1, <1>2
  <1>4. Forest(q, rank)
    <2>1. q \in [Candidates -> Candidates]
      BY <1>1 DEF Forest
    <2>2. ASSUME NEW i \in Candidates, q[i] # i PROVE rank[i] < rank[q[i]]
      <3>1. p[i] # i
        BY <1>3, <2>2
      <3>2. CASE i \in X
        BY <3>1, <3>2, RankOfRoot
      <3>3. CASE i \notin X
        BY <3>1, <3>3 DEF Forest
      <3> QED BY <3>2, <3>3
    <2> QED BY <2>1, <2>2 DEF Forest
  <1>5. \A x \in Candidates : q[x] = x => R[x] = x
    BY <1>2, <1>3
  <1>6. ASSUME NEW x \in Candidates PROVE R[q[x]] = R[x]
    <2>1. q[x] \in Candidates /\ p[x] \in Candidates
      BY <1>4 DEF Forest
    <2>2. CASE x \in X
      BY <1>1, <1>2, <2>1, <2>2
    <2>3. CASE x \notin X
      BY <2>1, <2>3, RootParent
    <2> QED BY <2>2, <2>3
  <1>7. \A v \in Candidates : RootOf(q, v) = R[v]
    <2> HIDE DEF R
    <2> QED BY <1>4, <1>5, <1>6, RootsAre
  <1> QED BY <1>3, <1>4, <1>7

\* Linking a root l below another root h makes one tree of the two.
LEMMA Linking ==
    ASSUME NEW p, NEW rank, Forest(p, rank),
           NEW l \in Candidates, NEW h \in Candidates, l # h, p[l] = l, p[h] = h,
           NEW q, q \in [Candidates -> Candidates], q[l] = h,
           \A i \in Candidates : i # l => q[i] = p[i],
           NEW new, new \in [Candidates -> Nat],
           \A i \in Candidates : i # h => new[i] = rank[i],
           rank[h] <= new[h], rank[l] < new[h]
    PROVE  /\ Forest(q, new)
           /\ \A v \in Candidates : RootOf(q, v) = IF RootOf(p, v) = l THEN h ELSE RootOf(p, v)
  <1> DEFINE R == [v \in Candidates |-> IF RootOf(p, v) = l THEN h ELSE RootOf(p, v)]
  <1>0. p \in [Candidates -> Candidates] /\ rank \in [Candidates -> Nat]
    BY DEF Forest
  <1>1. q \in [Candidates -> Candidates] /\ q[l] = h /\ \A i \in Candidates : i # l => q[i] = p[i]
    OBVIOUS
  <1>2. RootOf(p, h) = h /\ RootOf(p, l) = l
    BY RootPath
  <1>3. Forest(q, new)
    <2>1. ASSUME NEW i \in Candidates, q[i] # i PROVE new[i] < new[q[i]]
      <3>1. CASE i = l
        BY <1>1, <3>1
      <3>2. CASE i # l
        <4>1. q[i] = p[i] /\ p[i] # i /\ i # h /\ p[i] \in Candidates
          BY <1>0, <1>1, <2>1, <3>2
        <4>2. rank[i] < rank[p[i]] /\ new[i] = rank[i]
          BY <4>1 DEF Forest
        <4>3. rank[p[i]] <= new[p[i]]
          BY <1>0, <4>1
        <4>4. new[i] \in Nat /\ rank[i] \in Nat /\ rank[p[i]] \in Nat /\ new[p[i]] \in Nat
          BY <1>0, <4>1
        <4> QED BY <4>1, <4>2, <4>3, <4>4
      <3> QED BY <3>1, <3>2
    <2> QED BY <1>1, <2>1 DEF Forest
  <1>4. \A x \in Candidates : q[x] = x => R[x] = x
    <2> SUFFICES ASSUME NEW x \in Candidates, q[x] = x PROVE R[x] = x
      OBVIOUS
    <2>1. x # l /\ p[x] = x
      BY <1>1
    <2>2. RootOf(p, x) = x
      BY <2>1, RootPath
    <2> QED BY <2>1, <2>2
  <1>5. ASSUME NEW x \in Candidates PROVE R[q[x]] = R[x]
    <2>1. CASE x = l
      BY <1>1, <1>2, <2>1
    <2>2. CASE x # l
      <3>1. q[x] = p[x] /\ p[x] \in Candidates /\ RootOf(p, p[x]) = RootOf(p, x)
        BY <1>0, <1>1, <2>2, RootParent
      <3> QED BY <3>1
    <2> QED BY <2>1, <2>2
  <1>6. \A v \in Candidates : RootOf(q, v) = R[v]
    <2> HIDE DEF R
    <2> QED BY <1>3, <1>4, <1>5, RootsAre
  <1> QED BY <1>3, <1>6

-----------------------------------------------------------------------------
(***************************************************************************)
(* The sizes of the trees                                                  *)
(***************************************************************************)
Tree(p, r) == {i \in Candidates : RootOf(p, i) = r}

Heavy(p, rank) == \A r \in Candidates :
                     p[r] = r => rank[r] <= Count /\ Power[rank[r]] <= Cardinality(Tree(p, r))

LEMMA PowerSteps ==
    /\ Power \in [0 .. Count -> Nat]
    /\ Power[0] = 1
    /\ \A k \in 0 .. Count - 1 : Power[k + 1] = 2 * Power[k]
  <1> DEFINE g == [x \in Nat |-> 2 * x]
  <1>1. g \in [Nat -> Nat] /\ 1 \in Nat /\ \A x \in Nat : g[x] = 2 * x
    OBVIOUS
  <1> HIDE DEF g
  <1>a. Count \in Nat
    BY CandidatesFinite
  <1>b. PICK f : Iteration(Nat, g, 1, Count, f)
    BY <1>1, <1>a, Iterated
  <1>2. f \in [0 .. Count -> Nat] /\ f[0] = 1 /\ \A k \in 0 .. Count - 1 : f[k + 1] = g[f[k]]
    BY <1>b DEF Iteration
  <1> DEFINE F(h) == h = [k \in 0 .. Count |-> IF k = 0 THEN 1 ELSE 2 * h[k - 1]]
  <1>3. \A k \in 0 .. Count : k # 0 => k - 1 \in 0 .. Count - 1 /\ k - 1 \in 0 .. Count /\ (k - 1) + 1 = k
    BY CandidatesFinite
  <1>4. F(f)
    <2>1. \A k \in 0 .. Count : k # 0 => f[k] = g[f[k - 1]] /\ f[k - 1] \in Nat
      BY <1>2, <1>3
    <2>2. \A k \in 0 .. Count : f[k] = IF k = 0 THEN 1 ELSE 2 * f[k - 1]
      BY <1>1, <1>2, <2>1
    <2>3. f = [k \in 0 .. Count |-> f[k]]
      BY <1>2
    <2> QED BY <2>2, <2>3
  <1>5. Power = CHOOSE h : F(h)
    BY DEF Power
  <1> HIDE DEF F
  <1>6. F(Power)
    BY <1>4, <1>5
  <1> DEFINE w == Power
  <1>7. w = [k \in 0 .. Count |-> IF k = 0 THEN 1 ELSE 2 * w[k - 1]]
    BY <1>6 DEF F
  <1> HIDE DEF w
  <1>8. w[0] = 1
    <2>1. 0 \in 0 .. Count
      BY CandidatesFinite
    <2> QED BY <1>7, <2>1
  <1>9. \A k \in 0 .. Count - 1 : w[k + 1] = 2 * w[k]
    <2>1. \A k \in 0 .. Count - 1 : k + 1 \in 0 .. Count /\ k + 1 # 0 /\ (k + 1) - 1 = k
      BY CandidatesFinite
    <2> QED BY <1>7, <2>1
  <1>10. \A k \in 0 .. Count : w[k] \in Nat
    <2> DEFINE U == {k \in Nat : k <= Count => w[k] \in Nat}
    <2>1. 0 \in U
      BY <1>8
    <2>2. ASSUME NEW k \in U PROVE k + 1 \in U
      <3>1. k + 1 <= Count => k \in 0 .. Count - 1 /\ k <= Count
        BY CandidatesFinite
      <3> QED BY <1>9, <3>1
    <2>3. U = Nat
      <3>1. U \subseteq Nat
        OBVIOUS
      <3> HIDE DEF U
      <3> QED BY <2>1, <2>2, <3>1, NaturalsReached
    <2>4. \A k \in 0 .. Count : k \in Nat /\ k <= Count
      BY CandidatesFinite
    <2> QED BY <2>3, <2>4
  <1>11. w \in [0 .. Count -> Nat]
    BY <1>7, <1>10
  <1> QED BY <1>8, <1>9, <1>11 DEF w

LEMMA PowerExceeds == \A k \in 0 .. Count : Power[k] \in Nat /\ k + 1 <= Power[k]
  <1> DEFINE U == {k \in Nat : k <= Count => k + 1 <= Power[k]}
  <1>1. 0 \in U
    BY PowerSteps
  <1>2. ASSUME NEW k \in U PROVE k + 1 \in U
    <2> SUFFICES ASSUME k + 1 <= Count PROVE (k + 1) + 1 <= Power[k + 1]
      OBVIOUS
    <2>1. k \in Nat /\ k \in 0 .. Count - 1 /\ k <= Count /\ k \in 0 .. Count
      BY CandidatesFinite
    <2>2. Power[k + 1] = 2 * Power[k] /\ Power[k] \in Nat /\ k + 1 <= Power[k]
      BY <2>1, PowerSteps
    <2> QED BY <2>1, <2>2
  <1>3. U = Nat
    <2>1. U \subseteq Nat
      OBVIOUS
    <2> HIDE DEF U
    <2> QED BY <1>1, <1>2, <2>1, NaturalsReached
  <1>4. \A k \in 0 .. Count : k \in Nat /\ k <= Count
    BY CandidatesFinite
  <1> QED BY <1>3, <1>4, PowerSteps

LEMMA TreeFinite ==
    ASSUME NEW p, NEW r
    PROVE  IsFiniteSet(Tree(p, r)) /\ Cardinality(Tree(p, r)) \in Nat /\ Cardinality(Tree(p, r)) <= Count
  <1>1. Tree(p, r) \subseteq Candidates
    BY DEF Tree
  <1>2. IsFiniteSet(Tree(p, r)) /\ Cardinality(Tree(p, r)) <= Count
    BY <1>1, CandidatesFinite, FS_Subset
  <1> QED BY <1>2, FS_CardinalityType

\* The ranks of the roots bound every rank.
LEMMA RanksBounded ==
    ASSUME NEW p, NEW rank, Forest(p, rank), Heavy(p, rank)
    PROVE  rank \in [Candidates -> 0 .. Count]
  <1> SUFFICES ASSUME NEW v \in Candidates PROVE rank[v] \in 0 .. Count
    BY DEF Forest
  <1>1. RootOf(p, v) \in Candidates /\ p[RootOf(p, v)] = RootOf(p, v)
    BY RootMeans
  <1>2. rank[RootOf(p, v)] <= Count /\ rank[RootOf(p, v)] \in Nat /\ rank[v] \in Nat
    BY <1>1 DEF Heavy, Forest
  <1>3. p[v] = v \/ rank[v] < rank[RootOf(p, v)]
    BY RankOfRoot
  <1>4. p[v] = v => rank[v] <= Count
    BY DEF Heavy
  <1> QED BY <1>2, <1>3, <1>4, CandidatesFinite

\* Trees with the same roots and members are as heavy.
LEMMA SameTrees ==
    ASSUME NEW p, NEW q, NEW rank, Heavy(p, rank),
           \A v \in Candidates : RootOf(q, v) = RootOf(p, v),
           \A v \in Candidates : q[v] = v <=> p[v] = v
    PROVE  Heavy(q, rank)
  <1>1. \A r : Tree(q, r) = Tree(p, r)
    BY DEF Tree
  <1> QED BY <1>1 DEF Heavy

\* Of two linked trees the rank grows only when the other one is as heavy.
LEMMA LinkedHeavy ==
    ASSUME NEW p, NEW rank, Forest(p, rank), Heavy(p, rank),
           NEW l \in Candidates, NEW h \in Candidates, l # h, p[l] = l, p[h] = h,
           NEW q, q \in [Candidates -> Candidates], q[l] = h,
           \A i \in Candidates : i # l => q[i] = p[i],
           NEW new, new \in [Candidates -> Nat],
           \A i \in Candidates : i # h => new[i] = rank[i],
           \/ rank[l] < rank[h] /\ new[h] = rank[h]
           \/ rank[l] = rank[h] /\ new[h] = rank[h] + 1
    PROVE  Heavy(q, new)
  <1>0. rank[l] \in Nat /\ rank[h] \in Nat /\ rank[h] <= new[h] /\ rank[l] < new[h]
    BY DEF Forest
  <1>1. \A v \in Candidates : RootOf(q, v) = IF RootOf(p, v) = l THEN h ELSE RootOf(p, v)
    BY <1>0, Linking
  <1>2. \A r \in Candidates : r # l /\ r # h => Tree(q, r) = Tree(p, r)
    BY <1>1 DEF Tree
  <1>3. Tree(q, h) = Tree(p, l) \union Tree(p, h) /\ Tree(p, l) \intersect Tree(p, h) = {}
    BY <1>1 DEF Tree
  <1> DEFINE a == Cardinality(Tree(p, l))
             b == Cardinality(Tree(p, h))
             c == Cardinality(Tree(q, h))
  <1>4. a \in Nat /\ b \in Nat /\ c \in Nat /\ c <= Count /\ IsFiniteSet(Tree(p, l)) /\ IsFiniteSet(Tree(p, h))
    BY TreeFinite
  <1>5. c = a + b
    <2>1. c = Cardinality(Tree(p, l)) + Cardinality(Tree(p, h)) - Cardinality(Tree(p, l) \intersect Tree(p, h))
      BY <1>3, <1>4, FS_Union
    <2>2. Cardinality(Tree(p, l) \intersect Tree(p, h)) = 0
      BY <1>3, FS_EmptySet
    <2> HIDE DEF a, b, c
    <2>3. c = a + b - 0
      BY <2>1, <2>2 DEF a, b, c
    <2> QED BY <1>4, <2>3
  <1>6. rank[h] <= Count /\ Power[rank[h]] <= b /\ rank[l] <= Count /\ Power[rank[l]] <= a
    BY DEF Heavy
  <1>7. /\ Power[rank[h]] \in Nat /\ rank[h] + 1 <= Power[rank[h]]
        /\ Power[rank[l]] \in Nat /\ rank[l] + 1 <= Power[rank[l]]
    <2>1. rank[h] \in 0 .. Count /\ rank[l] \in 0 .. Count
      BY <1>0, <1>6, CandidatesFinite
    <2> QED BY <2>1, PowerExceeds
  <1> HIDE DEF a, b, c
  <1>8. new[h] <= Count /\ Power[new[h]] <= c
    <2>1. CASE rank[l] < rank[h] /\ new[h] = rank[h]
      <3>1. Power[new[h]] = Power[rank[h]]
        BY <2>1
      <3> QED BY <1>4, <1>5, <1>6, <1>7, <2>1, <3>1
    <2>2. CASE rank[l] = rank[h] /\ new[h] = rank[h] + 1
      <3>1. Power[rank[h]] <= a
        BY <1>6, <2>2
      <3>2. 2 * Power[rank[h]] <= c
        BY <1>4, <1>5, <1>6, <1>7, <3>1
      <3>3. rank[h] + 1 <= Count
        BY <1>0, <1>4, <1>7, <3>2, CandidatesFinite
      <3>4. rank[h] \in 0 .. Count - 1
        BY <1>0, <3>3, CandidatesFinite
      <3>5. Power[rank[h] + 1] = 2 * Power[rank[h]]
        BY <3>4, PowerSteps
      <3>6. Power[new[h]] = 2 * Power[rank[h]]
        BY <2>2, <3>5
      <3> QED BY <2>2, <3>2, <3>3, <3>6
    <2> QED BY <2>1, <2>2
  <1> SUFFICES ASSUME NEW r \in Candidates, q[r] = r
               PROVE  new[r] <= Count /\ Power[new[r]] <= Cardinality(Tree(q, r))
    BY DEF Heavy
  <1>9. r # l
    OBVIOUS
  <1>10. CASE r = h
    BY <1>8, <1>10 DEF c
  <1>11. CASE r # h
    <2>1. p[r] = r /\ new[r] = rank[r] /\ Tree(q, r) = Tree(p, r)
      BY <1>2, <1>9, <1>11
    <2>2. rank[r] <= Count /\ Power[rank[r]] <= Cardinality(Tree(p, r))
      BY <2>1 DEF Heavy
    <2> QED BY <2>1, <2>2
  <1> QED BY <1>10, <1>11

-----------------------------------------------------------------------------
(***************************************************************************)
(* Chains of neighbours                                                    *)
(***************************************************************************)
ChainedOf(nr, i) == {j \in Candidates :
                       \A S \in SUBSET Candidates :
                          (i \in S /\ \A k \in S : nr[k] \subseteq S) => j \in S}

Neighbourhood(nr) == /\ nr \in [Candidates -> SUBSET Candidates]
                     /\ \A i \in Candidates : i \in nr[i]
                     /\ \A i, j \in Candidates : j \in nr[i] => i \in nr[j]

LEMMA RelationsMean ==
    ASSUME NEW nr \in Relations
    PROVE  Neighbourhood(nr)
  <1>1. PICK E \in SUBSET Pairs :
           nr = [i \in Candidates |-> {i} \union {j \in Candidates : {i, j} \in E}]
    BY DEF Relations
  <1>2. \A i \in Candidates : nr[i] = {i} \union {j \in Candidates : {i, j} \in E}
    BY <1>1
  <1>3. nr \in [Candidates -> SUBSET Candidates]
    BY <1>1
  <1>4. ASSUME NEW i \in Candidates, NEW j \in Candidates, j \in nr[i]
        PROVE  i \in nr[j]
    <2>1. {i, j} = {j, i}
      OBVIOUS
    <2>2. i = j \/ {j, i} \in E
      BY <1>2, <1>4, <2>1
    <2> QED BY <1>2, <2>2
  <1> QED BY <1>2, <1>3, <1>4 DEF Neighbourhood

LEMMA ChainedClosed ==
    ASSUME NEW nr, Neighbourhood(nr), NEW i \in Candidates
    PROVE  /\ i \in ChainedOf(nr, i)
           /\ ChainedOf(nr, i) \subseteq Candidates
           /\ \A j \in ChainedOf(nr, i) : nr[j] \subseteq ChainedOf(nr, i)
  <1>1. i \in ChainedOf(nr, i) /\ ChainedOf(nr, i) \subseteq Candidates
    BY DEF ChainedOf
  <1>2. ASSUME NEW j \in ChainedOf(nr, i), NEW k \in nr[j]
        PROVE  k \in ChainedOf(nr, i)
    <2>1. j \in Candidates /\ k \in Candidates
      BY <1>1 DEF Neighbourhood
    <2>2. ASSUME NEW S \in SUBSET Candidates, i \in S, \A m \in S : nr[m] \subseteq S
          PROVE  k \in S
      <3>1. j \in S
        BY <2>2 DEF ChainedOf
      <3> QED BY <2>2, <3>1
    <2> QED BY <2>1, <2>2 DEF ChainedOf
  <1> QED BY <1>1, <1>2

LEMMA ChainedLeast ==
    ASSUME NEW nr, NEW i, NEW S \in SUBSET Candidates, i \in S, \A k \in S : nr[k] \subseteq S
    PROVE  ChainedOf(nr, i) \subseteq S
  BY DEF ChainedOf

\* Being chained is an equivalence.
LEMMA ChainedSame ==
    ASSUME NEW nr, Neighbourhood(nr), NEW i \in Candidates, NEW j \in ChainedOf(nr, i)
    PROVE  ChainedOf(nr, j) = ChainedOf(nr, i)
  <1> DEFINE S == {k \in Candidates : i \in ChainedOf(nr, k)}
  <1>1. \A k \in Candidates : \A m \in ChainedOf(nr, k) : ChainedOf(nr, m) \subseteq ChainedOf(nr, k)
    <2> SUFFICES ASSUME NEW k \in Candidates, NEW m \in ChainedOf(nr, k)
                 PROVE  ChainedOf(nr, m) \subseteq ChainedOf(nr, k)
      OBVIOUS
    <2> DEFINE C == ChainedOf(nr, k)
    <2>1. C \in SUBSET Candidates /\ m \in C /\ \A x \in C : nr[x] \subseteq C
      BY ChainedClosed
    <2> HIDE DEF C
    <2>2. ChainedOf(nr, m) \subseteq C
      BY <2>1, ChainedLeast
    <2> QED BY <2>2 DEF C
  <1>2. i \in S
    BY ChainedClosed
  <1>3. ASSUME NEW k \in S, NEW m \in nr[k] PROVE m \in S
    <2>1. k \in Candidates /\ m \in Candidates /\ k \in nr[m] /\ i \in ChainedOf(nr, k)
      BY DEF Neighbourhood
    <2>2. m \in ChainedOf(nr, m) /\ nr[m] \subseteq ChainedOf(nr, m)
      BY <2>1, ChainedClosed
    <2>3. k \in ChainedOf(nr, m)
      BY <2>1, <2>2
    <2>4. i \in ChainedOf(nr, m)
      BY <1>1, <2>1, <2>3
    <2> QED BY <2>1, <2>4
  <1>4. ChainedOf(nr, i) \subseteq S
    <2>1. S \in SUBSET Candidates /\ \A k \in S : nr[k] \subseteq S
      BY <1>3
    <2> HIDE DEF S
    <2> QED BY <1>2, <2>1, ChainedLeast
  <1>5. j \in Candidates /\ i \in ChainedOf(nr, j)
    BY <1>4
  <1> QED BY <1>1, <1>5

-----------------------------------------------------------------------------
(***************************************************************************)
(* The inductive invariant                                                 *)
(***************************************************************************)
RootNow(i) == RootOf(parent_, i)

Control == /\ near \in Relations
           /\ pc \in {"unite", "label", "done"}
           /\ candidate \in 0 .. Count
           /\ todo \subseteq Candidates
           /\ pc = "unite" => IF Count = 0 THEN todo = {}
                              ELSE candidate \in Candidates /\ todo \subseteq near[candidate]
           /\ pc = "unite" => DOMAIN root_to_label = {}
           /\ pc = "done" => candidate = Count

\* The forest is sound.
Sound == Forest(parent_, rank_) /\ Heavy(parent_, rank_)

\* Only chained candidates are in one tree.
Within == \A i \in Candidates : RootNow(i) \in ChainedOf(near, i)

\* Neighbours the loop has passed are in one tree.
United == \A i \in Candidates : \A j \in near[i] :
             (pc # "unite" \/ i < candidate \/ (i = candidate /\ j \notin todo)) => RootNow(i) = RootNow(j)

\* Candidates before the first member of the tree of r.
Before(r) == {j \in Candidates : \A l \in Candidates : RootNow(l) = r => j < l}

\* The labels given so far.
Labelled ==
    /\ labels \in [Candidates -> {-1} \union Candidates]
    /\ pc # "unite" =>
         LET seen == DOMAIN root_to_label
         IN  /\ seen = {RootNow(i) : i \in {k \in Candidates : k < candidate}}
             /\ \A r \in seen : root_to_label[r] \in Nat /\ root_to_label[r] < Cardinality(seen)
             /\ \A r, s \in seen : root_to_label[r] = root_to_label[s] => r = s
             /\ \A r \in seen : root_to_label[r] = Cardinality({RootNow(j) : j \in Before(r)})
             /\ \A i \in Candidates : i < candidate => labels[i] = root_to_label[RootNow(i)]

IInv == Control /\ Sound /\ Within /\ United /\ Labelled

-----------------------------------------------------------------------------
(***************************************************************************)
(* The steps                                                               *)
(***************************************************************************)
LEMMA RootIs == \A v : Root(v) = RootNow(v)
  BY DEF Root, Path, Ancestor, RootNow, RootOf, PathOf, AncestorOf

\* find, for every candidate of vs.
LEMMA Finding ==
    ASSUME Sound, NEW vs
    PROVE  /\ Forest(Compressed(vs), rank_)
           /\ Heavy(Compressed(vs), rank_)
           /\ \A v \in Candidates : RootOf(Compressed(vs), v) = RootNow(v)
           /\ \A v \in Candidates : Compressed(vs)[v] = v <=> parent_[v] = v
  <1> DEFINE X == {i \in Candidates : \E v \in vs : i \in Path(v)}
             q == Compressed(vs)
  <1>1. q = [i \in Candidates |-> IF i \in X THEN RootOf(parent_, i) ELSE parent_[i]]
    BY RootIs DEF Compressed, RootNow
  <1> HIDE DEF X, q
  <1>2. /\ Forest(q, rank_)
        /\ \A v \in Candidates : RootOf(q, v) = RootOf(parent_, v)
        /\ \A v \in Candidates : q[v] = v <=> parent_[v] = v
    BY <1>1, Compression DEF Sound
  <1>3. Heavy(q, rank_)
    BY <1>2, SameTrees DEF Sound
  <1> QED BY <1>2, <1>3 DEF q, RootNow

\* unite: both trees have the one root afterwards, and all others keep theirs.
LEMMA Uniting ==
    ASSUME NEW p, Forest(p, rank_), Heavy(p, rank_),
           NEW l \in Candidates, NEW r \in Candidates, p[l] = l, p[r] = r,
           Link(l, r, p)
    PROVE  /\ Sound'
           /\ \E lo, hi : /\ (lo = l /\ hi = r) \/ (lo = r /\ hi = l)
                          /\ \A v \in Candidates :
                                RootNow(v)' = IF RootOf(p, v) = lo THEN hi ELSE RootOf(p, v)
  <1> DEFINE q == parent_'
             new == rank_'
             Merged(lo, hi) == \A v \in Candidates : RootOf(q, v) = IF RootOf(p, v) = lo THEN hi ELSE RootOf(p, v)
  <1>0. p \in [Candidates -> Candidates] /\ rank_ \in [Candidates -> Nat] /\ rank_[l] \in Nat /\ rank_[r] \in Nat
    BY DEF Forest
  <1>1. CASE l = r
    <2>1. q = p /\ new = rank_
      BY <1>1 DEF Link
    <2>2. Forest(q, new) /\ Heavy(q, new)
      BY <2>1
    <2>3. Merged(l, r)
      BY <1>1, <2>1
    <2> QED BY <2>2, <2>3 DEF Sound, RootNow
  <1>2. ASSUME NEW lo \in Candidates, NEW hi \in Candidates, lo # hi, p[lo] = lo, p[hi] = hi,
               q = [p EXCEPT ![lo] = hi],
               new \in [Candidates -> Nat], \A i \in Candidates : i # hi => new[i] = rank_[i],
               \/ rank_[lo] < rank_[hi] /\ new[hi] = rank_[hi]
               \/ rank_[lo] = rank_[hi] /\ new[hi] = rank_[hi] + 1
        PROVE  Forest(q, new) /\ Heavy(q, new) /\ Merged(lo, hi)
    <2>1. /\ q \in [Candidates -> Candidates] /\ q[lo] = hi
          /\ \A i \in Candidates : i # lo => q[i] = p[i]
      BY <1>0, <1>2
    <2>2. rank_[hi] <= new[hi] /\ rank_[lo] < new[hi]
      BY <1>0, <1>2
    <2> DEFINE w == parent_'
               n == rank_'
    <2>3. /\ w \in [Candidates -> Candidates] /\ w[lo] = hi
          /\ \A i \in Candidates : i # lo => w[i] = p[i]
      BY <2>1
    <2>4. /\ n \in [Candidates -> Nat]
          /\ \A i \in Candidates : i # hi => n[i] = rank_[i]
          /\ \/ rank_[lo] < rank_[hi] /\ n[hi] = rank_[hi]
             \/ rank_[lo] = rank_[hi] /\ n[hi] = rank_[hi] + 1
          /\ rank_[hi] <= n[hi] /\ rank_[lo] < n[hi]
      BY <1>2, <2>2
    <2>5. lo \in Candidates /\ hi \in Candidates /\ lo # hi /\ p[lo] = lo /\ p[hi] = hi
      BY <1>2
    <2> HIDE DEF w, n
    <2>6. Heavy(w, n)
      BY ONLY Forest(p, rank_), Heavy(p, rank_), <2>3, <2>4, <2>5, LinkedHeavy
    <2>7. /\ Forest(w, n)
          /\ \A v \in Candidates : RootOf(w, v) = IF RootOf(p, v) = lo THEN hi ELSE RootOf(p, v)
      BY ONLY Forest(p, rank_), <2>3, <2>4, <2>5, Linking
    <2> QED BY <2>6, <2>7 DEF w, n
  <1>3. CASE l # r /\ rank_[l] < rank_[r]
    <2>1. q = [p EXCEPT ![l] = r] /\ new = rank_
      BY <1>3 DEF Link
    <2>2. Forest(q, new) /\ Heavy(q, new) /\ Merged(l, r)
      BY <1>0, <1>2, <1>3, <2>1
    <2> QED BY <2>2 DEF Sound, RootNow
  <1>4. CASE l # r /\ rank_[l] > rank_[r]
    <2>1. ~(rank_[l] < rank_[r]) /\ rank_[r] < rank_[l]
      BY <1>0, <1>4
    <2>2. q = [p EXCEPT ![r] = l] /\ new = rank_
      BY <1>4, <2>1 DEF Link
    <2>3. Forest(q, new) /\ Heavy(q, new) /\ Merged(r, l)
      BY <1>0, <1>2, <1>4, <2>1, <2>2
    <2> QED BY <2>3 DEF Sound, RootNow
  <1>5. CASE l # r /\ rank_[l] = rank_[r]
    <2>1. ~(rank_[l] < rank_[r]) /\ ~(rank_[l] > rank_[r])
      BY <1>0, <1>5
    <2>2. q = [p EXCEPT ![r] = l] /\ new = [rank_ EXCEPT ![l] = @ + 1]
      BY <1>5, <2>1 DEF Link
    <2>3. new \in [Candidates -> Nat] /\ new[l] = rank_[l] + 1 /\ \A i \in Candidates : i # l => new[i] = rank_[i]
      BY <1>0, <2>2
    <2>4. q = [p EXCEPT ![r] = l]
      BY <2>2
    <2>5. Forest(q, new) /\ Heavy(q, new) /\ Merged(r, l)
      BY <1>2, <1>5, <2>3, <2>4
    <2> QED BY <2>5 DEF Sound, RootNow
  <1> QED BY <1>0, <1>1, <1>3, <1>4, <1>5

LEMMA InitEstablishes == Init => IInv
  <1> SUFFICES ASSUME Init PROVE IInv
    OBVIOUS
  <1>0. Neighbourhood(near)
    BY RelationsMean DEF Init
  <1>1. Control
    <2>1. Count # 0 => 0 \in Candidates
      BY CandidatesFinite DEF Candidates
    <2>2. 0 \in 0 .. Count
      BY CandidatesFinite
    <2>3. near \in [Candidates -> SUBSET Candidates]
      BY <1>0 DEF Neighbourhood
    <2> QED BY <2>1, <2>2, <2>3 DEF Init, Control
  <1>2. /\ Forest(parent_, rank_)
        /\ \A i \in Candidates : parent_[i] = i /\ rank_[i] = 0
    BY DEF Init, Forest
  <1>3. \A i \in Candidates : RootNow(i) = i
    BY <1>2, RootPath DEF RootNow
  <1>4. Heavy(parent_, rank_)
    <2> SUFFICES ASSUME NEW r \in Candidates
                 PROVE  rank_[r] <= Count /\ Power[rank_[r]] <= Cardinality(Tree(parent_, r))
      BY DEF Heavy
    <2>1. Tree(parent_, r) = {r}
      BY <1>3 DEF Tree, RootNow
    <2>2. Cardinality(Tree(parent_, r)) = 1
      BY <2>1, FS_Singleton
    <2>3. Power[rank_[r]] = 1
      BY <1>2, PowerSteps
    <2> QED BY <1>2, <2>2, <2>3, CandidatesFinite
  <1>5. Within
    BY <1>0, <1>3, ChainedClosed DEF Within
  <1>6. United
    <2>1. \A i \in Candidates : ~(i < 0) /\ Count # 0
      BY CandidatesFinite
    <2> QED BY <2>1 DEF United, Init
  <1>7. Labelled
    BY DEF Init, Labelled
  <1> QED BY <1>1, <1>2, <1>4, <1>5, <1>6, <1>7 DEF IInv, Sound

LEMMA UniteNextKeeps ==
    ASSUME IInv, UniteNext
    PROVE  IInv'
  <1>1. PICK n \in todo : Unite(n) /\ todo' = todo \ {n}
    BY DEF UniteNext
  <1>2. /\ pc = "unite" /\ pc' = pc /\ near' = near /\ candidate' = candidate
        /\ root_to_label' = root_to_label /\ labels' = labels
    BY DEF UniteNext
  <1> DEFINE c == candidate
             p == Compressed({candidate, n})
  <1>3. Neighbourhood(near)
    BY RelationsMean DEF IInv, Control
  <1>4. Count # 0 /\ c \in Candidates /\ n \in near[c] /\ n \in Candidates
    BY <1>1, <1>2 DEF IInv, Control
  <1>5. /\ Forest(p, rank_) /\ Heavy(p, rank_)
        /\ \A v \in Candidates : RootOf(p, v) = RootNow(v)
        /\ \A v \in Candidates : p[v] = v <=> parent_[v] = v
    BY Finding DEF IInv
  <1>6. \A v \in Candidates : RootNow(v) \in Candidates /\ parent_[RootNow(v)] = RootNow(v)
    BY RootMeans DEF IInv, Sound, RootNow
  <1>7. Link(RootNow(c), RootNow(n), p)
    BY <1>1, RootIs DEF Unite
  <1>8. p[RootNow(c)] = RootNow(c) /\ p[RootNow(n)] = RootNow(n)
    BY <1>4, <1>5, <1>6
  <1> HIDE DEF p, c
  <1>9. /\ Sound'
        /\ \E lo, hi : /\ (lo = RootNow(c) /\ hi = RootNow(n)) \/ (lo = RootNow(n) /\ hi = RootNow(c))
                       /\ \A v \in Candidates :
                             RootNow(v)' = IF RootOf(p, v) = lo THEN hi ELSE RootOf(p, v)
    BY <1>4, <1>5, <1>6, <1>7, <1>8, Uniting
  <1>10. PICK lo, hi : /\ (lo = RootNow(c) /\ hi = RootNow(n)) \/ (lo = RootNow(n) /\ hi = RootNow(c))
                       /\ \A v \in Candidates : RootNow(v)' = IF RootNow(v) = lo THEN hi ELSE RootNow(v)
    BY <1>5, <1>9
  <1>11. Control'
    BY <1>1, <1>2 DEF IInv, Control
  <1>12. Within'
    <2> SUFFICES ASSUME NEW v \in Candidates PROVE RootNow(v)' \in ChainedOf(near, v)
      BY <1>2 DEF Within
    <2>1. RootNow(v) \in ChainedOf(near, v)
      BY DEF IInv, Within
    <2>2. CASE RootNow(v) = lo
      <3>1. ChainedOf(near, lo) = ChainedOf(near, v)
        BY <1>3, <2>1, <2>2, ChainedSame
      <3>2. n \in ChainedOf(near, c)
        BY <1>3, <1>4, ChainedClosed
      <3>3. ChainedOf(near, n) = ChainedOf(near, c)
        BY <1>3, <1>4, <3>2, ChainedSame
      <3>4. /\ ChainedOf(near, RootNow(c)) = ChainedOf(near, c)
            /\ ChainedOf(near, RootNow(n)) = ChainedOf(near, n)
        BY <1>3, <1>4, ChainedSame DEF IInv, Within
      <3>5. hi \in ChainedOf(near, hi) /\ ChainedOf(near, hi) = ChainedOf(near, lo)
        BY <1>3, <1>4, <1>6, <1>10, <3>3, <3>4, ChainedClosed
      <3> QED BY <1>10, <2>2, <3>1, <3>5
    <2>3. CASE RootNow(v) # lo
      BY <1>10, <2>1, <2>3
    <2> QED BY <2>2, <2>3
  <1>13. United'
    <2> SUFFICES ASSUME NEW i \in Candidates, NEW j \in near[i],
                        i < candidate \/ (i = candidate /\ j \notin todo')
                 PROVE  RootNow(i)' = RootNow(j)'
      BY <1>2 DEF United
    <2>1. j \in Candidates
      BY <1>3 DEF Neighbourhood
    <2>2. CASE i = candidate /\ j = n
      BY <1>4, <1>10, <2>2 DEF c
    <2>3. CASE ~(i = candidate /\ j = n)
      <3>1. i < candidate \/ (i = candidate /\ j \notin todo)
        BY <1>1, <2>3
      <3>2. RootNow(i) = RootNow(j)
        BY <3>1 DEF IInv, United
      <3> QED BY <1>10, <2>1, <3>2
    <2> QED BY <2>2, <2>3
  <1>14. Labelled'
    BY <1>2 DEF IInv, Labelled
  <1> QED BY <1>9, <1>11, <1>12, <1>13, <1>14 DEF IInv

LEMMA NextCandidateKeeps ==
    ASSUME IInv, NextCandidate
    PROVE  IInv'
  <1>1. /\ pc = "unite" /\ todo = {} /\ near' = near /\ parent_' = parent_ /\ rank_' = rank_
        /\ root_to_label' = root_to_label /\ labels' = labels
    BY DEF NextCandidate
  <1>2. /\ near \in Relations /\ candidate \in 0 .. Count /\ Count \in Nat /\ candidate \in Int
        /\ Count # 0 => candidate \in Candidates
        /\ near \in [Candidates -> SUBSET Candidates]
    BY <1>1, CandidatesFinite, RelationsMean DEF IInv, Control, Neighbourhood
  <1>3. \A v : RootNow(v)' = RootNow(v)
    BY <1>1 DEF RootNow
  <1>4. Sound' /\ Within'
    BY <1>1, <1>3 DEF IInv, Sound, Within
  <1>5. ASSUME candidate < Count - 1, candidate' = candidate + 1, todo' = near[candidate + 1], pc' = pc
        PROVE  Control' /\ United' /\ Labelled'
    <2>1. candidate + 1 \in Candidates /\ candidate + 1 \in 0 .. Count /\ Count # 0
      BY <1>2, <1>5 DEF Candidates
    <2>2. todo' \subseteq Candidates
      BY <1>2, <1>5, <2>1
    <2>3. Control'
      BY <1>1, <1>2, <1>5, <2>1, <2>2 DEF IInv, Control
    <2>4. United'
      <3> SUFFICES ASSUME NEW i \in Candidates, NEW j \in near[i],
                          i < candidate + 1 \/ (i = candidate + 1 /\ j \notin near[candidate + 1])
                   PROVE  RootNow(i) = RootNow(j)
        BY <1>1, <1>3, <1>5 DEF United
      <3>1. i < candidate \/ i = candidate
        BY <1>2, CandidatesFinite
      <3> QED BY <1>1, <3>1 DEF IInv, United
    <2>5. Labelled'
      BY <1>1, <1>5 DEF IInv, Labelled
    <2> QED BY <2>3, <2>4, <2>5
  <1>6. ASSUME ~(candidate < Count - 1), candidate' = 0, pc' = "label", todo' = todo
        PROVE  Control' /\ United' /\ Labelled'
    <2>1. 0 \in 0 .. Count
      BY <1>2
    <2>2. Control'
      BY <1>1, <1>2, <1>6, <2>1 DEF IInv, Control
    <2>3. United'
      <3> SUFFICES ASSUME NEW i \in Candidates, NEW j \in near[i]
                   PROVE  RootNow(i) = RootNow(j)
        BY <1>1, <1>3, <1>6 DEF United
      <3>1. i < candidate \/ i = candidate
        BY <1>2, <1>6, CandidatesFinite
      <3> QED BY <1>1, <3>1 DEF IInv, United
    <2>4. Labelled'
      <3>1. DOMAIN root_to_label = {}
        BY <1>1 DEF IInv, Control
      <3>2. \A i \in Candidates : ~(i < 0)
        BY CandidatesFinite
      <3>3. {RootNow(i)' : i \in {k \in Candidates : k < 0}} = {}
        BY <3>2
      <3>5. labels' \in [Candidates -> {-1} \union Candidates]
        BY <1>1 DEF IInv, Labelled
      <3> QED BY <1>1, <1>6, <3>1, <3>2, <3>3, <3>5 DEF Labelled
    <2> QED BY <2>2, <2>3, <2>4
  <1>7. Control' /\ United' /\ Labelled'
    BY <1>5, <1>6 DEF NextCandidate
  <1> QED BY <1>4, <1>7 DEF IInv

\* The image of a set with at most so many members has at most so many.
LEMMA SeenFinite ==
    ASSUME Labelled, pc = "label", candidate \in 0 .. Count
    PROVE  /\ IsFiniteSet(DOMAIN root_to_label)
           /\ Cardinality(DOMAIN root_to_label) \in Nat
           /\ Cardinality(DOMAIN root_to_label) <= candidate
  <1> DEFINE K == {k \in Candidates : k < candidate}
             D == DOMAIN root_to_label
             f == [k \in K |-> RootNow(k)]
  <1>1. D = {RootNow(k) : k \in K}
    BY DEF Labelled
  <1>2. f \in Surjection(K, D)
    BY <1>1 DEF Surjection
  <1>3. K = 0 .. candidate - 1
    BY CandidatesFinite DEF Candidates
  <1>4. IsFiniteSet(K) /\ Cardinality(K) = candidate
    <2>1. 0 \in Int /\ candidate - 1 \in Int /\ candidate \in Nat
      BY CandidatesFinite
    <2>2. IsFiniteSet(0 .. candidate - 1)
          /\ Cardinality(0 .. candidate - 1) = IF 0 > candidate - 1 THEN 0 ELSE candidate - 1 - 0 + 1
      BY <2>1, FS_Interval
    <2>3. Cardinality(0 .. candidate - 1) = candidate
      BY <2>1, <2>2
    <2> QED BY <1>3, <2>2, <2>3
  <1> HIDE DEF K, D, f
  <1>5. IsFiniteSet(D) /\ Cardinality(D) <= Cardinality(K)
    BY <1>2, <1>4, FS_Surjection
  <1>6. Cardinality(D) \in Nat
    BY <1>5, FS_CardinalityType
  <1> QED BY <1>4, <1>5, <1>6 DEF D

LEMMA LabelKeeps ==
    ASSUME IInv, Label
    PROVE  IInv'
  <1> DEFINE root == RootNow(candidate)
             D == DOMAIN root_to_label
             rtl == root_to_label
  <1>1. /\ pc = "label" /\ candidate < Count /\ near' = near /\ pc' = pc /\ todo' = todo /\ rank_' = rank_
        /\ candidate' = candidate + 1 /\ parent_' = Compressed({candidate})
    BY DEF Label, Labelling
  <1>2. /\ root_to_label' = [r \in D \union {root} |-> IF r \in D THEN rtl[r] ELSE Cardinality(D)]
        /\ labels' = [labels EXCEPT ![candidate] = root_to_label'[root]]
    BY RootIs DEF Label, Labelling
  <1>3. candidate \in 0 .. Count /\ candidate \in Nat /\ candidate \in Candidates /\ Count \in Nat
    BY <1>1, CandidatesFinite DEF IInv, Control, Candidates
  <1>4. /\ Forest(parent_', rank_') /\ Heavy(parent_', rank_')
        /\ \A v \in Candidates : RootNow(v)' = RootNow(v)
    BY <1>1, Finding DEF IInv, RootNow
  <1>5. Control'
    <2>1. candidate + 1 \in 0 .. Count
      BY <1>1, <1>3
    <2> QED BY <1>1, <2>1 DEF IInv, Control
  <1>6. Within'
    BY <1>1, <1>4 DEF IInv, Within
  <1>7. United'
    <2>1. \A i \in Candidates : near[i] \subseteq Candidates
      BY RelationsMean DEF IInv, Control, Neighbourhood
    <2> QED BY <1>1, <1>4, <2>1 DEF IInv, United
  <1>8. /\ D = {RootNow(i) : i \in {k \in Candidates : k < candidate}}
        /\ \A r \in D : rtl[r] \in Nat /\ rtl[r] < Cardinality(D)
        /\ \A r, s \in D : rtl[r] = rtl[s] => r = s
        /\ \A r \in D : rtl[r] = Cardinality({RootNow(j) : j \in Before(r)})
        /\ \A i \in Candidates : i < candidate => labels[i] = rtl[RootNow(i)]
        /\ labels \in [Candidates -> {-1} \union Candidates]
    BY <1>1 DEF IInv, Labelled
  <1>9. IsFiniteSet(D) /\ Cardinality(D) \in Nat /\ Cardinality(D) <= candidate
    BY <1>1, <1>3, SeenFinite DEF IInv
  <1>10. \A r : Before(r)' = Before(r) /\ {RootNow(j)' : j \in Before(r)'} = {RootNow(j) : j \in Before(r)}
    <2>1. \A r : Before(r)' = Before(r) /\ Before(r) \subseteq Candidates
      BY <1>4 DEF Before
    <2> QED BY <1>4, <2>1
  <1> DEFINE E == D \union {root}
             new == root_to_label'
  <1>11. E = {RootNow(i)' : i \in {k \in Candidates : k < candidate + 1}}
    <2>0. \A k \in Candidates : k < candidate + 1 <=> (k < candidate \/ k = candidate)
      BY <1>3, CandidatesFinite
    <2>1. {k \in Candidates : k < candidate + 1} = {k \in Candidates : k < candidate} \union {candidate}
      BY <1>3, <2>0
    <2>2. {RootNow(i)' : i \in {k \in Candidates : k < candidate + 1}}
            = {RootNow(i) : i \in {k \in Candidates : k < candidate + 1}}
      BY <1>4
    <2> QED BY <1>8, <2>1, <2>2
  <1>12. /\ DOMAIN new = E
         /\ \A r \in D : new[r] = rtl[r]
         /\ root \notin D => new[root] = Cardinality(D)
    BY <1>2
  <1>13. root \notin D => Cardinality(D) = Cardinality({RootNow(j) : j \in Before(root)})
    <2> SUFFICES ASSUME root \notin D PROVE D = {RootNow(j) : j \in Before(root)}
      OBVIOUS
    <2>1. \A l \in Candidates : RootNow(l) = root => ~(l < candidate)
      BY <1>8
    <2>2. \A l \in Candidates : l \in Nat
      BY CandidatesFinite
    <2>3. \A j \in Candidates : j < candidate => \A l \in Candidates : RootNow(l) = root => j < l
      BY <1>3, <2>1, <2>2
    <2>4. Before(root) = {k \in Candidates : k < candidate}
      BY <1>3, <2>3 DEF Before
    <2> QED BY <1>8, <2>4
  <1>14. IsFiniteSet(E) /\ Cardinality(E) \in Nat /\ Cardinality(E) = IF root \in D THEN Cardinality(D) ELSE Cardinality(D) + 1
    <2>1. IsFiniteSet(E) /\ Cardinality(E) = IF root \in D THEN Cardinality(D) ELSE Cardinality(D) + 1
      BY <1>9, FS_AddElement
    <2> QED BY <2>1, FS_CardinalityType
  <1>15. \A r \in E : r \in D \/ (r = root /\ root \notin D)
    OBVIOUS
  <1> DEFINE n == Cardinality(D)
             m == Cardinality(E)
             F(r) == Cardinality({RootNow(j) : j \in Before(r)})
  <1>a. \A r : Cardinality({RootNow(j)' : j \in Before(r)'}) = F(r)
    BY <1>10
  <1>b. /\ n \in Nat /\ n <= candidate /\ m \in Nat /\ m = IF root \in D THEN n ELSE n + 1
        /\ root \notin D => n = F(root) /\ new[root] = n
        /\ \A r \in D : rtl[r] \in Nat /\ rtl[r] < n /\ rtl[r] = F(r) /\ new[r] = rtl[r]
    BY <1>8, <1>9, <1>12, <1>13, <1>14
  <1> HIDE DEF D, E, n, m, F, new, root, rtl
  <1>16. \A r \in E : new[r] \in Nat /\ new[r] < m
    BY <1>b, <1>15
  <1>17. \A r, s \in E : new[r] = new[s] => r = s
    <2> SUFFICES ASSUME NEW r \in E, NEW s \in E, new[r] = new[s] PROVE r = s
      OBVIOUS
    <2>1. CASE r \in D /\ s \in D
      BY <1>8, <1>b, <2>1
    <2>2. CASE r \in D /\ s \notin D
      BY <1>b, <1>15, <2>2
    <2>3. CASE r \notin D /\ s \in D
      BY <1>b, <1>15, <2>3
    <2>4. CASE r \notin D /\ s \notin D
      BY <1>15, <2>4
    <2> QED BY <2>1, <2>2, <2>3, <2>4
  <1>18. \A r \in E : new[r] = F(r)
    BY <1>b, <1>15
  <1>19. root \in E
    BY DEF E
  <1>20. new[root] \in Candidates
    <2>1. root \in D => new[root] < n /\ new[root] \in Nat
      BY <1>b
    <2>2. root \notin D => new[root] = n
      BY <1>b
    <2>3. new[root] \in Nat /\ new[root] < Count
      BY <1>1, <1>3, <1>b, <2>1, <2>2
    <2> QED BY <1>3, <2>3 DEF Candidates
  <1>21. /\ labels' \in [Candidates -> {-1} \union Candidates]
         /\ labels'[candidate] = new[root]
         /\ \A i \in Candidates : i # candidate => labels'[i] = labels[i]
    BY <1>2, <1>3, <1>8, <1>20 DEF new
  <1>22. \A i \in Candidates : i < candidate + 1 => labels'[i] = new[RootNow(i)']
    <2> SUFFICES ASSUME NEW i \in Candidates, i < candidate + 1 PROVE labels'[i] = new[RootNow(i)]
      BY <1>4
    <2>1. CASE i = candidate
      BY <1>21, <2>1 DEF root
    <2>2. CASE i # candidate
      <3>1. i < candidate
        BY <1>3, <2>2, CandidatesFinite
      <3>2. RootNow(i) \in D
        BY <1>8, <3>1
      <3> QED BY <1>8, <1>21, <1>b, <2>2, <3>1, <3>2
    <2> QED BY <2>1, <2>2
  <1>23. Labelled'
    <2>1. pc' = "label" /\ candidate' = candidate + 1
      BY <1>1
    <2>2. \A r \in E : new[r] = Cardinality({RootNow(j)' : j \in Before(r)'})
      BY <1>18, <1>a
    <2>3. /\ DOMAIN new = {RootNow(i)' : i \in {k \in Candidates : k < candidate'}}
          /\ \A r \in DOMAIN new : new[r] \in Nat /\ new[r] < Cardinality(DOMAIN new)
          /\ \A r, s \in DOMAIN new : new[r] = new[s] => r = s
          /\ \A r \in DOMAIN new : new[r] = Cardinality({RootNow(j)' : j \in Before(r)'})
          /\ \A i \in Candidates : i < candidate' => labels'[i] = new[RootNow(i)']
      BY <1>11, <1>12, <1>16, <1>17, <1>22, <2>1, <2>2 DEF m
    <2> QED BY <1>21, <2>3 DEF Labelled, new
  <1> QED BY <1>4, <1>5, <1>6, <1>7, <1>23 DEF IInv, Sound

LEMMA ReturnKeeps ==
    ASSUME IInv, Return
    PROVE  IInv'
  <1>1. /\ pc = "label" /\ candidate = Count /\ pc' = "done" /\ near' = near /\ candidate' = candidate
        /\ todo' = todo /\ parent_' = parent_ /\ rank_' = rank_
        /\ root_to_label' = root_to_label /\ labels' = labels
    BY DEF Return
  <1>2. \A v : RootNow(v)' = RootNow(v)
    BY <1>1 DEF RootNow
  <1>3. \A r : Before(r)' = Before(r)
    BY <1>2 DEF Before
  <1>4. Control' /\ Sound' /\ Within' /\ United'
    BY <1>1, <1>2 DEF IInv, Control, Sound, Within, United
  <1>5. Labelled'
    BY <1>1, <1>2, <1>3 DEF IInv, Labelled
  <1> QED BY <1>4, <1>5 DEF IInv

LEMMA StutterKeeps ==
    ASSUME IInv, UNCHANGED vars
    PROVE  IInv'
  <1>1. /\ near' = near /\ pc' = pc /\ candidate' = candidate /\ todo' = todo /\ parent_' = parent_
        /\ rank_' = rank_ /\ root_to_label' = root_to_label /\ labels' = labels
    BY DEF vars
  <1>2. \A v : RootNow(v)' = RootNow(v)
    BY <1>1 DEF RootNow
  <1>3. \A r : Before(r)' = Before(r)
    BY <1>2 DEF Before
  <1>4. Control' /\ Sound' /\ Within' /\ United'
    BY <1>1, <1>2 DEF IInv, Control, Sound, Within, United
  <1>5. Labelled'
    BY <1>1, <1>2, <1>3 DEF IInv, Labelled
  <1> QED BY <1>4, <1>5 DEF IInv

\* The inductive invariant holds in every behaviour of euclidean_cluster.
THEOREM Inductive == Spec => []IInv
  <1>1. IInv /\ [Next]_vars => IInv'
    BY UniteNextKeeps, NextCandidateKeeps, LabelKeeps, ReturnKeeps, StutterKeeps DEF Next
  <1> QED BY InitEstablishes, <1>1, PTL DEF Spec

-----------------------------------------------------------------------------
(***************************************************************************)
(* What the invariant means                                                *)
(***************************************************************************)
LEMMA ForestImplied == IInv => ForestShallow
  <1> SUFFICES ASSUME IInv PROVE ForestShallow
    OBVIOUS
  <1>1. rank_ \in [Candidates -> 0 .. Count]
    BY RanksBounded DEF IInv, Sound
  <1>2. TypeOK
    <2>1. near \in [Candidates -> SUBSET Candidates]
      BY RelationsMean DEF IInv, Control, Neighbourhood
    <2>2. parent_ \in [Candidates -> Candidates]
      BY DEF IInv, Sound, Forest
    <2> QED BY <1>1, <2>1, <2>2 DEF TypeOK, IInv, Control, Labelled
  <1>3. \A i \in Candidates : parent_[i] # i => rank_[i] < rank_[parent_[i]]
    BY DEF IInv, Sound, Forest
  <1>4. \A r : {i \in Candidates : Root(i) = r} = Tree(parent_, r)
    BY RootIs DEF Tree, RootNow
  <1>5. \A r \in Candidates : parent_[r] = r => Power[rank_[r]] <= Cardinality({i \in Candidates : Root(i) = r})
    BY <1>4 DEF IInv, Sound, Heavy
  <1> QED BY <1>2, <1>3, <1>5 DEF ForestShallow

\* Once every neighbour is united, the trees are the classes.
LEMMA TreesAreClasses ==
    ASSUME IInv, pc # "unite"
    PROVE  \A i, j \in Candidates : RootNow(i) = RootNow(j) <=> j \in ChainedOf(near, i)
  <1>1. Neighbourhood(near)
    BY RelationsMean DEF IInv, Control
  <1> TAKE i, j \in Candidates
  <1>2. ASSUME RootNow(i) = RootNow(j) PROVE j \in ChainedOf(near, i)
    <2>1. RootNow(i) \in ChainedOf(near, i) /\ RootNow(i) \in ChainedOf(near, j)
      BY <1>2 DEF IInv, Within
    <2>2. ChainedOf(near, i) = ChainedOf(near, j)
      BY <1>1, <2>1, ChainedSame
    <2> QED BY <1>1, <2>2, ChainedClosed
  <1>3. ASSUME j \in ChainedOf(near, i) PROVE RootNow(i) = RootNow(j)
    <2> DEFINE S == {k \in Candidates : RootNow(k) = RootNow(i)}
    <2>1. i \in S /\ S \in SUBSET Candidates
      OBVIOUS
    <2>2. ASSUME NEW k \in S, NEW m \in near[k] PROVE m \in S
      <3>1. m \in Candidates /\ RootNow(k) = RootNow(m)
        BY <1>1 DEF Neighbourhood, IInv, United
      <3> QED BY <3>1
    <2>3. ChainedOf(near, i) \subseteq S
      <3> HIDE DEF S
      <3> QED BY <2>1, <2>2, ChainedLeast
    <2> QED BY <1>3, <2>3
  <1> QED BY <1>2, <1>3

LEMMA LabelsImplied == IInv => LabelsExact
  <1> SUFFICES ASSUME IInv, pc = "done"
               PROVE  /\ \A i, j \in Candidates : labels[i] = labels[j] <=> j \in Chained(i)
                      /\ \A i \in Candidates :
                            labels[i] = Cardinality({labels[j] : j \in {k \in Candidates : \A l \in Chained(i) : k < l}})
    BY DEF LabelsExact
  <1> DEFINE D == DOMAIN root_to_label
             rtl == root_to_label
  <1>1. \A i : Chained(i) = ChainedOf(near, i)
    BY DEF Chained, ChainedOf
  <1>2. \A i, j \in Candidates : RootNow(i) = RootNow(j) <=> j \in Chained(i)
    BY <1>1, TreesAreClasses
  <1>3. candidate = Count /\ \A i \in Candidates : i < candidate
    BY CandidatesFinite DEF IInv, Control
  <1>4. /\ D = {RootNow(i) : i \in Candidates}
        /\ \A r, s \in D : rtl[r] = rtl[s] => r = s
        /\ \A r \in D : rtl[r] = Cardinality({RootNow(j) : j \in Before(r)})
        /\ \A i \in Candidates : labels[i] = rtl[RootNow(i)]
    BY <1>3 DEF IInv, Labelled
  <1> HIDE DEF D, rtl
  <1>5. \A i, j \in Candidates : labels[i] = labels[j] <=> j \in Chained(i)
    BY <1>2, <1>4
  <1>6. ASSUME NEW i \in Candidates
        PROVE  labels[i] = Cardinality({labels[j] : j \in {k \in Candidates : \A l \in Chained(i) : k < l}})
    <2> DEFINE K == {k \in Candidates : \A l \in Chained(i) : k < l}
               R == {RootNow(j) : j \in K}
               L == {labels[j] : j \in K}
               f == [r \in R |-> rtl[r]]
    <2>1. K = Before(RootNow(i))
      <3>1. \A l \in Candidates : RootNow(l) = RootNow(i) <=> l \in Chained(i)
        BY <1>2
      <3>2. Chained(i) \subseteq Candidates
        BY DEF Chained
      <3> QED BY <3>1, <3>2 DEF Before
    <2>2. labels[i] = Cardinality(R)
      <3>1. RootNow(i) \in D
        BY <1>4
      <3> QED BY <1>4, <2>1, <3>1
    <2>3. K \subseteq Candidates /\ R \subseteq D /\ L = {rtl[RootNow(j)] : j \in K}
      BY <1>4
    <2>4. f \in Bijection(R, L)
      <3>1. f \in [R -> L] /\ \A t \in L : \E r \in R : f[r] = t
        BY <2>3
      <3>2. \A r, s \in R : f[r] = f[s] => r = s
        BY <1>4, <2>3
      <3> HIDE DEF f, R, L
      <3> QED BY <3>1, <3>2 DEF Bijection, Injection, IsInjective, Surjection
    <2>5. IsFiniteSet(R)
      <3> DEFINE g == [k \in K |-> RootNow(k)]
      <3>1. IsFiniteSet(K)
        BY <2>3, CandidatesFinite, FS_Subset
      <3>2. g \in Surjection(K, R)
        BY DEF Surjection
      <3> HIDE DEF K, R, g
      <3> QED BY <3>1, <3>2, FS_Surjection
    <2>6. Cardinality(R) = Cardinality(L)
      <3> HIDE DEF f, R, L
      <3> QED BY <2>4, <2>5, FS_Bijection DEF ExistsBijection
    <2> QED BY <2>2, <2>6
  <1> QED BY <1>5, <1>6

\* In every behaviour of unite and find, for any number of candidates, ranks
\* grow towards the root and a root of rank k holds at least 2^k candidates:
\* find always ends, and its depth is at most logarithmic.
THEOREM ForestCorrect == Spec => []ForestShallow
  BY Inductive, ForestImplied, PTL

\* For any number of candidates and any neighbourhood relation, whatever the
\* order in which the radius search returns the neighbours, the labels are the
\* classes of chained candidates in the order of their first members.
THEOREM LabelsCorrect == Spec => []LabelsExact
  BY Inductive, LabelsImplied, PTL

=============================================================================

---------------------- MODULE InspectionPipelineProofs ----------------------
(***************************************************************************)
(* Proofs about InspectionPipeline for any reference, scans, boundaries,   *)
(* registrations and bounds: the stages implement what Inspection          *)
(* promises, a PASS means that the reference is covered, and no stage is   *)
(* handed evidence it cannot use.                                          *)
(***************************************************************************)
EXTENDS InspectionPipeline, FiniteSetTheorems, FunctionTheorems, SequenceTheorems, TLAPS

-----------------------------------------------------------------------------
(***************************************************************************)
(* Finite sets                                                             *)
(***************************************************************************)
LEMMA FiniteMaximum ==
    ASSUME NEW T \in SUBSET Int, IsFiniteSet(T), T # {}
    PROVE  \E m \in T : \A x \in T : x <= m
  <1> DEFINE A(x) == {y \in T : y > x}
             C == {A(x) : x \in T}
  <1>1. C \subseteq FiniteSubsetsOf(T) /\ C # {}
    <2>1. \A x \in T : A(x) \in SUBSET T
      OBVIOUS
    <2>2. \A x \in T : IsFiniteSet(A(x))
      BY <2>1, FS_Subset
    <2> QED BY <2>1, <2>2 DEF FiniteSubsetsOf
  <1>2. PICK B \in C : \A D \in C : ~(<<D, B>> \in StrictSubsetOrdering(T))
    BY <1>1, FS_StrictSubsetOrderingWellFounded, WFMin
  <1>3. PICK m \in T : B = A(m)
    OBVIOUS
  <1>4. ASSUME NEW x \in T
        PROVE  x <= m
    <2> SUFFICES ASSUME ~(x <= m) PROVE FALSE
      OBVIOUS
    <2>0. x \in Int /\ m \in Int /\ x > m
      OBVIOUS
    <2>1. A(x) \subseteq A(m) /\ x \in A(m) /\ x \notin A(x)
      <3>1. \A y \in T : y \in Int
        OBVIOUS
      <3>2. \A y \in T : y > x => y > m
        BY <2>0, <3>1
      <3>3. ~(x > x)
        BY <2>0
      <3> QED BY <2>0, <3>2, <3>3
    <2>2. A(x) \in SUBSET T /\ A(m) \in SUBSET T /\ A(x) # A(m)
      BY <2>1
    <2>3. <<A(x), A(m)>> \in StrictSubsetOrdering(T)
      <3> HIDE DEF A
      <3> QED BY <2>1, <2>2 DEF StrictSubsetOrdering
    <2> QED BY <1>2, <1>3, <2>3
  <1> QED BY <1>4

\* An order of a finite set lists every member.
LEMMA OrderListsAll ==
    ASSUME NEW S, IsFiniteSet(S), NEW o \in Orders(S)
    PROVE  /\ Cardinality(S) \in Nat
           /\ o \in Seq(S) /\ Len(o) = Cardinality(S) /\ DOMAIN o = 1 .. Cardinality(S)
           /\ \A s \in S : \E k \in DOMAIN o : o[k] = s
  <1> DEFINE n == Cardinality(S)
  <1>1. n \in Nat
    BY FS_CardinalityType
  <1>2. o \in [1 .. n -> S] /\ \A a, b \in 1 .. n : o[a] = o[b] => a = b
    BY DEF Orders
  <1>3. o \in Injection(1 .. n, S)
    BY <1>2 DEF Injection, IsInjective
  <1>4. IsFiniteSet(1 .. n) /\ Cardinality(1 .. n) = n
    BY <1>1, FS_Interval
  <1>5. o \in Surjection(1 .. n, S)
    BY <1>3, <1>4, FS_Injection
  <1>6. \A s \in S : \E k \in 1 .. n : o[k] = s
    BY <1>5 DEF Surjection
  <1> HIDE DEF n
  <1>7. o \in Seq(S) /\ Len(o) = n /\ DOMAIN o = 1 .. n
    BY <1>1, <1>2
  <1> QED BY <1>1, <1>6, <1>7 DEF n

\* One order after another is an order of the union of disjoint sets.
LEMMA OrdersConcatenate ==
    ASSUME NEW S, NEW T, IsFiniteSet(S), IsFiniteSet(T), S \cap T = {},
           NEW a \in Orders(S), NEW b \in Orders(T)
    PROVE  a \o b \in Orders(S \union T)
  <1> DEFINE m == Cardinality(S)
             n == Cardinality(T)
             o == a \o b
  <1>1. /\ m \in Nat /\ a \in Seq(S \union T) /\ Len(a) = m /\ DOMAIN a = 1 .. m
        /\ n \in Nat /\ b \in Seq(S \union T) /\ Len(b) = n /\ DOMAIN b = 1 .. n
        /\ \A i \in 1 .. m : a[i] \in S
        /\ \A i \in 1 .. n : b[i] \in T
    BY OrderListsAll
  <1>2. Cardinality(S \union T) = m + n
    <2>1. Cardinality(S \union T) = m + n - Cardinality(S \cap T)
      BY FS_Union
    <2>2. Cardinality(S \cap T) = 0
      BY FS_EmptySet
    <2> HIDE DEF m, n
    <2> QED BY <1>1, <2>1, <2>2
  <1> HIDE DEF m, n
  <1>3. /\ o \in Seq(S \union T) /\ Len(o) = m + n /\ DOMAIN o = 1 .. m + n
        /\ \A i \in 1 .. m : o[i] = a[i]
        /\ \A i \in 1 .. n : o[m + i] = b[i]
    BY <1>1
  <1> HIDE DEF o
  <1>4. o \in [1 .. m + n -> S \union T]
    BY <1>1, <1>3
  <1>5. \A i \in 1 .. m + n : i \notin 1 .. m => i - m \in 1 .. n /\ o[i] = b[i - m]
    <2> SUFFICES ASSUME NEW i \in 1 .. m + n, i \notin 1 .. m
                 PROVE  i - m \in 1 .. n /\ o[i] = b[i - m]
      OBVIOUS
    <2>1. i - m \in 1 .. n /\ m + (i - m) = i
      BY <1>1
    <2> QED BY <1>3, <2>1
  <1>6. ASSUME NEW i \in 1 .. m + n, NEW j \in 1 .. m + n, o[i] = o[j]
        PROVE  i = j
    <2>1. /\ \A k, l \in 1 .. m : a[k] = a[l] => k = l
          /\ \A k, l \in 1 .. n : b[k] = b[l] => k = l
      BY DEF Orders, m, n
    <2>2. CASE i \in 1 .. m /\ j \in 1 .. m
      BY <1>3, <1>6, <2>1, <2>2
    <2>3. CASE i \notin 1 .. m /\ j \notin 1 .. m
      <3>1. i - m = j - m
        BY <1>5, <1>6, <2>1, <2>3
      <3> QED BY <1>1, <3>1
    <2>4. CASE i \in 1 .. m /\ j \notin 1 .. m
      BY <1>1, <1>3, <1>5, <1>6, <2>4
    <2>5. CASE i \notin 1 .. m /\ j \in 1 .. m
      BY <1>1, <1>3, <1>5, <1>6, <2>5
    <2> QED BY <2>2, <2>3, <2>4, <2>5
  <1> QED BY <1>2, <1>3, <1>4, <1>6 DEF Orders, o

-----------------------------------------------------------------------------
(***************************************************************************)
(* Surfaces and comparison fields                                          *)
(***************************************************************************)
\* What the stages rely on of a surface, prepared or not.
Shaped(s) == /\ IsFiniteSet(Storage(s))
             /\ s.logical \subseteq Storage(s)
             /\ s.x \in [Storage(s) -> Int]
             /\ s.z \in [Storage(s) -> Int]

LEMMA PreparedShape ==
    ASSUME NEW s, IsSurface(s), NEW n
    PROVE  /\ WithNormals(s, n) =
                [x |-> s.x, z |-> s.z, normal |-> n, valid |-> [i \in Storage(s) |-> s.valid[i] /\ n[i] # 0],
                 logical |-> s.logical, hasNormals |-> s.hasNormals]
           /\ Storage(WithNormals(s, n)) = Storage(s)
           /\ Shaped(WithNormals(s, n))
           /\ \A i \in Usable(WithNormals(s, n)) : n[i] # 0
  <1> DEFINE w == WithNormals(s, n)
  <1>1. w = [x |-> s.x, z |-> s.z, normal |-> n, valid |-> [i \in Storage(s) |-> s.valid[i] /\ n[i] # 0],
             logical |-> s.logical, hasNormals |-> s.hasNormals]
    <2> DEFINE R == [x |-> s.x, z |-> s.z, normal |-> s.normal, valid |-> s.valid,
                     logical |-> s.logical, hasNormals |-> s.hasNormals]
               V == [i \in Storage(s) |-> s.valid[i] /\ n[i] # 0]
    <2>1. s = R
      BY DEF IsSurface
    <2>2. w = [s EXCEPT !.normal = n, !.valid = V]
      BY DEF WithNormals
    <2> HIDE DEF V, w
    <2>3. [R EXCEPT !.normal = n, !.valid = V] =
            [x |-> s.x, z |-> s.z, normal |-> n, valid |-> V, logical |-> s.logical, hasNormals |-> s.hasNormals]
      <3>1. [R EXCEPT !.normal = n, !.valid = V] = [[R EXCEPT !.normal = n] EXCEPT !.valid = V]
        OBVIOUS
      <3> DEFINE N == [x |-> s.x, z |-> s.z, normal |-> n, valid |-> s.valid,
                       logical |-> s.logical, hasNormals |-> s.hasNormals]
      <3>2. [R EXCEPT !.normal = n] = N
        OBVIOUS
      <3>3. [N EXCEPT !.valid = V] =
              [x |-> s.x, z |-> s.z, normal |-> n, valid |-> V, logical |-> s.logical, hasNormals |-> s.hasNormals]
        OBVIOUS
      <3> HIDE DEF R, N
      <3> QED BY <3>1, <3>2, <3>3
    <2> HIDE DEF R
    <2> QED BY <2>1, <2>2, <2>3 DEF V
  <1>2. /\ w.x = s.x /\ w.z = s.z /\ w.logical = s.logical
        /\ w.valid = [i \in Storage(s) |-> s.valid[i] /\ n[i] # 0]
    BY <1>1
  <1> HIDE DEF w
  <1>3. Storage(w) = Storage(s)
    BY <1>2 DEF Storage
  <1>4. Shaped(w)
    BY <1>2, <1>3 DEF Shaped, IsSurface
  <1>5. \A i \in Usable(w) : n[i] # 0
    BY <1>2 DEF Usable, IsSurface
  <1> QED BY <1>1, <1>3, <1>4, <1>5 DEF w

LEMMA AlignedShape ==
    ASSUME NEW s, IsSurface(s), NEW n, NEW m \in Solutions
    PROVE  /\ Aligned(WithNormals(s, n), m) =
                [x |-> s.x, z |-> [i \in Storage(s) |-> s.z[i] + m.shift], normal |-> n,
                 valid |-> [i \in Storage(s) |-> s.valid[i] /\ n[i] # 0],
                 logical |-> s.logical, hasNormals |-> s.hasNormals]
           /\ Storage(Aligned(WithNormals(s, n), m)) = Storage(s)
           /\ Shaped(Aligned(WithNormals(s, n), m))
  <1> DEFINE w == WithNormals(s, n)
             a == Aligned(w, m)
  <1>1. /\ w = [x |-> s.x, z |-> s.z, normal |-> n, valid |-> [i \in Storage(s) |-> s.valid[i] /\ n[i] # 0],
                logical |-> s.logical, hasNormals |-> s.hasNormals]
        /\ Storage(w) = Storage(s)
    BY PreparedShape
  <1> HIDE DEF w
  <1>2. a = [x |-> s.x, z |-> [i \in Storage(s) |-> s.z[i] + m.shift], normal |-> n,
             valid |-> [i \in Storage(s) |-> s.valid[i] /\ n[i] # 0],
             logical |-> s.logical, hasNormals |-> s.hasNormals]
    BY <1>1 DEF Aligned
  <1>3. /\ a.x = s.x /\ a.z = [i \in Storage(s) |-> s.z[i] + m.shift] /\ a.logical = s.logical
        /\ a.valid = [i \in Storage(s) |-> s.valid[i] /\ n[i] # 0]
    BY <1>2
  <1> HIDE DEF a
  <1>4. Storage(a) = Storage(s)
    BY <1>3 DEF Storage
  <1>5. m.shift \in Int
    BY PipelineAssumption
  <1>6. a.z \in [Storage(s) -> Int]
    BY <1>3, <1>5 DEF IsSurface
  <1>7. Shaped(a)
    BY <1>3, <1>4, <1>6 DEF Shaped, IsSurface
  <1> QED BY <1>2, <1>4, <1>7 DEF a, w

LEMMA ReferenceShape ==
    /\ Storage(PreparedReference) = Storage(Reference)
    /\ PreparedReference.normal = Reference.normal
    /\ PreparedReference.z = Reference.z
    /\ PreparedReference.normal \in [Storage(PreparedReference) -> Int]
    /\ Shaped(PreparedReference)
    /\ \A i \in Usable(PreparedReference) : PreparedReference.normal[i] # 0
  <1>1. IsSurface(Reference)
    BY PipelineAssumption
  <1>2. /\ PreparedReference = [x |-> Reference.x, z |-> Reference.z, normal |-> Reference.normal,
                                valid |-> [i \in Storage(Reference) |-> Reference.valid[i] /\ Reference.normal[i] # 0],
                                logical |-> Reference.logical, hasNormals |-> Reference.hasNormals]
        /\ Storage(PreparedReference) = Storage(Reference)
        /\ Shaped(PreparedReference)
        /\ \A i \in Usable(PreparedReference) : Reference.normal[i] # 0
    BY <1>1, PreparedShape DEF PreparedReference
  <1>3. PreparedReference.normal = Reference.normal /\ PreparedReference.z = Reference.z
    BY <1>2
  <1> QED BY <1>1, <1>2, <1>3 DEF IsSurface

LEMMA UsableStored ==
    ASSUME NEW s, Shaped(s)
    PROVE  Usable(s) \subseteq Storage(s) /\ IsFiniteSet(Usable(s))
  <1>1. Usable(s) \subseteq Storage(s)
    BY DEF Usable, Shaped
  <1> QED BY <1>1, FS_Subset DEF Shaped

LEMMA DistanceSymmetric ==
    ASSUME NEW s, NEW r, Shaped(s), Shaped(r), NEW i \in Storage(s), NEW j \in Storage(r)
    PROVE  Distance2(s, i, r, j) = Distance2(r, j, s, i)
  <1>1. s.x[i] \in Int /\ s.z[i] \in Int /\ r.x[j] \in Int /\ r.z[j] \in Int
    BY DEF Shaped
  <1>2. \A a, b \in Int : Square(a - b) = Square(b - a)
    BY DEF Square
  <1> QED BY <1>1, <1>2 DEF Distance2

\* A pairing gives a slot nothing or a usable point within the distance.
LEMMA PairingMeans ==
    ASSUME NEW tree, NEW query, NEW f \in Pairings(tree, query), NEW i \in Storage(query)
    PROVE  \/ f[i] = NoNeighbor
           \/ /\ i \in Usable(query)
              /\ f[i] \in Usable(tree)
              /\ Distance2(query, i, tree, f[i]) <= MaxSearch2
  <1> DEFINE tied == {k \in Storage(query) : Cardinality(Nearest(tree, query, k)) > 1}
  <1>1. PICK c \in [tied -> Storage(tree)] :
            /\ \A k \in tied : c[k] \in Nearest(tree, query, k)
            /\ f = [k \in Storage(query) |-> IF k \in tied THEN c[k]
                                             ELSE CHOOSE j \in Nearest(tree, query, k) : TRUE]
    BY DEF Pairings
  <1> HIDE DEF tied
  <1>2. Nearest(tree, query, i) # {}
    BY DEF Nearest
  <1>3. f[i] \in Nearest(tree, query, i)
    BY <1>1, <1>2
  <1> QED BY <1>3 DEF Nearest

\* compute_deviation_field: normal_missing does not occur, and a valid sample
\* lies within the search distance of a usable reference point.
LEMMA DeviationMeans ==
    ASSUME NEW r, NEW b, NEW s, NEW f \in Pairings(r, s),
           \A j \in Usable(r) : r.normal[j] # 0,
           NEW d, d = DeviationField(r, b, s, f)
    PROVE  /\ DOMAIN d = Storage(s)
           /\ \A i \in DOMAIN d : d[i].reason # "normal_missing"
           /\ \A i \in ValidSamples(d) :
                /\ i \in Storage(s)
                /\ i \in Usable(s)
                /\ f[i] \in Usable(r)
                /\ Distance2(s, i, r, f[i]) <= MaxSearch2
                /\ d[i].signed = r.normal[f[i]] * (s.z[i] - r.z[f[i]])
  <1>1. DOMAIN d = Storage(s)
    BY DEF DeviationField
  <1>2. ASSUME NEW i \in Storage(s)
        PROVE  LET reason == DeviationReason(r, b, s, i, f[i])
               IN  /\ d[i].reason = reason
                   /\ d[i].signed = IF reason = "valid" THEN r.normal[f[i]] * (s.z[i] - r.z[f[i]]) ELSE 0
    BY DEF DeviationField
  <1>3. ASSUME NEW i \in Storage(s)
        PROVE  /\ DeviationReason(r, b, s, i, f[i]) # "normal_missing"
               /\ DeviationReason(r, b, s, i, f[i]) = "valid" =>
                    i \in Usable(s) /\ f[i] \in Usable(r) /\ Distance2(s, i, r, f[i]) <= MaxSearch2
    BY PairingMeans DEF DeviationReason
  <1>4. \A i \in ValidSamples(d) : i \in Storage(s) /\ d[i].reason = "valid"
    BY <1>1 DEF ValidSamples
  <1> QED BY <1>1, <1>2, <1>3, <1>4

\* compute_coverage_field
LEMMA CoverageMeans ==
    ASSUME NEW r, NEW s, NEW b, NEW g \in Pairings(s, r), Shaped(r),
           NEW c, c = CoverageField(r, s, b, g)
    PROVE  /\ DOMAIN c = Storage(r)
           /\ Countable(c) = Usable(r)
           /\ Missing(c) \subseteq Usable(r)
           /\ \A i \in Covered(c) : /\ i \in Usable(r)
                                    /\ g[i] \in Usable(s)
                                    /\ Distance2(r, i, s, g[i]) <= MaxSearch2
  <1>1. DOMAIN c = Storage(r)
    BY DEF CoverageField
  <1>2. \A i \in Storage(r) : c[i] = IF i \notin Usable(r) THEN "input_invalid"
                                     ELSE IF g[i] = NoNeighbor THEN "no_neighbor"
                                     ELSE IF g[i] \in b THEN "scan_boundary"
                                     ELSE "covered"
    BY DEF CoverageField
  <1>3. Usable(r) \subseteq Storage(r)
    BY UsableStored
  <1>4. Countable(c) = Usable(r)
    BY <1>1, <1>2, <1>3 DEF Countable
  <1>5. Missing(c) \subseteq Usable(r)
    BY <1>1, <1>2 DEF Missing
  <1>6. ASSUME NEW i \in Covered(c)
        PROVE  i \in Usable(r) /\ g[i] \in Usable(s) /\ Distance2(r, i, s, g[i]) <= MaxSearch2
    <2>1. i \in Storage(r) /\ c[i] = "covered"
      BY <1>1 DEF Covered
    <2>2. i \in Usable(r) /\ g[i] # NoNeighbor
      BY <1>2, <2>1
    <2> QED BY <2>1, <2>2, PairingMeans
  <1> QED BY <1>1, <1>4, <1>5, <1>6

-----------------------------------------------------------------------------
(***************************************************************************)
(* Clusters and their severity                                             *)
(***************************************************************************)
LEMMA ClustersMeans ==
    ASSUME NEW s, NEW candidates, IsFiniteSet(candidates), NEW type
    PROVE  /\ IsFiniteSet(Clusters(s, candidates, type))
           /\ \A c \in Clusters(s, candidates, type) :
                /\ c = [type |-> type, points |-> c.points]
                /\ c.type = type
                /\ c.points \subseteq candidates
                /\ c.points # {}
                /\ IsFiniteSet(c.points)
  <1> DEFINE X == {P \in {Chained(s, candidates, c) : c \in candidates} : Cardinality(P) >= MinClusterPoints}
             K == Clusters(s, candidates, type)
  <1>1. X \subseteq SUBSET candidates
    BY DEF Chained
  <1>2. IsFiniteSet(X)
    BY <1>1, FS_SUBSET, FS_Subset
  <1>3. K = {[type |-> type, points |-> C] : C \in X}
    BY DEF Clusters
  <1>4. \A C \in X : C \subseteq candidates /\ C # {} /\ IsFiniteSet(C)
    <2> SUFFICES ASSUME NEW C \in X PROVE C \subseteq candidates /\ C # {} /\ IsFiniteSet(C)
      OBVIOUS
    <2>1. C \subseteq candidates
      BY <1>1
    <2>2. IsFiniteSet(C)
      BY <2>1, FS_Subset
    <2>3. Cardinality(C) >= MinClusterPoints /\ MinClusterPoints \in Nat \ {0}
      BY DetectionAssumption
    <2>4. C # {}
      BY <2>3, FS_EmptySet
    <2> QED BY <2>1, <2>2, <2>4
  <1> HIDE DEF X, K
  <1>5. IsFiniteSet(K)
    <2> DEFINE h == [C \in X |-> [type |-> type, points |-> C]]
    <2>1. h \in Surjection(X, K)
      BY <1>3 DEF Surjection
    <2> QED BY <2>1, <1>2, FS_Surjection
  <1>6. ASSUME NEW c \in K
        PROVE  /\ c = [type |-> type, points |-> c.points]
               /\ c.type = type
               /\ c.points \in X
    BY <1>3
  <1> QED BY <1>4, <1>5, <1>6 DEF K

\* The severity that build_region derives from the maximum is the one that
\* the members give.
Grave(c, field) == \/ c.type = "missing_material"
                   \/ \E i \in c.points : AbsoluteDeviation(field[i].signed) >= RejectLimit

LEMMA SeverityMeans ==
    ASSUME NEW c, NEW field, c.points # {}, IsFiniteSet(c.points),
           c.type # "missing_material" => \A i \in c.points : field[i].signed \in Int
    PROVE  DefaultSeverity(c.type, MaxAbs(c, field)) = IF Grave(c, field) THEN "reject" ELSE "warning"
  <1> DEFINE D(i) == AbsoluteDeviation(field[i].signed)
             T == {D(i) : i \in c.points}
             m == MaxAbs(c, field)
  <1>1. CASE c.type = "missing_material"
    BY <1>1 DEF DefaultSeverity, Grave
  <1>2. CASE c.type # "missing_material"
    <2>1. \A i \in c.points : D(i) \in Int
      BY <1>2 DEF AbsoluteDeviation
    <2>2. T \in SUBSET Int /\ T # {}
      BY <2>1
    <2>3. IsFiniteSet(T)
      <3> DEFINE h == [i \in c.points |-> D(i)]
      <3> HIDE DEF D
      <3>1. h \in Surjection(c.points, T)
        BY DEF Surjection
      <3> QED BY <3>1, FS_Surjection
    <2>4. \E x \in T : \A y \in T : y <= x
      <3> HIDE DEF T
      <3> QED BY <2>2, <2>3, FiniteMaximum
    <2>5. \E x \in T : \A i \in c.points : D(i) <= x
      BY <2>4
    <2>6. m = CHOOSE x \in T : \A i \in c.points : D(i) <= x
      BY <1>2 DEF MaxAbs
    <2>7. m \in T /\ \A i \in c.points : D(i) <= m
      BY <2>5, <2>6
    <2>8. PICK k \in c.points : m = D(k)
      BY <2>7
    <2>9. RejectLimit \in Int
      BY DetectionAssumption DEF RejectLimit
    <2> HIDE DEF D, m
    <2>10. m >= RejectLimit <=> \E i \in c.points : D(i) >= RejectLimit
      BY <2>1, <2>7, <2>8, <2>9
    <2> QED BY <1>2, <2>10 DEF DefaultSeverity, Grave, D, m
  <1> QED BY <1>1, <1>2

-----------------------------------------------------------------------------
(***************************************************************************)
(* Inspection in the terms of the pipeline                                 *)
(***************************************************************************)
LEMMA SameCardinality == \A S : Promise!Cardinality(S) = Cardinality(S)
  BY DEF Promise!Cardinality, Cardinality

\* The operators that Inspection has from Detection and Comparison.
LEMMA SameFields ==
    /\ \A s : Promise!Storage(s) = Storage(s)
    /\ \A tree, query : Promise!Pairings(tree, query) = Pairings(tree, query)
    /\ \A r, b, s, f : Promise!DeviationField(r, b, s, f) = DeviationField(r, b, s, f)
    /\ \A r, s, b, g : Promise!CoverageField(r, s, b, g) = CoverageField(r, s, b, g)
    /\ \A c : Promise!CoverageBelow(c) <=> CoverageBelow(c)
    /\ \A d : Promise!ValidSamples(d) = ValidSamples(d)
  <1>1. \A s : Promise!Storage(s) = Storage(s)
    BY DEF Promise!Storage, Storage
  <1>2. \A tree, query : Promise!Pairings(tree, query) = Pairings(tree, query)
    <2> SUFFICES ASSUME NEW tree, NEW query PROVE Promise!Pairings(tree, query) = Pairings(tree, query)
      OBVIOUS
    <2>1. \A i : Promise!Nearest(tree, query, i) = Nearest(tree, query, i)
      BY DEF Promise!Nearest, Promise!Usable, Promise!Distance2, Promise!Square, Promise!NoNeighbor,
             Nearest, Usable, Distance2, Square, NoNeighbor
    <2> DEFINE tied == {i \in Storage(query) : Cardinality(Nearest(tree, query, i)) > 1}
               ptied == {i \in Promise!Storage(query) : Promise!Cardinality(Promise!Nearest(tree, query, i)) > 1}
               choices == {f \in [tied -> Storage(tree)] : \A i \in tied : f[i] \in Nearest(tree, query, i)}
               pchoices == {f \in [ptied -> Promise!Storage(tree)] :
                              \A i \in ptied : f[i] \in Promise!Nearest(tree, query, i)}
    <2>2. ptied = tied
      BY <1>1, <2>1, SameCardinality
    <2> HIDE DEF tied, ptied
    <2>3. pchoices = choices
      BY <1>1, <2>1, <2>2
    <2> HIDE DEF choices, pchoices
    <2>4. Pairings(tree, query) =
            {[i \in Storage(query) |-> IF i \in tied THEN f[i]
                                       ELSE CHOOSE j \in Nearest(tree, query, i) : TRUE] : f \in choices}
      BY DEF Pairings, choices, tied
    <2>5. Promise!Pairings(tree, query) =
            {[i \in Promise!Storage(query) |-> IF i \in ptied THEN f[i]
                                       ELSE CHOOSE j \in Promise!Nearest(tree, query, i) : TRUE] : f \in pchoices}
      BY DEF Promise!Pairings, pchoices, ptied
    <2> QED BY <1>1, <2>1, <2>2, <2>3, <2>4, <2>5
  <1>3. \A r, b, s, f : Promise!DeviationField(r, b, s, f) = DeviationField(r, b, s, f)
    BY DEF Promise!DeviationField, Promise!DeviationReason, Promise!Usable, Promise!NoNeighbor,
           Promise!Storage, DeviationField, DeviationReason, Usable, NoNeighbor, Storage
  <1>4. \A r, s, b, g : Promise!CoverageField(r, s, b, g) = CoverageField(r, s, b, g)
    BY DEF Promise!CoverageField, Promise!Usable, Promise!NoNeighbor, Promise!Storage,
           CoverageField, Usable, NoNeighbor, Storage
  <1>5. \A c : Promise!CoverageBelow(c) <=> CoverageBelow(c)
    BY SameCardinality DEF Promise!CoverageBelow, Promise!Countable, Promise!Covered, CoverageBelow, Countable, Covered
  <1>6. \A d : Promise!ValidSamples(d) = ValidSamples(d)
    BY DEF Promise!ValidSamples, ValidSamples
  <1> QED BY <1>1, <1>2, <1>3, <1>4, <1>5, <1>6

LEMMA SameDetection ==
    /\ \A d : Promise!Bumps(d) = Bumps(d) /\ Promise!Dents(d) = Dents(d)
    /\ \A c : Promise!Missing(c) = Missing(c)
    /\ \A s, p, type : Promise!Clusters(s, p, type) = Clusters(s, p, type)
    /\ \A S : Promise!Orders(S) = Orders(S)
    /\ \A c, d : Promise!MaxAbs(c, d) = MaxAbs(c, d)
    /\ \A n : Promise!AbsoluteDeviation(n) = AbsoluteDeviation(n)
    /\ Promise!RejectLimit = RejectLimit
  <1>1. \A d : Promise!Bumps(d) = Bumps(d) /\ Promise!Dents(d) = Dents(d)
    BY DEF Promise!Bumps, Promise!Dents, Promise!ValidSamples, Bumps, Dents, ValidSamples
  <1>2. \A c : Promise!Missing(c) = Missing(c)
    BY DEF Promise!Missing, Missing
  <1>3. \A s, p, type : Promise!Clusters(s, p, type) = Clusters(s, p, type)
    BY SameCardinality DEF Promise!Clusters, Promise!Chained, Promise!Distance2, Promise!Square,
           Clusters, Chained, Distance2, Square
  <1>4. \A S : Promise!Orders(S) = Orders(S)
    BY SameCardinality DEF Promise!Orders, Orders
  <1>5. \A c, d : Promise!MaxAbs(c, d) = MaxAbs(c, d)
    BY DEF Promise!MaxAbs, Promise!AbsoluteDeviation, MaxAbs, AbsoluteDeviation
  <1>6. \A n : Promise!AbsoluteDeviation(n) = AbsoluteDeviation(n)
    BY DEF Promise!AbsoluteDeviation, AbsoluteDeviation
  <1>7. Promise!RejectLimit = RejectLimit
    BY DEF Promise!RejectLimit, RejectLimit
  <1> QED BY <1>1, <1>2, <1>3, <1>4, <1>5, <1>6, <1>7

\* evaluate_gate finds the first bound that does not hold.
LEMMA GateMeans ==
    ASSUME NEW m \in Solutions
    PROVE  /\ GateFailure(m) = "none" <=> Promise!WithinGate(m)
           /\ GateFailure(m) = "none" => WithinGate(m)
           /\ GateFailure(m) # "none" => GateFailure(m) = Promise!GateNames[Promise!FirstBroken(m)]
  <1> DEFINE H == Promise!Holds(m)
             N == Promise!GateNames
             F(k) == ~H[k] /\ \A j \in 1 .. k - 1 : H[j]
  <1>1. /\ m.pairs \in Int /\ m.fitness \in Int /\ m.rmse \in Int /\ m.translation \in Int /\ m.rotation \in Int
        /\ MinValidPairs \in Int /\ MinOverlap \in Int /\ MaxRmse \in Int /\ MaxTranslation \in Int
        /\ MaxRotation \in Int
    BY PipelineAssumption
  <1>2. /\ H[1] <=> m.convergence = "converged"
        /\ H[2] <=> ~(m.pairs < MinValidPairs)
        /\ H[3] <=> ~(m.fitness < MinOverlap)
        /\ H[4] <=> ~(m.rmse > MaxRmse)
        /\ H[5] <=> ~(m.translation > MaxTranslation)
        /\ H[6] <=> ~(m.rotation > MaxRotation)
    <2>1. /\ H[1] <=> m.convergence = "converged"
          /\ H[2] <=> m.pairs >= MinValidPairs
          /\ H[3] <=> m.fitness >= MinOverlap
          /\ H[4] <=> m.rmse <= MaxRmse
          /\ H[5] <=> m.translation <= MaxTranslation
          /\ H[6] <=> m.rotation <= MaxRotation
      BY Zenon DEF Promise!Holds
    <2> HIDE DEF H
    <2>2. /\ m.pairs >= MinValidPairs <=> ~(m.pairs < MinValidPairs)
          /\ m.fitness >= MinOverlap <=> ~(m.fitness < MinOverlap)
          /\ m.rmse <= MaxRmse <=> ~(m.rmse > MaxRmse)
          /\ m.translation <= MaxTranslation <=> ~(m.translation > MaxTranslation)
          /\ m.rotation <= MaxRotation <=> ~(m.rotation > MaxRotation)
      BY <1>1
    <2> QED BY <2>1, <2>2, Zenon
  <1>3. /\ DOMAIN N = 1 .. 6
        /\ N[1] = "not_converged" /\ N[2] = "insufficient_pairs" /\ N[3] = "insufficient_overlap"
        /\ N[4] = "excessive_residual" /\ N[5] = "translation_prior" /\ N[6] = "rotation_prior"
    BY DEF Promise!GateNames
  <1>4. Promise!WithinGate(m) <=> \A k \in 1 .. 6 : H[k]
    BY <1>3 DEF Promise!WithinGate
  <1>5. Promise!FirstBroken(m) = CHOOSE k \in 1 .. 6 : F(k)
    BY <1>3 DEF Promise!FirstBroken
  <1> HIDE DEF H, N
  <1>6. ASSUME NEW k \in 1 .. 6, F(k)
        PROVE  Promise!FirstBroken(m) = k
    <2>1. \A l \in 1 .. 6 : F(l) => l = k
      <3> SUFFICES ASSUME NEW l \in 1 .. 6, F(l), l # k PROVE FALSE
        OBVIOUS
      <3>1. CASE l < k
        <4>1. l \in 1 .. k - 1
          BY <3>1
        <4> QED BY <1>6, <4>1
      <3>2. CASE k < l
        <4>1. k \in 1 .. l - 1
          BY <3>2
        <4> QED BY <1>6, <4>1
      <3> QED BY <3>1, <3>2
    <2> HIDE DEF F
    <2> QED BY <1>5, <1>6, <2>1
  <1>7. /\ F(1) <=> ~H[1]
        /\ F(2) <=> ~H[2] /\ H[1]
        /\ F(3) <=> ~H[3] /\ H[1] /\ H[2]
        /\ F(4) <=> ~H[4] /\ H[1] /\ H[2] /\ H[3]
        /\ F(5) <=> ~H[5] /\ H[1] /\ H[2] /\ H[3] /\ H[4]
        /\ F(6) <=> ~H[6] /\ H[1] /\ H[2] /\ H[3] /\ H[4] /\ H[5]
    <2>1. /\ 1 .. 1 - 1 = {} /\ 1 .. 2 - 1 = {1} /\ 1 .. 3 - 1 = {1, 2} /\ 1 .. 4 - 1 = {1, 2, 3}
          /\ 1 .. 5 - 1 = {1, 2, 3, 4} /\ 1 .. 6 - 1 = {1, 2, 3, 4, 5}
      OBVIOUS
    <2> QED BY <2>1
  <1>8. (\A k \in 1 .. 6 : H[k]) <=> H[1] /\ H[2] /\ H[3] /\ H[4] /\ H[5] /\ H[6]
    <2>1. 1 .. 6 = {1, 2, 3, 4, 5, 6}
      OBVIOUS
    <2> QED BY <2>1
  <1>9. GateFailure(m) = IF ~H[1] THEN N[1] ELSE IF ~H[2] THEN N[2] ELSE IF ~H[3] THEN N[3]
                         ELSE IF ~H[4] THEN N[4] ELSE IF ~H[5] THEN N[5] ELSE IF ~H[6] THEN N[6]
                         ELSE "none"
    BY <1>2, <1>3 DEF GateFailure
  <1>10. GateFailure(m) = "none" <=> Promise!WithinGate(m)
    BY <1>3, <1>4, <1>8, <1>9
  <1>11. GateFailure(m) = "none" => WithinGate(m)
    BY <1>1, <1>2, <1>4, <1>8, <1>10 DEF WithinGate
  <1>12. GateFailure(m) # "none" => \E k \in 1 .. 6 : F(k) /\ GateFailure(m) = N[k]
    <2> HIDE DEF F
    <2>1. {1, 2, 3, 4, 5, 6} \subseteq 1 .. 6
      OBVIOUS
    <2> QED BY <1>7, <1>9, <2>1
  <1> HIDE DEF F
  <1>13. GateFailure(m) # "none" => GateFailure(m) = N[Promise!FirstBroken(m)]
    BY <1>6, <1>12
  <1> QED BY <1>10, <1>11, <1>13 DEF N

\* The surfaces that are compared.
LEMMA SameSurfaces ==
    /\ Promise!Compared = PreparedReference
    /\ \A s \in Scans : \A n : \A m \in Solutions : Promise!Examined(s, n, m) = Aligned(WithNormals(s, n), m)
  <1>1. Promise!Compared = PreparedReference
    <2> DEFINE V == [i \in Storage(Reference) |-> Reference.valid[i] /\ Reference.normal[i] # 0]
               R == [x |-> Reference.x, z |-> Reference.z, normal |-> Reference.normal, valid |-> Reference.valid,
                     logical |-> Reference.logical, hasNormals |-> Reference.hasNormals]
    <2>1. IsSurface(Reference)
      BY PipelineAssumption
    <2>2. Promise!Compared = [Reference EXCEPT !.valid = V]
      BY SameFields DEF Promise!Compared
    <2>3. PreparedReference = [x |-> Reference.x, z |-> Reference.z, normal |-> Reference.normal, valid |-> V,
                               logical |-> Reference.logical, hasNormals |-> Reference.hasNormals]
      BY <2>1, PreparedShape DEF PreparedReference
    <2>4. Reference = R
      BY <2>1 DEF IsSurface
    <2> HIDE DEF V
    <2>5. [R EXCEPT !.valid = V] =
            [x |-> Reference.x, z |-> Reference.z, normal |-> Reference.normal, valid |-> V,
             logical |-> Reference.logical, hasNormals |-> Reference.hasNormals]
      OBVIOUS
    <2> HIDE DEF R
    <2> QED BY <2>2, <2>3, <2>4, <2>5
  <1>2. ASSUME NEW s \in Scans, NEW n, NEW m \in Solutions
        PROVE  Promise!Examined(s, n, m) = Aligned(WithNormals(s, n), m)
    <2> DEFINE V == [i \in Storage(s) |-> s.valid[i] /\ n[i] # 0]
               Z == [i \in Storage(s) |-> s.z[i] + m.shift]
               R == [x |-> s.x, z |-> s.z, normal |-> s.normal, valid |-> s.valid,
                     logical |-> s.logical, hasNormals |-> s.hasNormals]
               R1 == [x |-> s.x, z |-> Z, normal |-> s.normal, valid |-> s.valid,
                      logical |-> s.logical, hasNormals |-> s.hasNormals]
               R2 == [x |-> s.x, z |-> Z, normal |-> n, valid |-> s.valid,
                      logical |-> s.logical, hasNormals |-> s.hasNormals]
               R3 == [x |-> s.x, z |-> Z, normal |-> n, valid |-> V,
                      logical |-> s.logical, hasNormals |-> s.hasNormals]
    <2>1. IsSurface(s)
      BY PipelineAssumption
    <2>2. Promise!Examined(s, n, m) = [s EXCEPT !.z = Z, !.normal = n, !.valid = V]
      BY SameFields DEF Promise!Examined
    <2>3. Aligned(WithNormals(s, n), m) = R3
      BY <2>1, AlignedShape
    <2>4. s = R
      BY <2>1 DEF IsSurface
    <2> HIDE DEF V, Z
    <2>5. [R EXCEPT !.z = Z] = R1 /\ [R1 EXCEPT !.normal = n] = R2 /\ [R2 EXCEPT !.valid = V] = R3
      OBVIOUS
    <2>6. [R EXCEPT !.z = Z, !.normal = n, !.valid = V]
            = [[[R EXCEPT !.z = Z] EXCEPT !.normal = n] EXCEPT !.valid = V]
      OBVIOUS
    <2> HIDE DEF R, R1, R2, R3
    <2>7. [R EXCEPT !.z = Z, !.normal = n, !.valid = V] = R3
      BY <2>5, <2>6
    <2> QED BY <2>2, <2>3, <2>4, <2>7
  <1> QED BY <1>1, <1>2

-----------------------------------------------------------------------------
(***************************************************************************)
(* The inductive invariant                                                 *)
(***************************************************************************)
AllStages == {"idle", "returned", "normalize", "preprocess", "registration", "registration_gate",
              "transform", "compare", "coverage_gate", "detect", "measure"}
AfterTransform == {"compare", "coverage_gate", "detect", "measure"}
AfterCompare == {"coverage_gate", "detect", "measure"}
SettledStages == {"registration_gate", "transform"} \union AfterTransform

\* Outside a call there is no report under construction, inside none that
\* has been returned.
Control == /\ stage \in AllStages
           /\ stage # "returned" => outcome = Nothing
           /\ stage \in {"idle", "returned"} => result = EmptyResult
           /\ stage # "measure" => queue = <<>>
           /\ edges \in [reference : Boundaries, scan : Boundaries \union {{}}]
           /\ stage \notin {"idle", "returned"} =>
                request \in [scan : Scans, pose : {"absent", "matching", "mismatched"}, cached : BOOLEAN]

NormalsOf(s) == IF s.hasNormals THEN {s.normal} ELSE EstimatedNormals

\* The scan is the submitted one, then prepared, then aligned.
Evolution ==
    /\ stage \in {"normalize", "preprocess"} => scan = request.scan
    /\ stage \in {"registration", "registration_gate", "transform"} =>
         \E n \in NormalsOf(request.scan) : scan = WithNormals(request.scan, n)
    /\ stage \in AfterTransform =>
         \E n \in NormalsOf(request.scan) : scan = Aligned(WithNormals(request.scan, n), metrics)
    /\ stage \in {"registration"} \union SettledStages => edges.scan \in Boundaries
    /\ stage \in SettledStages => metrics \in Solutions
    /\ stage \in {"transform"} \union AfterTransform => GateFailure(metrics) = "none"

\* The fields are those of some way to break the ties.
FieldsOf(d, c, er, s, es) ==
    \E f \in Pairings(PreparedReference, s), g \in Pairings(s, PreparedReference) :
        /\ d = DeviationField(PreparedReference, er, s, f)
        /\ c = CoverageField(PreparedReference, s, es, g)

Fields == stage \in AfterCompare => FieldsOf(deviation, coverage, edges.reference, scan, edges.scan)

\* What the report holds before the registration and after it.
Sketch(timings, diagnostics, regions, finalPose) ==
    [verdict |-> "indeterminate", diagnostics |-> diagnostics, timings |-> timings,
     regions |-> regions, gate |-> "none", finalPose |-> finalPose]
Started(timings) == Sketch(timings, <<>>, <<>>, FALSE)
Draft(timings, diagnostics, regions) == Sketch(timings, diagnostics, regions, TRUE)
Note == IF request.pose = "absent" THEN <<"invalid_input">> ELSE <<>>
Remarks == IF CoverageBelow(coverage) THEN Append(Note, "insufficient_coverage") ELSE Note

\* The records of the first n stage clocks.
Clocked(n) == [k \in 1 .. n |-> StageOrder[k]]

Drafted ==
    /\ stage = "normalize" => result = Started(Clocked(0))
    /\ stage = "preprocess" => result = Started(Clocked(1))
    /\ stage = "registration" => result = Started(Clocked(2))
    /\ stage = "registration_gate" => result = Draft(Clocked(3), Note, <<>>)
    /\ stage = "transform" => result = Draft(Clocked(4), Note, <<>>)
    /\ stage = "compare" => result = Draft(Clocked(5), Note, <<>>)
    /\ stage = "coverage_gate" => result = Draft(Clocked(6), Note, <<>>)
    /\ stage = "detect" => result = Draft(Clocked(7), Remarks, <<>>)
    /\ stage = "measure" => result = Draft(Clocked(7), Remarks, result.regions)

\* The clusters in the order in which they are measured.
Plans(s, d, c) ==
    {b \o e \o m : b \in Orders(Clusters(s, Bumps(d), "bump")),
                   e \in Orders(Clusters(s, Dents(d), "dent")),
                   m \in Orders(Clusters(PreparedReference, Missing(c), "missing_material"))}

\* The regions are the measured clusters, the queue the others.
Measuring ==
    stage = "measure" =>
        \E o \in Plans(scan, deviation, coverage) : \E n \in 0 .. Len(o) :
            /\ result.regions = [k \in 1 .. n |-> RegionOf(o[k], k - 1)]
            /\ queue = [k \in 1 .. Len(o) - n |-> o[n + k]]

IInv == /\ Control
        /\ Evolution
        /\ Fields
        /\ Drafted
        /\ Measuring
        /\ EvidenceUsable
        /\ PassMeansCovered

-----------------------------------------------------------------------------
(***************************************************************************)
(* The clusters to measure                                                 *)
(***************************************************************************)
Found(s, d, c) == Clusters(s, Bumps(d), "bump") \union Clusters(s, Dents(d), "dent")
                    \union Clusters(PreparedReference, Missing(c), "missing_material")

\* What the measuring loop relies on of a cluster.
Measurable(cluster, s, d) ==
    /\ cluster.points # {}
    /\ IsFiniteSet(cluster.points)
    /\ cluster.points \subseteq Usable(IF cluster.type = "missing_material" THEN PreparedReference ELSE s)
    /\ cluster.type # "missing_material" => \A i \in cluster.points : d[i].signed \in Int

LEMMA FoundMeans ==
    ASSUME NEW s, Shaped(s), NEW er, NEW es, NEW d, NEW c, FieldsOf(d, c, er, s, es)
    PROVE  /\ IsFiniteSet(Clusters(s, Bumps(d), "bump"))
           /\ IsFiniteSet(Clusters(s, Dents(d), "dent"))
           /\ IsFiniteSet(Clusters(PreparedReference, Missing(c), "missing_material"))
           /\ \A k \in Clusters(s, Bumps(d), "bump") : k.type = "bump" /\ Measurable(k, s, d)
           /\ \A k \in Clusters(s, Dents(d), "dent") : k.type = "dent" /\ Measurable(k, s, d)
           /\ \A k \in Clusters(PreparedReference, Missing(c), "missing_material") :
                k.type = "missing_material" /\ Measurable(k, s, d)
  <1>1. PICK f \in Pairings(PreparedReference, s), g \in Pairings(s, PreparedReference) :
            /\ d = DeviationField(PreparedReference, er, s, f)
            /\ c = CoverageField(PreparedReference, s, es, g)
    BY DEF FieldsOf
  <1>2. \A i \in ValidSamples(d) :
            /\ i \in Storage(s) /\ i \in Usable(s)
            /\ f[i] \in Usable(PreparedReference)
            /\ d[i].signed = PreparedReference.normal[f[i]] * (s.z[i] - PreparedReference.z[f[i]])
    BY <1>1, DeviationMeans, ReferenceShape
  <1>3. \A i \in ValidSamples(d) : d[i].signed \in Int
    <2> SUFFICES ASSUME NEW i \in ValidSamples(d) PROVE d[i].signed \in Int
      OBVIOUS
    <2>1. s.z[i] \in Int
      BY <1>2 DEF Shaped
    <2>2. f[i] \in Storage(PreparedReference)
      BY <1>2, ReferenceShape, UsableStored
    <2>3. PreparedReference.z[f[i]] \in Int /\ PreparedReference.normal[f[i]] \in Int
      BY <2>2, ReferenceShape DEF Shaped
    <2> QED BY <1>2, <2>1, <2>3
  <1>4. ValidSamples(d) \subseteq Usable(s) /\ IsFiniteSet(Usable(s))
    BY <1>2, UsableStored
  <1>5. /\ Bumps(d) \subseteq ValidSamples(d) /\ Dents(d) \subseteq ValidSamples(d)
        /\ Bumps(d) \subseteq Usable(s) /\ Dents(d) \subseteq Usable(s)
    BY <1>4 DEF Bumps, Dents
  <1>6. Missing(c) \subseteq Usable(PreparedReference) /\ IsFiniteSet(Usable(PreparedReference))
    BY <1>1, CoverageMeans, ReferenceShape, UsableStored
  <1>7. IsFiniteSet(Bumps(d)) /\ IsFiniteSet(Dents(d)) /\ IsFiniteSet(Missing(c))
    BY <1>4, <1>5, <1>6, FS_Subset
  <1>8. /\ IsFiniteSet(Clusters(s, Bumps(d), "bump"))
        /\ \A k \in Clusters(s, Bumps(d), "bump") : k.type = "bump" /\ Measurable(k, s, d)
    BY <1>3, <1>5, <1>7, ClustersMeans DEF Measurable
  <1>9. /\ IsFiniteSet(Clusters(s, Dents(d), "dent"))
        /\ \A k \in Clusters(s, Dents(d), "dent") : k.type = "dent" /\ Measurable(k, s, d)
    BY <1>3, <1>5, <1>7, ClustersMeans DEF Measurable
  <1>10. /\ IsFiniteSet(Clusters(PreparedReference, Missing(c), "missing_material"))
         /\ \A k \in Clusters(PreparedReference, Missing(c), "missing_material") :
              k.type = "missing_material" /\ Measurable(k, s, d)
    BY <1>6, <1>7, ClustersMeans DEF Measurable
  <1> QED BY <1>8, <1>9, <1>10

LEMMA RankMeans ==
    Promise!Rank("bump") = 1 /\ Promise!Rank("dent") = 2 /\ Promise!Rank("missing_material") = 3
  <1> DEFINE T == Promise!Types
  <1>1. DOMAIN T = {1, 2, 3} /\ T[1] = "bump" /\ T[2] = "dent" /\ T[3] = "missing_material"
    BY DEF Promise!Types
  <1> HIDE DEF T
  <1>2. \A type : Promise!Rank(type) = CHOOSE k \in {1, 2, 3} : T[k] = type
    BY <1>1 DEF Promise!Rank, T
  <1>3. \A k \in {1, 2, 3} : (T[k] = "bump" <=> k = 1) /\ (T[k] = "dent" <=> k = 2)
                               /\ (T[k] = "missing_material" <=> k = 3)
    BY <1>1
  <1> QED BY <1>2, <1>3

\* A plan lists every cluster once, bumps before dents before missing
\* material, and each of them can be measured.
LEMMA PlanMeans ==
    ASSUME NEW s, Shaped(s), NEW er, NEW es, NEW d, NEW c, FieldsOf(d, c, er, s, es), NEW o \in Plans(s, d, c)
    PROVE  /\ IsFiniteSet(Found(s, d, c))
           /\ o \in Orders(Found(s, d, c))
           /\ o \in Seq(Found(s, d, c)) /\ Len(o) \in Nat /\ DOMAIN o = 1 .. Len(o)
           /\ \A k \in 1 .. Len(o) : Measurable(o[k], s, d)
           /\ \A j, k \in DOMAIN o : j < k => Promise!Rank(o[j].type) <= Promise!Rank(o[k].type)
           /\ \A k \in Found(s, d, c) : \E i \in DOMAIN o : o[i] = k
  <1> DEFINE B == Clusters(s, Bumps(d), "bump")
             E == Clusters(s, Dents(d), "dent")
             M == Clusters(PreparedReference, Missing(c), "missing_material")
  <1>1. PICK b \in Orders(B), e \in Orders(E), m \in Orders(M) : o = b \o e \o m
    BY DEF Plans
  <1>2. /\ IsFiniteSet(B) /\ IsFiniteSet(E) /\ IsFiniteSet(M)
        /\ \A k \in B : k.type = "bump" /\ Measurable(k, s, d)
        /\ \A k \in E : k.type = "dent" /\ Measurable(k, s, d)
        /\ \A k \in M : k.type = "missing_material" /\ Measurable(k, s, d)
    BY FoundMeans
  <1>3. Found(s, d, c) = (B \union E) \union M
    BY DEF Found
  <1> HIDE DEF B, E, M
  <1>4. B \cap E = {} /\ (B \union E) \cap M = {}
    BY <1>2
  <1>5. IsFiniteSet(B \union E) /\ IsFiniteSet((B \union E) \union M)
    BY <1>2, FS_Union
  <1>6. b \o e \in Orders(B \union E)
    BY <1>2, <1>4, OrdersConcatenate
  <1>7. o \in Orders((B \union E) \union M)
    BY <1>1, <1>2, <1>4, <1>5, <1>6, OrdersConcatenate
  <1> DEFINE F == (B \union E) \union M
  <1>8. /\ o \in Seq(F) /\ Len(o) = Cardinality(F) /\ Cardinality(F) \in Nat /\ DOMAIN o = 1 .. Cardinality(F)
        /\ \A k \in F : \E i \in DOMAIN o : o[i] = k
    BY <1>5, <1>7, OrderListsAll
  <1>9. \A k \in F : Measurable(k, s, d)
    BY <1>2
  <1>10. \A j, k \in DOMAIN o : j < k => Promise!Rank(o[j].type) <= Promise!Rank(o[k].type)
    <2>1. /\ b \in Seq(B) /\ e \in Seq(E) /\ m \in Seq(M)
          /\ Len(b) \in Nat /\ Len(e) \in Nat /\ Len(m) \in Nat
      BY <1>2, OrderListsAll
    <2>2. DOMAIN o = 1 .. Len(b) + Len(e) + Len(m)
      BY <1>1, <2>1
    <2>3. \A k \in DOMAIN o :
            /\ k <= Len(b) => o[k] \in B
            /\ k > Len(b) /\ k <= Len(b) + Len(e) => o[k] \in E
            /\ k > Len(b) + Len(e) => o[k] \in M
      BY <1>1, <2>1, <2>2
    <2>4. \A k \in DOMAIN o :
            /\ k <= Len(b) => Promise!Rank(o[k].type) = 1
            /\ k > Len(b) /\ k <= Len(b) + Len(e) => Promise!Rank(o[k].type) = 2
            /\ k > Len(b) + Len(e) => Promise!Rank(o[k].type) = 3
      BY <1>2, <2>3, RankMeans
    <2> DEFINE R(k) == Promise!Rank(o[k].type)
    <2> HIDE DEF R
    <2>5. \A k \in 1 .. Len(b) + Len(e) + Len(m) :
            /\ k <= Len(b) => R(k) = 1
            /\ k > Len(b) /\ k <= Len(b) + Len(e) => R(k) = 2
            /\ k > Len(b) + Len(e) => R(k) = 3
      BY <2>2, <2>4 DEF R
    <2>6. \A j, k \in 1 .. Len(b) + Len(e) + Len(m) : j < k => R(j) <= R(k)
      <3> SUFFICES ASSUME NEW j \in 1 .. Len(b) + Len(e) + Len(m), NEW k \in 1 .. Len(b) + Len(e) + Len(m), j < k
                   PROVE  R(j) <= R(k)
        OBVIOUS
      <3>1. R(j) \in {1, 2, 3} /\ R(k) \in {1, 2, 3}
        BY <2>1, <2>5
      <3>2. CASE j <= Len(b)
        BY <2>5, <3>1, <3>2
      <3>3. CASE j > Len(b) /\ j <= Len(b) + Len(e)
        <4>1. R(j) = 2 /\ k > Len(b)
          BY <2>1, <2>5, <3>3
        <4>2. R(k) = 2 \/ R(k) = 3
          BY <2>1, <2>5, <4>1
        <4> QED BY <4>1, <4>2
      <3>4. CASE j > Len(b) + Len(e)
        <4>1. k > Len(b) + Len(e)
          BY <2>1, <3>4
        <4> QED BY <2>5, <3>4, <4>1
      <3> QED BY <2>1, <3>2, <3>3, <3>4
    <2> QED BY <2>2, <2>6 DEF R
  <1> HIDE DEF F
  <1>11. \A k \in 1 .. Len(o) : Measurable(o[k], s, d)
    BY <1>8, <1>9
  <1> QED BY <1>3, <1>5, <1>7, <1>8, <1>10, <1>11 DEF F


-----------------------------------------------------------------------------
(***************************************************************************)
(* The report under construction                                           *)
(***************************************************************************)
LEMMA SketchSteps ==
    ASSUME NEW t, NEW g, NEW r, NEW p
    PROVE  /\ \A s : Timed(Sketch(t, g, r, p), s) = Sketch(Append(t, s), g, r, p)
           /\ \A s : Diagnosed(Sketch(t, g, r, p), s) = Sketch(t, Append(g, s), r, p)
           /\ \A x : [Sketch(t, g, r, p) EXCEPT !.regions = Append(@, x)] = Sketch(t, g, Append(r, x), p)
           /\ \A x : [Sketch(t, g, r, p) EXCEPT !.finalPose = x] = Sketch(t, g, r, x)
           /\ Sketch(t, g, r, p).regions = r
  <1> DEFINE d == Sketch(t, g, r, p)
  <1>1. d.timings = t /\ d.diagnostics = g /\ d.regions = r
    BY DEF Sketch
  <1>2. ASSUME NEW y
        PROVE  /\ [d EXCEPT !.timings = y] = Sketch(y, g, r, p)
               /\ [d EXCEPT !.diagnostics = y] = Sketch(t, y, r, p)
               /\ [d EXCEPT !.regions = y] = Sketch(t, g, y, p)
               /\ [d EXCEPT !.finalPose = y] = Sketch(t, g, r, y)
    BY DEF Sketch
  <1> HIDE DEF d
  <1>3. \A s : Timed(d, s) = [d EXCEPT !.timings = Append(t, s)]
    BY <1>1 DEF Timed
  <1>4. \A s : Diagnosed(d, s) = [d EXCEPT !.diagnostics = Append(g, s)]
    BY <1>1 DEF Diagnosed
  <1>5. \A x : [d EXCEPT !.regions = Append(@, x)] = [d EXCEPT !.regions = Append(r, x)]
    BY <1>1
  <1> QED BY <1>1, <1>2, <1>3, <1>4, <1>5 DEF d

LEMMA StartedSteps ==
    ASSUME NEW t
    PROVE  /\ \A s : Timed(Started(t), s) = Started(Append(t, s))
           /\ [Timed(Started(t), "registration") EXCEPT !.finalPose = TRUE]
                = Draft(Append(t, "registration"), <<>>, <<>>)
           /\ [Timed(Diagnosed(Started(t), "invalid_input"), "registration") EXCEPT !.finalPose = TRUE]
                = Draft(Append(t, "registration"), <<"invalid_input">>, <<>>)
  <1> DEFINE no == FALSE
             yes == TRUE
  <1>1. \A x : Started(x) = Sketch(x, <<>>, <<>>, no)
    BY DEF Started
  <1>2. \A x, g : Draft(x, g, <<>>) = Sketch(x, g, <<>>, yes)
    BY DEF Draft
  <1>3. Append(<<>>, "invalid_input") = <<"invalid_input">>
    OBVIOUS
  <1> SUFFICES /\ \A s : Timed(Started(t), s) = Started(Append(t, s))
               /\ [Timed(Started(t), "registration") EXCEPT !.finalPose = yes]
                    = Draft(Append(t, "registration"), <<>>, <<>>)
               /\ [Timed(Diagnosed(Started(t), "invalid_input"), "registration") EXCEPT !.finalPose = yes]
                    = Draft(Append(t, "registration"), <<"invalid_input">>, <<>>)
    OBVIOUS
  <1> HIDE DEF no, yes
  <1>4. \A s : Timed(Started(t), s) = Started(Append(t, s))
    BY <1>1, SketchSteps
  <1>5. [Started(Append(t, "registration")) EXCEPT !.finalPose = yes] = Draft(Append(t, "registration"), <<>>, <<>>)
    BY <1>1, <1>2, SketchSteps
  <1>6. Diagnosed(Started(t), "invalid_input") = Sketch(t, <<"invalid_input">>, <<>>, no)
    <2>1. Diagnosed(Sketch(t, <<>>, <<>>, no), "invalid_input")
            = Sketch(t, Append(<<>>, "invalid_input"), <<>>, no)
      <3> DEFINE e == <<>>
      <3> HIDE DEF e
      <3>1. Diagnosed(Sketch(t, e, e, no), "invalid_input") = Sketch(t, Append(e, "invalid_input"), e, no)
        BY SketchSteps
      <3> QED BY <3>1 DEF e
    <2> QED BY <1>1, <1>3, <2>1
  <1>7. Timed(Sketch(t, <<"invalid_input">>, <<>>, no), "registration")
          = Sketch(Append(t, "registration"), <<"invalid_input">>, <<>>, no)
    BY SketchSteps
  <1>8. [Sketch(Append(t, "registration"), <<"invalid_input">>, <<>>, no) EXCEPT !.finalPose = yes]
          = Draft(Append(t, "registration"), <<"invalid_input">>, <<>>)
    BY <1>2, SketchSteps
  <1> QED BY <1>4, <1>5, <1>6, <1>7, <1>8

LEMMA DraftSteps ==
    ASSUME NEW t, NEW g, NEW r
    PROVE  /\ \A s : Timed(Draft(t, g, r), s) = Draft(Append(t, s), g, r)
           /\ \A s : Diagnosed(Draft(t, g, r), s) = Draft(t, Append(g, s), r)
           /\ \A x : [Draft(t, g, r) EXCEPT !.regions = Append(@, x)] = Draft(t, g, Append(r, x))
           /\ Draft(t, g, r).regions = r
  <1> DEFINE yes == TRUE
  <1>1. \A x, y, z : Draft(x, y, z) = Sketch(x, y, z, yes)
    BY DEF Draft
  <1> HIDE DEF yes
  <1> QED BY <1>1, SketchSteps

\* The report that is returned, by P10 or by P05.
Decided(r, v) == [r EXCEPT !.verdict = v]
Rejected(r, v, w) == [r EXCEPT !.verdict = v, !.gate = w]
Final(t, g, r, v, w) == [verdict |-> v, diagnostics |-> g, timings |-> t, regions |-> r, gate |-> w,
                         finalPose |-> TRUE]

LEMMA DraftEnds ==
    ASSUME NEW t, NEW g, NEW r, NEW v, NEW w
    PROVE  /\ Decided(Draft(t, g, r), v) = Final(t, g, r, v, "none")
           /\ Rejected(Draft(t, g, r), v, w) = Final(t, g, r, v, w)
  <1> DEFINE yes == TRUE
             d == Draft(t, g, r)
             e == [verdict |-> v, diagnostics |-> g, timings |-> t, regions |-> r, gate |-> "none", finalPose |-> yes]
             f == [verdict |-> v, diagnostics |-> g, timings |-> t, regions |-> r, gate |-> w, finalPose |-> yes]
  <1>1. d = Sketch(t, g, r, yes) /\ Final(t, g, r, v, "none") = e /\ Final(t, g, r, v, w) = f
    BY DEF Draft, Final
  <1> HIDE DEF yes, d
  <1>2. [d EXCEPT !.verdict = v] = e
    BY <1>1 DEF Sketch
  <1>3. [e EXCEPT !.gate = w] = f /\ f.verdict = v
    OBVIOUS
  <1>4. [d EXCEPT !.verdict = v, !.gate = w] = [[d EXCEPT !.verdict = v] EXCEPT !.gate = w]
    BY <1>1 DEF Sketch
  <1> HIDE DEF e, f
  <1> QED BY <1>1, <1>2, <1>3, <1>4 DEF d, Decided, Rejected

\* A loop that takes the first element of what is left of o.
LEMMA LoopQueue ==
    ASSUME NEW S, NEW o \in Seq(S), NEW n \in 0 .. Len(o)
    PROVE  LET q == [k \in 1 .. Len(o) - n |-> o[n + k]]
           IN  /\ q = <<>> => n = Len(o)
               /\ q # <<>> => /\ n + 1 \in 0 .. Len(o)
                              /\ Head(q) = o[n + 1]
                              /\ Tail(q) = [k \in 1 .. Len(o) - (n + 1) |-> o[(n + 1) + k]]
  <1> DEFINE q == [k \in 1 .. Len(o) - n |-> o[n + k]]
  <1>1. Len(o) \in Nat /\ n \in Nat /\ n <= Len(o) /\ Len(o) - n \in Nat
    OBVIOUS
  <1>2. q \in Seq(S) /\ Len(q) = Len(o) - n /\ \A k \in 1 .. Len(o) - n : q[k] = o[n + k]
    BY <1>1
  <1> HIDE DEF q
  <1>3. q = <<>> => n = Len(o)
    BY <1>1, <1>2, EmptySeq
  <1>4. ASSUME q # <<>>
        PROVE  /\ n + 1 \in 0 .. Len(o)
               /\ Head(q) = o[n + 1]
               /\ Tail(q) = [k \in 1 .. Len(o) - (n + 1) |-> o[(n + 1) + k]]
    <2>1. Len(q) \in Nat \ {0}
      BY <1>2, <1>4, EmptySeq
    <2>2. n + 1 \in 0 .. Len(o) /\ 1 \in 1 .. Len(o) - n
      BY <1>1, <1>2, <2>1
    <2>3. Head(q) = o[n + 1]
      BY <1>2, <1>4, <2>2
    <2>4. Tail(q) \in Seq(S) /\ Len(Tail(q)) = Len(o) - (n + 1)
      BY <1>1, <1>2, <1>4, HeadTailProperties
    <2>5. \A k \in 1 .. Len(o) - (n + 1) : Tail(q)[k] = o[(n + 1) + k]
      <3> SUFFICES ASSUME NEW k \in 1 .. Len(o) - (n + 1) PROVE Tail(q)[k] = o[(n + 1) + k]
        OBVIOUS
      <3>1. k + 1 \in 1 .. Len(o) - n /\ n + (k + 1) = (n + 1) + k
        BY <1>1
      <3>2. Tail(q)[k] = q[k + 1]
        BY <1>1, <1>2, <1>4, <2>4, HeadTailProperties
      <3> QED BY <1>2, <3>1, <3>2
    <2>6. Tail(q) \in [1 .. Len(o) - (n + 1) -> S]
      BY <2>4, LenProperties
    <2>7. Tail(q) = [k \in 1 .. Len(o) - (n + 1) |-> o[(n + 1) + k]]
      BY <2>5, <2>6
    <2> QED BY <2>2, <2>3, <2>7
  <1> QED BY <1>3, <1>4 DEF q

LEMMA LoopRegions ==
    ASSUME NEW S, NEW f \in Seq(S), NEW n \in 0 .. Len(f), n + 1 \in 0 .. Len(f)
    PROVE  LET r == [k \in 1 .. n |-> f[k]]
           IN  Len(r) = n /\ Append(r, f[n + 1]) = [k \in 1 .. n + 1 |-> f[k]]
  <1> DEFINE r == [k \in 1 .. n |-> f[k]]
             a == Append(r, f[n + 1])
             t == [k \in 1 .. n + 1 |-> f[k]]
  <1>1. n \in Nat /\ n + 1 <= Len(f) /\ Len(f) \in Nat
    OBVIOUS
  <1>2. r \in Seq(S) /\ Len(r) = n /\ \A k \in 1 .. n : r[k] = f[k]
    BY <1>1
  <1>3. t \in Seq(S) /\ Len(t) = n + 1 /\ \A k \in 1 .. n + 1 : t[k] = f[k]
    BY <1>1
  <1>4. f[n + 1] \in S
    BY <1>1
  <1> HIDE DEF r, t
  <1>5. a \in Seq(S) /\ Len(a) = n + 1 /\ a[n + 1] = f[n + 1] /\ \A k \in 1 .. n : a[k] = f[k]
    BY <1>1, <1>2, <1>4
  <1> HIDE DEF a
  <1>6. \A k \in 1 .. n + 1 : a[k] = t[k]
    <2>1. \A k \in 1 .. n + 1 : k \in 1 .. n \/ k = n + 1
      BY <1>1
    <2> QED BY <1>3, <1>5, <2>1
  <1>7. a = t
    BY <1>3, <1>5, <1>6
  <1> QED BY <1>2, <1>7 DEF a, r, t
LEMMA ClockSteps ==
    /\ Clocked(0) = <<>>
    /\ Append(Clocked(0), "normalize") = Clocked(1)
    /\ Append(Clocked(1), "preprocess") = Clocked(2)
    /\ Append(Clocked(2), "registration") = Clocked(3)
    /\ Append(Clocked(3), "registration_gate") = Clocked(4)
    /\ Append(Clocked(4), "transform") = Clocked(5)
    /\ Append(Clocked(5), "compare") = Clocked(6)
    /\ Append(Clocked(6), "coverage_gate") = Clocked(7)
    /\ Append(Clocked(7), "detect") = Clocked(8)
    /\ Clocked(8) = StageOrder
    /\ Clocked(3) = <<"normalize", "preprocess", "registration">>
  <1> DEFINE S == {"normalize", "preprocess", "registration", "registration_gate", "transform", "compare",
                   "coverage_gate", "detect"}
  <1>1. StageOrder \in Seq(S) /\ Len(StageOrder) = 8
    BY DEF StageOrder
  <1>2. /\ StageOrder[1] = "normalize" /\ StageOrder[2] = "preprocess" /\ StageOrder[3] = "registration"
        /\ StageOrder[4] = "registration_gate" /\ StageOrder[5] = "transform" /\ StageOrder[6] = "compare"
        /\ StageOrder[7] = "coverage_gate" /\ StageOrder[8] = "detect"
    BY DEF StageOrder
  <1> HIDE DEF S
  <1>3. \A n \in 0 .. 7 : Append(Clocked(n), StageOrder[n + 1]) = Clocked(n + 1)
    <2> SUFFICES ASSUME NEW n \in 0 .. 7 PROVE Append(Clocked(n), StageOrder[n + 1]) = Clocked(n + 1)
      OBVIOUS
    <2>1. n \in 0 .. Len(StageOrder) /\ n + 1 \in 0 .. Len(StageOrder)
      BY <1>1
    <2> QED BY <1>1, <2>1, LoopRegions DEF Clocked
  <1>4. /\ Append(Clocked(0), StageOrder[1]) = Clocked(1) /\ Append(Clocked(1), StageOrder[2]) = Clocked(2)
        /\ Append(Clocked(2), StageOrder[3]) = Clocked(3) /\ Append(Clocked(3), StageOrder[4]) = Clocked(4)
        /\ Append(Clocked(4), StageOrder[5]) = Clocked(5) /\ Append(Clocked(5), StageOrder[6]) = Clocked(6)
        /\ Append(Clocked(6), StageOrder[7]) = Clocked(7) /\ Append(Clocked(7), StageOrder[8]) = Clocked(8)
    <2>1. /\ 0 \in 0 .. 7 /\ 1 \in 0 .. 7 /\ 2 \in 0 .. 7 /\ 3 \in 0 .. 7
          /\ 4 \in 0 .. 7 /\ 5 \in 0 .. 7 /\ 6 \in 0 .. 7 /\ 7 \in 0 .. 7
          /\ 0 + 1 = 1 /\ 1 + 1 = 2 /\ 2 + 1 = 3 /\ 3 + 1 = 4
          /\ 4 + 1 = 5 /\ 5 + 1 = 6 /\ 6 + 1 = 7 /\ 7 + 1 = 8
      OBVIOUS
    <2>2. /\ Append(Clocked(0), StageOrder[0 + 1]) = Clocked(0 + 1)
          /\ Append(Clocked(1), StageOrder[1 + 1]) = Clocked(1 + 1)
          /\ Append(Clocked(2), StageOrder[2 + 1]) = Clocked(2 + 1)
          /\ Append(Clocked(3), StageOrder[3 + 1]) = Clocked(3 + 1)
          /\ Append(Clocked(4), StageOrder[4 + 1]) = Clocked(4 + 1)
          /\ Append(Clocked(5), StageOrder[5 + 1]) = Clocked(5 + 1)
          /\ Append(Clocked(6), StageOrder[6 + 1]) = Clocked(6 + 1)
          /\ Append(Clocked(7), StageOrder[7 + 1]) = Clocked(7 + 1)
      BY <1>3, <2>1, Zenon
    <2> QED BY <2>1, <2>2
  <1>5. Clocked(0) = <<>>
    BY DEF Clocked
  <1>6. Clocked(8) = StageOrder
    <2>1. StageOrder = [k \in 1 .. 8 |-> StageOrder[k]]
      BY <1>1
    <2> QED BY <2>1 DEF Clocked
  <1>7. Clocked(3) = <<"normalize", "preprocess", "registration">>
    <2> DEFINE t == <<"normalize", "preprocess", "registration">>
    <2>1. /\ t \in Seq(S) /\ Len(t) = 3
          /\ t[1] = "normalize" /\ t[2] = "preprocess" /\ t[3] = "registration"
      BY DEF S
    <2> HIDE DEF t
    <2>2. 1 .. 3 = {1, 2, 3}
      OBVIOUS
    <2>3. t = [k \in 1 .. 3 |-> t[k]]
      BY <2>1
    <2>4. \A k \in 1 .. 3 : t[k] = StageOrder[k]
      BY <1>2, <2>1, <2>2
    <2> QED BY <2>3, <2>4 DEF Clocked, t
  <1> QED BY <1>2, <1>4, <1>5, <1>6, <1>7


-----------------------------------------------------------------------------
(***************************************************************************)
(* What a PASS means                                                       *)
(***************************************************************************)
LEMMA PassCovers ==
    ASSUME NEW s, Shaped(s), NEW er, NEW es, NEW d, NEW c, FieldsOf(d, c, er, s, es),
           ~CoverageBelow(c), ValidSamples(d) # {}
    PROVE  LET near == {r \in Usable(PreparedReference) :
                          \E i \in Usable(s) : Distance2(s, i, PreparedReference, r) <= MaxSearch2}
           IN  /\ 100 * Cardinality(near) >= MinCoverage * Cardinality(Usable(PreparedReference))
               /\ near # {}
  <1> DEFINE U == Usable(PreparedReference)
             near == {r \in U : \E i \in Usable(s) : Distance2(s, i, PreparedReference, r) <= MaxSearch2}
  <1>1. PICK f \in Pairings(PreparedReference, s), g \in Pairings(s, PreparedReference) :
            /\ d = DeviationField(PreparedReference, er, s, f)
            /\ c = CoverageField(PreparedReference, s, es, g)
    BY DEF FieldsOf
  <1>2. U \subseteq Storage(PreparedReference) /\ IsFiniteSet(U) /\ Usable(s) \subseteq Storage(s)
    BY ReferenceShape, UsableStored
  <1>3. near # {}
    <2>1. PICK i \in ValidSamples(d) : TRUE
      OBVIOUS
    <2>2. i \in Usable(s) /\ f[i] \in U /\ Distance2(s, i, PreparedReference, f[i]) <= MaxSearch2
      BY <1>1, DeviationMeans, ReferenceShape
    <2> QED BY <2>2
  <1>4. Countable(c) = U /\ Covered(c) \subseteq near
    <2>1. /\ Countable(c) = U
          /\ \A i \in Covered(c) : /\ i \in U
                                   /\ g[i] \in Usable(s)
                                   /\ Distance2(PreparedReference, i, s, g[i]) <= MaxSearch2
      BY <1>1, CoverageMeans, ReferenceShape
    <2>2. \A i \in Covered(c) : Distance2(s, g[i], PreparedReference, i) <= MaxSearch2
      BY <1>2, <2>1, DistanceSymmetric, ReferenceShape
    <2> QED BY <2>1, <2>2
  <1>5. near \subseteq U
    OBVIOUS
  <1> HIDE DEF near, U
  <1>6. IsFiniteSet(near)
    BY <1>2, <1>5, FS_Subset
  <1>7. IsFiniteSet(Covered(c)) /\ Cardinality(Covered(c)) <= Cardinality(near)
    BY <1>4, <1>6, FS_Subset
  <1>8. /\ Cardinality(Covered(c)) \in Nat /\ Cardinality(near) \in Nat /\ Cardinality(U) \in Nat
        /\ MinCoverage \in Nat
    BY <1>2, <1>6, <1>7, FS_CardinalityType, ComparisonAssumption
  <1>9. CASE U = {}
    <2>1. Cardinality(U) = 0
      BY <1>9, FS_EmptySet
    <2>2. 100 * Cardinality(near) >= MinCoverage * Cardinality(U)
      BY <1>8, <2>1
    <2> QED BY <1>3, <2>2 DEF near, U
  <1>10. CASE U # {}
    <2> DEFINE p == MinCoverage * Cardinality(U)
    <2>1. ~(100 * Cardinality(Covered(c)) < p)
      BY <1>4, <1>10 DEF CoverageBelow
    <2>2. p \in Nat
      BY <1>8
    <2> HIDE DEF p
    <2>3. 100 * Cardinality(near) >= p
      BY <1>7, <1>8, <2>1, <2>2
    <2> QED BY <1>3, <2>3 DEF near, U, p
  <1> QED BY <1>9, <1>10

-----------------------------------------------------------------------------
(***************************************************************************)
(* Every step keeps the invariant                                          *)
(***************************************************************************)
LEMMA InitInductive == Init => IInv
  <1> SUFFICES ASSUME Init PROVE IInv
    OBVIOUS
  <1>1. stage = "idle" /\ outcome = Nothing /\ result = EmptyResult /\ queue = <<>> /\ deviation = <<>>
    BY DEF Init
  <1>2. Control
    BY DEF Init, Control, AllStages
  <1>3. Evolution /\ Fields /\ Drafted /\ Measuring
    BY <1>1 DEF Evolution, Fields, Drafted, Measuring, AfterTransform, AfterCompare, SettledStages
  <1>4. EvidenceUsable
    BY <1>1 DEF EvidenceUsable
  <1>5. PassMeansCovered
    BY <1>1 DEF PassMeansCovered, Reported, Nothing
  <1> QED BY <1>2, <1>3, <1>4, <1>5 DEF IInv

\* Leaving the stages: nothing is under construction any more.
LEMMA ReturnInductive ==
    ASSUME IInv, stage' \in {"idle", "returned"}, result' = EmptyResult, queue' = <<>>,
           stage' = "idle" => outcome' = Nothing,
           edges' = edges \/ edges' = [edges EXCEPT !.scan = {}],
           deviation' = deviation \/ deviation' = <<>>, PassMeansCovered'
    PROVE  IInv'
  <1>1. Control'
    BY DEF IInv, Control, AllStages
  <1>2. Evolution' /\ Fields' /\ Drafted' /\ Measuring'
    BY DEF Evolution, Fields, Drafted, Measuring, AfterTransform, AfterCompare, SettledStages
  <1>3. EvidenceUsable'
    BY DEF IInv, EvidenceUsable
  <1> QED BY <1>1, <1>2, <1>3 DEF IInv

\* An outcome that is not a PASS says nothing about the surfaces.
LEMMA NoPassInductive ==
    ASSUME outcome' = Nothing \/ outcome' = Failure
    PROVE  PassMeansCovered'
  BY DEF PassMeansCovered, Reported, Nothing, Failure

LEMMA FailsInductive ==
    ASSUME IInv, Fails
    PROVE  IInv'
  BY ReturnInductive, NoPassInductive DEF Fails, Return

LEMMA CallerInductive ==
    ASSUME IInv, CreateContext \/ MoveContext \/ Deliver
    PROVE  IInv'
  <1>1. CASE CreateContext
    <2>1. stage' \in {"idle", "returned"} /\ (stage' = "idle" => outcome' = Nothing)
      BY <1>1 DEF CreateContext, IInv, Control
    <2>2. outcome' = Nothing \/ outcome' = Failure
      BY <1>1 DEF CreateContext, IInv, Control
    <2> QED BY <1>1, <2>1, <2>2, ReturnInductive, NoPassInductive DEF CreateContext, IInv, Control
  <1>2. CASE MoveContext
    <2>1. stage' = "idle" /\ outcome' = Nothing
      BY <1>2 DEF MoveContext, IInv, Control
    <2> QED BY <1>2, <2>1, ReturnInductive, NoPassInductive DEF MoveContext, IInv, Control
  <1>3. CASE Deliver
    BY <1>3, ReturnInductive, NoPassInductive DEF Deliver, IInv, Control
  <1> QED BY <1>1, <1>2, <1>3

LEMMA BeginInductive ==
    ASSUME IInv, NEW s \in Scans, NEW p \in {"absent", "matching", "mismatched"}, NEW c \in BOOLEAN,
           Begin(s, p, c)
    PROVE  IInv'
  <1>1. /\ stage = "idle" /\ outcome = Nothing /\ result' = EmptyResult /\ queue' = <<>>
        /\ edges' = edges /\ deviation' = deviation
    BY DEF Begin, IInv, Control
  <1>2. CASE stage' = "returned" /\ outcome' = Failure
    BY <1>1, <1>2, ReturnInductive, NoPassInductive
  <1>3. CASE stage' = "normalize" /\ outcome' = outcome
    <2>1. request' = [scan |-> s, pose |-> p, cached |-> c] /\ scan' = s
      BY DEF Begin
    <2>2. Control'
      BY <1>1, <1>3, <2>1 DEF IInv, Control, AllStages
    <2>3. Evolution' /\ Fields' /\ Measuring'
      BY <1>3, <2>1 DEF Evolution, Fields, Measuring, AfterTransform, AfterCompare, SettledStages
    <2>4. Drafted'
      BY <1>1, <1>3, ClockSteps DEF Drafted, EmptyResult, Started, Sketch
    <2>5. EvidenceUsable'
      BY <1>1 DEF IInv, EvidenceUsable
    <2>6. PassMeansCovered'
      BY <1>1, <1>3, NoPassInductive
    <2> QED BY <2>2, <2>3, <2>4, <2>5, <2>6 DEF IInv
  <1> QED BY <1>2, <1>3 DEF Begin

\* A step from one stage to the next, before the measuring begins.
LEMMA StageInductive ==
    ASSUME IInv, stage \in AllStages \ {"idle", "returned", "measure"},
           stage' \in AllStages \ {"idle", "returned", "measure"},
           request' = request, queue' = queue, outcome' = outcome,
           edges' = edges \/ \E e \in Boundaries : edges' = [edges EXCEPT !.scan = e],
           \A i \in DOMAIN deviation' : (deviation')[i].reason # "normal_missing",
           Evolution', Fields', Drafted'
    PROVE  IInv'
  <1>1. queue = <<>> /\ outcome = Nothing
    BY DEF IInv, Control
  <1>2. Control'
    BY <1>1 DEF IInv, Control
  <1>3. Measuring'
    BY DEF Measuring
  <1>4. EvidenceUsable'
    BY <1>1 DEF EvidenceUsable
  <1>5. PassMeansCovered'
    BY <1>1, NoPassInductive
  <1> QED BY <1>2, <1>3, <1>4, <1>5 DEF IInv

LEMMA NormalizeInductive ==
    ASSUME IInv, Normalize
    PROVE  IInv'
  <1>1. CASE Fails
    BY <1>1, FailsInductive
  <1>2. CASE ~Fails
    <2>1. /\ stage = "normalize" /\ stage' = "preprocess" /\ result' = Timed(result, "normalize")
          /\ UNCHANGED <<context, request, scan, edges, metrics, deviation, coverage, queue, outcome>>
      BY <1>2 DEF Normalize
    <2>2. Evolution' /\ Fields'
      BY <2>1 DEF IInv, Evolution, Fields, AfterTransform, AfterCompare, SettledStages
    <2>3. Drafted'
      <3>1. result = Started(Clocked(0))
        BY <2>1 DEF IInv, Drafted
      <3>2. Timed(result, "normalize") = Started(Append(Clocked(0), "normalize"))
        BY <3>1, StartedSteps, Zenon
      <3>3. result' = Started(Clocked(1))
        BY <2>1, <3>2, ClockSteps
      <3> QED BY <2>1, <3>3 DEF Drafted
    <2> QED BY <2>1, <2>2, <2>3, StageInductive DEF AllStages, IInv, EvidenceUsable
  <1> QED BY <1>1, <1>2

LEMMA PreprocessInductive ==
    ASSUME IInv, Preprocess
    PROVE  IInv'
  <1>1. CASE Fails
    BY <1>1, FailsInductive
  <1>2. CASE ~Fails
    <2>1. /\ stage = "preprocess" /\ stage' = "registration" /\ result' = Timed(result, "preprocess")
          /\ UNCHANGED <<context, request, metrics, deviation, coverage, queue, outcome>>
          /\ \E n \in NormalsOf(scan) : scan' = WithNormals(scan, n)
          /\ \E e \in Boundaries : edges' = [edges EXCEPT !.scan = e]
      BY <1>2 DEF Preprocess, NormalsOf
    <2>2. Evolution'
      <3>1. scan = request.scan
        BY <2>1 DEF IInv, Evolution
      <3>2. edges'.scan \in Boundaries
        BY <2>1 DEF IInv, Control
      <3> QED BY <2>1, <3>1, <3>2 DEF Evolution, AfterTransform, SettledStages
    <2>3. Fields'
      BY <2>1 DEF Fields, AfterCompare
    <2>4. Drafted'
      <3>1. result = Started(Clocked(1))
        BY <2>1 DEF IInv, Drafted
      <3>2. Timed(result, "preprocess") = Started(Append(Clocked(1), "preprocess"))
        BY <3>1, StartedSteps, Zenon
      <3>3. result' = Started(Clocked(2))
        BY <2>1, <3>2, ClockSteps
      <3> QED BY <2>1, <3>3 DEF Drafted
    <2> QED BY <2>1, <2>2, <2>3, <2>4, StageInductive DEF AllStages, IInv, EvidenceUsable
  <1> QED BY <1>1, <1>2

LEMMA RegistrationInductive ==
    ASSUME IInv, Registration
    PROVE  IInv'
  <1>1. CASE Fails
    BY <1>1, FailsInductive
  <1>2. CASE ~Fails
    <2>1. /\ stage = "registration" /\ stage' = "registration_gate"
          /\ metrics' \in Solutions
          /\ result' = [Timed(IF request.pose = "absent" THEN Diagnosed(result, "invalid_input") ELSE result,
                              "registration") EXCEPT !.finalPose = TRUE]
          /\ UNCHANGED <<context, request, scan, edges, deviation, coverage, queue, outcome>>
      BY <1>2 DEF Registration
    <2>2. Evolution' /\ Fields'
      BY <2>1 DEF IInv, Evolution, Fields, AfterTransform, AfterCompare, SettledStages
    <2>3. Drafted'
      <3>1. result = Started(Clocked(2))
        BY <2>1 DEF IInv, Drafted
      <3>2. result' = Draft(Clocked(3), Note, <<>>)
        BY <2>1, <3>1, StartedSteps, ClockSteps DEF Note
      <3> QED BY <2>1, <3>2 DEF Drafted, Note
    <2> QED BY <2>1, <2>2, <2>3, StageInductive DEF AllStages, IInv, EvidenceUsable
  <1> QED BY <1>1, <1>2

LEMMA GateInductive ==
    ASSUME IInv, Gate
    PROVE  IInv'
  <1>1. CASE Fails
    BY <1>1, FailsInductive
  <1>2. CASE ~Fails /\ GateFailure(metrics) # "none"
    <2>1. /\ stage = "registration_gate"
          /\ Return(Report([Diagnosed(result, "registration_failed")
                              EXCEPT !.verdict = "indeterminate", !.gate = GateFailure(metrics)]))
          /\ UNCHANGED <<context, request, scan, edges, metrics, deviation, coverage>>
      BY <1>2 DEF Gate
    <2>2. result = Draft(Clocked(3), Note, <<>>)
      BY <2>1 DEF IInv, Drafted
    <2>3. outcome'.report.verdict = "indeterminate"
      <3> DEFINE d == Draft(Clocked(3), Append(Note, "registration_failed"), <<>>)
                 e == [d EXCEPT !.verdict = "indeterminate", !.gate = GateFailure(metrics)]
      <3>1. Diagnosed(result, "registration_failed") = d
        BY <2>2, DraftSteps
      <3>2. e.verdict = "indeterminate"
        <4> DEFINE x == GateFailure(metrics)
                   y == Append(Note, "registration_failed")
                   z == <<>>
                   v == "indeterminate"
        <4> HIDE DEF x, y, z, v
        <4>1. Rejected(Draft(Clocked(3), y, z), v, x) = Final(Clocked(3), y, z, v, x)
          BY DraftEnds
        <4>2. Final(Clocked(3), y, z, v, x).verdict = v
          BY DEF Final
        <4> QED BY <4>1, <4>2 DEF x, y, z, v, Rejected
      <3> HIDE DEF d
      <3>3. outcome' = Report(e)
        BY <2>1, <3>1 DEF Return
      <3> HIDE DEF e
      <3> QED BY <3>2, <3>3 DEF Report
    <2>4. PassMeansCovered'
      BY <2>3 DEF PassMeansCovered
    <2> QED BY <2>1, <2>4, ReturnInductive DEF Return
  <1>3. CASE ~Fails /\ GateFailure(metrics) = "none"
    <2>1. /\ stage = "registration_gate" /\ stage' = "transform" /\ result' = Timed(result, "registration_gate")
          /\ UNCHANGED <<context, request, scan, edges, metrics, deviation, coverage, queue, outcome>>
      BY <1>3 DEF Gate
    <2>2. Evolution' /\ Fields'
      BY <1>3, <2>1 DEF IInv, Evolution, Fields, AfterTransform, AfterCompare, SettledStages
    <2>3. Drafted'
      <3>1. result = Draft(Clocked(3), Note, <<>>)
        BY <2>1 DEF IInv, Drafted
      <3>2. Timed(result, "registration_gate") = Draft(Append(Clocked(3), "registration_gate"), Note, <<>>)
        BY <3>1, DraftSteps
      <3>3. result' = Draft(Clocked(4), Note, <<>>)
        BY <2>1, <3>2, ClockSteps
      <3> QED BY <2>1, <3>3 DEF Drafted, Note
    <2> QED BY <2>1, <2>2, <2>3, StageInductive DEF AllStages, IInv, EvidenceUsable
  <1> QED BY <1>1, <1>2, <1>3

LEMMA TransformInductive ==
    ASSUME IInv, Transform
    PROVE  IInv'
  <1>1. CASE Fails
    BY <1>1, FailsInductive
  <1>2. CASE ~Fails
    <2>1. /\ stage = "transform" /\ stage' = "compare" /\ result' = Timed(result, "transform")
          /\ scan' = Aligned(scan, metrics)
          /\ UNCHANGED <<context, request, edges, metrics, deviation, coverage, queue, outcome>>
      BY <1>2 DEF Transform
    <2>2. Evolution' /\ Fields'
      BY <2>1 DEF IInv, Evolution, Fields, AfterTransform, AfterCompare, SettledStages
    <2>3. Drafted'
      <3>1. result = Draft(Clocked(4), Note, <<>>)
        BY <2>1 DEF IInv, Drafted
      <3>2. Timed(result, "transform") = Draft(Append(Clocked(4), "transform"), Note, <<>>)
        BY <3>1, DraftSteps
      <3>3. result' = Draft(Clocked(5), Note, <<>>)
        BY <2>1, <3>2, ClockSteps
      <3> QED BY <2>1, <3>3 DEF Drafted, Note
    <2> QED BY <2>1, <2>2, <2>3, StageInductive DEF AllStages, IInv, EvidenceUsable
  <1> QED BY <1>1, <1>2

LEMMA CompareInductive ==
    ASSUME IInv, Compare
    PROVE  IInv'
  <1>1. CASE Fails
    BY <1>1, FailsInductive
  <1>2. CASE ~Fails
    <2>1. /\ stage = "compare" /\ stage' = "coverage_gate" /\ result' = Timed(result, "compare")
          /\ UNCHANGED <<context, request, scan, edges, metrics, queue, outcome>>
      BY <1>2 DEF Compare
    <2>2. PICK f \in Pairings(PreparedReference, scan) :
              deviation' = DeviationField(PreparedReference, edges.reference, scan, f)
      BY <1>2 DEF Compare
    <2>3. PICK g \in Pairings(scan, PreparedReference) :
              coverage' = CoverageField(PreparedReference, scan, edges.scan, g)
      BY <1>2 DEF Compare
    <2>4. Fields'
      <3>1. FieldsOf(deviation', coverage', edges.reference, scan, edges.scan)
        BY <2>2, <2>3 DEF FieldsOf
      <3> QED BY <2>1, <3>1 DEF Fields
    <2>5. \A i \in DOMAIN deviation' : (deviation')[i].reason # "normal_missing"
      BY <2>2, DeviationMeans, ReferenceShape
    <2>6. Evolution'
      BY <2>1 DEF IInv, Evolution, AfterTransform, AfterCompare, SettledStages
    <2>7. Drafted'
      <3>1. result = Draft(Clocked(5), Note, <<>>)
        BY <2>1 DEF IInv, Drafted
      <3>2. Timed(result, "compare") = Draft(Append(Clocked(5), "compare"), Note, <<>>)
        BY <3>1, DraftSteps
      <3>3. result' = Draft(Clocked(6), Note, <<>>)
        BY <2>1, <3>2, ClockSteps
      <3> QED BY <2>1, <3>3 DEF Drafted, Note
    <2> QED BY <2>1, <2>4, <2>5, <2>6, <2>7, StageInductive DEF AllStages
  <1> QED BY <1>1, <1>2

LEMMA CoverageGateInductive ==
    ASSUME IInv, CoverageGate
    PROVE  IInv'
  <1>1. CASE Fails
    BY <1>1, FailsInductive
  <1>2. CASE ~Fails
    <2>1. /\ stage = "coverage_gate" /\ stage' = "detect"
          /\ result' = Timed(IF CoverageBelow(coverage) THEN Diagnosed(result, "insufficient_coverage")
                             ELSE result, "coverage_gate")
          /\ UNCHANGED <<context, request, scan, edges, metrics, deviation, coverage, queue, outcome>>
      BY <1>2 DEF CoverageGate
    <2>2. Evolution' /\ Fields'
      BY <2>1 DEF IInv, Evolution, Fields, AfterTransform, AfterCompare, SettledStages
    <2>3. Drafted'
      <3>1. result = Draft(Clocked(6), Note, <<>>)
        BY <2>1 DEF IInv, Drafted
      <3>2. result' = Draft(Clocked(7), Remarks, <<>>)
        <4>1. Diagnosed(result, "insufficient_coverage")
                = Draft(Clocked(6), Append(Note, "insufficient_coverage"), <<>>)
          BY <3>1, DraftSteps
        <4>2. (IF CoverageBelow(coverage) THEN Diagnosed(result, "insufficient_coverage") ELSE result)
                = Draft(Clocked(6), Remarks, <<>>)
          BY <3>1, <4>1 DEF Remarks
        <4>3. Timed(Draft(Clocked(6), Remarks, <<>>), "coverage_gate")
                = Draft(Append(Clocked(6), "coverage_gate"), Remarks, <<>>)
          BY DraftSteps
        <4> QED BY <2>1, <4>2, <4>3, ClockSteps
      <3> QED BY <2>1, <3>2 DEF Drafted, Remarks, Note
    <2> QED BY <2>1, <2>2, <2>3, StageInductive DEF AllStages, IInv, EvidenceUsable
  <1> QED BY <1>1, <1>2

\* The scan that is compared has the shape of a surface.
LEMMA ScanShaped ==
    ASSUME IInv, stage \in AfterTransform
    PROVE  Shaped(scan) /\ metrics \in Solutions
  <1>1. PICK n : scan = Aligned(WithNormals(request.scan, n), metrics)
    BY DEF IInv, Evolution
  <1>2. metrics \in Solutions /\ request.scan \in Scans
    BY DEF IInv, Evolution, Control, AfterTransform, SettledStages
  <1>3. IsSurface(request.scan)
    BY <1>2, PipelineAssumption
  <1>4. Shaped(Aligned(WithNormals(request.scan, n), metrics))
    BY <1>2, <1>3, AlignedShape
  <1> QED BY <1>1, <1>2, <1>4

LEMMA DetectInductive ==
    ASSUME IInv, Detect
    PROVE  IInv'
  <1>1. CASE Fails
    BY <1>1, FailsInductive
  <1>2. CASE ~Fails
    <2>1. /\ stage = "detect" /\ stage' = "measure"
          /\ UNCHANGED <<context, request, scan, edges, metrics, deviation, coverage, result, outcome>>
      BY <1>2 DEF Detect
    <2>2. PICK o \in Plans(scan, deviation, coverage) : queue' = o
      BY <1>2 DEF Detect, Plans
    <2>3. Shaped(scan) /\ FieldsOf(deviation, coverage, edges.reference, scan, edges.scan)
      BY <2>1, ScanShaped DEF IInv, Fields, AfterTransform, AfterCompare
    <2>4. /\ o \in Seq(Found(scan, deviation, coverage)) /\ Len(o) \in Nat /\ DOMAIN o = 1 .. Len(o)
          /\ \A k \in 1 .. Len(o) : Measurable(o[k], scan, deviation)
      BY <2>3, PlanMeans
    <2>5. Control'
      BY <2>1 DEF IInv, Control, AllStages
    <2>6. Evolution' /\ Fields'
      BY <2>1 DEF IInv, Evolution, Fields, AfterTransform, AfterCompare, SettledStages
    <2>7. result = Draft(Clocked(7), Remarks, <<>>)
      BY <2>1 DEF IInv, Drafted
    <2>8. result.regions = <<>>
      BY <2>7, DraftSteps
    <2>9. Drafted'
      BY <2>1, <2>7, <2>8 DEF Drafted, Remarks, Note
    <2>10. Measuring'
      <3>1. 0 \in 0 .. Len(o)
        BY <2>4
      <3>2. result.regions = [k \in 1 .. 0 |-> RegionOf(o[k], k - 1)]
        BY <2>8
      <3>3. o = [k \in 1 .. Len(o) - 0 |-> o[0 + k]]
        <4>1. o \in [1 .. Len(o) -> Found(scan, deviation, coverage)]
          BY <2>4, LenProperties
        <4>2. 1 .. Len(o) - 0 = 1 .. Len(o) /\ \A k \in 1 .. Len(o) : 0 + k = k
          BY <2>4
        <4> QED BY <4>1, <4>2
      <3>4. \E n \in 0 .. Len(o) : /\ result.regions = [k \in 1 .. n |-> RegionOf(o[k], k - 1)]
                                   /\ queue' = [k \in 1 .. Len(o) - n |-> o[n + k]]
        BY <2>2, <3>1, <3>2, <3>3
      <3> QED BY <2>1, <3>4 DEF Measuring, RegionOf
    <2>11. EvidenceUsable'
      BY <2>1, <2>2, <2>4 DEF IInv, EvidenceUsable, Measurable, MeasuredSurface
    <2>12. PassMeansCovered'
      BY <2>1, NoPassInductive DEF IInv, Control
    <2> QED BY <2>5, <2>6, <2>9, <2>10, <2>11, <2>12 DEF IInv
  <1> QED BY <1>1, <1>2

LEMMA MeasureInductive ==
    ASSUME IInv, Measure
    PROVE  IInv'
  <1>1. CASE Return(Failure)
    BY <1>1, ReturnInductive, NoPassInductive DEF Measure, Return
  <1>2. CASE ~Return(Failure)
    <2>1. /\ stage = "measure" /\ queue # <<>>
          /\ result' = [result EXCEPT !.regions = Append(@, RegionOf(Head(queue), Len(@)))]
          /\ queue' = Tail(queue)
          /\ UNCHANGED <<context, stage, request, scan, edges, metrics, deviation, coverage, outcome>>
      BY <1>2 DEF Measure
    <2>0. PICK o \in Plans(scan, deviation, coverage) : \E n \in 0 .. Len(o) :
              /\ result.regions = [k \in 1 .. n |-> RegionOf(o[k], k - 1)]
              /\ queue = [k \in 1 .. Len(o) - n |-> o[n + k]]
      BY <2>1 DEF IInv, Measuring
    <2>2. PICK n \in 0 .. Len(o) :
              /\ result.regions = [k \in 1 .. n |-> RegionOf(o[k], k - 1)]
              /\ queue = [k \in 1 .. Len(o) - n |-> o[n + k]]
      BY <2>0
    <2>3. Shaped(scan) /\ FieldsOf(deviation, coverage, edges.reference, scan, edges.scan)
      BY <2>1, ScanShaped DEF IInv, Fields, AfterTransform, AfterCompare
    <2>4. /\ o \in Seq(Found(scan, deviation, coverage)) /\ Len(o) \in Nat /\ DOMAIN o = 1 .. Len(o)
          /\ \A k \in 1 .. Len(o) : Measurable(o[k], scan, deviation)
      BY <2>3, PlanMeans
    <2>5. /\ n + 1 \in 0 .. Len(o) /\ Head(queue) = o[n + 1]
          /\ Tail(queue) = [k \in 1 .. Len(o) - (n + 1) |-> o[(n + 1) + k]]
      BY <2>1, <2>2, <2>4, LoopQueue
    <2> DEFINE f == [k \in 1 .. Len(o) |-> RegionOf(o[k], k - 1)]
               S == {f[k] : k \in 1 .. Len(o)}
    <2>6. f \in Seq(S) /\ Len(f) = Len(o)
      BY <2>4
    <2>7. /\ \A k \in 1 .. n : f[k] = RegionOf(o[k], k - 1)
          /\ \A k \in 1 .. n + 1 : f[k] = RegionOf(o[k], k - 1)
          /\ f[n + 1] = RegionOf(o[n + 1], n)
      <3>0. n + 1 \in 0 .. Len(o) /\ Len(o) \in Nat
        BY <2>4, <2>5
      <3>1. n \in Nat /\ n + 1 <= Len(o) /\ n + 1 \in 1 .. Len(o) /\ (n + 1) - 1 = n
        BY <3>0
      <3>2. \A k \in 1 .. n + 1 : k \in 1 .. Len(o)
        BY <2>4, <3>1
      <3>3. \A k \in 1 .. n : k \in 1 .. n + 1
        BY <3>1
      <3> QED BY <3>1, <3>2, <3>3
    <2> HIDE DEF f, S
    <2>8. /\ result.regions = [k \in 1 .. n |-> f[k]]
          /\ [k \in 1 .. n + 1 |-> f[k]] = [k \in 1 .. n + 1 |-> RegionOf(o[k], k - 1)]
      BY <2>2, <2>7
    <2>9. Len(result.regions) = n /\ Append(result.regions, f[n + 1]) = [k \in 1 .. n + 1 |-> f[k]]
      BY <2>5, <2>6, <2>8, LoopRegions
    <2>10. result = Draft(Clocked(7), Remarks, result.regions)
      BY <2>1 DEF IInv, Drafted
    <2> DEFINE g == [k \in 1 .. n + 1 |-> RegionOf(o[k], k - 1)]
    <2>11. result' = [result EXCEPT !.regions = Append(@, f[n + 1])]
      BY <2>1, <2>5, <2>7, <2>9
    <2>12. result' = Draft(Clocked(7), Remarks, g)
      <3> DEFINE r == result.regions
      <3> HIDE DEF r
      <3>1. [Draft(Clocked(7), Remarks, r) EXCEPT !.regions = Append(@, f[n + 1])]
              = Draft(Clocked(7), Remarks, Append(r, f[n + 1]))
        BY DraftSteps
      <3>2. Append(r, f[n + 1]) = g
        BY <2>8, <2>9 DEF r
      <3> HIDE DEF g
      <3> QED BY <2>10, <2>11, <3>1, <3>2 DEF r
    <2>13. (result').regions = g
      BY <2>12, DraftSteps
    <2>14. Control'
      BY <2>1 DEF IInv, Control, AllStages
    <2>15. Evolution' /\ Fields'
      BY <2>1 DEF IInv, Evolution, Fields, AfterTransform, AfterCompare, SettledStages
    <2>16. Drafted'
      BY <2>1, <2>12, <2>13 DEF Drafted, Remarks, Note
    <2>17. Measuring'
      <3>1. \E i \in 0 .. Len(o) : /\ (result').regions = [k \in 1 .. i |-> RegionOf(o[k], k - 1)]
                                   /\ queue' = [k \in 1 .. Len(o) - i |-> o[i + k]]
        <4>1. /\ n + 1 \in 0 .. Len(o)
              /\ (result').regions = [k \in 1 .. n + 1 |-> RegionOf(o[k], k - 1)]
              /\ queue' = [k \in 1 .. Len(o) - (n + 1) |-> o[(n + 1) + k]]
          BY <2>1, <2>5, <2>13
        <4> QED BY <4>1
      <3>2. \A x, i : RegionOf(x, i)' = RegionOf(x, i)
        BY <2>1 DEF RegionOf
      <3>3. o \in Plans(scan', deviation', coverage')
        BY <2>1
      <3> QED BY <3>1, <3>2, <3>3 DEF Measuring
    <2>18. EvidenceUsable'
      <3>1. \A k \in DOMAIN queue' : \E i \in 1 .. Len(o) : (queue')[k] = o[i]
        <4>0. n + 1 \in 0 .. Len(o) /\ Len(o) \in Nat
          BY <2>4, <2>5
        <4>1. \A k \in 1 .. Len(o) - (n + 1) : (n + 1) + k \in 1 .. Len(o)
          BY <4>0
        <4> QED BY <2>1, <2>5, <4>1
      <3>2. \A k \in DOMAIN queue' : (queue')[k].points \subseteq Usable(MeasuredSurface((queue')[k]))
        BY <2>4, <3>1 DEF Measurable, MeasuredSurface
      <3> QED BY <2>1, <3>2 DEF IInv, EvidenceUsable, MeasuredSurface
    <2>19. PassMeansCovered'
      BY <2>1, NoPassInductive DEF IInv, Control
    <2> QED BY <2>14, <2>15, <2>16, <2>17, <2>18, <2>19 DEF IInv
  <1> QED BY <1>1, <1>2

LEMMA FinalizeInductive ==
    ASSUME IInv, Finalize
    PROVE  IInv'
  <1>1. /\ stage = "measure" /\ queue = <<>>
        /\ Return(Report([Timed(result, "detect") EXCEPT !.verdict = Verdict]))
        /\ UNCHANGED <<context, request, scan, edges, metrics, deviation, coverage>>
    BY DEF Finalize
  <1>2. Shaped(scan) /\ metrics \in Solutions
        /\ FieldsOf(deviation, coverage, edges.reference, scan, edges.scan)
    BY <1>1, ScanShaped DEF IInv, Fields, AfterTransform, AfterCompare
  <1>3. outcome'.report.verdict = Verdict
    <2> DEFINE r == result.regions
               v == Verdict
               m == Remarks
    <2>1. result = Draft(Clocked(7), m, r)
      BY <1>1 DEF IInv, Drafted
    <2> HIDE DEF r, v, m
    <2>2. Timed(result, "detect") = Draft(Clocked(8), m, r)
      <3>1. Timed(Draft(Clocked(7), m, r), "detect") = Draft(Append(Clocked(7), "detect"), m, r)
        BY DraftSteps
      <3> QED BY <2>1, <3>1, ClockSteps
    <2>3. Decided(Draft(Clocked(8), m, r), v) = Final(Clocked(8), m, r, v, "none")
      BY DraftEnds
    <2>4. Final(Clocked(8), m, r, v, "none").verdict = v
      BY DEF Final
    <2>5. outcome' = Report(Decided(Timed(result, "detect"), v))
      BY <1>1 DEF Return, Decided, v
    <2> QED BY <2>2, <2>3, <2>4, <2>5 DEF Report, v
  <1>4. PassMeansCovered'
    <2> SUFFICES ASSUME Verdict = "pass"
                 PROVE  LET near == {r \in Usable(PreparedReference) :
                                       \E i \in Usable(scan) : Distance2(scan, i, PreparedReference, r) <= MaxSearch2}
                        IN  /\ WithinGate(metrics)
                            /\ 100 * Cardinality(near) >= MinCoverage * Cardinality(Usable(PreparedReference))
                            /\ near # {}
      BY <1>1, <1>3 DEF PassMeansCovered
    <2>1. ~CoverageBelow(coverage) /\ ValidSamples(deviation) # {}
      BY DEF Verdict
    <2>2. GateFailure(metrics) = "none"
      BY <1>1 DEF IInv, Evolution, AfterTransform
    <2>3. WithinGate(metrics)
      BY <1>2, <2>2, GateMeans
    <2> QED BY <1>2, <2>1, <2>3, PassCovers
  <1> QED BY <1>1, <1>4, ReturnInductive DEF Return

LEMMA NextInductive == IInv /\ [Next]_vars => IInv'
  <1> SUFFICES ASSUME IInv, [Next]_vars PROVE IInv'
    OBVIOUS
  <1>1. CASE UNCHANGED vars
    <2>1. UNCHANGED <<context, stage, request, scan, edges, metrics, deviation, coverage, queue, result, outcome>>
      BY <1>1 DEF vars
    <2>2. Control' /\ Evolution' /\ Fields'
      BY <2>1 DEF IInv, Control, Evolution, Fields
    <2>3. Drafted'
      BY <2>1 DEF IInv, Drafted, Note, Remarks
    <2>4. Measuring'
      <3>1. \A x, i : RegionOf(x, i)' = RegionOf(x, i)
        BY <2>1 DEF RegionOf
      <3>2. Plans(scan', deviation', coverage') = Plans(scan, deviation, coverage)
        BY <2>1
      <3>3. CASE stage # "measure"
        BY <2>1, <3>3 DEF Measuring
      <3>4. CASE stage = "measure"
        <4>1. PICK o \in Plans(scan, deviation, coverage) : \E n \in 0 .. Len(o) :
                  /\ result.regions = [k \in 1 .. n |-> RegionOf(o[k], k - 1)]
                  /\ queue = [k \in 1 .. Len(o) - n |-> o[n + k]]
          BY <3>4 DEF IInv, Measuring
        <4>2. \E n \in 0 .. Len(o) : /\ (result').regions = [k \in 1 .. n |-> RegionOf(o[k], k - 1)]
                                     /\ queue' = [k \in 1 .. Len(o) - n |-> o[n + k]]
          BY <2>1, <4>1
        <4> QED BY <3>1, <3>2, <4>2 DEF Measuring
      <3> QED BY <3>3, <3>4
    <2>5. EvidenceUsable'
      BY <2>1 DEF IInv, EvidenceUsable, MeasuredSurface
    <2>6. PassMeansCovered'
      BY <2>1 DEF IInv, PassMeansCovered, Reported
    <2> QED BY <2>2, <2>3, <2>4, <2>5, <2>6 DEF IInv
  <1>2. CASE \E s \in Scans, p \in {"absent", "matching", "mismatched"}, c \in BOOLEAN : Begin(s, p, c)
    BY <1>2, BeginInductive
  <1>3. CASE CreateContext \/ MoveContext \/ Deliver
    BY <1>3, CallerInductive
  <1>4. CASE Work
    BY <1>4, NormalizeInductive, PreprocessInductive, RegistrationInductive, GateInductive, TransformInductive,
       CompareInductive, CoverageGateInductive, DetectInductive, MeasureInductive, FinalizeInductive DEF Work
  <1> QED BY <1>1, <1>2, <1>3, <1>4 DEF Next

\* The invariant of the ten stages holds of every inspection.
THEOREM Inductive == Spec => []IInv
  BY InitInductive, NextInductive, PTL DEF Spec

\* run_impl: no comparison meets a reference point without normal, and no
\* cluster reaches collect_samples with a slot it would refuse.
THEOREM EvidenceCorrect == Spec => []EvidenceUsable
  <1>1. IInv => EvidenceUsable
    BY DEF IInv
  <1> QED BY <1>1, Inductive, PTL

\* run_impl: a PASS is given only for a registration within its gate and a
\* reference that the scan covers.
THEOREM PassCorrect == Spec => []PassMeansCovered
  <1>1. IInv => PassMeansCovered
    BY DEF IInv
  <1> QED BY <1>1, Inductive, PTL

-----------------------------------------------------------------------------
(***************************************************************************)
(* The stages implement the promise                                        *)
(***************************************************************************)
EvidenceOf(s, e, m) == [kind |-> "evidence", metrics |-> m, edges |-> e, scan |-> s]

\* What the caller sees of each stage.
Seen == /\ stage = "idle" => Phase = "idle" /\ Evidence = Nothing
        /\ stage = "returned" => Phase = "answered" /\ Evidence = Nothing
        /\ stage \in {"normalize", "preprocess", "registration"} => Phase = "asked" /\ Evidence = Nothing
        /\ stage \in {"registration_gate", "transform"} =>
             Phase = "settled" /\ Evidence = EvidenceOf(Aligned(scan, metrics), edges.scan, metrics)
        /\ stage \in AfterTransform => Phase = "settled" /\ Evidence = EvidenceOf(scan, edges.scan, metrics)

LEMMA SeenAlways == Seen /\ Seen'
  <1>1. Seen
    <2>1. /\ stage = "idle" => Phase = "idle"
          /\ stage = "returned" => Phase = "answered"
          /\ stage \in {"normalize", "preprocess", "registration"} => Phase = "asked"
          /\ stage \in {"registration_gate", "transform"} \union AfterTransform => Phase = "settled"
      BY DEF Phase, AfterTransform
    <2> QED BY <2>1 DEF Seen, Evidence, EvidenceOf, AfterTransform
  <1>2. Seen'
    <2>1. /\ stage' = "idle" => Phase' = "idle"
          /\ stage' = "returned" => Phase' = "answered"
          /\ stage' \in {"normalize", "preprocess", "registration"} => Phase' = "asked"
          /\ stage' \in {"registration_gate", "transform"} \union AfterTransform => Phase' = "settled"
      BY DEF Phase, AfterTransform
    <2> QED BY <2>1 DEF Seen, Evidence, EvidenceOf, AfterTransform
  <1> QED BY <1>1, <1>2

LEMMA InitPromised == Init => Promise!Init
  <1> SUFFICES ASSUME Init PROVE Promise!Init
    OBVIOUS
  <1>1. Phase = "idle" /\ Evidence = Nothing
    BY SeenAlways DEF Init, Seen
  <1>2. edges.reference \in Boundaries
    BY DEF Init
  <1> QED BY <1>1, <1>2 DEF Init, Promise!Init, Promise!Nothing, Nothing

\* A step inside a phase.
Hidden == UNCHANGED Promise!vars

LEMMA FailPromised ==
    ASSUME IInv, stage \in AllStages \ {"idle", "returned"}, Return(Failure),
           UNCHANGED <<context, request, edges>>
    PROVE  Promise!Fail
  <1>1. Phase \in {"asked", "settled"}
    BY SeenAlways DEF Seen, AllStages, AfterTransform
  <1>2. Phase' = "answered" /\ Evidence' = Nothing
    BY SeenAlways DEF Seen, Return
  <1> QED BY <1>1, <1>2 DEF Return, Promise!Fail, Promise!Answer, Promise!Failure, Promise!Nothing, Failure, Nothing

LEMMA CallerPromised ==
    ASSUME IInv, CreateContext \/ MoveContext \/ Deliver
    PROVE  Promise!Open \/ Promise!Move \/ Promise!Take
  <1>1. CASE CreateContext
    <2>1. stage = "idle" /\ Phase = "idle" /\ Evidence = Nothing
      BY <1>1, SeenAlways DEF Seen, CreateContext
    <2>2. CASE context' = "ready" /\ UNCHANGED <<stage, outcome>>
      <3>1. Phase' = "idle" /\ Evidence' = Nothing
        BY <2>1, <2>2, SeenAlways DEF Seen
      <3> QED BY <1>1, <2>1, <2>2, <3>1 DEF CreateContext, Promise!Open
    <2>3. CASE stage' = "returned" /\ outcome' = Failure /\ UNCHANGED context
      <3>1. Phase' = "answered" /\ Evidence' = Nothing
        BY <2>3, SeenAlways DEF Seen
      <3> QED BY <1>1, <2>1, <2>3, <3>1
              DEF CreateContext, Promise!Open, Promise!Answer, Promise!Failure, Promise!Nothing, Failure, Nothing
    <2> QED BY <1>1, <2>2, <2>3 DEF CreateContext
  <1>2. CASE MoveContext
    <2>1. Phase = "idle" /\ Evidence = Nothing /\ Phase' = "idle" /\ Evidence' = Nothing
      BY <1>2, SeenAlways DEF Seen, MoveContext
    <2> QED BY <1>2, <2>1 DEF MoveContext, Promise!Move
  <1>3. CASE Deliver
    <2>1. Phase = "answered" /\ Evidence = Nothing /\ Phase' = "idle" /\ Evidence' = Nothing
      BY <1>3, SeenAlways DEF Seen, Deliver
    <2>2. (edges').reference = edges.reference
      BY <1>3 DEF Deliver, IInv, Control
    <2> QED BY <1>3, <2>1, <2>2 DEF Deliver, Promise!Take, Promise!Nothing, Nothing
  <1> QED BY <1>1, <1>2, <1>3

LEMMA BeginPromised ==
    ASSUME IInv, NEW s \in Scans, NEW p \in {"absent", "matching", "mismatched"}, NEW c \in BOOLEAN,
           Begin(s, p, c)
    PROVE  \E r \in Promise!Requests : Promise!Ask(r)
  <1> DEFINE r == [scan |-> s, pose |-> p, cached |-> c]
  <1>1. r \in Promise!Requests
    BY DEF Promise!Requests
  <1>2. r.scan = s /\ r.pose = p /\ (r.cached <=> c)
    OBVIOUS
  <1>3. stage = "idle" /\ Phase = "idle" /\ Evidence = Nothing /\ request' = r
    BY SeenAlways DEF Seen, Begin
  <1> HIDE DEF r
  <1>4. Promise!Refused(r) <=> (c /\ (context = "moved_from" \/ Cardinality(s.logical) > Capacity))
    BY <1>2, SameCardinality DEF Promise!Refused
  <1>5. CASE Promise!Refused(r)
    <2>1. stage' = "returned" /\ outcome' = Failure
      BY <1>4, <1>5 DEF Begin
    <2>2. Promise!Answer(Promise!Failure)
      BY <2>1, SeenAlways DEF Seen, Promise!Answer, Promise!Failure, Promise!Nothing, Failure, Nothing
    <2>3. Promise!Ask(r)
      BY <1>2, <1>3, <1>5, <2>2 DEF Begin, Promise!Ask
    <2> QED BY <1>1, <2>3
  <1>6. CASE ~Promise!Refused(r)
    <2>1. stage' = "normalize" /\ outcome' = outcome
      BY <1>4, <1>6 DEF Begin
    <2>2. Phase' = "asked" /\ Evidence' = Nothing
      BY <2>1, SeenAlways DEF Seen
    <2>3. Promise!Ask(r)
      BY <1>2, <1>3, <1>6, <2>1, <2>2 DEF Begin, Promise!Ask
    <2> QED BY <1>1, <2>3
  <1> QED BY <1>5, <1>6

LEMMA PreparationPromised ==
    ASSUME IInv, Normalize \/ Preprocess
    PROVE  Promise!Fail \/ Hidden
  <1>1. stage \in {"normalize", "preprocess"} /\ Phase = "asked" /\ Evidence = Nothing
    BY SeenAlways DEF Seen, Normalize, Preprocess
  <1>2. CASE Fails
    BY <1>1, <1>2, FailPromised DEF Fails, AllStages
  <1>3. CASE ~Fails
    <2>1. /\ stage' \in {"preprocess", "registration"}
          /\ UNCHANGED <<context, request, outcome>>
          /\ edges' = edges \/ \E e \in Boundaries : edges' = [edges EXCEPT !.scan = e]
      BY <1>3 DEF Normalize, Preprocess
    <2>2. Phase' = "asked" /\ Evidence' = Nothing
      BY <2>1, SeenAlways DEF Seen
    <2>3. (edges').reference = edges.reference
      BY <2>1 DEF IInv, Control
    <2> QED BY <1>1, <2>1, <2>2, <2>3 DEF Hidden, Promise!vars
  <1> QED BY <1>2, <1>3

LEMMA RegistrationPromised ==
    ASSUME IInv, Registration
    PROVE  Promise!Fail \/ Promise!Settle
  <1>1. stage = "registration" /\ Phase = "asked" /\ Evidence = Nothing
    BY SeenAlways DEF Seen, Registration
  <1>2. CASE Fails
    BY <1>1, <1>2, FailPromised DEF Fails, AllStages
  <1>3. CASE ~Fails
    <2>1. /\ request.pose # "mismatched"
          /\ metrics' \in Solutions
          /\ stage' = "registration_gate"
          /\ UNCHANGED <<context, request, scan, edges, outcome>>
      BY <1>3 DEF Registration
    <2>2. PICK n \in NormalsOf(request.scan) : scan = WithNormals(request.scan, n)
      BY <1>1 DEF IInv, Evolution
    <2>3. edges.scan \in Boundaries /\ request.scan \in Scans
      BY <1>1 DEF IInv, Evolution, Control
    <2>4. Phase' = "settled" /\ Evidence' = EvidenceOf(Aligned(scan, metrics'), edges.scan, metrics')
      BY <2>1, SeenAlways DEF Seen
    <2>5. Aligned(scan, metrics') = Promise!Examined(request.scan, n, metrics')
      BY <2>1, <2>2, <2>3, SameSurfaces
    <2>6. Evidence' = [kind |-> "evidence", scan |-> Promise!Examined(request.scan, n, metrics'),
                       edges |-> edges.scan, metrics |-> metrics']
      BY <2>4, <2>5 DEF EvidenceOf
    <2>7. n \in IF request.scan.hasNormals THEN {request.scan.normal} ELSE EstimatedNormals
      BY <2>2 DEF NormalsOf
    <2> QED BY <1>1, <2>1, <2>3, <2>4, <2>6, <2>7 DEF Promise!Settle
  <1> QED BY <1>2, <1>3

LEMMA GatePromised ==
    ASSUME IInv, Gate
    PROVE  Promise!Fail \/ Promise!Reject \/ Hidden
  <1> DEFINE a == Aligned(scan, metrics)
  <1>1. stage = "registration_gate" /\ Phase = "settled" /\ Evidence = EvidenceOf(a, edges.scan, metrics)
    BY SeenAlways DEF Seen, Gate
  <1>2. metrics \in Solutions
    BY <1>1 DEF IInv, Evolution, SettledStages
  <1>3. CASE Fails
    BY <1>1, <1>3, FailPromised DEF Fails, AllStages
  <1>4. CASE ~Fails /\ GateFailure(metrics) # "none"
    <2> DEFINE x == GateFailure(metrics)
               y == Append(Note, "registration_failed")
               z == <<>>
               v == "indeterminate"
               d == Draft(Clocked(3), y, z)
    <2>1. /\ Return(Report(Rejected(Diagnosed(result, "registration_failed"), v, x)))
          /\ UNCHANGED <<context, request, scan, edges, metrics, deviation, coverage>>
      BY <1>4 DEF Gate, Rejected
    <2>2. Diagnosed(result, "registration_failed") = d
      <3>1. result = Draft(Clocked(3), Note, <<>>)
        BY <1>1 DEF IInv, Drafted
      <3> QED BY <3>1, DraftSteps
    <2> HIDE DEF x, y, z, v
    <2>3. Rejected(d, v, x) = Final(Clocked(3), y, z, v, x)
      BY DraftEnds
    <2> HIDE DEF d
    <2>4. /\ stage' = "returned"
          /\ outcome' = [kind |-> "report", report |-> Final(Clocked(3), y, z, v, x)]
      BY <2>1, <2>2, <2>3 DEF Return, Report
    <2>5. Phase' = "answered" /\ Evidence' = Nothing
      BY <2>4, SeenAlways DEF Seen
    <2>6. Evidence.metrics = metrics
      BY <1>1 DEF EvidenceOf
    <2>7. ~Promise!WithinGate(metrics) /\ x = Promise!GateNames[Promise!FirstBroken(metrics)]
      BY <1>2, <1>4, GateMeans DEF x
    <2> DEFINE t == <<"normalize", "preprocess", "registration">>
    <2>8. Clocked(3) = t
      BY ClockSteps
    <2>9. y = Append(Promise!PoseNote, "registration_failed")
      BY DEF y, Note, Promise!PoseNote
    <2> HIDE DEF t
    <2>10. outcome' = [kind |-> "report", report |->
                [verdict |-> v, gate |-> Promise!GateNames[Promise!FirstBroken(Evidence.metrics)],
                 diagnostics |-> Append(Promise!PoseNote, "registration_failed"), regions |-> z,
                 timings |-> t, finalPose |-> TRUE]]
      <3> DEFINE g == Promise!GateNames[Promise!FirstBroken(Evidence.metrics)]
      <3>1. x = g
        BY <2>6, <2>7
      <3> HIDE DEF g
      <3>2. Final(t, y, z, v, x) = [verdict |-> v, gate |-> x, diagnostics |-> y, regions |-> z,
                                    timings |-> t, finalPose |-> TRUE]
        <4> DEFINE yes == TRUE
        <4>1. Final(t, y, z, v, x) = [verdict |-> v, diagnostics |-> y, timings |-> t, regions |-> z,
                                      gate |-> x, finalPose |-> yes]
          BY DEF Final
        <4> SUFFICES Final(t, y, z, v, x) = [verdict |-> v, gate |-> x, diagnostics |-> y, regions |-> z,
                                             timings |-> t, finalPose |-> yes]
          OBVIOUS
        <4> HIDE DEF yes
        <4> QED BY <4>1
      <3> QED BY <2>4, <2>8, <2>9, <3>1, <3>2 DEF g
    <2>11. Promise!Answer([kind |-> "report", report |->
                [verdict |-> "indeterminate", gate |-> Promise!GateNames[Promise!FirstBroken(Evidence.metrics)],
                 diagnostics |-> Append(Promise!PoseNote, "registration_failed"), regions |-> <<>>,
                 timings |-> <<"normalize", "preprocess", "registration">>, finalPose |-> TRUE]])
      BY <2>5, <2>10 DEF Promise!Answer, Promise!Nothing, Nothing, z, v, t
    <2> QED BY <1>1, <2>1, <2>6, <2>7, <2>11 DEF Promise!Reject
  <1>5. CASE ~Fails /\ GateFailure(metrics) = "none"
    <2>1. stage' = "transform" /\ UNCHANGED <<context, request, scan, edges, metrics, outcome>>
      BY <1>5 DEF Gate
    <2>2. Phase' = "settled" /\ Evidence' = EvidenceOf(a, edges.scan, metrics)
      BY <2>1, SeenAlways DEF Seen
    <2> QED BY <1>1, <2>1, <2>2 DEF Hidden, Promise!vars
  <1> QED BY <1>3, <1>4, <1>5

LEMMA ComparisonPromised ==
    ASSUME IInv, Transform \/ Compare \/ CoverageGate \/ Detect \/ Measure
    PROVE  Promise!Fail \/ Hidden
  <1>1. stage \in {"transform"} \union AfterTransform
    BY DEF Transform, Compare, CoverageGate, Detect, Measure, AfterTransform
  <1>2. CASE Return(Failure) /\ UNCHANGED <<context, request, edges>>
    BY <1>1, <1>2, FailPromised DEF AllStages, AfterTransform
  <1>3. CASE ~(Return(Failure) /\ UNCHANGED <<context, request, edges>>)
    <2>0. ~Fails
      BY <1>3 DEF Fails
    <2>1. /\ stage' \in AfterTransform
          /\ scan' = IF stage = "transform" THEN Aligned(scan, metrics) ELSE scan
          /\ UNCHANGED <<context, request, edges, metrics, outcome>>
      <3>1. CASE Transform
        BY <2>0, <3>1 DEF Transform, AfterTransform
      <3>2. CASE Compare
        BY <2>0, <3>2 DEF Compare, AfterTransform
      <3>3. CASE CoverageGate
        BY <2>0, <3>3 DEF CoverageGate, AfterTransform
      <3>4. CASE Detect
        BY <2>0, <3>4 DEF Detect, AfterTransform
      <3>5. CASE Measure
        BY <1>3, <3>5 DEF Measure, AfterTransform
      <3> QED BY <3>1, <3>2, <3>3, <3>4, <3>5
    <2>2. Phase = "settled" /\ Evidence = EvidenceOf(scan', edges.scan, metrics)
      BY <1>1, <2>1, SeenAlways DEF Seen, AfterTransform
    <2>3. Phase' = "settled" /\ Evidence' = EvidenceOf(scan', edges.scan, metrics)
      BY <2>1, SeenAlways DEF Seen
    <2> QED BY <2>1, <2>2, <2>3 DEF Hidden, Promise!vars
  <1> QED BY <1>2, <1>3

\* The regions are a listing of the defects, and one of them is to be
\* rejected iff a defect is severe.
LEMMA RegionsListed ==
    ASSUME IInv, stage = "measure", queue = <<>>
    PROVE  /\ result.regions \in Promise!Listings(deviation, coverage)
           /\ HasReject <=> \E d \in Promise!Defects(deviation, coverage) : Promise!Severe(d, deviation)
  <1>1. Evidence = EvidenceOf(scan, edges.scan, metrics)
    BY SeenAlways DEF Seen, AfterTransform
  <1>2. Evidence.scan = scan
    BY <1>1 DEF EvidenceOf
  <1>3. Promise!Defects(deviation, coverage) = Found(scan, deviation, coverage)
    BY <1>2, SameDetection, SameSurfaces DEF Promise!Defects, Found
  <1>4. Shaped(scan) /\ FieldsOf(deviation, coverage, edges.reference, scan, edges.scan)
    BY ScanShaped DEF IInv, Fields, AfterTransform, AfterCompare
  <1>5. PICK o \in Plans(scan, deviation, coverage) : \E n \in 0 .. Len(o) :
            /\ result.regions = [k \in 1 .. n |-> RegionOf(o[k], k - 1)]
            /\ queue = [k \in 1 .. Len(o) - n |-> o[n + k]]
    BY DEF IInv, Measuring
  <1>6. PICK n \in 0 .. Len(o) :
            /\ result.regions = [k \in 1 .. n |-> RegionOf(o[k], k - 1)]
            /\ queue = [k \in 1 .. Len(o) - n |-> o[n + k]]
    BY <1>5
  <1> DEFINE D == Found(scan, deviation, coverage)
  <1>7. /\ o \in Orders(D) /\ o \in Seq(D) /\ Len(o) \in Nat /\ DOMAIN o = 1 .. Len(o)
        /\ \A k \in 1 .. Len(o) : Measurable(o[k], scan, deviation)
        /\ \A j, k \in DOMAIN o : j < k => Promise!Rank(o[j].type) <= Promise!Rank(o[k].type)
        /\ \A k \in D : \E i \in DOMAIN o : o[i] = k
    BY <1>4, PlanMeans
  <1>8. n = Len(o)
    BY <1>6, <1>7, LoopQueue
  <1>9. \A c : Promise!Severe(c, deviation) <=> Grave(c, deviation)
    BY SameDetection DEF Promise!Severe, Grave
  <1>10. ASSUME NEW k \in 1 .. Len(o)
         PROVE  RegionOf(o[k], k - 1) =
                  [id |-> k - 1, type |-> o[k].type, points |-> o[k].points,
                   maxAbs |-> Promise!Largest(o[k], deviation),
                   severity |-> IF Promise!Severe(o[k], deviation) THEN "reject" ELSE "warning"]
    <2>1. DefaultSeverity(o[k].type, MaxAbs(o[k], deviation))
            = IF Grave(o[k], deviation) THEN "reject" ELSE "warning"
      BY <1>7, SeverityMeans DEF Measurable
    <2>2. Promise!Largest(o[k], deviation) = MaxAbs(o[k], deviation)
      BY SameDetection DEF Promise!Largest
    <2> QED BY <1>9, <2>1, <2>2 DEF RegionOf
  <1> DEFINE R(k) == [id |-> k - 1, type |-> o[k].type, points |-> o[k].points,
                      maxAbs |-> Promise!Largest(o[k], deviation),
                      severity |-> IF Promise!Severe(o[k], deviation) THEN "reject" ELSE "warning"]
  <1>11. \A k \in 1 .. Len(o) : R(k).severity = "reject" <=> Promise!Severe(o[k], deviation)
    OBVIOUS
  <1>12. result.regions = [k \in DOMAIN o |-> R(k)]
    <2> HIDE DEF R
    <2>1. \A k \in 1 .. Len(o) : RegionOf(o[k], k - 1) = R(k)
      BY <1>10 DEF R
    <2> QED BY <1>6, <1>7, <1>8, <2>1
  <1>13. result.regions \in Promise!Listings(deviation, coverage)
    <2> DEFINE P == {p \in Promise!Orders(Promise!Defects(deviation, coverage)) :
                       \A j, k \in DOMAIN p : j < k => Promise!Rank(p[j].type) <= Promise!Rank(p[k].type)}
    <2>1. o \in P
      BY <1>3, <1>7, SameDetection
    <2> HIDE DEF P
    <2>2. [k \in DOMAIN o |-> R(k)] \in Promise!Listings(deviation, coverage)
      BY <2>1 DEF Promise!Listings, P
    <2> HIDE DEF R
    <2> QED BY <1>12, <2>2
  <1>14. HasReject <=> \E d \in Promise!Defects(deviation, coverage) : Promise!Severe(d, deviation)
    <2> HIDE DEF R, D
    <2>1. HasReject <=> \E k \in DOMAIN o : R(k).severity = "reject"
      BY <1>12 DEF HasReject
    <2>2. (\E k \in DOMAIN o : Promise!Severe(o[k], deviation)) <=> \E d \in D : Promise!Severe(d, deviation)
      BY <1>7
    <2> QED BY <1>3, <1>7, <1>11, <2>1, <2>2 DEF D
  <1> QED BY <1>13, <1>14

LEMMA FinalizePromised ==
    ASSUME IInv, Finalize
    PROVE  Promise!Judge
  <1>1. /\ stage = "measure" /\ queue = <<>>
        /\ Return(Report(Decided(Timed(result, "detect"), Verdict)))
        /\ UNCHANGED <<context, request, scan, edges, metrics, deviation, coverage>>
    BY DEF Finalize, Decided
  <1>2. Phase = "settled" /\ Evidence = EvidenceOf(scan, edges.scan, metrics)
    BY <1>1, SeenAlways DEF Seen, AfterTransform
  <1>3. Evidence.scan = scan /\ Evidence.edges = edges.scan /\ Evidence.metrics = metrics
    BY <1>2 DEF EvidenceOf
  <1>4. Promise!WithinGate(metrics)
    <2>1. metrics \in Solutions /\ GateFailure(metrics) = "none"
      BY <1>1 DEF IInv, Evolution, AfterTransform, SettledStages
    <2> QED BY <2>1, GateMeans
  <1>5. FieldsOf(deviation, coverage, edges.reference, scan, edges.scan)
    BY <1>1 DEF IInv, Fields, AfterCompare
  <1>6. PICK f \in Pairings(PreparedReference, scan), g \in Pairings(scan, PreparedReference) :
            /\ deviation = DeviationField(PreparedReference, edges.reference, scan, f)
            /\ coverage = CoverageField(PreparedReference, scan, edges.scan, g)
    BY <1>5 DEF FieldsOf
  <1>7. /\ f \in Promise!Pairings(Promise!Compared, Evidence.scan)
        /\ g \in Promise!Pairings(Evidence.scan, Promise!Compared)
        /\ deviation = Promise!DeviationField(Promise!Compared, edges.reference, Evidence.scan, f)
        /\ coverage = Promise!CoverageField(Promise!Compared, Evidence.scan, Evidence.edges, g)
    BY <1>3, <1>6, SameFields, SameSurfaces
  <1> DEFINE r == result.regions
             v == Verdict
             m == Remarks
  <1>8. r \in Promise!Listings(deviation, coverage)
    BY <1>1, RegionsListed
  <1>9. v = Promise!Judgement(deviation, coverage)
    BY <1>1, RegionsListed, SameFields DEF Verdict, Promise!Judgement
  <1>10. m = IF Promise!CoverageBelow(coverage) THEN Append(Promise!PoseNote, "insufficient_coverage")
             ELSE Promise!PoseNote
    BY SameFields DEF Remarks, Note, Promise!PoseNote
  <1>11. result = Draft(Clocked(7), m, r)
    BY <1>1 DEF IInv, Drafted
  <1> DEFINE t == <<"normalize", "preprocess", "registration", "registration_gate",
                    "transform", "compare", "coverage_gate", "detect">>
  <1>12. Clocked(8) = t
    BY ClockSteps DEF StageOrder
  <1> HIDE DEF r, v, m, t
  <1>13. Timed(result, "detect") = Draft(t, m, r)
    <2>1. Timed(Draft(Clocked(7), m, r), "detect") = Draft(Append(Clocked(7), "detect"), m, r)
      BY DraftSteps
    <2> QED BY <1>11, <1>12, <2>1, ClockSteps
  <1>14. Decided(Draft(t, m, r), v) = Final(t, m, r, v, "none")
    BY DraftEnds
  <1>15. Final(t, m, r, v, "none") = [verdict |-> v, gate |-> "none", regions |-> r, diagnostics |-> m,
                                      timings |-> t, finalPose |-> TRUE]
    <2> DEFINE yes == TRUE
    <2>1. Final(t, m, r, v, "none") = [verdict |-> v, diagnostics |-> m, timings |-> t, regions |-> r,
                                       gate |-> "none", finalPose |-> yes]
      BY DEF Final
    <2> SUFFICES Final(t, m, r, v, "none") = [verdict |-> v, gate |-> "none", regions |-> r, diagnostics |-> m,
                                              timings |-> t, finalPose |-> yes]
      OBVIOUS
    <2> HIDE DEF yes
    <2> QED BY <2>1
  <1> DEFINE a == [kind |-> "report", report |->
                     [verdict |-> v, gate |-> "none", regions |-> r, diagnostics |-> m,
                      timings |-> t, finalPose |-> TRUE]]
  <1>16. stage' = "returned" /\ outcome' = a
    <2>1. stage' = "returned" /\ outcome' = Report(Decided(Timed(result, "detect"), v))
      BY <1>1 DEF Return, v
    <2>2. outcome' = Report(Final(t, m, r, v, "none"))
      BY <1>13, <1>14, <2>1
    <2> QED BY <1>15, <2>1, <2>2 DEF Report
  <1> HIDE DEF a
  <1>17. Promise!Answer(a)
    BY <1>16, SeenAlways DEF Seen, Promise!Answer, Promise!Nothing, Nothing
  <1> DEFINE J(d, c) ==
               \E regions \in Promise!Listings(d, c) :
                 Promise!Answer([kind |-> "report", report |->
                   [verdict |-> Promise!Judgement(d, c), gate |-> "none", regions |-> regions,
                    diagnostics |-> IF Promise!CoverageBelow(c) THEN Append(Promise!PoseNote, "insufficient_coverage")
                                    ELSE Promise!PoseNote,
                    timings |-> <<"normalize", "preprocess", "registration", "registration_gate",
                                  "transform", "compare", "coverage_gate", "detect">>,
                    finalPose |-> TRUE]])
  <1>18. J(deviation, coverage)
    <2>1. a = [kind |-> "report", report |->
               [verdict |-> Promise!Judgement(deviation, coverage), gate |-> "none", regions |-> r,
                diagnostics |-> IF Promise!CoverageBelow(coverage)
                                THEN Append(Promise!PoseNote, "insufficient_coverage")
                                ELSE Promise!PoseNote,
                timings |-> <<"normalize", "preprocess", "registration", "registration_gate",
                              "transform", "compare", "coverage_gate", "detect">>,
                finalPose |-> TRUE]]
      BY <1>9, <1>10, Zenon DEF a, t
    <2> QED BY <1>8, <1>17, <2>1
  <1>19. UNCHANGED <<context, request, edges.reference>>
    BY <1>1
  <1> HIDE DEF J
  <1>20. J(Promise!DeviationField(Promise!Compared, edges.reference, Evidence.scan, f),
           Promise!CoverageField(Promise!Compared, Evidence.scan, Evidence.edges, g))
    BY <1>7, <1>18
  <1>21. \E x \in Promise!Pairings(Promise!Compared, Evidence.scan),
            y \in Promise!Pairings(Evidence.scan, Promise!Compared) :
             J(Promise!DeviationField(Promise!Compared, edges.reference, Evidence.scan, x),
               Promise!CoverageField(Promise!Compared, Evidence.scan, Evidence.edges, y))
    BY <1>7, <1>20
  <1> QED BY <1>2, <1>3, <1>4, <1>19, <1>21 DEF Promise!Judge, J

LEMMA NextPromised == IInv /\ [Next]_vars => [Promise!Next]_Promise!vars
  <1> SUFFICES ASSUME IInv, [Next]_vars PROVE Promise!Next \/ Hidden
    BY DEF Hidden
  <1>1. CASE UNCHANGED vars
    BY <1>1 DEF vars, Hidden, Promise!vars, Phase, Evidence
  <1>2. CASE \E s \in Scans, p \in {"absent", "matching", "mismatched"}, c \in BOOLEAN : Begin(s, p, c)
    BY <1>2, BeginPromised DEF Promise!Next
  <1>3. CASE CreateContext \/ MoveContext \/ Deliver
    BY <1>3, CallerPromised DEF Promise!Next
  <1>4. CASE Work
    BY <1>4, PreparationPromised, RegistrationPromised, GatePromised, ComparisonPromised, FinalizePromised
       DEF Work, Promise!Next
  <1> QED BY <1>1, <1>2, <1>3, <1>4 DEF Next

\* run_impl and the two ways into it implement the promise of Inspection:
\* every step of the stages, failures included, is a step that the caller may
\* expect or is invisible to the caller.
THEOREM Implementation == Spec => Implements
  BY InitPromised, NextPromised, Inductive, PTL DEF Spec, Implements, Promise!Spec
=============================================================================

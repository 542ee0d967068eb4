------------------------- MODULE SurfaceStoreProofs -------------------------
(***************************************************************************)
(* Proofs about SurfaceStore for any arrays, grids, transforms, files and  *)
(* any number of calls: whatever the library returns honours its contract, *)
(* every valid point can be traced to where it came from, files read back, *)
(* and masks, voxel lists and boundary flags mean what they say.           *)
(***************************************************************************)
EXTENDS SurfaceStore, FiniteSetTheorems, FunctionTheorems, SequenceTheorems, WellFoundedInduction, NaturalsInduction, TLAPS

-----------------------------------------------------------------------------
(***************************************************************************)
(* Numbers                                                                 *)
(***************************************************************************)
\* Induction, as a property of sets.
LEMMA NaturalsReached ==
    ASSUME NEW T \in SUBSET Nat, 0 \in T, \A n \in T : n + 1 \in T
    PROVE  T = Nat
  <1> SUFFICES ASSUME Nat \ T # {} PROVE FALSE
    OBVIOUS
  <1>1. PICK x \in Nat \ T : \A y \in Nat \ T : ~(<<y, x>> \in OpToRel(<, Nat))
    BY WFMin, NatLessThanWellFounded
  <1>2. x # 0 /\ x - 1 \in Nat /\ x - 1 < x /\ (x - 1) + 1 = x
    OBVIOUS
  <1>3. x - 1 \in T
    BY <1>1, <1>2 DEF OpToRel
  <1> QED BY <1>2, <1>3

LEMMA Division ==
    ASSUME NEW w \in Nat \ {0}, NEW k \in Int
    PROVE  /\ k \div w \in Int /\ k % w \in 0 .. w - 1
           /\ k = (k \div w) * w + (k % w)
  OBVIOUS

LEMMA Quotient ==
    ASSUME NEW w \in Nat \ {0}, NEW h \in Nat, NEW k \in Nat, k < w * h
    PROVE  k \div w \in 0 .. h - 1
  OBVIOUS

LEMMA DivisionUnique ==
    ASSUME NEW w \in Nat \ {0}, NEW r \in Int, NEW c \in 0 .. w - 1
    PROVE  (r * w + c) \div w = r /\ (r * w + c) % w = c
  <1> DEFINE q == (r * w + c) \div w
             m == (r * w + c) % w
  <1>1. q \in Int /\ m \in 0 .. w - 1 /\ r * w + c = q * w + m
    BY Division
  <1> HIDE DEF q, m
  <1>2. c \in Int /\ m \in Int /\ 0 <= c /\ c < w /\ 0 <= m /\ m < w /\ w \in Int /\ w > 0
    BY <1>1
  <1> DEFINE d == r - q
  <1>3. d \in Int /\ d * w = m - c
    BY <1>1, <1>2
  <1> HIDE DEF d
  <1>4. ~(d >= 1)
    <2> SUFFICES ASSUME d >= 1 PROVE FALSE
      OBVIOUS
    <2>1. d * w >= w
      BY <1>2, <1>3
    <2> QED BY <1>2, <1>3, <2>1
  <1>5. ~(d <= -1)
    <2> SUFFICES ASSUME d <= -1 PROVE FALSE
      OBVIOUS
    <2>1. d * w <= -w
      BY <1>2, <1>3
    <2> QED BY <1>2, <1>3, <2>1
  <1>6. d = 0
    BY <1>3, <1>4, <1>5
  <1>7. r = q
    BY <1>1, <1>6 DEF d
  <1> QED BY <1>1, <1>2, <1>7 DEF q, m

LEMMA Constants ==
    /\ Scale \in Nat \ {0} /\ MaxFloat \in Nat /\ MaxSize \in Nat \ {0} /\ KeyLimit \in Nat
    /\ NaN \in Nat /\ NaN > MaxFloat /\ NaN # 0
    /\ Estimates \subseteq -1 .. 1
    /\ Misread \subseteq Int /\ Misread # {}
    /\ MaxUInt32 \in Nat \ {0} /\ Precise \in Nat
    /\ PlainStep \in Nat \ {0} /\ PlainStep <= MaxUInt32 /\ NormalStep \in Nat \ {0} /\ NormalStep <= MaxUInt32
  BY SurfaceAssumption

\* What 32 bits can hold is not changed by a conversion.
LEMMA Narrowed ==
    ASSUME NEW n \in Nat
    PROVE  /\ uint32(n) \in 0 .. MaxUInt32
           /\ uint32(n) = n <=> n <= MaxUInt32
  <1>1. MaxUInt32 \in Nat
    BY Constants
  <1> QED BY <1>1 DEF uint32

-----------------------------------------------------------------------------
(***************************************************************************)
(* Arrays and grids                                                        *)
(***************************************************************************)
LEMMA SizeOfInterval ==
    ASSUME NEW n \in Nat
    PROVE  IsFiniteSet(0 .. n - 1) /\ Cardinality(0 .. n - 1) = n
  <1>1. 0 \in Int /\ n - 1 \in Int
    OBVIOUS
  <1>2. IsFiniteSet(0 .. n - 1) /\ Cardinality(0 .. n - 1) = IF 0 > n - 1 THEN 0 ELSE n - 1 - 0 + 1
    BY <1>1, FS_Interval
  <1> QED BY <1>2

LEMMA EmptyArray == IsArray(Empty) /\ Size(Empty) = 0
  <1>1. DOMAIN Empty = {}
    BY DEF Empty
  <1>2. Size(Empty) = 0
    BY <1>1, FS_EmptySet DEF Size
  <1>3. 0 .. 0 - 1 = {}
    OBVIOUS
  <1>4. Empty = [i \in 0 .. 0 - 1 |-> Empty[i]]
    BY <1>3 DEF Empty
  <1> QED BY <1>2, <1>3, <1>4 DEF IsArray

LEMMA ArrayMeans ==
    ASSUME NEW a, IsArray(a)
    PROVE  /\ Size(a) \in Nat
           /\ DOMAIN a = 0 .. Size(a) - 1
           /\ \A i \in DOMAIN a : a[i] \in Int
           /\ \A i : At(a, i) \in Int
           /\ a = Empty <=> Size(a) = 0
  <1>1. Size(a) \in Nat /\ a = [i \in 0 .. Size(a) - 1 |-> a[i]] /\ \A i \in 0 .. Size(a) - 1 : a[i] \in Int
    BY DEF IsArray
  <1>2. DOMAIN a = 0 .. Size(a) - 1
    BY <1>1
  <1>3. ASSUME Size(a) = 0 PROVE a = Empty
    <2>1. 0 .. Size(a) - 1 = {}
      BY <1>3
    <2> QED BY <1>1, <2>1 DEF Empty
  <1> QED BY <1>1, <1>2, <1>3, EmptyArray DEF At

LEMMA MakeArray ==
    ASSUME NEW n \in Nat, NEW a, DOMAIN a = 0 .. n - 1, a = [i \in 0 .. n - 1 |-> a[i]],
           \A i \in 0 .. n - 1 : a[i] \in Int
    PROVE  IsArray(a) /\ Size(a) = n
  <1>1. Size(a) = n
    BY SizeOfInterval DEF Size
  <1> QED BY <1>1 DEF IsArray

\* The part of the contract that values do not enter.
Shaped(s) ==
    /\ IsSurface(s)
    /\ s.points # Empty
    /\ Size(s.normals) \in {0, Size(s.points)}
    /\ Size(s.valid) \in {0, Size(s.points)}
    /\ \A g \in s.grid :
          /\ g.width > 0 /\ g.height > 0
          /\ g.row_stride >= g.width
          /\ storage_fits(g)
          /\ Size(s.points) = ((g.height - 1) * g.row_stride + g.width) % (MaxSize + 1)

Contract(s) == IsSurface(s) /\ validate_surface_data(s)

LEMMA ContractShaped == \A s : Contract(s) => Shaped(s)
  BY DEF Contract, Shaped, validate_surface_data

\* The size of the storage is what it seems.
LEMMA Layout ==
    ASSUME NEW s, Shaped(s)
    PROVE  /\ Width(s) \in Nat \ {0} /\ Height(s) \in Nat \ {0} /\ Stride(s) \in Nat \ {0}
           /\ Stride(s) >= Width(s)
           /\ Size(s.points) \in Nat \ {0}
           /\ Size(s.points) = (Height(s) - 1) * Stride(s) + Width(s)
  <1>1. Size(s.points) \in Nat \ {0}
    BY ArrayMeans DEF Shaped, IsSurface
  <1>2. CASE s.grid = {}
    BY <1>1, <1>2 DEF Width, Height, Stride
  <1>3. CASE s.grid # {}
    <2> DEFINE g == The(s.grid)
               w == g.width
               h == g.height
               t == g.row_stride
    <2>1. g \in s.grid /\ w \in Nat /\ h \in Nat /\ t \in Nat
      BY <1>3, Constants DEF Shaped, IsSurface
    <2>2. /\ w > 0 /\ h > 0 /\ t >= w
          /\ h - 1 <= (MaxSize - w) \div t
          /\ Size(s.points) = ((h - 1) * t + w) % (MaxSize + 1)
      BY <2>1 DEF Shaped, storage_fits
    <2>3. Width(s) = w /\ Height(s) = h /\ Stride(s) = t
      BY <1>3 DEF Width, Height, Stride
    <2> HIDE DEF g, w, h, t
    <2>4. MaxSize \in Nat /\ t \in Nat \ {0} /\ MaxSize - w \in Int /\ h - 1 \in Nat
      BY <2>1, <2>2, Constants
    <2>5. (h - 1) * t <= MaxSize - w
      <3> DEFINE a == MaxSize - w
                 b == h - 1
      <3>1. a \in Int /\ b \in Int /\ t \in Nat \ {0} /\ b <= a \div t
        BY <2>2, <2>4
      <3> HIDE DEF a, b
      <3>2. b * t <= a
        BY <3>1
      <3> QED BY <3>2 DEF a, b
    <2>6. (h - 1) * t \in Nat
      BY <2>4
    <2> DEFINE n == (h - 1) * t + w
    <2>7. n \in Nat /\ n <= MaxSize
      BY <2>1, <2>4, <2>5, <2>6
    <2>8. n % (MaxSize + 1) = n
      <3> HIDE DEF n
      <3> QED BY <2>4, <2>7
    <2> QED BY <1>1, <2>1, <2>2, <2>3, <2>8
  <1> QED BY <1>2, <1>3

LEMMA SlotInside ==
    ASSUME NEW s, Shaped(s), NEW k \in Ordinals(s)
    PROVE  /\ k \in Nat
           /\ k \div Width(s) \in 0 .. Height(s) - 1
           /\ k % Width(s) \in 0 .. Width(s) - 1
           /\ Slot(s, k) \in Nat
           /\ Slot(s, k) \in DOMAIN s.points
  <1> DEFINE w == Width(s)
             h == Height(s)
             t == Stride(s)
             q == k \div Width(s)
             m == k % Width(s)
  <1>1. w \in Nat \ {0} /\ h \in Nat \ {0} /\ t \in Nat \ {0} /\ t >= w
        /\ Size(s.points) = (h - 1) * t + w /\ Size(s.points) \in Nat
    BY Layout
  <1>2. k \in 0 .. w * h - 1
    BY DEF Ordinals
  <1>3. k \in Nat /\ k < w * h
    BY <1>1, <1>2
  <1>4. q \in 0 .. h - 1 /\ m \in 0 .. w - 1
    BY <1>1, <1>3, Quotient, Division
  <1>5. Slot(s, k) = q * t + m
    BY DEF Slot
  <1>6. DOMAIN s.points = 0 .. Size(s.points) - 1
    BY ArrayMeans DEF Shaped, IsSurface
  <1> HIDE DEF w, h, t, q, m
  <1>7. q * t \in Nat /\ q * t <= (h - 1) * t
    <2>1. q \in Nat /\ t \in Nat /\ h - 1 \in Nat /\ q <= h - 1
      BY <1>1, <1>4
    <2> QED BY <2>1
  <1>8. (h - 1) * t \in Nat
    BY <1>1
  <1>9. q * t + m \in Nat /\ q * t + m < (h - 1) * t + w
    BY <1>1, <1>4, <1>7, <1>8
  <1> QED BY <1>1, <1>3, <1>4, <1>5, <1>6, <1>9 DEF w, h, q, m

\* No two points of a grid share a slot.
LEMMA SlotInjective ==
    ASSUME NEW s, Shaped(s), NEW j \in Ordinals(s), NEW k \in Ordinals(s), Slot(s, j) = Slot(s, k)
    PROVE  j = k
  <1> DEFINE w == Width(s)
             t == Stride(s)
  <1>1. w \in Nat \ {0} /\ t \in Nat \ {0} /\ t >= w
    BY Layout
  <1>2. /\ j \in Nat /\ j \div w \in Int /\ j % w \in 0 .. w - 1
        /\ k \in Nat /\ k \div w \in Int /\ k % w \in 0 .. w - 1
    BY <1>1, SlotInside, Division
  <1>3. (j \div w) * t + (j % w) = (k \div w) * t + (k % w)
    BY DEF Slot
  <1>4. j % w \in 0 .. t - 1 /\ k % w \in 0 .. t - 1
    BY <1>1, <1>2
  <1> HIDE DEF w, t
  <1>5. j \div w = k \div w /\ j % w = k % w
    <2>1. ((j \div w) * t + (j % w)) \div t = j \div w /\ ((j \div w) * t + (j % w)) % t = j % w
      BY <1>1, <1>2, <1>4, DivisionUnique
    <2>2. ((k \div w) * t + (k % w)) \div t = k \div w /\ ((k \div w) * t + (k % w)) % t = k % w
      BY <1>1, <1>2, <1>4, DivisionUnique
    <2> QED BY <1>3, <2>1, <2>2
  <1>6. j = (j \div w) * w + (j % w) /\ k = (k \div w) * w + (k % w)
    BY <1>1, <1>2, Division
  <1> QED BY <1>5, <1>6

-----------------------------------------------------------------------------
(***************************************************************************)
(* Surfaces                                                                *)
(***************************************************************************)
IsGrids(g) == \/ g = {}
              \/ /\ g = {The(g)}
                 /\ The(g) \in [width : 0 .. MaxUInt32, height : 0 .. MaxUInt32, row_stride : 0 .. MaxUInt32]

LEMMA Fields ==
    ASSUME NEW p, NEW n, NEW v, NEW g, NEW u, NEW f
    PROVE  LET s == SurfaceData(p, n, v, g, u, f)
           IN  /\ s.points = p /\ s.normals = n /\ s.valid = v /\ s.grid = g /\ s.unit = u /\ s.frame = f
               /\ IsSurface(s) <=> IsArray(p) /\ IsArray(n) /\ IsArray(v) /\ IsGrids(g)
  BY DEF SurfaceData, IsSurface, IsGrids

LEMMA SurfaceParts ==
    ASSUME NEW s, IsSurface(s)
    PROVE  IsArray(s.points) /\ IsArray(s.normals) /\ IsArray(s.valid) /\ IsGrids(s.grid)
  BY DEF IsSurface, IsGrids

LEMMA CreatedMeans ==
    ASSUME NEW s, NEW t
    PROVE  t \in Created(s) <=> t = s /\ validate_surface_data(s)
  BY DEF Created

\* Where a shape comes from: sizes and the grid.
LEMMA SameLayout ==
    ASSUME NEW s, NEW t, t.grid = s.grid, Size(t.points) = Size(s.points)
    PROVE  /\ Width(t) = Width(s) /\ Height(t) = Height(s) /\ Stride(t) = Stride(s)
           /\ Ordinals(t) = Ordinals(s) /\ Logical(t) = Logical(s)
           /\ \A k : Slot(t, k) = Slot(s, k)
  <1>1. Width(t) = Width(s) /\ Height(t) = Height(s) /\ Stride(t) = Stride(s)
    BY DEF Width, Height, Stride
  <1>2. Ordinals(t) = Ordinals(s) /\ \A k : Slot(t, k) = Slot(s, k)
    BY <1>1 DEF Ordinals, Slot
  <1> QED BY <1>1, <1>2 DEF Logical

\* Arrays that are there have an element for every point.
LEMMA Present ==
    ASSUME NEW s, Shaped(s)
    PROVE  /\ DOMAIN s.points = 0 .. Size(s.points) - 1
           /\ s.valid # Empty => DOMAIN s.valid = DOMAIN s.points
           /\ s.normals # Empty => DOMAIN s.normals = DOMAIN s.points
           /\ Logical(s) \subseteq DOMAIN s.points
           /\ \A i \in DOMAIN s.points : s.points[i] \in Int /\ At(s.points, i) = s.points[i]
  <1>1. IsArray(s.points) /\ IsArray(s.normals) /\ IsArray(s.valid)
    BY DEF Shaped, IsSurface
  <1>2. Logical(s) \subseteq DOMAIN s.points
    BY SlotInside DEF Logical
  <1> QED BY <1>1, <1>2, ArrayMeans DEF Shaped, At

\* What a caller may rely on.
LEMMA ContractMeans ==
    ASSUME NEW s, Contract(s), NEW k \in Ordinals(s)
    PROVE  LET i == Slot(s, k) IN
           /\ i \in DOMAIN s.points
           /\ s.valid # Empty => i \in DOMAIN s.valid /\ s.valid[i] \in {0, 1}
           /\ input_valid(s, i) => /\ Finite(s.points[i])
                                   /\ s.normals # Empty => i \in DOMAIN s.normals /\ Finite(s.normals[i])
  <1> DEFINE i == Slot(s, k)
  <1>1. Shaped(s)
    BY ContractShaped
  <1>2. i \in DOMAIN s.points /\ i \in Logical(s)
    BY <1>1, SlotInside DEF Logical
  <1>3. /\ At(s.valid, i) \in {0, 1}
        /\ input_valid(s, i) => Finite(At(s.points, i)) /\ Finite(At(s.normals, i))
    BY <1>2 DEF Contract, validate_surface_data
  <1>4. /\ s.valid # Empty => DOMAIN s.valid = DOMAIN s.points
        /\ s.normals # Empty => DOMAIN s.normals = DOMAIN s.points
    BY <1>1, Present
  <1> QED BY <1>2, <1>3, <1>4 DEF At

-----------------------------------------------------------------------------
(***************************************************************************)
(* Where points come from                                                  *)
(***************************************************************************)
IsOrigin(o) ==
    /\ o.rotation \in {1, -1} /\ o.shift \in Int
    /\ o.normalized \in BOOLEAN /\ o.carried \in BOOLEAN
    /\ \A k \in DOMAIN o.samples : o.samples[k].x \in Int /\ o.samples[k].n \in Int
    /\ o.normalized => o.unit \in Units
    /\ ~o.normalized => o.rotation = 1 /\ o.shift = 0

\* Where sample k of the origin has been moved.
Place(o, k) == IF o.normalized THEN o.rotation * to_millimeters(o.samples[k].x, o.unit) + o.shift
               ELSE o.samples[k].x

\* Traceable, of one surface.
Trace(s, o) ==
    /\ Ordinals(s) = DOMAIN o.samples
    /\ s.unit = IF o.normalized THEN "millimeter" ELSE o.unit
    /\ \A k \in Ordinals(s) :
          input_valid(s, Slot(s, k)) =>
            /\ o.samples[k].v
            /\ At(s.points, Slot(s, k)) = Place(o, k)
            /\ (o.carried /\ s.normals # Empty) => At(s.normals, Slot(s, k)) = o.rotation * o.samples[k].n

LEMMA OriginFields ==
    ASSUME NEW a, NEW u, NEW r, NEW d, NEW n, NEW c
    PROVE  LET o == Derived(a, u, r, d, n, c)
           IN  /\ o.samples = a /\ o.unit = u /\ o.rotation = r /\ o.shift = d
               /\ o.normalized = n /\ o.carried = c
  BY DEF Derived

LEMMA SamplesAre ==
    ASSUME NEW s
    PROVE  /\ DOMAIN Samples(s) = Ordinals(s)
           /\ \A k \in Ordinals(s) : /\ Samples(s)[k].x = At(s.points, Slot(s, k))
                                     /\ Samples(s)[k].n = At(s.normals, Slot(s, k))
                                     /\ Samples(s)[k].v <=> input_valid(s, Slot(s, k))
  BY DEF Samples

LEMMA Millimeters ==
    ASSUME NEW v \in Int, NEW u \in Units
    PROVE  /\ to_millimeters(v, u) \in Int
           /\ u = "millimeter" => to_millimeters(v, u) = v
  <1>1. Scale \in Nat \ {0}
    BY Constants
  <1>2. v * Scale \in Int /\ v \div Scale \in Int
    BY <1>1
  <1> QED BY <1>2 DEF Units, to_millimeters

\* A new surface traces to itself.
LEMMA TraceStart ==
    ASSUME NEW s, IsSurface(s)
    PROVE  IsOrigin(Unchanged(s)) /\ Trace(s, Unchanged(s))
  <1> DEFINE o == Unchanged(s)
  <1>1. /\ o.samples = Samples(s) /\ o.unit = s.unit /\ o.rotation = 1 /\ o.shift = 0
        /\ o.normalized = FALSE /\ o.carried = TRUE
    BY DEF Unchanged, Derived
  <1>2. \A i : At(s.points, i) \in Int /\ At(s.normals, i) \in Int
    BY SurfaceParts, ArrayMeans
  <1> HIDE DEF o
  <1>3. IsOrigin(o)
    <2>1. \A k \in DOMAIN o.samples : o.samples[k].x \in Int /\ o.samples[k].n \in Int
      BY <1>1, <1>2, SamplesAre
    <2>2. o.normalized \in BOOLEAN /\ o.carried \in BOOLEAN
      BY <1>1
    <2> QED BY <1>1, <2>1, <2>2 DEF IsOrigin
  <1>4. \A k \in Ordinals(s) : Place(o, k) = At(s.points, Slot(s, k))
    BY <1>1, SamplesAre DEF Place
  <1>5. \A k \in Ordinals(s) : o.rotation * o.samples[k].n = At(s.normals, Slot(s, k))
    BY <1>1, <1>2, SamplesAre
  <1>6. Trace(s, o)
    BY <1>1, <1>4, <1>5, SamplesAre DEF Trace
  <1> QED BY <1>3, <1>6 DEF o

\* Points that stay where they are, of which some are masked.
LEMMA TraceMasked ==
    ASSUME NEW s, NEW t, NEW o, Trace(s, o),
           t.points = s.points, t.grid = s.grid, t.unit = s.unit,
           \A k \in Ordinals(s) : input_valid(t, Slot(s, k)) => input_valid(s, Slot(s, k)),
           t.normals = s.normals \/ o.carried = FALSE
    PROVE  Trace(t, o)
  <1>1. Ordinals(t) = Ordinals(s) /\ \A k : Slot(t, k) = Slot(s, k)
    BY SameLayout
  <1> QED BY <1>1 DEF Trace

LEMMA TraceReplaced ==
    ASSUME NEW s, NEW o, IsOrigin(o), Trace(s, o)
    PROVE  IsOrigin(Replaced(o)) /\ Trace(s, Replaced(o)) /\ Replaced(o).carried = FALSE
  <1> DEFINE p == Replaced(o)
  <1>1. /\ p.samples = o.samples /\ p.unit = o.unit /\ p.rotation = o.rotation /\ p.shift = o.shift
        /\ p.normalized = o.normalized /\ p.carried = FALSE
    BY DEF Replaced, Derived
  <1> HIDE DEF p
  <1>2. \A k : Place(p, k) = Place(o, k)
    BY <1>1 DEF Place
  <1>3. IsOrigin(p) /\ Trace(s, p)
    BY <1>1, <1>2 DEF IsOrigin, Trace
  <1> QED BY <1>1, <1>3 DEF p

-----------------------------------------------------------------------------
(***************************************************************************)
(* Normalisation                                                           *)
(***************************************************************************)
IsTransform(t) == t = {} \/ (t # {} /\ The(t).rotation \in {1, -1} /\ The(t).translation \in Int)

LEMMA TransformsAre == \A t \in Transforms : IsTransform(t)
  <1> SUFFICES ASSUME NEW t \in Transforms, t # {} PROVE IsTransform(t)
    BY DEF IsTransform
  <1>1. PICK r \in Rotations, d \in Translations, f \in Frames, g \in Frames : t = RigidTransform(r, d, f, g)
    BY DEF Transforms
  <1> DEFINE u == [rotation |-> r, translation |-> d, source |-> f, target |-> g]
  <1>2. t = {u} /\ r * r = 1
    BY <1>1 DEF RigidTransform
  <1>3. The(t) = u
    BY <1>2 DEF The
  <1>4. r \in Int /\ d \in Int
    BY StoreAssumption
  <1>5. r = 1 \/ r = -1
    BY <1>2, <1>4
  <1> QED BY <1>3, <1>4, <1>5 DEF IsTransform

\* Moving what was moved before.
Composes(t, r, d, y) ==
    /\ apply(t, r * y + d) = rotate_vector(t, r) * y + apply(t, d)
    /\ rotate_vector(t, r * y) = rotate_vector(t, r) * y

LEMMA Composition ==
    ASSUME NEW t, IsTransform(t), NEW r \in {1, -1}, NEW d \in Int, NEW y \in Int
    PROVE  /\ rotate_vector(t, r) \in {1, -1} /\ apply(t, d) \in Int /\ rotate_vector(t, y) \in Int
           /\ Composes(t, r, d, y)
  <1>1. CASE t = {}
    BY <1>1 DEF rotate_vector, apply, Composes
  <1>2. CASE t # {}
    <2> DEFINE a == The(t).rotation
               b == The(t).translation
    <2>1. a \in {1, -1} /\ b \in Int
      BY <1>2 DEF IsTransform
    <2>2. \A v : apply(t, v) = a * v + b /\ rotate_vector(t, v) = a * v
      BY <1>2 DEF apply, rotate_vector
    <2> HIDE DEF a, b
    <2>3. a * (r * y + d) + b = (a * r) * y + (a * d + b) /\ a * (r * y) = (a * r) * y
      BY <2>1
    <2>4. a * r \in {1, -1} /\ a * d + b \in Int /\ a * y \in Int
      BY <2>1
    <2> QED BY <2>2, <2>3, <2>4 DEF Composes
  <1> QED BY <1>1, <1>2

LEMMA NormalizeMeans ==
    ASSUME NEW s, Shaped(s), NEW tr, IsTransform(tr), NEW f, NEW t \in normalize_surface(s, f, tr)
    PROVE  /\ Contract(t)
           /\ t.valid = s.valid /\ t.grid = s.grid /\ t.unit = "millimeter" /\ s.unit \in Units
           /\ Size(t.points) = Size(s.points)
           /\ t.normals = Empty <=> s.normals = Empty
           /\ \A i \in Logical(s) : input_valid(s, i) =>
                 /\ At(t.points, i) = apply(tr, to_millimeters(s.points[i], s.unit))
                 /\ s.normals # Empty => At(t.normals, i) = rotate_vector(tr, s.normals[i])
  <1> DEFINE point(i) == IF Finite(At(s.points, i)) THEN apply(tr, to_millimeters(At(s.points, i), s.unit)) ELSE NaN
             normal(i) == IF Finite(s.normals[i]) THEN rotate_vector(tr, s.normals[i]) ELSE NaN
             float(v) == IF fits_float(v) THEN v ELSE NaN
             P == [i \in DOMAIN s.points |-> IF i \in Logical(s) THEN float(point(i)) ELSE s.points[i]]
             N == [i \in DOMAIN s.normals |-> IF i \in Logical(s) THEN normal(i) ELSE s.normals[i]]
             new == SurfaceData(P, N, s.valid, s.grid, "millimeter", f)
  <1>1. /\ Applicable(s, f, tr)
        /\ \A i \in Logical(s) : input_valid(s, i) => fits_float(point(i))
        /\ t \in Created(new)
    BY DEF normalize_surface, Normalization
  <1>2. s.unit \in Units
    BY <1>1 DEF Applicable
  <1>3. IsArray(s.points) /\ IsArray(s.normals) /\ IsArray(s.valid) /\ IsGrids(s.grid)
    BY SurfaceParts DEF Shaped
  <1>4. NaN \in Int /\ NaN # 0
    BY Constants
  <1>5. \A i : point(i) \in Int
    <2>1. \A i : At(s.points, i) \in Int
      BY <1>3, ArrayMeans
    <2>2. \A i : to_millimeters(At(s.points, i), s.unit) \in Int
      BY <1>2, <2>1, Millimeters
    <2>3. \A d \in Int : apply(tr, d) \in Int
      BY Composition
    <2> QED BY <1>4, <2>2, <2>3
  <1> HIDE DEF point
  <1>6. IsArray(P) /\ Size(P) = Size(s.points)
    <2> DEFINE n == Size(s.points)
    <2>1. n \in Nat /\ DOMAIN s.points = 0 .. n - 1 /\ \A i \in 0 .. n - 1 : s.points[i] \in Int
      BY <1>3, ArrayMeans
    <2>2. DOMAIN P = 0 .. n - 1 /\ P = [i \in 0 .. n - 1 |-> P[i]] /\ \A i \in 0 .. n - 1 : P[i] \in Int
      BY <1>4, <1>5, <2>1
    <2> HIDE DEF P, n
    <2>3. IsArray(P) /\ Size(P) = n
      BY <2>1, <2>2, MakeArray
    <2> QED BY <2>3 DEF n
  <1>7. IsArray(N) /\ Size(N) = Size(s.normals)
    <2> DEFINE n == Size(s.normals)
    <2>1. n \in Nat /\ DOMAIN s.normals = 0 .. n - 1 /\ \A i \in 0 .. n - 1 : s.normals[i] \in Int
      BY <1>3, ArrayMeans
    <2>2. \A i \in 0 .. n - 1 : normal(i) \in Int
      <3>1. \A y \in Int : rotate_vector(tr, y) \in Int
        BY Composition
      <3> QED BY <1>4, <2>1, <3>1
    <2>3. DOMAIN N = 0 .. n - 1 /\ N = [i \in 0 .. n - 1 |-> N[i]] /\ \A i \in 0 .. n - 1 : N[i] \in Int
      BY <2>1, <2>2
    <2> HIDE DEF N, n
    <2>4. IsArray(N) /\ Size(N) = n
      BY <2>1, <2>3, MakeArray
    <2> QED BY <2>4 DEF n
  <1>8. t = new /\ validate_surface_data(new)
    BY <1>1, CreatedMeans
  <1>9. /\ t.points = P /\ t.normals = N /\ t.valid = s.valid /\ t.grid = s.grid /\ t.unit = "millimeter"
        /\ IsSurface(t)
    <2> HIDE DEF P, N
    <2> QED BY <1>3, <1>6, <1>7, <1>8, Fields
  <1>10. Contract(t)
    BY <1>8, <1>9 DEF Contract
  <1>11. t.normals = Empty <=> s.normals = Empty
    <2> HIDE DEF N
    <2> QED BY <1>3, <1>7, <1>9, ArrayMeans
  <1>12. ASSUME NEW i \in Logical(s), input_valid(s, i)
         PROVE  /\ At(t.points, i) = apply(tr, to_millimeters(s.points[i], s.unit))
                /\ s.normals # Empty => At(t.normals, i) = rotate_vector(tr, s.normals[i])
    <2>1. i \in DOMAIN s.points /\ At(s.points, i) = s.points[i]
      BY Present
    <2>2. fits_float(point(i))
      BY <1>1, <1>12
    <2>3. point(i) # NaN /\ Finite(At(s.points, i))
      BY <2>2 DEF fits_float, Finite, point
    <2>4. At(t.points, i) = apply(tr, to_millimeters(s.points[i], s.unit))
      BY <1>9, <2>1, <2>2, <2>3 DEF At, point
    <2>5. ASSUME s.normals # Empty PROVE At(t.normals, i) = rotate_vector(tr, s.normals[i])
      <3>1. i \in DOMAIN s.normals
        BY <2>1, <2>5, Present
      <3>2. At(t.normals, i) = normal(i)
        BY <1>9, <3>1 DEF At
      <3>3. Logical(t) = Logical(s)
        <4> HIDE DEF P
        <4> QED BY <1>6, <1>9, SameLayout
      <3>4. input_valid(t, i)
        BY <1>9, <1>12 DEF input_valid
      <3>5. Finite(At(t.normals, i))
        BY <1>10, <3>3, <3>4 DEF Contract, validate_surface_data
      <3> QED BY <3>2, <3>5 DEF Finite
    <2> QED BY <2>4, <2>5
  <1>13. Size(t.points) = Size(s.points)
    BY <1>6, <1>9
  <1> QED BY <1>2, <1>9, <1>10, <1>11, <1>12, <1>13

\* Normalisation composes with whatever moved the points before.
LEMMA TraceNormalized ==
    ASSUME NEW s, Shaped(s), NEW o, IsOrigin(o), Trace(s, o), NEW tr, IsTransform(tr), NEW f,
           NEW t \in normalize_surface(s, f, tr)
    PROVE  IsOrigin(Moved(o, tr)) /\ Trace(t, Moved(o, tr))
  <1> DEFINE p == Moved(o, tr)
  <1>1. /\ p.samples = o.samples /\ p.unit = o.unit /\ p.rotation = rotate_vector(tr, o.rotation)
        /\ p.shift = apply(tr, o.shift) /\ p.normalized = TRUE /\ p.carried = o.carried
    BY DEF Moved, Derived
  <1> HIDE DEF p
  <1>2. /\ Contract(t) /\ t.valid = s.valid /\ t.grid = s.grid /\ t.unit = "millimeter" /\ s.unit \in Units
        /\ Size(t.points) = Size(s.points)
        /\ t.normals = Empty <=> s.normals = Empty
        /\ \A i \in Logical(s) : input_valid(s, i) =>
              /\ At(t.points, i) = apply(tr, to_millimeters(s.points[i], s.unit))
              /\ s.normals # Empty => At(t.normals, i) = rotate_vector(tr, s.normals[i])
    BY NormalizeMeans
  <1>3. o.unit \in Units /\ s.unit = IF o.normalized THEN "millimeter" ELSE o.unit
    BY <1>2 DEF IsOrigin, Trace
  <1>4. o.rotation \in {1, -1} /\ o.shift \in Int
    BY DEF IsOrigin
  <1>5. IsOrigin(p)
    <2>1. p.rotation \in {1, -1} /\ p.shift \in Int
      BY <1>1, <1>4, Composition
    <2>2. p.normalized \in BOOLEAN /\ p.carried \in BOOLEAN
      BY <1>1 DEF IsOrigin
    <2>3. \A k \in DOMAIN p.samples : p.samples[k].x \in Int /\ p.samples[k].n \in Int
      BY <1>1 DEF IsOrigin
    <2> QED BY <1>1, <1>3, <2>1, <2>2, <2>3 DEF IsOrigin
  <1>6. Ordinals(t) = Ordinals(s) /\ \A k : Slot(t, k) = Slot(s, k)
    BY <1>2, SameLayout
  <1>7. ASSUME NEW k \in Ordinals(s), input_valid(s, Slot(s, k))
        PROVE  /\ o.samples[k].v
               /\ At(t.points, Slot(s, k)) = Place(p, k)
               /\ (o.carried /\ t.normals # Empty) => At(t.normals, Slot(s, k)) = p.rotation * o.samples[k].n
    <2> DEFINE i == Slot(s, k)
               x == o.samples[k].x
               n == o.samples[k].n
               y == to_millimeters(o.samples[k].x, o.unit)
    <2>1. i \in Logical(s) /\ i \in DOMAIN s.points /\ At(s.points, i) = s.points[i]
      BY SlotInside, Present DEF Logical
    <2>2. /\ o.samples[k].v /\ s.points[i] = Place(o, k)
          /\ (o.carried /\ s.normals # Empty) => At(s.normals, i) = o.rotation * n
      BY <1>7, <2>1 DEF Trace
    <2>3. x \in Int /\ n \in Int /\ k \in DOMAIN o.samples
      BY DEF IsOrigin, Trace
    <2>4. y \in Int /\ (o.unit = "millimeter" => y = x)
      BY <1>3, <2>3, Millimeters
    <2> HIDE DEF i, x, y, n
    <2>5. to_millimeters(s.points[i], s.unit) = o.rotation * y + o.shift
      <3>1. CASE o.normalized
        <4>1. s.points[i] = o.rotation * y + o.shift /\ s.unit = "millimeter"
          BY <1>3, <2>2, <3>1 DEF Place, y
        <4>2. o.rotation * y + o.shift \in Int
          BY <1>4, <2>4
        <4>3. to_millimeters(s.points[i], s.unit) = s.points[i]
          BY <1>2, <4>1, <4>2, Millimeters
        <4> QED BY <4>1, <4>3
      <3>2. CASE ~o.normalized
        <4>1. s.points[i] = x /\ s.unit = o.unit /\ o.rotation = 1 /\ o.shift = 0
          BY <1>3, <2>2, <3>2 DEF Place, IsOrigin, x
        <4>2. to_millimeters(s.points[i], s.unit) = y
          BY <4>1 DEF y, x
        <4> QED BY <2>4, <4>1, <4>2
      <3> QED BY <3>1, <3>2
    <2>6. At(t.points, i) = p.rotation * y + p.shift
      <3>1. At(t.points, i) = apply(tr, o.rotation * y + o.shift)
        BY <1>2, <1>7, <2>1, <2>5 DEF i
      <3>2. apply(tr, o.rotation * y + o.shift) = rotate_vector(tr, o.rotation) * y + apply(tr, o.shift)
        <4>1. Composes(tr, o.rotation, o.shift, y)
          BY <1>4, <2>4, Composition
        <4> QED BY <4>1 DEF Composes
      <3> QED BY <1>1, <3>1, <3>2
    <2>7. Place(p, k) = p.rotation * y + p.shift
      BY <1>1 DEF Place, y
    <2>8. ASSUME o.carried, t.normals # Empty PROVE At(t.normals, i) = p.rotation * n
      <3>1. s.normals # Empty /\ i \in DOMAIN s.normals
        BY <1>2, <2>1, <2>8, Present
      <3>2. At(t.normals, i) = rotate_vector(tr, s.normals[i])
        BY <1>2, <1>7, <2>1, <3>1 DEF i
      <3>3. s.normals[i] = o.rotation * n
        BY <2>2, <2>8, <3>1 DEF At
      <3>4. rotate_vector(tr, o.rotation * n) = rotate_vector(tr, o.rotation) * n
        <4>1. Composes(tr, o.rotation, o.shift, n)
          BY <1>4, <2>3, Composition
        <4> QED BY <4>1 DEF Composes
      <3> QED BY <1>1, <3>2, <3>3, <3>4
    <2> QED BY <2>2, <2>6, <2>7, <2>8 DEF i, n
  <1>8. \A i : input_valid(t, i) <=> input_valid(s, i)
    BY <1>2 DEF input_valid
  <1>9. Trace(t, p)
    <2>1. Ordinals(t) = DOMAIN p.samples
      BY <1>1, <1>6 DEF Trace
    <2>2. t.unit = IF p.normalized THEN "millimeter" ELSE p.unit
      BY <1>1, <1>2
    <2> QED BY <1>1, <1>6, <1>7, <1>8, <2>1, <2>2 DEF Trace
  <1> QED BY <1>5, <1>9 DEF p

-----------------------------------------------------------------------------
(***************************************************************************)
(* The validity mask                                                       *)
(***************************************************************************)
\* The points a mask has to keep.
Usable(s, roi) == {i \in Logical(s) : /\ input_valid(s, i) /\ Finite(s.points[i]) /\ Finite(At(s.normals, i))
                                      /\ \A r \in roi : s.points[i] \in r.minimum .. r.maximum}

\* A reason that is given is true.
True(s, roi, i, reason) ==
    CASE reason = "none" -> i \in Usable(s, roi)
      [] reason = "row_padding" -> i \notin Logical(s)
      [] reason = "non_finite_point" -> ~Finite(s.points[i])
      [] reason = "non_finite_normal" -> ~Finite(s.normals[i])
      [] reason = "input_masked" -> s.valid[i] # 1
      [] reason = "outside_roi" ->
            /\ input_valid(s, i) /\ Finite(s.points[i]) /\ Finite(At(s.normals, i))
            /\ \E r \in roi : s.points[i] \notin r.minimum .. r.maximum

Kept(t, s, roi) ==
    /\ t.points = s.points /\ t.normals = s.normals /\ t.grid = s.grid /\ t.unit = s.unit
    /\ DOMAIN t.valid = DOMAIN s.points /\ t.valid # Empty
    /\ \A i \in DOMAIN t.valid : t.valid[i] = 1 <=> i \in Usable(s, roi)

IsRegion(roi) == \A r \in roi : r.minimum \in Int /\ r.maximum \in Int

LEMMA ReasonTrue ==
    ASSUME NEW s, Shaped(s), NEW roi, IsRegion(roi), NEW i \in DOMAIN s.points
    PROVE  /\ invalid_reason(s, roi, i) = "none" <=> i \in Usable(s, roi)
           /\ True(s, roi, i, invalid_reason(s, roi, i))
  <1>1. /\ s.points[i] \in Int /\ At(s.points, i) = s.points[i]
        /\ s.valid # Empty => DOMAIN s.valid = DOMAIN s.points
    BY Present
  <1>2. NaN # 0
    BY Constants
  <1>3. \A r \in roi : inside(r, At(s.points, i)) <=> s.points[i] \in r.minimum .. r.maximum
    BY <1>1 DEF inside, IsRegion
  <1>4. invalid_reason(s, roi, i) = "none" <=> i \in Usable(s, roi)
    BY <1>1, <1>3 DEF invalid_reason, Usable
  <1>5. CASE i \notin Logical(s)
    BY <1>4, <1>5 DEF invalid_reason, True
  <1>6. CASE i \in Logical(s) /\ ~Finite(At(s.points, i))
    BY <1>1, <1>4, <1>6 DEF invalid_reason, True
  <1>7. CASE i \in Logical(s) /\ Finite(At(s.points, i)) /\ ~Finite(At(s.normals, i))
    <2>1. ~Finite(s.normals[i])
      BY <1>2, <1>7 DEF Finite, At
    <2> QED BY <1>4, <1>7, <2>1 DEF invalid_reason, True
  <1>8. CASE i \in Logical(s) /\ Finite(At(s.points, i)) /\ Finite(At(s.normals, i)) /\ ~input_valid(s, i)
    <2>1. s.valid[i] # 1
      BY <1>1, <1>8 DEF input_valid, At
    <2> QED BY <1>4, <1>8, <2>1 DEF invalid_reason, True
  <1>9. CASE i \in Logical(s) /\ Finite(At(s.points, i)) /\ Finite(At(s.normals, i)) /\ input_valid(s, i)
    BY <1>1, <1>3, <1>4, <1>9 DEF invalid_reason, True
  <1> QED BY <1>4, <1>5, <1>6, <1>7, <1>8, <1>9

LEMMA MaskMeans ==
    ASSUME NEW s, Shaped(s), NEW roi, IsRegion(roi), NEW r \in apply_validity_mask(s, roi)
    PROVE  /\ Contract(r.surface)
           /\ Kept(r.surface, s, roi)
           /\ r.valid_count = Cardinality(Usable(s, roi))
           /\ \A i \in DOMAIN r.surface.valid : True(s, roi, i, r.reasons[i])
           /\ \A i \in Logical(s) : input_valid(r.surface, i) => input_valid(s, i)
  <1> DEFINE reasons == [i \in DOMAIN s.points |-> invalid_reason(s, roi, i)]
             kept == {i \in DOMAIN s.points : reasons[i] = "none"}
             V == [i \in DOMAIN s.points |-> IF i \in kept THEN 1 ELSE 0]
             new == SurfaceData(s.points, s.normals, V, s.grid, s.unit, s.frame)
             t == r.surface
  <1>1. t \in Created(new) /\ r.reasons = reasons /\ r.valid_count = Cardinality(kept)
    BY DEF apply_validity_mask
  <1>2. t = new /\ validate_surface_data(new)
    BY <1>1, CreatedMeans
  <1>3. kept = Usable(s, roi)
    <2>1. Usable(s, roi) \subseteq DOMAIN s.points
      BY Present DEF Usable
    <2>2. \A i \in DOMAIN s.points : reasons[i] = "none" <=> i \in Usable(s, roi)
      BY ReasonTrue
    <2> QED BY <2>1, <2>2
  <1> DEFINE n == Size(s.points)
  <1>4. n \in Nat \ {0} /\ DOMAIN s.points = 0 .. n - 1
    BY Layout, Present
  <1>5. IsArray(V) /\ Size(V) = n
    <2>1. DOMAIN V = 0 .. n - 1 /\ V = [i \in 0 .. n - 1 |-> V[i]] /\ \A i \in 0 .. n - 1 : V[i] \in Int
      BY <1>4
    <2> HIDE DEF V, n
    <2> QED BY <1>4, <2>1, MakeArray
  <1>6. V # Empty
    <2> HIDE DEF V
    <2> QED BY <1>4, <1>5, ArrayMeans
  <1>7. /\ t.points = s.points /\ t.normals = s.normals /\ t.valid = V /\ t.grid = s.grid /\ t.unit = s.unit
        /\ IsSurface(t)
    <2>1. IsArray(s.points) /\ IsArray(s.normals) /\ IsGrids(s.grid)
      BY SurfaceParts DEF Shaped
    <2> HIDE DEF V
    <2> QED BY <1>2, <1>5, <2>1, Fields
  <1>8. Contract(t)
    BY <1>2, <1>7 DEF Contract
  <1>9. Kept(t, s, roi)
    BY <1>3, <1>6, <1>7 DEF Kept
  <1>10. \A i \in DOMAIN t.valid : True(s, roi, i, r.reasons[i])
    BY <1>1, <1>7, ReasonTrue
  <1>11. \A i \in Logical(s) : input_valid(t, i) => input_valid(s, i)
    BY <1>3, <1>6, <1>7 DEF input_valid, At, Usable
  <1> QED BY <1>1, <1>3, <1>8, <1>9, <1>10, <1>11
-----------------------------------------------------------------------------
(***************************************************************************)
(* Normals                                                                 *)
(***************************************************************************)
\* Directions, one for every point; 0 where there is none.
AreNormals(n, s) == /\ n = [i \in DOMAIN s.points |-> n[i]]
                    /\ \A i \in DOMAIN s.points : n[i] \in {-1, 0, 1}

LEMMA EstimatesAreNormals ==
    ASSUME NEW s, NEW radius, NEW minimum, NEW n \in estimate_normals(s, radius, minimum)
    PROVE  AreNormals(n, s)
  <1> DEFINE able == {i \in Sampled(s) : Cardinality(Neighbors(s, i, radius)) >= (IF minimum < 3 THEN 3 ELSE minimum)}
  <1>1. PICK f \in [able -> Estimates] : n = [i \in DOMAIN s.points |-> IF i \in able THEN f[i] ELSE 0]
    BY DEF estimate_normals
  <1> HIDE DEF able
  <1>2. \A v \in Estimates : v \in {-1, 0, 1}
    <2>1. \A v \in Estimates : v \in Int /\ -1 <= v /\ v <= 1
      BY Constants
    <2> QED BY <2>1
  <1>3. \A i \in able : f[i] \in {-1, 0, 1}
    BY <1>2
  <1> QED BY <1>1, <1>3 DEF AreNormals

LEMMA GivenAreNormals ==
    ASSUME NEW s, Shaped(s), s.normals # Empty
    PROVE  AreNormals(given_normals(s), s)
  <1>1. \A v \in Int : Sign(v) \in {-1, 0, 1}
    BY DEF Sign
  <1>2. \A i \in DOMAIN s.points : s.normals[i] \in Int
    <2>1. IsArray(s.normals)
      BY SurfaceParts DEF Shaped
    <2> QED BY <2>1, Present, ArrayMeans
  <1> QED BY <1>1, <1>2 DEF AreNormals, given_normals

\* The normal of point i points along the hint.
Along(t, hint, i) ==
    \/ hint.mode = "align_direction" /\ t.normals[i] * hint.value > 0
    \/ hint.mode = "toward_viewpoint" /\ t.normals[i] * (hint.value - t.points[i]) > 0

\* The boundary of a prepared surface.
IsBoundary(b, t, radius) ==
    IF t.grid # {} THEN b = detect_grid_boundaries(t, radius) ELSE b \in detect_unorganized_boundaries(t, radius)

\* t is s with normals, the points without one masked.
Prepared(t, s) ==
    /\ Contract(t)
    /\ t.points = s.points /\ t.grid = s.grid /\ t.unit = s.unit
    /\ t.valid # Empty /\ t.normals # Empty
    /\ \A i \in Logical(s) : input_valid(t, i) => input_valid(s, i) /\ t.normals[i] \in {-1, 1}

Proven(t, hint) ==
    /\ \E i \in Logical(t) : input_valid(t, i)
    /\ \A i \in Logical(t) : input_valid(t, i) => Along(t, hint, i)

LEMMA PrepareMeans ==
    ASSUME NEW s, Shaped(s), NEW radius, NEW hint, hint.value \in Int,
           NEW r \in prepare_normals_and_boundaries(s, radius, 3, radius, hint, 1)
    PROVE  /\ Prepared(r.surface, s)
           /\ IsBoundary(r.boundary, r.surface, radius)
           /\ r.orientation_proven => Proven(r.surface, hint)
  <1> DEFINE kept(n) == {i \in Logical(s) : input_valid(s, i) /\ n[i] # 0}
             oriented(n) == {i \in kept(n) : Orientable(s, hint, i)}
             N(n) == [i \in DOMAIN s.points |-> IF i \in oriented(n) /\ n[i] * Toward(s, hint, i) < 0 THEN -n[i] ELSE n[i]]
             V(n) == [i \in DOMAIN s.points |-> IF i \in kept(n) THEN 1 ELSE 0]
             new(n) == SurfaceData(s.points, N(n), V(n), s.grid, s.unit, s.frame)
             reason(n, i) == IF i \in kept(n) THEN "none"
                             ELSE IF i \in Logical(s) /\ input_valid(s, i) THEN "normal_missing" ELSE "input_invalid"
             made(n) == UNION {{[surface |-> t, boundary |-> b,
                                 reasons |-> [i \in DOMAIN s.points |-> reason(n, i)],
                                 orientation_proven |-> kept(n) # {} /\ oriented(n) = kept(n)] :
                                  b \in IF t.grid # {} THEN {detect_grid_boundaries(t, radius)}
                                        ELSE detect_unorganized_boundaries(t, radius)} : t \in Created(new(n))}
             choices == IF s.normals = Empty THEN estimate_normals(s, radius, 3) ELSE {given_normals(s)}
             t == r.surface
  <1>1. /\ r \in UNION {made(n) : n \in choices}
        /\ hint.mode = "unproven" \/ hint.value # 0
    BY DEF prepare_normals_and_boundaries
  <1>2. PICK n \in choices : r \in made(n)
    BY <1>1
  <1>3. AreNormals(n, s)
    BY <1>2, EstimatesAreNormals, GivenAreNormals
  <1> HIDE DEF choices
  <1>4. /\ t \in Created(new(n))
        /\ r.boundary \in IF t.grid # {} THEN {detect_grid_boundaries(t, radius)} ELSE detect_unorganized_boundaries(t, radius)
        /\ r.orientation_proven = (kept(n) # {} /\ oriented(n) = kept(n))
    BY <1>2
  <1>5. t = new(n) /\ validate_surface_data(new(n))
    BY <1>4, CreatedMeans
  <1>6. IsBoundary(r.boundary, t, radius)
    BY <1>4 DEF IsBoundary
  <1> DEFINE z == Size(s.points)
  <1>7. z \in Nat \ {0} /\ DOMAIN s.points = 0 .. z - 1 /\ Logical(s) \subseteq DOMAIN s.points
    BY Layout, Present
  <1>8. IsArray(V(n)) /\ Size(V(n)) = z
    <2>1. DOMAIN V(n) = 0 .. z - 1 /\ V(n) = [i \in 0 .. z - 1 |-> V(n)[i]] /\ \A i \in 0 .. z - 1 : V(n)[i] \in Int
      BY <1>7
    <2> HIDE DEF V, z
    <2> QED BY <1>7, <2>1, MakeArray
  <1>9. IsArray(N(n)) /\ Size(N(n)) = z
    <2>1. \A i \in 0 .. z - 1 : n[i] \in Int /\ -n[i] \in Int
      BY <1>3, <1>7 DEF AreNormals
    <2>2. DOMAIN N(n) = 0 .. z - 1 /\ N(n) = [i \in 0 .. z - 1 |-> N(n)[i]] /\ \A i \in 0 .. z - 1 : N(n)[i] \in Int
      BY <1>7, <2>1
    <2> HIDE DEF N, z
    <2> QED BY <1>7, <2>2, MakeArray
  <1>10. V(n) # Empty /\ N(n) # Empty
    <2> HIDE DEF V, N
    <2> QED BY <1>7, <1>8, <1>9, ArrayMeans
  <1>11. /\ t.points = s.points /\ t.normals = N(n) /\ t.valid = V(n) /\ t.grid = s.grid /\ t.unit = s.unit
         /\ IsSurface(t)
    <2>1. IsArray(s.points) /\ IsGrids(s.grid)
      BY SurfaceParts DEF Shaped
    <2> HIDE DEF V, N
    <2> QED BY <1>5, <1>8, <1>9, <2>1, Fields
  <1>12. Contract(t)
    BY <1>5, <1>11 DEF Contract
  <1>13. \A i \in Logical(s) : input_valid(t, i) <=> i \in kept(n)
    BY <1>7, <1>10, <1>11 DEF input_valid, At
  <1>14. \A i \in Logical(s) : i \in kept(n) => t.normals[i] \in {-1, 1}
    BY <1>3, <1>7, <1>11 DEF AreNormals
  <1>15. Prepared(t, s)
    BY <1>10, <1>11, <1>12, <1>13, <1>14 DEF Prepared
  <1>16. ASSUME r.orientation_proven PROVE Proven(t, hint)
    <2>1. kept(n) # {} /\ oriented(n) = kept(n)
      BY <1>4, <1>16
    <2>2. Logical(t) = Logical(s)
      BY <1>11, SameLayout
    <2>3. ASSUME NEW i \in kept(n) PROVE Along(t, hint, i)
      <3> DEFINE w == Toward(s, hint, i)
                 v == n[i]
      <3>1. Orientable(s, hint, i) /\ i \in DOMAIN s.points /\ s.points[i] \in Int
        BY <1>7, <2>1, <2>3, Present
      <3>2. w \in Int /\ w # 0
        BY <1>1, <3>1 DEF Toward, Orientable
      <3>3. v \in {-1, 1}
        BY <1>3, <2>3, <3>1 DEF AreNormals
      <3>4. t.normals[i] = IF v * w < 0 THEN -v ELSE v
        BY <1>11, <2>1, <3>1
      <3> HIDE DEF v
      <3>5. t.normals[i] * w > 0
        <4> HIDE DEF w
        <4> QED BY <3>2, <3>3, <3>4
      <3> QED BY <1>11, <3>1, <3>5 DEF Along, Toward, Orientable
    <2> QED BY <1>13, <2>1, <2>2, <2>3 DEF Proven
  <1> QED BY <1>6, <1>15, <1>16
-----------------------------------------------------------------------------
(***************************************************************************)
(* Storage without padding                                                 *)
(***************************************************************************)
LEMMA OrganizedGrid ==
    ASSUME NEW w \in Nat \ {0}, NEW h \in Nat \ {0}
    PROVE  /\ (w <= MaxUInt32 /\ h <= MaxUInt32) => IsGrids(Organized(w, h))
           /\ h = 1 => Organized(w, h) = {}
           /\ h > 1 => /\ Organized(w, h) # {}
                       /\ The(Organized(w, h)).width = w
                       /\ The(Organized(w, h)).height = h
                       /\ The(Organized(w, h)).row_stride = w
  <1>1. CASE h = 1
    BY <1>1 DEF Organized, IsGrids
  <1>2. CASE h # 1
    <2> DEFINE g == [width |-> w, height |-> h, row_stride |-> w]
    <2>1. h > 1 /\ Organized(w, h) = {g}
      BY <1>2 DEF Organized
    <2>2. The(Organized(w, h)) = g
      BY <2>1 DEF The
    <2>3. ASSUME w <= MaxUInt32, h <= MaxUInt32
          PROVE  g \in [width : 0 .. MaxUInt32, height : 0 .. MaxUInt32, row_stride : 0 .. MaxUInt32]
      BY <2>3, Constants
    <2> QED BY <1>2, <2>1, <2>2, <2>3 DEF IsGrids
  <1> QED BY <1>1, <1>2

\* Without padding the slot of a point is its place in row-major order.
LEMMA Dense ==
    ASSUME NEW t, NEW w \in Nat \ {0}, NEW h \in Nat \ {0}, t.grid = Organized(w, h), Size(t.points) = w * h
    PROVE  /\ Width(t) = w /\ Height(t) = h
           /\ Ordinals(t) = 0 .. w * h - 1
           /\ Logical(t) = Ordinals(t)
           /\ \A k \in Ordinals(t) : Slot(t, k) = k
  <1>1. Width(t) = w /\ Height(t) = h /\ Stride(t) = w
    <2>1. CASE h = 1
      <3>1. t.grid = {}
        BY <2>1, OrganizedGrid
      <3>2. w * h = w
        BY <2>1
      <3> QED BY <2>1, <3>1, <3>2 DEF Width, Height, Stride
    <2>2. CASE h > 1
      BY <2>2, OrganizedGrid DEF Width, Height, Stride
    <2> QED BY <2>1, <2>2
  <1>2. Ordinals(t) = 0 .. w * h - 1
    BY <1>1 DEF Ordinals
  <1>3. ASSUME NEW k \in Ordinals(t) PROVE Slot(t, k) = k
    <2>1. k \in Int
      BY <1>2
    <2>2. Slot(t, k) = (k \div w) * w + (k % w)
      BY <1>1 DEF Slot
    <2> QED BY <2>1, <2>2, Division
  <1> QED BY <1>1, <1>2, <1>3 DEF Logical

\* The array that is left of a when padding goes.
Compact(s, a) == IF a = Empty THEN Empty ELSE [k \in Ordinals(s) |-> a[Slot(s, k)]]

LEMMA Area ==
    ASSUME NEW s, Shaped(s)
    PROVE  /\ Width(s) * Height(s) \in Nat \ {0}
           /\ Ordinals(s) = 0 .. Width(s) * Height(s) - 1
  <1> DEFINE w == Width(s)
             h == Height(s)
  <1>1. w \in Nat \ {0} /\ h \in Nat \ {0}
    BY Layout
  <1> HIDE DEF w, h
  <1>2. w * h \in Nat \ {0}
    BY <1>1
  <1> QED BY <1>2 DEF w, h, Ordinals

LEMMA CompactArray ==
    ASSUME NEW s, Shaped(s), NEW a, IsArray(a), a = Empty \/ DOMAIN a = DOMAIN s.points
    PROVE  /\ IsArray(Compact(s, a))
           /\ Compact(s, a) = Empty <=> a = Empty
           /\ Size(Compact(s, a)) = IF a = Empty THEN 0 ELSE Width(s) * Height(s)
           /\ \A k \in Ordinals(s) : At(Compact(s, a), k) = At(a, Slot(s, k))
  <1> DEFINE n == Width(s) * Height(s)
             b == Compact(s, a)
  <1>1. n \in Nat \ {0} /\ Ordinals(s) = 0 .. n - 1
    BY Area
  <1>2. CASE a = Empty
    BY <1>2, EmptyArray DEF Compact, At, Empty
  <1>3. CASE a # Empty
    <2>1. \A k \in Ordinals(s) : Slot(s, k) \in DOMAIN a /\ a[Slot(s, k)] \in Int
      BY <1>3, SlotInside, ArrayMeans
    <2>2. b = [k \in Ordinals(s) |-> a[Slot(s, k)]]
      BY <1>3 DEF Compact
    <2>3. DOMAIN b = 0 .. n - 1 /\ b = [i \in 0 .. n - 1 |-> b[i]] /\ \A i \in 0 .. n - 1 : b[i] \in Int
      BY <1>1, <2>1, <2>2
    <2>4. \A k \in Ordinals(s) : At(b, k) = At(a, Slot(s, k))
      BY <2>1, <2>2 DEF At
    <2> HIDE DEF n, b
    <2>5. IsArray(b) /\ Size(b) = n
      BY <1>1, <2>3, MakeArray
    <2>6. b # Empty
      BY <1>1, <2>5, ArrayMeans
    <2> QED BY <1>3, <2>4, <2>5, <2>6 DEF n, b
  <1> QED BY <1>2, <1>3

\* The extents of a grid have 32 bits.
LEMMA HeightFits ==
    ASSUME NEW s, IsSurface(s)
    PROVE  Height(s) <= MaxUInt32
  <1>1. CASE s.grid = {}
    BY <1>1, Constants DEF Height
  <1>2. CASE s.grid # {}
    <2>1. The(s.grid).height \in 0 .. MaxUInt32
      BY <1>2 DEF IsSurface
    <2> QED BY <1>2, <2>1, Constants DEF Height
  <1> QED BY <1>1, <1>2

\* The same points in the same order.
SameSamples(t, s) ==
    /\ Ordinals(t) = Ordinals(s)
    /\ \A k \in Ordinals(s) : /\ At(t.points, Slot(t, k)) = At(s.points, Slot(s, k))
                              /\ At(t.normals, Slot(t, k)) = At(s.normals, Slot(s, k))
                              /\ input_valid(t, Slot(t, k)) <=> input_valid(s, Slot(s, k))
    /\ t.normals = Empty <=> s.normals = Empty

LEMMA SamplesEqual ==
    ASSUME NEW s, NEW t, SameSamples(t, s)
    PROVE  Samples(t) = Samples(s)
  <1>1. \A k \in Ordinals(s) : input_valid(t, Slot(t, k)) = input_valid(s, Slot(s, k))
    BY DEF SameSamples, input_valid
  <1> QED BY <1>1 DEF SameSamples, Samples

LEMMA TraceSame ==
    ASSUME NEW s, NEW t, NEW o, SameSamples(t, s), t.unit = s.unit, Trace(s, o)
    PROVE  Trace(t, o)
  BY DEF SameSamples, Trace

LEMMA ThroughPclMeans ==
    ASSUME NEW s, Shaped(s), NEW t \in through_pcl(s)
    PROVE  Contract(t) /\ SameSamples(t, s) /\ t.unit = s.unit
  <1> DEFINE w == Width(s)
             h == Height(s)
             P == Compact(s, s.points)
             N == Compact(s, s.normals)
             V == Compact(s, s.valid)
             new == SurfaceData(P, N, V, Organized(w, h), s.unit, s.frame)
  <1>1. t \in Created(new) /\ uint32(w) = w
    <2> HIDE DEF new
    <2>1. through_pcl(s) = IF uint32(w) # w THEN {} ELSE Created(new)
      BY DEF through_pcl, Compact, new
    <2> QED BY <2>1
  <1>2. t = new /\ validate_surface_data(new)
    BY <1>1, CreatedMeans
  <1>3. w \in Nat \ {0} /\ h \in Nat \ {0} /\ w <= MaxUInt32 /\ h <= MaxUInt32
    <2>1. w \in Nat \ {0} /\ h \in Nat \ {0}
      BY Layout
    <2>2. h <= MaxUInt32
      BY HeightFits DEF Shaped
    <2> HIDE DEF w, h
    <2>3. w <= MaxUInt32
      BY <1>1, <2>1, Narrowed
    <2> QED BY <2>1, <2>2, <2>3
  <1>4. /\ IsArray(s.points) /\ IsArray(s.normals) /\ IsArray(s.valid) /\ s.points # Empty
        /\ s.normals = Empty \/ DOMAIN s.normals = DOMAIN s.points
        /\ s.valid = Empty \/ DOMAIN s.valid = DOMAIN s.points
    BY Present, SurfaceParts DEF Shaped
  <1>5. IsArray(P) /\ Size(P) = w * h /\ \A k \in Ordinals(s) : At(P, k) = At(s.points, Slot(s, k))
    BY <1>4, CompactArray
  <1>6. IsArray(N) /\ (N = Empty <=> s.normals = Empty) /\ \A k \in Ordinals(s) : At(N, k) = At(s.normals, Slot(s, k))
    BY <1>4, CompactArray
  <1>7. IsArray(V) /\ (V = Empty <=> s.valid = Empty) /\ \A k \in Ordinals(s) : At(V, k) = At(s.valid, Slot(s, k))
    BY <1>4, CompactArray
  <1>8. IsGrids(Organized(w, h))
    BY <1>3, OrganizedGrid
  <1> HIDE DEF P, N, V
  <1>9. /\ t.points = P /\ t.normals = N /\ t.valid = V /\ t.grid = Organized(w, h) /\ t.unit = s.unit
        /\ IsSurface(t)
    BY <1>2, <1>5, <1>6, <1>7, <1>8, Fields
  <1>10. Contract(t)
    BY <1>2, <1>9 DEF Contract
  <1>11. Ordinals(s) = 0 .. w * h - 1
    BY Area
  <1> HIDE DEF w, h
  <1>12. Ordinals(t) = 0 .. w * h - 1 /\ \A k \in Ordinals(t) : Slot(t, k) = k
    BY <1>3, <1>5, <1>9, Dense
  <1>13. SameSamples(t, s)
    <2>1. \A k \in Ordinals(s) : input_valid(t, Slot(t, k)) <=> input_valid(s, Slot(s, k))
      BY <1>7, <1>9, <1>11, <1>12 DEF input_valid
    <2> QED BY <1>5, <1>6, <1>9, <1>11, <1>12, <2>1 DEF SameSamples
  <1> QED BY <1>9, <1>10, <1>13

-----------------------------------------------------------------------------
(***************************************************************************)
(* Clouds and files                                                        *)
(***************************************************************************)
\* decode_cloud, taken apart: n are the normals that were read.
Indices(c) == 0 .. c.width * c.height - 1
HasNormals(c) == c.normal[1] # "absent"
FiniteSample(c, n, k) == Finite(c.samples[k].x) /\ (HasNormals(c) => Finite(n[k]))
CloudMask(c, n) == [k \in Indices(c) |-> IF c.valid = "uint8" THEN c.samples[k].v
                                         ELSE IF FiniteSample(c, n, k) THEN 1 ELSE 0]
Refused(c, n) == \E k \in Indices(c) : \/ CloudMask(c, n)[k] > 1
                                       \/ CloudMask(c, n)[k] = 1 /\ ~FiniteSample(c, n, k)
CloudSurface(c, n, unit, frame) ==
    SurfaceData([k \in Indices(c) |-> c.samples[k].x],
                IF HasNormals(c) THEN n ELSE Empty,
                IF c.valid = "absent" /\ \A k \in Indices(c) : FiniteSample(c, n, k) THEN Empty ELSE CloudMask(c, n),
                Organized(c.width, c.height), unit, frame)
ReadNormals(c) ==
    {f \in [Indices(c) -> UNION {IF c.normal = FloatNormals THEN {c.samples[k].n} ELSE Misread : k \in Indices(c)}] :
        \A k \in Indices(c) : f[k] \in IF c.normal = FloatNormals THEN {c.samples[k].n} ELSE Misread}

LEMMA DecodingIs ==
    ASSUME NEW c, NEW unit, NEW frame
    PROVE  decode_cloud(c, unit, frame) =
             IF ~validate_fields(c) THEN {}
             ELSE UNION {IF Refused(c, n) THEN {} ELSE Created(CloudSurface(c, n, unit, frame)) : n \in ReadNormals(c)}
  BY DEF decode_cloud, Refused, CloudSurface, ReadNormals, CloudMask, FiniteSample, HasNormals, Indices

\* A row that is as long as it should be was not cut, and the storage holds
\* all the points the header counts.
LEMMA StorageHolds ==
    ASSUME NEW w \in Nat, NEW h \in Nat, NEW p \in Nat, NEW z \in Nat, NEW r \in Nat,
           w * h > 0, p > 0, r >= w * p, z * p >= (h - 1) * r + w * p
    PROVE  w \in Nat \ {0} /\ h \in Nat \ {0} /\ w * h \in Nat \ {0} /\ z >= w * h
  <1>1. w \in Nat \ {0} /\ h \in Nat \ {0} /\ w * h \in Nat \ {0}
    OBVIOUS
  <1>2. (h - 1) * r >= (h - 1) * (w * p)
    <2> DEFINE m == w * p
               g == h - 1
    <2>1. m \in Nat /\ g \in Nat /\ r \in Nat /\ r >= m
      BY <1>1
    <2> HIDE DEF m, g
    <2>2. g * r >= g * m
      BY <2>1
    <2> QED BY <2>2 DEF m, g
  <1>3. (h - 1) * (w * p) + w * p = (w * h) * p
    BY <1>1
  <1> DEFINE n == w * h
  <1>4. n \in Nat /\ z * p >= n * p
    <2>1. (h - 1) * r \in Int /\ (h - 1) * (w * p) \in Int /\ w * p \in Int /\ z * p \in Int
      BY <1>1
    <2> QED BY <1>1, <1>2, <1>3, <2>1
  <1> HIDE DEF n
  <1>5. z >= n
    <2> SUFFICES ASSUME z <= n - 1 PROVE FALSE
      BY <1>4
    <2>1. z * p <= (n - 1) * p
      BY <1>4
    <2>2. (n - 1) * p = n * p - p /\ n * p \in Int /\ z * p \in Int
      BY <1>4
    <2> QED BY <1>4, <2>1, <2>2
  <1> QED BY <1>1, <1>5 DEF n

\* What a cloud with sound fields makes.
LEMMA CloudFields ==
    ASSUME NEW c, IsCloud(c), validate_fields(c), NEW n \in ReadNormals(c), NEW unit, NEW frame
    PROVE  LET t == CloudSurface(c, n, unit, frame)
           IN  /\ c.width \in Nat \ {0} /\ c.height \in Nat \ {0}
               /\ c.width * c.height \in Nat \ {0} /\ Indices(c) \subseteq DOMAIN c.samples
               /\ IsSurface(t)
               /\ t.grid = Organized(c.width, c.height)
               /\ Size(t.points) = c.width * c.height
               /\ \A k \in Indices(c) : At(t.points, k) = c.samples[k].x
               /\ t.normals = IF HasNormals(c) THEN n ELSE Empty
               /\ HasNormals(c) => Size(t.normals) = c.width * c.height
               /\ c.valid = "uint8" => t.valid = CloudMask(c, n) /\ Size(t.valid) = c.width * c.height
  <1> DEFINE w == c.width
             h == c.height
             z == c.width * c.height
             P == [k \in Indices(c) |-> c.samples[k].x]
             N == IF HasNormals(c) THEN n ELSE Empty
             M == CloudMask(c, n)
             V == IF c.valid = "absent" /\ \A k \in Indices(c) : FiniteSample(c, n, k) THEN Empty ELSE M
             t == CloudSurface(c, n, unit, frame)
  <1>1. w \in Nat \ {0} /\ h \in Nat \ {0} /\ z \in Nat \ {0} /\ Size(c.samples) >= z /\ w <= MaxUInt32 /\ h <= MaxUInt32
    <2>1. /\ w \in Nat /\ h \in Nat /\ c.point_step \in Nat /\ Size(c.samples) \in Nat
          /\ w <= MaxUInt32 /\ h <= MaxUInt32
      BY Constants DEF IsCloud
    <2>2. c.row_step \in Nat
      <3>1. c.point_step * w \in Nat
        BY <2>1
      <3> QED BY <3>1, Narrowed DEF IsCloud
    <2>3. /\ w * h > 0 /\ c.point_step > 0 /\ c.row_step >= w * c.point_step
          /\ Size(c.samples) * c.point_step >= (h - 1) * c.row_step + w * c.point_step
      BY DEF validate_fields
    <2> HIDE DEF w, h
    <2> QED BY <2>1, <2>2, <2>3, StorageHolds DEF w, h
  <1>2. /\ Indices(c) = 0 .. z - 1 /\ Indices(c) \subseteq DOMAIN c.samples
        /\ \A k \in Indices(c) : c.samples[k].x \in Int /\ c.samples[k].n \in Int /\ c.samples[k].v \in Int
    <2>1. Indices(c) = 0 .. z - 1
      BY DEF Indices
    <2>2. /\ DOMAIN c.samples = 0 .. Size(c.samples) - 1 /\ Size(c.samples) \in Nat
          /\ \A k \in DOMAIN c.samples : c.samples[k].x \in Int /\ c.samples[k].n \in Int /\ c.samples[k].v \in Int
      BY DEF IsCloud
    <2> HIDE DEF z
    <2> QED BY <1>1, <2>1, <2>2
  <1>3. n = [k \in 0 .. z - 1 |-> n[k]] /\ DOMAIN n = 0 .. z - 1 /\ \A k \in 0 .. z - 1 : n[k] \in Int
    <2>1. DOMAIN n = Indices(c) /\ n = [k \in Indices(c) |-> n[k]]
      BY DEF ReadNormals
    <2>2. \A k \in Indices(c) : n[k] \in IF c.normal = FloatNormals THEN {c.samples[k].n} ELSE Misread
      BY <2>1 DEF ReadNormals
    <2> QED BY <1>2, <2>1, <2>2, Constants
  <1>4. IsArray(P) /\ Size(P) = z
    <2>1. DOMAIN P = 0 .. z - 1 /\ P = [i \in 0 .. z - 1 |-> P[i]] /\ \A i \in 0 .. z - 1 : P[i] \in Int
      BY <1>2
    <2> HIDE DEF P, z
    <2> QED BY <1>1, <2>1, MakeArray
  <1>5. IsArray(N) /\ (HasNormals(c) => Size(N) = z)
    <2>1. IsArray(n) /\ Size(n) = z
      BY <1>1, <1>3, MakeArray
    <2> QED BY <2>1, EmptyArray
  <1>6. IsArray(M) /\ Size(M) = z
    <2> DEFINE m(k) == IF c.valid = "uint8" THEN c.samples[k].v ELSE IF FiniteSample(c, n, k) THEN 1 ELSE 0
    <2>1. M = [k \in Indices(c) |-> m(k)]
      BY DEF CloudMask
    <2>2. \A k \in Indices(c) : m(k) \in Int
      BY <1>2
    <2>3. M = [k \in 0 .. z - 1 |-> m(k)] /\ \A k \in 0 .. z - 1 : m(k) \in Int
      <3> HIDE DEF M, m
      <3> QED BY <1>2, <2>1, <2>2
    <2>4. DOMAIN M = 0 .. z - 1 /\ M = [i \in 0 .. z - 1 |-> M[i]] /\ \A i \in 0 .. z - 1 : M[i] \in Int
      <3> HIDE DEF M, m
      <3> QED BY <2>3
    <2> HIDE DEF M, z
    <2> QED BY <1>1, <2>4, MakeArray
  <1>7. IsArray(V) /\ (c.valid = "uint8" => V = M)
    BY <1>6, EmptyArray
  <1>8. IsGrids(Organized(w, h))
    BY <1>1, OrganizedGrid
  <1>9. t = SurfaceData(P, N, V, Organized(w, h), unit, frame)
    BY DEF CloudSurface
  <1>10. \A k \in Indices(c) : At(P, k) = c.samples[k].x
    BY DEF At
  <1>11. N = IF HasNormals(c) THEN n ELSE Empty
    OBVIOUS
  <1> HIDE DEF P, N, V, t
  <1>12. /\ t.points = P /\ t.normals = N /\ t.valid = V /\ t.grid = Organized(w, h)
         /\ IsSurface(t)
    BY <1>4, <1>5, <1>7, <1>8, <1>9, Fields
  <1> QED BY <1>1, <1>2, <1>4, <1>5, <1>6, <1>7, <1>10, <1>11, <1>12 DEF t

LEMMA DecodeMeans ==
    ASSUME NEW c, IsCloud(c), NEW unit, NEW frame, NEW t \in decode_cloud(c, unit, frame)
    PROVE  Contract(t)
  <1>1. validate_fields(c) /\ \E n \in ReadNormals(c) : t \in Created(CloudSurface(c, n, unit, frame))
    BY DecodingIs
  <1>2. PICK n \in ReadNormals(c) : t \in Created(CloudSurface(c, n, unit, frame))
    BY <1>1
  <1>3. t = CloudSurface(c, n, unit, frame) /\ validate_surface_data(t)
    BY <1>2, CreatedMeans
  <1> QED BY <1>1, <1>3, CloudFields DEF Contract

LEMMA EncodedSamples ==
    ASSUME NEW s, NEW k \in Ordinals(s)
    PROVE  LET c == encode_cloud(s)
               i == Slot(s, k)
           IN  /\ c.samples[k].x = s.points[i] /\ c.samples[k].n = At(s.normals, i)
               /\ c.samples[k].v = IF s.valid = Empty THEN 1 ELSE s.valid[i]
  BY DEF encode_cloud, Encoding

\* The header of a cloud made from s.
IsHeader(c, s) ==
    /\ DOMAIN c.samples = Ordinals(s)
    /\ c.xyz = "float32" /\ c.valid = "uint8"
    /\ c.normal = IF s.normals = Empty THEN NoNormals ELSE FloatNormals
    /\ c.width = uint32(Width(s)) /\ c.height = Height(s)
    /\ c.point_step = Step(s) /\ c.row_step = uint32(Step(s) * uint32(Width(s)))

LEMMA EncodedHeader ==
    ASSUME NEW s
    PROVE  IsHeader(encode_cloud(s), s)
  BY DEF encode_cloud, Encoding, IsHeader

\* What is read of a number is a number, and finite if it was.
LEMMA ReadingMeans ==
    ASSUME NEW v \in Int, NEW binary \in BOOLEAN, NEW w \in Reading(v, binary)
    PROVE  w \in Int /\ (Finite(w) <=> Finite(v))
  <1>1. CASE binary \/ ~Finite(v) \/ Magnitude(v) <= Precise
    BY <1>1 DEF Reading
  <1>2. CASE ~(binary \/ ~Finite(v) \/ Magnitude(v) <= Precise)
    BY <1>2 DEF Reading
  <1> QED BY <1>1, <1>2

\* A file keeps the header and the order of the samples.
LEMMA StoredMeans ==
    ASSUME NEW s, NEW binary \in BOOLEAN, NEW c \in stored(encode_cloud(s), binary)
    PROVE  /\ IsHeader(c, s)
           /\ \A k \in Ordinals(s) :
                /\ c.samples[k].x \in Reading(s.points[Slot(s, k)], binary)
                /\ c.samples[k].n \in Reading(At(s.normals, Slot(s, k)), binary)
                /\ c.samples[k].v = IF s.valid = Empty THEN 1 ELSE s.valid[Slot(s, k)]
  <1> DEFINE e == encode_cloud(s)
             all == UNION {{e.samples[k].x, e.samples[k].n} : k \in DOMAIN e.samples}
             long == {v \in all : Reading(v, binary) # {v}}
             readings == {f \in [long -> UNION {Reading(v, binary) : v \in long}] : \A v \in long : f[v] \in Reading(v, binary)}
             read(f, v) == IF v \in long THEN f[v] ELSE v
             samples(f) == [k \in DOMAIN e.samples |->
                              [x |-> read(f, e.samples[k].x), n |-> read(f, e.samples[k].n), v |-> e.samples[k].v]]
  <1>1. \E f \in readings : c = [e EXCEPT !.samples = samples(f)]
    BY DEF stored
  <1>2. PICK f \in readings : c = [e EXCEPT !.samples = samples(f)]
    BY <1>1
  <1>3. \A v \in all : read(f, v) \in Reading(v, binary)
    BY <1>2
  <1>4. IsHeader(e, s)
    BY EncodedHeader
  <1> DEFINE S == samples(f)
  <1>5. /\ c.samples = S /\ c.xyz = e.xyz /\ c.normal = e.normal /\ c.valid = e.valid
        /\ c.width = e.width /\ c.height = e.height /\ c.point_step = e.point_step /\ c.row_step = e.row_step
    <2> HIDE DEF S
    <2> QED BY <1>2 DEF S, encode_cloud, Encoding
  <1>6. /\ DOMAIN S = Ordinals(s)
        /\ \A k \in Ordinals(s) : /\ S[k].x \in Reading(e.samples[k].x, binary)
                                  /\ S[k].n \in Reading(e.samples[k].n, binary)
                                  /\ S[k].v = e.samples[k].v
    <2>1. DOMAIN e.samples = Ordinals(s)
      BY <1>4 DEF IsHeader
    <2> HIDE DEF e, readings, long
    <2>2. \A k \in Ordinals(s) : e.samples[k].x \in all /\ e.samples[k].n \in all
      BY <2>1
    <2> HIDE DEF all
    <2>3. \A k \in Ordinals(s) : /\ S[k].x = read(f, e.samples[k].x) /\ S[k].n = read(f, e.samples[k].n)
                                 /\ S[k].v = e.samples[k].v
      <3> HIDE DEF read
      <3> QED BY <2>1
    <2> QED BY <1>3, <2>1, <2>2, <2>3
  <1> HIDE DEF S, e
  <1>7. IsHeader(c, s)
    BY <1>4, <1>5, <1>6 DEF IsHeader
  <1>8. \A k \in Ordinals(s) : /\ e.samples[k].x = s.points[Slot(s, k)] /\ e.samples[k].n = At(s.normals, Slot(s, k))
                               /\ e.samples[k].v = IF s.valid = Empty THEN 1 ELSE s.valid[Slot(s, k)]
    BY EncodedSamples DEF e
  <1> QED BY <1>5, <1>6, <1>7, <1>8

LEMMA StoredIsCloud ==
    ASSUME NEW s, Shaped(s), NEW binary \in BOOLEAN, NEW c \in stored(encode_cloud(s), binary)
    PROVE  IsCloud(c)
  <1> DEFINE n == Width(s) * Height(s)
             w == Width(s)
  <1>1. n \in Nat /\ Ordinals(s) = 0 .. n - 1 /\ w \in Nat /\ Height(s) \in 0 .. MaxUInt32
    BY Area, Layout, HeightFits, Constants DEF Shaped
  <1>2. IsHeader(c, s)
    BY StoredMeans
  <1>3. DOMAIN c.samples = 0 .. n - 1 /\ Size(c.samples) = n
    <2> HIDE DEF n
    <2> QED BY <1>1, <1>2, SizeOfInterval DEF Size, IsHeader
  <1>4. ASSUME NEW k \in Ordinals(s)
        PROVE  c.samples[k].x \in Int /\ c.samples[k].n \in Int /\ c.samples[k].v \in Int
    <2> DEFINE i == Slot(s, k)
    <2>1. i \in DOMAIN s.points
      BY SlotInside
    <2>2. IsArray(s.normals) /\ IsArray(s.valid)
      BY SurfaceParts DEF Shaped
    <2>3. s.points[i] \in Int /\ At(s.normals, i) \in Int /\ (s.valid # Empty => s.valid[i] \in Int)
      BY <2>1, <2>2, Present, ArrayMeans
    <2>4. /\ c.samples[k].x \in Reading(s.points[i], binary) /\ c.samples[k].n \in Reading(At(s.normals, i), binary)
          /\ c.samples[k].v = IF s.valid = Empty THEN 1 ELSE s.valid[i]
      BY StoredMeans
    <2> QED BY <2>3, <2>4, ReadingMeans
  <1>5. Step(s) \in 0 .. MaxUInt32 /\ uint32(w) \in 0 .. MaxUInt32
    BY <1>1, Constants, Narrowed DEF Step
  <1> HIDE DEF n, w
  <1>6. IsCloud(c)
    BY <1>1, <1>2, <1>3, <1>4, <1>5 DEF IsCloud, IsHeader, n, w
  <1> QED BY <1>6

\* Leaving the padding out keeps the storage below the limit.
LEMMA OrganizedFits ==
    ASSUME NEW s, Shaped(s), NEW g \in Organized(Width(s), Height(s))
    PROVE  /\ g.width > 0 /\ g.height > 0
           /\ g.row_stride >= g.width
           /\ storage_fits(g)
           /\ Width(s) * Height(s) = ((g.height - 1) * g.row_stride + g.width) % (MaxSize + 1)
  <1> DEFINE w == Width(s)
             h == Height(s)
             d == Stride(s)
  <1>1. w \in Nat \ {0} /\ h \in Nat \ {0} /\ d \in Nat \ {0} /\ d >= w
    BY Layout
  <1>2. h > 1 /\ g.width = w /\ g.height = h /\ g.row_stride = w
    BY <1>1 DEF Organized
  <1>3. h - 1 <= (MaxSize - w) \div d
    <2>1. s.grid # {} /\ w = The(s.grid).width /\ h = The(s.grid).height /\ d = The(s.grid).row_stride
      BY <1>2 DEF Height, Width, Stride
    <2>2. The(s.grid) \in s.grid
      BY <2>1 DEF Shaped, IsSurface
    <2> QED BY <2>1, <2>2 DEF Shaped, storage_fits
  <1>4. MaxSize \in Nat \ {0}
    BY Constants
  <1> HIDE DEF w, h, d
  <1> DEFINE a == MaxSize - w
             b == h - 1
  <1>5. a \in Int /\ b \in Nat /\ b <= a \div d
    BY <1>1, <1>3, <1>4
  <1> HIDE DEF a, b
  <1>6. b * d <= a
    BY <1>1, <1>5
  <1>7. b * w <= b * d
    BY <1>1, <1>5
  <1>8. b * w \in Nat /\ b * w <= a
    <2>1. b * w \in Nat /\ b * d \in Nat
      BY <1>1, <1>5
    <2> QED BY <1>5, <1>6, <1>7, <2>1
  <1>9. b <= a \div w
    BY <1>1, <1>5, <1>8
  <1>10. w * h = b * w + w
    BY <1>1 DEF b
  <1>11. b * w + w \in Nat /\ b * w + w <= MaxSize
    BY <1>1, <1>4, <1>8 DEF a
  <1>12. (b * w + w) % (MaxSize + 1) = b * w + w
    <2> DEFINE z == b * w + w
    <2> HIDE DEF z
    <2>1. z \in Nat /\ z <= MaxSize
      BY <1>11 DEF z
    <2>2. z % (MaxSize + 1) = z
      BY <1>4, <2>1
    <2> QED BY <2>2 DEF z
  <1> QED BY <1>1, <1>2, <1>9, <1>10, <1>12 DEF a, b, w, h, storage_fits

\* The same points in the same order, as far as a file keeps them.
Reread(t, s, binary) ==
    /\ Ordinals(t) = Ordinals(s)
    /\ \A k \in Ordinals(s) : /\ At(t.points, Slot(t, k)) \in Reading(At(s.points, Slot(s, k)), binary)
                              /\ At(t.normals, Slot(t, k)) \in Reading(At(s.normals, Slot(s, k)), binary)
                              /\ input_valid(t, Slot(t, k)) <=> input_valid(s, Slot(s, k))
    /\ t.normals = Empty <=> s.normals = Empty

\* A row whose bytes 32 bits cannot count makes a cloud that is refused.
LEMMA LongRowRefused ==
    ASSUME NEW s, Shaped(s), NEW c, IsHeader(c, s), Width(s) <= MaxUInt32, ~(Step(s) * Width(s) <= MaxUInt32)
    PROVE  ~validate_fields(c)
  <1> DEFINE n == Step(s) * Width(s)
  <1>1. n \in Nat /\ Width(s) \in Nat /\ Step(s) \in Nat
    BY Layout, Constants DEF Step
  <1>2. c.width = Width(s) /\ c.point_step = Step(s) /\ c.row_step = uint32(n)
    BY <1>1, Narrowed DEF IsHeader
  <1>3. uint32(n) < n
    <2> HIDE DEF n
    <2>1. uint32(n) <= MaxUInt32 /\ uint32(n) \in Int /\ MaxUInt32 \in Int
      BY <1>1, Narrowed, Constants
    <2>2. ~(n <= MaxUInt32)
      BY DEF n
    <2> QED BY <1>1, <2>1, <2>2
  <1>4. c.width * c.point_step = n
    BY <1>1, <1>2
  <1>5. c.row_step < c.width * c.point_step
    BY <1>2, <1>3, <1>4
  <1>6. c.row_step \in Int /\ c.width * c.point_step \in Int
    <2> HIDE DEF n
    <2> QED BY <1>1, <1>2, <1>4, Narrowed
  <1>7. ~(c.row_step >= c.width * c.point_step)
    <2> DEFINE m == c.width * c.point_step
    <2> HIDE DEF m
    <2> QED BY <1>5, <1>6 DEF m
  <1> QED BY <1>7 DEF validate_fields

\* A cloud written from a surface that honours its contract reads back.
LEMMA FileReadsBack ==
    ASSUME NEW s, Contract(s), NEW binary \in BOOLEAN, NEW c \in stored(encode_cloud(s), binary),
           Width(s) <= MaxUInt32, Step(s) * Width(s) <= MaxUInt32, NEW unit, NEW frame
    PROVE  LET again == decode_cloud(c, unit, frame)
           IN  /\ again # {}
               /\ \A t \in again : /\ Reread(t, s, binary)
                                   /\ Height(s) > 1 => Width(t) = Width(s) /\ Height(t) = Height(s)
  <1> DEFINE w == Width(s)
             h == Height(s)
             p == Step(s)
  <1>1. Shaped(s) /\ IsCloud(c)
    BY ContractShaped, StoredIsCloud
  <1>2. /\ DOMAIN c.samples = Ordinals(s)
        /\ c.xyz = "float32" /\ c.valid = "uint8"
        /\ c.normal = IF s.normals = Empty THEN NoNormals ELSE FloatNormals
        /\ c.width = w /\ c.height = h /\ c.point_step = p /\ c.row_step = p * w
        /\ Indices(c) = Ordinals(s)
    <2>1. IsHeader(c, s)
      BY StoredMeans
    <2>2. w \in Nat /\ p \in Nat /\ p * w \in Nat
      BY <1>1, Layout, Constants DEF Step
    <2>3. uint32(w) = w /\ uint32(p * w) = p * w
      <3> DEFINE n == p * w
      <3>1. n \in Nat /\ n <= MaxUInt32
        BY <2>2
      <3> HIDE DEF n
      <3>2. uint32(n) = n
        BY <3>1, Narrowed
      <3> QED BY <2>2, <3>2, Narrowed DEF n
    <2> QED BY <2>1, <2>3 DEF IsHeader, Indices, Ordinals
  <1>3. \A k \in Ordinals(s) : /\ c.samples[k].x \in Reading(s.points[Slot(s, k)], binary)
                               /\ c.samples[k].n \in Reading(At(s.normals, Slot(s, k)), binary)
                               /\ c.samples[k].v = IF s.valid = Empty THEN 1 ELSE s.valid[Slot(s, k)]
    BY StoredMeans
  <1>4. w \in Nat \ {0} /\ h \in Nat \ {0} /\ w * h \in Nat \ {0} /\ Ordinals(s) = 0 .. w * h - 1
    BY <1>1, Layout, Area
  <1>5. /\ HasNormals(c) <=> s.normals # Empty
        /\ c.normal = FloatNormals <=> s.normals # Empty
        /\ {k \in 1 .. 3 : c.normal[k] = "float32"} \in {{}, 1 .. 3}
    <2>1. CASE s.normals = Empty
      <3>1. c.normal = NoNormals
        BY <1>2, <2>1
      <3>2. \A k \in 1 .. 3 : NoNormals[k] = "absent"
        BY DEF NoNormals
      <3>3. NoNormals # FloatNormals /\ NoNormals[1] = "absent"
        BY DEF NoNormals, FloatNormals
      <3> QED BY <2>1, <3>1, <3>2, <3>3 DEF HasNormals
    <2>2. CASE s.normals # Empty
      <3>1. c.normal = FloatNormals
        BY <1>2, <2>2
      <3>2. \A k \in 1 .. 3 : FloatNormals[k] = "float32"
        BY DEF FloatNormals
      <3>3. FloatNormals[1] # "absent"
        BY DEF FloatNormals
      <3> QED BY <2>2, <3>1, <3>2, <3>3 DEF HasNormals
    <2> QED BY <2>1, <2>2
  <1>6. validate_fields(c)
    <2>1. Size(c.samples) = w * h
      <3> DEFINE n == w * h
      <3>1. n \in Nat /\ DOMAIN c.samples = 0 .. n - 1
        BY <1>2, <1>4
      <3> HIDE DEF n
      <3> QED BY <3>1, SizeOfInterval DEF Size, n
    <2>2. p \in Nat /\ p > 0
      BY Constants DEF Step
    <2> HIDE DEF w, h, p
    <2>3. p * w = w * p /\ w * p \in Nat /\ (w * h) * p = (h - 1) * (p * w) + w * p
      BY <1>4, <2>2
    <2>4. w * h > 0 /\ (w * h) * p \in Nat
      BY <1>4, <2>2
    <2>5. c.row_step >= w * p /\ (w * h) * p >= (h - 1) * c.row_step + w * p
      BY <1>2, <2>3, <2>4
    <2> QED BY <1>2, <1>5, <2>1, <2>2, <2>4, <2>5 DEF validate_fields
  <1>7. ReadNormals(c) # {}
    <2>1. PICK m \in Misread : TRUE
      BY Constants
    <2> DEFINE f == [k \in Indices(c) |-> IF c.normal = FloatNormals THEN c.samples[k].n ELSE m]
    <2>2. f \in ReadNormals(c)
      BY DEF ReadNormals
    <2> QED BY <2>2
  <1>8. ASSUME NEW n \in ReadNormals(c), s.normals # Empty, NEW k \in Ordinals(s)
        PROVE  k \in DOMAIN n /\ n[k] = c.samples[k].n
    <2>1. DOMAIN n = Indices(c)
      BY DEF ReadNormals
    <2>2. n[k] = c.samples[k].n
      BY <1>2, <1>5, <1>8, <2>1 DEF ReadNormals
    <2> QED BY <1>2, <2>1, <2>2
  <1>9. ASSUME NEW n \in ReadNormals(c), NEW k \in Ordinals(s)
        PROVE  /\ CloudMask(c, n)[k] \in {0, 1}
               /\ CloudMask(c, n)[k] = 1 <=> input_valid(s, Slot(s, k))
               /\ CloudMask(c, n)[k] = 1 => FiniteSample(c, n, k)
    <2>1. CloudMask(c, n)[k] = c.samples[k].v
      BY <1>2 DEF CloudMask
    <2>2. /\ s.valid # Empty => Slot(s, k) \in DOMAIN s.valid /\ s.valid[Slot(s, k)] \in {0, 1}
          /\ input_valid(s, Slot(s, k)) =>
               /\ Finite(s.points[Slot(s, k)])
               /\ s.normals # Empty => Slot(s, k) \in DOMAIN s.normals /\ Finite(s.normals[Slot(s, k)])
      BY ContractMeans
    <2>3. c.samples[k].v \in {0, 1} /\ (c.samples[k].v = 1 <=> input_valid(s, Slot(s, k)))
      BY <1>3, <2>2 DEF input_valid, At
    <2>4. input_valid(s, Slot(s, k)) => FiniteSample(c, n, k)
      <3>1. SUFFICES ASSUME input_valid(s, Slot(s, k)) PROVE FiniteSample(c, n, k)
        OBVIOUS
      <3>2. Finite(c.samples[k].x)
        <4>1. s.points[Slot(s, k)] \in Int
          BY <1>1, SlotInside, Present
        <4> QED BY <1>3, <2>2, <3>1, <4>1, ReadingMeans
      <3>3. ASSUME s.normals # Empty PROVE Finite(n[k])
        <4>1. At(s.normals, Slot(s, k)) \in Int
          BY <1>1, SurfaceParts, ArrayMeans DEF Shaped
        <4>2. Finite(At(s.normals, Slot(s, k)))
          BY <2>2, <3>1, <3>3 DEF At
        <4>3. Finite(c.samples[k].n)
          BY <1>3, <4>1, <4>2, ReadingMeans
        <4> QED BY <1>8, <3>3, <4>3
      <3> QED BY <1>5, <3>2, <3>3 DEF FiniteSample
    <2> QED BY <2>1, <2>3, <2>4
  <1>10. \A n \in ReadNormals(c) : ~Refused(c, n)
    BY <1>2, <1>9 DEF Refused
  <1>11. ASSUME NEW n \in ReadNormals(c), NEW t, t = CloudSurface(c, n, unit, frame)
         PROVE  /\ validate_surface_data(t) /\ Reread(t, s, binary)
                /\ Width(t) = w /\ Height(t) = h
    <2>1. /\ IsSurface(t) /\ t.grid = Organized(w, h) /\ Size(t.points) = w * h
          /\ \A k \in Ordinals(s) : At(t.points, k) = c.samples[k].x
          /\ t.normals = IF HasNormals(c) THEN n ELSE Empty
          /\ HasNormals(c) => Size(t.normals) = w * h
          /\ t.valid = CloudMask(c, n) /\ Size(t.valid) = w * h
      BY <1>1, <1>2, <1>6, <1>11, CloudFields
    <2>2. /\ Width(t) = w /\ Height(t) = h /\ Ordinals(t) = Ordinals(s) /\ Logical(t) = Ordinals(s)
          /\ \A k \in Ordinals(s) : Slot(t, k) = k
      <3> HIDE DEF w, h
      <3> QED BY <1>4, <2>1, Dense
    <2>3. t.points # Empty /\ t.valid # Empty /\ (t.normals = Empty <=> s.normals = Empty)
      <3>1. IsArray(t.points) /\ IsArray(t.valid) /\ IsArray(t.normals)
        BY <2>1, SurfaceParts
      <3>2. t.points # Empty /\ t.valid # Empty
        BY <1>4, <2>1, <3>1, ArrayMeans
      <3>3. CASE s.normals = Empty
        BY <1>5, <2>1, <3>2, <3>3
      <3>4. CASE s.normals # Empty
        <4>1. Size(t.normals) # 0
          BY <1>4, <1>5, <2>1, <3>4
        <4> QED BY <3>1, <3>2, <3>4, <4>1, ArrayMeans
      <3> QED BY <3>3, <3>4
    <2>4. ASSUME NEW k \in Ordinals(s)
          PROVE  /\ At(t.points, k) \in Reading(At(s.points, Slot(s, k)), binary)
                 /\ At(t.normals, k) \in Reading(At(s.normals, Slot(s, k)), binary)
                 /\ Finite(At(t.points, k)) <=> Finite(At(s.points, Slot(s, k)))
                 /\ Finite(At(t.normals, k)) <=> Finite(At(s.normals, Slot(s, k)))
                 /\ At(t.valid, k) \in {0, 1}
                 /\ input_valid(t, k) <=> input_valid(s, Slot(s, k))
      <3>1. Slot(s, k) \in DOMAIN s.points
        BY <1>1, SlotInside
      <3>2. At(t.points, k) \in Reading(At(s.points, Slot(s, k)), binary)
        BY <1>3, <2>1, <3>1 DEF At
      <3>3. At(t.normals, k) \in Reading(At(s.normals, Slot(s, k)), binary)
        <4>1. CASE s.normals = Empty
          <5>1. At(t.normals, k) = 0 /\ At(s.normals, Slot(s, k)) = 0
            BY <2>3, <4>1 DEF At, Empty
          <5>2. Magnitude(0) <= Precise
            BY Constants DEF Magnitude
          <5> QED BY <5>1, <5>2 DEF Reading
        <4>2. CASE s.normals # Empty
          <5>1. At(t.normals, k) = c.samples[k].n
            BY <1>5, <1>8, <2>1, <4>2 DEF At
          <5> QED BY <1>3, <5>1
        <4> QED BY <4>1, <4>2
      <3>4. At(s.points, Slot(s, k)) \in Int /\ At(s.normals, Slot(s, k)) \in Int
        BY <1>1, SurfaceParts, ArrayMeans DEF Shaped
      <3>5. /\ Finite(At(t.points, k)) <=> Finite(At(s.points, Slot(s, k)))
            /\ Finite(At(t.normals, k)) <=> Finite(At(s.normals, Slot(s, k)))
        BY <3>2, <3>3, <3>4, ReadingMeans
      <3>6. At(t.valid, k) = CloudMask(c, n)[k]
        <4>1. k \in DOMAIN t.valid
          BY <1>2, <2>1 DEF CloudMask
        <4> QED BY <2>1, <4>1 DEF At
      <3> QED BY <1>9, <2>3, <3>2, <3>3, <3>5, <3>6 DEF input_valid
    <2>5. Reread(t, s, binary)
      BY <2>2, <2>3, <2>4 DEF Reread
    <2>6. \A i \in Logical(t) :
            /\ At(t.valid, i) \in {0, 1}
            /\ input_valid(t, i) => Finite(At(t.points, i)) /\ Finite(At(t.normals, i))
      <3>1. ASSUME NEW k \in Ordinals(s), input_valid(s, Slot(s, k))
            PROVE  Finite(At(s.points, Slot(s, k))) /\ Finite(At(s.normals, Slot(s, k)))
        BY <3>1 DEF Contract, validate_surface_data, Logical
      <3> QED BY <2>2, <2>4, <3>1
    <2>7. Size(t.normals) \in {0, Size(t.points)} /\ Size(t.valid) \in {0, Size(t.points)}
      BY <2>1, EmptyArray
    <2>8. \A g \in t.grid :
            /\ g.width > 0 /\ g.height > 0
            /\ g.row_stride >= g.width
            /\ storage_fits(g)
            /\ Size(t.points) = ((g.height - 1) * g.row_stride + g.width) % (MaxSize + 1)
      BY <1>1, <2>1, OrganizedFits
    <2>9. validate_surface_data(t)
      BY <2>3, <2>6, <2>7, <2>8 DEF validate_surface_data
    <2> QED BY <2>2, <2>5, <2>9
  <1> DEFINE again == decode_cloud(c, unit, frame)
  <1>12. again = UNION {Created(CloudSurface(c, n, unit, frame)) : n \in ReadNormals(c)}
    BY <1>6, <1>10, DecodingIs
  <1> HIDE DEF again
  <1>13. again # {}
    <2>1. PICK n \in ReadNormals(c) : TRUE
      BY <1>7
    <2>2. CloudSurface(c, n, unit, frame) \in Created(CloudSurface(c, n, unit, frame))
      BY <1>11, CreatedMeans
    <2> QED BY <1>12, <2>2
  <1>14. \A t \in again : Reread(t, s, binary) /\ Width(t) = w /\ Height(t) = h
    <2> SUFFICES ASSUME NEW t \in again PROVE Reread(t, s, binary) /\ Width(t) = w /\ Height(t) = h
      OBVIOUS
    <2>1. PICK n \in ReadNormals(c) : t \in Created(CloudSurface(c, n, unit, frame))
      BY <1>12
    <2>2. t = CloudSurface(c, n, unit, frame)
      BY <2>1, CreatedMeans
    <2> QED BY <1>11, <2>2
  <1> QED BY <1>13, <1>14 DEF again

-----------------------------------------------------------------------------
(***************************************************************************)
(* Sums                                                                    *)
(***************************************************************************)
SumsTo(a, S, g) == g = [T \in SUBSET S |-> IF T = {} THEN 0 ELSE a[The(T)] + g[T \ {The(T)}]]

LEMMA SumUnfolds ==
    ASSUME NEW a, NEW S
    PROVE  SumOver(a, S) = (CHOOSE g : SumsTo(a, S, g))[S]
  BY DEF SumOver, MapThenSumSet, MapThenFoldSet, SumsTo, The

LEMMA OneLess ==
    ASSUME NEW S, IsFiniteSet(S), NEW T \in SUBSET S, T # {}
    PROVE  /\ The(T) \in T /\ T \ {The(T)} \in SUBSET S
           /\ Cardinality(T) \in Nat \ {0}
           /\ Cardinality(T \ {The(T)}) = Cardinality(T) - 1
  <1>1. The(T) \in T
    BY DEF The
  <1>2. IsFiniteSet(T)
    BY FS_Subset
  <1>3. Cardinality(T) \in Nat /\ Cardinality(T) # 0
    BY <1>2, FS_CardinalityType, FS_EmptySet
  <1>4. Cardinality(T \ {The(T)}) = Cardinality(T) - 1
    BY <1>1, <1>2, FS_RemoveElement
  <1> QED BY <1>1, <1>3, <1>4

\* A function that is a sum on the sets of at most n elements.
SumsUpTo(a, S, n, g) ==
    \A T \in SUBSET S : Cardinality(T) <= n => g[T] = IF T = {} THEN 0 ELSE a[The(T)] + g[T \ {The(T)}]

LEMMA SumExists ==
    ASSUME NEW a, NEW S, IsFiniteSet(S)
    PROVE  \E g : SumsTo(a, S, g)
  <1> DEFINE Reached == {n \in Nat : \E g : g = [T \in SUBSET S |-> g[T]] /\ SumsUpTo(a, S, n, g)}
  <1>1. 0 \in Reached
    <2> DEFINE g == [T \in SUBSET S |-> 0]
    <2>1. ASSUME NEW T \in SUBSET S, Cardinality(T) <= 0 PROVE T = {}
      <3> SUFFICES ASSUME T # {} PROVE FALSE
        OBVIOUS
      <3>1. Cardinality(T) \in Nat \ {0}
        BY OneLess
      <3> QED BY <2>1, <3>1
    <2>2. g = [T \in SUBSET S |-> g[T]] /\ SumsUpTo(a, S, 0, g)
      BY <2>1 DEF SumsUpTo
    <2> HIDE DEF g
    <2> QED BY <2>2
  <1>2. ASSUME NEW n \in Reached PROVE n + 1 \in Reached
    <2>1. PICK g : g = [T \in SUBSET S |-> g[T]] /\ SumsUpTo(a, S, n, g)
      OBVIOUS
    <2>2. n \in Nat
      OBVIOUS
    <2> DEFINE h == [T \in SUBSET S |-> IF Cardinality(T) <= n THEN g[T] ELSE a[The(T)] + g[T \ {The(T)}]]
    <2>3. ASSUME NEW T \in SUBSET S, Cardinality(T) <= n + 1
          PROVE  h[T] = IF T = {} THEN 0 ELSE a[The(T)] + h[T \ {The(T)}]
      <3>1. CASE T = {}
        <4>1. Cardinality(T) <= n
          BY <2>2, <3>1, FS_EmptySet
        <4> QED BY <2>1, <3>1, <4>1 DEF SumsUpTo
      <3>2. CASE T # {}
        <4>1. /\ T \ {The(T)} \in SUBSET S /\ Cardinality(T) \in Nat
              /\ Cardinality(T \ {The(T)}) = Cardinality(T) - 1
          BY <3>2, OneLess
        <4>2. Cardinality(T \ {The(T)}) <= n
          BY <2>2, <2>3, <4>1
        <4>3. h[T \ {The(T)}] = g[T \ {The(T)}]
          BY <4>1, <4>2
        <4>4. CASE Cardinality(T) <= n
          <5>1. g[T] = a[The(T)] + g[T \ {The(T)}]
            BY <2>1, <3>2, <4>4 DEF SumsUpTo
          <5>2. h[T] = g[T]
            BY <4>4
          <5> QED BY <3>2, <4>3, <5>1, <5>2
        <4>5. CASE ~(Cardinality(T) <= n)
          <5>1. h[T] = a[The(T)] + g[T \ {The(T)}]
            BY <4>5
          <5> QED BY <3>2, <4>3, <5>1
        <4> QED BY <4>4, <4>5
      <3> QED BY <3>1, <3>2
    <2>4. h = [T \in SUBSET S |-> h[T]]
      OBVIOUS
    <2> HIDE DEF h
    <2>5. SumsUpTo(a, S, n + 1, h)
      BY <2>3 DEF SumsUpTo
    <2> QED BY <2>2, <2>4, <2>5
  <1>3. Reached = Nat
    <2>1. Reached \in SUBSET Nat
      OBVIOUS
    <2> HIDE DEF Reached
    <2> QED BY <1>1, <1>2, <2>1, NaturalsReached
  <1>4. Cardinality(S) \in Nat
    BY FS_CardinalityType
  <1>5. Cardinality(S) \in Reached
    BY <1>3, <1>4
  <1>6. PICK g : g = [T \in SUBSET S |-> g[T]] /\ SumsUpTo(a, S, Cardinality(S), g)
    BY <1>5
  <1>7. \A T \in SUBSET S : Cardinality(T) <= Cardinality(S)
    BY FS_Subset
  <1>8. \A T \in SUBSET S : g[T] = IF T = {} THEN 0 ELSE a[The(T)] + g[T \ {The(T)}]
    BY <1>6, <1>7 DEF SumsUpTo
  <1>9. SumsTo(a, S, g)
    BY <1>6, <1>8 DEF SumsTo
  <1> QED BY <1>9

\* A sum lies between the multiples of the smallest and the largest summand.
LEMMA SumBounds ==
    ASSUME NEW a, NEW S, IsFiniteSet(S), \A x \in S : a[x] \in Int
    PROVE  /\ SumOver(a, S) \in Int
           /\ \A m \in Int : (\A x \in S : a[x] >= m) => SumOver(a, S) >= m * Cardinality(S)
           /\ \A m \in Int : (\A x \in S : a[x] <= m) => SumOver(a, S) <= m * Cardinality(S)
  <1>1. PICK g : SumsTo(a, S, g) /\ SumOver(a, S) = g[S]
    BY SumExists, SumUnfolds
  <1>2. \A T \in SUBSET S : g[T] = IF T = {} THEN 0 ELSE a[The(T)] + g[T \ {The(T)}]
    BY <1>1 DEF SumsTo
  <1> DEFINE Bounded(T) == /\ g[T] \in Int
                           /\ \A m \in Int : (\A x \in S : a[x] >= m) => g[T] >= m * Cardinality(T)
                           /\ \A m \in Int : (\A x \in S : a[x] <= m) => g[T] <= m * Cardinality(T)
             Reached == {n \in Nat : \A T \in SUBSET S : Cardinality(T) <= n => Bounded(T)}
  <1>3. Bounded({})
    <2>1. g[{}] = 0 /\ Cardinality({}) = 0
      BY <1>2, FS_EmptySet
    <2> QED BY <2>1
  <1>4. 0 \in Reached
    <2>1. ASSUME NEW T \in SUBSET S, Cardinality(T) <= 0 PROVE T = {}
      <3> SUFFICES ASSUME T # {} PROVE FALSE
        OBVIOUS
      <3>1. Cardinality(T) \in Nat \ {0}
        BY OneLess
      <3> QED BY <2>1, <3>1
    <2> QED BY <1>3, <2>1
  <1>5. ASSUME NEW n \in Reached PROVE n + 1 \in Reached
    <2>1. n \in Nat
      OBVIOUS
    <2>2. ASSUME NEW T \in SUBSET S, Cardinality(T) <= n + 1, T # {} PROVE Bounded(T)
      <3> DEFINE y == a[The(T)]
                 p == g[T \ {The(T)}]
                 q == Cardinality(T) - 1
      <3>1. The(T) \in T /\ T \ {The(T)} \in SUBSET S /\ Cardinality(T) \in Nat \ {0} /\ Cardinality(T \ {The(T)}) = q
        BY <2>2, OneLess
      <3>2. y \in Int /\ q \in Nat /\ q <= n /\ Cardinality(T) = q + 1
        BY <2>1, <2>2, <3>1
      <3>3. Bounded(T \ {The(T)})
        BY <3>1, <3>2
      <3>4. /\ p \in Int
            /\ \A m \in Int : (\A x \in S : a[x] >= m) => p >= m * q
            /\ \A m \in Int : (\A x \in S : a[x] <= m) => p <= m * q
        BY <3>1, <3>3
      <3>5. g[T] = y + p
        BY <1>2, <2>2
      <3>6. The(T) \in S
        BY <3>1
      <3>7. ASSUME NEW m \in Int, \A x \in S : a[x] >= m PROVE g[T] >= m * Cardinality(T)
        <4>1. y >= m /\ p >= m * q
          BY <3>4, <3>6, <3>7
        <4> HIDE DEF y, p, q
        <4>2. m * q \in Int /\ m * (q + 1) = m * q + m
          BY <3>2
        <4>3. y + p >= m * (q + 1)
          BY <3>2, <3>4, <4>1, <4>2
        <4> QED BY <3>2, <3>5, <4>3
      <3>8. ASSUME NEW m \in Int, \A x \in S : a[x] <= m PROVE g[T] <= m * Cardinality(T)
        <4>1. y <= m /\ p <= m * q
          BY <3>4, <3>6, <3>8
        <4> HIDE DEF y, p, q
        <4>2. m * q \in Int /\ m * (q + 1) = m * q + m
          BY <3>2
        <4>3. y + p <= m * (q + 1)
          BY <3>2, <3>4, <4>1, <4>2
        <4> QED BY <3>2, <3>5, <4>3
      <3>9. g[T] \in Int
        <4> HIDE DEF y, p
        <4> QED BY <3>2, <3>4, <3>5
      <3> QED BY <3>7, <3>8, <3>9
    <2> HIDE DEF Bounded
    <2> QED BY <1>3, <2>1, <2>2
  <1>6. Reached = Nat
    <2>1. Reached \in SUBSET Nat
      OBVIOUS
    <2> HIDE DEF Reached
    <2> QED BY <1>4, <1>5, <2>1, NaturalsReached
  <1>7. Cardinality(S) \in Nat /\ S \in SUBSET S
    BY FS_CardinalityType
  <1>8. Bounded(S)
    <2> HIDE DEF Bounded
    <2>1. Cardinality(S) \in Reached
      BY <1>6, <1>7
    <2> QED BY <1>7, <2>1
  <1> QED BY <1>1, <1>8

-----------------------------------------------------------------------------
(***************************************************************************)
(* Voxels                                                                  *)
(***************************************************************************)
\* q lists S from below.
Lists(q, S) ==
    /\ q \in Seq(S) /\ Len(q) = Cardinality(S) /\ DOMAIN q = 1 .. Cardinality(S)
    /\ \A k \in 1 .. Cardinality(S) : q[k] \in S
    /\ \A x \in S : \E k \in 1 .. Cardinality(S) : q[k] = x
    /\ \A j \in 1 .. Cardinality(S) : \A k \in 1 .. Cardinality(S) : j < k => q[j] < q[k]

LEMMA AscendingLists ==
    ASSUME NEW S, IsFiniteSet(S), S \subseteq Int
    PROVE  Lists(Ascending(S), S)
  <1> DEFINE n == Cardinality(S)
             below(x) == {y \in S : y < x}
             rank == [x \in S |-> Cardinality(below(x))]
             q == Ascending(S)
  <1>0. \A x \in S : x \in Int
    OBVIOUS
  <1>1. n \in Nat
    BY FS_CardinalityType
  <1>2. \A x \in S : IsFiniteSet(below(x)) /\ Cardinality(below(x)) \in Nat
    <2>1. \A x \in S : below(x) \in SUBSET S
      OBVIOUS
    <2> HIDE DEF below
    <2> QED BY <2>1, FS_Subset, FS_CardinalityType
  <1>3. ASSUME NEW x \in S, NEW z \in S, x < z PROVE Cardinality(below(x)) < Cardinality(below(z))
    <2>1. below(x) \in SUBSET below(z)
      <3>1. \A y \in S : y < x => y < z
        BY <1>0, <1>3
      <3> QED BY <3>1
    <2>2. x \in below(z) /\ x \notin below(x)
      BY <1>3
    <2> HIDE DEF below
    <2>3. /\ Cardinality(below(x)) <= Cardinality(below(z))
          /\ Cardinality(below(z)) = Cardinality(below(x)) => below(z) = below(x)
      BY <1>2, <2>1, FS_Subset
    <2> QED BY <1>2, <2>2, <2>3
  <1>4. \A x \in S : Cardinality(below(x)) \in 0 .. n - 1
    <2> SUFFICES ASSUME NEW x \in S PROVE Cardinality(below(x)) \in 0 .. n - 1
      OBVIOUS
    <2>1. below(x) \in SUBSET S /\ x \notin below(x)
      OBVIOUS
    <2> HIDE DEF below
    <2>2. Cardinality(below(x)) <= n /\ Cardinality(below(x)) # n
      BY <2>1, FS_Subset
    <2> QED BY <1>1, <1>2, <2>2
  <1>5. rank \in Injection(S, 0 .. n - 1)
    <2>1. rank \in [S -> 0 .. n - 1]
      <3> HIDE DEF below
      <3> QED BY <1>4
    <2>2. ASSUME NEW x \in S, NEW z \in S, rank[x] = rank[z] PROVE x = z
      <3> HIDE DEF below
      <3>1. ~(x < z) /\ ~(z < x)
        BY <1>2, <1>3, <2>2
      <3> QED BY <3>1
    <2> HIDE DEF rank
    <2> QED BY <2>1, <2>2 DEF Injection, IsInjective
  <1>6. rank \in Surjection(S, 0 .. n - 1)
    <2>1. IsFiniteSet(0 .. n - 1) /\ Cardinality(0 .. n - 1) = n
      BY <1>1, SizeOfInterval
    <2> HIDE DEF rank
    <2> QED BY <1>5, <2>1, FS_Injection DEF n
  <1>7. \A k \in 1 .. n : \E x \in S : Cardinality(below(x)) = k - 1
    <2> SUFFICES ASSUME NEW k \in 1 .. n PROVE \E x \in S : Cardinality(below(x)) = k - 1
      OBVIOUS
    <2>1. k - 1 \in 0 .. n - 1
      BY <1>1
    <2>2. PICK x \in S : rank[x] = k - 1
      <3> HIDE DEF rank
      <3> QED BY <1>6, <2>1 DEF Surjection
    <2> QED BY <2>2
  <1>8. q = [k \in 1 .. n |-> CHOOSE x \in S : Cardinality(below(x)) = k - 1]
    BY DEF Ascending
  <1>9. \A k \in 1 .. n : q[k] \in S /\ Cardinality(below(q[k])) = k - 1
    <2> HIDE DEF below, q
    <2> QED BY <1>7, <1>8
  <1>10. \A x \in S : \E k \in 1 .. n : q[k] = x
    <2> SUFFICES ASSUME NEW x \in S PROVE \E k \in 1 .. n : q[k] = x
      OBVIOUS
    <2> DEFINE k == Cardinality(below(x)) + 1
    <2>1. k \in 1 .. n /\ Cardinality(below(x)) = k - 1
      <3> HIDE DEF below
      <3> QED BY <1>1, <1>4
    <2> HIDE DEF q, k
    <2>2. q[k] \in S /\ Cardinality(below(q[k])) = Cardinality(below(x))
      <3> HIDE DEF below
      <3> QED BY <1>9, <2>1
    <2>3. q[k] = x
      <3> HIDE DEF below
      <3>1. ~(q[k] < x) /\ ~(x < q[k])
        <4> DEFINE z == q[k]
        <4>1. z \in S /\ Cardinality(below(z)) = Cardinality(below(x)) /\ Cardinality(below(x)) \in Int
          BY <1>2, <2>2
        <4> HIDE DEF z
        <4>2. ~(z < x) /\ ~(x < z)
          BY <1>3, <4>1
        <4> QED BY <4>2 DEF z
      <3>2. q[k] \in Int /\ x \in Int
        BY <1>0, <2>2
      <3> QED BY <3>1, <3>2
    <2> QED BY <2>1, <2>3
  <1>11. \A j \in 1 .. n : \A k \in 1 .. n : j < k => q[j] < q[k]
    <2> SUFFICES ASSUME NEW j \in 1 .. n, NEW k \in 1 .. n, j < k PROVE q[j] < q[k]
      OBVIOUS
    <2> HIDE DEF q, below, n
    <2>1. q[j] \in S /\ q[k] \in S /\ Cardinality(below(q[j])) = j - 1 /\ Cardinality(below(q[k])) = k - 1
      BY <1>9
    <2>2. j \in Int /\ k \in Int
      BY <1>1
    <2> DEFINE x == q[j]
               z == q[k]
    <2>3. x \in S /\ z \in S /\ Cardinality(below(x)) < Cardinality(below(z))
      BY <2>1, <2>2
    <2> HIDE DEF x, z
    <2>4. Cardinality(below(x)) \in Int /\ Cardinality(below(z)) \in Int
      BY <1>2, <2>3
    <2>5. ~(z < x) /\ x # z
      BY <1>3, <2>3, <2>4
    <2>6. x < z
      BY <1>0, <2>3, <2>5
    <2> QED BY <2>6 DEF x, z
  <1>12. q \in Seq(S) /\ DOMAIN q = 1 .. n /\ Len(q) = n
    <2>1. DOMAIN q = 1 .. n /\ q \in [1 .. n -> S]
      <3> HIDE DEF below
      <3>1. DOMAIN q = 1 .. n /\ q = [k \in 1 .. n |-> q[k]]
        BY <1>8
      <3> HIDE DEF q
      <3> QED BY <1>9, <3>1
    <2> HIDE DEF q, n
    <2>2. q \in Seq(S)
      BY <1>1, <2>1, SeqDef
    <2>3. DOMAIN q = 1 .. Len(q) /\ Len(q) \in Nat
      BY <2>2, LenProperties
    <2>4. Len(q) = n
      BY <1>1, <2>1, <2>3
    <2> QED BY <2>1, <2>2, <2>4
  <1> HIDE DEF q
  <1>13. Lists(q, S)
    BY <1>9, <1>10, <1>11, <1>12 DEF Lists
  <1> QED BY <1>13 DEF q

\* voxel_sample, taken apart.
Key(s, size, i) == coordinate_key(s.points[i], size)
Keys(s, size) == Ascending({Key(s, size, i) : i \in Sampled(s)})
Voxel(s, size, j) == {i \in Sampled(s) : Key(s, size, i) = Keys(s, size)[j + 1]}
Centre(s, size, j) == SumOver(s.points, Voxel(s, size, j)) \div Cardinality(Voxel(s, size, j))
VoxelNormal(s, size, j) == IF \A i \in Voxel(s, size, j) : Finite(s.normals[i])
                           THEN Sign(SumOver(s.normals, Voxel(s, size, j))) ELSE 0
SourceList(s, size) == FlattenSeq([j \in 1 .. Len(Keys(s, size)) |-> Ascending(Voxel(s, size, j - 1))])
Offsets(s, size) ==
    [j \in 0 .. Len(Keys(s, size)) |-> Cardinality(UNION {Voxel(s, size, q) : q \in 0 .. j - 1})]

\* The voxels of a surface are listed by the keys that occur.
Partitioned(s, size) ==
    LET n == Len(Keys(s, size))
    IN  /\ n \in Nat
        /\ \A j \in 0 .. n - 1 : /\ Voxel(s, size, j) # {}
                                 /\ Voxel(s, size, j) \subseteq Sampled(s)
                                 /\ IsFiniteSet(Voxel(s, size, j))
                                 /\ Keys(s, size)[j + 1] \in Int
        /\ \A i \in Sampled(s) : \E j \in 0 .. n - 1 : i \in Voxel(s, size, j)
        /\ \A j \in 0 .. n - 1 : \A k \in 0 .. n - 1 : j < k => Keys(s, size)[j + 1] < Keys(s, size)[k + 1]

LEMMA SampledFinite ==
    ASSUME NEW s, Shaped(s)
    PROVE  /\ IsFiniteSet(Sampled(s))
           /\ Sampled(s) \subseteq DOMAIN s.points
           /\ \A i \in Sampled(s) : i \in Nat /\ s.points[i] \in Int
  <1>1. /\ Size(s.points) \in Nat /\ DOMAIN s.points = 0 .. Size(s.points) - 1
        /\ Logical(s) \subseteq DOMAIN s.points
        /\ \A i \in DOMAIN s.points : s.points[i] \in Int
    BY Layout, Present
  <1>2. Sampled(s) \subseteq DOMAIN s.points
    BY <1>1 DEF Sampled
  <1>3. IsFiniteSet(DOMAIN s.points)
    BY <1>1, SizeOfInterval
  <1>4. Sampled(s) \in SUBSET DOMAIN s.points
    BY <1>2
  <1>5. IsFiniteSet(Sampled(s))
    BY <1>3, <1>4, FS_Subset
  <1>6. \A i \in DOMAIN s.points : i \in Nat
    BY <1>1
  <1> QED BY <1>1, <1>2, <1>5, <1>6

LEMMA VoxelsPartition ==
    ASSUME NEW s, Shaped(s), NEW size \in Nat \ {0}
    PROVE  Partitioned(s, size)
  <1> DEFINE S == Sampled(s)
             K == {Key(s, size, i) : i \in S}
             q == Keys(s, size)
             n == Len(q)
  <1>1. IsFiniteSet(S) /\ \A i \in S : s.points[i] \in Int
    BY SampledFinite
  <1>2. \A i \in S : Key(s, size, i) \in Int
    <2>1. \A v \in Int : v \div size \in Int
      OBVIOUS
    <2> QED BY <1>1, <2>1 DEF Key, coordinate_key
  <1>3. IsFiniteSet(K) /\ K \subseteq Int
    <2> DEFINE f == [i \in S |-> Key(s, size, i)]
    <2>1. f \in Surjection(S, K)
      BY DEF Surjection
    <2> HIDE DEF f, K
    <2>2. IsFiniteSet(K)
      BY <1>1, <2>1, FS_Surjection
    <2> QED BY <1>2, <2>2 DEF K
  <1>4. Lists(q, K) /\ Cardinality(K) \in Nat
    <2>1. q = Ascending(K)
      BY DEF Keys
    <2> HIDE DEF q, K
    <2> QED BY <1>3, <2>1, AscendingLists, FS_CardinalityType
  <1>5. n \in Nat /\ n = Cardinality(K)
    <2> HIDE DEF K, q
    <2> QED BY <1>4 DEF Lists
  <1>6. ASSUME NEW j \in 0 .. n - 1
        PROVE  /\ Voxel(s, size, j) # {} /\ Voxel(s, size, j) \subseteq S
               /\ IsFiniteSet(Voxel(s, size, j)) /\ q[j + 1] \in Int
    <2>1. j + 1 \in 1 .. n
      <3> HIDE DEF n
      <3> QED BY <1>5
    <2>2. q[j + 1] \in K
      <3> HIDE DEF K, q
      <3> QED BY <1>4, <1>5, <2>1 DEF Lists
    <2>3. PICK i \in S : Key(s, size, i) = q[j + 1]
      BY <2>2
    <2>4. i \in Voxel(s, size, j)
      BY <2>3 DEF Voxel
    <2>5. Voxel(s, size, j) \in SUBSET S
      BY DEF Voxel
    <2>6. IsFiniteSet(Voxel(s, size, j))
      BY <1>1, <2>5, FS_Subset
    <2> QED BY <1>2, <2>3, <2>4, <2>5, <2>6
  <1>7. ASSUME NEW i \in S PROVE \E j \in 0 .. n - 1 : i \in Voxel(s, size, j)
    <2>1. Key(s, size, i) \in K
      OBVIOUS
    <2>2. PICK k \in 1 .. n : q[k] = Key(s, size, i)
      <3> HIDE DEF K, q
      <3> QED BY <1>4, <1>5, <2>1 DEF Lists
    <2>3. k - 1 \in 0 .. n - 1 /\ (k - 1) + 1 = k
      <3> HIDE DEF n
      <3> QED BY <1>5
    <2>4. i \in Voxel(s, size, k - 1)
      BY <2>2, <2>3 DEF Voxel
    <2> QED BY <2>3, <2>4
  <1>8. ASSUME NEW j \in 0 .. n - 1, NEW k \in 0 .. n - 1, j < k PROVE q[j + 1] < q[k + 1]
    <2> HIDE DEF K, q, n
    <2>1. j + 1 \in 1 .. n /\ k + 1 \in 1 .. n /\ j + 1 < k + 1
      BY <1>5, <1>8
    <2> QED BY <1>4, <1>5, <2>1 DEF Lists
  <1> QED BY <1>5, <1>6, <1>7, <1>8 DEF Partitioned

VoxelSurface(s, size) ==
    SurfaceData([j \in 0 .. Len(Keys(s, size)) - 1 |-> Centre(s, size, j)],
                IF s.normals = Empty THEN Empty
                ELSE [j \in 0 .. Len(Keys(s, size)) - 1 |-> VoxelNormal(s, size, j)],
                Empty, {}, s.unit, s.frame)
Unsuited(s, size) ==
    \/ s.unit # "millimeter" \/ ~Finite(size) \/ size <= 0 \/ Sampled(s) = {}
    \/ \E i \in Sampled(s) : ~Finite(s.points[i]) \/ Key(s, size, i) < -KeyLimit \/ Key(s, size, i) >= KeyLimit

LEMMA SamplingIs ==
    ASSUME NEW s, NEW size
    PROVE  voxel_sample(s, size) =
             IF Unsuited(s, size) THEN {}
             ELSE {[surface |-> t, source_indices |-> SourceList(s, size), source_offsets |-> Offsets(s, size)] :
                     t \in Created(VoxelSurface(s, size))}
  BY DEF voxel_sample, Unsuited, VoxelSurface, SourceList, Offsets, Centre, VoxelNormal, Voxel, Keys, Key

LEMMA SampleMeans ==
    ASSUME NEW s, Shaped(s), NEW size \in Int, NEW r \in voxel_sample(s, size)
    PROVE  /\ size \in Nat \ {0} /\ Contract(r.surface)
           /\ r.surface.points = [j \in 0 .. Len(Keys(s, size)) - 1 |-> Centre(s, size, j)]
           /\ Size(r.surface.points) = Len(Keys(s, size))
           /\ r.source_indices = SourceList(s, size)
           /\ r.source_offsets = Offsets(s, size)
           /\ \A i \in Sampled(s) : Key(s, size, i) \in -KeyLimit .. KeyLimit - 1
  <1> DEFINE n == Len(Keys(s, size))
             P == [j \in 0 .. n - 1 |-> Centre(s, size, j)]
             N == IF s.normals = Empty THEN Empty ELSE [j \in 0 .. n - 1 |-> VoxelNormal(s, size, j)]
             new == SurfaceData(P, N, Empty, {}, s.unit, s.frame)
             t == r.surface
  <1>1. /\ ~(size <= 0)
        /\ \A i \in Sampled(s) : ~(Key(s, size, i) < -KeyLimit) /\ ~(Key(s, size, i) >= KeyLimit)
        /\ r.source_indices = SourceList(s, size) /\ r.source_offsets = Offsets(s, size)
        /\ t \in Created(new)
    BY SamplingIs DEF Unsuited, VoxelSurface
  <1>2. size \in Nat \ {0}
    BY <1>1
  <1>3. Partitioned(s, size)
    BY <1>2, VoxelsPartition
  <1>4. n \in Nat
    BY <1>3 DEF Partitioned
  <1>5. \A j \in 0 .. n - 1 : Centre(s, size, j) \in Int
    <2> SUFFICES ASSUME NEW j \in 0 .. n - 1 PROVE Centre(s, size, j) \in Int
      OBVIOUS
    <2> DEFINE X == Voxel(s, size, j)
    <2>1. X # {} /\ IsFiniteSet(X) /\ X \subseteq Sampled(s)
      BY <1>3 DEF Partitioned
    <2>2. \A i \in X : s.points[i] \in Int
      BY <2>1, SampledFinite
    <2> HIDE DEF X
    <2>3. SumOver(s.points, X) \in Int
      BY <2>1, <2>2, SumBounds
    <2>4. Cardinality(X) \in Nat \ {0}
      BY <2>1, FS_CardinalityType, FS_EmptySet
    <2>5. SumOver(s.points, X) \div Cardinality(X) \in Int
      BY <2>3, <2>4
    <2> QED BY <2>5 DEF Centre, X
  <1>6. \A j \in 0 .. n - 1 : VoxelNormal(s, size, j) \in Int
    BY DEF VoxelNormal, Sign
  <1>7. IsArray(P) /\ Size(P) = n
    <2>1. DOMAIN P = 0 .. n - 1 /\ P = [i \in 0 .. n - 1 |-> P[i]] /\ \A i \in 0 .. n - 1 : P[i] \in Int
      BY <1>5
    <2> HIDE DEF P, n
    <2> QED BY <1>4, <2>1, MakeArray
  <1>8. IsArray(N)
    <2> DEFINE Q == [j \in 0 .. n - 1 |-> VoxelNormal(s, size, j)]
    <2>1. DOMAIN Q = 0 .. n - 1 /\ Q = [i \in 0 .. n - 1 |-> Q[i]] /\ \A i \in 0 .. n - 1 : Q[i] \in Int
      BY <1>6
    <2> HIDE DEF Q, n
    <2>2. IsArray(Q)
      BY <1>4, <2>1, MakeArray
    <2> QED BY <2>2, EmptyArray DEF Q, n
  <1>9. t = new /\ validate_surface_data(new)
    BY <1>1, CreatedMeans
  <1>10. IsGrids({})
    BY DEF IsGrids
  <1>11. t.points = P /\ IsSurface(t)
    <2> HIDE DEF P, N
    <2> QED BY <1>7, <1>8, <1>9, <1>10, EmptyArray, Fields
  <1>12. Contract(t)
    BY <1>9, <1>11 DEF Contract
  <1>13. \A i \in Sampled(s) : Key(s, size, i) \in -KeyLimit .. KeyLimit - 1
    <2>1. \A i \in Sampled(s) : Key(s, size, i) \in Int
      <3>1. \A v \in Int : v \div size \in Int
        BY <1>2
      <3> QED BY <3>1, SampledFinite DEF Key, coordinate_key
    <2> QED BY <1>1, <2>1, Constants
  <1> QED BY <1>1, <1>2, <1>7, <1>11, <1>12, <1>13

-----------------------------------------------------------------------------
(***************************************************************************)
(* The invariant                                                           *)
(***************************************************************************)
\* A view keeps its shape whatever its caller writes into it.
ViewInv == /\ viewed \in BOOLEAN
           /\ IsSurface(arrays)
           /\ viewed => Shaped(arrays)

\* What the library returned.
HeldInv == \A s \in held : Contract(s) /\ IsOrigin(origin) /\ Trace(s, origin)

\* What was written.
FileInv == /\ \A c \in file : IsCloud(c)
           /\ \A w \in saved : /\ Shaped(w.surface) /\ w.binary \in BOOLEAN
                               /\ \E c \in stored(encode_cloud(w.surface), w.binary) : file = {c}

StoreInv == ViewInv /\ HeldInv /\ FileInv

LEMMA SourcesSound ==
    ASSUME StoreInv, NEW src \in Sources
    PROVE  Shaped(src.surface) /\ IsOrigin(src.origin) /\ Trace(src.surface, src.origin)
  <1>1. CASE viewed /\ src = [surface |-> arrays, origin |-> Unchanged(arrays)]
    <2>1. src.surface = arrays /\ src.origin = Unchanged(arrays)
      BY <1>1
    <2>2. IsSurface(arrays) /\ Shaped(arrays)
      BY <1>1 DEF StoreInv, ViewInv
    <2> QED BY <2>1, <2>2, TraceStart
  <1>2. CASE \E s \in held : src = [surface |-> s, origin |-> origin]
    <2>1. PICK s \in held : src = [surface |-> s, origin |-> origin]
      BY <1>2
    <2> QED BY <2>1, ContractShaped DEF StoreInv, HeldInv
  <1> QED BY <1>1, <1>2 DEF Sources

\* A call that returns a sound surface with its origin.
LEMMA ReturnedKeeps ==
    ASSUME StoreInv, NEW src, NEW t, NEW r, NEW o, Returned(src, t, r, o),
           Contract(t), IsOrigin(o), Trace(t, o)
    PROVE  StoreInv'
  <1>1. /\ held' = {t} /\ origin' = o
        /\ arrays' = arrays /\ viewed' = viewed /\ file' = file /\ saved' = saved
    BY DEF Returned
  <1>2. ViewInv'
    BY <1>1 DEF StoreInv, ViewInv
  <1>3. HeldInv'
    BY <1>1 DEF HeldInv
  <1>4. FileInv'
    BY <1>1 DEF StoreInv, FileInv
  <1> QED BY <1>2, <1>3, <1>4 DEF StoreInv

LEMMA InitSound == Init => StoreInv
  <1> SUFFICES ASSUME Init PROVE StoreInv
    OBVIOUS
  <1>1. IsSurface(arrays)
    BY StoreAssumption DEF Init
  <1>2. viewed = FALSE /\ held = {} /\ file = {} /\ saved = {}
    BY DEF Init, NoFile
  <1> QED BY <1>1, <1>2 DEF StoreInv, ViewInv, HeldInv, FileInv

LEMMA BorrowKeeps ==
    ASSUME StoreInv, Borrow
    PROVE  StoreInv'
  <1>1. viewed' = TRUE /\ arrays' = arrays /\ held' = held /\ origin' = origin /\ file' = file /\ saved' = saved
    BY DEF Borrow
  <1>2. Shaped(arrays)
    BY ContractShaped DEF Borrow, StoreInv, ViewInv, Contract
  <1>3. ViewInv'
    BY <1>1, <1>2 DEF StoreInv, ViewInv
  <1>4. HeldInv' /\ FileInv'
    BY <1>1 DEF StoreInv, HeldInv, FileInv
  <1> QED BY <1>3, <1>4 DEF StoreInv

\* Overwriting an element leaves an array an array.
LEMMA Overwritten ==
    ASSUME NEW a, IsArray(a), NEW i \in DOMAIN a, NEW v \in Int
    PROVE  IsArray([a EXCEPT ![i] = v]) /\ Size([a EXCEPT ![i] = v]) = Size(a)
  <1> DEFINE b == [a EXCEPT ![i] = v]
             n == Size(a)
  <1>1. n \in Nat /\ DOMAIN a = 0 .. n - 1 /\ (\A k \in DOMAIN a : a[k] \in Int) /\ a = [k \in 0 .. n - 1 |-> a[k]]
    BY ArrayMeans DEF IsArray
  <1>2. DOMAIN b = 0 .. n - 1 /\ b = [k \in 0 .. n - 1 |-> b[k]] /\ \A k \in 0 .. n - 1 : b[k] \in Int
    BY <1>1
  <1> HIDE DEF b, n
  <1>3. IsArray(b) /\ Size(b) = n
    BY <1>1, <1>2, MakeArray
  <1> QED BY <1>3 DEF b, n

LEMMA MutateKeeps ==
    ASSUME StoreInv, NEW c \in Changes, Mutate(c)
    PROVE  StoreInv'
  <1> DEFINE i == c.index
             P == [arrays.points EXCEPT ![c.index] = c.point]
             V == IF arrays.valid = Empty THEN Empty ELSE [arrays.valid EXCEPT ![c.index] = c.valid]
  <1>1. /\ viewed /\ i \in DOMAIN arrays.points
        /\ arrays' = SurfaceData(P, arrays.normals, V, arrays.grid, arrays.unit, arrays.frame)
        /\ viewed' = viewed /\ held' = held /\ origin' = origin /\ file' = file /\ saved' = saved
    BY DEF Mutate
  <1>2. Shaped(arrays)
    BY <1>1 DEF StoreInv, ViewInv
  <1>3. IsArray(arrays.points) /\ IsArray(arrays.normals) /\ IsArray(arrays.valid) /\ IsGrids(arrays.grid)
    BY <1>2, SurfaceParts DEF Shaped
  <1>4. c.point \in Int /\ c.valid \in Int
    BY StoreAssumption
  <1>5. IsArray(P) /\ Size(P) = Size(arrays.points)
    BY <1>1, <1>3, <1>4, Overwritten
  <1>6. IsArray(V) /\ Size(V) = Size(arrays.valid)
    <2>1. CASE arrays.valid = Empty
      BY <2>1, EmptyArray
    <2>2. CASE arrays.valid # Empty
      <3>1. i \in DOMAIN arrays.valid
        BY <1>1, <1>2, <2>2, Present
      <3> QED BY <1>3, <1>4, <2>2, <3>1, Overwritten
    <2> QED BY <2>1, <2>2
  <1> HIDE DEF P, V
  <1>7. /\ arrays'.points = P /\ arrays'.normals = arrays.normals /\ arrays'.valid = V /\ arrays'.grid = arrays.grid
        /\ IsSurface(arrays')
    BY <1>1, <1>3, <1>5, <1>6, Fields
  <1>8. P # Empty
    BY <1>2, <1>3, <1>5, ArrayMeans DEF Shaped
  <1>9. Shaped(arrays')
    BY <1>2, <1>5, <1>6, <1>7, <1>8 DEF Shaped
  <1>10. ViewInv'
    BY <1>1, <1>7, <1>9 DEF StoreInv, ViewInv
  <1>11. HeldInv' /\ FileInv'
    BY <1>1 DEF StoreInv, HeldInv, FileInv
  <1> QED BY <1>10, <1>11 DEF StoreInv

LEMMA OwnKeeps ==
    ASSUME StoreInv, Own
    PROVE  StoreInv'
  <1>1. PICK t \in Created(arrays) : Returned([surface |-> arrays], t, Silent, Unchanged(arrays))
    BY DEF Own
  <1>2. IsSurface(arrays)
    BY DEF StoreInv, ViewInv
  <1>3. t = arrays /\ Contract(t)
    BY <1>1, <1>2, CreatedMeans DEF Contract
  <1>4. IsOrigin(Unchanged(arrays)) /\ Trace(t, Unchanged(arrays))
    BY <1>2, <1>3, TraceStart
  <1> QED BY <1>1, <1>3, <1>4, ReturnedKeeps

LEMMA NormalizeKeeps ==
    ASSUME StoreInv, NEW f, NEW tr \in Transforms, Normalize(f, tr)
    PROVE  StoreInv'
  <1>1. PICK src \in Sources : \E n \in normalize_surface(src.surface, f, tr) :
          Returned(src, n, Silent, Moved(src.origin, tr))
    BY DEF Normalize
  <1>2. PICK n \in normalize_surface(src.surface, f, tr) : Returned(src, n, Silent, Moved(src.origin, tr))
    BY <1>1
  <1>3. Shaped(src.surface) /\ IsOrigin(src.origin) /\ Trace(src.surface, src.origin) /\ IsTransform(tr)
    BY SourcesSound, TransformsAre
  <1>4. Contract(n)
    BY <1>3, NormalizeMeans
  <1>5. IsOrigin(Moved(src.origin, tr)) /\ Trace(n, Moved(src.origin, tr))
    BY <1>3, TraceNormalized
  <1> QED BY <1>2, <1>4, <1>5, ReturnedKeeps

LEMMA MaskKeeps ==
    ASSUME StoreInv, NEW roi \in Rois, Mask(roi)
    PROVE  StoreInv'
  <1>1. PICK src \in Sources : \E r \in apply_validity_mask(src.surface, roi) :
          Returned(src, r.surface,
                   [kind |-> "mask", roi |-> roi, reasons |-> r.reasons, valid_count |-> r.valid_count], src.origin)
    BY DEF Mask
  <1>2. PICK r \in apply_validity_mask(src.surface, roi) :
          Returned(src, r.surface,
                   [kind |-> "mask", roi |-> roi, reasons |-> r.reasons, valid_count |-> r.valid_count], src.origin)
    BY <1>1
  <1>3. Shaped(src.surface) /\ IsOrigin(src.origin) /\ Trace(src.surface, src.origin) /\ IsRegion(roi)
    BY SourcesSound, StoreAssumption DEF IsRegion
  <1>4. /\ Contract(r.surface) /\ Kept(r.surface, src.surface, roi)
        /\ \A i \in Logical(src.surface) : input_valid(r.surface, i) => input_valid(src.surface, i)
    BY <1>3, MaskMeans
  <1>5. Trace(r.surface, src.origin)
    <2>1. \A k \in Ordinals(src.surface) :
            input_valid(r.surface, Slot(src.surface, k)) => input_valid(src.surface, Slot(src.surface, k))
      BY <1>4 DEF Logical
    <2> QED BY <1>3, <1>4, <2>1, TraceMasked DEF Kept
  <1> QED BY <1>2, <1>3, <1>4, <1>5, ReturnedKeeps

LEMMA SampleKeeps ==
    ASSUME StoreInv, NEW size \in VoxelSizes, Sample(size)
    PROVE  StoreInv'
  <1>1. PICK src \in Sources : \E r \in voxel_sample(src.surface, size) :
          \E rep : Returned(src, r.surface, rep, Unchanged(r.surface))
    BY DEF Sample
  <1>2. PICK r \in voxel_sample(src.surface, size) : \E rep : Returned(src, r.surface, rep, Unchanged(r.surface))
    BY <1>1
  <1>3. PICK rep : Returned(src, r.surface, rep, Unchanged(r.surface))
    BY <1>2
  <1>4. Shaped(src.surface) /\ size \in Int
    BY SourcesSound, StoreAssumption
  <1>5. Contract(r.surface)
    BY <1>4, SampleMeans
  <1>6. IsOrigin(Unchanged(r.surface)) /\ Trace(r.surface, Unchanged(r.surface))
    BY <1>5, TraceStart DEF Contract
  <1> QED BY <1>3, <1>5, <1>6, ReturnedKeeps

LEMMA PrepareKeeps ==
    ASSUME StoreInv, NEW radius \in Radii, NEW hint \in Hints, PrepareNormals(radius, hint)
    PROVE  StoreInv'
  <1>1. PICK src \in Sources : \E r \in prepare_normals_and_boundaries(src.surface, radius, 3, radius, hint, 1) :
          \E rep : Returned(src, r.surface, rep, Replaced(src.origin))
    BY DEF PrepareNormals
  <1>2. PICK r \in prepare_normals_and_boundaries(src.surface, radius, 3, radius, hint, 1) :
          \E rep : Returned(src, r.surface, rep, Replaced(src.origin))
    BY <1>1
  <1>3. PICK rep : Returned(src, r.surface, rep, Replaced(src.origin))
    BY <1>2
  <1>4. Shaped(src.surface) /\ IsOrigin(src.origin) /\ Trace(src.surface, src.origin) /\ hint.value \in Int
    BY SourcesSound, StoreAssumption
  <1>5. Prepared(r.surface, src.surface)
    BY <1>4, PrepareMeans
  <1>6. IsOrigin(Replaced(src.origin)) /\ Trace(src.surface, Replaced(src.origin)) /\ Replaced(src.origin).carried = FALSE
    BY <1>4, TraceReplaced
  <1>7. Trace(r.surface, Replaced(src.origin))
    <2>1. \A k \in Ordinals(src.surface) :
            input_valid(r.surface, Slot(src.surface, k)) => input_valid(src.surface, Slot(src.surface, k))
      BY <1>5 DEF Prepared, Logical
    <2> QED BY <1>5, <1>6, <2>1, TraceMasked DEF Prepared
  <1>8. Contract(r.surface)
    BY <1>5 DEF Prepared
  <1> QED BY <1>3, <1>6, <1>7, <1>8, ReturnedKeeps

LEMMA ThroughPclKeeps ==
    ASSUME StoreInv, ThroughPcl
    PROVE  StoreInv'
  <1>1. PICK src \in Sources : \E t \in through_pcl(src.surface) : Returned(src, t, Silent, src.origin)
    BY DEF ThroughPcl
  <1>2. PICK t \in through_pcl(src.surface) : Returned(src, t, Silent, src.origin)
    BY <1>1
  <1>3. Shaped(src.surface) /\ IsOrigin(src.origin) /\ Trace(src.surface, src.origin)
    BY SourcesSound
  <1>4. Contract(t) /\ SameSamples(t, src.surface) /\ t.unit = src.surface.unit
    BY <1>3, ThroughPclMeans
  <1>5. Trace(t, src.origin)
    BY <1>3, <1>4, TraceSame
  <1> QED BY <1>2, <1>3, <1>4, <1>5, ReturnedKeeps

LEMMA ReadKeeps ==
    ASSUME StoreInv, NEW unit, NEW frame, Read(unit, frame)
    PROVE  StoreInv'
  <1>1. PICK c \in file : \E t \in decode_cloud(c, unit, frame) :
          Returned([surface |-> t], t, [kind |-> "read", cloud |-> c], Unchanged(t))
    BY DEF Read
  <1>2. PICK t \in decode_cloud(c, unit, frame) :
          Returned([surface |-> t], t, [kind |-> "read", cloud |-> c], Unchanged(t))
    BY <1>1
  <1>3. IsCloud(c)
    BY DEF StoreInv, FileInv
  <1>4. Contract(t)
    BY <1>3, DecodeMeans
  <1>5. IsOrigin(Unchanged(t)) /\ Trace(t, Unchanged(t))
    BY <1>4, TraceStart DEF Contract
  <1> QED BY <1>2, <1>4, <1>5, ReturnedKeeps

LEMMA WriteKeeps ==
    ASSUME StoreInv, (\E binary \in BOOLEAN : Write(binary)) \/ \E c \in ForeignFiles : Replace(c)
    PROVE  StoreInv'
  <1>1. arrays' = arrays /\ viewed' = viewed /\ held' = held /\ origin' = origin
    BY DEF Write, Replace
  <1>2. ViewInv' /\ HeldInv'
    BY <1>1 DEF StoreInv, ViewInv, HeldInv
  <1>3. FileInv'
    <2>1. CASE \E binary \in BOOLEAN : \E src \in Sources : \E c \in stored(encode_cloud(src.surface), binary) :
                 file' = {c} /\ saved' = {[surface |-> src.surface, binary |-> binary]}
      <3>1. PICK binary \in BOOLEAN : \E src \in Sources : \E c \in stored(encode_cloud(src.surface), binary) :
                   file' = {c} /\ saved' = {[surface |-> src.surface, binary |-> binary]}
        BY <2>1
      <3>2. PICK src \in Sources : \E c \in stored(encode_cloud(src.surface), binary) :
                   file' = {c} /\ saved' = {[surface |-> src.surface, binary |-> binary]}
        BY <3>1
      <3>3. PICK c \in stored(encode_cloud(src.surface), binary) :
                   file' = {c} /\ saved' = {[surface |-> src.surface, binary |-> binary]}
        BY <3>2
      <3>4. Shaped(src.surface)
        BY SourcesSound
      <3>5. IsCloud(c)
        BY <3>4, StoredIsCloud
      <3>6. \A w \in saved' : w.surface = src.surface /\ w.binary = binary
        BY <3>3
      <3> QED BY <3>3, <3>4, <3>5, <3>6 DEF FileInv
    <2>2. CASE file' = {} /\ saved' = {}
      BY <2>2 DEF FileInv
    <2>3. CASE \E c \in ForeignFiles : file' = {c} /\ saved' = {}
      BY <2>3, StoreAssumption DEF FileInv
    <2> QED BY <2>1, <2>2, <2>3 DEF Write, Replace, NoFile
  <1> QED BY <1>2, <1>3 DEF StoreInv

LEMMA StutterKeeps ==
    ASSUME StoreInv, UNCHANGED vars
    PROVE  StoreInv'
  <1>1. arrays' = arrays /\ viewed' = viewed /\ held' = held /\ origin' = origin /\ file' = file /\ saved' = saved
    BY DEF vars
  <1> QED BY <1>1 DEF StoreInv, ViewInv, HeldInv, FileInv

LEMMA StepKeeps ==
    ASSUME StoreInv, [Next]_vars
    PROVE  StoreInv'
  <1>1. CASE Borrow
    BY <1>1, BorrowKeeps
  <1>2. CASE Own
    BY <1>2, OwnKeeps
  <1>3. CASE ThroughPcl
    BY <1>3, ThroughPclKeeps
  <1>4. CASE (\E binary \in BOOLEAN : Write(binary)) \/ \E c \in ForeignFiles : Replace(c)
    BY <1>4, WriteKeeps
  <1>5. CASE \E c \in Changes : Mutate(c)
    BY <1>5, MutateKeeps
  <1>6. CASE \E f \in Frames, t \in Transforms : Normalize(f, t)
    BY <1>6, NormalizeKeeps
  <1>7. CASE \E roi \in Rois : Mask(roi)
    BY <1>7, MaskKeeps
  <1>8. CASE \E size \in VoxelSizes : Sample(size)
    BY <1>8, SampleKeeps
  <1>9. CASE \E radius \in Radii, hint \in Hints : PrepareNormals(radius, hint)
    BY <1>9, PrepareKeeps
  <1>10. CASE \E unit \in Units, f \in Frames : Read(unit, f)
    BY <1>10, ReadKeeps
  <1>11. CASE UNCHANGED vars
    BY <1>11, StutterKeeps
  <1> QED BY <1>1, <1>2, <1>3, <1>4, <1>5, <1>6, <1>7, <1>8, <1>9, <1>10, <1>11 DEF Next

\* The inductive invariant of the surfaces, the arrays and the file.
THEOREM Inductive == Spec => []StoreInv
  <1>1. Init => StoreInv
    BY InitSound
  <1>2. StoreInv /\ [Next]_vars => StoreInv'
    BY StepKeeps
  <1> QED BY <1>1, <1>2, PTL DEF Spec

\* Whatever sequence of calls made it, and whatever a caller does to arrays
\* behind a view, a surface the library returns can be used unseen.
THEOREM ProductsCorrect == Spec => []SoundProducts
  <1>1. StoreInv => SoundProducts
    BY ContractMeans DEF StoreInv, HeldInv, SoundProducts
  <1> QED BY <1>1, Inductive, PTL

\* Every valid point of a returned surface was valid in the surface it derives
\* from and lies where one conversion of its unit and the composition of all
\* transforms since put it.
THEOREM TraceCorrect == Spec => []Traceable
  <1>1. StoreInv => Traceable
    <2> SUFFICES ASSUME StoreInv, NEW s \in held
                 PROVE  /\ DOMAIN Samples(s) = DOMAIN origin.samples
                        /\ s.unit = IF origin.normalized THEN "millimeter" ELSE origin.unit
                        /\ \A k \in DOMAIN Samples(s) :
                             LET now == Samples(s)[k]
                                 was == origin.samples[k]
                             IN  now.v => /\ was.v
                                          /\ now.x = IF origin.normalized
                                                     THEN origin.rotation * to_millimeters(was.x, origin.unit) + origin.shift
                                                     ELSE was.x
                                          /\ (origin.carried /\ s.normals # Empty) => now.n = origin.rotation * was.n
      BY DEF Traceable
    <2>1. Trace(s, origin)
      BY DEF StoreInv, HeldInv
    <2>2. /\ DOMAIN Samples(s) = Ordinals(s)
          /\ \A k \in Ordinals(s) : /\ Samples(s)[k].x = At(s.points, Slot(s, k))
                                    /\ Samples(s)[k].n = At(s.normals, Slot(s, k))
                                    /\ Samples(s)[k].v <=> input_valid(s, Slot(s, k))
      BY SamplesAre
    <2> QED BY <2>1, <2>2 DEF Trace, Place
  <1> QED BY <1>1, Inductive, PTL

\* A file written from a surface that honours its contract and whose points 32
\* bits can count is read back as that surface, up to the digits that were
\* printed, if the bytes of a row fit 32 bits; otherwise it is refused.
THEOREM FilesCorrect == Spec => []ReadsBack
  <1>1. StoreInv => ReadsBack
    <2> SUFFICES ASSUME StoreInv, NEW w \in saved, NEW c \in file,
                        validate_surface_data(w.surface), Width(w.surface) <= MaxUInt32
                 PROVE  LET s == w.surface
                            again == decode_cloud(c, s.unit, s.frame)
                        IN  /\ again # {} <=> Step(s) * Width(s) <= MaxUInt32
                            /\ \A t \in again : Restores(t, s, w.binary)
      BY DEF ReadsBack
    <2> DEFINE s == w.surface
               again == decode_cloud(c, s.unit, s.frame)
    <2>1. /\ Shaped(s) /\ Contract(s) /\ w.binary \in BOOLEAN
          /\ c \in stored(encode_cloud(s), w.binary)
      BY DEF StoreInv, FileInv, Shaped, Contract
    <2>2. CASE Step(s) * Width(s) <= MaxUInt32
      <3>1. /\ again # {}
            /\ \A t \in again : /\ Reread(t, s, w.binary)
                                /\ Height(s) > 1 => Width(t) = Width(s) /\ Height(t) = Height(s)
        BY <2>1, <2>2, FileReadsBack
      <3>2. ASSUME NEW t, Reread(t, s, w.binary), Height(s) > 1 => Width(t) = Width(s) /\ Height(t) = Height(s)
            PROVE  Restores(t, s, w.binary)
        <4>1. \A k \in Ordinals(s) : Samples(t)[k].v = Samples(s)[k].v
          BY <3>2 DEF Reread, Samples, input_valid
        <4>2. \A k \in Ordinals(s) : /\ Samples(t)[k].x \in Reading(Samples(s)[k].x, w.binary)
                                     /\ Samples(t)[k].n \in Reading(Samples(s)[k].n, w.binary)
          BY <3>2 DEF Reread, Samples
        <4> QED BY <3>2, <4>1, <4>2 DEF Restores, Reread
      <3> QED BY <2>2, <3>1, <3>2
    <2>3. CASE ~(Step(s) * Width(s) <= MaxUInt32)
      <3>1. ~validate_fields(c)
        BY <2>1, <2>3, StoredMeans, LongRowRefused
      <3>2. again = {}
        BY <3>1, DecodingIs
      <3> QED BY <2>3, <3>2
    <2> QED BY <2>2, <2>3
  <1> QED BY <1>1, Inductive, PTL

-----------------------------------------------------------------------------
(***************************************************************************)
(* Reports                                                                 *)
(***************************************************************************)
\* A step leaves the last report and what it is about, or makes new ones.
Masked == \E src \in Sources : \E roi \in Rois : \E r \in apply_validity_mask(src.surface, roi) :
            /\ held' = {r.surface} /\ input' = {src.surface}
            /\ report' = [kind |-> "mask", roi |-> roi, reasons |-> r.reasons, valid_count |-> r.valid_count]
Sampling(size) == \E src \in Sources : \E r \in voxel_sample(src.surface, size) :
            /\ held' = {r.surface} /\ input' = {src.surface}
            /\ report' = [kind |-> "voxels", size |-> size, indices |-> r.source_indices, offsets |-> r.source_offsets]
Preparing(radius, hint) == \E src \in Sources :
            \E r \in prepare_normals_and_boundaries(src.surface, radius, 3, radius, hint, 1) :
              /\ held' = {r.surface} /\ input' = {src.surface}
              /\ report' = [kind |-> "normals", radius |-> radius, hint |-> hint, boundary |-> r.boundary,
                            reasons |-> r.reasons, proven |-> r.orientation_proven]

LEMMA Reports ==
    ASSUME [Next]_vars
    PROVE  \/ report' = report /\ input' = input /\ held' = held
           \/ report'.kind \in {"none", "read"}
           \/ Masked
           \/ \E size \in VoxelSizes : Sampling(size)
           \/ \E radius \in Radii : \E hint \in Hints : Preparing(radius, hint)
  <1>1. CASE Borrow \/ (\E binary \in BOOLEAN : Write(binary)) \/ (\E c \in Changes : Mutate(c)) \/ (\E c \in ForeignFiles : Replace(c)) \/ UNCHANGED vars
    BY <1>1 DEF Borrow, Write, Mutate, Replace, vars
  <1>2. CASE Own \/ ThroughPcl \/ \E f \in Frames, t \in Transforms : Normalize(f, t)
    BY <1>2 DEF Own, ThroughPcl, Normalize, Returned, Silent
  <1>3. CASE \E unit \in Units, f \in Frames : Read(unit, f)
    BY <1>3 DEF Read, Returned
  <1>4. CASE \E roi \in Rois : Mask(roi)
    BY <1>4 DEF Mask, Returned, Masked
  <1>5. CASE \E size \in VoxelSizes : Sample(size)
    BY <1>5 DEF Sample, Returned, Sampling
  <1>6. CASE \E radius \in Radii, hint \in Hints : PrepareNormals(radius, hint)
    BY <1>6 DEF PrepareNormals, Returned, Preparing
  <1> QED BY <1>1, <1>2, <1>3, <1>4, <1>5, <1>6 DEF Next

\* MaskExplained, of one call.
Explained(s, t, r) ==
    /\ \A i \in DOMAIN t.valid : t.valid[i] = 1 <=> i \in Usable(s, r.roi)
    /\ r.valid_count = Cardinality(Usable(s, r.roi))
    /\ \A i \in DOMAIN t.valid : True(s, r.roi, i, r.reasons[i])

LEMMA MaskExplainedIs == MaskExplained <=> (report.kind = "mask" => \A s \in input : \A t \in held : Explained(s, t, report))
  BY DEF MaskExplained, Explained, Usable, True

LEMMA MaskedExplained ==
    ASSUME StoreInv, Masked
    PROVE  \A s \in input' : \A t \in held' : Explained(s, t, report')
  <1>1. PICK src \in Sources : \E roi \in Rois : \E r \in apply_validity_mask(src.surface, roi) :
            /\ held' = {r.surface} /\ input' = {src.surface}
            /\ report' = [kind |-> "mask", roi |-> roi, reasons |-> r.reasons, valid_count |-> r.valid_count]
    BY DEF Masked
  <1>2. PICK roi \in Rois : \E r \in apply_validity_mask(src.surface, roi) :
            /\ held' = {r.surface} /\ input' = {src.surface}
            /\ report' = [kind |-> "mask", roi |-> roi, reasons |-> r.reasons, valid_count |-> r.valid_count]
    BY <1>1
  <1>3. PICK r \in apply_validity_mask(src.surface, roi) :
            /\ held' = {r.surface} /\ input' = {src.surface}
            /\ report' = [kind |-> "mask", roi |-> roi, reasons |-> r.reasons, valid_count |-> r.valid_count]
    BY <1>2
  <1>4. report'.roi = roi /\ report'.reasons = r.reasons /\ report'.valid_count = r.valid_count
    BY <1>3
  <1>5. Shaped(src.surface) /\ IsRegion(roi)
    BY SourcesSound, StoreAssumption DEF IsRegion
  <1>6. /\ Kept(r.surface, src.surface, roi)
        /\ r.valid_count = Cardinality(Usable(src.surface, roi))
        /\ \A i \in DOMAIN r.surface.valid : True(src.surface, roi, i, r.reasons[i])
    BY <1>5, MaskMeans
  <1>7. Explained(src.surface, r.surface, report')
    BY <1>4, <1>6 DEF Kept, Explained
  <1> QED BY <1>3, <1>7

\* The mask of every call keeps exactly the points that are valid, finite and
\* inside the region, and every reason it gives is true.
THEOREM MaskCorrect == Spec => []MaskExplained
  <1>1. Init => MaskExplained
    BY DEF Init, Silent, MaskExplained
  <1>2. StoreInv /\ MaskExplained /\ [Next]_vars => MaskExplained'
    <2> SUFFICES ASSUME StoreInv, MaskExplained, [Next]_vars PROVE MaskExplained'
      OBVIOUS
    <2>1. MaskExplained' <=> (report'.kind = "mask" => \A s \in input' : \A t \in held' : Explained(s, t, report'))
      BY DEF MaskExplained, Explained, Usable, True
    <2>2. CASE report' = report /\ input' = input /\ held' = held
      BY <2>1, <2>2, MaskExplainedIs
    <2>3. CASE report'.kind # "mask"
      BY <2>1, <2>3
    <2>4. CASE Masked
      BY <2>1, <2>4, MaskedExplained
    <2>5. (\E size \in VoxelSizes : Sampling(size)) => report'.kind = "voxels"
      BY DEF Sampling
    <2>6. (\E radius \in Radii : \E hint \in Hints : Preparing(radius, hint)) => report'.kind = "normals"
      BY DEF Preparing
    <2> QED BY <2>2, <2>3, <2>4, <2>5, <2>6, Reports
  <1> QED BY <1>1, <1>2, Inductive, PTL DEF Spec

-----------------------------------------------------------------------------
(***************************************************************************)
(* Boundaries                                                              *)
(***************************************************************************)
Cell(s, row, column) == row * Stride(s) + column

\* One side of a cell is open.
Open(s, radius, row, column, r, c) ==
    \/ r < 0 \/ c < 0 \/ r >= Height(s) \/ c >= Width(s)
    \/ ~input_valid(s, Cell(s, r, c))
    \/ ~Near(s, Cell(s, row, column), Cell(s, r, c), radius)

SomeOpen(s, radius, row, column) ==
    \/ Open(s, radius, row, column, row - 1, column)
    \/ Open(s, radius, row, column, row + 1, column)
    \/ Open(s, radius, row, column, row, column - 1)
    \/ Open(s, radius, row, column, row, column + 1)

LEMMA GridMeans ==
    ASSUME NEW s, Shaped(s), NEW radius, NEW i
    PROVE  i \in detect_grid_boundaries(s, radius) <=>
             \E row \in 0 .. Height(s) - 1 : \E column \in 0 .. Width(s) - 1 :
               i = Cell(s, row, column) /\ input_valid(s, i) /\ SomeOpen(s, radius, row, column)
  <1> DEFINE R == 0 .. Height(s) - 1
             C == 0 .. Width(s) - 1
             D == {<<-1, 0>>, <<1, 0>>, <<0, -1>>, <<0, 1>>}
             side(row, column) == \E d \in D : Open(s, radius, row, column, row + d[1], column + d[2])
  <1>1. detect_grid_boundaries(s, radius) =
          {Cell(s, p[1], p[2]) : p \in {q \in R \X C : input_valid(s, Cell(s, q[1], q[2])) /\ side(q[1], q[2])}}
    BY DEF detect_grid_boundaries, Open, Cell
  <1>2. ASSUME NEW row \in R, NEW column \in C PROVE side(row, column) <=> SomeOpen(s, radius, row, column)
    <2>1. row \in Int /\ column \in Int
      BY Layout
    <2>2. side(row, column) <=> \/ Open(s, radius, row, column, row + (-1), column + 0)
                                \/ Open(s, radius, row, column, row + 1, column + 0)
                                \/ Open(s, radius, row, column, row + 0, column + (-1))
                                \/ Open(s, radius, row, column, row + 0, column + 1)
      OBVIOUS
    <2>3. row + (-1) = row - 1 /\ row + 0 = row /\ column + (-1) = column - 1 /\ column + 0 = column
      BY <2>1
    <2> QED BY <2>2, <2>3 DEF SomeOpen
  <1> HIDE DEF side
  <1>3. i \in detect_grid_boundaries(s, radius) <=>
          \E row \in R : \E column \in C : i = Cell(s, row, column) /\ input_valid(s, i) /\ side(row, column)
    <2> HIDE DEF R, C
    <2> DEFINE T == {q \in R \X C : input_valid(s, Cell(s, q[1], q[2])) /\ side(q[1], q[2])}
    <2>1. ASSUME i \in detect_grid_boundaries(s, radius)
          PROVE  \E row \in R : \E column \in C : i = Cell(s, row, column) /\ input_valid(s, i) /\ side(row, column)
      <3>1. PICK p \in T : i = Cell(s, p[1], p[2])
        BY <1>1, <2>1
      <3>2. p[1] \in R /\ p[2] \in C /\ input_valid(s, Cell(s, p[1], p[2])) /\ side(p[1], p[2])
        OBVIOUS
      <3> QED BY <3>1, <3>2
    <2>2. ASSUME NEW row \in R, NEW column \in C, i = Cell(s, row, column), input_valid(s, i), side(row, column)
          PROVE  i \in detect_grid_boundaries(s, radius)
      <3> DEFINE p == <<row, column>>
      <3>1. p \in R \X C /\ p[1] = row /\ p[2] = column
        OBVIOUS
      <3> HIDE DEF p
      <3>2. p \in T
        BY <2>2, <3>1
      <3>3. i = Cell(s, p[1], p[2])
        BY <2>2, <3>1
      <3> QED BY <1>1, <3>2, <3>3
    <2> QED BY <2>1, <2>2
  <1> QED BY <1>2, <1>3

LEMMA Cells ==
    ASSUME NEW s, Shaped(s), NEW row \in 0 .. Height(s) - 1, NEW column \in 0 .. Width(s) - 1
    PROVE  LET k == row * Width(s) + column
           IN  /\ k \in Ordinals(s) /\ k \div Width(s) = row /\ k % Width(s) = column
               /\ Slot(s, k) = Cell(s, row, column)
  <1> DEFINE w == Width(s)
             h == Height(s)
             k == row * w + column
  <1>1. w \in Nat \ {0} /\ h \in Nat \ {0}
    BY Layout
  <1>2. k \div w = row /\ k % w = column
    <2>1. row \in Int
      BY <1>1
    <2> HIDE DEF w
    <2> QED BY <1>1, <2>1, DivisionUnique DEF w
  <1>3. k \in 0 .. w * h - 1
    <2> HIDE DEF w, h
    <2>1. row \in Nat /\ column \in Nat /\ row <= h - 1 /\ column <= w - 1
      BY <1>1 DEF w, h
    <2>2. row * w <= (h - 1) * w /\ row * w \in Nat
      BY <1>1, <2>1
    <2>3. (h - 1) * w = w * h - w /\ w * h \in Nat
      BY <1>1
    <2> QED BY <1>1, <2>1, <2>2, <2>3
  <1> QED BY <1>2, <1>3 DEF Ordinals, Slot, Cell

\* Four neighbours are four different points only if a row is wider than one.
LEMMA FourNeighbours ==
    ASSUME NEW k \in Int, NEW w \in Nat \ {0}, NEW B \in SUBSET {k - w, k + w, k - 1, k + 1}
    PROVE  Cardinality(B) = 4 <=> w > 1 /\ {k - w, k + w, k - 1, k + 1} \subseteq B
  <1> DEFINE a == k - w
             b == k + w
             c == k - 1
             d == k + 1
             F == {a, b, c, d}
  <1>1. IsFiniteSet({a}) /\ Cardinality({a}) = 1
    BY FS_Singleton
  <1>2. a # b /\ c # d /\ {a} \union {b} = {a, b} /\ {a, b} \union {c} = {a, b, c} /\ {a, b, c} \union {d} = F
    OBVIOUS
  <1>3. IsFiniteSet({a, b}) /\ Cardinality({a, b}) = 2
    <2>1. b \notin {a}
      BY <1>2
    <2>2. IsFiniteSet({a} \union {b}) /\ Cardinality({a} \union {b}) = 1 + 1
      <3> HIDE DEF a, b
      <3> QED BY <1>1, <2>1, FS_AddElement
    <2> QED BY <1>2, <2>2
  <1>4. CASE w = 1
    <2>1. F = {a, b}
      BY <1>4
    <2>2. B \in SUBSET {a, b}
      BY <2>1
    <2>3. Cardinality(B) <= 2
      <3> HIDE DEF a, b
      <3> QED BY <1>3, <2>2, FS_Subset
    <2>4. IsFiniteSet(B)
      <3> HIDE DEF a, b
      <3> QED BY <1>3, <2>2, FS_Subset
    <2>5. Cardinality(B) \in Nat
      BY <2>4, FS_CardinalityType
    <2> QED BY <1>4, <2>3, <2>5
  <1>5. CASE w # 1
    <2>1. w > 1 /\ c \notin {a, b} /\ d \notin {a, b, c}
      BY <1>5
    <2>2. IsFiniteSet({a, b} \union {c}) /\ Cardinality({a, b} \union {c}) = 2 + 1
      <3> HIDE DEF a, b, c
      <3> QED BY <1>3, <2>1, FS_AddElement
    <2>3. IsFiniteSet({a, b, c}) /\ Cardinality({a, b, c}) = 3
      BY <1>2, <2>2
    <2>4. IsFiniteSet({a, b, c} \union {d}) /\ Cardinality({a, b, c} \union {d}) = 3 + 1
      <3> HIDE DEF a, b, c, d
      <3> QED BY <2>1, <2>3, FS_AddElement
    <2>5. IsFiniteSet(F) /\ Cardinality(F) = 4
      BY <1>2, <2>4
    <2> HIDE DEF F
    <2>6. B \in SUBSET F
      BY DEF F
    <2>7. Cardinality(F) = Cardinality(B) => F = B
      BY <2>5, <2>6, FS_Subset
    <2>8. Cardinality(B) = 4 <=> F \subseteq B
      <3>1. ASSUME F \subseteq B PROVE Cardinality(B) = 4
        <4>1. B = F
          BY <2>6, <3>1
        <4> QED BY <2>5, <4>1
      <3> QED BY <2>5, <2>7, <3>1
    <2> QED BY <2>1, <2>8 DEF F
  <1> QED BY <1>4, <1>5

\* The terms of BoundaryTold.
Valid(s) == {k \in Ordinals(s) : input_valid(s, Slot(s, k))}
X(s, k) == At(s.points, Slot(s, k))
Beside(s, k, m) == \/ m \in {k - Width(s), k + Width(s)}
                   \/ m \in {k - 1, k + 1} /\ m \div Width(s) = k \div Width(s)
Close(s, radius, k) == {m \in Valid(s) \ {k} : Magnitude(X(s, k) - X(s, m)) <= radius}
Surrounded(s, radius, k) == Cardinality({m \in Close(s, radius, k) : Beside(s, k, m)}) = 4

\* m is valid and not far from k.
Good(s, radius, k, m) == m \in Valid(s) /\ Magnitude(X(s, k) - X(s, m)) <= radius

LEMMA ValidMeans ==
    ASSUME NEW s, Contract(s), NEW k \in Valid(s)
    PROVE  /\ k \in Ordinals(s) /\ input_valid(s, Slot(s, k)) /\ Slot(s, k) \in DOMAIN s.points
           /\ X(s, k) = s.points[Slot(s, k)] /\ X(s, k) \in Int /\ Finite(At(s.points, Slot(s, k)))
           /\ Finite(X(s, k))
  <1>1. k \in Ordinals(s) /\ input_valid(s, Slot(s, k))
    BY DEF Valid
  <1>2. Shaped(s)
    BY ContractShaped
  <1>3. Slot(s, k) \in DOMAIN s.points /\ Finite(s.points[Slot(s, k)])
    BY <1>1, ContractMeans
  <1>4. X(s, k) = s.points[Slot(s, k)] /\ s.points[Slot(s, k)] \in Int
    BY <1>2, <1>3, Present DEF X
  <1> QED BY <1>1, <1>3, <1>4 DEF X

LEMMA ClosedSide ==
    ASSUME NEW s, Contract(s), NEW radius, NEW k \in Valid(s), NEW r \in Int, NEW c \in Int
    PROVE  ~Open(s, radius, k \div Width(s), k % Width(s), r, c) <=>
             r \in 0 .. Height(s) - 1 /\ c \in 0 .. Width(s) - 1 /\ Good(s, radius, k, r * Width(s) + c)
  <1> DEFINE w == Width(s)
             h == Height(s)
             row == k \div Width(s)
             column == k % Width(s)
             m == r * Width(s) + c
  <1>1. Shaped(s) /\ w \in Nat \ {0} /\ h \in Nat \ {0}
    BY ContractShaped, Layout
  <1>2. Cell(s, row, column) = Slot(s, k)
    BY DEF Cell, Slot
  <1>3. /\ X(s, k) = s.points[Slot(s, k)] /\ Finite(At(s.points, Slot(s, k)))
    BY ValidMeans
  <1>4. CASE ~(r \in 0 .. h - 1 /\ c \in 0 .. w - 1)
    <2>1. r < 0 \/ c < 0 \/ r >= h \/ c >= w
      BY <1>1, <1>4
    <2> QED BY <1>4, <2>1 DEF Open
  <1>5. CASE r \in 0 .. h - 1 /\ c \in 0 .. w - 1
    <2>1. m \in Ordinals(s) /\ Slot(s, m) = Cell(s, r, c)
      BY <1>1, <1>5, Cells
    <2>2. ~(r < 0 \/ c < 0 \/ r >= h \/ c >= w)
      BY <1>1, <1>5
    <2> HIDE DEF m, row, column
    <2>3. ~Open(s, radius, row, column, r, c) <=>
            input_valid(s, Slot(s, m)) /\ Near(s, Slot(s, k), Slot(s, m), radius)
      BY <1>2, <2>1, <2>2 DEF Open
    <2>4. input_valid(s, Slot(s, m)) <=> m \in Valid(s)
      BY <2>1 DEF Valid
    <2>5. ASSUME m \in Valid(s)
          PROVE  Near(s, Slot(s, k), Slot(s, m), radius) <=> Magnitude(X(s, k) - X(s, m)) <= radius
      <3>1. X(s, m) = s.points[Slot(s, m)] /\ Finite(At(s.points, Slot(s, m)))
        BY <2>5, ValidMeans
      <3> QED BY <1>3, <3>1 DEF Near
    <2>6. ~Open(s, radius, row, column, r, c) <=> Good(s, radius, k, m)
      BY <2>3, <2>4, <2>5 DEF Good
    <2> QED BY <1>5, <2>6 DEF m, row, column
  <1> QED BY <1>4, <1>5

\* The four sides in terms of row-major order.
LEMMA Sides ==
    ASSUME NEW s, Contract(s), NEW radius, NEW k \in Valid(s)
    PROVE  LET w == Width(s)
               row == k \div w
               column == k % w
           IN  /\ ~Open(s, radius, row, column, row - 1, column) <=> Good(s, radius, k, k - w)
               /\ ~Open(s, radius, row, column, row + 1, column) <=> Good(s, radius, k, k + w)
               /\ ~Open(s, radius, row, column, row, column - 1) <=>
                    Good(s, radius, k, k - 1) /\ column > 0
               /\ ~Open(s, radius, row, column, row, column + 1) <=>
                    Good(s, radius, k, k + 1) /\ column + 1 < w
               /\ column > 0 <=> (k - 1) \div w = row
               /\ column + 1 < w <=> (k + 1) \div w = row
  <1> DEFINE w == Width(s)
             h == Height(s)
             row == k \div w
             column == k % w
  <1>1. Shaped(s) /\ w \in Nat \ {0} /\ h \in Nat \ {0} /\ Ordinals(s) = 0 .. w * h - 1
    BY ContractShaped, Layout, Area
  <1>2. k \in Ordinals(s)
    BY ValidMeans
  <1>3. row \in 0 .. h - 1 /\ column \in 0 .. w - 1 /\ k = row * w + column /\ k \in Nat
    <2>1. k \in Nat /\ row \in 0 .. h - 1 /\ column \in 0 .. w - 1
      BY <1>1, <1>2, SlotInside
    <2> HIDE DEF w
    <2>2. w \in Nat \ {0} /\ k \in Int
      BY <1>1, <2>1
    <2>3. k = (k \div w) * w + (k % w)
      BY <2>2, Division
    <2> QED BY <2>1, <2>3
  <1>4. \A r \in Int : \A c \in Int : ~Open(s, radius, row, column, r, c) <=>
             r \in 0 .. h - 1 /\ c \in 0 .. w - 1 /\ Good(s, radius, k, r * w + c)
    BY ClosedSide
  <1>5. \A m : Good(s, radius, k, m) => m \in 0 .. w * h - 1
    BY <1>1 DEF Good, Valid
  <1> HIDE DEF w, h, row, column
  <1>6. row \in Nat /\ column \in Nat /\ row <= h - 1 /\ column < w
    BY <1>1, <1>3
  <1>7. (row - 1) * w + column = k - w /\ (row + 1) * w + column = k + w
    BY <1>1, <1>3, <1>6
  <1>8. row * w + (column - 1) = k - 1 /\ row * w + (column + 1) = k + 1
    <2>1. row * w \in Int
      BY <1>1, <1>6
    <2> QED BY <1>3, <1>6, <2>1
  <1>9. ~Open(s, radius, row, column, row - 1, column) <=> Good(s, radius, k, k - w)
    <2>1. ~Open(s, radius, row, column, row - 1, column) <=>
             row - 1 \in 0 .. h - 1 /\ column \in 0 .. w - 1 /\ Good(s, radius, k, (row - 1) * w + column)
      BY <1>4, <1>6
    <2>2. ASSUME Good(s, radius, k, k - w) PROVE row - 1 \in 0 .. h - 1
      <3>1. k - w >= 0
        BY <1>1, <1>5, <2>2
      <3>2. row # 0
        <4> SUFFICES ASSUME row = 0 PROVE FALSE
          OBVIOUS
        <4>1. k = column
          BY <1>1, <1>3, <1>6
        <4> QED BY <1>1, <1>6, <3>1, <4>1
      <3> QED BY <1>1, <1>6, <3>2
    <2> QED BY <1>3, <1>7, <2>1, <2>2
  <1>10. ~Open(s, radius, row, column, row + 1, column) <=> Good(s, radius, k, k + w)
    <2>1. ~Open(s, radius, row, column, row + 1, column) <=>
             row + 1 \in 0 .. h - 1 /\ column \in 0 .. w - 1 /\ Good(s, radius, k, (row + 1) * w + column)
      BY <1>4, <1>6
    <2>2. ASSUME Good(s, radius, k, k + w) PROVE row + 1 \in 0 .. h - 1
      <3>1. (row + 1) * w + column < w * h
        <4>1. k + w \in 0 .. w * h - 1
          BY <1>5, <2>2
        <4>2. w * h \in Int
          BY <1>1
        <4> QED BY <1>1, <1>3, <1>7, <4>1, <4>2
      <3>2. row # h - 1
        <4> SUFFICES ASSUME row = h - 1 PROVE FALSE
          OBVIOUS
        <4>1. (row + 1) * w = w * h /\ w * h \in Int
          BY <1>1
        <4> QED BY <1>6, <3>1, <4>1
      <3> QED BY <1>1, <1>6, <3>2
    <2> QED BY <1>3, <1>7, <2>1, <2>2
  <1>11. ~Open(s, radius, row, column, row, column - 1) <=> Good(s, radius, k, k - 1) /\ column > 0
    <2>1. ~Open(s, radius, row, column, row, column - 1) <=>
             row \in 0 .. h - 1 /\ column - 1 \in 0 .. w - 1 /\ Good(s, radius, k, row * w + (column - 1))
      BY <1>4, <1>6
    <2>2. column - 1 \in 0 .. w - 1 <=> column > 0
      BY <1>1, <1>6
    <2> QED BY <1>3, <1>8, <2>1, <2>2
  <1>12. ~Open(s, radius, row, column, row, column + 1) <=> Good(s, radius, k, k + 1) /\ column + 1 < w
    <2>1. ~Open(s, radius, row, column, row, column + 1) <=>
             row \in 0 .. h - 1 /\ column + 1 \in 0 .. w - 1 /\ Good(s, radius, k, row * w + (column + 1))
      BY <1>4, <1>6
    <2>2. column + 1 \in 0 .. w - 1 <=> column + 1 < w
      BY <1>1, <1>6
    <2> QED BY <1>3, <1>8, <2>1, <2>2
  <1>13. column > 0 <=> (k - 1) \div w = row
    <2>1. CASE column > 0
      <3>1. column - 1 \in 0 .. w - 1 /\ row \in Int
        BY <1>1, <1>6, <2>1
      <3>2. (row * w + (column - 1)) \div w = row
        BY <1>1, <3>1, DivisionUnique
      <3> QED BY <1>8, <2>1, <3>2
    <2>2. CASE ~(column > 0)
      <3>1. column = 0 /\ w - 1 \in 0 .. w - 1 /\ row - 1 \in Int
        BY <1>1, <1>6, <2>2
      <3>2. ((row - 1) * w + (w - 1)) \div w = row - 1
        BY <1>1, <3>1, DivisionUnique
      <3>3. (row - 1) * w + (w - 1) = k - 1
        BY <1>1, <1>3, <1>6, <3>1
      <3> QED BY <1>6, <2>2, <3>2, <3>3
    <2> QED BY <2>1, <2>2
  <1>14. column + 1 < w <=> (k + 1) \div w = row
    <2>1. CASE column + 1 < w
      <3>1. column + 1 \in 0 .. w - 1 /\ row \in Int
        BY <1>1, <1>6, <2>1
      <3>2. (row * w + (column + 1)) \div w = row
        BY <1>1, <3>1, DivisionUnique
      <3> QED BY <1>8, <2>1, <3>2
    <2>2. CASE ~(column + 1 < w)
      <3>1. column + 1 = w /\ 0 \in 0 .. w - 1 /\ row + 1 \in Int
        BY <1>1, <1>6, <2>2
      <3>2. ((row + 1) * w + 0) \div w = row + 1
        BY <1>1, <3>1, DivisionUnique
      <3>3. (row + 1) * w + 0 = k + 1
        BY <1>1, <1>3, <1>6, <3>1
      <3> QED BY <1>6, <2>2, <3>2, <3>3
    <2> QED BY <2>1, <2>2
  <1> QED BY <1>9, <1>10, <1>11, <1>12, <1>13, <1>14 DEF w, row, column

LEMMA SurroundedMeans ==
    ASSUME NEW s, Contract(s), NEW radius, NEW k \in Valid(s)
    PROVE  Surrounded(s, radius, k) <=> ~SomeOpen(s, radius, k \div Width(s), k % Width(s))
  <1> DEFINE w == Width(s)
             row == k \div w
             column == k % w
             B == {m \in Close(s, radius, k) : Beside(s, k, m)}
             F == {k - w, k + w, k - 1, k + 1}
             good(m) == Good(s, radius, k, m)
  <1>1. Shaped(s) /\ w \in Nat \ {0}
    BY ContractShaped, Layout
  <1>2. k \in Nat /\ column \in 0 .. w - 1
    BY <1>1, SlotInside DEF Valid
  <1>3. \A m : m \in Close(s, radius, k) <=> m # k /\ good(m)
    BY DEF Close, Good
  <1>4. B \in SUBSET F
    BY DEF Beside
  <1>5. Surrounded(s, radius, k) <=> w > 1 /\ F \subseteq B
    <2>1. k \in Int
      BY <1>2
    <2>2. Surrounded(s, radius, k) <=> Cardinality(B) = 4
      BY DEF Surrounded
    <2> HIDE DEF B, w
    <2> QED BY <1>1, <1>4, <2>1, <2>2, FourNeighbours
  <1>6. /\ ~Open(s, radius, row, column, row - 1, column) <=> good(k - w)
        /\ ~Open(s, radius, row, column, row + 1, column) <=> good(k + w)
        /\ ~Open(s, radius, row, column, row, column - 1) <=> good(k - 1) /\ column > 0
        /\ ~Open(s, radius, row, column, row, column + 1) <=> good(k + 1) /\ column + 1 < w
        /\ column > 0 <=> (k - 1) \div w = row
        /\ column + 1 < w <=> (k + 1) \div w = row
    BY Sides
  <1>7. \A m : Beside(s, k, m) <=> m \in {k - w, k + w} \/ (m \in {k - 1, k + 1} /\ m \div w = row)
    BY DEF Beside
  <1>8. SomeOpen(s, radius, row, column) <=>
          \/ Open(s, radius, row, column, row - 1, column)
          \/ Open(s, radius, row, column, row + 1, column)
          \/ Open(s, radius, row, column, row, column - 1)
          \/ Open(s, radius, row, column, row, column + 1)
    BY DEF SomeOpen
  <1>9. \A m : m \in B <=> m # k /\ good(m) /\ Beside(s, k, m)
    BY <1>3
  <1> HIDE DEF w, row, column, B, good
  <1>10. k - w # k /\ k + w # k /\ k - 1 # k /\ k + 1 # k
    BY <1>1, <1>2
  <1>11. k - w \in B <=> good(k - w)
    BY <1>7, <1>9, <1>10
  <1>12. k + w \in B <=> good(k + w)
    BY <1>7, <1>9, <1>10
  <1>13. ASSUME w > 1
         PROVE  /\ k - 1 \in B <=> good(k - 1) /\ (k - 1) \div w = row
                /\ k + 1 \in B <=> good(k + 1) /\ (k + 1) \div w = row
    <2>1. k - 1 \notin {k - w, k + w} /\ k + 1 \notin {k - w, k + w}
      BY <1>1, <1>2, <1>13
    <2>2. Beside(s, k, k - 1) <=> (k - 1) \div w = row
      BY <1>7, <2>1
    <2>3. Beside(s, k, k + 1) <=> (k + 1) \div w = row
      BY <1>7, <2>1
    <2> QED BY <1>9, <1>10, <2>2, <2>3
  <1>14. column > 0 /\ column + 1 < w => w > 1
    BY <1>1, <1>2
  <1>15. Surrounded(s, radius, k) <=> ~SomeOpen(s, radius, row, column)
    <2>1. CASE w > 1
      BY <1>5, <1>6, <1>8, <1>11, <1>12, <1>13, <2>1
    <2>2. CASE ~(w > 1)
      BY <1>5, <1>6, <1>8, <1>14, <2>2
    <2> QED BY <2>1, <2>2
  <1> QED BY <1>15 DEF w, row, column

LEMMA GridFlagged ==
    ASSUME NEW s, Contract(s), NEW radius, NEW k \in Ordinals(s)
    PROVE  Slot(s, k) \in detect_grid_boundaries(s, radius) <=> k \in Valid(s) /\ ~Surrounded(s, radius, k)
  <1> DEFINE w == Width(s)
             row == k \div w
             column == k % w
             i == Slot(s, k)
  <1>1. Shaped(s) /\ w \in Nat \ {0}
    BY ContractShaped, Layout
  <1>2. row \in 0 .. Height(s) - 1 /\ column \in 0 .. w - 1 /\ i = Cell(s, row, column)
    BY <1>1, SlotInside DEF Slot, Cell
  <1>3. i \in detect_grid_boundaries(s, radius) <=> input_valid(s, i) /\ SomeOpen(s, radius, row, column)
    <2>1. i \in detect_grid_boundaries(s, radius) <=>
             \E r \in 0 .. Height(s) - 1 : \E c \in 0 .. Width(s) - 1 :
               i = Cell(s, r, c) /\ input_valid(s, i) /\ SomeOpen(s, radius, r, c)
      BY <1>1, GridMeans
    <2>2. ASSUME NEW r \in 0 .. Height(s) - 1, NEW c \in 0 .. Width(s) - 1, i = Cell(s, r, c)
          PROVE  r = row /\ c = column
      <3> DEFINE m == r * Width(s) + c
      <3>1. m \in Ordinals(s) /\ m \div Width(s) = r /\ m % Width(s) = c /\ Slot(s, m) = i
        BY <1>1, <2>2, Cells
      <3> HIDE DEF m
      <3>2. m = k
        BY <1>1, <3>1, SlotInjective
      <3> QED BY <3>1, <3>2
    <2> HIDE DEF i, row, column
    <2> QED BY <1>2, <2>1, <2>2
  <1>4. input_valid(s, i) <=> k \in Valid(s)
    BY DEF Valid
  <1> QED BY <1>3, <1>4, SurroundedMeans

\* Off the grid: Neighbors counts the point itself.
LEMMA SparseFlagged ==
    ASSUME NEW s, Contract(s), s.grid = {}, NEW radius \in Nat, NEW b \in detect_unorganized_boundaries(s, radius),
           NEW k \in Valid(s), Cardinality(Close(s, radius, k)) < 3
    PROVE  Slot(s, k) \in b
  <1> DEFINE n == Size(s.points)
  <1>1. Shaped(s) /\ n \in Nat \ {0} /\ Width(s) = n /\ Height(s) = 1 /\ Stride(s) = n
    BY ContractShaped, Layout DEF Width, Height, Stride
  <1>2. Ordinals(s) = 0 .. n - 1 /\ \A m \in Ordinals(s) : Slot(s, m) = m
    <2> HIDE DEF n
    <2>1. n * 1 = n
      BY <1>1
    <2>2. Ordinals(s) = 0 .. n - 1
      BY <1>1, <2>1 DEF Ordinals
    <2>3. ASSUME NEW m \in Ordinals(s) PROVE Slot(s, m) = m
      <3>1. m \in Int /\ n \in Nat \ {0}
        BY <1>1, <2>2
      <3>2. Slot(s, m) = (m \div n) * n + (m % n)
        BY <1>1 DEF Slot
      <3> QED BY <3>1, <3>2, Division
    <2> QED BY <2>2, <2>3
  <1>3. Sampled(s) = Valid(s)
    <2>1. Logical(s) = Ordinals(s)
      BY <1>2 DEF Logical
    <2>2. \A i \in Logical(s) : At(s.valid, i) \in {0, 1}
      BY DEF Contract, validate_surface_data
    <2>3. \A i \in Logical(s) : input_valid(s, i) <=> (s.valid = Empty \/ At(s.valid, i) # 0)
      BY <2>2 DEF input_valid
    <2> QED BY <1>2, <2>1, <2>3 DEF Sampled, Valid
  <1>4. \A m \in Valid(s) : /\ m \in Ordinals(s) /\ Slot(s, m) = m /\ X(s, m) = s.points[m] /\ X(s, m) \in Int
                            /\ Finite(At(s.points, m))
    BY <1>2, ValidMeans
  <1>5. Neighbors(s, k, radius) = Close(s, radius, k) \union {k}
    <2>1. \A m \in Valid(s) : Near(s, k, m, radius) <=> Magnitude(X(s, k) - X(s, m)) <= radius
      BY <1>4 DEF Near
    <2>2. Magnitude(X(s, k) - X(s, k)) <= radius
      BY <1>4 DEF Magnitude
    <2>3. Neighbors(s, k, radius) = {m \in Valid(s) : Magnitude(X(s, k) - X(s, m)) <= radius}
      BY <1>3, <2>1 DEF Neighbors
    <2> QED BY <2>2, <2>3 DEF Close
  <1>6. IsFiniteSet(Close(s, radius, k))
    <2>1. Close(s, radius, k) \in SUBSET Sampled(s)
      BY <1>3 DEF Close
    <2> QED BY <1>1, <2>1, SampledFinite, FS_Subset
  <1>7. Cardinality(Close(s, radius, k)) \in Nat
    BY <1>6, FS_CardinalityType
  <1>8. Cardinality(Close(s, radius, k) \union {k}) = Cardinality(Close(s, radius, k)) + 1
    <2>1. k \notin Close(s, radius, k)
      BY DEF Close
    <2> QED BY <1>6, <2>1, FS_AddElement
  <1>9. Cardinality(Neighbors(s, k, radius)) <= 3
    BY <1>5, <1>7, <1>8
  <1>10. k \in {i \in Sampled(s) : Cardinality(Neighbors(s, i, radius)) <= 3}
    BY <1>3, <1>9
  <1>11. k \in b
    BY <1>10 DEF detect_unorganized_boundaries
  <1> QED BY <1>4, <1>11

\* Where a boundary is looked for.
LEMMA BoundaryInside ==
    ASSUME NEW s, Contract(s), NEW radius, NEW b, IsBoundary(b, s, radius)
    PROVE  b \subseteq Logical(s) /\ \A i \in b : input_valid(s, i)
  <1>1. Shaped(s)
    BY ContractShaped
  <1>2. CASE s.grid # {}
    <2> SUFFICES ASSUME NEW i \in b PROVE i \in Logical(s) /\ input_valid(s, i)
      OBVIOUS
    <2>1. i \in detect_grid_boundaries(s, radius)
      BY <1>2 DEF IsBoundary
    <2>2. \E row \in 0 .. Height(s) - 1 : \E column \in 0 .. Width(s) - 1 :
               i = Cell(s, row, column) /\ input_valid(s, i) /\ SomeOpen(s, radius, row, column)
      BY <1>1, <2>1, GridMeans
    <2>3. PICK row \in 0 .. Height(s) - 1 : \E column \in 0 .. Width(s) - 1 : i = Cell(s, row, column) /\ input_valid(s, i)
      BY <2>2
    <2>4. PICK column \in 0 .. Width(s) - 1 : i = Cell(s, row, column) /\ input_valid(s, i)
      BY <2>3
    <2> DEFINE k == row * Width(s) + column
    <2>5. k \in Ordinals(s) /\ Slot(s, k) = i
      BY <1>1, <2>4, Cells
    <2> QED BY <2>4, <2>5 DEF Logical
  <1>3. CASE s.grid = {}
    <2>1. b \subseteq Sampled(s)
      BY <1>3 DEF IsBoundary, detect_unorganized_boundaries
    <2>2. \A i \in Logical(s) : At(s.valid, i) \in {0, 1}
      BY DEF Contract, validate_surface_data
    <2> QED BY <2>1, <2>2 DEF Sampled, input_valid
  <1> QED BY <1>2, <1>3

LEMMA BoundaryIsTold ==
    ASSUME NEW s, Prepared(s, s), NEW r, r.radius \in Nat, IsBoundary(r.boundary, s, r.radius),
           r.proven => Proven(s, r.hint)
    PROVE  BoundaryTold(s, r)
  <1> DEFINE samples == Samples(s)
             valid == {k \in DOMAIN samples : samples[k].v}
             x(k) == samples[k].x
             w == Width(s)
             beside(k, m) == \/ m \in {k - w, k + w}
                             \/ m \in {k - 1, k + 1} /\ m \div w = k \div w
             close(k) == {m \in valid \ {k} : Magnitude(x(k) - x(m)) <= r.radius}
             surrounded(k) == Cardinality({m \in close(k) : beside(k, m)}) = 4
             flagged == {k \in DOMAIN samples : Slot(s, k) \in r.boundary}
  <1>1. Contract(s) /\ Shaped(s) /\ s.normals # Empty
    BY ContractShaped DEF Prepared
  <1>2. /\ DOMAIN samples = Ordinals(s)
        /\ \A k \in Ordinals(s) : /\ samples[k].x = X(s, k)
                                  /\ samples[k].n = At(s.normals, Slot(s, k))
                                  /\ samples[k].v <=> input_valid(s, Slot(s, k))
    BY SamplesAre DEF X
  <1> HIDE DEF samples
  <1>3. valid = Valid(s)
    BY <1>2 DEF Valid
  <1>4. \A k \in Valid(s) : k \in Ordinals(s)
    BY DEF Valid
  <1>5. \A k \in Valid(s) : close(k) = Close(s, r.radius, k)
    <2> SUFFICES ASSUME NEW k \in Valid(s) PROVE close(k) = Close(s, r.radius, k)
      OBVIOUS
    <2>1. \A m \in Valid(s) : x(k) = X(s, k) /\ x(m) = X(s, m)
      BY <1>2, <1>4
    <2> QED BY <1>3, <2>1 DEF Close
  <1>6. \A k \in Valid(s) : surrounded(k) <=> Surrounded(s, r.radius, k)
    <2>1. \A k, m : beside(k, m) <=> Beside(s, k, m)
      BY DEF Beside
    <2> QED BY <1>5, <2>1 DEF Surrounded
  <1>7. r.boundary \subseteq Logical(s) /\ \A i \in r.boundary : input_valid(s, i)
    BY <1>1, BoundaryInside
  <1>8. flagged \subseteq valid
    BY <1>2, <1>7
  <1>9. ASSUME s.grid # {} PROVE flagged = {k \in valid : ~surrounded(k)}
    <2>1. r.boundary = detect_grid_boundaries(s, r.radius)
      BY <1>9 DEF IsBoundary
    <2>2. \A k \in Ordinals(s) : Slot(s, k) \in r.boundary <=> k \in Valid(s) /\ ~Surrounded(s, r.radius, k)
      BY <1>1, <2>1, GridFlagged
    <2>3. \A k : k \in flagged <=> k \in Ordinals(s) /\ Slot(s, k) \in r.boundary
      BY <1>2
    <2>4. \A k : k \in flagged <=> k \in Valid(s) /\ ~Surrounded(s, r.radius, k)
      BY <1>4, <2>2, <2>3
    <2>5. \A k : k \in {j \in valid : ~surrounded(j)} <=> k \in Valid(s) /\ ~Surrounded(s, r.radius, k)
      <3> HIDE DEF surrounded
      <3> QED BY <1>3, <1>6
    <2> HIDE DEF flagged, surrounded, valid
    <2> QED BY <2>4, <2>5
  <1>10. ASSUME s.grid = {} PROVE {k \in valid : Cardinality(close(k)) < 3} \subseteq flagged
    <2>1. r.boundary \in detect_unorganized_boundaries(s, r.radius)
      BY <1>10 DEF IsBoundary
    <2>2. \A k \in Valid(s) : Cardinality(Close(s, r.radius, k)) < 3 => Slot(s, k) \in r.boundary
      BY <1>1, <1>10, <2>1, SparseFlagged
    <2>3. ASSUME NEW k \in valid, Cardinality(close(k)) < 3 PROVE k \in flagged
      <3>1. k \in Valid(s) /\ k \in Ordinals(s)
        BY <1>3, <1>4, <2>3
      <3>2. Cardinality(Close(s, r.radius, k)) < 3
        BY <1>5, <2>3, <3>1
      <3> QED BY <1>2, <2>2, <3>1, <3>2
    <2> QED BY <2>3
  <1>11. ASSUME NEW k \in valid
         PROVE  /\ Slot(s, k) \in Logical(s) /\ input_valid(s, Slot(s, k))
                /\ samples[k].n = s.normals[Slot(s, k)] /\ x(k) = s.points[Slot(s, k)]
    <2>1. k \in Valid(s) /\ k \in Ordinals(s)
      BY <1>3, <1>4
    <2>2. Slot(s, k) \in DOMAIN s.points /\ Slot(s, k) \in DOMAIN s.normals
      BY <1>1, <2>1, SlotInside, Present
    <2>3. Slot(s, k) \in Logical(s) /\ input_valid(s, Slot(s, k))
      BY <2>1 DEF Logical, Valid
    <2> QED BY <1>2, <2>1, <2>2, <2>3 DEF At, X
  <1>12. \A k \in valid : samples[k].n \in {-1, 1}
    BY <1>11 DEF Prepared
  <1>13. ASSUME r.proven
         PROVE  /\ valid # {}
                /\ \A k \in valid :
                     \/ r.hint.mode = "align_direction" /\ samples[k].n * r.hint.value > 0
                     \/ r.hint.mode = "toward_viewpoint" /\ samples[k].n * (r.hint.value - x(k)) > 0
    <2>1. Proven(s, r.hint)
      BY <1>13
    <2>2. valid # {}
      <3>1. PICK i \in Logical(s) : input_valid(s, i)
        BY <2>1 DEF Proven
      <3>2. PICK k \in Ordinals(s) : i = Slot(s, k)
        BY DEF Logical
      <3> QED BY <1>3, <3>1, <3>2 DEF Valid
    <2>3. \A k \in valid : Along(s, r.hint, Slot(s, k))
      BY <1>11, <2>1 DEF Proven
    <2> QED BY <1>11, <2>2, <2>3 DEF Along
  <1>14. /\ flagged \subseteq valid
         /\ r.boundary \subseteq Logical(s)
         /\ s.grid # {} => flagged = {k \in valid : ~surrounded(k)}
         /\ s.grid = {} => {k \in valid : Cardinality(close(k)) < 3} \subseteq flagged
         /\ \A k \in valid : samples[k].n \in {-1, 1}
         /\ r.proven =>
              /\ valid # {}
              /\ \A k \in valid :
                   \/ r.hint.mode = "align_direction" /\ samples[k].n * r.hint.value > 0
                   \/ r.hint.mode = "toward_viewpoint" /\ samples[k].n * (r.hint.value - x(k)) > 0
    <2> HIDE DEF flagged, valid, surrounded, close, x
    <2> QED BY <1>7, <1>8, <1>9, <1>10, <1>12, <1>13
  <1> QED BY <1>14 DEF BoundaryTold, samples

LEMMA PreparingTold ==
    ASSUME StoreInv, NEW radius \in Radii, NEW hint \in Hints, Preparing(radius, hint)
    PROVE  \A t \in held' : BoundaryTold(t, report')
  <1>1. PICK src \in Sources : \E r \in prepare_normals_and_boundaries(src.surface, radius, 3, radius, hint, 1) :
          /\ held' = {r.surface}
          /\ report' = [kind |-> "normals", radius |-> radius, hint |-> hint, boundary |-> r.boundary,
                        reasons |-> r.reasons, proven |-> r.orientation_proven]
    BY DEF Preparing
  <1>2. PICK r \in prepare_normals_and_boundaries(src.surface, radius, 3, radius, hint, 1) :
          /\ held' = {r.surface}
          /\ report' = [kind |-> "normals", radius |-> radius, hint |-> hint, boundary |-> r.boundary,
                        reasons |-> r.reasons, proven |-> r.orientation_proven]
    BY <1>1
  <1>3. /\ report'.radius = radius /\ report'.hint = hint /\ report'.boundary = r.boundary
        /\ report'.proven = r.orientation_proven
    BY <1>2
  <1>4. Shaped(src.surface) /\ hint.value \in Int /\ radius \in Int
    BY SourcesSound, StoreAssumption
  <1>5. radius \in Nat
    <2>1. ~(radius <= 0)
      BY DEF prepare_normals_and_boundaries
    <2> QED BY <1>4, <2>1
  <1>6. /\ Prepared(r.surface, src.surface) /\ IsBoundary(r.boundary, r.surface, radius)
        /\ r.orientation_proven => Proven(r.surface, hint)
    BY <1>4, PrepareMeans
  <1>7. Prepared(r.surface, r.surface)
    <2>1. Logical(r.surface) = Logical(src.surface)
      BY <1>6, SameLayout DEF Prepared
    <2> QED BY <1>6, <2>1 DEF Prepared
  <1>8. BoundaryTold(r.surface, report')
    BY <1>3, <1>5, <1>6, <1>7, BoundaryIsTold
  <1> QED BY <1>2, <1>8

\* On any grid, with any padding, boundary points are exactly the valid points
\* without four close neighbours, and a proven orientation is one.
THEOREM BoundaryCorrect == Spec => []BoundaryExact
  <1>1. Init => BoundaryExact
    BY DEF Init, Silent, BoundaryExact
  <1>2. StoreInv /\ BoundaryExact /\ [Next]_vars => BoundaryExact'
    <2> SUFFICES ASSUME StoreInv, BoundaryExact, [Next]_vars PROVE BoundaryExact'
      OBVIOUS
    <2>1. BoundaryExact' <=> (report'.kind = "normals" => \A t \in held' : BoundaryTold(t, report'))
      BY DEF BoundaryExact
    <2>2. CASE report' = report /\ input' = input /\ held' = held
      BY <2>1, <2>2 DEF BoundaryExact
    <2>3. CASE report'.kind # "normals"
      BY <2>1, <2>3
    <2>4. CASE \E radius \in Radii : \E hint \in Hints : Preparing(radius, hint)
      BY <2>1, <2>4, PreparingTold
    <2>5. (\E size \in VoxelSizes : Sampling(size)) => report'.kind = "voxels"
      BY DEF Sampling
    <2>6. Masked => report'.kind = "mask"
      BY DEF Masked
    <2> QED BY <2>2, <2>3, <2>4, <2>5, <2>6, Reports
  <1> QED BY <1>1, <1>2, Inductive, PTL DEF Spec

-----------------------------------------------------------------------------
(***************************************************************************)
(* The lists of a sampling                                                 *)
(***************************************************************************)
Flattens(q, g) == g = [i \in 1 .. Len(q) |-> IF i = 1 THEN q[i] ELSE g[i - 1] \o q[i]]

LEMMA FlattenUnfolds ==
    ASSUME NEW q, Len(q) # 0
    PROVE  FlattenSeq(q) = (CHOOSE g : Flattens(q, g))[Len(q)]
  BY DEF FlattenSeq, Flattens

LEMMA FlattenExists ==
    ASSUME NEW q, Len(q) \in Nat
    PROVE  \E g : Flattens(q, g)
  <1> DEFINE n == Len(q)
             upto(m, g) == \A i \in 1 .. n : i <= m => g[i] = IF i = 1 THEN q[i] ELSE g[i - 1] \o q[i]
             Reached == {m \in Nat : \E g : g = [i \in 1 .. n |-> g[i]] /\ upto(m, g)}
  <1>1. 0 \in Reached
    <2> DEFINE g == [i \in 1 .. n |-> 0]
    <2>1. g = [i \in 1 .. n |-> g[i]]
      OBVIOUS
    <2>2. upto(0, g)
      <3>1. \A i \in 1 .. n : ~(i <= 0)
        OBVIOUS
      <3> QED BY <3>1
    <2> HIDE DEF g, upto
    <2> QED BY <2>1, <2>2
  <1>2. ASSUME NEW m \in Reached PROVE m + 1 \in Reached
    <2>1. PICK g : g = [i \in 1 .. n |-> g[i]] /\ upto(m, g)
      OBVIOUS
    <2>2. m \in Nat
      OBVIOUS
    <2> DEFINE h == [i \in 1 .. n |-> IF i <= m THEN g[i] ELSE IF i = 1 THEN q[i] ELSE g[i - 1] \o q[i]]
    <2>3. ASSUME NEW i \in 1 .. n, i <= m + 1
          PROVE  h[i] = IF i = 1 THEN q[i] ELSE h[i - 1] \o q[i]
      <3>1. h[i] = IF i = 1 THEN q[i] ELSE g[i - 1] \o q[i]
        BY <2>1
      <3>2. CASE i # 1
        <4>1. i - 1 \in 1 .. n /\ i - 1 <= m
          BY <2>2, <2>3, <3>2
        <4>2. h[i - 1] = g[i - 1]
          BY <4>1
        <4> QED BY <3>1, <3>2, <4>2
      <3> QED BY <3>1, <3>2
    <2>4. h = [i \in 1 .. n |-> h[i]]
      OBVIOUS
    <2> HIDE DEF h
    <2>5. upto(m + 1, h)
      BY <2>3
    <2> HIDE DEF upto
    <2> QED BY <2>2, <2>4, <2>5
  <1>3. Reached = Nat
    <2>1. Reached \in SUBSET Nat
      OBVIOUS
    <2> HIDE DEF Reached
    <2> QED BY <1>1, <1>2, <2>1, NaturalsReached
  <1>4. n \in Reached
    BY <1>3
  <1>5. PICK g : g = [i \in 1 .. n |-> g[i]] /\ upto(n, g)
    BY <1>4
  <1>6. \A i \in 1 .. n : g[i] = IF i = 1 THEN q[i] ELSE g[i - 1] \o q[i]
    <2>1. \A i \in 1 .. n : i <= n
      OBVIOUS
    <2> QED BY <1>5, <2>1
  <1>7. Flattens(q, g)
    BY <1>5, <1>6 DEF Flattens
  <1> QED BY <1>7

\* What lies below a value rounded down.
LEMMA Rounded ==
    ASSUME NEW total \in Int, NEW count \in Nat \ {0}
    PROVE  /\ total \div count \in Int
           /\ \A m \in Int : total >= m * count => total \div count >= m
           /\ \A m \in Int : total <= m * count => total \div count <= m
  <1> DEFINE q == total \div count
             rest == total % count
  <1>1. q \in Int /\ rest \in Int /\ 0 <= rest /\ rest < count /\ total = q * count + rest
    BY Division
  <1> HIDE DEF q, rest
  <1>2. ASSUME NEW m \in Int, total >= m * count PROVE q >= m
    <2> SUFFICES ASSUME q <= m - 1 PROVE FALSE
      BY <1>1
    <2>1. q * count <= (m - 1) * count
      BY <1>1
    <2>2. (m - 1) * count = m * count - count /\ m * count \in Int /\ q * count \in Int
      BY <1>1
    <2> QED BY <1>1, <1>2, <2>1, <2>2
  <1>3. ASSUME NEW m \in Int, total <= m * count PROVE q <= m
    <2> SUFFICES ASSUME q >= m + 1 PROVE FALSE
      BY <1>1
    <2>1. q * count >= (m + 1) * count
      BY <1>1
    <2>2. (m + 1) * count = m * count + count /\ m * count \in Int /\ q * count \in Int
      BY <1>1
    <2> QED BY <1>1, <1>3, <2>1, <2>2
  <1> QED BY <1>1, <1>2, <1>3 DEF q

\* The cell of a coordinate, as VoxelsTold states it.
CellOf(size, x) == CHOOSE c \in -KeyLimit .. KeyLimit - 1 : c * size <= x /\ x < (c + 1) * size

LEMMA CellIsKey ==
    ASSUME NEW size \in Nat \ {0}, NEW x \in Int, x \div size \in -KeyLimit .. KeyLimit - 1
    PROVE  CellOf(size, x) = x \div size
  <1> DEFINE q == x \div size
             rest == x % size
             T == -KeyLimit .. KeyLimit - 1
  <1>1. q \in Int /\ rest \in Int /\ 0 <= rest /\ rest < size /\ x = q * size + rest
    BY Division
  <1>2. q \in T
    OBVIOUS
  <1> HIDE DEF q, rest
  <1>3. (q + 1) * size = q * size + size /\ q * size \in Int
    BY <1>1
  <1>4. q * size <= x /\ x < (q + 1) * size
    BY <1>1, <1>3
  <1>5. ASSUME NEW c \in T, c * size <= x, x < (c + 1) * size PROVE c = q
    <2>1. c \in Int
      BY Constants
    <2>2. c * size \in Int /\ (c + 1) * size = c * size + size
      BY <2>1
    <2> DEFINE d == x - c * size
    <2>3. d \in Int /\ 0 <= d /\ d < size /\ x = c * size + d
      BY <1>5, <2>2
    <2> HIDE DEF d
    <2>4. d \in 0 .. size - 1
      BY <2>3
    <2>5. (c * size + d) \div size = c
      BY <2>1, <2>4, DivisionUnique
    <2> QED BY <2>3, <2>5 DEF q
  <1> DEFINE P(c) == c * size <= x /\ x < (c + 1) * size
  <1>6. P(q) /\ \A c \in T : P(c) => c = q
    BY <1>4, <1>5
  <1> HIDE DEF P, T
  <1>7. (CHOOSE c \in T : P(c)) = q
    BY <1>2, <1>6
  <1> QED BY <1>7 DEF CellOf, P, T, q

LEMMA OffsetsCount ==
    ASSUME NEW s, Shaped(s), NEW size \in Nat \ {0}
    PROVE  LET n == Len(Keys(s, size))
               off == Offsets(s, size)
           IN  /\ DOMAIN off = 0 .. n /\ off[0] = 0 /\ off[n] = Cardinality(Sampled(s))
               /\ \A j \in 0 .. n : off[j] \in Nat
               /\ \A j \in 0 .. n - 1 : off[j + 1] = off[j] + Cardinality(Voxel(s, size, j))
  <1> DEFINE n == Len(Keys(s, size))
             off == Offsets(s, size)
             V(j) == Voxel(s, size, j)
             U(j) == UNION {V(q) : q \in 0 .. j - 1}
  <1>1. Partitioned(s, size)
    BY VoxelsPartition
  <1>2. n \in Nat
    BY <1>1 DEF Partitioned
  <1>3. DOMAIN off = 0 .. n /\ \A j \in 0 .. n : off[j] = Cardinality(U(j))
    BY DEF Offsets
  <1>4. /\ \A j \in 0 .. n - 1 : V(j) \subseteq Sampled(s) /\ IsFiniteSet(V(j))
        /\ \A i \in Sampled(s) : \E j \in 0 .. n - 1 : i \in V(j)
    BY <1>1 DEF Partitioned
  <1>5. ASSUME NEW j \in 0 .. n - 1, NEW q \in 0 .. n - 1, q < j PROVE V(q) \intersect V(j) = {}
    <2> SUFFICES ASSUME NEW i \in V(q), i \in V(j) PROVE FALSE
      OBVIOUS
    <2>1. Keys(s, size)[q + 1] = Keys(s, size)[j + 1]
      BY DEF Voxel
    <2>2. Keys(s, size)[q + 1] \in Int /\ Keys(s, size)[j + 1] \in Int /\ Keys(s, size)[q + 1] < Keys(s, size)[j + 1]
      BY <1>1, <1>5 DEF Partitioned
    <2> QED BY <2>1, <2>2
  <1>6. IsFiniteSet(Sampled(s))
    BY SampledFinite
  <1> HIDE DEF n, off, V
  <1>7. \A j \in 0 .. n : IsFiniteSet(U(j)) /\ Cardinality(U(j)) \in Nat
    <2> SUFFICES ASSUME NEW j \in 0 .. n PROVE IsFiniteSet(U(j)) /\ Cardinality(U(j)) \in Nat
      OBVIOUS
    <2>1. \A q \in 0 .. j - 1 : q \in 0 .. n - 1
      BY <1>2
    <2>2. U(j) \in SUBSET Sampled(s)
      BY <1>4, <2>1
    <2> HIDE DEF U
    <2> QED BY <1>6, <2>2, FS_Subset, FS_CardinalityType
  <1>8. ASSUME NEW j \in 0 .. n - 1 PROVE Cardinality(U(j + 1)) = Cardinality(U(j)) + Cardinality(V(j))
    <2>1. 0 .. (j + 1) - 1 = (0 .. j - 1) \union {j}
      BY <1>2
    <2>2. U(j + 1) = U(j) \union V(j)
      BY <2>1
    <2>3. \A q \in 0 .. j - 1 : q \in 0 .. n - 1 /\ q < j
      BY <1>2
    <2>4. U(j) \intersect V(j) = {}
      BY <1>5, <2>3
    <2>5. IsFiniteSet(U(j)) /\ Cardinality(U(j)) \in Nat /\ IsFiniteSet(V(j)) /\ Cardinality(V(j)) \in Nat
      <3>1. j \in 0 .. n
        BY <1>2
      <3>2. IsFiniteSet(U(j)) /\ Cardinality(U(j)) \in Nat
        BY <1>7, <3>1
      <3> HIDE DEF U
      <3> QED BY <1>4, <3>2, FS_CardinalityType
    <2> HIDE DEF U
    <2>6. Cardinality(U(j) \union V(j)) = Cardinality(U(j)) + Cardinality(V(j)) - Cardinality(U(j) \intersect V(j))
      BY <2>5, FS_Union
    <2>7. Cardinality(U(j) \intersect V(j)) = 0
      BY <2>4, FS_EmptySet
    <2>8. Cardinality(U(j) \union V(j)) = Cardinality(U(j)) + Cardinality(V(j))
      <3> DEFINE a == Cardinality(U(j))
                 b == Cardinality(V(j))
                 c == Cardinality(U(j) \intersect V(j))
      <3>1. a \in Nat /\ b \in Nat /\ c = 0 /\ Cardinality(U(j) \union V(j)) = a + b - c
        BY <2>5, <2>6, <2>7
      <3> HIDE DEF a, b, c
      <3>2. Cardinality(U(j) \union V(j)) = a + b
        BY <3>1
      <3> QED BY <3>2 DEF a, b
    <2> QED BY <2>2, <2>8
  <1>9. U(0) = {} /\ U(n) = Sampled(s)
    <2>1. 0 .. 0 - 1 = {}
      OBVIOUS
    <2>2. U(0) = {}
      BY <2>1
    <2> QED BY <1>4, <2>2
  <1>10. off[0] = 0 /\ off[n] = Cardinality(Sampled(s))
    <2>1. 0 \in 0 .. n /\ n \in 0 .. n
      BY <1>2
    <2>2. off[0] = Cardinality(U(0)) /\ off[n] = Cardinality(U(n))
      BY <1>3, <2>1
    <2> HIDE DEF U
    <2> QED BY <1>9, <2>2, FS_EmptySet
  <1>11. ASSUME NEW j \in 0 .. n - 1 PROVE off[j + 1] = off[j] + Cardinality(V(j))
    <2>1. j \in 0 .. n /\ j + 1 \in 0 .. n
      BY <1>2
    <2> HIDE DEF U
    <2> QED BY <1>3, <1>8, <2>1
  <1>12. \A j \in 0 .. n : off[j] \in Nat
    <2> HIDE DEF U
    <2> QED BY <1>3, <1>7
  <1> QED BY <1>3, <1>10, <1>11, <1>12 DEF n, off, V

\* The list is made of the voxels one after the other.
LEMMA SourceSegments ==
    ASSUME NEW s, Shaped(s), NEW size \in Nat \ {0}, Sampled(s) # {}
    PROVE  LET n == Len(Keys(s, size))
               off == Offsets(s, size)
           IN  /\ Len(SourceList(s, size)) = off[n]
               /\ \A j \in 0 .. n - 1 : \A q \in 1 .. Cardinality(Voxel(s, size, j)) :
                    SourceList(s, size)[off[j] + q] = Ascending(Voxel(s, size, j))[q]
  <1> DEFINE n == Len(Keys(s, size))
             off == Offsets(s, size)
             V(j) == Voxel(s, size, j)
             A(j) == Ascending(Voxel(s, size, j))
             seqs == [j \in 1 .. n |-> Ascending(Voxel(s, size, j - 1))]
             S == Sampled(s)
  <1>1. Partitioned(s, size)
    BY VoxelsPartition
  <1>2. n \in Nat \ {0}
    <2>1. n \in Nat /\ \A i \in S : \E j \in 0 .. n - 1 : i \in V(j)
      BY <1>1 DEF Partitioned
    <2>2. PICK i \in S : TRUE
      OBVIOUS
    <2>3. PICK j \in 0 .. n - 1 : i \in V(j)
      BY <2>1
    <2> HIDE DEF n
    <2> QED BY <2>1, <2>3
  <1>3. \A j \in 0 .. n - 1 : /\ A(j) \in Seq(S) /\ Len(A(j)) = Cardinality(V(j)) /\ Cardinality(V(j)) \in Nat
    <2> SUFFICES ASSUME NEW j \in 0 .. n - 1
                 PROVE  A(j) \in Seq(S) /\ Len(A(j)) = Cardinality(V(j)) /\ Cardinality(V(j)) \in Nat
      OBVIOUS
    <2>1. IsFiniteSet(V(j)) /\ V(j) \subseteq S
      BY <1>1 DEF Partitioned
    <2>2. V(j) \subseteq Int
      BY <2>1, SampledFinite
    <2>3. Lists(A(j), V(j))
      BY <2>1, <2>2, AscendingLists
    <2>4. A(j) \in Seq(V(j)) /\ Len(A(j)) = Cardinality(V(j))
      BY <2>3 DEF Lists
    <2>5. A(j) \in Seq(S)
      <3> HIDE DEF A, V, S
      <3> QED BY <2>1, <2>4
    <2> QED BY <2>1, <2>4, <2>5, FS_CardinalityType
  <1>4. /\ off[0] = 0 /\ \A j \in 0 .. n : off[j] \in Nat
        /\ \A j \in 0 .. n - 1 : off[j + 1] = off[j] + Cardinality(V(j))
    BY OffsetsCount
  <1>5. Len(seqs) = n /\ \A j \in 1 .. n : seqs[j] = A(j - 1)
    <2>1. \A j \in 1 .. n : seqs[j] \in Seq(S)
      <3> HIDE DEF n
      <3>1. \A j \in 1 .. n : j - 1 \in 0 .. n - 1
        BY <1>2
      <3> HIDE DEF S
      <3> QED BY <1>3, <3>1
    <2>2. DOMAIN seqs = 1 .. n /\ seqs \in [1 .. n -> Seq(S)]
      BY <2>1
    <2> HIDE DEF seqs, n
    <2>3. seqs \in Seq(Seq(S))
      BY <1>2, <2>2, SeqDef
    <2>4. DOMAIN seqs = 1 .. Len(seqs) /\ Len(seqs) \in Nat
      BY <2>3, LenProperties
    <2>5. Len(seqs) = n
      BY <1>2, <2>2, <2>4
    <2> QED BY <2>5 DEF seqs
  <1>6. SourceList(s, size) = FlattenSeq(seqs)
    BY DEF SourceList
  <1> HIDE DEF n, off, V, A, seqs, S
  <1>7. PICK g : Flattens(seqs, g) /\ FlattenSeq(seqs) = g[n]
    BY <1>2, <1>5, FlattenUnfolds, FlattenExists
  <1>8. \A i \in 1 .. n : g[i] = IF i = 1 THEN A(0) ELSE g[i - 1] \o A(i - 1)
    <2>1. \A i \in 1 .. n : g[i] = IF i = 1 THEN seqs[i] ELSE g[i - 1] \o seqs[i]
      BY <1>5, <1>7 DEF Flattens
    <2>2. 1 \in 1 .. n /\ seqs[1] = A(0)
      BY <1>2, <1>5
    <2> QED BY <1>5, <2>1, <2>2
  <1> DEFINE Right(i) == /\ g[i] \in Seq(S) /\ Len(g[i]) = off[i]
                         /\ \A j \in 0 .. i - 1 : \A q \in 1 .. Cardinality(V(j)) : /\ off[j] + q \in 1 .. off[i]
                                                                                   /\ g[i][off[j] + q] = A(j)[q]
             Reached == {m \in Nat : m + 1 \in 1 .. n => Right(m + 1)}
  <1>9. 0 \in Reached
    <2>1. 0 \in 0 .. n - 1 /\ 1 \in 1 .. n /\ 1 = 0 + 1
      BY <1>2
    <2>2. g[1] = A(0) /\ off[0] = 0 /\ off[1] = off[0] + Cardinality(V(0)) /\ Cardinality(V(0)) \in Nat
      BY <1>3, <1>4, <1>8, <2>1
    <2>3. g[1] \in Seq(S) /\ Len(g[1]) = off[1] /\ off[1] = Cardinality(V(0))
      BY <1>3, <2>1, <2>2
    <2>4. ASSUME NEW j \in 0 .. 1 - 1, NEW q \in 1 .. Cardinality(V(j))
          PROVE  off[j] + q \in 1 .. off[1] /\ g[1][off[j] + q] = A(j)[q]
      <3>1. j = 0
        OBVIOUS
      <3>2. off[j] + q = q /\ q \in 1 .. off[1]
        BY <2>2, <2>3, <2>4, <3>1
      <3> QED BY <2>2, <3>1, <3>2
    <2>5. Right(1)
      BY <2>3, <2>4
    <2> HIDE DEF Right
    <2> QED BY <2>1, <2>5
  <1>10. ASSUME NEW m \in Reached PROVE m + 1 \in Reached
    <2>1. m \in Nat
      OBVIOUS
    <2> SUFFICES ASSUME (m + 1) + 1 \in 1 .. n PROVE Right((m + 1) + 1)
      BY <2>1
    <2> DEFINE i == m + 1
               k == (m + 1) + 1
    <2>2. i \in 1 .. n /\ i \in 0 .. n - 1 /\ k \in 1 .. n /\ k = i + 1 /\ k - 1 = i /\ k # 1 /\ i \in 0 .. n /\ k \in 0 .. n
      BY <1>2, <2>1
    <2>3. Right(i)
      <3> HIDE DEF Right
      <3> QED BY <2>2
    <2> HIDE DEF i, k
    <2>4. g[k] = g[i] \o A(i)
      BY <1>8, <2>2
    <2>5. A(i) \in Seq(S) /\ Len(A(i)) = Cardinality(V(i)) /\ Cardinality(V(i)) \in Nat
      BY <1>3, <2>2
    <2>6. off[i] \in Nat /\ off[k] = off[i] + Cardinality(V(i))
      BY <1>4, <2>2
    <2>7. g[i] \in Seq(S) /\ Len(g[i]) = off[i]
      BY <2>3
    <2>8. /\ g[k] \in Seq(S) /\ Len(g[k]) = off[k]
          /\ \A p \in 1 .. off[i] : g[k][p] = g[i][p]
          /\ \A q \in 1 .. Cardinality(V(i)) : g[k][off[i] + q] = A(i)[q]
      <3> DEFINE a == g[i]
                 b == A(i)
      <3>1. a \in Seq(S) /\ b \in Seq(S) /\ Len(a) = off[i] /\ Len(b) = Cardinality(V(i)) /\ g[k] = a \o b
        BY <2>4, <2>5, <2>7
      <3> HIDE DEF a, b
      <3>2. a \o b \in Seq(S) /\ Len(a \o b) = Len(a) + Len(b)
        BY <3>1, ConcatProperties
      <3>3. \A p \in 1 .. Len(a) + Len(b) : (a \o b)[p] = IF p <= Len(a) THEN a[p] ELSE b[p - Len(a)]
        BY <3>1, ConcatProperties
      <3>4. ASSUME NEW p \in 1 .. off[i] PROVE (a \o b)[p] = a[p]
        <4>1. p \in 1 .. Len(a) + Len(b) /\ p <= Len(a)
          BY <2>5, <2>6, <3>1
        <4> QED BY <3>3, <4>1
      <3>5. ASSUME NEW q \in 1 .. Cardinality(V(i)) PROVE (a \o b)[off[i] + q] = b[q]
        <4> DEFINE p == off[i] + q
        <4>1. p \in 1 .. Len(a) + Len(b) /\ ~(p <= Len(a)) /\ p - Len(a) = q
          BY <2>5, <2>6, <3>1
        <4> HIDE DEF p
        <4>2. (a \o b)[p] = b[q]
          BY <3>3, <4>1
        <4> QED BY <4>2 DEF p
      <3> QED BY <2>6, <3>1, <3>2, <3>4, <3>5 DEF a, b
    <2>9. ASSUME NEW j \in 0 .. k - 1, NEW q \in 1 .. Cardinality(V(j))
          PROVE  off[j] + q \in 1 .. off[k] /\ g[k][off[j] + q] = A(j)[q]
      <3>1. CASE j = i
        <4>1. off[i] + q \in 1 .. off[k]
          BY <2>5, <2>6, <3>1
        <4> QED BY <2>8, <3>1, <4>1
      <3>2. CASE j # i
        <4>1. j \in 0 .. i - 1
          BY <2>2, <3>2
        <4> DEFINE p == off[j] + q
        <4>2. p \in 1 .. off[i] /\ g[i][p] = A(j)[q]
          BY <2>3, <4>1
        <4> HIDE DEF p
        <4>3. p \in 1 .. off[k] /\ g[k][p] = g[i][p]
          BY <2>5, <2>6, <2>8, <4>2
        <4> QED BY <4>2, <4>3 DEF p
      <3> QED BY <3>1, <3>2
    <2>10. Right(k)
      BY <2>8, <2>9
    <2> QED BY <2>10 DEF k
  <1>11. Reached = Nat
    <2>1. Reached \in SUBSET Nat
      OBVIOUS
    <2> HIDE DEF Reached
    <2> QED BY <1>9, <1>10, <2>1, NaturalsReached
  <1>12. Right(n)
    <2> HIDE DEF Right
    <2>1. n - 1 \in Nat /\ (n - 1) + 1 = n /\ n \in 1 .. n
      BY <1>2
    <2>2. n - 1 \in Reached
      BY <1>11, <2>1
    <2> QED BY <2>1, <2>2
  <1>13. SourceList(s, size) = g[n]
    BY <1>6, <1>7
  <1> QED BY <1>12, <1>13 DEF n, off, V, A

\* The mean of a voxel lies between its points, and so in its cell.
LEMMA CentreInside ==
    ASSUME NEW s, Shaped(s), NEW size \in Nat \ {0}, NEW j \in 0 .. Len(Keys(s, size)) - 1
    PROVE  LET X0 == Voxel(s, size, j)
               m == Centre(s, size, j)
           IN  /\ m \in Int /\ m \div size = Keys(s, size)[j + 1]
               /\ \E a \in X0 : s.points[a] <= m
               /\ \E b \in X0 : m <= s.points[b]
  <1> DEFINE B == Voxel(s, size, j)
             m == Centre(s, size, j)
             K == Keys(s, size)[j + 1]
             total == SumOver(s.points, B)
             count == Cardinality(B)
  <1>1. B # {} /\ IsFiniteSet(B) /\ B \subseteq Sampled(s) /\ K \in Int
    BY VoxelsPartition DEF Partitioned
  <1>2. \A i \in B : s.points[i] \in Int
    BY <1>1, SampledFinite
  <1>3. \A i \in B : s.points[i] \div size = K
    BY DEF Voxel, Key, coordinate_key
  <1>4. m = total \div count
    BY DEF Centre
  <1> HIDE DEF B, K, m
  <1>5. /\ total \in Int
        /\ \A v \in Int : (\A i \in B : s.points[i] >= v) => total >= v * count
        /\ \A v \in Int : (\A i \in B : s.points[i] <= v) => total <= v * count
    BY <1>1, <1>2, SumBounds
  <1>6. count \in Nat \ {0}
    BY <1>1, FS_CardinalityType, FS_EmptySet
  <1> HIDE DEF total, count
  <1>7. /\ m \in Int
        /\ \A v \in Int : total >= v * count => m >= v
        /\ \A v \in Int : total <= v * count => m <= v
    BY <1>4, <1>5, <1>6, Rounded
  <1>8. \A v \in Int : (\A i \in B : s.points[i] >= v) => m >= v
    BY <1>5, <1>7
  <1>9. \A v \in Int : (\A i \in B : s.points[i] <= v) => m <= v
    BY <1>5, <1>7
  <1>10. \E a \in B : s.points[a] <= m
    <2> SUFFICES ASSUME \A i \in B : ~(s.points[i] <= m) PROVE FALSE
      OBVIOUS
    <2>1. m + 1 \in Int /\ \A i \in B : s.points[i] >= m + 1
      BY <1>2, <1>7
    <2>2. m >= m + 1
      BY <1>8, <2>1
    <2> QED BY <1>7, <2>2
  <1>11. \E b \in B : m <= s.points[b]
    <2> SUFFICES ASSUME \A i \in B : ~(m <= s.points[i]) PROVE FALSE
      OBVIOUS
    <2>1. m - 1 \in Int /\ \A i \in B : s.points[i] <= m - 1
      BY <1>2, <1>7
    <2>2. m <= m - 1
      BY <1>9, <2>1
    <2> QED BY <1>7, <2>2
  <1>12. m \div size = K
    <2> DEFINE lo == K * size
    <2>1. lo \in Int
      BY <1>1
    <2>2. \A i \in B : s.points[i] >= lo /\ s.points[i] <= lo + (size - 1)
      <3> SUFFICES ASSUME NEW i \in B PROVE s.points[i] >= lo /\ s.points[i] <= lo + (size - 1)
        OBVIOUS
      <3> DEFINE x == s.points[i]
                 rest == s.points[i] % size
      <3>1. x \in Int /\ x \div size = K
        BY <1>2, <1>3
      <3>2. rest \in 0 .. size - 1 /\ x = (x \div size) * size + rest
        BY <3>1, Division
      <3> HIDE DEF x, rest
      <3>3. x = lo + rest /\ rest \in Int /\ 0 <= rest /\ rest <= size - 1
        BY <3>1, <3>2
      <3>4. x >= lo /\ x <= lo + (size - 1)
        <4> HIDE DEF lo
        <4> QED BY <2>1, <3>3
      <3> QED BY <3>4 DEF x
    <2> HIDE DEF lo
    <2>3. m >= lo
      BY <1>8, <2>1, <2>2
    <2>4. m <= lo + (size - 1)
      <3>1. lo + (size - 1) \in Int
        BY <2>1
      <3> QED BY <1>9, <2>2, <3>1
    <2> DEFINE d == m - lo
    <2>5. d \in 0 .. size - 1 /\ m = lo + d
      BY <1>7, <2>1, <2>3, <2>4
    <2> HIDE DEF d
    <2>6. (K * size + d) \div size = K
      BY <1>1, <2>5, DivisionUnique
    <2> QED BY <2>5, <2>6 DEF lo
  <1> QED BY <1>7, <1>10, <1>11, <1>12 DEF B, K, m

LEMMA VoxelsAreTold ==
    ASSUME NEW s, Shaped(s), NEW size \in Nat \ {0}, Sampled(s) # {},
           \A i \in Sampled(s) : Key(s, size, i) \in -KeyLimit .. KeyLimit - 1,
           NEW t, t.points = [j \in 0 .. Len(Keys(s, size)) - 1 |-> Centre(s, size, j)],
           Size(t.points) = Len(Keys(s, size)),
           NEW r, r.size = size, r.indices = SourceList(s, size), r.offsets = Offsets(s, size)
    PROVE  VoxelsTold(s, t, r)
  <1> DEFINE n == Size(t.points)
             members(j) == {r.indices[q] : q \in r.offsets[j] + 1 .. r.offsets[j + 1]}
             cell(x) == CHOOSE c \in -KeyLimit .. KeyLimit - 1 : c * r.size <= x /\ x < (c + 1) * r.size
             off == r.offsets
             V(j) == Voxel(s, size, j)
             A(j) == Ascending(Voxel(s, size, j))
             K(j) == Keys(s, size)[j + 1]
  <1>1. n = Len(Keys(s, size))
    OBVIOUS
  <1>2. Partitioned(s, size)
    BY VoxelsPartition
  <1>3. /\ n \in Nat
        /\ \A j \in 0 .. n - 1 : V(j) # {} /\ V(j) \subseteq Sampled(s) /\ IsFiniteSet(V(j)) /\ K(j) \in Int
        /\ \A i \in Sampled(s) : \E j \in 0 .. n - 1 : i \in V(j)
        /\ \A j \in 0 .. n - 1 : \A k \in 0 .. n - 1 : j < k => K(j) < K(k)
    BY <1>1, <1>2 DEF Partitioned
  <1>4. /\ DOMAIN off = 0 .. n /\ off[0] = 0 /\ off[n] = Cardinality(Sampled(s))
        /\ \A j \in 0 .. n : off[j] \in Nat
        /\ \A j \in 0 .. n - 1 : off[j + 1] = off[j] + Cardinality(V(j))
    <2> DEFINE o == Offsets(s, size)
               l == Len(Keys(s, size))
    <2>1. off = o /\ n = l
      OBVIOUS
    <2>2. /\ DOMAIN o = 0 .. l /\ o[0] = 0 /\ o[l] = Cardinality(Sampled(s))
          /\ \A j \in 0 .. l : o[j] \in Nat
          /\ \A j \in 0 .. l - 1 : o[j + 1] = o[j] + Cardinality(V(j))
      BY OffsetsCount
    <2> HIDE DEF o, l, off, n
    <2> QED BY <2>1, <2>2
  <1>5. /\ Len(r.indices) = off[n]
        /\ \A j \in 0 .. n - 1 : \A q \in 1 .. Cardinality(V(j)) : r.indices[off[j] + q] = A(j)[q]
    <2> DEFINE o == Offsets(s, size)
               l == Len(Keys(s, size))
               g == SourceList(s, size)
    <2>1. off = o /\ n = l /\ r.indices = g
      OBVIOUS
    <2>2. /\ Len(g) = o[l]
          /\ \A j \in 0 .. l - 1 : \A q \in 1 .. Cardinality(V(j)) : g[o[j] + q] = A(j)[q]
      BY SourceSegments
    <2> HIDE DEF o, l, g, off, n, V, A
    <2> QED BY <2>1, <2>2
  <1>6. \A j \in 0 .. n - 1 : Lists(A(j), V(j)) /\ Cardinality(V(j)) \in Nat
    <2> SUFFICES ASSUME NEW j \in 0 .. n - 1 PROVE Lists(A(j), V(j)) /\ Cardinality(V(j)) \in Nat
      OBVIOUS
    <2>1. IsFiniteSet(V(j)) /\ V(j) \subseteq Int
      BY <1>3, SampledFinite
    <2> QED BY <2>1, AscendingLists, FS_CardinalityType
  <1>7. \A j \in 0 .. n - 1 : t.points[j] = Centre(s, size, j)
    BY <1>1
  <1>8. \A j \in 0 .. n - 1 : \A i \in V(j) : s.points[i] \in Int /\ s.points[i] \div size = K(j) /\ K(j) \in -KeyLimit .. KeyLimit - 1
    <2> SUFFICES ASSUME NEW j \in 0 .. n - 1, NEW i \in V(j)
                 PROVE  s.points[i] \in Int /\ s.points[i] \div size = K(j) /\ K(j) \in -KeyLimit .. KeyLimit - 1
      OBVIOUS
    <2>1. i \in Sampled(s) /\ Key(s, size, i) = K(j)
      BY DEF Voxel
    <2>2. s.points[i] \in Int
      BY <2>1, SampledFinite
    <2> QED BY <2>1, <2>2 DEF Key, coordinate_key
  <1>9. \A j \in 0 .. n - 1 : /\ Centre(s, size, j) \in Int /\ Centre(s, size, j) \div size = K(j)
                              /\ \E a \in V(j) : s.points[a] <= Centre(s, size, j)
                              /\ \E b \in V(j) : Centre(s, size, j) <= s.points[b]
    BY <1>1, CentreInside
  <1>10. \A x \in Int : x \div size \in -KeyLimit .. KeyLimit - 1 => cell(x) = x \div size
    BY CellIsKey DEF CellOf
  <1> HIDE DEF n, off, V, A, K, cell
  <1>11. ASSUME NEW j \in 0 .. n - 1 PROVE members(j) = V(j)
    <2> DEFINE c == Cardinality(V(j))
               o == off[j]
    <2>0. j \in 0 .. n
      BY <1>3
    <2>1. o \in Nat /\ c \in Nat /\ off[j + 1] = o + c
      BY <1>4, <1>6, <2>0
    <2>2. \A q \in 1 .. c : r.indices[o + q] = A(j)[q]
      BY <1>5
    <2>3. /\ \A k \in 1 .. c : A(j)[k] \in V(j)
          /\ \A x \in V(j) : \E k \in 1 .. c : A(j)[k] = x
      BY <1>6 DEF Lists
    <2>4. members(j) = {r.indices[q] : q \in o + 1 .. o + c}
      BY <2>1 DEF off
    <2> HIDE DEF c, o
    <2> HIDE DEF members
    <2>5. ASSUME NEW q \in o + 1 .. o + c PROVE r.indices[q] \in V(j)
      <3>1. q - o \in 1 .. c /\ o + (q - o) = q
        BY <2>1
      <3> QED BY <2>2, <2>3, <3>1
    <2>6. ASSUME NEW x \in V(j) PROVE \E q \in o + 1 .. o + c : r.indices[q] = x
      <3>1. PICK k \in 1 .. c : A(j)[k] = x
        BY <2>3
      <3>2. o + k \in o + 1 .. o + c
        BY <2>1
      <3> QED BY <2>2, <3>1, <3>2
    <2>7. members(j) \subseteq V(j)
      BY <2>4, <2>5
    <2>8. V(j) \subseteq members(j)
      BY <2>4, <2>6
    <2> QED BY <2>7, <2>8
  <1>12. ASSUME NEW j \in 0 .. n - 1 PROVE cell(t.points[j]) = K(j)
    <2>1. PICK i \in V(j) : TRUE
      BY <1>3
    <2>2. K(j) \in -KeyLimit .. KeyLimit - 1
      BY <1>8, <2>1
    <2> QED BY <1>7, <1>9, <1>10, <2>2
  <1>13. ASSUME NEW j \in 0 .. n - 1, NEW i \in members(j) PROVE cell(s.points[i]) = cell(t.points[j])
    <2>1. i \in V(j)
      BY <1>11
    <2>2. cell(s.points[i]) = K(j)
      BY <1>8, <1>10, <2>1
    <2> QED BY <1>12, <2>2
  <1>14. ASSUME NEW j \in 0 .. n - 1, j > 0 PROVE cell(t.points[j - 1]) < cell(t.points[j])
    <2>1. j - 1 \in 0 .. n - 1 /\ j - 1 < j
      BY <1>3, <1>14
    <2>2. cell(t.points[j - 1]) = K(j - 1) /\ cell(t.points[j]) = K(j)
      BY <1>12, <2>1
    <2>3. K(j - 1) < K(j)
      BY <1>3, <2>1
    <2> QED BY <2>2, <2>3
  <1>15. ASSUME NEW j \in 0 .. n - 1 PROVE \E a, b \in members(j) : s.points[a] <= t.points[j] /\ t.points[j] <= s.points[b]
    <2>1. PICK a \in V(j) : s.points[a] <= Centre(s, size, j)
      BY <1>9
    <2>2. PICK b \in V(j) : Centre(s, size, j) <= s.points[b]
      BY <1>9
    <2> HIDE DEF members
    <2> QED BY <1>7, <1>11, <2>1, <2>2
  <1>16. ASSUME NEW j \in 0 .. n - 1, NEW q \in off[j] + 1 .. off[j + 1] - 1 PROVE r.indices[q] < r.indices[q + 1]
    <2> DEFINE c == Cardinality(V(j))
               o == off[j]
               k == q - off[j]
    <2>0. j \in 0 .. n
      BY <1>3
    <2>1. o \in Nat /\ c \in Nat /\ off[j + 1] = o + c
      BY <1>4, <1>6, <2>0
    <2>2. k \in 1 .. c /\ k + 1 \in 1 .. c /\ k < k + 1 /\ q = o + k /\ q + 1 = o + (k + 1)
      <3>1. q \in Int /\ o + 1 <= q /\ q <= o + c - 1
        <4>1. q \in Int /\ off[j] + 1 <= q /\ q <= off[j + 1] - 1
          BY <2>1
        <4>2. off[j + 1] = o + c /\ off[j] = o
          BY <2>1
        <4> HIDE DEF o, c
        <4> QED BY <2>1, <4>1, <4>2
      <3>2. k = q - o
        OBVIOUS
      <3> HIDE DEF o, c, k
      <3> QED BY <2>1, <3>1, <3>2
    <2>3. \A p \in 1 .. c : r.indices[o + p] = A(j)[p]
      BY <1>5
    <2>4. \A a \in 1 .. c : \A b \in 1 .. c : a < b => A(j)[a] < A(j)[b]
      BY <1>6 DEF Lists
    <2> HIDE DEF c, o, k
    <2> QED BY <2>2, <2>3, <2>4
  <1>17. UNION {members(j) : j \in 0 .. n - 1} = Sampled(s)
    <2> HIDE DEF members
    <2>1. \A j \in 0 .. n - 1 : members(j) \subseteq Sampled(s)
      BY <1>3, <1>11
    <2>2. \A i \in Sampled(s) : \E j \in 0 .. n - 1 : i \in members(j)
      BY <1>3, <1>11
    <2> QED BY <2>1, <2>2
  <1>18. \A j \in 0 .. n - 1 : members(j) # {}
    <2> HIDE DEF members
    <2> QED BY <1>3, <1>11
  <1>19. /\ DOMAIN r.offsets = 0 .. n
         /\ r.offsets[0] = 0 /\ r.offsets[n] = Len(r.indices)
         /\ Len(r.indices) = Cardinality(Sampled(s))
         /\ UNION {members(j) : j \in 0 .. n - 1} = Sampled(s)
         /\ \A j \in 0 .. n - 1 :
              /\ members(j) # {}
              /\ \A i \in members(j) : cell(s.points[i]) = cell(t.points[j])
              /\ \E a, b \in members(j) : s.points[a] <= t.points[j] /\ t.points[j] <= s.points[b]
              /\ j > 0 => cell(t.points[j - 1]) < cell(t.points[j])
              /\ \A q \in r.offsets[j] + 1 .. r.offsets[j + 1] - 1 : r.indices[q] < r.indices[q + 1]
    <2>1. /\ DOMAIN r.offsets = 0 .. n
          /\ r.offsets[0] = 0 /\ r.offsets[n] = Len(r.indices)
          /\ Len(r.indices) = Cardinality(Sampled(s))
      BY <1>4, <1>5 DEF off
    <2>2. \A j \in 0 .. n - 1 : \A q \in r.offsets[j] + 1 .. r.offsets[j + 1] - 1 : r.indices[q] < r.indices[q + 1]
      BY <1>16 DEF off
    <2> HIDE DEF members
    <2> QED BY <1>13, <1>14, <1>15, <1>17, <1>18, <2>1, <2>2
  <1> QED BY <1>19 DEF VoxelsTold, n, cell

LEMMA SamplingTold ==
    ASSUME StoreInv, NEW size \in VoxelSizes, Sampling(size)
    PROVE  \A s \in input' : \A t \in held' : VoxelsTold(s, t, report')
  <1>1. PICK src \in Sources : \E r \in voxel_sample(src.surface, size) :
          /\ held' = {r.surface} /\ input' = {src.surface}
          /\ report' = [kind |-> "voxels", size |-> size, indices |-> r.source_indices, offsets |-> r.source_offsets]
    BY DEF Sampling
  <1>2. PICK r \in voxel_sample(src.surface, size) :
          /\ held' = {r.surface} /\ input' = {src.surface}
          /\ report' = [kind |-> "voxels", size |-> size, indices |-> r.source_indices, offsets |-> r.source_offsets]
    BY <1>1
  <1>3. report'.size = size /\ report'.indices = r.source_indices /\ report'.offsets = r.source_offsets
    BY <1>2
  <1>4. Shaped(src.surface) /\ size \in Int
    BY SourcesSound, StoreAssumption
  <1>5. Sampled(src.surface) # {}
    BY SamplingIs DEF Unsuited
  <1>6. /\ size \in Nat \ {0}
        /\ r.surface.points = [j \in 0 .. Len(Keys(src.surface, size)) - 1 |-> Centre(src.surface, size, j)]
        /\ Size(r.surface.points) = Len(Keys(src.surface, size))
        /\ r.source_indices = SourceList(src.surface, size)
        /\ r.source_offsets = Offsets(src.surface, size)
        /\ \A i \in Sampled(src.surface) : Key(src.surface, size, i) \in -KeyLimit .. KeyLimit - 1
    <2> DEFINE src0 == src.surface
    <2>1. Shaped(src0) /\ size \in Int /\ r \in voxel_sample(src0, size)
      BY <1>4
    <2> HIDE DEF src0
    <2>2. /\ size \in Nat \ {0}
          /\ r.surface.points = [j \in 0 .. Len(Keys(src0, size)) - 1 |-> Centre(src0, size, j)]
          /\ Size(r.surface.points) = Len(Keys(src0, size))
          /\ r.source_indices = SourceList(src0, size)
          /\ r.source_offsets = Offsets(src0, size)
          /\ \A i \in Sampled(src0) : Key(src0, size, i) \in -KeyLimit .. KeyLimit - 1
      BY <2>1, SampleMeans
    <2> QED BY <2>2 DEF src0
  <1>7. VoxelsTold(src.surface, r.surface, report')
    BY <1>3, <1>4, <1>5, <1>6, VoxelsAreTold
  <1> QED BY <1>2, <1>7

\* For any surface and any cell size the CSR lists of a sampling partition the
\* points that are not masked by the cells they lie in, in order.
THEOREM VoxelsCorrect == Spec => []VoxelsExact
  <1>1. Init => VoxelsExact
    BY DEF Init, Silent, VoxelsExact
  <1>2. StoreInv /\ VoxelsExact /\ [Next]_vars => VoxelsExact'
    <2> SUFFICES ASSUME StoreInv, VoxelsExact, [Next]_vars PROVE VoxelsExact'
      OBVIOUS
    <2>1. VoxelsExact' <=> (report'.kind = "voxels" => \A s \in input', t \in held' : VoxelsTold(s, t, report'))
      BY DEF VoxelsExact
    <2>2. CASE report' = report /\ input' = input /\ held' = held
      BY <2>1, <2>2 DEF VoxelsExact
    <2>3. CASE report'.kind # "voxels"
      BY <2>1, <2>3
    <2>4. CASE \E size \in VoxelSizes : Sampling(size)
      BY <2>1, <2>4, SamplingTold
    <2>5. (\E radius \in Radii : \E hint \in Hints : Preparing(radius, hint)) => report'.kind = "normals"
      BY DEF Preparing
    <2>6. Masked => report'.kind = "mask"
      BY DEF Masked
    <2> QED BY <2>2, <2>3, <2>4, <2>5, <2>6, Reports
  <1> QED BY <1>1, <1>2, Inductive, PTL DEF Spec
=============================================================================

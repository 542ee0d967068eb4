---------------------------- MODULE SurfaceStore ----------------------------
(***************************************************************************)
(* A caller at work on surfaces: arrays of its own, which it may change    *)
(* behind a SurfaceView that borrows them, the OwnedSurface the last call  *)
(* returned, and a point cloud file.  Every operation of Surface is one    *)
(* action.  An operation that returns an error changes nothing and is not  *)
(* a step.                                                                 *)
(*                                                                         *)
(* origin, input and saved are history variables: what the owned surface   *)
(* derives from, what the last operation was given, and what was written.  *)
(***************************************************************************)
EXTENDS Surface

CONSTANTS
    Inputs,         \* what the caller's arrays may hold, with grid, unit and frame
    Frames,
    Rotations, Translations,  \* entries of the matrices callers supply
    Rois, VoxelSizes, Radii, Hints,  \* arguments of the preprocessing calls
    Changes,        \* index, point and mask of what the caller overwrites
    ForeignFiles,   \* clouds other programs wrote
    Steps           \* bound: number of calls and of changes to the arrays

ASSUME StoreAssumption ==
    /\ \A s \in Inputs : IsSurface(s)
    /\ Rotations \subseteq Int /\ Translations \subseteq Int
    /\ \A r \in UNION Rois : r.minimum \in Int /\ r.maximum \in Int
    /\ VoxelSizes \subseteq Int /\ Radii \subseteq Int
    /\ \A hint \in Hints : hint.value \in Int
    /\ \A c \in Changes : c.point \in Int /\ c.valid \in Int
    /\ \A c \in ForeignFiles : IsCloud(c)

VARIABLES arrays, viewed, held, report, file, origin, input, saved, steps

vars == <<arrays, viewed, held, report, file, origin, input, saved, steps>>

NoFile == {}
Silent == [kind |-> "none"]

\* A point as its owner sees it: position in row-major order, no padding.
Samples(s) == [k \in Ordinals(s) |-> [x |-> At(s.points, Slot(s, k)), n |-> At(s.normals, Slot(s, k)),
                                      v |-> input_valid(s, Slot(s, k))]]

\* The samples a surface derives from, how they were moved, and whether their
\* normals came along.
Derived(samples, unit, rotation, shift, normalized, carried) ==
    [samples |-> samples, unit |-> unit, rotation |-> rotation, shift |-> shift,
     normalized |-> normalized, carried |-> carried]

Unchanged(s) == Derived(Samples(s), s.unit, 1, 0, FALSE, TRUE)

Init == /\ arrays \in Inputs
        /\ viewed = FALSE
        /\ held = {}
        /\ report = Silent
        /\ file = NoFile
        /\ origin = Silent
        /\ input = {}
        /\ saved = {}
        /\ steps = 0

-----------------------------------------------------------------------------
\* The caller has a call or a change left.
Counted == steps < Steps /\ steps' = steps + 1

\* SurfaceView::create
Borrow == /\ steps < Steps
          /\ ~viewed
          /\ validate_surface_data(arrays)
          /\ viewed' = TRUE
          /\ UNCHANGED <<arrays, held, report, file, origin, input, saved, steps>>

\* The caller overwrites an element of an array a view borrows.
Mutate(c) ==
    /\ Counted
    /\ viewed
    /\ c.index \in DOMAIN arrays.points
    /\ arrays' = SurfaceData([arrays.points EXCEPT ![c.index] = c.point], arrays.normals,
                             IF arrays.valid = Empty THEN Empty ELSE [arrays.valid EXCEPT ![c.index] = c.valid],
                             arrays.grid, arrays.unit, arrays.frame)
    /\ UNCHANGED <<viewed, held, report, file, origin, input, saved>>

\* What an operation can be called on, and the history of it.
Sources == (IF viewed THEN {[surface |-> arrays, origin |-> Unchanged(arrays)]} ELSE {})
           \union {[surface |-> s, origin |-> origin] : s \in held}

\* A call on src returned t and r.
Returned(src, t, r, o) == /\ held' = {t}
                          /\ report' = r
                          /\ origin' = o
                          /\ input' = {src.surface}
                          /\ UNCHANGED <<arrays, viewed, file, saved>>

\* OwnedSurface::create from copies of the arrays.
Own == /\ Counted
       /\ \E t \in Created(arrays) : Returned([surface |-> arrays], t, Silent, Unchanged(arrays))

Moved(o, t) == Derived(o.samples, o.unit, rotate_vector(t, o.rotation), apply(t, o.shift), TRUE, o.carried)
Replaced(o) == Derived(o.samples, o.unit, o.rotation, o.shift, o.normalized, FALSE)

Normalize(target, t) ==
    /\ Counted
    /\ \E src \in Sources : \E n \in normalize_surface(src.surface, target, t) :
         Returned(src, n, Silent, Moved(src.origin, t))

Mask(roi) ==
    /\ Counted
    /\ \E src \in Sources : \E r \in apply_validity_mask(src.surface, roi) :
         Returned(src, r.surface,
                  [kind |-> "mask", roi |-> roi, reasons |-> r.reasons, valid_count |-> r.valid_count], src.origin)

Sample(size) ==
    /\ Counted
    /\ \E src \in Sources : \E r \in voxel_sample(src.surface, size) :
         Returned(src, r.surface,
                  [kind |-> "voxels", size |-> size, indices |-> r.source_indices, offsets |-> r.source_offsets],
                  Unchanged(r.surface))

PrepareNormals(radius, hint) ==
    /\ Counted
    /\ \E src \in Sources :
         \E r \in prepare_normals_and_boundaries(src.surface, radius, 3, radius, hint, 1) :
           Returned(src, r.surface,
                    [kind |-> "normals", radius |-> radius, hint |-> hint, boundary |-> r.boundary,
                     reasons |-> r.reasons, proven |-> r.orientation_proven],
                    Replaced(src.origin))

ThroughPcl == /\ Counted
              /\ \E src \in Sources : \E t \in through_pcl(src.surface) : Returned(src, t, Silent, src.origin)

\* write_ply and write_pcd, binary or in ASCII.  A count that is cut to zero
\* is divided by, and the program ends there; a write that fails may leave a
\* file that cannot be read.
Write(binary) ==
    /\ Counted
    /\ \E src \in Sources :
         /\ uint32(Width(src.surface)) # 0
         /\ \/ \E c \in stored(encode_cloud(src.surface), binary) :
                   file' = {c} /\ saved' = {[surface |-> src.surface, binary |-> binary]}
            \/ file' = NoFile /\ saved' = {}
    /\ UNCHANGED <<arrays, viewed, held, report, origin, input>>

\* Another program replaces the file.
Replace(c) == /\ Counted
              /\ file' = {c}
              /\ saved' = {}
              /\ UNCHANGED <<arrays, viewed, held, report, origin, input>>

\* read_ply and read_pcd: unit and frame come from the caller.
Read(unit, frame) ==
    /\ Counted
    /\ \E c \in file : \E t \in decode_cloud(c, unit, frame) :
         Returned([surface |-> t], t, [kind |-> "read", cloud |-> c], Unchanged(t))

Transforms == {{}} \union {RigidTransform(r, d, f, g) : r \in Rotations, d \in Translations, f, g \in Frames}

Next == \/ Borrow \/ Own \/ ThroughPcl
        \/ \E binary \in BOOLEAN : Write(binary)
        \/ \E c \in Changes : Mutate(c)
        \/ \E f \in Frames, t \in Transforms : Normalize(f, t)
        \/ \E roi \in Rois : Mask(roi)
        \/ \E size \in VoxelSizes : Sample(size)
        \/ \E radius \in Radii, hint \in Hints : PrepareNormals(radius, hint)
        \/ \E c \in ForeignFiles : Replace(c)
        \/ \E unit \in Units, f \in Frames : Read(unit, f)

Spec == Init /\ [][Next]_vars

-----------------------------------------------------------------------------
\* Properties

\* Whatever the library returns can be used without looking again: every
\* point lies inside the arrays, a mask is 0 or 1 and what it lets through is
\* finite.  A view promises less: its caller may have changed the arrays
\* since it was created, and no operation may pass that on.
SoundProducts ==
    \A s \in held :
      \A k \in Ordinals(s) :
        LET i == Slot(s, k) IN
        /\ i \in DOMAIN s.points
        /\ s.valid # Empty => i \in DOMAIN s.valid /\ s.valid[i] \in {0, 1}
        /\ input_valid(s, i) => /\ Finite(s.points[i])
                                /\ s.normals # Empty => i \in DOMAIN s.normals /\ Finite(s.normals[i])

\* Through any sequence of calls a point keeps its place in row-major order;
\* a valid point was valid at the start, and lies where one conversion of its
\* unit and the composition of all transforms put it.  Its normal has been
\* turned by the same rotations and by nothing else, until it is replaced.
Traceable ==
    \A s \in held :
      LET samples == Samples(s) IN
      /\ DOMAIN samples = DOMAIN origin.samples
      /\ s.unit = IF origin.normalized THEN "millimeter" ELSE origin.unit
      /\ \A k \in DOMAIN samples :
           LET now == samples[k]
               was == origin.samples[k]
           IN  now.v => /\ was.v
                        /\ now.x = IF origin.normalized
                                   THEN origin.rotation * to_millimeters(was.x, origin.unit) + origin.shift
                                   ELSE was.x
                        /\ (origin.carried /\ s.normals # Empty) => now.n = origin.rotation * was.n

\* t is s as a file gives it back: the same points, masks and normals in the
\* same order, up to the digits that were printed, and if it has more than one
\* row the same grid without its padding.
Restores(t, s, binary) ==
    /\ Ordinals(t) = Ordinals(s)
    /\ \A k \in Ordinals(s) :
         LET now == Samples(t)[k]
             was == Samples(s)[k]
         IN  now.v = was.v /\ now.x \in Reading(was.x, binary) /\ now.n \in Reading(was.n, binary)
    /\ t.normals = Empty <=> s.normals = Empty
    /\ Height(s) > 1 => Width(t) = Width(s) /\ Height(t) = Height(s)

\* A file written from a surface that honours its contract and whose points
\* 32 bits can count is never read as another surface; it can be read if and
\* only if the bytes of a row fit 32 bits as well, though writing it succeeds
\* in any case.
ReadsBack ==
    \A w \in saved, c \in file :
      LET s == w.surface
          again == decode_cloud(c, s.unit, s.frame)
      IN  validate_surface_data(s) /\ Width(s) <= MaxUInt32 =>
            /\ again # {} <=> Step(s) * Width(s) <= MaxUInt32
            /\ \A t \in again : Restores(t, s, w.binary)

\* The mask keeps exactly the points that were valid, finite and inside the
\* region, the count is their number, and every reason is true of its slot.
MaskExplained ==
    report.kind = "mask" =>
      \A s \in input, t \in held :
        LET usable == {i \in Logical(s) : /\ input_valid(s, i) /\ Finite(s.points[i]) /\ Finite(At(s.normals, i))
                                          /\ \A r \in report.roi : s.points[i] \in r.minimum .. r.maximum}
        IN  /\ \A i \in DOMAIN t.valid : t.valid[i] = 1 <=> i \in usable
            /\ report.valid_count = Cardinality(usable)
            /\ \A i \in DOMAIN t.valid :
                 CASE report.reasons[i] = "none" -> i \in usable
                   [] report.reasons[i] = "row_padding" -> i \notin Logical(s)
                   [] report.reasons[i] = "non_finite_point" -> ~Finite(s.points[i])
                   [] report.reasons[i] = "non_finite_normal" -> ~Finite(s.normals[i])
                   [] report.reasons[i] = "input_masked" -> s.valid[i] # 1
                   [] report.reasons[i] = "outside_roi" ->
                          /\ input_valid(s, i) /\ Finite(s.points[i]) /\ Finite(At(s.normals, i))
                          /\ \E r \in report.roi : s.points[i] \notin r.minimum .. r.maximum

\* The lists r of a sampling of s that made t.
VoxelsTold(s, t, r) ==
    LET n == Size(t.points)
        members(j) == {r.indices[q] : q \in r.offsets[j] + 1 .. r.offsets[j + 1]}
        cell(x) == CHOOSE c \in -KeyLimit .. KeyLimit - 1 : c * r.size <= x /\ x < (c + 1) * r.size
    IN  /\ DOMAIN r.offsets = 0 .. n
        /\ r.offsets[0] = 0 /\ r.offsets[n] = Len(r.indices)
        /\ Len(r.indices) = Cardinality(Sampled(s))
        /\ UNION {members(j) : j \in 0 .. n - 1} = Sampled(s)
        /\ \A j \in 0 .. n - 1 :
             /\ members(j) # {}
             /\ \A i \in members(j) : cell(s.points[i]) = cell(t.points[j])
             /\ \E a, b \in members(j) : s.points[a] <= t.points[j] /\ t.points[j] <= s.points[b]
             /\ j > 0 => cell(t.points[j - 1]) < cell(t.points[j])
             /\ \A q \in r.offsets[j] + 1 .. r.offsets[j + 1] - 1 : r.indices[q] < r.indices[q + 1]

\* The CSR lists of a voxel sampling partition the points that are not
\* masked, each voxel being all the points of one cell of the grid of cubes;
\* cells come in ascending order, sources in storage order, no voxel is
\* empty, and its point lies between its sources.
VoxelsExact == report.kind = "voxels" => \A s \in input, t \in held : VoxelsTold(s, t, report)

\* The boundary and the orientation r that came with the normals of s.
BoundaryTold(s, r) ==
    LET samples == Samples(s)
        valid == {k \in DOMAIN samples : samples[k].v}
        x(k) == samples[k].x
        w == Width(s)
        beside(k, m) == \/ m \in {k - w, k + w}
                        \/ m \in {k - 1, k + 1} /\ m \div w = k \div w
        close(k) == {m \in valid \ {k} : Magnitude(x(k) - x(m)) <= r.radius}
        surrounded(k) == Cardinality({m \in close(k) : beside(k, m)}) = 4
        flagged == {k \in DOMAIN samples : Slot(s, k) \in r.boundary}
    IN  /\ flagged \subseteq valid
        /\ r.boundary \subseteq Logical(s)
        /\ s.grid # {} => flagged = {k \in valid : ~surrounded(k)}
        /\ s.grid = {} => {k \in valid : Cardinality(close(k)) < 3} \subseteq flagged
        /\ \A k \in valid : samples[k].n \in {-1, 1}
        /\ r.proven =>
             /\ valid # {}
             /\ \A k \in valid :
                  \/ r.hint.mode = "align_direction" /\ samples[k].n * r.hint.value > 0
                  \/ r.hint.mode = "toward_viewpoint" /\ samples[k].n * (r.hint.value - x(k)) > 0

\* On a grid exactly those valid points are boundary points that are not
\* surrounded by four valid points within the radius, padding never counting
\* as a neighbour; off the grid a point with fewer than three neighbours is
\* one.  orientation_proven means that every normal points along the hint.
BoundaryExact == report.kind = "normals" => \A s \in held : BoundaryTold(s, report)
=============================================================================

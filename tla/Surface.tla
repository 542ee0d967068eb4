------------------------------ MODULE Surface ------------------------------
(***************************************************************************)
(* Surfaces and what the library makes of one surface: the contract of     *)
(* surface.hpp, unit and frame normalisation, the validity mask, voxel     *)
(* sampling, normals and boundaries, and the conversions to PCL clouds and *)
(* files.                                                                  *)
(*                                                                         *)
(* A surface keeps the storage layout of the code: arrays indexed from 0,  *)
(* empty when absent, and optionally a grid whose rows are padded to       *)
(* row_stride.  Points have one coordinate; a half turn reverses it.  An   *)
(* optional value is a set of at most one element, and an operation yields *)
(* the set of its possible results, empty if it returns an error.          *)
(***************************************************************************)
EXTENDS Integers, FiniteSets, SequencesExt

CONSTANTS
    NaN,        \* stands for every number that is not finite
    Scale,      \* ratio of two neighbouring units (1000)
    MaxFloat,   \* largest float
    MaxSize,    \* largest size_t
    MaxUInt32,  \* largest uint32_t
    PlainStep,  \* bytes of a point in a cloud that is written (13)
    NormalStep, \* and of a point with a normal (25)
    Precise,    \* numbers up to this size are printed exactly (eight digits)
    KeyLimit,   \* voxel keys lie in [-KeyLimit, KeyLimit) (2^63)
    Estimates,  \* what PCA yields for a point: a direction, or 0 if it fails
    Misread     \* what reading four bytes of a float64 as a float yields

ASSUME SurfaceAssumption ==
    /\ {Scale, MaxFloat, MaxSize, MaxUInt32, Precise, KeyLimit} \subseteq Nat \ {0}
    /\ MaxSize >= MaxUInt32 * MaxUInt32
    /\ {PlainStep, NormalStep} \subseteq 1 .. MaxUInt32
    /\ NaN \in Nat /\ NaN > MaxFloat
    /\ Estimates \subseteq -1 .. 1
    /\ Misread \subseteq Int /\ Misread # {}

The(S) == CHOOSE x \in S : TRUE
Empty == [i \in {} |-> 0]
Size(a) == Cardinality(DOMAIN a)
Finite(v) == v # NaN
Magnitude(v) == IF v < 0 THEN -v ELSE v
Sign(v) == IF v < 0 THEN -1 ELSE IF v > 0 THEN 1 ELSE 0

\* static_cast<std::uint32_t>, and what is computed in that type.
uint32(n) == n % (MaxUInt32 + 1)

\* An element of a span.  What is read past its end is undefined; 0 stands
\* for it, and SoundProducts says that it does not happen.
At(a, i) == IF i \in DOMAIN a THEN a[i] ELSE 0

\* An array of numbers.
IsArray(a) == /\ Size(a) \in Nat
              /\ a = [i \in 0 .. Size(a) - 1 |-> a[i]]
              /\ \A i \in 0 .. Size(a) - 1 : a[i] \in Int

-----------------------------------------------------------------------------
\* The contract

Width(s) == IF s.grid = {} THEN Size(s.points) ELSE The(s.grid).width
Height(s) == IF s.grid = {} THEN 1 ELSE The(s.grid).height
Stride(s) == IF s.grid = {} THEN Size(s.points) ELSE The(s.grid).row_stride

\* for_each_logical_index: row-major, the padding left out.
Slot(s, k) == (k \div Width(s)) * Stride(s) + (k % Width(s))
Ordinals(s) == 0 .. Width(s) * Height(s) - 1
Logical(s) == {Slot(s, k) : k \in Ordinals(s)}

input_valid(s, i) == s.valid = Empty \/ At(s.valid, i) = 1

storage_fits(g) == g.height - 1 <= (MaxSize - g.width) \div g.row_stride

validate_surface_data(s) ==
    /\ s.points # Empty
    /\ Size(s.normals) \in {0, Size(s.points)}
    /\ Size(s.valid) \in {0, Size(s.points)}
    /\ \A g \in s.grid :
          /\ g.width > 0 /\ g.height > 0
          /\ g.row_stride >= g.width
          /\ storage_fits(g)
          /\ Size(s.points) = ((g.height - 1) * g.row_stride + g.width) % (MaxSize + 1)
    /\ \A i \in Logical(s) :
          /\ At(s.valid, i) \in {0, 1}
          /\ input_valid(s, i) => Finite(At(s.points, i)) /\ Finite(At(s.normals, i))

\* SurfaceData and the metadata beside it.
SurfaceData(points, normals, valid, grid, unit, frame) ==
    [points |-> points, normals |-> normals, valid |-> valid, grid |-> grid, unit |-> unit, frame |-> frame]

IsSurface(s) == /\ s = SurfaceData(s.points, s.normals, s.valid, s.grid, s.unit, s.frame)
                /\ IsArray(s.points) /\ IsArray(s.normals) /\ IsArray(s.valid)
                /\ \/ s.grid = {}
                   \/ /\ s.grid = {The(s.grid)}
                      /\ LET extent == 0 .. MaxUInt32 IN
                           The(s.grid) \in [width : extent, height : extent, row_stride : extent]

\* Fault: what an operation made is not checked again.
CreatedUnchecked(s) == {s}

\* OwnedSurface::create
Created(s) == {t \in {s} : validate_surface_data(t)}

-----------------------------------------------------------------------------
\* Normalisation

to_millimeters(v, unit) ==
    CASE unit = "millimeter" -> v
      [] unit = "meter" -> v * Scale
      [] unit = "micrometer" -> v \div Scale
Units == {"millimeter", "meter", "micrometer"}

\* RigidTransform::create: finite, and a proper rotation.
RigidTransform(rotation, translation, source, target) ==
    {t \in {[rotation |-> rotation, translation |-> translation, source |-> source, target |-> target]} :
        Finite(t.translation) /\ t.rotation * t.rotation = 1}

apply(t, v) == IF t = {} THEN v ELSE The(t).rotation * v + The(t).translation
rotate_vector(t, v) == IF t = {} THEN v ELSE The(t).rotation * v

fits_float(v) == Finite(v) /\ Magnitude(v) <= MaxFloat

Applicable(s, target, t) ==
    /\ s.unit \in Units
    /\ s.frame # target => t # {}
    /\ \A u \in t : u.source = s.frame /\ u.target = target

\* Every logical point is scaled and moved, every normal turned; a valid one
\* must stay representable, a masked one may become non-finite.
Normalization(s, target, t, unit) ==
    LET point(i) == IF Finite(At(s.points, i)) THEN apply(t, to_millimeters(At(s.points, i), s.unit)) ELSE NaN
        normal(i) == IF Finite(s.normals[i]) THEN rotate_vector(t, s.normals[i]) ELSE NaN
        float(v) == IF fits_float(v) THEN v ELSE NaN
    IN  IF ~Applicable(s, target, t) \/ \E i \in Logical(s) : input_valid(s, i) /\ ~fits_float(point(i)) THEN {}
        ELSE Created(SurfaceData(
               [i \in DOMAIN s.points |-> IF i \in Logical(s) THEN float(point(i)) ELSE s.points[i]],
               [i \in DOMAIN s.normals |-> IF i \in Logical(s) THEN normal(i) ELSE s.normals[i]],
               s.valid, s.grid, unit, target))

\* Fault: the result keeps the unit of the source.
normalize_surface_keeping_unit(s, target, t) == Normalization(s, target, t, s.unit)

normalize_surface(s, target, t) == Normalization(s, target, t, "millimeter")

-----------------------------------------------------------------------------
\* The validity mask

valid_roi(r) == Finite(r.minimum) /\ Finite(r.maximum) /\ r.minimum <= r.maximum

\* Fault: the far side of the region is outside.
inside_open(r, v) == v >= r.minimum /\ v < r.maximum

inside(r, v) == v >= r.minimum /\ v <= r.maximum

invalid_reason(s, roi, i) ==
    IF i \notin Logical(s) THEN "row_padding"
    ELSE IF ~Finite(At(s.points, i)) THEN "non_finite_point"
    ELSE IF ~Finite(At(s.normals, i)) THEN "non_finite_normal"
    ELSE IF ~input_valid(s, i) THEN "input_masked"
    ELSE IF \E r \in roi : ~inside(r, At(s.points, i)) THEN "outside_roi"
    ELSE "none"

apply_validity_mask(s, roi) ==
    LET reasons == [i \in DOMAIN s.points |-> invalid_reason(s, roi, i)]
        kept == {i \in DOMAIN s.points : reasons[i] = "none"}
    IN  IF s.unit # "millimeter" \/ \E r \in roi : ~valid_roi(r) THEN {}
        ELSE {[surface |-> t, reasons |-> reasons, valid_count |-> Cardinality(kept)] :
                t \in Created(SurfaceData(s.points, s.normals,
                                          [i \in DOMAIN s.points |-> IF i \in kept THEN 1 ELSE 0],
                                          s.grid, s.unit, s.frame))}

-----------------------------------------------------------------------------
\* Voxel sampling and the clouds PCL searches: whatever is not masked by 0.

Sampled(s) == {i \in Logical(s) : s.valid = Empty \/ At(s.valid, i) # 0}
Ascending(S) == [k \in 1 .. Cardinality(S) |-> CHOOSE x \in S : Cardinality({y \in S : y < x}) = k - 1]

\* Fault: the quotient is cut off instead of rounded down.
coordinate_key_cut(v, size) == IF v < 0 THEN -((-v) \div size) ELSE v \div size

coordinate_key(v, size) == v \div size

\* The sum of a[i] over the i of S.
SumOver(a, S) == MapThenSumSet(LAMBDA i : a[i], S)

\* A voxel per key, in order of the keys, with the mean of its points, the
\* direction of the sum of its normals and the source indices in CSR form.
voxel_sample(s, size) ==
    LET key(i) == coordinate_key(s.points[i], size)
        keys == Ascending({key(i) : i \in Sampled(s)})
        voxel(j) == {i \in Sampled(s) : key(i) = keys[j + 1]}
        voxels == 0 .. Len(keys) - 1
        finite(j) == \A i \in voxel(j) : Finite(s.normals[i])
    IN  IF \/ s.unit # "millimeter" \/ ~Finite(size) \/ size <= 0 \/ Sampled(s) = {}
           \/ \E i \in Sampled(s) : ~Finite(s.points[i]) \/ key(i) < -KeyLimit \/ key(i) >= KeyLimit
        THEN {}
        ELSE {[surface |-> t,
               source_indices |-> FlattenSeq([j \in 1 .. Len(keys) |-> Ascending(voxel(j - 1))]),
               source_offsets |-> [j \in 0 .. Len(keys) |-> Cardinality(UNION {voxel(q) : q \in 0 .. j - 1})]] :
                t \in Created(SurfaceData(
                   [j \in voxels |-> SumOver(s.points, voxel(j)) \div Cardinality(voxel(j))],
                   IF s.normals = Empty THEN Empty
                   ELSE [j \in voxels |-> IF finite(j) THEN Sign(SumOver(s.normals, voxel(j))) ELSE 0],
                   Empty, {}, s.unit, s.frame))}

-----------------------------------------------------------------------------
\* Normals and boundaries

Near(s, i, j, radius) == /\ Finite(At(s.points, i)) /\ Finite(At(s.points, j))
                         /\ Magnitude(s.points[i] - s.points[j]) <= radius
Neighbors(s, i, radius) == {j \in Sampled(s) : Near(s, i, j, radius)}

\* A point with too few neighbours gets no normal; PCA may fail for others.
estimate_normals(s, radius, minimum) ==
    LET able == {i \in Sampled(s) : Cardinality(Neighbors(s, i, radius)) >= (IF minimum < 3 THEN 3 ELSE minimum)}
    IN  {[i \in DOMAIN s.points |-> IF i \in able THEN f[i] ELSE 0] : f \in [able -> Estimates]}

\* Normals that came with the surface are normalised; zero is no normal.
given_normals(s) ==
    [i \in DOMAIN s.points |->
        IF i \in Logical(s) /\ input_valid(s, i) /\ Finite(s.normals[i]) THEN Sign(s.normals[i]) ELSE 0]

\* Fault: a neighbour is sought in the padding too.
detect_grid_boundaries_padded(s, radius) ==
    {i \in Logical(s) : /\ input_valid(s, i)
                        /\ \E d \in {-Stride(s), Stride(s), -1, 1} :
                             \/ i + d \notin DOMAIN s.points
                             \/ ~input_valid(s, i + d)
                             \/ ~Near(s, i, i + d, radius)}

\* A valid point is on the boundary if one of its four neighbours is off the
\* grid, masked or too far away.
detect_grid_boundaries(s, radius) ==
    LET cell(row, column) == row * Stride(s) + column
        open(row, column, r, c) ==
            \/ r < 0 \/ c < 0 \/ r >= Height(s) \/ c >= Width(s)
            \/ ~input_valid(s, cell(r, c))
            \/ ~Near(s, cell(row, column), cell(r, c), radius)
    IN  {cell(p[1], p[2]) : p \in
          {q \in (0 .. Height(s) - 1) \X (0 .. Width(s) - 1) :
             /\ input_valid(s, cell(q[1], q[2]))
             /\ \E d \in {<<-1, 0>>, <<1, 0>>, <<0, -1>>, <<0, 1>>} :
                  open(q[1], q[2], q[1] + d[1], q[2] + d[2])}}

\* Fewer than three directions make a boundary; otherwise the widest gap
\* between the angles decides, which one coordinate does not tell.
detect_unorganized_boundaries(s, radius) ==
    LET sparse == {i \in Sampled(s) : Cardinality(Neighbors(s, i, radius)) <= 3}
    IN  {sparse \union wide : wide \in SUBSET (Sampled(s) \ sparse)}

\* A normal can be turned along the hint; from the viewpoint itself it cannot.
Orientable(s, hint, i) == \/ hint.mode = "align_direction"
                          \/ hint.mode = "toward_viewpoint" /\ hint.value # s.points[i]
Toward(s, hint, i) == IF hint.mode = "align_direction" THEN hint.value ELSE hint.value - s.points[i]

\* prepare_impl: a point without normal leaves the mask.
prepare_normals_and_boundaries(s, normal_radius, minimum, boundary_radius, hint, threads) ==
    LET prepared(n) ==
          LET kept == {i \in Logical(s) : input_valid(s, i) /\ n[i] # 0}
              oriented == {i \in kept : Orientable(s, hint, i)}
              reason(i) == IF i \in kept THEN "none"
                           ELSE IF i \in Logical(s) /\ input_valid(s, i) THEN "normal_missing" ELSE "input_invalid"
          IN  UNION {{[surface |-> t, boundary |-> b,
                       reasons |-> [i \in DOMAIN s.points |-> reason(i)],
                       orientation_proven |-> kept # {} /\ oriented = kept] :
                        b \in IF t.grid # {} THEN {detect_grid_boundaries(t, boundary_radius)}
                              ELSE detect_unorganized_boundaries(t, boundary_radius)} :
                t \in Created(SurfaceData(s.points,
                   [i \in DOMAIN s.points |-> IF i \in oriented /\ n[i] * Toward(s, hint, i) < 0 THEN -n[i] ELSE n[i]],
                   [i \in DOMAIN s.points |-> IF i \in kept THEN 1 ELSE 0], s.grid, s.unit, s.frame))}
    IN  IF \/ threads = 0 \/ s.unit # "millimeter" \/ minimum < 3
           \/ \E r \in {normal_radius, boundary_radius} : ~Finite(r) \/ r <= 0
           \/ hint.mode # "unproven" /\ (~Finite(hint.value) \/ hint.value = 0)
        THEN {}
        ELSE UNION {prepared(n) : n \in IF s.normals = Empty THEN estimate_normals(s, normal_radius, minimum)
                                        ELSE {given_normals(s)}}

-----------------------------------------------------------------------------
\* Clouds and files

\* Row-major storage without padding; one row is not a grid.
Organized(width, height) == IF height > 1 THEN {[width |-> width, height |-> height, row_stride |-> width]} ELSE {}

\* to_pcl_surface and from_pcl_surface: the mask travels beside the cloud, and
\* tells that a count was cut to 32 bits.
through_pcl(s) ==
    LET compact(a) == IF a = Empty THEN Empty ELSE [k \in Ordinals(s) |-> a[Slot(s, k)]]
    IN  IF uint32(Width(s)) # Width(s) THEN {}
        ELSE Created(SurfaceData(compact(s.points), compact(s.normals), compact(s.valid),
                                 Organized(Width(s), Height(s)), s.unit, s.frame))

NoNormals == <<"absent", "absent", "absent">>
FloatNormals == <<"float32", "float32", "float32">>

\* A cloud that was parsed: the readers compute row_step from the other fields.
\* Its storage may be longer or shorter than its header says.
IsCloud(c) == /\ Size(c.samples) \in Nat
              /\ DOMAIN c.samples = 0 .. Size(c.samples) - 1
              /\ \A k \in DOMAIN c.samples : {c.samples[k].x, c.samples[k].n, c.samples[k].v} \subseteq Int
              /\ {c.width, c.height, c.point_step} \subseteq 0 .. MaxUInt32
              /\ c.row_step = uint32(c.point_step * c.width)

\* The header of a cloud that is written: always with a mask, and with the
\* width and the length of a row cut to 32 bits.
Step(s) == IF s.normals = Empty THEN PlainStep ELSE NormalStep
Encoding(s, samples) ==
    [xyz |-> "float32", normal |-> IF s.normals = Empty THEN NoNormals ELSE FloatNormals, valid |-> "uint8",
     width |-> uint32(Width(s)), height |-> Height(s), point_step |-> Step(s),
     row_step |-> uint32(Step(s) * uint32(Width(s))), samples |-> samples]

\* Fault: samples are taken in storage order.
encode_cloud_padded(s) ==
    Encoding(s, [k \in Ordinals(s) |-> [x |-> s.points[k], n |-> At(s.normals, k),
                                        v |-> IF s.valid = Empty THEN 1 ELSE s.valid[k]]])

\* Rows of a cut length overlap in the storage; as such a cloud is refused by
\* every reader, its samples are told as if they did not.
encode_cloud(s) ==
    Encoding(s, [k \in Ordinals(s) |-> LET i == Slot(s, k) IN
                   [x |-> s.points[i], n |-> At(s.normals, i), v |-> IF s.valid = Empty THEN 1 ELSE s.valid[i]]])

\* What a number in a file reads as: itself or, of a long one that was printed,
\* itself or a neighbour.
Reading(v, binary) == IF binary \/ ~Finite(v) \/ Magnitude(v) <= Precise THEN {v}
                      ELSE {w \in v - 1 .. v + 1 : Finite(w)}

\* The clouds that the file of c may be parsed to; printing is a function of
\* the number.
stored(c, binary) ==
    LET long == {v \in UNION {{c.samples[k].x, c.samples[k].n} : k \in DOMAIN c.samples} : Reading(v, binary) # {v}}
        readings == {f \in [long -> UNION {Reading(v, binary) : v \in long}] : \A v \in long : f[v] \in Reading(v, binary)}
        read(f, v) == IF v \in long THEN f[v] ELSE v
    IN  {[c EXCEPT !.samples = [k \in DOMAIN c.samples |->
             [x |-> read(f, c.samples[k].x), n |-> read(f, c.samples[k].n), v |-> c.samples[k].v]]] : f \in readings}

\* Field types and storage of a cloud that was read.
validate_fields(c) ==
    LET minimum_row_step == c.width * c.point_step IN
    /\ c.xyz = "float32"
    /\ {k \in 1 .. 3 : c.normal[k] = "float32"} \in {{}, 1 .. 3}
    /\ c.valid \in {"absent", "uint8"}
    /\ c.width * c.height > 0 /\ c.point_step > 0
    /\ c.row_step >= minimum_row_step
    /\ Size(c.samples) * c.point_step >= (c.height - 1) * c.row_step + minimum_row_step

\* The points the header counts.  Without a mask those that are not finite are
\* masked.  Normals are read as floats wherever a field normal_x exists.
decode_cloud(c, unit, frame) ==
    LET indices == 0 .. c.width * c.height - 1
        has_normals == c.normal[1] # "absent"
        read(k) == IF c.normal = FloatNormals THEN {c.samples[k].n} ELSE Misread
        decoded(n) ==
          LET finite(k) == Finite(c.samples[k].x) /\ (has_normals => Finite(n[k]))
              all == \A k \in indices : finite(k)
              mask == [k \in indices |-> IF c.valid = "uint8" THEN c.samples[k].v ELSE IF finite(k) THEN 1 ELSE 0]
          IN  IF \E k \in indices : mask[k] > 1 \/ (mask[k] = 1 /\ ~finite(k)) THEN {}
              ELSE Created(SurfaceData([k \in indices |-> c.samples[k].x],
                                       IF has_normals THEN n ELSE Empty,
                                       IF c.valid = "absent" /\ all THEN Empty ELSE mask,
                                       Organized(c.width, c.height), unit, frame))
    IN  IF ~validate_fields(c) THEN {}
        ELSE UNION {decoded(n) : n \in {f \in [indices -> UNION {read(k) : k \in indices}] :
                                          \A k \in indices : f[k] \in read(k)}}
=============================================================================

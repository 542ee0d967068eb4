--------------------------- MODULE MCSurfaceStore ---------------------------
(***************************************************************************)
(* Clouds and grids small enough to enumerate what a few calls make of     *)
(* them, chosen for the layouts and numbers at which the code branches.    *)
(***************************************************************************)
EXTENDS SurfaceStore

Array(seq) == [i \in 0 .. Len(seq) - 1 |-> seq[i + 1]]

Cloud(points, normals, valid, unit) ==
    [points |-> Array(points), normals |-> Array(normals), valid |-> Array(valid),
     grid |-> {}, unit |-> unit, frame |-> "scan"]

Grid(width, height, stride, s) ==
    [s EXCEPT !.grid = {[width |-> width, height |-> height, row_stride |-> stride]}]

\* n points, at most two of them close together.
Spread(n) == [i \in 1 .. n |-> 2 * (i % 9) - 8]

MCInputs == {
    \* metres, one point masked, normals of any length and one missing
    Cloud(<<-1, 0, 1, 2>>, <<1, -1, 2, 0>>, <<1, 1, 0, 1>>, "meter"),
    \* micrometres; the masked point is not finite
    Cloud(<<-3, 8, NaN>>, <<>>, <<1, 1, 0>>, "micrometer"),
    \* a masked point that leaves the range of a float when scaled
    Cloud(<<6, 1>>, <<1, 1>>, <<0, 1>>, "meter"),
    \* close together, no normals: all of them can be estimated
    Cloud(<<0, 1, 1, 2>>, <<>>, <<>>, "millimeter"),
    \* padded rows; the padding holds neither a number nor a mask
    Grid(2, 2, 3, Cloud(<<-2, 1, NaN, 1, 2>>, <<1, 1, NaN, -1, -1>>, <<1, 1, 2, 1, 0>>, "millimeter")),
    Grid(3, 3, 4, Cloud(<<0, 1, 0, 9, 1, 1, 1, 9, 0, 1, 2>>, <<1, 1, 1, 0, 1, -1, 1, 0, 1, 1, 1>>, <<>>, "millimeter")),
    \* one row that is a grid
    Grid(3, 1, 3, Cloud(<<0, 1, 2>>, <<>>, <<>>, "meter")),
    \* the bytes of the only row do not fit 32 bits, nor do the points of these
    Cloud(<<-4, -2, 0, 2, 4, 6>>, <<1, 1, -1, 1, 1, 1>>, <<1, 1, 1, 0, 1, 1>>, "millimeter"),
    Cloud(Spread(16), <<>>, <<>>, "millimeter"),
    Cloud(Spread(17), <<>>, <<>>, "millimeter"),
    \* arrays that break the contract, and a unit that is no enumerator
    Cloud(<<NaN, 1>>, <<>>, <<1, 1>>, "millimeter"),
    Cloud(<<0, 1>>, <<1>>, <<>>, "millimeter"),
    Cloud(<<0, 1>>, <<>>, <<1, 1>>, "unknown")}

MCTranslations == {3, NaN}
MCRotations == {-1, 1, 2}
MCRois == {{}, {[minimum |-> -4, maximum |-> 1]}, {[minimum |-> 1, maximum |-> 0]}}
MCVoxelSizes == {0, 2, NaN}
MCHints == {[mode |-> "unproven", value |-> 0], [mode |-> "align_direction", value |-> -2],
            [mode |-> "toward_viewpoint", value |-> 1], [mode |-> "toward_viewpoint", value |-> 0]}

Foreign(normal, valid, samples) ==
    [xyz |-> "float32", normal |-> normal, valid |-> valid, width |-> 2, height |-> 1,
     point_step |-> 3, row_step |-> 6, samples |-> Array(samples)]
Point(x, n, v) == [x |-> x, n |-> n, v |-> v]
DoubleNormals == <<"float64", "float64", "float64">>

MCForeignFiles == {
    Foreign(NoNormals, "absent", <<Point(1, 0, 0), Point(NaN, 0, 0)>>),
    Foreign(FloatNormals, "absent", <<Point(1, 1, 0), Point(2, -1, 0)>>),
    Foreign(FloatNormals, "absent", <<Point(1, NaN, 0), Point(2, -1, 0)>>),
    Foreign(FloatNormals, "uint8", <<Point(1, NaN, 1), Point(2, -1, 0)>>),
    Foreign(NoNormals, "uint8", <<Point(1, 0, 2), Point(2, 0, 1)>>),
    Foreign(NoNormals, "int8", <<Point(1, 0, 1), Point(2, 0, 1)>>),
    Foreign(<<"float32", "float32", "absent">>, "absent", <<Point(1, 1, 0), Point(2, 1, 0)>>),
    Foreign(DoubleNormals, "absent", <<Point(1, 1, 0), Point(2, 1, 0)>>),
    [Foreign(NoNormals, "absent", <<>>) EXCEPT !.width = 0, !.row_step = 0],
    [Foreign(NoNormals, "absent", <<Point(1, 0, 0)>>) EXCEPT !.point_step = 0, !.row_step = 0],
    \* storage longer and shorter than the header says
    [Foreign(NoNormals, "absent", <<Point(1, 0, 0), Point(2, 0, 0)>>) EXCEPT !.width = 1, !.row_step = 3],
    [Foreign(NoNormals, "absent", <<Point(1, 0, 0), Point(2, 0, 0)>>) EXCEPT !.height = 2],
    [Foreign(NoNormals, "absent", <<Point(1, 0, 0), Point(2, 0, 0)>>) EXCEPT !.xyz = "float64"]}

MCEstimates == {-1, 0}
MCChanges == {[index |-> 0, point |-> NaN, valid |-> 1], [index |-> 1, point |-> 1, valid |-> 2]}
MCMisread == {0, 7, NaN}
=============================================================================

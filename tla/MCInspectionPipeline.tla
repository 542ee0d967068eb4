------------------------ MODULE MCInspectionPipeline ------------------------
(***************************************************************************)
(* A reference profile of two pairs of points, {1, 2} and {3, 4}, a single *)
(* point 5 and, close to it, a point 6 whose normal is missing.  A pair is *)
(* a cluster when both of its points are candidates.  The heights of a     *)
(* scan are chosen so that a point is flat (0), a bump to warn about (2),  *)
(* a bump at the reject limit (4), out of search range (6), a dent to warn *)
(* about (-3) or a dent to reject (-4).                                    *)
(***************************************************************************)
EXTENDS InspectionPipeline

AllValid == [i \in 1 .. 6 |-> TRUE]

MCReference == [x |-> <<0, 1, 6, 7, 11, 12>>, z |-> <<0, 0, 0, 0, 0, 0>>,
                normal |-> <<1, 1, 1, 1, 1, 0>>, valid |-> AllValid,
                logical |-> 1 .. 6, hasNormals |-> TRUE]

\* Slot 6 of a scan is row padding.
Scan(z) == [x |-> <<0, 1, 6, 7, 11, 12>>, z |-> z, normal |-> <<1, 1, 1, 1, 1, 0>>,
            valid |-> AllValid, logical |-> 1 .. 5, hasNormals |-> TRUE]

Flat == Scan(<<0, 0, 0, 0, 0, 0>>)

\* Both pairs displaced; points displaced one by one; masked points; flipped,
\* missing and absent normals; ties in the search; a scan beyond the capacity.
MCScans ==
    {Scan(<<a, a, b, b, 0, 0>>) : a \in {0, 4, 6}, b \in {0, 2, -3, -4, 6}}
    \union {Scan(<<6, 0, 0, 6, 6, 0>>), Scan(<<4, 0, 0, -4, 0, 0>>),
            [Scan(<<2, 2, 0, 0, 0, 0>>) EXCEPT !.valid[1] = FALSE],
            [Flat EXCEPT !.valid = [i \in 1 .. 6 |-> FALSE]],
            [Scan(<<2, 2, -3, -3, 0, 0>>) EXCEPT !.normal[1] = -1],
            [Flat EXCEPT !.normal = <<-1, -1, -1, -1, -1, 0>>],
            [Scan(<<6, 6, 6, 6, 0, 0>>) EXCEPT !.normal = <<-1, -1, -1, -1, 1, 0>>],
            [Scan(<<0, 0, 2, 2, 0, 0>>) EXCEPT !.normal[3] = 0],
            [Scan(<<0, 0, -4, -4, 6, 0>>) EXCEPT !.hasNormals = FALSE],
            [Scan(<<0, 0, 2, 0, 0, 0>>) EXCEPT !.x[3] = 3, !.x[2] = 9],
            [Flat EXCEPT !.logical = 1 .. 6, !.normal[6] = 1]}

MCNegativeThreshold == -2

MCBoundaries == {{}, {1}, {3, 4}}

MCEstimatedNormals == {<<1, 1, 1, 1, 1, 0>>, <<1, 0, -1, 1, 1, 0>>}

\* Every bound of the gate met exactly.
Good == [convergence |-> "converged", pairs |-> 4, fitness |-> 50, rmse |-> 2,
         translation |-> 3, rotation |-> 3, shift |-> 0]

MCSolutions == {Good, [Good EXCEPT !.shift = -2],
                [Good EXCEPT !.convergence = "not_converged"],
                [Good EXCEPT !.convergence = "degenerate_input", !.pairs = 0, !.fitness = 0],
                [Good EXCEPT !.pairs = 3],
                [Good EXCEPT !.fitness = 49],
                [Good EXCEPT !.rmse = 3, !.rotation = 4],
                [Good EXCEPT !.translation = 4],
                [Good EXCEPT !.rotation = 4]}
=============================================================================

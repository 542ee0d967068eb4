----------------------------- MODULE Comparison -----------------------------
(***************************************************************************)
(* The comparison fields of src/src/comparison: for every scan point a     *)
(* signed deviation from the reference or the reason why there is none,    *)
(* and for every reference point whether the scan covers it.               *)
(*                                                                         *)
(* Geometry is cut down to a profile: a point has an abscissa x and a      *)
(* height z, a normal is +1 or -1 (up or down) or 0 (missing).  A surface  *)
(* keeps the storage layout of the code: `logical' are the storage slots   *)
(* that are points, the other slots are row padding.                       *)
(***************************************************************************)
EXTENDS Integers, FiniteSets

CONSTANTS
    MaxSearch2,        \* max_search_distance_mm, squared
    MinCosine,         \* cos(max_normal_angle_deg), the angle being 0 or 90 degrees
    MinCoverage        \* min_valid_coverage_ratio, in hundredths

ASSUME ComparisonAssumption ==
    /\ MaxSearch2 \in Nat
    /\ MinCosine \in 0 .. 1
    /\ MinCoverage \in 0 .. 100

NoNeighbor == -1

Storage(s) == DOMAIN s.valid

\* The slots valid_at and for_each_logical_index let through.
Usable(s) == {i \in s.logical : s.valid[i]}

Square(n) == n * n
Distance2(s, i, r, j) == Square(s.x[i] - r.x[j]) + Square(s.z[i] - r.z[j])

\* Fault: the search distance is not enforced.
NearestUnlimited(tree, query, i) ==
    LET closest == {j \in Usable(tree) : \A k \in Usable(tree) :
                      Distance2(query, i, tree, j) <= Distance2(query, i, tree, k)}
    IN  IF i \in Usable(query) /\ closest # {} THEN closest ELSE {NoNeighbor}

\* nearest_neighbors: the reference points slot i of `query' may be paired
\* with.  The search tree holds the usable points only and breaks ties as it
\* likes; a pair beyond the limit is dropped.
Nearest(tree, query, i) ==
    LET closest == {j \in Usable(tree) : \A k \in Usable(tree) :
                      Distance2(query, i, tree, j) <= Distance2(query, i, tree, k)}
        within == {j \in closest : Distance2(query, i, tree, j) <= MaxSearch2}
    IN  IF i \in Usable(query) /\ within # {} THEN within ELSE {NoNeighbor}

\* Every way of breaking the ties.
Pairings(tree, query) ==
    LET tied == {i \in Storage(query) : Cardinality(Nearest(tree, query, i)) > 1}
        choices == {f \in [tied -> Storage(tree)] : \A i \in tied : f[i] \in Nearest(tree, query, i)}
    IN  {[i \in Storage(query) |-> IF i \in tied THEN f[i]
                                   ELSE CHOOSE j \in Nearest(tree, query, i) : TRUE] : f \in choices}

\* compute_deviation_field: the reason of scan slot i paired with j.
DeviationReason(reference, boundary, scan, i, j) ==
    IF i \notin Usable(scan) THEN "input_invalid"
    ELSE IF j = NoNeighbor THEN "no_neighbor"
    ELSE IF reference.normal[j] = 0 THEN "normal_missing"
    ELSE IF scan.normal[i] # 0 /\ reference.normal[j] * scan.normal[i] < MinCosine THEN "normal_mismatch"
    ELSE IF j \in boundary THEN "reference_boundary"
    ELSE "valid"

DeviationField(reference, boundary, scan, pairing) ==
    [i \in Storage(scan) |->
        LET reason == DeviationReason(reference, boundary, scan, i, pairing[i])
        IN  [reason |-> reason,
             signed |-> IF reason = "valid"
                        THEN reference.normal[pairing[i]] * (scan.z[i] - reference.z[pairing[i]])
                        ELSE 0]]

\* compute_coverage_field: the roles of the search are swapped.
CoverageField(reference, scan, boundary, pairing) ==
    [i \in Storage(reference) |->
        IF i \notin Usable(reference) THEN "input_invalid"
        ELSE IF pairing[i] = NoNeighbor THEN "no_neighbor"
        ELSE IF pairing[i] \in boundary THEN "scan_boundary"
        ELSE "covered"]

\* summarize_deviation and summarize_coverage: the counts the verdict uses.
ValidSamples(field) == {i \in DOMAIN field : field[i].reason = "valid"}
Covered(field) == {i \in DOMAIN field : field[i] = "covered"}
Countable(field) == {i \in DOMAIN field : field[i] # "input_invalid"}

\* coverage_ratio < min_valid_coverage_ratio; the ratio of nothing is zero.
CoverageBelow(field) ==
    IF Countable(field) = {} THEN 0 < MinCoverage
    ELSE 100 * Cardinality(Covered(field)) < MinCoverage * Cardinality(Countable(field))
=============================================================================

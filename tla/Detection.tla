----------------------------- MODULE Detection -----------------------------
(***************************************************************************)
(* Defect clusters and regions: src/src/detection and the severity rule of *)
(* the pipeline.  A cluster is given by what euclidean_cluster returns, a  *)
(* class of points chained by steps within the tolerance; EuclideanCluster *)
(* models how the code computes the classes.                               *)
(***************************************************************************)
EXTENDS Comparison

CONSTANTS
    PositiveThreshold,   \* positive_threshold_mm
    NegativeThreshold,   \* negative_threshold_mm
    ClusterTolerance2,   \* cluster_tolerance_mm, squared
    MinClusterPoints     \* min_cluster_points

ASSUME DetectionAssumption ==
    /\ PositiveThreshold \in Nat \ {0}
    /\ -NegativeThreshold \in Nat \ {0}
    /\ ClusterTolerance2 \in Nat \ {0}
    /\ MinClusterPoints \in Nat \ {0}

Bumps(field) == {i \in ValidSamples(field) : field[i].signed > PositiveThreshold}
Dents(field) == {i \in ValidSamples(field) : field[i].signed < NegativeThreshold}

\* Fault: whatever is not covered is missing, points left out of the mask too.
MissingUncovered(field) == {i \in DOMAIN field : field[i] # "covered"}
Missing(field) == {i \in DOMAIN field : field[i] = "no_neighbor"}

\* The candidates chained to c by steps of at most the tolerance.
Chained(s, candidates, c) ==
    {d \in candidates :
        \A S \in SUBSET candidates :
            (/\ c \in S
             /\ \A i \in S, j \in candidates : Distance2(s, i, s, j) <= ClusterTolerance2 => j \in S)
            => d \in S}

\* cluster_class and cluster_missing_material: the classes large enough.
Clusters(s, candidates, type) ==
    {[type |-> type, points |-> C] :
        C \in {P \in {Chained(s, candidates, c) : c \in candidates} :
                 Cardinality(P) >= MinClusterPoints}}

\* Iterating over an unordered_map: the clusters come in any order.
Orders(S) == {f \in [1 .. Cardinality(S) -> S] : \A a, b \in DOMAIN f : f[a] = f[b] => a = b}

AbsoluteDeviation(n) == IF n < 0 THEN -n ELSE n

\* build_region: the largest absolute deviation of the members, 0 for missing
\* material.
MaxAbs(cluster, field) ==
    IF cluster.type = "missing_material" THEN 0
    ELSE CHOOSE m \in {AbsoluteDeviation(field[i].signed) : i \in cluster.points} :
           \A i \in cluster.points : AbsoluteDeviation(field[i].signed) <= m

RejectLimit == 2 * (IF PositiveThreshold >= -NegativeThreshold THEN PositiveThreshold ELSE -NegativeThreshold)

\* default_severity
DefaultSeverity(type, maxAbs) ==
    IF type = "missing_material" \/ maxAbs >= RejectLimit THEN "reject" ELSE "warning"
=============================================================================

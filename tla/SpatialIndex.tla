---------------------------- MODULE SpatialIndex ----------------------------
(***************************************************************************)
(* The flat bounding-volume hierarchy the CUDA searches walk               *)
(* (src/src/backends/cuda/spatial_index.hpp): nodes in preorder, each with *)
(* its box, its slots, its least original index and an escape link past    *)
(* its subtree.                                                            *)
(*                                                                         *)
(* Points are pairs of small integers, distances are squared, and nothing  *)
(* is rounded.                                                             *)
(***************************************************************************)
EXTENDS Integers, Sequences, FiniteSets, FiniteSetsExt

CONSTANT LeafCapacity   \* leaf_capacity (16)

ASSUME LeafAssumption == LeafCapacity \in Nat \ {0}

Square(n) == n * n
Distance2(p, q) == Square(p[1] - q[1]) + Square(p[2] - q[2])

-----------------------------------------------------------------------------
\* build_spatial_index over reference points ref.  The order nth_element leaves
\* inside a half does not matter: halves are split by value again and leaves
\* are sorted.

Lower(ref, S, axis) == Min({ref[i][axis] : i \in S})
Upper(ref, S, axis) == Max({ref[i][axis] : i \in S})

\* The wider axis, the first one on a tie.
SplitAxis(ref, S) == IF Upper(ref, S, 2) - Lower(ref, S, 2) > Upper(ref, S, 1) - Lower(ref, S, 1)
                     THEN 2 ELSE 1

\* The first half of S ordered by coordinate, then by original index.
FirstHalf(ref, S) ==
    LET axis == SplitAxis(ref, S)
        before(i, j) == ref[i][axis] < ref[j][axis] \/ (ref[i][axis] = ref[j][axis] /\ i < j)
    IN  {i \in S : Cardinality({j \in S : before(j, i)}) < Cardinality(S) \div 2}

SortedIndices(S) == [k \in 1 .. Cardinality(S) |->
                       CHOOSE i \in S : Cardinality({j \in S : j < i}) = k - 1]

RECURSIVE Packing(_, _)
Packing(ref, S) ==
    IF Cardinality(S) <= LeafCapacity THEN SortedIndices(S)
    ELSE Packing(ref, FirstHalf(ref, S)) \o Packing(ref, S \ FirstHalf(ref, S))

Node(ref, S, begin, count, escape) ==
    [lower |-> <<Lower(ref, S, 1), Lower(ref, S, 2)>>, upper |-> <<Upper(ref, S, 1), Upper(ref, S, 2)>>,
     begin |-> begin, count |-> count, escape |-> escape, minimum_index |-> Min(S)]

\* Fault: the escape link of an inner node leads to its second child.
RECURSIVE BuildShortEscape(_, _, _, _)
BuildShortEscape(ref, S, begin, at) ==
    IF Cardinality(S) <= LeafCapacity THEN <<Node(ref, S, begin, Cardinality(S), at + 1)>>
    ELSE LET half == FirstHalf(ref, S)
             left == BuildShortEscape(ref, half, begin, at + 1)
             right == BuildShortEscape(ref, S \ half, begin + Cardinality(half), at + 1 + Len(left))
         IN  <<Node(ref, S, begin, 0, at + 1 + Len(left))>> \o left \o right

\* The subtree of S in preorder, its first point at slot begin and its root at
\* position at; an inner node has count 0.
RECURSIVE Build(_, _, _, _)
Build(ref, S, begin, at) ==
    IF Cardinality(S) <= LeafCapacity THEN <<Node(ref, S, begin, Cardinality(S), at + 1)>>
    ELSE LET half == FirstHalf(ref, S)
             left == Build(ref, half, begin, at + 1)
             right == Build(ref, S \ half, begin + Cardinality(half), at + 1 + Len(left))
         IN  <<Node(ref, S, begin, 0, at + 1 + Len(left) + Len(right))>> \o left \o right

\* Squared distance from a query point to the box of a node.
Outside(query, axis, node) ==
    IF query[axis] < node.lower[axis] THEN node.lower[axis] - query[axis]
    ELSE IF query[axis] > node.upper[axis] THEN query[axis] - node.upper[axis] ELSE 0
LowerDistance(query, node) == Square(Outside(query, 1, node)) + Square(Outside(query, 2, node))

-----------------------------------------------------------------------------
\* What the traversals rely on: an escape link leads past exactly the subtree,
\* leaves tile the slots in order, boxes are tight, minimum_index is the least
\* index below, and packing is a permutation.
WellFormed(ref, nodes, packed) ==
    LET below(k) == k .. nodes[k].escape
        slots(k) == UNION {nodes[m].begin .. nodes[m].begin + nodes[m].count - 1 : m \in below(k)}
        points(k) == {packed[s + 1] : s \in slots(k)}
    IN  /\ {packed[s] : s \in DOMAIN packed} = DOMAIN ref /\ Len(packed) = Cardinality(DOMAIN ref)
        /\ nodes[1].escape = Len(nodes)
        /\ \A k \in DOMAIN nodes :
              /\ \A m \in below(k) : nodes[m].escape <= nodes[k].escape
              /\ nodes[k].count = 0 =>
                    /\ nodes[k + 1].escape < nodes[k].escape
                    /\ nodes[nodes[k + 1].escape + 1].escape = nodes[k].escape
              /\ nodes[k].minimum_index = Min(points(k))
              /\ \A axis \in 1 .. 2 : /\ nodes[k].lower[axis] = Lower(ref, points(k), axis)
                                      /\ nodes[k].upper[axis] = Upper(ref, points(k), axis)
=============================================================================

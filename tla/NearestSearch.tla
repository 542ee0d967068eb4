---------------------------- MODULE NearestSearch ----------------------------
(***************************************************************************)
(* The three correspondence searches of registration: the CPU search over  *)
(* a k-d tree (Search::query of pcl_registration_backend.cpp), the CUDA    *)
(* kernel over the flat bounding-volume hierarchy of spatial_index.hpp     *)
(* (indexed_nearest_kernel) and the exhaustive tiled kernel kept as its    *)
(* oracle (nearest_kernel).  Each runs the loop of one query point; the    *)
(* threads of a kernel and the blocks of the executor share no state.      *)
(*                                                                         *)
(* Points are pairs of small integers, distances are squared, and nothing  *)
(* is rounded: single precision coordinates and their double precision     *)
(* distances are outside this model.                                       *)
(***************************************************************************)
EXTENDS SpatialIndex

CONSTANTS
    Locations,      \* where reference points may be
    Queries,        \* where the query point may be
    Count,          \* number of reference points
    Bounds          \* squared search radii

ASSUME SearchAssumption ==
    /\ Locations \subseteq Int \X Int
    /\ Queries \subseteq Int \X Int
    /\ Count \in Nat \ {0}
    /\ Bounds \subseteq Nat

Indices == 0 .. Count - 1
NoIndex == -1

VARIABLES
    reference,      \* the reference points, by original index
    nodes, packed,  \* the index: nodes in preorder, original indices by slot
    query, bound,   \* the query point and the squared radius
    engine,         \* "indexed", "tiled" or "cpu"
    cursor,         \* node, tile position or candidates the loop is at
    slot,           \* position inside the current leaf
    best, best_index

vars == <<reference, nodes, packed, query, bound, engine, cursor, slot, best, best_index>>

-----------------------------------------------------------------------------
Init == /\ reference \in [Indices -> Locations]
        /\ nodes = Build(reference, Indices, 0, 0)
        /\ packed = Packing(reference, Indices)
        /\ query \in Queries
        /\ bound \in Bounds
        /\ engine \in {"indexed", "tiled", "cpu"}
        /\ cursor = IF engine = "cpu" THEN Indices ELSE {0}
        /\ slot = 0
        /\ best = bound
        /\ best_index = NoIndex

\* Sets make one type of the three cursors.
At == CHOOSE c \in cursor : TRUE
NodeAt == nodes[At + 1]
Original(s) == packed[s + 1]

\* The radius is inclusive and the lower original index wins a tie.
Consider(i) ==
    LET distance == Distance2(query, reference[i])
        better == distance < best \/ (distance = best /\ (best_index = NoIndex \/ i < best_index))
    IN  /\ best' = IF better THEN distance ELSE best
        /\ best_index' = IF better THEN i ELSE best_index

\* Fault: a box at exactly the best distance is skipped.
SkippableEager(node) == LowerDistance(query, node) >= best

\* A subtree is skipped when it is farther than the best, or as far and with
\* no lower index to offer.
Skippable(node) == \/ LowerDistance(query, node) > best
                   \/ /\ LowerDistance(query, node) = best
                      /\ best_index # NoIndex
                      /\ node.minimum_index >= best_index

Running == CASE engine = "indexed" -> At < Len(nodes)
             [] engine = "tiled"   -> At < Count
             [] engine = "cpu"     -> cursor # {}

\* indexed_nearest_kernel
Skip == /\ engine = "indexed" /\ Running
        /\ slot = 0
        /\ Skippable(NodeAt)
        /\ cursor' = {NodeAt.escape}
        /\ UNCHANGED <<reference, nodes, packed, query, bound, engine, slot, best, best_index>>

Descend == /\ engine = "indexed" /\ Running
           /\ slot = 0
           /\ ~Skippable(NodeAt)
           /\ NodeAt.count = 0
           /\ cursor' = {At + 1}
           /\ UNCHANGED <<reference, nodes, packed, query, bound, engine, slot, best, best_index>>

\* One point of a leaf; slot counts the points of the leaf already looked at.
Leaf == /\ engine = "indexed" /\ Running
        /\ slot = 0 => ~Skippable(NodeAt)
        /\ slot < NodeAt.count
        /\ Consider(Original(NodeAt.begin + slot))
        /\ IF slot + 1 < NodeAt.count THEN slot' = slot + 1 /\ UNCHANGED cursor
           ELSE slot' = 0 /\ cursor' = {NodeAt.escape}
        /\ UNCHANGED <<reference, nodes, packed, query, bound, engine>>

\* Fault: the last of equals wins.
TileLast == /\ engine = "tiled" /\ Running
            /\ LET distance == Distance2(query, reference[At])
               IN  /\ best' = IF distance <= best THEN distance ELSE best
                   /\ best_index' = IF distance <= best THEN At ELSE best_index
            /\ cursor' = {At + 1}
            /\ UNCHANGED <<reference, nodes, packed, query, bound, engine, slot>>

\* nearest_kernel: all points in order, so the first of equals is the lowest.
Tile == /\ engine = "tiled" /\ Running
        /\ LET distance == Distance2(query, reference[At])
               better == distance < best \/ (distance = best /\ best_index = NoIndex)
           IN  /\ best' = IF better THEN distance ELSE best
               /\ best_index' = IF better THEN At ELSE best_index
        /\ cursor' = {At + 1}
        /\ UNCHANGED <<reference, nodes, packed, query, bound, engine, slot>>

\* Search::query: the candidates of the radius search around the nearest
\* neighbour, in any order; points that are strictly farther may be among
\* them or not.
Candidate(i) ==
    /\ engine = "cpu" /\ Running
    /\ i \in cursor
    /\ \/ Consider(i)
       \/ /\ \E j \in Indices : Distance2(query, reference[j]) < Distance2(query, reference[i])
          /\ UNCHANGED <<best, best_index>>
    /\ cursor' = cursor \ {i}
    /\ UNCHANGED <<reference, nodes, packed, query, bound, engine, slot>>

Next == Skip \/ Descend \/ Leaf \/ Tile \/ \E i \in Indices : Candidate(i)

Spec == Init /\ [][Next]_vars

-----------------------------------------------------------------------------
\* Properties

\* Every variable stays in its range; the reads of nodes stay inside.
TypeOK == /\ best \in 0 .. bound
          /\ best_index \in Indices \union {NoIndex}
          /\ cursor \subseteq 0 .. (IF engine = "indexed" THEN Len(nodes) ELSE Count)
          /\ slot \in 0 .. LeafCapacity - 1

\* What a search is for: the nearest point within the radius, the lowest
\* original index among equals, or none.
Expected ==
    LET within == {i \in Indices : Distance2(query, reference[i]) <= bound}
        nearest == {i \in within : \A j \in within :
                      Distance2(query, reference[i]) <= Distance2(query, reference[j])}
    IN  IF nearest = {} THEN NoIndex ELSE Min(nearest)

\* The three searches give the same, exact answer.
NearestExact == ~Running => best_index = Expected

\* Branch and bound is safe at every step: the traversal stays inside the index,
\* and no point it has passed, whether looked at or skipped with its subtree,
\* beats the best so far.
PassedNoBetter ==
  /\ TypeOK
  /\ engine = "indexed" =>
      LET passed == IF Running THEN NodeAt.begin + slot ELSE Count
      IN  \A s \in 0 .. passed - 1 :
            LET distance == Distance2(query, reference[Original(s)])
            IN  \/ distance > best
                \/ distance = best /\ best_index # NoIndex /\ best_index <= Original(s)

\* The index is well formed: an escape link leads past exactly the subtree,
\* leaves tile the slots in order, boxes are tight, minimum_index is the least
\* index below, and packing is a permutation.
IndexWellFormed == WellFormed(reference, nodes, packed)

=============================================================================

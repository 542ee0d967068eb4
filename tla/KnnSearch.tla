------------------------------ MODULE KnnSearch ------------------------------
(***************************************************************************)
(* The neighbourhoods GICP estimates its covariances from: the k nearest   *)
(* reference points of each reference point, itself included.  On the      *)
(* device exact_knn walks the index with a stack of deferred subtrees and  *)
(* covariance_kernel orders the row it leaves; on the CPU                  *)
(* estimate_covariances asks a k-d tree twice.  One thread of a kernel, or *)
(* one iteration of the CPU loop, is modelled: they share no state.        *)
(***************************************************************************)
EXTENDS SpatialIndex, SequencesExt

CONSTANTS
    Locations,      \* where reference points may be
    Count,          \* number of reference points
    Neighbors       \* values of k

ASSUME KnnAssumption == /\ Locations \subseteq Int \X Int
                        /\ Count \in Nat \ {0}
                        /\ Neighbors \subseteq 1 .. Count

Indices == 0 .. Count - 1

VARIABLES
    reference,      \* the reference points, by original index
    nodes, packed,  \* the index
    engine,         \* "gpu" or "cpu"
    point, k,       \* whose neighbours, and how many
    pending,        \* the stack of subtrees to visit
    leaf, slot,     \* slots of the current leaf, and the next of them
    rows,           \* ds and ids: neighbours so far, as <<distance, index>>
    covariance      \* the indices a covariance is computed from, in order

input == <<reference, nodes, packed, engine, point, k>>
vars == <<input, pending, leaf, slot, rows, covariance>>

None == <<>>
Distance(i) == Distance2(reference[point], reference[i])
\* The order of neighbours: nearer first, the lower index among equals.
Before(a, b) == a[1] < b[1] \/ (a[1] = b[1] /\ a[2] < b[2])

Init == /\ reference \in [Indices -> Locations]
        /\ nodes = Build(reference, Indices, 0, 0)
        /\ packed = Packing(reference, Indices)
        /\ engine \in {"gpu", "cpu"}
        /\ point \in Indices
        /\ k \in Neighbors
        /\ pending = <<0>>
        /\ leaf = 0 .. -1 /\ slot = 0
        /\ rows = <<>>
        /\ covariance = None

-----------------------------------------------------------------------------
\* exact_knn

Scanning == slot \in leaf
Popping == engine = "gpu" /\ ~Scanning /\ pending # <<>>
Cursor == Last(pending)
Bound(node) == LowerDistance(reference[point], node)

\* Fault: a subtree at exactly the distance of the last row is dropped.
PrunableEager(node) == Len(rows) = k /\ Bound(node) >= rows[k][1]

\* With k rows, a subtree that is farther than the last, or as far and with no
\* lower index.
Prunable(node) == Len(rows) = k /\ ~Before(<<Bound(node), node.minimum_index>>, rows[k])

Prune == /\ Popping
         /\ Prunable(nodes[Cursor + 1])
         /\ pending' = Front(pending)
         /\ UNCHANGED <<input, leaf, slot, rows, covariance>>

\* Fault: the children are put under the subtrees that wait already.
DeferredBelow(stack, near, far) == <<far, near>> \o stack

\* Both children wait, the nearer on top.
Deferred(stack, near, far) == stack \o <<far, near>>

\* The second child follows the subtree of the first.
Expand == /\ Popping
          /\ LET node == nodes[Cursor + 1]
                 first == Cursor + 1
                 second == nodes[first + 1].escape
             IN  /\ ~Prunable(node)
                 /\ node.count = 0
                 /\ pending' = IF Bound(nodes[first + 1]) <= Bound(nodes[second + 1])
                               THEN Deferred(Front(pending), first, second)
                               ELSE Deferred(Front(pending), second, first)
          /\ UNCHANGED <<input, leaf, slot, rows, covariance>>

EnterLeaf == /\ Popping
             /\ LET node == nodes[Cursor + 1]
                IN  /\ ~Prunable(node)
                    /\ node.count # 0
                    /\ leaf' = node.begin .. node.begin + node.count - 1
                    /\ slot' = node.begin
             /\ pending' = Front(pending)
             /\ UNCHANGED <<input, rows, covariance>>

\* A row is inserted behind the last one that is not after it; of k rows the
\* last falls out.
Inserted(row) ==
    LET kept == IF Len(rows) = k THEN Front(rows) ELSE rows
        position == Max({0} \union {p \in DOMAIN kept : ~Before(row, kept[p])})
    IN  IF Len(rows) = k /\ ~Before(row, rows[k]) THEN rows ELSE InsertAt(kept, position + 1, row)

\* One point of the leaf.
Scan == /\ engine = "gpu" /\ Scanning
        /\ LET i == packed[slot + 1] IN rows' = Inserted(<<Distance(i), i>>)
        /\ slot' = slot + 1
        /\ UNCHANGED <<input, pending, leaf, covariance>>

\* Fault: the row is used in the order of the search.
CovarianceUnsorted ==
    /\ engine = "gpu" /\ ~Scanning /\ pending = <<>> /\ covariance = None
    /\ covariance' = [p \in DOMAIN rows |-> rows[p][2]]
    /\ UNCHANGED <<input, pending, leaf, slot, rows>>

\* covariance_kernel: its insertion sort orders the row by index.
Covariance == /\ engine = "gpu" /\ ~Scanning /\ pending = <<>> /\ covariance = None
              /\ covariance' = SortSeq([p \in DOMAIN rows |-> rows[p][2]], <)
              /\ UNCHANGED <<input, pending, leaf, slot, rows>>

-----------------------------------------------------------------------------
\* estimate_covariances

\* The first k of the candidates in the order of neighbours.
FirstK(ties) == LET row(i) == <<Distance(i), i>>
                IN  {i \in ties : Cardinality({j \in ties : Before(row(j), row(i))}) < k}

Reached(radius) == {i \in Indices : Distance(i) <= radius}

\* The k-d tree (external) gives the distance of the k-th neighbour; the radius
\* search around it, with its slack, reaches that far or somewhat farther.
Estimate == /\ engine = "cpu" /\ covariance = None
            /\ \E radius \in {Distance(i) : i \in Indices} :
                 /\ Cardinality(Reached(radius)) >= k
                 /\ covariance' = SortedIndices(FirstK(Reached(radius)))
            /\ UNCHANGED <<input, pending, leaf, slot, rows>>

Next == Prune \/ Expand \/ EnterLeaf \/ Scan \/ Covariance \/ Estimate

Spec == Init /\ [][Next]_vars

-----------------------------------------------------------------------------
\* Properties

\* The stack names nodes, so that `cursor >= node_count' never happens.
TypeOK == /\ \A p \in DOMAIN pending : pending[p] \in 0 .. Len(nodes) - 1
          /\ leaf \subseteq 0 .. Count - 1 /\ slot \in 0 .. Count
          /\ Len(rows) <= k
          /\ \A p \in DOMAIN rows : rows[p][2] \in Indices

\* Both backends compute a covariance from the same k indices in the same
\* order: the k nearest, lower indices first among equals, sorted.
SameNeighborhood ==
    LET row(i) == <<Distance(i), i>>
        nearest == {i \in Indices : Cardinality({j \in Indices : Before(row(j), row(i))}) < k}
    IN  covariance # None => covariance = SortedIndices(nearest)

Slots(c) == UNION {nodes[m].begin .. nodes[m].begin + nodes[m].count - 1 : m \in c + 1 .. nodes[c + 1].escape}

\* Nothing is lost or met twice: subtrees on the stack and the rest of the
\* current leaf are disjoint, and any other point either is a row or comes
\* after k rows.
VisitedOnce ==
    engine = "gpu" =>
      LET rest == {s \in leaf : s >= slot}
          waiting == rest \union UNION {Slots(pending[p]) : p \in DOMAIN pending}
      IN  /\ \A p, q \in DOMAIN pending : p # q => Slots(pending[p]) \intersect Slots(pending[q]) = {}
          /\ \A p \in DOMAIN pending : Slots(pending[p]) \intersect rest = {}
          /\ \A s \in 0 .. Count - 1 \ waiting :
               LET i == packed[s + 1]
               IN  \/ \E p \in DOMAIN rows : rows[p] = <<Distance(i), i>>
                   \/ Len(rows) = k /\ ~Before(<<Distance(i), i>>, rows[k])

\* The levels of the tree over n points: it halves them until a leaf is left.
Depth == CHOOSE d \in 0 .. Count : /\ LeafCapacity * 2 ^ d >= Count
                                   /\ d > 0 => LeafCapacity * 2 ^ (d - 1) < Count

\* "the stack holds at most one deferred sibling per level": one entry more
\* than there are levels is never exceeded, so pending[64] is enough.
StackBounded == TypeOK /\ Len(pending) <= Depth + 1

=============================================================================

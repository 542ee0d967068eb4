-------------------------- MODULE EuclideanCluster --------------------------
(***************************************************************************)
(* euclidean_cluster of src/src/backends/pcl/pcl_cluster_backend.cpp:      *)
(* candidates within the tolerance of each other are united in a           *)
(* union-find forest and the trees are then labelled in candidate order.   *)
(*                                                                         *)
(* The radius search is external.  It is given by the relation it answers, *)
(* any reflexive and symmetric relation, and returns the neighbours of a   *)
(* candidate in any order.                                                 *)
(***************************************************************************)
EXTENDS Integers, FiniteSets

CONSTANT Count      \* candidate_indices.size()

ASSUME ClusterAssumption == Count \in Nat

Candidates == 0 .. Count - 1

VARIABLES
    near,           \* near[i] is what radiusSearch returns for candidate i
    pc,             \* "unite", "label" or "done"
    candidate,      \* the loop variable
    todo,           \* neighbours of the candidate not yet united with it
    parent_, rank_, \* the forest
    root_to_label, labels

vars == <<near, pc, candidate, todo, parent_, rank_, root_to_label, labels>>

Pairs == {p \in SUBSET Candidates : Cardinality(p) = 2}
Relations == {[i \in Candidates |-> {i} \union {j \in Candidates : {i, j} \in E}] : E \in SUBSET Pairs}

Init == /\ near \in Relations
        /\ pc = "unite"
        /\ candidate = 0
        /\ todo = IF Count = 0 THEN {} ELSE near[0]
        /\ parent_ = [i \in Candidates |-> i]
        /\ rank_ = [i \in Candidates |-> 0]
        /\ root_to_label = [i \in {} |-> 0]
        /\ labels = [i \in Candidates |-> -1]

\* The way from v to the root of its tree.
Ancestor(v) == LET up[k \in 0 .. Count] == IF k = 0 THEN v ELSE parent_[up[k - 1]] IN up
Path(v) == {Ancestor(v)[k] : k \in 0 .. Count}
Root(v) == CHOOSE r \in Path(v) : parent_[r] = r

\* The forest after find has been called for each of vs: every candidate on
\* their paths has become a child of its root.
Compressed(vs) == [i \in Candidates |-> IF \E v \in vs : i \in Path(v) THEN Root(i) ELSE parent_[i]]

\* Fault: trees of equal rank are left alone.
LinkUnequal(l, r, parent) ==
    /\ parent_' = IF rank_[l] < rank_[r] THEN [parent EXCEPT ![l] = r]
                  ELSE IF rank_[l] > rank_[r] THEN [parent EXCEPT ![r] = l] ELSE parent
    /\ UNCHANGED rank_

\* Fault: the rank grows with every link.
LinkEager(l, r, parent) ==
    IF l = r THEN parent_' = parent /\ UNCHANGED rank_
    ELSE IF rank_[l] < rank_[r]
         THEN parent_' = [parent EXCEPT ![l] = r] /\ rank_' = [rank_ EXCEPT ![r] = @ + 1]
         ELSE parent_' = [parent EXCEPT ![r] = l] /\ rank_' = [rank_ EXCEPT ![l] = @ + 1]

\* unite, once both roots are found: the lower tree goes below the higher.
Link(l, r, parent) ==
    IF l = r THEN parent_' = parent /\ UNCHANGED rank_
    ELSE IF rank_[l] < rank_[r] THEN parent_' = [parent EXCEPT ![l] = r] /\ UNCHANGED rank_
    ELSE IF rank_[l] > rank_[r] THEN parent_' = [parent EXCEPT ![r] = l] /\ UNCHANGED rank_
    ELSE /\ parent_' = [parent EXCEPT ![r] = l]
         /\ rank_' = [rank_ EXCEPT ![l] = @ + 1]

\* unite(candidate, neighbor)
Unite(neighbor) == Link(Root(candidate), Root(neighbor), Compressed({candidate, neighbor}))

\* The inner loop over the neighbours, in the order the search gave them.
UniteNext ==
    /\ pc = "unite"
    /\ \E neighbor \in todo :
          /\ Unite(neighbor)
          /\ todo' = todo \ {neighbor}
    /\ UNCHANGED <<near, pc, candidate, root_to_label, labels>>

NextCandidate ==
    /\ pc = "unite"
    /\ todo = {}
    /\ IF candidate < Count - 1
       THEN candidate' = candidate + 1 /\ todo' = near[candidate + 1] /\ UNCHANGED pc
       ELSE candidate' = 0 /\ pc' = "label" /\ UNCHANGED todo
    /\ UNCHANGED <<near, parent_, rank_, root_to_label, labels>>

Labelling(root, label) ==
    /\ pc = "label"
    /\ candidate < Count
    /\ root_to_label' = [r \in DOMAIN root_to_label \union {root} |->
                           IF r \in DOMAIN root_to_label THEN root_to_label[r] ELSE label]
    /\ labels' = [labels EXCEPT ![candidate] = root_to_label'[root]]
    /\ parent_' = Compressed({candidate})
    /\ candidate' = candidate + 1
    /\ UNCHANGED <<near, pc, todo, rank_>>

\* One round of the labelling loop; a new root takes the next label.
Label == Labelling(Root(candidate), Cardinality(DOMAIN root_to_label))

Return ==
    /\ pc = "label"
    /\ candidate = Count
    /\ pc' = "done"
    /\ UNCHANGED <<near, candidate, todo, parent_, rank_, root_to_label, labels>>

Next == UniteNext \/ NextCandidate \/ Label \/ Return

Spec == Init /\ [][Next]_vars

-----------------------------------------------------------------------------
\* Properties

\* Every variable stays in its range; there are at most Count labels.
TypeOK == /\ near \in [Candidates -> SUBSET Candidates]
          /\ pc \in {"unite", "label", "done"}
          /\ candidate \in 0 .. Count
          /\ todo \subseteq Candidates
          /\ parent_ \in [Candidates -> Candidates]
          /\ rank_ \in [Candidates -> 0 .. Count]
          /\ labels \in [Candidates -> {-1} \union Candidates]

\* Candidates joined by a chain of neighbours.
Chained(i) == {j \in Candidates :
                 \A S \in SUBSET Candidates :
                    (i \in S /\ \A k \in S : near[k] \subseteq S) => j \in S}

\* Power[k] is 2 to the power of k.
Power[k \in 0 .. Count] == IF k = 0 THEN 1 ELSE 2 * Power[k - 1]

\* The forest stays sound, also after path compression: ranks grow towards the
\* root, so there is no cycle and every find terminates; a root of rank k holds
\* at least 2^k candidates, which bounds the depth of the recursive find.
ForestShallow ==
    /\ TypeOK
    /\ \A i \in Candidates : parent_[i] # i => rank_[i] < rank_[parent_[i]]
    /\ \A r \in Candidates : parent_[r] = r =>
          Power[rank_[r]] <= Cardinality({i \in Candidates : Root(i) = r})

\* In the end two candidates have the same label if and only if a chain of
\* neighbours joins them, and labels count from 0 in the order in which the
\* classes first occur: they do not depend on the order of the neighbours.
LabelsExact ==
    pc = "done" =>
      /\ \A i, j \in Candidates : labels[i] = labels[j] <=> j \in Chained(i)
      /\ \A i \in Candidates :
            labels[i] = Cardinality({labels[j] : j \in {k \in Candidates : \A l \in Chained(i) : k < l}})

=============================================================================

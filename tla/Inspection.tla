----------------------------- MODULE Inspection -----------------------------
(***************************************************************************)
(* What an inspection promises its caller, without its stages: a request   *)
(* is either refused or answered by a report that follows from the         *)
(* evidence, i.e. the submitted scan with its normals, moved by the pose   *)
(* the registration found.  InspectionPipeline implements it.              *)
(***************************************************************************)
EXTENDS Detection, Sequences

CONSTANTS
    Reference, Scans, Boundaries, EstimatedNormals, Solutions, Capacity,
    MinValidPairs, MinOverlap, MaxRmse, MaxTranslation, MaxRotation

VARIABLES
    context,    \* the InspectionContext: "none", "ready" or "moved_from"
    phase,      \* "idle", "asked", "settled" or "answered"
    request,    \* the request being worked on
    edges,      \* boundary flags of the reference
    evidence,   \* scan, its boundary flags and the metrics, once settled
    answer      \* what the caller gets

vars == <<context, phase, request, edges, evidence, answer>>

Nothing == [kind |-> "none"]
Failure == [kind |-> "error"]

Init == /\ context = "none"
        /\ phase = "idle"
        /\ request = Nothing
        /\ edges \in Boundaries
        /\ evidence = Nothing
        /\ answer = Nothing

-----------------------------------------------------------------------------
Answer(a) == /\ phase' = "answered"
             /\ answer' = a
             /\ evidence' = Nothing

Open == /\ phase = "idle"
        /\ context # "ready"
        /\ \/ context' = "ready" /\ UNCHANGED <<phase, answer, evidence>>
           \/ Answer(Failure) /\ UNCHANGED context
        /\ UNCHANGED <<request, edges>>

Move == /\ phase = "idle"
        /\ context = "ready"
        /\ context' = "moved_from"
        /\ UNCHANGED <<phase, request, edges, evidence, answer>>

Refused(r) == r.cached /\ (context = "moved_from" \/ Cardinality(r.scan.logical) > Capacity)

Ask(r) == /\ phase = "idle"
          /\ r.cached => context # "none"
          /\ request' = r
          /\ IF Refused(r) THEN Answer(Failure) ELSE phase' = "asked" /\ UNCHANGED <<answer, evidence>>
          /\ UNCHANGED <<context, edges>>

\* Any stage may fail; the caller then gets an error and nothing else.
Fail == /\ phase \in {"asked", "settled"}
        /\ Answer(Failure)
        /\ UNCHANGED <<context, request, edges>>

\* The scan as it is compared: points keep their slot, move by the pose, and
\* count only if they were valid and have a normal.
Examined(s, n, m) == [s EXCEPT !.z = [i \in Storage(s) |-> s.z[i] + m.shift],
                               !.normal = n,
                               !.valid = [i \in Storage(s) |-> s.valid[i] /\ n[i] # 0]]

Settle == /\ phase = "asked"
          /\ request.pose # "mismatched"
          /\ \E n \in IF request.scan.hasNormals THEN {request.scan.normal} ELSE EstimatedNormals,
                e \in Boundaries, m \in Solutions :
                evidence' = [kind |-> "evidence", scan |-> Examined(request.scan, n, m), edges |-> e, metrics |-> m]
          /\ phase' = "settled"
          /\ UNCHANGED <<context, request, edges, answer>>

-----------------------------------------------------------------------------
\* The bounds of the registration gate, in the order of their names.
GateNames == <<"not_converged", "insufficient_pairs", "insufficient_overlap",
               "excessive_residual", "translation_prior", "rotation_prior">>
Holds(m) == <<m.convergence = "converged", m.pairs >= MinValidPairs, m.fitness >= MinOverlap,
              m.rmse <= MaxRmse, m.translation <= MaxTranslation, m.rotation <= MaxRotation>>
WithinGate(m) == \A k \in DOMAIN GateNames : Holds(m)[k]
FirstBroken(m) == CHOOSE k \in DOMAIN GateNames :
                    ~Holds(m)[k] /\ \A j \in 1 .. k - 1 : Holds(m)[j]

PoseNote == IF request.pose = "absent" THEN <<"invalid_input">> ELSE <<>>

\* A registration outside its gate is reported, and nothing is compared.
Reject == /\ phase = "settled"
          /\ ~WithinGate(evidence.metrics)
          /\ Answer([kind |-> "report", report |->
                [verdict |-> "indeterminate", gate |-> GateNames[FirstBroken(evidence.metrics)],
                 diagnostics |-> Append(PoseNote, "registration_failed"), regions |-> <<>>,
                 timings |-> <<"normalize", "preprocess", "registration">>, finalPose |-> TRUE]])
          /\ UNCHANGED <<context, request, edges>>

Compared == [Reference EXCEPT !.valid = [i \in Storage(Reference) |-> Reference.valid[i] /\ Reference.normal[i] # 0]]

Types == <<"bump", "dent", "missing_material">>
Rank(type) == CHOOSE k \in DOMAIN Types : Types[k] = type

\* The connected groups of points beyond a threshold or not covered.
Defects(deviation, coverage) ==
           Clusters(evidence.scan, Bumps(deviation), "bump")
    \union Clusters(evidence.scan, Dents(deviation), "dent")
    \union Clusters(Compared, Missing(coverage), "missing_material")

Largest(defect, deviation) == MaxAbs(defect, deviation)
Severe(defect, deviation) == \/ defect.type = "missing_material"
                             \/ \E i \in defect.points : AbsoluteDeviation(deviation[i].signed) >= RejectLimit

\* Every defect once, bumps before dents before missing material; ids count
\* from zero.
Listings(deviation, coverage) ==
    {[k \in DOMAIN o |->
        [id |-> k - 1, type |-> o[k].type, points |-> o[k].points, maxAbs |-> Largest(o[k], deviation),
         severity |-> IF Severe(o[k], deviation) THEN "reject" ELSE "warning"]] :
       o \in {p \in Orders(Defects(deviation, coverage)) :
                \A j, k \in DOMAIN p : j < k => Rank(p[j].type) <= Rank(p[k].type)}}

\* PASS and FAIL need enough coverage and at least one valid sample; FAIL
\* means a severe defect, PASS that there is none.
Judgement(deviation, coverage) ==
    IF CoverageBelow(coverage) \/ ValidSamples(deviation) = {} THEN "indeterminate"
    ELSE IF \E d \in Defects(deviation, coverage) : Severe(d, deviation) THEN "fail" ELSE "pass"

Judge == /\ phase = "settled"
         /\ WithinGate(evidence.metrics)
         /\ \E f \in Pairings(Compared, evidence.scan), g \in Pairings(evidence.scan, Compared) :
              LET deviation == DeviationField(Compared, edges, evidence.scan, f)
                  coverage == CoverageField(Compared, evidence.scan, evidence.edges, g)
              IN  \E regions \in Listings(deviation, coverage) :
                    Answer([kind |-> "report", report |->
                      [verdict |-> Judgement(deviation, coverage), gate |-> "none", regions |-> regions,
                       diagnostics |-> IF CoverageBelow(coverage) THEN Append(PoseNote, "insufficient_coverage")
                                       ELSE PoseNote,
                       timings |-> <<"normalize", "preprocess", "registration", "registration_gate",
                                     "transform", "compare", "coverage_gate", "detect">>,
                       finalPose |-> TRUE]])
         /\ UNCHANGED <<context, request, edges>>

\* The caller takes the answer.
Take == /\ phase = "answered"
        /\ phase' = "idle"
        /\ request' = Nothing
        /\ answer' = Nothing
        /\ UNCHANGED <<context, edges, evidence>>

Requests == [scan : Scans, pose : {"absent", "matching", "mismatched"}, cached : BOOLEAN]

Next == Open \/ Move \/ (\E r \in Requests : Ask(r)) \/ Fail \/ Settle \/ Reject \/ Judge \/ Take

Spec == Init /\ [][Next]_vars
=============================================================================

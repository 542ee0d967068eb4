------------------------- MODULE InspectionPipeline -------------------------
(***************************************************************************)
(* One inspection, stage by stage: run_impl of                             *)
(* src/src/pipeline/inspection_pipeline.cpp, entered through               *)
(* InspectionPipeline::run (one-shot) or InspectionContext::run (with the  *)
(* reference prepared once and a registration context kept).               *)
(*                                                                         *)
(* Every stage is one action, the measuring loop of the detection stage    *)
(* one action per region.  A stage that returns an error, or in which an   *)
(* exception is thrown, ends the call with that error and without report.  *)
(* The numerical work (normals, boundaries, the registration solve) is     *)
(* external to this module: its result is any member of a constant set.    *)
(***************************************************************************)
EXTENDS Detection, Sequences

CONSTANTS
    Reference,      \* the normalised reference, with the normals it came with
    Scans,          \* the scans callers submit, normalised
    Boundaries,     \* the boundary flags preprocessing may raise
    EstimatedNormals, \* the normals PCA may estimate for a scan without normals
    Solutions,      \* the metrics a registration may end with
    Capacity,       \* scan capacity of the inspection context
    MinValidPairs, MinOverlap, MaxRmse, MaxTranslation, MaxRotation  \* registration_gate

\* The arrays of a surface have one element per storage slot.
IsSurface(s) ==
    /\ s = [x |-> s.x, z |-> s.z, normal |-> s.normal, valid |-> s.valid,
            logical |-> s.logical, hasNormals |-> s.hasNormals]
    /\ IsFiniteSet(Storage(s))
    /\ s.logical \subseteq Storage(s)
    /\ s.x \in [Storage(s) -> Int]
    /\ s.z \in [Storage(s) -> Int]
    /\ s.normal \in [Storage(s) -> Int]
    /\ s.valid \in [Storage(s) -> BOOLEAN]

ASSUME PipelineAssumption ==
    /\ IsSurface(Reference)
    /\ \A s \in Scans : IsSurface(s)
    /\ \A m \in Solutions : {m.pairs, m.fitness, m.rmse, m.translation, m.rotation, m.shift} \subseteq Int
    /\ {MinValidPairs, MinOverlap, MaxRmse, MaxTranslation, MaxRotation} \subseteq Int

VARIABLES
    context,        \* the InspectionContext: "none", "ready" or "moved_from"
    stage,          \* what the call does next; "returned" until the caller
                    \* has taken the outcome, "idle" between calls
    request,        \* the caller's scan, request.initial_pose ("absent",
                    \* "matching" or "mismatched"), whether on the context
    scan,           \* the scan: as submitted, then prepared, then aligned
    edges,          \* boundary flags of the reference and of the scan
    metrics,        \* the registration metrics
    deviation, coverage,  \* the two comparison fields
    queue,          \* clusters not yet measured
    result,         \* the report under construction
    outcome         \* what the call returned

vars == <<context, stage, request, scan, edges, metrics, deviation, coverage, queue, result, outcome>>

\* The stages that keep a StageClock, in the order of the code.
StageOrder == <<"normalize", "preprocess", "registration", "registration_gate",
                "transform", "compare", "coverage_gate", "detect">>

Nothing == [kind |-> "none"]
Failure == [kind |-> "error"]
Report(r) == [kind |-> "report", report |-> r]

EmptyResult == [verdict |-> "indeterminate", diagnostics |-> <<>>, timings |-> <<>>,
                regions |-> <<>>, gate |-> "none", finalPose |-> FALSE]

Init == /\ context = "none"
        /\ stage = "idle"
        /\ request = Nothing
        /\ scan = Reference
        /\ \E r \in Boundaries : edges = [reference |-> r, scan |-> {}]
        /\ metrics = Nothing
        /\ deviation = <<>>
        /\ coverage = <<>>
        /\ queue = <<>>
        /\ result = EmptyResult
        /\ outcome = Nothing

-----------------------------------------------------------------------------
\* A StageClock pushes its record when its scope is left.
Timed(r, s) == [r EXCEPT !.timings = Append(@, s)]
Diagnosed(r, code) == [r EXCEPT !.diagnostics = Append(@, code)]

\* The call returns: an error loses the report, whatever it holds by then.
Return(o) == /\ outcome' = o
             /\ stage' = "returned"
             /\ result' = EmptyResult
             /\ queue' = <<>>

\* Fault: a stage that fails before anything is settled starts the call over.
FailsRestart ==
    /\ IF stage \in {"normalize", "preprocess", "registration"}
       THEN stage' = "normalize" /\ scan' = request.scan /\ result' = EmptyResult /\ UNCHANGED <<queue, outcome>>
       ELSE Return(Failure) /\ UNCHANGED scan
    /\ UNCHANGED <<context, request, edges, metrics, deviation, coverage>>

\* The current stage returns an error or throws.
Fails == Return(Failure) /\ UNCHANGED <<context, request, scan, edges, metrics, deviation, coverage>>

\* InspectionContext::create prepares the reference or fails; the context may
\* later be moved from.
CreateContext == /\ stage = "idle"
                 /\ context # "ready"
                 /\ \/ context' = "ready" /\ UNCHANGED <<stage, outcome>>
                    \/ stage' = "returned" /\ outcome' = Failure /\ UNCHANGED context
                 /\ UNCHANGED <<request, scan, edges, metrics, deviation, coverage, queue, result>>

MoveContext == /\ stage = "idle"
               /\ context = "ready"
               /\ context' = "moved_from"
               /\ UNCHANGED <<stage, request, scan, edges, metrics, deviation, coverage, queue, result, outcome>>

\* A call with scan s and pose p, on the context (c) or one-shot.  A context
\* refuses a scan beyond its capacity, and every scan once moved from.
Begin(s, p, c) ==
    /\ stage = "idle"
    /\ c => context # "none"
    /\ request' = [scan |-> s, pose |-> p, cached |-> c]
    /\ scan' = s
    /\ UNCHANGED <<context, edges, metrics, deviation, coverage, queue, result>>
    /\ IF c /\ (context = "moved_from" \/ Cardinality(s.logical) > Capacity)
       THEN stage' = "returned" /\ outcome' = Failure
       ELSE stage' = "normalize" /\ UNCHANGED outcome

\* The caller takes the outcome; everything local to the call is gone.
Deliver == /\ stage = "returned"
           /\ stage' = "idle"
           /\ request' = Nothing
           /\ scan' = Reference
           /\ edges' = [edges EXCEPT !.scan = {}]
           /\ metrics' = Nothing
           /\ deviation' = <<>>
           /\ coverage' = <<>>
           /\ outcome' = Nothing
           /\ UNCHANGED <<context, queue, result>>

\* P01/P02: both surfaces to millimetres; the reference only when one-shot.
Normalize == /\ stage = "normalize"
             /\ \/ Fails
                \/ /\ stage' = "preprocess"
                   /\ result' = Timed(result, stage)
                   /\ UNCHANGED <<context, request, scan, edges, metrics, deviation, coverage, queue, outcome>>

\* prepare_normals_and_boundaries with an empty hint: normals are taken over
\* or estimated, never oriented, and a point without normal leaves the mask.
WithNormals(s, n) == [s EXCEPT !.normal = n, !.valid = [i \in Storage(s) |-> s.valid[i] /\ n[i] # 0]]

\* P03: both surfaces when one-shot, the scan alone on a context.
Preprocess ==
    /\ stage = "preprocess"
    /\ \/ Fails
       \/ /\ stage' = "registration"
          /\ result' = Timed(result, stage)
          /\ \E n \in IF scan.hasNormals THEN {scan.normal} ELSE EstimatedNormals :
                scan' = WithNormals(scan, n)
          /\ \E e \in Boundaries : edges' = [edges EXCEPT !.scan = e]
          /\ UNCHANGED <<context, request, metrics, deviation, coverage, queue, outcome>>

\* P04: a supplied pose must map scan to reference; without one the identity
\* is used and a diagnostic says so.  RegistrationContext::create and align
\* may fail; otherwise the solver returns metrics, converged or not.
Registration ==
    /\ stage = "registration"
    /\ \/ Fails
       \/ /\ request.pose # "mismatched"
          /\ \E m \in Solutions : metrics' = m
          /\ stage' = "registration_gate"
          /\ result' = [Timed(IF request.pose = "absent" THEN Diagnosed(result, "invalid_input") ELSE result, stage)
                          EXCEPT !.finalPose = TRUE]
          /\ UNCHANGED <<context, request, scan, edges, deviation, coverage, queue, outcome>>

\* evaluate_gate: the first failing item, in this order.
GateFailure(m) ==
    IF m.convergence # "converged" THEN "not_converged"
    ELSE IF m.pairs < MinValidPairs THEN "insufficient_pairs"
    ELSE IF m.fitness < MinOverlap THEN "insufficient_overlap"
    ELSE IF m.rmse > MaxRmse THEN "excessive_residual"
    ELSE IF m.translation > MaxTranslation THEN "translation_prior"
    ELSE IF m.rotation > MaxRotation THEN "rotation_prior"
    ELSE "none"

\* P05: a rejected solve ends the call with an INDETERMINATE report.  The
\* report is moved out before the stage's clock is destroyed, so the gate's
\* own timing is not in it.
Gate ==
    /\ stage = "registration_gate"
    /\ \/ Fails
       \/ /\ GateFailure(metrics) # "none"
          /\ Return(Report([Diagnosed(result, "registration_failed")
                              EXCEPT !.verdict = "indeterminate", !.gate = GateFailure(metrics)]))
          /\ UNCHANGED <<context, request, scan, edges, metrics, deviation, coverage>>
       \/ /\ GateFailure(metrics) = "none"
          /\ stage' = "transform"
          /\ result' = Timed(result, stage)
          /\ UNCHANGED <<context, request, scan, edges, metrics, deviation, coverage, queue, outcome>>

\* P06: the final pose moves the scan; masks, normals and layout stay.
Aligned(s, m) == [s EXCEPT !.z = [i \in Storage(s) |-> s.z[i] + m.shift]]

Transform ==
    /\ stage = "transform"
    /\ \/ Fails
       \/ /\ stage' = "compare"
          /\ scan' = Aligned(scan, metrics)
          /\ result' = Timed(result, stage)
          /\ UNCHANGED <<context, request, edges, metrics, deviation, coverage, queue, outcome>>

\* The normals of the reference came with it or were estimated alike.
PreparedReference == WithNormals(Reference, Reference.normal)

\* P07: deviations of the scan, then coverage of the reference; the timing is
\* pushed only if both succeed.
Compare ==
    /\ stage = "compare"
    /\ \/ Fails
       \/ /\ \E f \in Pairings(PreparedReference, scan) :
                deviation' = DeviationField(PreparedReference, edges.reference, scan, f)
          /\ \E g \in Pairings(scan, PreparedReference) :
                coverage' = CoverageField(PreparedReference, scan, edges.scan, g)
          /\ stage' = "coverage_gate"
          /\ result' = Timed(result, stage)
          /\ UNCHANGED <<context, request, scan, edges, metrics, queue, outcome>>

\* P08: too little coverage is recorded; the stages after it still run.
CoverageGate ==
    /\ stage = "coverage_gate"
    /\ \/ Fails
       \/ /\ stage' = "detect"
          /\ result' = Timed(IF CoverageBelow(coverage) THEN Diagnosed(result, "insufficient_coverage")
                             ELSE result, stage)
          /\ UNCHANGED <<context, request, scan, edges, metrics, deviation, coverage, queue, outcome>>

\* P09: bumps, dents, then missing material, each class in any order.
Detect ==
    /\ stage = "detect"
    /\ \/ Fails
       \/ /\ \E b \in Orders(Clusters(scan, Bumps(deviation), "bump")),
                d \in Orders(Clusters(scan, Dents(deviation), "dent")),
                m \in Orders(Clusters(PreparedReference, Missing(coverage), "missing_material")) :
                queue' = b \o d \o m
          /\ stage' = "measure"
          /\ UNCHANGED <<context, request, scan, edges, metrics, deviation, coverage, result, outcome>>

\* measure_deviation_region or measure_missing_region, and its severity.
RegionOf(cluster, id) ==
    LET maxAbs == MaxAbs(cluster, deviation)
    IN  [id |-> id, type |-> cluster.type, points |-> cluster.points, maxAbs |-> maxAbs,
         severity |-> DefaultSeverity(cluster.type, maxAbs)]

MeasuredSurface(cluster) == IF cluster.type = "missing_material" THEN PreparedReference ELSE scan

\* One round of the loops over the clusters; collect_samples refuses a
\* cluster that names a slot that is not a usable point.
Measure ==
    /\ stage = "measure"
    /\ queue # <<>>
    /\ \/ Return(Failure)
       \/ /\ Head(queue).points \subseteq Usable(MeasuredSurface(Head(queue)))
          /\ result' = [result EXCEPT !.regions = Append(@, RegionOf(Head(queue), Len(@)))]
          /\ queue' = Tail(queue)
          /\ UNCHANGED <<stage, outcome>>
    /\ UNCHANGED <<context, request, scan, edges, metrics, deviation, coverage>>

HasReject == \E k \in DOMAIN result.regions : result.regions[k].severity = "reject"

\* Fault: a comparison without a single valid sample passes.
VerdictLax == IF CoverageBelow(coverage) THEN "indeterminate"
              ELSE IF HasReject THEN "fail" ELSE "pass"

Verdict == IF CoverageBelow(coverage) \/ ValidSamples(deviation) = {} THEN "indeterminate"
           ELSE IF HasReject THEN "fail" ELSE "pass"

\* P10: the detection clock is closed and the verdict decided.
Finalize ==
    /\ stage = "measure"
    /\ queue = <<>>
    /\ Return(Report([Timed(result, "detect") EXCEPT !.verdict = Verdict]))
    /\ UNCHANGED <<context, request, scan, edges, metrics, deviation, coverage>>

Work == \/ Normalize \/ Preprocess \/ Registration \/ Gate \/ Transform \/ Compare
        \/ CoverageGate \/ Detect \/ Measure \/ Finalize

Next == \/ \E s \in Scans, p \in {"absent", "matching", "mismatched"}, c \in BOOLEAN : Begin(s, p, c)
        \/ CreateContext \/ MoveContext \/ Deliver
        \/ Work

\* A call that has begun goes on to its end; calls are made at will.
Spec == Init /\ [][Next]_vars /\ WF_vars(Work)

-----------------------------------------------------------------------------
\* Properties

Reported == outcome.kind = "report"

\* What the caller sees of the stages: nothing is settled before the
\* registration has returned; until the scan has been moved its evidence is
\* the scan as it is going to be compared.
Phase == CASE stage = "idle" -> "idle"
           [] stage = "returned" -> "answered"
           [] stage \in {"normalize", "preprocess", "registration"} -> "asked"
           [] OTHER -> "settled"
Evidence == IF Phase # "settled" THEN Nothing
            ELSE [kind |-> "evidence", metrics |-> metrics, edges |-> edges.scan,
                  scan |-> IF stage \in {"registration_gate", "transform"} THEN Aligned(scan, metrics) ELSE scan]

Promise == INSTANCE Inspection WITH phase <- Phase, edges <- edges.reference, evidence <- Evidence, answer <- outcome

\* Ten stages, each of which may fail, implement what an inspection promises:
\* an error, or a report whose verdict, gate failure, regions, ids, order,
\* severities, diagnostics and timings follow from the submitted scan and
\* what the registration found, whichever ties the search broke.
Implements == Promise!Spec

\* All the bounds of the registration gate hold.
WithinGate(m) == /\ m.convergence = "converged"
                 /\ m.pairs >= MinValidPairs
                 /\ m.fitness >= MinOverlap
                 /\ m.rmse <= MaxRmse
                 /\ m.translation <= MaxTranslation
                 /\ m.rotation <= MaxRotation

\* A PASS in terms of the surfaces alone: the registration was within its
\* gate, at least the configured share of the usable reference points has a
\* usable scan point within the search distance, and some usable scan point
\* lies within the search distance of the reference.
PassMeansCovered ==
    (Reported /\ outcome.report.verdict = "pass") =>
      LET near == {r \in Usable(PreparedReference) :
                     \E i \in Usable(scan) : Distance2(scan, i, PreparedReference, r) <= MaxSearch2}
      IN  /\ WithinGate(metrics)
          /\ 100 * Cardinality(near) >= MinCoverage * Cardinality(Usable(PreparedReference))
          /\ near # {}

\* Preprocessing takes points without normal out of the mask and the search
\* tree holds masked-in points only, so the reason normal_missing is
\* unreachable; and whatever is clustered is a usable point of the surface it
\* is measured on, so collect_samples never refuses a cluster.
EvidenceUsable ==
    /\ \A i \in DOMAIN deviation : deviation[i].reason # "normal_missing"
    /\ \A k \in DOMAIN queue : queue[k].points \subseteq Usable(MeasuredSurface(queue[k]))

\* Every call returns.
CallReturns == stage = "normalize" ~> stage = "returned"

\* orientation_proven of prepare_normals_and_boundaries: there is a normal and
\* the hint oriented every one.  The pipeline passes the empty hint.
PipelineHint == "unproven"
Oriented(s, hint) == IF hint = "unproven" THEN {} ELSE Usable(s)
OrientationProven(s, hint) == Usable(s) # {} /\ Oriented(s, hint) = Usable(s)

\* The architecture document: without proof of the reference's orientation no
\* sign is inferred, so a report names neither a dent nor a bump.
SignNeedsProof ==
    (Reported /\ ~OrientationProven(PreparedReference, PipelineHint)) =>
      \A k \in DOMAIN outcome.report.regions : outcome.report.regions[k].type = "missing_material"
=============================================================================

---------------------------- MODULE Registration ----------------------------
(***************************************************************************)
(* A RegistrationContext (src/src/registration/registration_engine.cpp)    *)
(* and the solver behind it, Prepared::align of                            *)
(* src/src/backends/pcl/pcl_registration_backend.cpp: created once for a   *)
(* reference, then aligning scan after scan with the same work buffers.    *)
(*                                                                         *)
(* The numbers are external: how many pairs a round finds, the rank of its *)
(* equations, the mean residual and the step they give are chosen freely.  *)
(* What is kept is the control of the loop and, for every buffer, which    *)
(* scan and which pose its contents were computed from.                    *)
(***************************************************************************)
EXTENDS Integers, FiniteSets

CONSTANTS
    ReferenceSize,  \* logical points of the reference
    Capacities,     \* values of max_scan_points
    ScanSizes,      \* logical points of the scans
    GpuMinPoints,   \* automatic_gpu_min_points (65536)
    BlockSize,      \* CpuExecutor::block_size
    MaxIterations,  \* parameters.max_iterations
    Residuals,      \* finite values of a mean residual
    ResidualEpsilon,\* parameters.residual_epsilon_mm
    Calls           \* bound: number of align calls

ASSUME RegistrationAssumption ==
    /\ Capacities \subseteq Nat /\ ScanSizes \subseteq Nat \ {0}
    /\ {ReferenceSize, GpuMinPoints} \subseteq Nat
    /\ {BlockSize, MaxIterations, ResidualEpsilon, Calls} \subseteq Nat \ {0}
    /\ Residuals \subseteq Nat

VARIABLES
    context,        \* "none", "ready", "moved_from", "temporary" in register_surfaces
    capacity, backend, method,  \* fixed when the context is created
    pc,             \* where align is, "idle" outside
    calls,          \* number of align calls begun: names the current scan
    size,           \* points of the current scan: logical, then valid ones
    pose,           \* current: updates applied so far, or Final
    device,         \* the scan upload_scan left on the device, 0 for none
    transformed_, neighbors,  \* origin of the contents of the CPU buffers
    reduction_,     \* origin of every block sum (of the one equation on GPU)
    iteration, completed,     \* loop variable and completed_iterations
    convergence,    \* what the flags converged and degenerate say
    previous, mean, step,     \* last two mean residuals, size of the last twist
    outcome         \* what align returned

buffers == <<device, transformed_, neighbors, reduction_>>
solver == <<pose, iteration, completed, convergence, previous, mean, step>>
created == <<context, capacity, backend, method>>
vars == <<created, pc, calls, size, buffers, solver, outcome>>

blocks(n) == (n + BlockSize - 1) \div BlockSize
Infinite == -1      \* a residual that is not finite
Final == -1         \* final_transform, the orthonormalised last pose
Stale == [scan |-> 0, pose |-> 0]
Nothing == [kind |-> "none"]
Failure == [kind |-> "error"]

Init == /\ context = "none" /\ capacity = 0 /\ backend = "cpu" /\ method = "point_to_plane"
        /\ pc = "idle" /\ calls = 0 /\ size = 0
        /\ device = 0 /\ transformed_ = Stale /\ neighbors = Stale /\ reduction_ = [b \in {} |-> Stale]
        /\ pose = 0 /\ iteration = 0 /\ completed = 0 /\ convergence = "not_converged"
        /\ previous = Infinite /\ mean = Infinite /\ step = "large"
        /\ outcome = Nothing

-----------------------------------------------------------------------------
\* select_backend: automatic takes the GPU only for two large clouds.
SelectBackend(requested, max, available) ==
    IF requested # "automatic" THEN requested
    ELSE IF available /\ ReferenceSize >= GpuMinPoints /\ max >= GpuMinPoints THEN "gpu" ELSE "cpu"

\* RegistrationContext::create with a snapshot of the reference and buffers
\* of its own.  A bad capacity, an absent GPU or a failing preparation leaves
\* no context.
Prepared(kind, max, requested, m, available) ==
    /\ pc = "idle"
    /\ context = "none"
    /\ max > 0
    /\ requested = "gpu" => available
    /\ context' = kind
    /\ capacity' = max
    /\ backend' = SelectBackend(requested, max, available)
    /\ method' = m
    /\ device' = 0 /\ transformed_' = Stale /\ neighbors' = Stale
    /\ reduction_' = [b \in {} |-> Stale]

Create(max, requested, m, available) ==
    /\ Prepared("ready", max, requested, m, available)
    /\ UNCHANGED <<pc, calls, size, solver, outcome>>

MoveFrom ==
    /\ pc = "idle"
    /\ context = "ready"
    /\ context' = "moved_from"
    /\ UNCHANGED <<capacity, backend, method, pc, calls, size, buffers, solver, outcome>>

\* The call ends; what the buffers hold stays.  The context of
\* register_surfaces is a local variable.
Return(o) == /\ outcome' = o
             /\ pc' = "idle"
             /\ context' = IF context = "temporary" THEN "none" ELSE context
             /\ UNCHANGED <<capacity, backend, method, calls, size, solver>>

\* Fault: a call that failed is begun again.
ThrowsRetry == /\ pc' = "prepare"
               /\ UNCHANGED <<created, calls, size, buffers, solver, outcome>>

\* Anything thrown or refused between entry and return.
Throws == Return(Failure) /\ UNCHANGED buffers

Entering(n) == /\ calls < Calls
               /\ calls' = calls + 1
               /\ size' = n
               /\ UNCHANGED solver

\* RegistrationInput::create: both surfaces in millimetres, the initial
\* transform from the scan's frame to the reference's.  The parameters and
\* the unit of the reference were checked when the context was created.
RegistrationInput(scan) == scan.millimetres /\ scan.directed

\* A view may be older than its arrays: align runs SurfaceView::create again.
Usable(scan) == RegistrationInput(scan) /\ scan.sound
Scans == [millimetres : BOOLEAN, directed : BOOLEAN, sound : BOOLEAN]

\* RegistrationContext::align: moved-from contexts, scans beyond the capacity
\* and unusable scans are refused.
Align(n, scan) ==
    /\ pc = "idle"
    /\ context # "none"
    /\ Entering(n)
    /\ IF context = "moved_from" \/ n > capacity \/ ~Usable(scan)
       THEN outcome' = Failure /\ UNCHANGED pc
       ELSE outcome' = Nothing /\ pc' = "prepare"
    /\ UNCHANGED <<created, buffers>>

\* register_surfaces: a context of the size of the scan, for one align.
RegisterSurfaces(n, scan, requested, m, available) ==
    /\ Prepared("temporary", n, requested, m, available)
    /\ Entering(n)
    /\ Usable(scan)
    /\ outcome' = Nothing
    /\ pc' = "prepare"

Reevaluate == IF backend = "gpu" THEN "evaluate" ELSE "transform"

\* The locals of Prepared::align.
Fresh == /\ pose' = 0 /\ iteration' = 0 /\ completed' = 0 /\ convergence' = "not_converged"
         /\ previous' = Infinite /\ mean' = Infinite /\ step' = "large"

\* extract_valid: how many of n logical points can be valid, none excluded.
Extracted(n) == 1 .. n

\* The scan is checked and its valid points extracted (none is an error); on
\* the GPU they are uploaded, for GICP on the CPU their covariances are
\* estimated.  A failed upload leaves the earlier scan or none.
Prepare ==
    /\ pc = "prepare"
    /\ \/ Return(Failure) /\ UNCHANGED <<transformed_, neighbors, reduction_>> /\ device' \in {device, 0}
       \/ /\ Fresh
          /\ size' \in Extracted(size)
          /\ device' = IF backend = "gpu" THEN calls ELSE device
          /\ pc' = Reevaluate
          /\ UNCHANGED <<created, calls, transformed_, neighbors, reduction_, outcome>>

Current == [scan |-> calls, pose |-> pose]
Reduced == IF pose = Final THEN "report" ELSE "solve"

\* transform_points; the final pose may also be refused by
\* RigidTransform::create, before it.
Transform ==
    /\ pc = "transform"
    /\ \/ Throws
       \/ /\ transformed_' = Current
          /\ pc' = "query"
          /\ UNCHANGED <<created, calls, size, device, neighbors, reduction_, solver, outcome>>

\* Search::query; a coordinate outside single precision is an error.
Query ==
    /\ pc = "query"
    /\ \/ Throws
       \/ /\ neighbors' = transformed_
          /\ pc' = "reduce"
          /\ UNCHANGED <<created, calls, size, device, transformed_, reduction_, solver, outcome>>

\* Fault: block sums are overwritten but the vector never shrinks.
ReduceGrows ==
    /\ pc = "reduce"
    /\ reduction_' = [b \in DOMAIN reduction_ \union 0 .. blocks(size) - 1 |->
                        IF b < blocks(size) THEN neighbors ELSE reduction_[b]]
    /\ pc' = Reduced
    /\ UNCHANGED <<created, calls, size, device, transformed_, neighbors, solver, outcome>>

\* reduction_.assign and the parallel sum over blocks.
Reduce ==
    /\ pc = "reduce"
    /\ \/ Throws
       \/ /\ reduction_' = [b \in 0 .. blocks(size) - 1 |-> neighbors]
          /\ pc' = Reduced
          /\ UNCHANGED <<created, calls, size, device, transformed_, neighbors, solver, outcome>>

\* CorrespondenceSearch::evaluate: the same on the device, in one packet.
Evaluate ==
    /\ pc = "evaluate"
    /\ \/ Throws
       \/ /\ reduction_' = [b \in {0} |-> [scan |-> device, pose |-> pose]]
          /\ pc' = Reduced
          /\ UNCHANGED <<created, calls, size, device, transformed_, neighbors, solver, outcome>>

\* The loop is left: the pose is orthonormalised and evaluated once more.
Leave(c) == /\ convergence' = c
            /\ pose' = Final
            /\ pc' = Reevaluate

\* Fault: the residual test is made in the first round too.
ImprovedAtOnce(m) == /\ m # Infinite
                     /\ previous = Infinite \/ previous - m \in 0 .. ResidualEpsilon - 1

\* The residual fell, by less than epsilon, since the round before.
Improved(m) == /\ iteration > 0
               /\ previous # Infinite /\ m # Infinite
               /\ previous - m \in 0 .. ResidualEpsilon - 1

\* Fewer than six pairs, or deficient rank unless point-to-plane.
Degenerate(enough, fullRank) == ~enough \/ (method # "point_to_plane" /\ ~fullRank)

\* One round: enough pairs, fullRank, mean residual m and twist s as found.
Solve(enough, fullRank, m, s) ==
    /\ pc = "solve"
    /\ UNCHANGED <<created, calls, size, buffers, outcome>>
    /\ mean' = IF Degenerate(enough, fullRank) THEN mean ELSE m
    /\ \/ /\ Degenerate(enough, fullRank)
          /\ Leave("degenerate_input")
          /\ UNCHANGED <<iteration, completed, previous, step>>
       \/ /\ ~Degenerate(enough, fullRank)
          /\ Improved(m)
          /\ Leave("converged")
          /\ UNCHANGED <<iteration, completed, previous, step>>
       \/ /\ ~Degenerate(enough, fullRank) /\ ~Improved(m)
          /\ previous' = m
          /\ step' = s
          /\ \/ /\ s = "not_finite"
                /\ Leave("degenerate_input")
                /\ UNCHANGED <<iteration, completed>>
             \/ /\ s = "small"
                /\ completed' = completed + 1
                /\ Leave("converged")
                /\ UNCHANGED iteration
             \/ /\ s = "large"
                /\ completed' = completed + 1
                /\ iteration' = iteration + 1
                /\ IF iteration + 1 < MaxIterations
                   THEN pose' = completed + 1 /\ pc' = Reevaluate /\ UNCHANGED convergence
                   ELSE Leave("not_converged")

\* Metrics of the final pose; RegistrationMetrics::create may refuse them.
Finish ==
    /\ pc = "report"
    /\ \/ Throws
       \/ /\ Return([kind |-> "metrics", convergence |-> convergence, iterations |-> completed])
          /\ UNCHANGED buffers

Solving == \E enough, fullRank \in BOOLEAN, m \in Residuals \union {Infinite}, s \in {"not_finite", "small", "large"} :
              Solve(enough, fullRank, m, s)
Work == Prepare \/ Transform \/ Query \/ Reduce \/ Evaluate \/ Solving \/ Finish

Next == \/ \E requested \in {"cpu", "gpu", "automatic"},
              m \in {"point_to_plane", "point_to_point", "gicp"}, available \in BOOLEAN :
              \/ \E max \in Capacities : Create(max, requested, m, available)
              \/ \E n \in ScanSizes, scan \in Scans : RegisterSurfaces(n, scan, requested, m, available)
        \/ MoveFrom
        \/ \E n \in ScanSizes, scan \in Scans : Align(n, scan)
        \/ Work

\* A call that has begun goes on.
Spec == Init /\ [][Next]_vars /\ WF_vars(Work)

-----------------------------------------------------------------------------
\* Properties

\* Whatever is solved or reported was computed from this call's scan at the
\* present pose, every block of it: nothing is left over from another round,
\* another scan or a call that failed half way.  The sums never outgrow the
\* blocks reserved for the capacity.
SumsFresh ==
    /\ pc \in {"solve", "report"} =>
         /\ Cardinality(DOMAIN reduction_) = IF backend = "gpu" THEN 1 ELSE blocks(size)
         /\ \A b \in DOMAIN reduction_ : reduction_[b] = Current
    /\ context # "none" => Cardinality(DOMAIN reduction_) <= blocks(capacity)

\* What the three results mean: "converged" has at least one completed round
\* and either a small last step or a residual that improved by less than
\* epsilon over the round before; "not_converged" has used up the rounds; a
\* degenerate round adds no update.
ConvergenceMeans ==
    outcome.kind = "metrics" =>
      CASE outcome.convergence = "converged" ->
             /\ outcome.iterations \in 1 .. MaxIterations
             /\ \/ step = "small" /\ outcome.iterations = iteration + 1
                \/ /\ outcome.iterations = iteration
                   /\ previous # Infinite /\ mean # Infinite
                   /\ mean <= previous /\ previous < mean + ResidualEpsilon
        [] outcome.convergence = "not_converged" ->
             outcome.iterations = MaxIterations /\ step = "large"
        [] outcome.convergence = "degenerate_input" ->
             outcome.iterations = iteration /\ iteration < MaxIterations

\* Every align call returns.
AlignReturns == pc = "prepare" ~> pc = "idle"
=============================================================================

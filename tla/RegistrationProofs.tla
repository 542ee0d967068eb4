------------------------- MODULE RegistrationProofs -------------------------
(***************************************************************************)
(* Proofs about Registration for all sizes, capacities, block sizes,       *)
(* numbers of rounds and calls, and all residuals: the sums a round works  *)
(* with are its own, and a result means what it says.                      *)
(***************************************************************************)
EXTENDS Registration, FiniteSetTheorems, TLAPS

CpuSteps == {"transform", "query", "reduce"}
Steps == CpuSteps \union {"evaluate", "solve", "report"}

\* Every variable that is counted or compared has its type.
TypeInv ==
    /\ context \in {"none", "ready", "moved_from", "temporary"}
    /\ capacity \in Nat /\ backend \in {"cpu", "gpu"}
    /\ pc \in {"idle", "prepare"} \union Steps
    /\ calls \in Nat /\ size \in Nat /\ pose \in Int
    /\ iteration \in Nat /\ completed \in Nat
    /\ previous \in Residuals \union {Infinite} /\ mean \in Residuals \union {Infinite}

\* During a call there is a context whose capacity the scan does not exceed.
Within == pc # "idle" => /\ context \in {"ready", "temporary"}
                         /\ size > 0 /\ size <= capacity

\* The buffers reserved for the capacity are never outgrown.
Bounded == /\ Cardinality(DOMAIN reduction_) \in Nat
           /\ context # "none" => Cardinality(DOMAIN reduction_) <= blocks(capacity)

\* Each buffer is filled before the next step reads it; on the GPU the device
\* holds the scan of this call from its upload on.
Pipeline ==
    /\ pc \in CpuSteps => backend = "cpu"
    /\ pc = "evaluate" => backend = "gpu"
    /\ pc \in Steps /\ backend = "gpu" => device = calls
    /\ pc = "query" => transformed_ = Current
    /\ pc = "reduce" => neighbors = Current
    /\ pc \in {"solve", "report"} =>
         /\ Cardinality(DOMAIN reduction_) = IF backend = "gpu" THEN 1 ELSE blocks(size)
         /\ \A b \in DOMAIN reduction_ : reduction_[b] = Current
    /\ pc = "solve" => pose # Final
    /\ pc = "report" => pose = Final

\* What a result of n rounds means, in terms of the solver's variables.
Means(c, n) ==
    CASE c = "converged" ->
           /\ n \in 1 .. MaxIterations
           /\ \/ step = "small" /\ n = iteration + 1
              \/ /\ n = iteration
                 /\ previous # Infinite /\ mean # Infinite
                 /\ mean <= previous /\ previous < mean + ResidualEpsilon
      [] c = "not_converged" -> n = MaxIterations /\ step = "large"
      [] c = "degenerate_input" -> n = iteration /\ iteration < MaxIterations

Convergences == {"converged", "not_converged", "degenerate_input"}

\* In the loop every round so far was completed; once it is left the flags
\* mean what they say.
Rounds ==
    /\ pc \in Steps /\ pose # Final => completed = iteration /\ iteration < MaxIterations
    /\ pc \in Steps /\ pose = Final => convergence \in Convergences /\ Means(convergence, completed)

\* What the caller got last still agrees with the solver.
Told ==
    outcome.kind = "metrics" => /\ outcome.convergence \in Convergences
                                /\ Means(outcome.convergence, outcome.iterations)

\* Nothing was told yet in a call that is going on.
Silent == pc # "idle" => outcome = Nothing

\* The inductive invariant.
IInv == TypeInv /\ Within /\ Bounded /\ Pipeline /\ Rounds /\ Told /\ Silent

-----------------------------------------------------------------------------
\* Arithmetic of blocks

LEMMA DivBounds ==
    ASSUME NEW C \in Nat \ {0}, NEW x \in Nat
    PROVE  /\ x \div C \in Nat
           /\ C * (x \div C) <= x
           /\ x < C * (x \div C) + C
  <1>1. x = C * (x \div C) + (x % C) /\ x % C \in 0 .. (C - 1) /\ x \div C \in Nat
    OBVIOUS
  <1> QED BY <1>1

LEMMA BlocksNat == ASSUME NEW n \in Nat PROVE blocks(n) \in Nat
  BY DivBounds, RegistrationAssumption, n + BlockSize - 1 \in Nat DEF blocks

\* A larger scan has no fewer blocks.
LEMMA BlocksGrow ==
    ASSUME NEW m \in Nat, NEW n \in Nat, m <= n
    PROVE  blocks(m) <= blocks(n)
  <1> DEFINE p == blocks(m)
             q == blocks(n)
  <1>1. BlockSize \in Nat \ {0}
    BY RegistrationAssumption
  <1>2. p \in Nat /\ BlockSize * p <= m + BlockSize - 1
    BY <1>1, DivBounds, m + BlockSize - 1 \in Nat DEF blocks
  <1>3. q \in Nat /\ n + BlockSize - 1 < BlockSize * q + BlockSize
    BY <1>1, DivBounds, n + BlockSize - 1 \in Nat DEF blocks
  <1> HIDE DEF p, q
  <1>4. BlockSize * p < BlockSize * q + BlockSize
    BY <1>1, <1>2, <1>3
  <1>5. ASSUME q < p PROVE FALSE
    <2>1. BlockSize * (p - q) >= BlockSize
      BY <1>1, <1>2, <1>3, <1>5
    <2>2. BlockSize * (p - q) = BlockSize * p - BlockSize * q
      BY <1>1, <1>2, <1>3
    <2> QED BY <1>1, <1>2, <1>3, <1>4, <2>1, <2>2
  <1>6. p <= q
    BY <1>2, <1>3, <1>5
  <1> QED BY <1>6 DEF p, q

\* A scan that is not empty has a block.
LEMMA BlocksPositive == ASSUME NEW n \in Nat \ {0} PROVE blocks(n) >= 1
  <1>1. blocks(1) = 1
    <2>1. (1 + BlockSize - 1) = BlockSize /\ BlockSize \in Nat \ {0}
      BY RegistrationAssumption
    <2>2. BlockSize \div BlockSize = 1
      BY <2>1
    <2> QED BY <2>1, <2>2 DEF blocks
  <1> QED BY <1>1, BlocksGrow, BlocksNat, 1 <= n

\* The three shapes the sums can have.
LEMMA Sizes ==
    /\ \A x : Cardinality(DOMAIN [b \in {} |-> x]) = 0
    /\ \A x : Cardinality(DOMAIN [b \in {0} |-> x]) = 1
    /\ \A x : \A n \in Nat : Cardinality(DOMAIN [b \in 0 .. n - 1 |-> x]) = n
  <1>1. \A n \in Nat : Cardinality(0 .. n - 1) = n
    BY FS_Interval
  <1> QED BY <1>1, FS_EmptySet, FS_Singleton

-----------------------------------------------------------------------------
\* Residuals are integers, so they can be compared.
LEMMA ResidualType ==
    ASSUME NEW r \in Residuals \union {Infinite}
    PROVE  r \in Int
  BY RegistrationAssumption DEF Infinite

\* A new context has empty buffers.
LEMMA PreparedSafe ==
    ASSUME IInv, NEW kind \in {"ready", "temporary"}, NEW max \in Nat, NEW requested \in {"cpu", "gpu", "automatic"},
           NEW m, NEW available \in BOOLEAN, Prepared(kind, max, requested, m, available)
    PROVE  /\ context' = kind /\ capacity' = max /\ max > 0 /\ backend' \in {"cpu", "gpu"} /\ pc = "idle"
           /\ Bounded'
  <1>1. /\ context' = kind /\ capacity' = max /\ max > 0 /\ backend' \in {"cpu", "gpu"} /\ pc = "idle"
    BY DEF Prepared, SelectBackend
  <1>2. Cardinality(DOMAIN reduction_') = 0
    BY Sizes DEF Prepared
  <1> QED BY <1>1, <1>2, BlocksNat DEF Bounded

LEMMA CreateSafe ==
    ASSUME IInv, NEW max \in Nat, NEW requested \in {"cpu", "gpu", "automatic"}, NEW m, NEW available \in BOOLEAN,
           Create(max, requested, m, available)
    PROVE  IInv'
  <1>1. /\ context' = "ready" /\ capacity' = max /\ backend' \in {"cpu", "gpu"} /\ pc = "idle"
        /\ Bounded'
    BY PreparedSafe DEF Create
  <1>2. UNCHANGED <<pc, calls, size, pose, iteration, completed, convergence, previous, mean, step, outcome>>
    BY DEF Create, solver
  <1>3. TypeInv'
    BY <1>1, <1>2 DEF IInv, TypeInv
  <1>4. Within' /\ Pipeline' /\ Rounds' /\ Silent'
    BY <1>1, <1>2 DEF Within, Pipeline, Rounds, Silent, Steps, CpuSteps
  <1>5. Told'
    BY <1>2 DEF IInv, Told, Means
  <1> QED BY <1>1, <1>3, <1>4, <1>5 DEF IInv

LEMMA MoveFromSafe == ASSUME IInv, MoveFrom PROVE IInv'
  <1>1. /\ pc = "idle" /\ context = "ready" /\ context' = "moved_from"
        /\ UNCHANGED <<capacity, backend, pc, calls, size, reduction_, pose, iteration, completed,
                       convergence, previous, mean, step, outcome>>
    BY DEF MoveFrom, solver, buffers
  <1>2. TypeInv'
    BY <1>1 DEF IInv, TypeInv
  <1>3. Within' /\ Pipeline' /\ Rounds' /\ Silent'
    BY <1>1 DEF Within, Pipeline, Rounds, Silent, Steps, CpuSteps
  <1>4. Bounded'
    BY <1>1 DEF IInv, Bounded, blocks
  <1>5. Told'
    BY <1>1 DEF IInv, Told, Means
  <1> QED BY <1>2, <1>3, <1>4, <1>5 DEF IInv

\* The call ends with an outcome that is true; the sums stay as they are.
LEMMA ReturnSafe ==
    ASSUME IInv, NEW o, Return(o), UNCHANGED reduction_,
           o.kind = "metrics" => o.convergence \in Convergences /\ Means(o.convergence, o.iterations)
    PROVE  IInv'
  <1>1. /\ outcome' = o /\ pc' = "idle" /\ context' \in {context, "none"}
        /\ UNCHANGED <<capacity, backend, calls, size, pose, iteration, completed, convergence,
                       previous, mean, step, reduction_>>
    BY DEF Return, solver
  <1>2. TypeInv'
    BY <1>1 DEF IInv, TypeInv
  <1>3. Within' /\ Pipeline' /\ Rounds' /\ Silent'
    BY <1>1 DEF Within, Pipeline, Rounds, Silent, Steps, CpuSteps
  <1>4. Bounded'
    BY <1>1 DEF IInv, Bounded, blocks
  <1>5. Told'
    BY <1>1 DEF Told, Means
  <1> QED BY <1>2, <1>3, <1>4, <1>5 DEF IInv

LEMMA ThrowsSafe == ASSUME IInv, Throws PROVE IInv'
  <1>1. Failure.kind # "metrics"
    BY DEF Failure
  <1> QED BY <1>1, ReturnSafe DEF Throws, buffers

LEMMA AlignSafe ==
    ASSUME IInv, NEW n \in ScanSizes, NEW scan \in Scans, Align(n, scan)
    PROVE  IInv'
  <1>1. n \in Nat \ {0}
    BY RegistrationAssumption
  <1>2. /\ pc = "idle" /\ context # "none" /\ calls' = calls + 1 /\ size' = n
        /\ UNCHANGED <<context, capacity, backend, reduction_, pose, iteration, completed, convergence,
                       previous, mean, step>>
        /\ \/ pc' = "idle" /\ outcome' = Failure
           \/ pc' = "prepare" /\ outcome' = Nothing /\ context # "moved_from" /\ n <= capacity
    BY <1>1 DEF Align, Entering, created, buffers, solver, IInv, TypeInv
  <1>3. TypeInv'
    BY <1>1, <1>2 DEF IInv, TypeInv
  <1>4. Within'
    BY <1>1, <1>2 DEF IInv, TypeInv, Within
  <1>5. Bounded'
    BY <1>2 DEF IInv, Bounded, blocks
  <1>6. Pipeline' /\ Rounds' /\ Silent' /\ Told'
    BY <1>2 DEF Pipeline, Rounds, Silent, Told, Steps, CpuSteps, Failure, Nothing
  <1> QED BY <1>3, <1>4, <1>5, <1>6 DEF IInv

LEMMA RegisterSurfacesSafe ==
    ASSUME IInv, NEW n \in ScanSizes, NEW scan \in Scans, NEW requested \in {"cpu", "gpu", "automatic"}, NEW m,
           NEW available \in BOOLEAN, RegisterSurfaces(n, scan, requested, m, available)
    PROVE  IInv'
  <1>1. n \in Nat \ {0}
    BY RegistrationAssumption
  <1>2. /\ context' = "temporary" /\ capacity' = n /\ backend' \in {"cpu", "gpu"} /\ pc = "idle"
        /\ Bounded'
    BY <1>1, PreparedSafe DEF RegisterSurfaces
  <1>3. /\ pc' = "prepare" /\ calls' = calls + 1 /\ size' = n /\ outcome' = Nothing
        /\ UNCHANGED <<pose, iteration, completed, convergence, previous, mean, step>>
    BY DEF RegisterSurfaces, Entering, solver
  <1>4. TypeInv'
    BY <1>1, <1>2, <1>3 DEF IInv, TypeInv
  <1>5. Within'
    BY <1>1, <1>2, <1>3 DEF Within
  <1>6. Pipeline' /\ Rounds' /\ Silent' /\ Told'
    BY <1>3 DEF Pipeline, Rounds, Silent, Told, Steps, CpuSteps, Nothing
  <1> QED BY <1>2, <1>4, <1>5, <1>6 DEF IInv

-----------------------------------------------------------------------------
\* The steps of a call

LEMMA PrepareSafe == ASSUME IInv, Prepare PROVE IInv'
  <1>1. CASE Return(Failure) /\ UNCHANGED reduction_
    BY <1>1, ReturnSafe DEF Failure
  <1>2. CASE /\ Fresh
             /\ size' \in Extracted(size)
             /\ device' = IF backend = "gpu" THEN calls ELSE device
             /\ pc' = Reevaluate
             /\ UNCHANGED <<created, calls, transformed_, neighbors, reduction_, outcome>>
    <2>1. /\ UNCHANGED <<context, capacity, backend, calls, reduction_, outcome>>
          /\ pose' = 0 /\ iteration' = 0 /\ completed' = 0 /\ convergence' = "not_converged"
          /\ previous' = Infinite /\ mean' = Infinite
          /\ pc' = IF backend = "gpu" THEN "evaluate" ELSE "transform"
          /\ backend = "gpu" => device' = calls
          /\ size' \in 1 .. size
      BY <1>2 DEF Fresh, Reevaluate, created, Extracted
    <2>2. TypeInv'
      BY <2>1 DEF IInv, TypeInv, Steps, CpuSteps
    <2>3. Within'
      BY <2>1 DEF IInv, TypeInv, Within, Prepare
    <2>4. Bounded'
      BY <2>1 DEF IInv, Bounded, blocks
    <2>5. Pipeline'
      BY <2>1 DEF IInv, TypeInv, Pipeline, Steps, CpuSteps
    <2>6. Rounds'
      BY <2>1, RegistrationAssumption DEF Rounds, Final
    <2>7. Silent' /\ Told'
      BY <2>1 DEF IInv, Silent, Told, Prepare, Nothing
    <2> QED BY <2>2, <2>3, <2>4, <2>5, <2>6, <2>7 DEF IInv
  <1> QED BY <1>1, <1>2 DEF Prepare

\* A step that changes no variable of the solver keeps what it has found.
LEMMA SolverKept ==
    ASSUME IInv, pc \in Steps, pc' \in Steps,
           UNCHANGED <<context, capacity, backend, calls, size, device, solver, outcome>>
    PROVE  TypeInv' /\ Within' /\ Rounds' /\ Told' /\ Silent'
  <1>1. UNCHANGED <<pose, iteration, completed, convergence, previous, mean, step>>
    BY DEF solver
  <1>2. "idle" \notin Steps
    BY DEF Steps, CpuSteps
  <1>3. TypeInv'
    BY <1>1 DEF IInv, TypeInv
  <1>4. Within' /\ Silent'
    BY <1>1, <1>2 DEF IInv, Within, Silent
  <1>5. Rounds'
    BY <1>1 DEF IInv, Rounds, Means
  <1>6. Told'
    BY <1>1 DEF IInv, Told, Means
  <1> QED BY <1>3, <1>4, <1>5, <1>6

LEMMA TransformSafe == ASSUME IInv, Transform PROVE IInv'
  <1>1. CASE Throws
    BY <1>1, ThrowsSafe
  <1>2. CASE /\ transformed_' = Current /\ pc' = "query"
             /\ UNCHANGED <<created, calls, size, device, neighbors, reduction_, solver, outcome>>
    <2>1. UNCHANGED <<context, capacity, backend, pose>> /\ pc = "transform"
      BY <1>2 DEF created, solver, Transform
    <2>2. TypeInv' /\ Within' /\ Rounds' /\ Told' /\ Silent'
      BY <1>2, <2>1, SolverKept DEF Steps, CpuSteps
    <2>3. Bounded'
      BY <1>2, <2>1 DEF IInv, Bounded, blocks
    <2>4. Pipeline'
      BY <1>2, <2>1 DEF IInv, Pipeline, Steps, CpuSteps, Current
    <2> QED BY <2>2, <2>3, <2>4 DEF IInv
  <1> QED BY <1>1, <1>2 DEF Transform

LEMMA QuerySafe == ASSUME IInv, Query PROVE IInv'
  <1>1. CASE Throws
    BY <1>1, ThrowsSafe
  <1>2. CASE /\ neighbors' = transformed_ /\ pc' = "reduce"
             /\ UNCHANGED <<created, calls, size, device, transformed_, reduction_, solver, outcome>>
    <2>1. UNCHANGED <<context, capacity, backend, pose>> /\ pc = "query"
      BY <1>2 DEF created, solver, Query
    <2>2. TypeInv' /\ Within' /\ Rounds' /\ Told' /\ Silent'
      BY <1>2, <2>1, SolverKept DEF Steps, CpuSteps
    <2>3. Bounded'
      BY <1>2, <2>1 DEF IInv, Bounded, blocks
    <2>4. Pipeline'
      BY <1>2, <2>1 DEF IInv, Pipeline, Steps, CpuSteps, Current
    <2> QED BY <2>2, <2>3, <2>4 DEF IInv
  <1> QED BY <1>1, <1>2 DEF Query

LEMMA ReduceSafe == ASSUME IInv, Reduce PROVE IInv'
  <1>1. CASE Throws
    BY <1>1, ThrowsSafe
  <1>2. CASE /\ reduction_' = [b \in 0 .. blocks(size) - 1 |-> neighbors]
             /\ pc' = Reduced
             /\ UNCHANGED <<created, calls, size, device, transformed_, neighbors, solver, outcome>>
    <2>1. UNCHANGED <<context, capacity, backend, pose>> /\ pc = "reduce"
      BY <1>2 DEF created, solver, Reduce
    <2>2. pc' = IF pose = Final THEN "report" ELSE "solve"
      BY <1>2 DEF Reduced
    <2>3. TypeInv' /\ Within' /\ Rounds' /\ Told' /\ Silent'
      BY <1>2, <2>1, <2>2, SolverKept DEF Steps, CpuSteps
    <2>4. Cardinality(DOMAIN reduction_') = blocks(size)
      BY <1>2, Sizes, BlocksNat DEF IInv, TypeInv
    <2>5. blocks(size) \in Nat /\ blocks(size) <= blocks(capacity)
      BY <2>1, BlocksNat, BlocksGrow DEF IInv, TypeInv, Within
    <2>6. Bounded'
      BY <2>1, <2>4, <2>5 DEF Bounded, blocks
    <2>7. neighbors = Current /\ backend = "cpu"
      BY <2>1 DEF IInv, Pipeline, CpuSteps
    <2>8. Current' = Current /\ blocks(size)' = blocks(size)
      BY <1>2, <2>1 DEF Current, blocks
    <2>9. Pipeline'
      BY <1>2, <2>1, <2>2, <2>4, <2>7, <2>8 DEF Pipeline, Steps, CpuSteps
    <2> QED BY <2>3, <2>6, <2>9 DEF IInv
  <1> QED BY <1>1, <1>2 DEF Reduce

LEMMA EvaluateSafe == ASSUME IInv, Evaluate PROVE IInv'
  <1>1. CASE Throws
    BY <1>1, ThrowsSafe
  <1>2. CASE /\ reduction_' = [b \in {0} |-> [scan |-> device, pose |-> pose]]
             /\ pc' = Reduced
             /\ UNCHANGED <<created, calls, size, device, transformed_, neighbors, solver, outcome>>
    <2>1. UNCHANGED <<context, capacity, backend, pose>> /\ pc = "evaluate"
      BY <1>2 DEF created, solver, Evaluate
    <2>2. pc' = IF pose = Final THEN "report" ELSE "solve"
      BY <1>2 DEF Reduced
    <2>3. TypeInv' /\ Within' /\ Rounds' /\ Told' /\ Silent'
      BY <1>2, <2>1, <2>2, SolverKept DEF Steps, CpuSteps
    <2>4. Cardinality(DOMAIN reduction_') = 1
      BY <1>2, Sizes
    <2>5. capacity \in Nat \ {0} /\ blocks(capacity) >= 1
      BY <2>1, BlocksPositive DEF IInv, TypeInv, Within
    <2>6. Bounded'
      BY <2>1, <2>4, <2>5 DEF Bounded, blocks
    <2>7. backend = "gpu" /\ device = calls
      BY <2>1 DEF IInv, Pipeline, Steps
    <2>8. Current' = [scan |-> device, pose |-> pose]
      BY <1>2, <2>1, <2>7 DEF Current
    <2>9. Pipeline'
      BY <1>2, <2>1, <2>2, <2>4, <2>7, <2>8 DEF Pipeline, Steps, CpuSteps
    <2> QED BY <2>3, <2>6, <2>9 DEF IInv
  <1> QED BY <1>1, <1>2 DEF Evaluate

\* The loop is left with flags that mean what they say.
LEMMA LeaveSafe ==
    ASSUME IInv, pc = "solve", NEW c \in Convergences, Leave(c), UNCHANGED <<created, calls, size, buffers, outcome>>,
           iteration' \in Nat, completed' \in Nat,
           previous' \in Residuals \union {Infinite}, mean' \in Residuals \union {Infinite},
           Means(c, completed)'
    PROVE  IInv'
  <1>1. /\ convergence' = c /\ pose' = Final /\ pc' = IF backend = "gpu" THEN "evaluate" ELSE "transform"
        /\ UNCHANGED <<context, capacity, backend, calls, size, device, reduction_, outcome>>
    BY DEF Leave, Reevaluate, created, buffers
  <1>2. TypeInv'
    BY <1>1 DEF IInv, TypeInv, Steps, CpuSteps, Final
  <1>3. Within' /\ Silent' /\ Told'
    BY <1>1 DEF IInv, Within, Silent, Told, Nothing
  <1>4. Bounded'
    BY <1>1 DEF IInv, Bounded, blocks
  <1>5. Pipeline'
    BY <1>1 DEF IInv, TypeInv, Pipeline, Steps, CpuSteps
  <1>6. Rounds'
    <2>1. Means(convergence, completed)'
      BY <1>1 DEF Means
    <2> QED BY <1>1, <2>1 DEF Rounds
  <1> QED BY <1>2, <1>3, <1>4, <1>5, <1>6 DEF IInv

LEMMA SolveSafe ==
    ASSUME IInv, NEW enough \in BOOLEAN, NEW fullRank \in BOOLEAN, NEW m \in Residuals \union {Infinite},
           NEW s \in {"not_finite", "small", "large"}, Solve(enough, fullRank, m, s)
    PROVE  IInv'
  <1>1. /\ pc = "solve" /\ pose # Final /\ completed = iteration /\ iteration < MaxIterations
        /\ iteration \in Nat /\ completed \in Nat /\ MaxIterations \in Nat
        /\ previous \in Residuals \union {Infinite} /\ mean \in Residuals \union {Infinite}
    BY RegistrationAssumption DEF IInv, TypeInv, Pipeline, Rounds, Solve, Steps
  <1>2. /\ UNCHANGED <<created, calls, size, buffers, outcome>>
        /\ mean' = IF Degenerate(enough, fullRank) THEN mean ELSE m
    BY DEF Solve
  <1>3. CASE /\ Degenerate(enough, fullRank)
             /\ Leave("degenerate_input")
             /\ UNCHANGED <<iteration, completed, previous, step>>
    <2>1. Means("degenerate_input", completed)'
      BY <1>1, <1>3 DEF Means
    <2> QED BY <1>1, <1>2, <1>3, <2>1, LeaveSafe DEF Convergences
  <1>4. CASE /\ ~Degenerate(enough, fullRank) /\ Improved(m)
             /\ Leave("converged")
             /\ UNCHANGED <<iteration, completed, previous, step>>
    <2>1. /\ iteration > 0 /\ previous # Infinite /\ mean' = m /\ m # Infinite
          /\ previous - m \in 0 .. ResidualEpsilon - 1
      BY <1>2, <1>4 DEF Improved
    <2>2. previous \in Int /\ m \in Int /\ ResidualEpsilon \in Nat
      BY <1>1, ResidualType, RegistrationAssumption
    <2>3. m <= previous /\ previous < m + ResidualEpsilon
      BY <2>1, <2>2
    <2>4. Means("converged", completed)'
      BY <1>1, <1>4, <2>1, <2>3 DEF Means
    <2> QED BY <1>1, <1>2, <1>4, <2>1, <2>4, LeaveSafe DEF Convergences
  <1>5. CASE /\ ~Degenerate(enough, fullRank) /\ ~Improved(m)
             /\ previous' = m /\ step' = s
             /\ \/ /\ s = "not_finite"
                   /\ Leave("degenerate_input")
                   /\ UNCHANGED <<iteration, completed>>
                \/ /\ s = "small"
                   /\ completed' = completed + 1
                   /\ Leave("converged")
                   /\ UNCHANGED iteration
                \/ /\ s = "large"
                   /\ completed' = completed + 1
                   /\ iteration' = iteration + 1
                   /\ IF iteration + 1 < MaxIterations
                      THEN pose' = completed + 1 /\ pc' = Reevaluate /\ UNCHANGED convergence
                      ELSE Leave("not_converged")
    <2>1. mean' = m
      BY <1>2, <1>5
    <2>2. CASE s = "not_finite" /\ Leave("degenerate_input") /\ UNCHANGED <<iteration, completed>>
      <3>1. Means("degenerate_input", completed)'
        BY <1>1, <2>2 DEF Means
      <3> QED BY <1>1, <1>2, <1>5, <2>1, <2>2, <3>1, LeaveSafe DEF Convergences
    <2>3. CASE s = "small" /\ completed' = completed + 1 /\ Leave("converged") /\ UNCHANGED iteration
      <3>1. Means("converged", completed)'
        BY <1>1, <1>5, <2>3 DEF Means
      <3> QED BY <1>1, <1>2, <1>5, <2>1, <2>3, <3>1, LeaveSafe DEF Convergences
    <2>4. CASE /\ s = "large" /\ completed' = completed + 1 /\ iteration' = iteration + 1
               /\ iteration + 1 >= MaxIterations /\ Leave("not_converged")
      <3>1. Means("not_converged", completed)'
        BY <1>1, <1>5, <2>4 DEF Means
      <3> QED BY <1>1, <1>2, <1>5, <2>1, <2>4, <3>1, LeaveSafe DEF Convergences
    <2>5. CASE /\ s = "large" /\ completed' = completed + 1 /\ iteration' = iteration + 1
               /\ iteration + 1 < MaxIterations
               /\ pose' = completed + 1 /\ pc' = Reevaluate /\ UNCHANGED convergence
      <3>1. /\ pc' = IF backend = "gpu" THEN "evaluate" ELSE "transform"
            /\ UNCHANGED <<context, capacity, backend, calls, size, device, reduction_, outcome>>
        BY <1>2, <2>5 DEF Reevaluate, created, buffers
      <3>2. TypeInv'
        BY <1>1, <1>5, <2>1, <2>5, <3>1 DEF IInv, TypeInv, Steps, CpuSteps
      <3>3. Within' /\ Silent' /\ Told'
        BY <1>1, <3>1 DEF IInv, Within, Silent, Told, Nothing
      <3>4. Bounded'
        BY <3>1 DEF IInv, Bounded, blocks
      <3>5. Pipeline'
        BY <1>1, <3>1 DEF IInv, TypeInv, Pipeline, Steps, CpuSteps
      <3>6. Rounds'
        BY <1>1, <2>5 DEF Rounds, Final
      <3> QED BY <3>2, <3>3, <3>4, <3>5, <3>6 DEF IInv
    <2>6. (iteration + 1 < MaxIterations) \/ (iteration + 1 >= MaxIterations)
      BY <1>1
    <2> QED BY <1>5, <2>2, <2>3, <2>4, <2>5, <2>6
  <1> QED BY <1>3, <1>4, <1>5 DEF Solve

LEMMA FinishSafe == ASSUME IInv, Finish PROVE IInv'
  <1> DEFINE o == [kind |-> "metrics", convergence |-> convergence, iterations |-> completed]
  <1>1. CASE Throws
    BY <1>1, ThrowsSafe
  <1>2. CASE Return(o) /\ UNCHANGED buffers
    <2>1. convergence \in Convergences /\ Means(convergence, completed)
      BY DEF IInv, Pipeline, Rounds, Finish, Steps
    <2>2. o.convergence = convergence /\ o.iterations = completed
      OBVIOUS
    <2>3. UNCHANGED reduction_
      BY <1>2 DEF buffers
    <2> HIDE DEF o
    <2> QED BY <1>2, <2>1, <2>2, <2>3, ReturnSafe
  <1> QED BY <1>1, <1>2 DEF Finish

-----------------------------------------------------------------------------
\* The inductive invariant holds in every reachable state.
THEOREM Inductive == Spec => []IInv
  <1>1. Init => IInv
    <2> SUFFICES ASSUME Init PROVE IInv
      OBVIOUS
    <2>1. Cardinality(DOMAIN reduction_) = 0
      BY Sizes DEF Init
    <2>2. TypeInv /\ Within /\ Bounded /\ Silent
      BY <2>1 DEF Init, TypeInv, Within, Bounded, Silent
    <2>3. Pipeline /\ Rounds /\ Told
      BY DEF Init, Pipeline, Rounds, Told, Nothing, Steps, CpuSteps
    <2> QED BY <2>2, <2>3 DEF IInv
  <1>2. IInv /\ [Next]_vars => IInv'
    <2> SUFFICES ASSUME IInv, [Next]_vars PROVE IInv'
      OBVIOUS
    <2>1. Capacities \subseteq Nat /\ ScanSizes \subseteq Nat
      BY RegistrationAssumption
    <2>2. CASE \E requested \in {"cpu", "gpu", "automatic"},
                  m \in {"point_to_plane", "point_to_point", "gicp"}, available \in BOOLEAN :
                  \/ \E max \in Capacities : Create(max, requested, m, available)
                  \/ \E n \in ScanSizes, scan \in Scans : RegisterSurfaces(n, scan, requested, m, available)
      BY <2>1, <2>2, CreateSafe, RegisterSurfacesSafe
    <2>3. CASE MoveFrom
      BY <2>3, MoveFromSafe
    <2>4. CASE \E n \in ScanSizes, scan \in Scans : Align(n, scan)
      BY <2>4, AlignSafe
    <2>5. CASE Work
      <3>1. CASE Solving
        BY <3>1, SolveSafe DEF Solving
      <3> QED BY <2>5, <3>1, PrepareSafe, TransformSafe, QuerySafe, ReduceSafe, EvaluateSafe, FinishSafe DEF Work
    <2>6. CASE UNCHANGED vars
      <3>1. UNCHANGED <<context, capacity, backend, pc, calls, size, device, transformed_, neighbors, reduction_,
                        pose, iteration, completed, convergence, previous, mean, step, outcome>>
        BY <2>6 DEF vars, created, buffers, solver
      <3>2. TypeInv' /\ Within' /\ Silent'
        BY <3>1 DEF IInv, TypeInv, Within, Silent
      <3>3. Bounded' /\ Pipeline'
        BY <3>1 DEF IInv, Bounded, Pipeline, blocks, Current
      <3>4. Rounds' /\ Told'
        BY <3>1 DEF IInv, Rounds, Told, Means
      <3> QED BY <3>2, <3>3, <3>4 DEF IInv
    <2> QED BY <2>2, <2>3, <2>4, <2>5, <2>6 DEF Next
  <1> QED BY <1>1, <1>2, PTL DEF Spec

\* Whatever is solved or reported was computed from this call's scan at the
\* present pose, and the sums stay within the blocks reserved.
THEOREM FreshSums == Spec => []SumsFresh
  <1>1. IInv => SumsFresh
    BY DEF IInv, Pipeline, Bounded, SumsFresh
  <1> QED BY <1>1, Inductive, PTL

\* The convergence that is reported is the reason the loop was left.
THEOREM ConvergenceCorrect == Spec => []ConvergenceMeans
  <1>1. IInv => ConvergenceMeans
    BY DEF IInv, Told, Means, ConvergenceMeans, Convergences
  <1> QED BY <1>1, Inductive, PTL
=============================================================================

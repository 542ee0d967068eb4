------------------------- MODULE CpuExecutorProofs -------------------------
(***************************************************************************)
(* Proofs about CpuExecutor for every budget, capacity, block size, set of *)
(* jobs and width of std::size_t: IInv is inductive, and the safety        *)
(* properties follow from it.                                              *)
(***************************************************************************)
EXTENDS CpuExecutor, FiniteSetTheorems, TLAPS

-----------------------------------------------------------------------------
\* Arithmetic of blocks, strides and generations

\* Division with remainder, the form in which the provers know it.
LEMMA DivMod ==
    ASSUME NEW C \in Nat \ {0}, NEW x \in Nat
    PROVE  /\ x = C * (x \div C) + (x % C)
           /\ x % C \in 0 .. (C - 1)
           /\ x \div C \in Nat
  OBVIOUS

\* A number below the divisor is its own residue.
LEMMA SmallResidue ==
    ASSUME NEW C \in Nat \ {0}, NEW x \in 0 .. (C - 1)
    PROVE  x % C = x
  OBVIOUS

\* A residue is at most the number.
LEMMA ResidueBelow ==
    ASSUME NEW C \in Nat \ {0}, NEW x \in Nat
    PROVE  x % C <= x
  <1>1. x = C * (x \div C) + (x % C) /\ x % C \in 0 .. (C - 1) /\ x \div C \in Nat
    BY DivMod
  <1>2. C * (x \div C) >= 0
    BY <1>1
  <1> QED BY <1>1, <1>2

\* Multiples of C are at least C apart.
LEMMA Multiples ==
    ASSUME NEW C \in Nat \ {0}, NEW p \in Int, NEW q \in Int, p < q
    PROVE  C * p + C <= C * q
  <1>1. C * (q - p) >= C
    OBVIOUS
  <1>2. C * (q - p) = C * q - C * p
    OBVIOUS
  <1> QED BY <1>1, <1>2

\* execute()'s step block += count_ stays in the same residue class.
LEMMA StrideKeepsResidue ==
    ASSUME NEW C \in Nat \ {0}, NEW x \in Nat
    PROVE  (x + C) % C = x % C
  <1> DEFINE p == x \div C
             q == (x + C) \div C
  <1>1. x = C * p + (x % C) /\ x % C \in 0 .. (C - 1) /\ p \in Int
    BY DivMod
  <1>2. x + C = C * q + ((x + C) % C) /\ (x + C) % C \in 0 .. (C - 1) /\ q \in Int
    BY DivMod, x + C \in Nat
  <1>3. C * (p + 1) = C * p + C
    BY <1>1
  <1>4. p + 1 \in Int
    BY <1>1
  <1> HIDE DEF p, q
  <1>5. ~(p + 1 < q)
    BY <1>1, <1>2, <1>3, <1>4, Multiples
  <1>6. ~(q < p + 1)
    BY <1>1, <1>2, <1>3, <1>4, Multiples
  <1>7. p + 1 = q
    BY <1>1, <1>2, <1>5, <1>6
  <1> QED BY <1>1, <1>2, <1>3, <1>7

\* Between x and x + C only x has x's residue: the stride skips nothing that
\* belongs to the thread.
LEMMA StrideSkipsNothing ==
    ASSUME NEW C \in Nat \ {0}, NEW x \in Nat, NEW b \in Nat,
           x % C = b % C, x <= b, b < x + C
    PROVE  x = b
  <1> DEFINE p == x \div C
             q == b \div C
  <1>1. x = C * p + (x % C) /\ x % C \in 0 .. (C - 1) /\ p \in Int
    BY DivMod
  <1>2. b = C * q + (b % C) /\ b % C \in 0 .. (C - 1) /\ q \in Int
    BY DivMod
  <1>3. ~(p < q)
    BY <1>1, <1>2, Multiples
  <1>4. ~(q < p)
    BY <1>1, <1>2, Multiples
  <1> HIDE DEF p, q
  <1> QED BY <1>1, <1>2, <1>3, <1>4

\* Incrementing generation_ always gives a different value, wrap included.
LEMMA GenerationChanges ==
    ASSUME NEW M \in Nat \ {0, 1}, NEW g \in 0 .. (M - 1)
    PROVE  (g + 1) % M # g /\ (g + 1) % M \in 0 .. (M - 1)
  OBVIOUS

\* blocks counts with natural numbers.
LEMMA BlocksNat == ASSUME NEW n \in Nat PROVE blocks(n) \in Nat
  <1>1. n \div BlockSize \in Nat
    BY DivMod, ExecutorAssumption
  <1> QED BY <1>1 DEF blocks

\* The executor has at least the calling thread.
LEMMA CountPositive == count_ \in Nat \ {0}
  BY BlocksNat, ExecutorAssumption DEF count_, Least

\* A job has a natural size and fails only in its own blocks.
LEMMA JobType ==
    ASSUME NEW job \in Jobs
    PROVE  job.total \in Nat /\ job.fails \in SUBSET (0 .. (job.total - 1))
  <1>1. PICK p \in PointCounts : job \in [total : {blocks(p)}, fails : SUBSET (0 .. (blocks(p) - 1))]
    BY DEF Jobs
  <1>2. blocks(p) \in Nat
    BY BlocksNat, ExecutorAssumption
  <1> QED BY <1>1, <1>2

\* Every block belongs to one of the threads.
LEMMA BlockOwner ==
    ASSUME request.total \in Nat, NEW b \in PF!BlocksOf(request)
    PROVE  b \in Nat /\ b % count_ \in Threads
  <1>1. b \in Nat
    BY DEF PF!BlocksOf
  <1>2. b % count_ \in 0 .. (count_ - 1)
    BY <1>1, CountPositive, DivMod
  <1> QED BY <1>1, <1>2 DEF Threads

\* Owing is a finite set, so its cardinality is a number that counts it.
LEMMA OwingFinite ==
    /\ IsFiniteSet(Workers) /\ Cardinality(Workers) = count_ - 1
    /\ IsFiniteSet(Owing) /\ Cardinality(Owing) \in Nat
    /\ Cardinality(Owing) = 0 <=> Owing = {}
  <1>1. IsFiniteSet(Workers) /\ Cardinality(Workers) = count_ - 1
    <2>1. CASE count_ = 1
      BY <2>1, FS_EmptySet, 1 .. 0 = {} DEF Workers
    <2>2. CASE count_ # 1
      BY <2>2, CountPositive, FS_Interval DEF Workers
    <2> QED BY <2>1, <2>2
  <1>2. Owing \subseteq Workers
    BY DEF Owing
  <1>3. IsFiniteSet(Owing)
    BY <1>1, <1>2, FS_Subset
  <1>4. Cardinality(Owing) \in Nat
    BY <1>3, FS_CardinalityType
  <1>5. Cardinality(Owing) = 0 <=> Owing = {}
    BY <1>3, FS_EmptySet
  <1> QED BY <1>1, <1>3, <1>4, <1>5

-----------------------------------------------------------------------------
\* IInv is inductive

\* The invariant holds before the constructor has started a thread.
LEMMA InitEstablishes == Init => IInv
  <1> SUFFICES ASSUME Init PROVE IInv
    OBVIOUS
  <1> USE CountPositive, ExecutorAssumption
  <1>1. TypeOK
    <2>1. 0 \in Threads /\ \A w \in Workers : w \in Threads /\ w # 0
      BY DEF Threads, Workers
    <2>2. /\ pc \in [Threads -> Label \union CallerLabel]
          /\ pc[0] \in CallerLabel
          /\ \A w \in Workers : pc[w] \in Label
      BY <2>1 DEF Init, Label, CallerLabel, Closed
    <2>3. request.total \in Nat /\ request.fails \in SUBSET (0 .. (request.total - 1))
      BY DEF Init
    <2>4. /\ block \in [Threads -> Nat]
          /\ observed \in [Threads -> 0 .. (SizeModulus - 1)]
          /\ generation_ \in 0 .. (SizeModulus - 1)
      BY DEF Init
    <2>5. stopping_ \in BOOLEAN
      BY Zenon DEF Init
    <2> QED BY <2>2, <2>3, <2>4, <2>5 DEF Init, TypeOK
  <1>2. Owing = {}
    BY DEF Init, Owing, Threads, Workers
  <1>3. PendingIsExact
    BY <1>2, FS_EmptySet DEF Init, PendingIsExact
  <1>4. Lifecycle /\ Answering
    BY <1>2 DEF Init, Lifecycle, Answering, Threads, Workers, Closed, Working
  <1>5. Publication /\ Partition
    BY DEF Init, Publication, Partition, Threads, InFlight, Executing
  <1> QED BY <1>1, <1>3, <1>4, <1>5 DEF IInv

\* Steps of the caller outside a run in flight: no worker owes an answer
\* before or after.
LEMMA LifecycleSteps ==
    ASSUME IInv, \/ Spawn \/ SpawnThrows \/ Constructed \/ Destroy
                 \/ StopFlag \/ StopNotify \/ StopJoin
    PROVE  IInv'
  <1> USE CountPositive, ExecutorAssumption DEF IInv
  <1>1. CASE Spawn
    <2> USE <1>1 DEF Spawn, Goto
    <2>1. TypeOK'
      BY DEF TypeOK, runVars, Threads, Workers, Label, CallerLabel, Closed
    <2>2. Lifecycle'
      BY DEF TypeOK, Lifecycle, Threads, Workers, Closed
    <2>3. Owing' = Owing
      BY DEF TypeOK, Lifecycle, Owing, Threads, Workers
    <2>4. PendingIsExact' /\ Answering'
      BY <2>3 DEF TypeOK, PendingIsExact, Answering, Threads, Workers, InFlight, Working
    <2>5. Publication' /\ Partition'
      BY DEF TypeOK, Publication, Partition, Threads, Workers, InFlight, Executing, runVars
    <2> QED BY <2>1, <2>2, <2>4, <2>5
  <1>2. CASE SpawnThrows \/ Constructed \/ Destroy \/ StopFlag \/ StopJoin
    <2> USE DEF syncVars, runVars
    <2>1. /\ pc[0] \in Closed \union {"idle"} /\ pc'[0] \in Closed \union {"idle"}
          /\ pc' \in [Threads -> Label \union CallerLabel]
          /\ \A w \in Workers : pc'[w] = pc[w]
          /\ UNCHANGED <<block, observed, threads_, job_, blocks_, pending_, generation_, errors_,
                         request, done>>
      <3> USE DEF Goto, TypeOK, Threads, Workers, Closed, CallerLabel
      <3>1. CASE SpawnThrows
        BY <3>1 DEF SpawnThrows
      <3>2. CASE Constructed
        BY <3>2 DEF Constructed
      <3>3. CASE Destroy
        BY <3>3 DEF Destroy
      <3>4. CASE StopFlag
        BY <3>4 DEF StopFlag
      <3>5. CASE StopJoin
        BY <3>5 DEF StopJoin
      <3> QED BY <1>2, <3>1, <3>2, <3>3, <3>4, <3>5
    <2>2. TypeOK'
      <3>1. stopping_' \in BOOLEAN
        BY <1>2, Zenon DEF SpawnThrows, Constructed, Destroy, StopFlag, StopJoin, TypeOK
      <3> QED BY <2>1, <3>1 DEF TypeOK, Threads, Workers, CallerLabel, Closed
    <2>3. Lifecycle'
      <3>1. CASE SpawnThrows \/ Constructed
        BY <2>1, <3>1 DEF SpawnThrows, Constructed, Goto, TypeOK, Lifecycle, Threads, Workers, Closed
      <3>2. CASE Destroy \/ StopFlag
        BY <2>1, <3>2 DEF Destroy, StopFlag, Goto, TypeOK, Lifecycle, Threads, Workers, Closed
      <3>3. CASE StopJoin
        BY <2>1, <3>3 DEF StopJoin, Goto, TypeOK, Lifecycle, Threads, Workers, Closed
      <3> QED BY <1>2, <3>1, <3>2, <3>3
    <2>4. Owing' = Owing
      BY <2>1 DEF Owing
    <2>5. PendingIsExact' /\ Answering'
      BY <2>1, <2>4 DEF PendingIsExact, Answering, InFlight, Working, Closed
    <2>6. Publication'
      BY <2>1 DEF Publication, InFlight, Closed
    <2>7. Partition'
      <3>1. \A t \in Threads : pc'[t] \in Executing => pc[t] = pc'[t]
        BY <2>1 DEF Threads, Workers, Executing, Closed
      <3> QED BY <2>1, <3>1 DEF Partition, InFlight, Closed, Executing
    <2> QED BY <2>2, <2>3, <2>5, <2>6, <2>7
  <1>3. CASE StopNotify
    <2> USE <1>3 DEF StopNotify, NotifyReady, syncVars, runVars
    <2>1. TypeOK'
      BY DEF TypeOK, Threads, Workers, Label, CallerLabel, Closed
    <2>2. Lifecycle'
      BY DEF TypeOK, Lifecycle, Threads, Workers, Closed
    <2>3. Owing' = Owing
      BY DEF TypeOK, Owing, Threads, Workers
    <2>4. PendingIsExact' /\ Answering'
      BY <2>3 DEF TypeOK, PendingIsExact, Answering, Threads, Workers, InFlight, Working
    <2>5. Publication' /\ Partition'
      BY DEF TypeOK, Publication, Partition, Threads, Workers, InFlight, Executing
    <2> QED BY <2>1, <2>2, <2>4, <2>5
  <1> QED BY <1>1, <1>2, <1>3

\* The parts of run before publication and after the last answer.
LEMMA QuietRunSteps ==
    ASSUME IInv, \/ \E job \in Jobs : RunEmpty(job) \/ Run(job)
                 \/ RunRefused \/ RunAssign \/ RunScan
    PROVE  IInv'
  <1> USE CountPositive, ExecutorAssumption DEF IInv
  <1> DEFINE Quiet == {"idle", "assign", "publish", "scan"}
  <1>1. /\ pc[0] \in Quiet \ {"publish"} /\ pc'[0] \in Quiet \ {"scan"}
        /\ pc' \in [Threads -> Label \union CallerLabel]
        /\ \A w \in Workers : pc'[w] = pc[w]
        /\ UNCHANGED <<block, observed, threads_, job_, blocks_, pending_, generation_>>
    <2> USE DEF Goto, TypeOK, Threads, Workers, CallerLabel, Running, syncVars
    <2>1. ASSUME NEW job \in Jobs, RunEmpty(job) PROVE <1>1!:
      BY <2>1 DEF RunEmpty
    <2>2. ASSUME NEW job \in Jobs, Run(job) PROVE <1>1!:
      BY <2>2 DEF Run
    <2>3. CASE RunRefused
      BY <2>3 DEF RunRefused
    <2>4. CASE RunAssign
      BY <2>4 DEF RunAssign
    <2>5. CASE RunScan
      BY <2>5 DEF RunScan
    <2> QED BY <2>1, <2>2, <2>3, <2>4, <2>5
  <1>2. /\ errors_' \in SUBSET Nat /\ done' \in SUBSET Nat
        /\ request'.total \in Nat /\ request'.fails \in SUBSET (0 .. (request'.total - 1))
    BY JobType DEF TypeOK, RunEmpty, Run, RunRefused, RunAssign, RunScan, runVars
  <1>3. UNCHANGED stopping_
    BY DEF RunEmpty, Run, RunRefused, RunAssign, RunScan, syncVars
  <1>4. TypeOK'
    BY <1>1, <1>2, <1>3 DEF TypeOK, CallerLabel, Running
  <1>5. Lifecycle'
    BY <1>1, <1>3 DEF Lifecycle, Closed
  <1>6. Owing' = Owing
    BY <1>1 DEF Owing
  <1>7. PendingIsExact' /\ Answering'
    BY <1>1, <1>6 DEF PendingIsExact, Answering, InFlight, Working
  <1>8. Publication'
    <2>1. pc'[0] \in {"assign", "publish"} => done' = {}
      BY <1>1 DEF TypeOK, Publication, RunEmpty, Run, RunRefused, RunAssign, RunScan, Goto, runVars, Threads
    <2>2. pc'[0] = "publish" => errors_' = {}
      BY <1>1 DEF TypeOK, Publication, RunEmpty, Run, RunRefused, RunAssign, RunScan, Goto, Threads
    <2> QED BY <1>1, <2>1, <2>2 DEF Publication, InFlight
  <1>9. Partition'
    <2>1. \A t \in Threads : pc'[t] \in Executing => pc[t] = pc'[t]
      BY <1>1 DEF Threads, Workers, Executing
    <2> QED BY <1>1, <2>1 DEF Partition, InFlight, Executing
  <1> QED BY <1>4, <1>5, <1>7, <1>8, <1>9

\* Publication: every worker owes an answer from now on.
LEMMA PublishStep == ASSUME IInv, RunPublish PROVE IInv'
  <1> USE CountPositive, ExecutorAssumption DEF IInv
  <1>1. /\ pc[0] = "publish" /\ pc'[0] = "notify"
        /\ pc' \in [Threads -> Label \union CallerLabel]
        /\ \A w \in Workers : pc'[w] = pc[w]
        /\ UNCHANGED <<block, observed, threads_, errors_, request, done>>
        /\ job_' = {request.fails} /\ blocks_' = request.total /\ pending_' = threads_
    BY DEF RunPublish, Goto, TypeOK, Threads, Workers, CallerLabel, Running, runVars
  <1>2. generation_' # generation_ /\ generation_' \in 0 .. (SizeModulus - 1)
    BY GenerationChanges DEF RunPublish, TypeOK
  <1>3. UNCHANGED stopping_
    BY DEF RunPublish
  <1>4. TypeOK'
    BY <1>1, <1>2, <1>3 DEF TypeOK, CallerLabel, Running
  <1>5. Lifecycle'
    BY <1>1, <1>3 DEF Lifecycle, Closed
  <1>6. \A w \in Workers : pc[w] \in {"locked", "waiting"} /\ observed[w] = generation_
    <2>1. Owing = {}
      BY <1>1 DEF Answering, InFlight
    <2>2. ~stopping_ /\ threads_ = count_ - 1
      BY <1>1 DEF Lifecycle, Closed
    <2>3. \A w \in Workers : pc[w] \in Label \ {"none", "exited"}
      BY <2>2 DEF Lifecycle, TypeOK, Workers
    <2> QED BY <2>1, <2>3 DEF Owing, Label
  <1>7. Owing' = Workers
    BY <1>1, <1>2, <1>6 DEF Owing
  <1>8. PendingIsExact' /\ Answering'
    <2>1. threads_ = count_ - 1
      BY <1>1 DEF Lifecycle, Closed
    <2> QED BY <1>1, <1>6, <1>7, <2>1, OwingFinite DEF PendingIsExact, Answering, InFlight, Working
  <1>9. Publication'
    BY <1>1 DEF Publication, InFlight
  <1>10. Partition'
    <2>1. \A t \in Threads : pc'[t] \notin Executing
      BY <1>1, <1>6 DEF Threads, Workers, Executing
    <2>2. \A b \in PF!BlocksOf(request) : ~Passed(b % count_, b)'
      <3> SUFFICES ASSUME NEW b \in PF!BlocksOf(request) PROVE ~Passed(b % count_, b)'
        OBVIOUS
      <3>1. b % count_ \in Threads
        BY BlockOwner DEF TypeOK
      <3> QED BY <1>1, <1>6, <1>7, <2>1, <3>1 DEF Passed, Threads, Workers
    <2>3. done = {}
      BY <1>1 DEF Publication
    <2> QED BY <1>1, <2>1, <2>2, <2>3 DEF Partition, Executing
  <1> QED BY <1>4, <1>5, <1>8, <1>9, <1>10

\* notify_all changes only who is asleep; the caller starts at block 0.
LEMMA NotifyStep == ASSUME IInv, RunNotify PROVE IInv'
  <1> USE CountPositive, ExecutorAssumption DEF IInv
  <1>1. /\ pc[0] = "notify" /\ pc'[0] = "test"
        /\ pc' \in [Threads -> Label \union CallerLabel]
        /\ \A w \in Workers : IF pc[w] = "waiting" THEN pc'[w] = "locked" ELSE pc'[w] = pc[w]
        /\ UNCHANGED <<observed, threads_, errors_, request, done, job_, blocks_, pending_, generation_>>
        /\ block' \in [Threads -> Nat] /\ block'[0] = 0
        /\ \A w \in Workers : block'[w] = block[w]
    BY DEF RunNotify, NotifyReady, TypeOK, Threads, Workers, Label, CallerLabel, Running, runVars, syncVars
  <1>2. UNCHANGED stopping_
    BY DEF RunNotify, syncVars
  <1>3. TypeOK'
    BY <1>1, <1>2 DEF TypeOK, Label, CallerLabel, Running
  <1>4. Lifecycle'
    BY <1>1, <1>2 DEF Lifecycle, Closed
  <1>5. Owing' = Owing
    BY <1>1 DEF Owing
  <1>6. PendingIsExact' /\ Answering'
    BY <1>1, <1>5 DEF PendingIsExact, Answering, InFlight, Working
  <1>7. Publication'
    BY <1>1 DEF Publication, InFlight
  <1>8. Partition'
    <2>1. \A t \in Threads : pc'[t] \in Executing => block'[t] % count_ = t
      <3>1. 0 % count_ = 0
        BY DivMod
      <3> QED BY <1>1, <3>1 DEF Partition, Threads, Workers, Executing
    <2>2. \A t \in Threads : pc'[t] = "call" => block'[t] < blocks_'
      BY <1>1 DEF Partition, Threads, Workers
    <2>3. \A b \in PF!BlocksOf(request) : Passed(b % count_, b)' <=> Passed(b % count_, b)
      <3> SUFFICES ASSUME NEW b \in PF!BlocksOf(request)
                   PROVE  Passed(b % count_, b)' <=> Passed(b % count_, b)
        OBVIOUS
      <3>1. b \in Nat /\ b % count_ \in Threads
        BY BlockOwner DEF TypeOK
      <3> QED BY <1>1, <1>5, <3>1 DEF Passed, Threads, Workers, Executing
    <2> QED BY <1>1, <2>1, <2>2, <2>3 DEF Partition, InFlight
  <1> QED BY <1>3, <1>4, <1>6, <1>7, <1>8

\* The caller goes on only when nobody owes an answer; then every block has
\* completed.
LEMMA AwaitStep == ASSUME IInv, RunAwait PROVE IInv'
  <1> USE CountPositive, ExecutorAssumption DEF IInv
  <1>1. /\ pc[0] = "await" /\ pc'[0] \in {"scan", "finished"}
        /\ pc' \in [Threads -> Label \union CallerLabel]
        /\ \A w \in Workers : pc'[w] = pc[w]
        /\ UNCHANGED <<block, observed, threads_, errors_, request, done, blocks_, pending_, generation_>>
        /\ pc'[0] = "scan" => pending_ = 0 /\ job_' = {}
        /\ pc'[0] = "finished" => job_' = job_
    <2>1. /\ pc[0] = "await"
          /\ UNCHANGED <<block, observed, threads_, errors_, request, done, blocks_, pending_, generation_>>
      BY DEF RunAwait, runVars
    <2>2. PICK label \in {"scan", "finished"} :
            /\ pc' = [pc EXCEPT ![0] = label]
            /\ label = "scan" => pending_ = 0 /\ job_' = {}
            /\ label = "finished" => job_' = job_
      BY DEF RunAwait, Goto
    <2>3. 0 \in Threads /\ \A w \in Workers : w \in Threads /\ w # 0
      BY DEF Threads, Workers
    <2> QED BY <2>1, <2>2, <2>3 DEF TypeOK, CallerLabel, Running
  <1>2. UNCHANGED stopping_
    BY DEF RunAwait
  <1>3. TypeOK'
    BY <1>1, <1>2 DEF TypeOK, CallerLabel, Running
  <1>4. Lifecycle'
    BY <1>1, <1>2 DEF Lifecycle, Closed
  <1>5. Owing' = Owing
    BY <1>1 DEF Owing
  <1>6. pc'[0] = "scan" => Owing = {}
    BY <1>1, OwingFinite DEF PendingIsExact
  <1>7. PendingIsExact' /\ Answering'
    BY <1>1, <1>5, <1>6 DEF PendingIsExact, Answering, InFlight, Working
  <1>8. Publication'
    <2>1. pc'[0] = "scan" => done = PF!BlocksOf(request)
      <3> SUFFICES ASSUME pc'[0] = "scan" PROVE done = PF!BlocksOf(request)
        OBVIOUS
      <3>1. \A b \in PF!BlocksOf(request) : Passed(b % count_, b)
        BY <1>1, <1>6 DEF Passed
      <3> QED BY <1>1, <3>1 DEF Partition, InFlight
    <2> QED BY <1>1, <2>1 DEF Publication, InFlight, PF!BlocksOf
  <1>9. Partition'
    <2>1. \A t \in Threads : pc'[t] \in Executing => pc[t] = pc'[t]
      BY <1>1 DEF Threads, Workers, Executing
    <2>2. pc'[0] = "finished" => \A b \in PF!BlocksOf(request) : Passed(b % count_, b)' <=> Passed(b % count_, b)
      <3> SUFFICES ASSUME pc'[0] = "finished", NEW b \in PF!BlocksOf(request)
                   PROVE  Passed(b % count_, b)' <=> Passed(b % count_, b)
        OBVIOUS
      <3>1. b \in Nat /\ b % count_ \in Threads
        BY BlockOwner DEF TypeOK
      <3> QED BY <1>1, <1>5, <3>1 DEF Passed, Threads, Workers, Executing
    <2> QED BY <1>1, <2>1, <2>2 DEF Partition, InFlight, Executing, PF!BlocksOf
  <1> QED BY <1>3, <1>4, <1>7, <1>8, <1>9

\* A thread inside execute() does so while its run is in flight.
LEMMA ExecutingInFlight ==
    ASSUME IInv, NEW t \in Threads, pc[t] \in Executing
    PROVE  pc[0] \in InFlight /\ job_ = {request.fails} /\ blocks_ = request.total
  <1>1. pc[0] \in InFlight
    <2>1. CASE t = 0
      BY <2>1 DEF Executing, InFlight
    <2>2. CASE t # 0
      BY <2>2 DEF IInv, Answering, Owing, Executing, Threads, Workers
    <2> QED BY <2>1, <2>2
  <1> QED BY <1>1 DEF IInv, Publication

\* The loop test of execute(): a thread leaves when all its blocks are done.
LEMMA TestStep == ASSUME IInv, NEW t \in Threads, ExecuteTest(t) PROVE IInv'
  <1> USE CountPositive, ExecutorAssumption DEF IInv
  <1>1. pc[t] = "test" /\ UNCHANGED <<block, observed, threads_, job_, blocks_, pending_,
                                      generation_, errors_, request, done>>
    BY DEF ExecuteTest, syncVars, runVars
  <1>2. UNCHANGED stopping_
    BY DEF ExecuteTest, syncVars
  <1>3. PICK label \in {"call", "await", "retire"} :
          /\ pc' = [pc EXCEPT ![t] = label]
          /\ label = "call" <=> block[t] < blocks_
          /\ label = "await" => t = 0
          /\ label = "retire" => t # 0
    BY DEF ExecuteTest, AfterExecute, Goto
  <1>4. 0 \in Threads /\ \A w \in Workers : w \in Threads /\ w # 0
    BY DEF Threads, Workers
  <1>5. TypeOK'
    BY <1>1, <1>2, <1>3, <1>4 DEF TypeOK, Label, CallerLabel, Running
  <1>6. pc[0] \in InFlight /\ pc'[0] \in InFlight /\ blocks_ = request.total
    BY <1>1, <1>3, <1>4, ExecutingInFlight DEF TypeOK, Executing, InFlight
  <1>7. Lifecycle'
    <2>1. pc[0] \notin Closed /\ pc'[0] \notin Closed
      BY <1>6 DEF InFlight, Closed
    <2> QED BY <1>1, <1>2, <1>3, <1>4, <2>1 DEF TypeOK, Lifecycle, Closed
  <1>8. Owing' = Owing
    BY <1>1, <1>3, <1>4 DEF TypeOK, Owing
  <1>9. PendingIsExact' /\ Answering'
    BY <1>1, <1>3, <1>4, <1>6, <1>8 DEF TypeOK, PendingIsExact, Answering, Working
  <1>10. Publication'
    BY <1>1, <1>6 DEF Publication, InFlight
  <1>11. Partition'
    <2>1. \A u \in Threads : pc'[u] \in Executing => pc[u] \in Executing
      BY <1>1, <1>3 DEF TypeOK, Executing
    <2>2. \A u \in Threads : pc'[u] = "call" => block[u] < blocks_
      BY <1>1, <1>3 DEF TypeOK, Partition
    <2>3. \A b \in PF!BlocksOf(request) : Passed(b % count_, b)' <=> Passed(b % count_, b)
      <3> SUFFICES ASSUME NEW b \in PF!BlocksOf(request)
                   PROVE  Passed(b % count_, b)' <=> Passed(b % count_, b)
        OBVIOUS
      <3>1. b \in Nat /\ b % count_ \in Threads /\ b < blocks_
        BY <1>6, BlockOwner DEF TypeOK, PF!BlocksOf
      <3>2. CASE b % count_ = t
        <4>1. block[t] \in Nat /\ blocks_ \in Nat
          BY DEF TypeOK
        <4>2. pc[t] = "test" /\ pc'[t] = label
          BY <1>1, <1>3 DEF TypeOK
        <4>3. label # "call" => b < block[t]
          BY <1>3, <3>1, <4>1
        <4> QED BY <1>1, <1>3, <1>8, <3>2, <4>2, <4>3 DEF Passed, Executing, Owing
      <3>3. CASE b % count_ # t
        <4>1. pc'[b % count_] = pc[b % count_]
          BY <1>3, <3>1, <3>3 DEF TypeOK
        <4> QED BY <1>1, <1>8, <3>1, <4>1 DEF Passed, Executing
      <3> QED BY <3>2, <3>3
    <2> QED BY <1>1, <1>6, <2>1, <2>2, <2>3 DEF Partition
  <1> QED BY <1>5, <1>7, <1>9, <1>10, <1>11

\* One callback: the thread's next block joins done, and nothing else does.
LEMMA CallStep == ASSUME IInv, NEW t \in Threads, ExecuteCall(t) PROVE IInv'
  <1> USE CountPositive, ExecutorAssumption DEF IInv
  <1>1. /\ pc[t] = "call" /\ pc' = [pc EXCEPT ![t] = "test"]
        /\ block' = [block EXCEPT ![t] = block[t] + count_]
        /\ done' = done \union {block[t]}
        /\ UNCHANGED <<observed, threads_, job_, blocks_, pending_, generation_, request>>
    BY DEF ExecuteCall, Goto, syncVars
  <1>2. UNCHANGED stopping_
    BY DEF ExecuteCall, syncVars
  <1>3. 0 \in Threads /\ \A w \in Workers : w \in Threads /\ w # 0
    BY DEF Threads, Workers
  <1>4. pc[0] \in InFlight /\ pc'[0] \in InFlight /\ job_ = {request.fails} /\ blocks_ = request.total
    BY <1>1, <1>3, ExecutingInFlight DEF TypeOK, Executing, InFlight
  <1>5. block[t] \in PF!BlocksOf(request) /\ block[t] \in Nat /\ block[t] % count_ = t
    BY <1>1, <1>4 DEF TypeOK, Partition, Executing, PF!BlocksOf
  <1>6. errors_' = done' \intersect request.fails /\ errors_' \in SUBSET Nat
    <2>1. errors_ = done \intersect request.fails
      BY <1>4 DEF Publication
    <2>2. Throws(block[t]) <=> block[t] \in request.fails
      BY <1>4 DEF Throws
    <2>3. errors_' = IF Throws(block[t]) THEN errors_ \union {block[t]} ELSE errors_
      BY DEF ExecuteCall
    <2> QED BY <1>1, <1>5, <2>1, <2>2, <2>3 DEF TypeOK
  <1>7. TypeOK'
    <2>1. block' \in [Threads -> Nat] /\ done' \in SUBSET Nat
      <3>1. block[t] + count_ \in Nat
        BY <1>5
      <3> QED BY <1>1, <1>5, <3>1 DEF TypeOK
    <2> QED BY <1>1, <1>2, <1>3, <1>6, <2>1 DEF TypeOK, Label, CallerLabel, Running
  <1>8. Lifecycle'
    <2>1. pc[0] \notin Closed /\ pc'[0] \notin Closed
      BY <1>4 DEF InFlight, Closed
    <2> QED BY <1>1, <1>2, <1>3, <2>1 DEF TypeOK, Lifecycle, Closed
  <1>9. Owing' = Owing
    BY <1>1, <1>3 DEF TypeOK, Owing
  <1>10. PendingIsExact' /\ Answering'
    BY <1>1, <1>3, <1>4, <1>9 DEF TypeOK, PendingIsExact, Answering, Working
  <1>11. Publication'
    BY <1>1, <1>4, <1>6 DEF Publication, InFlight
  <1>12. Partition'
    <2>1. \A u \in Threads : pc'[u] \in Executing => block'[u] % count_ = u
      BY <1>1, <1>5, StrideKeepsResidue DEF TypeOK, Partition, Executing
    <2>2. \A u \in Threads : pc'[u] = "call" => block'[u] < blocks_
      BY <1>1 DEF TypeOK, Partition
    <2>3. \A b \in PF!BlocksOf(request) : Passed(b % count_, b)' <=> Passed(b % count_, b) \/ b = block[t]
      <3> SUFFICES ASSUME NEW b \in PF!BlocksOf(request)
                   PROVE  Passed(b % count_, b)' <=> Passed(b % count_, b) \/ b = block[t]
        OBVIOUS
      <3>1. b \in Nat /\ b % count_ \in Threads
        BY BlockOwner DEF TypeOK
      <3>2. CASE b % count_ = t
        <4>1. pc'[t] = "test" /\ block'[t] = block[t] + count_
          BY <1>1 DEF TypeOK
        <4>2. b < block[t] + count_ <=> b < block[t] \/ b = block[t]
          <5>1. block[t] <= b /\ b < block[t] + count_ => block[t] = b
            BY <1>5, <3>1, <3>2, StrideSkipsNothing
          <5> QED BY <1>5, <3>1, <5>1
        <4>3. t # 0 => t \in Owing
          BY <1>1 DEF Owing, Threads, Workers
        <4> QED BY <1>1, <1>9, <3>2, <4>1, <4>2, <4>3 DEF Passed, Executing
      <3>3. CASE b % count_ # t
        <4>1. pc'[b % count_] = pc[b % count_] /\ block'[b % count_] = block[b % count_]
          BY <1>1, <3>1, <3>3 DEF TypeOK
        <4> QED BY <1>1, <1>5, <1>9, <3>1, <3>3, <4>1 DEF Passed, Executing
      <3> QED BY <3>2, <3>3
    <2> QED BY <1>1, <1>4, <1>5, <2>1, <2>2, <2>3 DEF Partition
  <1> QED BY <1>7, <1>8, <1>10, <1>11, <1>12

\* A worker at the head of its loop: it leaves, takes up the run it owes, or
\* goes to sleep; whether it owes an answer does not change.
LEMMA DispatchStep == ASSUME IInv, NEW w \in Workers, WorkerDispatch(w) PROVE IInv'
  <1> USE CountPositive, ExecutorAssumption DEF IInv
  <1>1. pc[w] = "locked" /\ UNCHANGED <<threads_, job_, blocks_, pending_, generation_, errors_,
                                        request, done>>
    BY DEF WorkerDispatch, syncVars, runVars
  <1>2. UNCHANGED stopping_
    BY DEF WorkerDispatch, syncVars
  <1>3. w \in Threads /\ w # 0 /\ 0 \in Threads /\ \A v \in Workers : v \in Threads /\ v # 0
    BY DEF Threads, Workers
  <1>4. PICK label \in {"exited", "test", "waiting"} :
          /\ pc' = [pc EXCEPT ![w] = label]
          /\ label = "exited" <=> stopping_
          /\ label = "test" => /\ generation_ # observed[w]
                               /\ block' = [block EXCEPT ![w] = w]
                               /\ observed' = [observed EXCEPT ![w] = generation_]
          /\ label # "test" => UNCHANGED <<block, observed>>
          /\ label = "waiting" => generation_ = observed[w]
    BY DEF WorkerDispatch, Dispatch, Ready
  <1>5. pc'[0] = pc[0] /\ pc'[w] = label /\ \A v \in Workers : v # w => pc'[v] = pc[v] /\ observed'[v] = observed[v]
    BY <1>3, <1>4 DEF TypeOK
  <1>6. TypeOK'
    <2>1. block' \in [Threads -> Nat] /\ observed' \in [Threads -> 0 .. (SizeModulus - 1)]
      <3>1. w \in Nat
        BY DEF Workers
      <3> QED BY <1>3, <1>4, <3>1 DEF TypeOK
    <2>2. pc' \in [Threads -> Label \union CallerLabel] /\ \A v \in Workers : pc'[v] \in Label
      BY <1>3, <1>4 DEF TypeOK, Label
    <2> QED BY <1>1, <1>2, <1>5, <2>1, <2>2 DEF TypeOK
  <1>7. Lifecycle'
    <2>1. \A v \in Workers : pc'[v] = "none" <=> pc[v] = "none"
      BY <1>1, <1>4, <1>5
    <2>2. \A v \in Workers : pc'[v] = "none" => observed'[v] = observed[v]
      BY <1>1, <1>4, <1>5
    <2>3. pc[0] # "gone"
      BY <1>1 DEF Lifecycle
    <2> QED BY <1>1, <1>2, <1>4, <1>5, <2>1, <2>2, <2>3 DEF Lifecycle
  <1>8. Owing' = Owing
    <2>1. w \in Owing <=> observed[w] # generation_
      BY <1>1 DEF Owing
    <2>2. label = "exited" => Owing = {}
      BY <1>4 DEF Lifecycle, Answering, InFlight
    <2>3. w \in Owing' <=> label = "test"
      BY <1>1, <1>4, <1>5 DEF Owing
    <2>4. w \in Owing' <=> w \in Owing
      BY <1>4, <2>1, <2>2, <2>3
    <2>5. \A v \in Workers : v # w => (v \in Owing' <=> v \in Owing)
      BY <1>1, <1>5 DEF Owing
    <2> QED BY <2>4, <2>5 DEF Owing
  <1>9. PendingIsExact' /\ Answering'
    <2>1. observed'[w] = generation_ \/ label = "exited"
      BY <1>3, <1>4 DEF TypeOK
    <2> QED BY <1>1, <1>4, <1>5, <1>8, <2>1 DEF PendingIsExact, Answering, Working
  <1>10. Publication'
    BY <1>1, <1>5 DEF Publication
  <1>11. Partition'
    <2>1. \A u \in Threads : u # w => pc'[u] = pc[u] /\ block'[u] = block[u]
      BY <1>3, <1>4 DEF TypeOK
    <2>2. label = "test" => block'[w] = w /\ block'[w] % count_ = w
      BY <1>3, <1>4, SmallResidue DEF TypeOK, Threads
    <2>3. \A u \in Threads : pc'[u] \in Executing => block'[u] % count_ = u
      BY <1>4, <1>5, <2>1, <2>2 DEF Partition, Executing
    <2>4. \A u \in Threads : pc'[u] = "call" => block'[u] < blocks_
      BY <1>4, <1>5, <2>1 DEF Partition
    <2>5. \A b \in PF!BlocksOf(request) : Passed(b % count_, b)' <=> Passed(b % count_, b)
      <3> SUFFICES ASSUME NEW b \in PF!BlocksOf(request)
                   PROVE  Passed(b % count_, b)' <=> Passed(b % count_, b)
        OBVIOUS
      <3>1. b \in Nat /\ b % count_ \in Threads
        BY BlockOwner DEF TypeOK
      <3>2. CASE b % count_ = w
        <4>1. b >= w
          BY <3>1, <3>2, ResidueBelow
        <4>2. label = "test" => w \in Owing
          BY <1>1, <1>4 DEF Owing
        <4> QED BY <1>1, <1>3, <1>4, <1>5, <1>8, <2>2, <3>1, <3>2, <4>1, <4>2 DEF Passed, Executing
      <3>3. CASE b % count_ # w
        BY <1>3, <1>8, <2>1, <3>1, <3>3 DEF Passed
      <3> QED BY <3>2, <3>3
    <2> QED BY <1>1, <1>5, <2>3, <2>4, <2>5 DEF Partition
  <1> QED BY <1>6, <1>7, <1>9, <1>10, <1>11

\* A worker answers: it leaves Owing, and pending_ with it.
LEMMA RetireStep == ASSUME IInv, NEW w \in Workers, WorkerRetire(w) PROVE IInv'
  <1> USE CountPositive, ExecutorAssumption DEF IInv
  <1>1. /\ pc[w] = "retire" /\ pending_' = pending_ - 1
        /\ UNCHANGED <<threads_, job_, blocks_, generation_, errors_, request, done>>
    BY DEF WorkerRetire, runVars
  <1>2. UNCHANGED stopping_
    BY DEF WorkerRetire
  <1>3. w \in Threads /\ w # 0 /\ 0 \in Threads /\ \A v \in Workers : v \in Threads /\ v # 0
    BY DEF Threads, Workers
  <1>4. w \in Owing /\ pc[0] \in InFlight /\ observed[w] = generation_
    BY <1>1 DEF Owing, Answering, Working
  <1>5. ~stopping_
    BY <1>4 DEF Lifecycle, InFlight
  <1>6. UNCHANGED <<block, observed>>
    BY <1>4, <1>5 DEF WorkerRetire, Dispatch, Ready
  <1>7. \/ pc' = [pc EXCEPT ![w] = "waiting"]
        \/ pc[0] = "finished" /\ pc' = [[pc EXCEPT ![0] = "await"] EXCEPT ![w] = "waiting"]
    BY <1>4, <1>5 DEF WorkerRetire, Dispatch, Ready
  <1>8. /\ (pc'[0] = pc[0] \/ (pc[0] = "finished" /\ pc'[0] = "await"))
        /\ pc'[w] = "waiting"
        /\ \A v \in Workers : v # w => pc'[v] = pc[v]
        /\ pc' \in [Threads -> Label \union CallerLabel]
    <2>1. CASE pc' = [pc EXCEPT ![w] = "waiting"]
      BY <1>3, <2>1 DEF TypeOK, Label
    <2>2. CASE pc[0] = "finished" /\ pc' = [[pc EXCEPT ![0] = "await"] EXCEPT ![w] = "waiting"]
      <3> DEFINE from == [pc EXCEPT ![0] = "await"]
      <3>1. /\ from \in [Threads -> Label \union CallerLabel]
            /\ from[0] = "await" /\ \A v \in Workers : from[v] = pc[v]
        BY <1>3 DEF TypeOK, CallerLabel, Running
      <3> HIDE DEF from
      <3>2. pc' = [from EXCEPT ![w] = "waiting"]
        BY <2>2 DEF from
      <3> QED BY <1>3, <2>2, <3>1, <3>2 DEF Label
    <2> QED BY <1>7, <2>1, <2>2
  <1>9. pc'[0] \in InFlight /\ pc'[0] \in CallerLabel
    BY <1>4, <1>8 DEF InFlight, CallerLabel, Running
  <1>10. Owing' = Owing \ {w}
    BY <1>1, <1>4, <1>6, <1>8 DEF Owing
  <1>11. PendingIsExact' /\ pending_' \in 0 .. threads_
    <2>1. Cardinality(Owing \ {w}) = Cardinality(Owing) - 1 /\ Cardinality(Owing \ {w}) \in Nat
      BY <1>4, OwingFinite, FS_RemoveElement, FS_CardinalityType
    <2> QED BY <1>1, <1>10, <2>1 DEF PendingIsExact, TypeOK
  <1>12. TypeOK'
    BY <1>1, <1>2, <1>6, <1>8, <1>9, <1>11 DEF TypeOK, Label
  <1>13. Lifecycle'
    <2>1. pc[0] \notin Closed /\ pc'[0] \notin Closed
      BY <1>4, <1>9 DEF InFlight, Closed
    <2> QED BY <1>1, <1>2, <1>5, <1>6, <1>8, <2>1 DEF Lifecycle, Closed
  <1>14. Answering'
    BY <1>1, <1>6, <1>8, <1>9 DEF Answering, Working
  <1>15. Publication'
    BY <1>1, <1>4, <1>9 DEF Publication, InFlight
  <1>16. Partition'
    <2>1. \A u \in Threads : pc'[u] \in Executing => pc[u] = pc'[u]
      BY <1>8 DEF Threads, Workers, Executing
    <2>2. \A b \in PF!BlocksOf(request) : Passed(b % count_, b)' <=> Passed(b % count_, b)
      <3> SUFFICES ASSUME NEW b \in PF!BlocksOf(request)
                   PROVE  Passed(b % count_, b)' <=> Passed(b % count_, b)
        OBVIOUS
      <3>1. b % count_ = 0 \/ b % count_ \in Workers
        BY BlockOwner DEF TypeOK, Threads, Workers
      <3> QED BY <1>1, <1>3, <1>6, <1>8, <1>10, <3>1 DEF Passed, Executing
    <2> QED BY <1>1, <1>4, <1>6, <1>9, <2>1, <2>2 DEF Partition, Executing
  <1> QED BY <1>11, <1>12, <1>13, <1>14, <1>15, <1>16

\* A wakeup that nobody asked for changes nothing that matters.
LEMMA SpuriousStep == ASSUME IInv, NEW t \in Threads, SpuriousWakeup(t) PROVE IInv'
  <1> USE CountPositive, ExecutorAssumption DEF IInv
  <1>1. UNCHANGED <<block, observed, threads_, job_, blocks_, pending_, generation_, errors_,
                    request, done>>
    BY DEF SpuriousWakeup, syncVars, runVars
  <1>2. UNCHANGED stopping_
    BY DEF SpuriousWakeup, syncVars
  <1>3. 0 \in Threads /\ \A w \in Workers : w \in Threads /\ w # 0
    BY DEF Threads, Workers
  <1>4. /\ pc' \in [Threads -> Label \union CallerLabel]
        /\ (pc'[0] = pc[0] \/ (pc[0] = "finished" /\ pc'[0] = "await"))
        /\ \A w \in Workers : pc'[w] = pc[w] \/ (pc[w] = "waiting" /\ pc'[w] = "locked")
    <2>1. CASE pc[t] = "waiting" /\ Goto(t, "locked")
      <3>1. t # 0
        BY <2>1 DEF TypeOK, CallerLabel, Running, Closed
      <3> QED BY <1>3, <2>1, <3>1 DEF TypeOK, Goto, Label
    <2>2. CASE pc[t] = "finished" /\ Goto(t, "await")
      <3>1. t = 0
        <4>1. t # 0 => t \in Workers
          BY DEF Threads, Workers
        <4>2. t \in Workers => pc[t] # "finished"
          BY DEF TypeOK, Label
        <4> QED BY <2>2, <4>1, <4>2
      <3> QED BY <1>3, <2>2, <3>1 DEF TypeOK, Goto, CallerLabel, Running
    <2> QED BY <2>1, <2>2 DEF SpuriousWakeup
  <1>5. TypeOK'
    BY <1>1, <1>2, <1>4 DEF TypeOK, Label, CallerLabel, Running
  <1>6. Lifecycle'
    BY <1>1, <1>2, <1>4 DEF Lifecycle, Closed
  <1>7. Owing' = Owing
    BY <1>1, <1>4 DEF Owing
  <1>8. PendingIsExact' /\ Answering'
    BY <1>1, <1>4, <1>7 DEF PendingIsExact, Answering, InFlight, Working
  <1>9. Publication'
    BY <1>1, <1>4 DEF Publication, InFlight
  <1>10. Partition'
    <2>1. \A u \in Threads : pc'[u] \in Executing => pc[u] = pc'[u]
      BY <1>4 DEF Threads, Workers, Executing
    <2>2. \A b \in PF!BlocksOf(request) : Passed(b % count_, b)' <=> Passed(b % count_, b)
      <3> SUFFICES ASSUME NEW b \in PF!BlocksOf(request)
                   PROVE  Passed(b % count_, b)' <=> Passed(b % count_, b)
        OBVIOUS
      <3>1. b % count_ = 0 \/ b % count_ \in Workers
        BY BlockOwner DEF TypeOK, Threads, Workers
      <3> QED BY <1>1, <1>4, <1>7, <3>1 DEF Passed, Executing
    <2> QED BY <1>1, <1>4, <2>1, <2>2 DEF Partition, Executing, InFlight
  <1> QED BY <1>5, <1>6, <1>8, <1>9, <1>10

\* Every step preserves the invariant: one of the lemmas above per action.
LEMMA NextPreserves == IInv /\ [Next]_vars => IInv'
  <1> SUFFICES ASSUME IInv, [Next]_vars PROVE IInv'
    OBVIOUS
  <1>1. CASE Owner
    BY <1>1, LifecycleSteps, QuietRunSteps DEF Owner
  <1>2. CASE Caller
    <2>1. 0 \in Threads
      BY CountPositive DEF Threads
    <2> QED BY <1>2, <2>1, LifecycleSteps, QuietRunSteps, PublishStep, NotifyStep, AwaitStep,
               TestStep, CallStep DEF Caller
  <1>3. ASSUME NEW w \in Workers, Worker(w) PROVE IInv'
    <2>1. w \in Threads
      BY DEF Workers, Threads
    <2> QED BY <1>3, <2>1, DispatchStep, RetireStep, TestStep, CallStep DEF Worker
  <1>4. ASSUME NEW t \in Threads, SpuriousWakeup(t) PROVE IInv'
    BY <1>4, SpuriousStep
  <1>5. CASE UNCHANGED vars
    BY <1>5 DEF vars, syncVars, runVars, IInv, TypeOK, Lifecycle, PendingIsExact, Owing, Answering,
                Publication, Partition, Passed, InFlight, Working, Executing, Closed, Threads, Workers
  <1> QED BY <1>1, <1>2, <1>3, <1>4, <1>5 DEF Next

\* IInv holds in every reachable state of the executor.
THEOREM Inductive == Spec => []IInv
  BY InitEstablishes, NextPreserves, PTL DEF Spec

\* Types: among them, pending_ never wraps below zero and generation_ stays in
\* range when it wraps.
THEOREM TypeCorrect == Spec => []TypeOK
  <1>1. IInv => TypeOK
    BY DEF IInv
  <1> QED BY <1>1, Inductive, PTL

\* The counter run waits for is the number of workers that still owe it an
\* answer.
THEOREM PendingCorrect == Spec => []PendingIsExact
  <1>1. IInv => PendingIsExact
    BY DEF IInv
  <1> QED BY <1>1, Inductive, PTL

\* The unlocked reads in execute() never race with the caller's writes, and no
\* thread outlives the executor.
THEOREM RaceFree == Spec => []NoRace
  <1>1. IInv => NoRace
    <2> SUFFICES ASSUME IInv, NEW w \in Workers
                 PROVE  /\ pc[w] \in Executing =>
                             /\ pc[0] \in {"notify", "test", "call", "await", "finished"}
                             /\ pc[0] = "await" => pending_ # 0
                        /\ pc[0] = "gone" => pc[w] \in {"none", "exited"}
      BY DEF NoRace
    <2>1. pc[w] \in Executing => w \in Owing
      BY DEF Executing, Owing
    <2>2. w \in Owing => pc[0] \in InFlight /\ pending_ # 0
      BY OwingFinite DEF IInv, Answering, PendingIsExact
    <2> QED BY <2>1, <2>2 DEF IInv, Lifecycle, InFlight
  <1> QED BY <1>1, Inductive, PTL

\* Threads inside callbacks are on different, not yet completed blocks of the
\* caller's own job.
THEOREM BlocksDisjoint == Spec => []DisjointBlocks
  <1>1. IInv => DisjointBlocks
    <2> SUFFICES ASSUME IInv, NEW t \in Threads, NEW u \in Threads
                 PROVE  /\ pc[t] = "call" => /\ job_ = {request.fails}
                                             /\ block[t] \in PF!BlocksOf(request) \ done
                        /\ pc[t] = "call" /\ pc[u] = "call" /\ t # u => block[t] # block[u]
      BY DEF DisjointBlocks
    <2>1. ASSUME pc[t] = "call"
          PROVE  job_ = {request.fails} /\ block[t] \in PF!BlocksOf(request) \ done
      <3>1. pc[0] \in InFlight /\ job_ = {request.fails} /\ blocks_ = request.total
        BY <2>1, ExecutingInFlight DEF Executing
      <3>2. block[t] \in Nat /\ block[t] \in PF!BlocksOf(request) /\ block[t] % count_ = t
        BY <2>1, <3>1 DEF IInv, TypeOK, Partition, Executing, PF!BlocksOf
      <3>3. ~Passed(t, block[t])
        BY <2>1, <3>2 DEF Passed, Owing, Executing, Threads, Workers
      <3> QED BY <3>1, <3>2, <3>3 DEF IInv, Partition
    <2>2. pc[t] = "call" /\ pc[u] = "call" => block[t] % count_ = t /\ block[u] % count_ = u
      BY DEF IInv, Partition, Executing
    <2> QED BY <2>1, <2>2
  <1> QED BY <1>1, Inductive, PTL

-----------------------------------------------------------------------------
\* The executor implements ParallelFor

\* The abstract phase of a control state of the caller.
PhaseOf(label) == IF label \in Closed THEN "closed" ELSE IF label = "idle" THEN "idle" ELSE "running"

\* A step that leaves the abstract variables alone is a stuttering step.
LEMMA Stutter ==
    ASSUME UNCHANGED <<request, done, outcome>>, PhaseOf(pc[0])' = PhaseOf(pc[0])
    PROVE  UNCHANGED PF!pfvars
  BY DEF PF!pfvars, PhaseOf

\* An executor under construction is a closed parallel for.
LEMMA InitRefines == Init => PF!Init
  <1>1. Init => pc[0] = "ctor"
    BY CountPositive DEF Init, Threads
  <1> QED BY <1>1 DEF Init, PF!Init, Closed

\* Every step of the executor is a step of the parallel for or leaves it alone.
LEMMA StepRefines == IInv /\ [Next]_vars => [PF!Next]_(PF!pfvars)
  <1> SUFFICES ASSUME IInv, [Next]_vars PROVE PF!Next \/ UNCHANGED PF!pfvars
    OBVIOUS
  <1>0. 0 \in Threads /\ \A w \in Workers : w \in Threads /\ w # 0
    BY CountPositive DEF Threads, Workers
  <1> USE <1>0 DEF runVars, Goto
  <1>1. CASE Spawn \/ SpawnThrows \/ StopFlag \/ StopNotify \/ StopJoin
    <2>1. pc[0] \in Closed /\ pc'[0] \in Closed /\ UNCHANGED <<request, done, outcome>>
      <3> USE DEF IInv, TypeOK, Closed
      <3>1. CASE Spawn
        BY <3>1 DEF Spawn, Threads
      <3>2. CASE SpawnThrows
        BY <3>2 DEF SpawnThrows
      <3>3. CASE StopFlag
        BY <3>3 DEF StopFlag
      <3>4. CASE StopNotify
        BY <3>4 DEF StopNotify, NotifyReady
      <3>5. CASE StopJoin
        BY <3>5 DEF StopJoin
      <3> QED BY <1>1, <3>1, <3>2, <3>3, <3>4, <3>5
    <2> QED BY <2>1, Stutter DEF PhaseOf
  <1>2. CASE Constructed
    BY <1>2 DEF IInv, TypeOK, Constructed, Closed, PF!Next, PF!Open
  <1>3. CASE Destroy
    BY <1>3 DEF IInv, TypeOK, Destroy, Closed, PF!Next, PF!Close
  <1>4. ASSUME NEW job \in Jobs, RunEmpty(job) PROVE PF!Next
    <2>1. job.fails = {} /\ PF!BlocksOf(job) = {}
      BY <1>4, JobType DEF RunEmpty, PF!BlocksOf
    <2>2. PF!Empty(job)
      BY <1>4, <2>1 DEF RunEmpty, PF!Empty, PF!Result, Closed
    <2> QED BY <2>2 DEF PF!Next
  <1>5. ASSUME NEW job \in Jobs, Run(job) PROVE PF!Next
    <2>1. PF!Begin(job)
      BY <1>5 DEF IInv, TypeOK, Run, Closed, PF!Begin
    <2> QED BY <2>1 DEF PF!Next
  <1>6. CASE RunRefused
    <2>1. PF!Refuse
      BY <1>6 DEF IInv, TypeOK, Publication, RunRefused, Closed, PF!Refuse
    <2> QED BY <2>1 DEF PF!Next
  <1>7. CASE RunAssign \/ RunPublish \/ RunNotify \/ RunAwait
    <2>1. /\ pc[0] \notin Closed /\ pc[0] # "idle" /\ pc'[0] \notin Closed /\ pc'[0] # "idle"
          /\ UNCHANGED <<request, done, outcome>>
      <3> USE DEF IInv, TypeOK, Closed
      <3>1. CASE RunAssign
        BY <3>1 DEF RunAssign
      <3>2. CASE RunPublish
        BY <3>2 DEF RunPublish
      <3>3. CASE RunNotify
        BY <3>3 DEF RunNotify, NotifyReady
      <3>4. CASE RunAwait
        BY <3>4 DEF RunAwait
      <3> QED BY <1>7, <3>1, <3>2, <3>3, <3>4
    <2> QED BY <2>1, Stutter DEF PhaseOf
  <1>8. CASE RunScan
    <2>1. done = PF!BlocksOf(request) /\ errors_ = request.fails
      BY <1>8 DEF IInv, TypeOK, Publication, RunScan, PF!BlocksOf
    <2>2. PF!End
      BY <1>8, <2>1 DEF IInv, TypeOK, RunScan, Closed, PF!End, PF!Result
    <2> QED BY <2>2 DEF PF!Next
  <1>9. ASSUME NEW t \in Threads, ExecuteTest(t) PROVE UNCHANGED PF!pfvars
    <2>1. pc[0] \in InFlight
      BY <1>9, ExecutingInFlight DEF ExecuteTest, Executing
    <2>2. pc'[0] \in InFlight /\ UNCHANGED <<request, done, outcome>>
      BY <1>9, <2>1 DEF IInv, TypeOK, ExecuteTest, AfterExecute, InFlight
    <2> QED BY <2>1, <2>2, Stutter DEF PhaseOf, InFlight, Closed
  <1>10. ASSUME NEW t \in Threads, ExecuteCall(t) PROVE PF!Next
    <2>1. pc[t] = "call" /\ pc[0] \in InFlight
      BY <1>10, ExecutingInFlight DEF ExecuteCall, Executing
    <2>2. block[t] \in PF!BlocksOf(request) \ done
      <3>1. blocks_ = request.total /\ block[t] \in Nat /\ block[t] < blocks_ /\ block[t] % count_ = t
        BY <2>1, ExecutingInFlight DEF IInv, TypeOK, Partition, Executing
      <3>2. ~Passed(t, block[t])
        BY <2>1, <3>1 DEF Passed, Owing, Executing, Threads, Workers
      <3>3. block[t] \in PF!BlocksOf(request)
        BY <3>1 DEF IInv, TypeOK, PF!BlocksOf
      <3> QED BY <2>1, <3>1, <3>2, <3>3 DEF IInv, Partition
    <2>3. pc'[0] \in InFlight
      BY <1>10, <2>1 DEF IInv, TypeOK, ExecuteCall, InFlight
    <2>4. PF!Block(block[t])
      BY <1>10, <2>1, <2>2, <2>3 DEF ExecuteCall, InFlight, Closed, PF!Block
    <2> QED BY <2>2, <2>4 DEF PF!Next
  <1>11. ASSUME NEW w \in Workers, WorkerDispatch(w) \/ WorkerRetire(w) PROVE UNCHANGED PF!pfvars
    <2>1. UNCHANGED <<request, done, outcome>>
      BY <1>11 DEF WorkerDispatch, WorkerRetire
    <2>2. pc'[0] = pc[0] \/ (pc[0] = "finished" /\ pc'[0] = "await")
      <3> USE DEF IInv, TypeOK, Dispatch
      <3>1. CASE WorkerDispatch(w)
        BY <3>1 DEF WorkerDispatch
      <3>2. CASE WorkerRetire(w)
        BY <3>2 DEF WorkerRetire
      <3> QED BY <1>11, <3>1, <3>2
    <2> QED BY <2>1, <2>2, Stutter DEF PhaseOf, Closed
  <1>12. ASSUME NEW t \in Threads, SpuriousWakeup(t) PROVE UNCHANGED PF!pfvars
    <2>1. UNCHANGED <<request, done, outcome>>
      BY <1>12 DEF SpuriousWakeup
    <2>2. pc'[0] = pc[0] \/ (pc[0] = "finished" /\ pc'[0] = "await")
      <3>1. pc[0] # "waiting"
        BY DEF IInv, TypeOK, CallerLabel, Running, Closed
      <3> QED BY <1>12, <3>1 DEF IInv, TypeOK, SpuriousWakeup
    <2> QED BY <2>1, <2>2, Stutter DEF PhaseOf, Closed
  <1>13. CASE UNCHANGED vars
    BY <1>13, Stutter DEF vars, PhaseOf, Closed
  <1>14. CASE Owner
    BY <1>14, <1>3, <1>4, <1>5 DEF Owner
  <1>15. CASE Caller
    BY <1>15, <1>1, <1>2, <1>6, <1>7, <1>8, <1>9, <1>10 DEF Caller
  <1>16. ASSUME NEW w \in Workers, Worker(w) PROVE PF!Next \/ UNCHANGED PF!pfvars
    BY <1>16, <1>9, <1>10, <1>11 DEF Worker
  <1> QED BY <1>12, <1>13, <1>14, <1>15, <1>16 DEF Next

\* Whatever the number of workers and the schedule, the executor behaves as a
\* parallel for: each block once, then the lowest failing block's exception.
THEOREM Refinement == Spec => Implements
  BY Inductive, InitRefines, StepRefines, PTL DEF Spec, Implements, PF!Spec
=============================================================================

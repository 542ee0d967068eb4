---------------------------- MODULE CpuExecutor ----------------------------
(***************************************************************************)
(* The synchronous block executor of the registration and preprocessing    *)
(* back ends: src/src/registration/cpu_executor.hpp.                       *)
(*                                                                         *)
(* Thread 0 is the caller (the thread that constructs the executor, calls  *)
(* run and destroys it), threads 1 .. count_-1 are the pool.  A critical   *)
(* section of mutex_ is one step: nothing it reads or writes under the     *)
(* lock is touched elsewhere.  job_, blocks_ and errors_ are also read     *)
(* WITHOUT the lock, in execute(); those reads are steps of their own, and *)
(* NoRace states that no write can overlap them.  notify_all is issued     *)
(* after the unlock in run() and stop(), so it too is a step of its own.   *)
(***************************************************************************)
EXTENDS Integers, FiniteSets

CONSTANTS
    Budget,       \* the constructor's thread budget
    Capacity,     \* the constructor's point capacity
    PointCounts,  \* the point counts callers pass to run
    BlockSize,    \* block_size, 256 in the source
    ThreadLimit,  \* 64 in the source
    SizeModulus   \* the range of std::size_t, 2^64 in the build

ASSUME ExecutorAssumption ==
    /\ Budget \in Nat \ {0}       \* a zero budget is refused before any thread exists
    /\ Capacity \in Nat
    /\ PointCounts \subseteq Nat
    /\ BlockSize \in Nat \ {0}
    /\ ThreadLimit \in Nat \ {0}
    /\ SizeModulus \in Nat \ {0, 1}

blocks(count) == count \div BlockSize + (IF count % BlockSize # 0 THEN 1 ELSE 0)

Least(a, b) == IF a <= b THEN a ELSE b

count_ == Least(Least(Budget, ThreadLimit),
                IF blocks(Capacity) >= 1 THEN blocks(Capacity) ELSE 1)

Threads == 0 .. (count_ - 1)
Workers == 1 .. (count_ - 1)

\* A job is what a caller hands to run: a number of blocks and the set of
\* blocks on which its callback throws.
Jobs == UNION {[total : {blocks(p)}, fails : SUBSET (0 .. (blocks(p) - 1))] : p \in PointCounts}

VARIABLES
    pc,          \* control state of every thread
    block,       \* the loop variable of execute(), per thread
    observed,    \* worker_loop's local, per thread
    threads_,    \* threads_.size()
    job_,        \* {fails} for a callback that throws on `fails', {} for an empty std::function
    blocks_,
    pending_,
    generation_,
    stopping_,
    errors_,     \* the blocks whose exception_ptr is not null
    request,     \* run's arguments and locals
    done,        \* history: the blocks whose callback completed in this run
    outcome      \* history: how the last run ended

syncVars == <<threads_, job_, blocks_, pending_, generation_, stopping_>>
runVars == <<request, done, outcome>>
vars == <<pc, block, observed, syncVars, errors_, runVars>>

\* The abstract executor this one implements.
Closed == {"ctor", "stop", "stopNotify", "join", "gone"}
Executing == {"test", "call"}
Running == {"assign", "publish", "notify", "test", "call", "await", "finished", "scan"}

PF == INSTANCE ParallelFor WITH
        phase <- IF pc[0] \in Closed THEN "closed"
                 ELSE IF pc[0] = "idle" THEN "idle" ELSE "running"

Init == /\ pc = [t \in Threads |-> IF t = 0 THEN "ctor" ELSE "none"]
        /\ block = [t \in Threads |-> 0]
        /\ observed = [t \in Threads |-> 0]
        /\ threads_ = 0
        /\ job_ = {}
        /\ blocks_ = 0
        /\ pending_ = 0
        /\ generation_ = 0
        /\ stopping_ = FALSE
        /\ errors_ = {}
        /\ request = [total |-> 0, fails |-> {}]
        /\ done = {}
        /\ outcome = PF!NoOutcome

Goto(t, label) == pc' = [pc EXCEPT ![t] = label]

\* notify_all on ready_: every thread blocked there is released and must
\* reacquire the mutex.
NotifyReady(label) ==
    pc' = [t \in Threads |-> IF t = 0 THEN label
                             ELSE IF pc[t] = "waiting" THEN "locked" ELSE pc[t]]

-----------------------------------------------------------------------------
\* Construction and destruction

\* threads_.emplace_back succeeds: the new thread is free to run at once.
Spawn == /\ pc[0] = "ctor"
         /\ threads_ < count_ - 1
         /\ threads_' = threads_ + 1
         /\ Goto(threads_ + 1, "locked")
         /\ UNCHANGED <<block, observed, job_, blocks_, pending_, generation_, stopping_,
                        errors_, runVars>>

\* threads_.emplace_back throws: the handler stops the threads that exist.
SpawnThrows == /\ pc[0] = "ctor"
               /\ threads_ < count_ - 1
               /\ Goto(0, "stop")
               /\ UNCHANGED <<block, observed, syncVars, errors_, runVars>>

Constructed == /\ pc[0] = "ctor"
               /\ threads_ = count_ - 1
               /\ Goto(0, "idle")
               /\ UNCHANGED <<block, observed, syncVars, errors_, runVars>>

\* The owner destroys the executor between two runs.
Destroy == /\ pc[0] = "idle"
           /\ Goto(0, "stop")
           /\ UNCHANGED <<block, observed, syncVars, errors_, runVars>>

StopFlag == /\ pc[0] = "stop"
            /\ stopping_' = TRUE
            /\ Goto(0, "stopNotify")
            /\ UNCHANGED <<block, observed, threads_, job_, blocks_, pending_, generation_,
                           errors_, runVars>>

\* Fault: stop() forgets to wake the waiting workers.
StopNotifySilent == /\ pc[0] = "stopNotify"
                    /\ Goto(0, "join")
                    /\ UNCHANGED <<block, observed, syncVars, errors_, runVars>>

StopNotify == /\ pc[0] = "stopNotify"
              /\ NotifyReady("join")
              /\ UNCHANGED <<block, observed, syncVars, errors_, runVars>>

StopJoin == /\ pc[0] = "join"
            /\ \A w \in Workers : w <= threads_ => pc[w] = "exited"
            /\ Goto(0, "gone")
            /\ UNCHANGED <<block, observed, syncVars, errors_, runVars>>

-----------------------------------------------------------------------------
\* run(points, function)

\* No points: run returns before it touches the executor.
RunEmpty(job) == /\ pc[0] = "idle"
                 /\ job.total = 0
                 /\ request' = job
                 /\ done' = {}
                 /\ outcome' = PF!Returned
                 /\ UNCHANGED <<pc, block, observed, syncVars, errors_>>

Run(job) == /\ pc[0] = "idle"
            /\ job.total # 0
            /\ request' = job
            /\ done' = {}
            /\ Goto(0, "assign")
            /\ UNCHANGED <<block, observed, syncVars, errors_, outcome>>

\* Copying the callback or errors_.assign runs out of memory: run throws
\* before any worker has heard of it.
RunRefused == /\ pc[0] = "assign"
              /\ outcome' = PF!Refused
              /\ Goto(0, "idle")
              /\ UNCHANGED <<block, observed, syncVars, errors_, request, done>>

\* errors_.assign(total, nullptr), outside the lock.
RunAssign == /\ pc[0] = "assign"
             /\ errors_' = {}
             /\ Goto(0, "publish")
             /\ UNCHANGED <<block, observed, syncVars, runVars>>

\* Fault: the caller counts itself among the pending workers.
RunPublishCount == /\ pc[0] = "publish"
                   /\ job_' = {request.fails}
                   /\ blocks_' = request.total
                   /\ pending_' = count_
                   /\ generation_' = (generation_ + 1) % SizeModulus
                   /\ Goto(0, "notify")
                   /\ UNCHANGED <<block, observed, threads_, stopping_, errors_, runVars>>

RunPublish == /\ pc[0] = "publish"
              /\ job_' = {request.fails}
              /\ blocks_' = request.total
              /\ pending_' = threads_
              /\ generation_' = (generation_ + 1) % SizeModulus
              /\ Goto(0, "notify")
              /\ UNCHANGED <<block, observed, threads_, stopping_, errors_, runVars>>

\* notify_all, then execute(0) begins.
RunNotify == /\ pc[0] = "notify"
             /\ NotifyReady("test")
             /\ block' = [block EXCEPT ![0] = 0]
             /\ UNCHANGED <<observed, syncVars, errors_, runVars>>

\* Fault: run does not wait for the workers.
RunAwaitEarly == /\ pc[0] = "await"
                 /\ job_' = {}
                 /\ Goto(0, "scan")
                 /\ UNCHANGED <<block, observed, threads_, blocks_, pending_, generation_,
                                stopping_, errors_, runVars>>

\* The caller evaluates finished_.wait's predicate under the lock.
RunAwait == /\ pc[0] = "await"
            /\ IF pending_ = 0
               THEN /\ job_' = {}
                    /\ Goto(0, "scan")
               ELSE /\ Goto(0, "finished")
                    /\ UNCHANGED job_
            /\ UNCHANGED <<block, observed, threads_, blocks_, pending_, generation_, stopping_,
                           errors_, runVars>>

\* Fault: the last exception in block order wins.
RunScanLast == /\ pc[0] = "scan"
               /\ outcome' = IF errors_ = {} THEN PF!Returned
                             ELSE PF!Threw(CHOOSE b \in errors_ : \A c \in errors_ : c <= b)
               /\ Goto(0, "idle")
               /\ UNCHANGED <<block, observed, syncVars, errors_, request, done>>

\* The first exception in block order is rethrown.
RunScan == /\ pc[0] = "scan"
           /\ outcome' = IF errors_ = {} THEN PF!Returned ELSE PF!Threw(PF!Lowest(errors_))
           /\ Goto(0, "idle")
           /\ UNCHANGED <<block, observed, syncVars, errors_, request, done>>

-----------------------------------------------------------------------------
\* execute(t), by the caller and by every worker, without the lock

\* Where a thread goes when it leaves execute().
AfterExecute(t) == IF t = 0 THEN "await" ELSE "retire"

ExecuteTest(t) == /\ pc[t] = "test"
                  /\ Goto(t, IF block[t] < blocks_ THEN "call" ELSE AfterExecute(t))
                  /\ UNCHANGED <<block, observed, syncVars, errors_, runVars>>

\* job_(block, t) completes: calling an empty std::function throws as well.
Throws(b) == \A fails \in job_ : b \in fails

\* Fault: the stride leaves the caller out.
ExecuteCallStride(t) == /\ pc[t] = "call"
                        /\ errors_' = IF Throws(block[t]) THEN errors_ \union {block[t]} ELSE errors_
                        /\ done' = done \union {block[t]}
                        /\ block' = [block EXCEPT ![t] = @ + threads_]
                        /\ Goto(t, "test")
                        /\ UNCHANGED <<observed, syncVars, request, outcome>>

ExecuteCall(t) == /\ pc[t] = "call"
                  /\ errors_' = IF Throws(block[t]) THEN errors_ \union {block[t]} ELSE errors_
                  /\ done' = done \union {block[t]}
                  /\ block' = [block EXCEPT ![t] = @ + count_]
                  /\ Goto(t, "test")
                  /\ UNCHANGED <<observed, syncVars, request, outcome>>

-----------------------------------------------------------------------------
\* worker_loop(w)

\* ready_.wait(lock, predicate): evaluated with the mutex held, on entry and
\* after every wakeup.
Ready(w) == stopping_ \/ generation_ # observed[w]

\* Fault: a worker forgets which generation it has answered.
DispatchForgets(w, from) ==
    IF stopping_
    THEN /\ pc' = [from EXCEPT ![w] = "exited"]
         /\ UNCHANGED <<block, observed>>
    ELSE IF Ready(w)
    THEN /\ pc' = [from EXCEPT ![w] = "test"]
         /\ block' = [block EXCEPT ![w] = w]
         /\ UNCHANGED observed
    ELSE /\ pc' = [from EXCEPT ![w] = "waiting"]
         /\ UNCHANGED <<block, observed>>

\* Continue worker_loop, mutex held, after any other update of pc by `from'.
Dispatch(w, from) ==
    IF stopping_
    THEN /\ pc' = [from EXCEPT ![w] = "exited"]
         /\ UNCHANGED <<block, observed>>
    ELSE IF Ready(w)
    THEN /\ pc' = [from EXCEPT ![w] = "test"]
         /\ block' = [block EXCEPT ![w] = w]
         /\ observed' = [observed EXCEPT ![w] = generation_]
    ELSE /\ pc' = [from EXCEPT ![w] = "waiting"]
         /\ UNCHANGED <<block, observed>>

\* The worker holds the mutex at the head of its loop: at its start, or
\* after a wakeup of ready_.
WorkerDispatch(w) == /\ pc[w] = "locked"
                     /\ Dispatch(w, pc)
                     /\ UNCHANGED <<syncVars, errors_, runVars>>

\* Fault: the last worker does not wake the caller.
WorkerRetireSilent(w) == /\ pc[w] = "retire"
                         /\ pending_' = pending_ - 1
                         /\ Dispatch(w, pc)
                         /\ UNCHANGED <<threads_, job_, blocks_, generation_, stopping_,
                                        errors_, runVars>>

\* Back under the lock after execute: the last worker to finish wakes the
\* caller if it is blocked on finished_, and the loop goes round without
\* releasing the mutex.
WorkerRetire(w) == /\ pc[w] = "retire"
                   /\ pending_' = pending_ - 1
                   /\ Dispatch(w, IF pending_' = 0 /\ pc[0] = "finished"
                                  THEN [pc EXCEPT ![0] = "await"] ELSE pc)
                   /\ UNCHANGED <<threads_, job_, blocks_, generation_, stopping_,
                                  errors_, runVars>>

\* A condition variable may wake a thread that nobody notified.
SpuriousWakeup(t) == /\ \/ pc[t] = "waiting" /\ Goto(t, "locked")
                        \/ pc[t] = "finished" /\ Goto(t, "await")
                     /\ UNCHANGED <<block, observed, syncVars, errors_, runVars>>

-----------------------------------------------------------------------------
Caller == \/ Spawn \/ SpawnThrows \/ Constructed
          \/ StopFlag \/ StopNotify \/ StopJoin
          \/ RunRefused \/ RunAssign \/ RunPublish \/ RunNotify
          \/ ExecuteTest(0) \/ ExecuteCall(0)
          \/ RunAwait \/ RunScan

Worker(w) == WorkerDispatch(w) \/ ExecuteTest(w) \/ ExecuteCall(w) \/ WorkerRetire(w)

\* What the executor's owner decides: to call run, or to destroy it.
Owner == Destroy \/ \E job \in Jobs : RunEmpty(job) \/ Run(job)

Next == \/ Owner
        \/ Caller
        \/ \E w \in Workers : Worker(w)
        \/ \E t \in Threads : SpuriousWakeup(t)

\* Every thread that can run is eventually scheduled and callbacks return;
\* nothing obliges the owner to call run or the destructor.
Fairness == WF_vars(Caller) /\ \A w \in Workers : WF_vars(Worker(w))

Spec == Init /\ [][Next]_vars

FairSpec == Spec /\ Fairness

-----------------------------------------------------------------------------
\* Properties

Label == {"none", "locked", "waiting", "test", "call", "retire", "exited"}
CallerLabel == Running \union Closed \union {"idle"}

\* Every variable stays in its range; pending_ never wraps below zero and
\* generation_ stays a std::size_t.
TypeOK == /\ pc \in [Threads -> Label \union CallerLabel]
          /\ pc[0] \in CallerLabel
          /\ \A w \in Workers : pc[w] \in Label
          /\ block \in [Threads -> Nat]
          /\ observed \in [Threads -> 0 .. (SizeModulus - 1)]
          /\ threads_ \in 0 .. (count_ - 1)
          /\ job_ \in SUBSET SUBSET Nat
          /\ blocks_ \in Nat
          /\ pending_ \in 0 .. threads_
          /\ generation_ \in 0 .. (SizeModulus - 1)
          /\ stopping_ \in BOOLEAN
          /\ errors_ \in SUBSET Nat
          /\ request.total \in Nat
          /\ request.fails \in SUBSET (0 .. (request.total - 1))
          /\ done \in SUBSET Nat

\* Spawned workers that have not yet answered the current generation: they
\* have to notice it, or are working on it.
Owing == {w \in Workers :
            \/ pc[w] \in {"test", "call", "retire"}
            \/ pc[w] \in {"locked", "waiting"} /\ observed[w] # generation_}

\* pending_ counts exactly the workers that still owe an answer for the
\* current generation, whatever wakeups were spurious, early or late, and
\* even when generation_ wraps: no worker is counted twice and none is
\* forgotten, so run can wait for pending_ = 0 instead of joining threads.
PendingIsExact == pending_ = Cardinality(Owing)

\* execute() reads job_, blocks_ and errors_ without the mutex.  No write of
\* them (errors_.assign, the publication, job_ = {}, and the scan that reads
\* every error) and no destruction can happen while a worker is inside
\* execute().
NoRace == \A w \in Workers :
            /\ pc[w] \in Executing =>
                 /\ pc[0] \in {"notify", "test", "call", "await", "finished"}
                 /\ pc[0] = "await" => pending_ # 0
            /\ pc[0] = "gone" => pc[w] \in {"none", "exited"}

\* The blocks that two threads are working on are different, and the
\* callback they call is the one the caller passed to this run.
DisjointBlocks == \A t, u \in Threads :
                    /\ pc[t] = "call" => job_ = {request.fails} /\ block[t] \in PF!BlocksOf(request) \ done
                    /\ pc[t] = "call" /\ pc[u] = "call" /\ t # u => block[t] # block[u]

\* The executor is a parallel for: every block once, no block after the end,
\* the exception of the lowest failing block whatever the schedule was.
Implements == PF!Spec

\* A call of run comes back: no wakeup is lost between publication and the
\* workers, nor between the last worker and the caller.
RunReturns == pc[0] \in Running ~> pc[0] = "idle"

\* stop() joins every thread, after a failed construction and in the
\* destructor, even if a thread has not reached its first wait.
StopReturns == pc[0] = "stop" ~> pc[0] = "gone"

-----------------------------------------------------------------------------
\* The inductive invariant behind the properties above (CpuExecutorProofs).

InFlight == {"notify", "test", "call", "await", "finished"}
Working == {"test", "call", "retire"}

\* Which threads exist, and what construction and destruction imply.
Lifecycle == /\ \A w \in Workers : pc[w] = "none" <=> w > threads_
             /\ pc[0] \notin Closed => threads_ = count_ - 1
             /\ stopping_ <=> pc[0] \in {"stopNotify", "join", "gone"}
             /\ \A w \in Workers : pc[w] = "exited" => stopping_
             /\ \A w \in Workers : pc[w] = "none" => observed[w] = 0
             /\ pc[0] = "ctor" => generation_ = 0
             /\ pc[0] = "gone" => \A w \in Workers : pc[w] \in {"none", "exited"}

\* Between runs nobody owes an answer; a working worker has seen this run.
Answering == /\ pc[0] \notin InFlight => Owing = {}
             /\ \A w \in Workers : pc[w] \in Working => observed[w] = generation_

\* What is published is what the caller asked for, and the errors recorded
\* so far are those of the completed blocks.
Publication == /\ pc[0] \in InFlight => job_ = {request.fails} /\ blocks_ = request.total
               /\ pc[0] \in {"assign", "publish"} => done = {}
               /\ pc[0] = "publish" => errors_ = {}
               /\ pc[0] \in InFlight \union {"scan"} => errors_ = done \intersect request.fails
               /\ pc[0] = "scan" => done = PF!BlocksOf(request)

\* Thread t has finished with block b, one of those congruent to t.
Passed(t, b) == IF t = 0
                THEN \/ pc[0] \in {"await", "finished"}
                     \/ pc[0] \in Executing /\ b < block[0]
                ELSE \/ t \notin Owing
                     \/ pc[t] = "retire"
                     \/ pc[t] \in Executing /\ b < block[t]

\* The blocks are dealt out by remainder, and the completed ones are exactly
\* those their thread has passed.
Partition == /\ \A t \in Threads : pc[t] \in Executing => block[t] % count_ = t
             /\ \A t \in Threads : pc[t] = "call" => block[t] < blocks_
             /\ pc[0] \in InFlight =>
                  /\ done \subseteq PF!BlocksOf(request)
                  /\ \A b \in PF!BlocksOf(request) : b \in done <=> Passed(b % count_, b)

IInv == TypeOK /\ Lifecycle /\ PendingIsExact /\ Answering /\ Publication /\ Partition
=============================================================================

---------------------------- MODULE ParallelFor ----------------------------
(***************************************************************************)
(* What CpuExecutor promises its caller, without threads, locks or         *)
(* condition variables: a run over `total' blocks calls the callback once  *)
(* for every block, in any order and with any overlap, and then either     *)
(* returns or rethrows the exception of the lowest failing block.  The     *)
(* result is a function of the callback alone: the number of workers does  *)
(* not occur in this module.                                               *)
(*                                                                         *)
(* Source of the promise: src/src/registration/cpu_executor.hpp, the class *)
(* comment ("Blocks and exception selection are independent of scheduling  *)
(* and worker count") and `run'.                                           *)
(***************************************************************************)
EXTENDS Naturals

CONSTANT Jobs  \* the runs a caller may ask for: [total : Nat, fails : SUBSET Nat]

VARIABLES
    phase,     \* "closed" (not yet built or destroyed), "idle" or "running"
    request,   \* the job of the current or last run
    done,      \* the blocks whose callback has completed in that run
    outcome    \* how the last run ended

pfvars == <<phase, request, done, outcome>>

NoOutcome == [kind |-> "none", block |-> 0]
Returned == [kind |-> "returned", block |-> 0]
Refused == [kind |-> "refused", block |-> 0]
Threw(b) == [kind |-> "threw", block |-> b]

BlocksOf(r) == 0 .. (r.total - 1)

Lowest(S) == CHOOSE b \in S : \A c \in S : b <= c

\* The only result a run over job r may have.
Result(r) == IF r.fails = {} THEN Returned ELSE Threw(Lowest(r.fails))

Init == /\ phase = "closed"
        /\ request = [total |-> 0, fails |-> {}]
        /\ done = {}
        /\ outcome = NoOutcome

Open == /\ phase = "closed"
        /\ phase' = "idle"
        /\ UNCHANGED <<request, done, outcome>>

Close == /\ phase = "idle"
         /\ phase' = "closed"
         /\ UNCHANGED <<request, done, outcome>>

Begin(r) == /\ phase = "idle"
            /\ phase' = "running"
            /\ request' = r
            /\ done' = {}
            /\ UNCHANGED outcome

\* A run over no blocks returns at once.
Empty(r) == /\ phase = "idle"
            /\ BlocksOf(r) = {}
            /\ request' = r
            /\ done' = {}
            /\ outcome' = Result(r)
            /\ UNCHANGED phase

\* The callback of one block completes; it had not completed before.
Block(b) == /\ phase = "running"
            /\ b \in BlocksOf(request) \ done
            /\ done' = done \union {b}
            /\ UNCHANGED <<phase, request, outcome>>

\* The run ends only when every block has completed.
End == /\ phase = "running"
       /\ done = BlocksOf(request)
       /\ phase' = "idle"
       /\ outcome' = Result(request)
       /\ UNCHANGED <<request, done>>

\* Out of memory before the first block: nothing ran.
Refuse == /\ phase = "running"
          /\ done = {}
          /\ phase' = "idle"
          /\ outcome' = Refused
          /\ UNCHANGED <<request, done>>

Next == \/ Open
        \/ Close
        \/ \E r \in Jobs : Begin(r) \/ Empty(r)
        \/ \E b \in BlocksOf(request) : Block(b)
        \/ End
        \/ Refuse

Spec == Init /\ [][Next]_pfvars
=============================================================================

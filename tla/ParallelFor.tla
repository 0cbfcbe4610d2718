----------------------------- MODULE ParallelFor -----------------------------
(***************************************************************************)
(* What MNN_CONCURRENCY_BEGIN / MNN_CONCURRENCY_END promise to a kernel:   *)
(* a caller hands over a body and a number of indices, the body is run     *)
(* once for every index, and the call returns when all of them have run.   *)
(* Nothing is said of which thread runs an index, or in which order.       *)
(***************************************************************************)
EXTENDS Integers

CONSTANTS Callers,      \* the threads that run a session
          MaxWork       \* BOUND: largest number of indices of one task

VARIABLES size,         \* size[c]: number of indices of the task of c, task.second
          ran,          \* ran[c][v]: how often index v of that task has run
          calling       \* the callers that are inside a parallel section

vars == <<size, ran, calling>>

Indices == 0 .. MaxWork - 1

NothingRan == [v \in Indices |-> 0]

Init == /\ size = [c \in Callers |-> 0]
        /\ ran = [c \in Callers |-> NothingRan]
        /\ calling = {}

Call(c, k) == /\ c \notin calling
              /\ calling' = calling \cup {c}
              /\ size' = [size EXCEPT ![c] = k]
              /\ ran' = [ran EXCEPT ![c] = NothingRan]

RunIndex(c, v) == /\ c \in calling
                  /\ v < size[c]
                  /\ ran[c][v] = 0
                  /\ ran' = [ran EXCEPT ![c][v] = 1]
                  /\ UNCHANGED <<size, calling>>

Return(c) == /\ c \in calling
             /\ \A v \in Indices : v < size[c] => ran[c][v] = 1
             /\ calling' = calling \ {c}
             /\ UNCHANGED <<size, ran>>

\* The caller leaves its session: the record of its last task is dropped.
Forget(c) == /\ c \notin calling
             /\ size' = [size EXCEPT ![c] = 0]
             /\ ran' = [ran EXCEPT ![c] = NothingRan]
             /\ UNCHANGED calling

Next == \E c \in Callers :
          \/ \E k \in 0 .. MaxWork : Call(c, k)
          \/ \E v \in Indices : RunIndex(c, v)
          \/ Return(c)
          \/ Forget(c)

\* A parallel section that has begun makes progress until it returns.
Fairness == \A c \in Callers :
              /\ WF_vars(\E v \in Indices : RunIndex(c, v))
              /\ WF_vars(Return(c))

Spec == Init /\ [][Next]_vars /\ Fairness
==============================================================================

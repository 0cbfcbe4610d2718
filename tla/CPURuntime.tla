------------------------------ MODULE CPURuntime ------------------------------
(***************************************************************************)
(* source/backend/cpu/CPUBackend.cpp: how the runtimes of a process share  *)
(* its thread pools.  A pool belongs to a set of cores (gInstances is      *)
(* keyed by mCpuMask).  A runtime opens and closes nested sections around  *)
(* the runs of its sessions; the first one that finds a slot takes it and  *)
(* activates the pool, the one that brings mThreadOpen back to 0 gives it  *)
(* back.  Sections without a slot run serially.  A runtime is used by one  *)
(* thread at a time; different runtimes interleave at every call into a    *)
(* pool.                                                                   *)
(***************************************************************************)
EXTENDS Integers, FiniteSets

CONSTANTS Runtimes,
          Masks,        \* the values of mCpuMask
          AnyCore,      \* the mask of a runtime that binds to no cores
          MaxTasks,     \* MNN_THREAD_POOL_MAX_TASKS
          MaxThreads,   \* MAX_THREAD_NUMBER
          MaxDepth      \* BOUND: how deep sections nest

ASSUME RuntimesAssumption == IsFiniteSet(Runtimes)
ASSUME MasksAssumption == AnyCore \in Masks
ASSUME MaxTasksAssumption == MaxTasks \in Nat \ {0}
ASSUME MaxThreadsAssumption == MaxThreads \in Nat \ {0}
ASSUME MaxDepthAssumption == MaxDepth \in Nat

Slots == 0 .. MaxTasks - 1
NoSlot == -1
NoPool == "null"

ASSUME NoPoolAssumption == NoPool \notin Masks

VARIABLES
  numberThread,   \* the pools by mask: mNumberThread, 0 while there is none
  available,      \* their free slots, mTaskAvailable
  activeCount,    \* their mActiveCount
  mThreadPool,    \* of a runtime: its pool, named by the pool's mask
  mCpuMask, mThreadNumber, mTaskIndex, mThreadOpen,
  bound,          \* whether mCurrentTID is the thread that uses the runtime
  depth,          \* the sections that are open on it
  pc              \* where it is in onConcurrencyBegin or onConcurrencyEnd

pools == <<numberThread, available, activeCount>>
config == <<mThreadPool, mCpuMask, mThreadNumber>>
vars == <<pools, config, mTaskIndex, mThreadOpen, bound, depth, pc>>

Init ==
  /\ numberThread = [m \in Masks |-> 0]
  /\ available = [m \in Masks |-> Slots]
  /\ activeCount = [m \in Masks |-> 0]
  /\ mThreadPool = [r \in Runtimes |-> NoPool]
  /\ mCpuMask = [r \in Runtimes |-> AnyCore]
  /\ mThreadNumber \in [Runtimes -> 1 .. MaxThreads]
  /\ mTaskIndex = [r \in Runtimes |-> NoSlot]
  /\ mThreadOpen = [r \in Runtimes |-> 0]
  /\ bound = [r \in Runtimes |-> FALSE]
  /\ depth = [r \in Runtimes |-> 0]
  /\ pc = [r \in Runtimes |-> "rest"]

Goto(r, from, to) == pc[r] = from /\ pc' = [pc EXCEPT ![r] = to]
HasPool(r) == mThreadPool[r] # NoPool
SetActive(r, d) == activeCount' = [activeCount EXCEPT ![mThreadPool[r]] = @ + d]

Smaller(a, b) == IF a < b THEN a ELSE b
Clamp(n) == IF n < 1 THEN 1 ELSE Smaller(n, MaxThreads)

\* ThreadPool::init keeps the pool a mask has, whatever its size.
PoolReplaced(m, n) == n                                          \* seeded fault
PoolSize(m, n) == IF numberThread[m] = 0 THEN n ELSE numberThread[m]

\* _resetThreadPool for n threads on the cores of m.
ResetThreadPool(r, m, n) ==
  /\ mCpuMask' = [mCpuMask EXCEPT ![r] = m]
  /\ bound' = [bound EXCEPT ![r] = FALSE]
  /\ \/ /\ n <= 1
        /\ mThreadNumber' = [mThreadNumber EXCEPT ![r] = n]
        /\ UNCHANGED <<mThreadPool, numberThread>>
     \/ /\ n > 1
        /\ numberThread' = [numberThread EXCEPT ![m] = PoolSize(m, n)]
        /\ mThreadNumber' = [mThreadNumber EXCEPT ![r] = Smaller(PoolSize(m, n), n)]
        /\ mThreadPool' = [mThreadPool EXCEPT ![r] = m]

Reconfigure(r, m, n) ==
  /\ pc[r] = "rest" /\ depth[r] = 0
  /\ ResetThreadPool(r, m, Clamp(n))
  /\ UNCHANGED <<available, activeCount, mTaskIndex, mThreadOpen, depth, pc>>

\* onReset(n, ...) and onCreate, which keeps the number of threads; m is what
\* _validateCpuIds makes of the hint.
OnReset(r) == \E m \in Masks, n \in 0 .. MaxThreads + 1 : Reconfigure(r, m, n)
OnCreate(r) == \E m \in Masks : Reconfigure(r, m, mThreadNumber[r])

------------------------------------------------------------------------------
(* onConcurrencyBegin.                                                      *)

\* After mTaskIndex has its value: the pool is activated for the first section.
AfterAcquireReopens(r) == IF mTaskIndex'[r] = NoSlot THEN "bind" ELSE "activate"    \* seeded fault
AfterAcquire(r) ==
  IF mTaskIndex'[r] >= 0 /\ mThreadOpen[r] = 0 THEN "activate" ELSE "bind"

Opened(r) == IF AfterAcquire(r) = "bind" /\ mTaskIndex'[r] >= 0
             THEN mThreadOpen[r] + 1 ELSE mThreadOpen[r]

FreeSlots(r) == IF HasPool(r) THEN available[mThreadPool[r]] ELSE {}

\* acquireWorkIndex, unless the runtime has a slot or no pool.
Acquire(r) ==
  IF mTaskIndex[r] < 0 /\ FreeSlots(r) # {}
  THEN \E s \in FreeSlots(r) :
         /\ \A t \in FreeSlots(r) : s <= t
         /\ mTaskIndex' = [mTaskIndex EXCEPT ![r] = s]
         /\ available' = [available EXCEPT ![mThreadPool[r]] = @ \ {s}]
  ELSE UNCHANGED <<mTaskIndex, available>>

Begin(r) ==
  /\ depth[r] < MaxDepth
  /\ depth' = [depth EXCEPT ![r] = @ + 1]
  /\ Acquire(r)
  /\ Goto(r, "rest", AfterAcquire(r))
  /\ mThreadOpen' = [mThreadOpen EXCEPT ![r] = Opened(r)]
  /\ UNCHANGED <<config, numberThread, activeCount, bound>>

Activate(r) ==
  /\ Goto(r, "activate", "bind")
  /\ SetActive(r, 1)
  /\ mThreadOpen' = [mThreadOpen EXCEPT ![r] = @ + 1]
  /\ UNCHANGED <<config, numberThread, available, mTaskIndex, bound, depth>>

\* _bindCPUCore returns early without cores or when this thread is bound.
KeepCores(r) ==
  /\ mCpuMask[r] = AnyCore \/ bound[r]
  /\ Goto(r, "bind", "rest")
  /\ UNCHANGED <<pools, config, mTaskIndex, mThreadOpen, bound, depth>>

\* It binds for a new thread, which can only enter at the outermost section.
BindCores(r) ==
  /\ mCpuMask[r] # AnyCore
  /\ ~ bound[r] \/ depth[r] = 1
  /\ bound' = [bound EXCEPT ![r] = TRUE]
  /\ IF HasPool(r)
     THEN Goto(r, "bind", "bound") /\ SetActive(r, 1)
     ELSE Goto(r, "bind", "rest") /\ UNCHANGED activeCount
  /\ UNCHANGED <<config, numberThread, available, mTaskIndex, mThreadOpen, depth>>

Bound(r) ==                                      \* its deactive()
  /\ Goto(r, "bound", "rest")
  /\ SetActive(r, -1)
  /\ UNCHANGED <<config, numberThread, available, mTaskIndex, mThreadOpen, bound, depth>>

------------------------------------------------------------------------------
(* onConcurrencyEnd.                                                        *)

Closed(r) == IF mTaskIndex[r] < 0 THEN mThreadOpen[r]
             ELSE IF mThreadOpen[r] < 1 THEN 0 ELSE mThreadOpen[r] - 1

AfterEndEager(r) == IF mTaskIndex[r] >= 0 THEN "release" ELSE "rest"     \* seeded fault
AfterEndKeeps(r) == "rest"                                       \* seeded fault
AfterEnd(r) == IF mTaskIndex[r] >= 0 /\ Closed(r) = 0 THEN "release" ELSE "rest"

End(r) ==
  /\ depth[r] > 0
  /\ depth' = [depth EXCEPT ![r] = @ - 1]
  /\ mThreadOpen' = [mThreadOpen EXCEPT ![r] = Closed(r)]
  /\ Goto(r, "rest", AfterEnd(r))
  /\ UNCHANGED <<pools, config, mTaskIndex, bound>>

Release(r) ==
  /\ Goto(r, "release", "deactivate")
  /\ available' = [available EXCEPT ![mThreadPool[r]] = @ \cup {mTaskIndex[r]}]
  /\ UNCHANGED <<config, numberThread, activeCount, mTaskIndex, mThreadOpen, bound, depth>>

Deactivate(r) ==
  /\ Goto(r, "deactivate", "rest")
  /\ SetActive(r, -1)
  /\ mTaskIndex' = [mTaskIndex EXCEPT ![r] = NoSlot]
  /\ UNCHANGED <<config, numberThread, available, mThreadOpen, bound, depth>>

Next == \E r \in Runtimes :
  \/ OnReset(r) \/ OnCreate(r)
  \/ Begin(r) \/ Activate(r) \/ KeepCores(r) \/ BindCores(r) \/ Bound(r)
  \/ End(r) \/ Release(r) \/ Deactivate(r)

Spec == Init /\ [][Next]_vars

------------------------------------------------------------------------------
Points == {"rest", "activate", "bind", "bound", "release", "deactivate"}

\* Every field keeps the type its C++ declaration gives it.
TypeOK ==
  /\ numberThread \in [Masks -> 0 .. MaxThreads]
  /\ available \in [Masks -> SUBSET Slots]
  /\ activeCount \in [Masks -> Int]
  /\ mThreadPool \in [Runtimes -> Masks \cup {NoPool}]
  /\ mCpuMask \in [Runtimes -> Masks]
  /\ mThreadNumber \in [Runtimes -> 1 .. MaxThreads]
  /\ mTaskIndex \in [Runtimes -> Slots \cup {NoSlot}]
  /\ mThreadOpen \in [Runtimes -> 0 .. MaxDepth]
  /\ bound \in [Runtimes -> BOOLEAN]
  /\ depth \in [Runtimes -> 0 .. MaxDepth]
  /\ pc \in [Runtimes -> Points]

Uses(r, m) == mThreadPool[r] = m
Quiet(m) == \A r \in Runtimes : Uses(r, m) => depth[r] = 0 /\ pc[r] = "rest"

\* When the last section on a pool is closed every slot is free and the pool
\* is inactive: nothing leaks, whatever found no slot, nested or was rebound.
QuietPools ==
  \A m \in Masks : Quiet(m) => available[m] = Slots /\ activeCount[m] = 0

\* A runtime that has a slot while its kernels run has it within a section,
\* opened no more often than sections nest, and its pool is active: its tasks
\* are shared and not run serially by enqueueInternal.
SlotMeansParallel ==
  \A r \in Runtimes : pc[r] = "rest" /\ mTaskIndex[r] >= 0 =>
    /\ mThreadOpen[r] \in 1 .. depth[r]
    /\ HasPool(r) /\ activeCount[mThreadPool[r]] > 0

\* A runtime never splits its work over more threads than its pool has.
ThreadsFitPool ==
  \A r \in Runtimes : mThreadNumber[r] > 1 /\ HasPool(r) =>
    mThreadNumber[r] <= numberThread[mThreadPool[r]]

\* Over all pools, each runtime keeps the order of calls that ThreadPool
\* relies on.
Lease(r) == <<IF mTaskIndex[r] = NoSlot THEN NoPool ELSE mThreadPool[r], mTaskIndex[r]>>
Stage(r) ==
  CASE mTaskIndex[r] = NoSlot -> "out"
    [] pc[r] = "activate" -> "taken"
    [] pc[r] = "deactivate" -> "released"
    [] OTHER -> "active"
Protocol == INSTANCE PoolProtocol
            WITH Clients <- Runtimes,
                 Slots <- Masks \X Slots,
                 NoSlot <- <<NoPool, NoSlot>>,
                 free <- {l \in Masks \X Slots : l[2] \in available[l[1]]},
                 lease <- [r \in Runtimes |-> Lease(r)],
                 stage <- [r \in Runtimes |-> Stage(r)]
KeepsProtocol == Protocol!Spec
==============================================================================

--------------------------- MODULE CPURuntime_proof ---------------------------
(***************************************************************************)
(* Sections, slots and activations of the runtimes, for every finite set   *)
(* of runtimes, every number of pools, slots and threads, and sections     *)
(* that nest as deep as they like.  At the end, how an operator divides    *)
(* its work among the threads of a runtime (WorkDivision), for every       *)
(* machine, rate, number of threads and size.                              *)
(***************************************************************************)
EXTENDS CPURuntime, WorkDivision, FoldLemmas, SequenceTheorems, FiniteSetTheorems, TLAPS

\* A runtime that has no slot has not counted, and one that has a slot has counted
\* once for each section since, except while it activates or gives it back.
Sections == \A r \in Runtimes :
  /\ mThreadOpen[r] <= depth[r]
  /\ mTaskIndex[r] = NoSlot => mThreadOpen[r] = 0 /\ pc[r] \in {"rest", "bind", "bound"}
  /\ mTaskIndex[r] # NoSlot => HasPool(r)
  /\ mTaskIndex[r] # NoSlot /\ pc[r] \in {"rest", "bind", "bound"} => mThreadOpen[r] >= 1
  /\ pc[r] \in {"activate", "release", "deactivate"} => mThreadOpen[r] = 0
  /\ pc[r] = "activate" => depth[r] >= 1
  /\ pc[r] = "bound" => HasPool(r)

\* A slot that is not free belongs to one runtime that uses the pool.
Leased(r) == mTaskIndex[r] # NoSlot /\ pc[r] # "deactivate"
HasSlot(r, m, s) == Leased(r) /\ mThreadPool[r] = m /\ mTaskIndex[r] = s
SlotsOwned == \A m \in Masks, s \in Slots :
  /\ s \in available[m] <=> \A r \in Runtimes : ~ HasSlot(r, m, s)
  /\ \A r, q \in Runtimes : HasSlot(r, m, s) /\ HasSlot(q, m, s) => r = q

\* The activations of a pool, each named by the runtime that made it and by
\* whether it did so for its sections or in _bindCPUCore.
Reasons == {"section", "cores"}
Made(r, why) == \/ why = "section" /\ mTaskIndex[r] # NoSlot /\ pc[r] # "activate"
                \/ why = "cores" /\ pc[r] = "bound"
Activations(m) == {e \in Runtimes \X Reasons : mThreadPool[e[1]] = m /\ Made(e[1], e[2])}
ActivationsCounted == \A m \in Masks : activeCount[m] = Cardinality(Activations(m))

\* A runtime that has a pool found it or made it.
PoolsExist == \A r \in Runtimes : HasPool(r) => numberThread[mThreadPool[r]] >= 1

IInv == TypeOK /\ Sections /\ SlotsOwned /\ ActivationsCounted /\ PoolsExist /\ ThreadsFitPool

\* What a runtime does to a pool, to itself, or to both.
Step(r) ==
  \/ OnReset(r) \/ OnCreate(r)
  \/ Begin(r) \/ Activate(r) \/ KeepCores(r) \/ BindCores(r) \/ Bound(r)
  \/ End(r) \/ Release(r) \/ Deactivate(r)

\* The number of threads is brought between 1 and MaxThreads, and the pool of a
\* mask has at least one.
LEMMA Clamping == \A n \in Int : Clamp(n) \in 1 .. MaxThreads
BY MaxThreadsAssumption DEF Clamp, Smaller

LEMMA Sizing ==
  ASSUME TypeOK, NEW m \in Masks, NEW n \in 2 .. MaxThreads
  PROVE  /\ PoolSize(m, n) \in 1 .. MaxThreads
         /\ Smaller(PoolSize(m, n), n) \in 1 .. MaxThreads
         /\ Smaller(PoolSize(m, n), n) <= PoolSize(m, n)
         /\ numberThread[m] # 0 => PoolSize(m, n) = numberThread[m]
<1>1. numberThread[m] \in 0 .. MaxThreads
  BY DEF TypeOK
<1> QED
  BY <1>1, MaxThreadsAssumption DEF PoolSize, Smaller

\* onReset and onCreate are one reconfiguration with a number of threads in range.
LEMMA Reconfigured ==
  ASSUME TypeOK, NEW r \in Runtimes, OnReset(r) \/ OnCreate(r)
  PROVE  \E m \in Masks, n \in 1 .. MaxThreads :
           /\ pc[r] = "rest" /\ depth[r] = 0
           /\ ResetThreadPool(r, m, n)
           /\ UNCHANGED <<available, activeCount, mTaskIndex, mThreadOpen, depth, pc>>
<1>1. CASE OnReset(r)
  <2>1. PICK m \in Masks, k \in 0 .. MaxThreads + 1 : Reconfigure(r, m, k)
    BY <1>1 DEF OnReset
  <2>2. Clamp(k) \in 1 .. MaxThreads
    BY Clamping, MaxThreadsAssumption
  <2> QED
    BY <2>1, <2>2 DEF Reconfigure
<1>2. CASE OnCreate(r)
  <2>1. PICK m \in Masks : Reconfigure(r, m, mThreadNumber[r])
    BY <1>2 DEF OnCreate
  <2>2. Clamp(mThreadNumber[r]) \in 1 .. MaxThreads
    BY Clamping, MaxThreadsAssumption DEF TypeOK
  <2> QED
    BY <2>1, <2>2 DEF Reconfigure
<1> QED
  BY <1>1, <1>2

LEMMA InitTyping == Init => TypeOK
BY NoPoolAssumption, MasksAssumption, MaxTasksAssumption, MaxThreadsAssumption, MaxDepthAssumption
   DEF Init, TypeOK, Points, Slots, NoSlot

\* The number of threads, the masks and the pools keep their types and agree.
LEMMA ConfigInv ==
  ASSUME TypeOK, PoolsExist, ThreadsFitPool, NEW r \in Runtimes, OnReset(r) \/ OnCreate(r)
  PROVE  TypeOK' /\ PoolsExist' /\ ThreadsFitPool'
<1>1. PICK m \in Masks, n \in 1 .. MaxThreads :
        /\ pc[r] = "rest" /\ depth[r] = 0
        /\ ResetThreadPool(r, m, n)
        /\ UNCHANGED <<available, activeCount, mTaskIndex, mThreadOpen, depth, pc>>
  BY Reconfigured
<1>2. CASE n <= 1
  <2>1. /\ mThreadNumber' = [mThreadNumber EXCEPT ![r] = n]
        /\ UNCHANGED <<mThreadPool, numberThread>>
        /\ mCpuMask' = [mCpuMask EXCEPT ![r] = m]
        /\ bound' = [bound EXCEPT ![r] = FALSE]
    BY <1>1, <1>2 DEF ResetThreadPool
  <2>2. TypeOK'
    BY <1>1, <2>1 DEF TypeOK
  <2>3. PoolsExist'
    BY <2>1 DEF PoolsExist, HasPool
  <2>4. ThreadsFitPool'
    BY <1>2, <2>1, MaxThreadsAssumption DEF ThreadsFitPool, HasPool, TypeOK
  <2> QED
    BY <2>2, <2>3, <2>4
<1>3. CASE n > 1
  <2> DEFINE workers == PoolSize(m, n)
  <2>1. /\ numberThread' = [numberThread EXCEPT ![m] = workers]
        /\ mThreadNumber' = [mThreadNumber EXCEPT ![r] = Smaller(workers, n)]
        /\ mThreadPool' = [mThreadPool EXCEPT ![r] = m]
        /\ mCpuMask' = [mCpuMask EXCEPT ![r] = m]
        /\ bound' = [bound EXCEPT ![r] = FALSE]
    BY <1>1, <1>3 DEF ResetThreadPool
  <2>2. /\ workers \in 1 .. MaxThreads /\ Smaller(workers, n) \in 1 .. MaxThreads
        /\ Smaller(workers, n) <= workers
        /\ numberThread[m] # 0 => workers = numberThread[m]
    BY <1>3, Sizing, MaxThreadsAssumption
  <2> HIDE DEF workers
  <2>3. TypeOK'
    BY <1>1, <2>1, <2>2 DEF TypeOK
  <2>4. ASSUME NEW q \in Runtimes, q # r, HasPool(q)
        PROVE  numberThread'[mThreadPool[q]] = numberThread[mThreadPool[q]]
    BY <2>1, <2>2, <2>4 DEF PoolsExist, TypeOK, HasPool
  <2>5. PoolsExist'
    BY <2>1, <2>2, <2>4 DEF PoolsExist, TypeOK, HasPool
  <2>6. ThreadsFitPool'
    BY <2>1, <2>2, <2>4 DEF ThreadsFitPool, TypeOK, HasPool
  <2> QED
    BY <2>3, <2>5, <2>6
<1> QED
  BY <1>1, <1>2, <1>3

\* acquireWorkIndex gives a free slot of the runtime's pool, or nothing changes.
LEMMA Acquiring ==
  ASSUME TypeOK, NEW r \in Runtimes, Acquire(r)
  PROVE  \/ /\ mTaskIndex[r] = NoSlot /\ HasPool(r)
            /\ mThreadPool[r] \in Masks
            /\ \E s \in Slots : /\ s \in available[mThreadPool[r]]
                                /\ mTaskIndex' = [mTaskIndex EXCEPT ![r] = s]
                                /\ available' = [available EXCEPT ![mThreadPool[r]] = @ \ {s}]
         \/ UNCHANGED <<mTaskIndex, available>>
<1>1. CASE mTaskIndex[r] < 0 /\ FreeSlots(r) # {}
  <2>1. HasPool(r) /\ FreeSlots(r) = available[mThreadPool[r]]
    BY <1>1 DEF FreeSlots
  <2>2. mThreadPool[r] \in Masks /\ available[mThreadPool[r]] \subseteq Slots
    BY <2>1 DEF TypeOK, HasPool
  <2>3. mTaskIndex[r] = NoSlot
    BY <1>1, MaxTasksAssumption DEF TypeOK, Slots
  <2>4. PICK s \in FreeSlots(r) : /\ mTaskIndex' = [mTaskIndex EXCEPT ![r] = s]
                                  /\ available' = [available EXCEPT ![mThreadPool[r]] = @ \ {s}]
    BY <1>1 DEF Acquire
  <2> QED
    BY <2>1, <2>2, <2>3, <2>4
<1>2. CASE ~ (mTaskIndex[r] < 0 /\ FreeSlots(r) # {})
  BY <1>2 DEF Acquire
<1> QED
  BY <1>1, <1>2

\* The first section that finds a slot activates the pool; every other one with a
\* slot counts and goes on.
LEMMA Beginning ==
  ASSUME TypeOK, Sections, NEW r \in Runtimes, Begin(r)
  PROVE  /\ pc[r] = "rest" /\ depth[r] < MaxDepth
         /\ depth' = [depth EXCEPT ![r] = @ + 1]
         /\ UNCHANGED <<config, numberThread, activeCount, bound>>
         /\ \/ /\ mTaskIndex[r] = NoSlot /\ HasPool(r)
               /\ mThreadPool[r] \in Masks
               /\ \E s \in Slots : /\ s \in available[mThreadPool[r]]
                                   /\ mTaskIndex' = [mTaskIndex EXCEPT ![r] = s]
                                   /\ available' = [available EXCEPT ![mThreadPool[r]] = @ \ {s}]
               /\ pc' = [pc EXCEPT ![r] = "activate"]
               /\ mThreadOpen' = mThreadOpen
            \/ /\ UNCHANGED <<mTaskIndex, available>>
               /\ pc' = [pc EXCEPT ![r] = "bind"]
               /\ mTaskIndex[r] = NoSlot => mThreadOpen' = mThreadOpen
               /\ mTaskIndex[r] # NoSlot => mThreadOpen' = [mThreadOpen EXCEPT ![r] = @ + 1]
<1>1. /\ pc[r] = "rest" /\ depth[r] < MaxDepth
      /\ depth' = [depth EXCEPT ![r] = @ + 1]
      /\ UNCHANGED <<config, numberThread, activeCount, bound>>
      /\ Acquire(r)
      /\ pc' = [pc EXCEPT ![r] = AfterAcquire(r)]
      /\ mThreadOpen' = [mThreadOpen EXCEPT ![r] = Opened(r)]
  BY DEF Begin, Goto
<1>2. mThreadOpen = [mThreadOpen EXCEPT ![r] = mThreadOpen[r]]
  BY DEF TypeOK
<1>3. \A s \in Slots : s >= 0 /\ s # NoSlot
  BY MaxTasksAssumption DEF Slots, NoSlot
<1>4. CASE UNCHANGED <<mTaskIndex, available>>
  <2>1. mTaskIndex[r] # NoSlot => mTaskIndex[r] >= 0 /\ mThreadOpen[r] # 0
    BY <1>1, <1>3 DEF TypeOK, Sections
  <2>2. ~ (NoSlot >= 0)
    BY DEF NoSlot
  <2>3. AfterAcquire(r) = "bind"
    BY <1>4, <2>1, <2>2 DEF AfterAcquire
  <2>4. mTaskIndex[r] = NoSlot => Opened(r) = mThreadOpen[r]
    BY <1>4, <2>2 DEF Opened
  <2>5. mTaskIndex[r] # NoSlot => Opened(r) = mThreadOpen[r] + 1
    BY <1>4, <2>1, <2>3 DEF Opened
  <2> QED
    BY <1>1, <1>2, <1>4, <2>3, <2>4, <2>5
<1>5. CASE /\ mTaskIndex[r] = NoSlot /\ HasPool(r)
           /\ mThreadPool[r] \in Masks
           /\ \E s \in Slots : /\ s \in available[mThreadPool[r]]
                               /\ mTaskIndex' = [mTaskIndex EXCEPT ![r] = s]
                               /\ available' = [available EXCEPT ![mThreadPool[r]] = @ \ {s}]
  <2>1. mTaskIndex'[r] >= 0 /\ mThreadOpen[r] = 0
    BY <1>3, <1>5 DEF TypeOK, Sections
  <2>2. AfterAcquire(r) = "activate" /\ Opened(r) = mThreadOpen[r]
    BY <2>1 DEF AfterAcquire, Opened
  <2> QED
    BY <1>1, <1>2, <1>5, <2>2
<1> QED
  BY <1>1, <1>4, <1>5, Acquiring

\* A section that ends counts down if the runtime has a slot, and the last one
\* gives the slot back.
LEMMA Ending ==
  ASSUME TypeOK, Sections, NEW r \in Runtimes, End(r)
  PROVE  /\ pc[r] = "rest" /\ depth[r] >= 1
         /\ depth' = [depth EXCEPT ![r] = @ - 1]
         /\ UNCHANGED <<pools, config, mTaskIndex, bound>>
         /\ \/ /\ mTaskIndex[r] = NoSlot
               /\ UNCHANGED <<mThreadOpen, pc>>
            \/ /\ mTaskIndex[r] # NoSlot /\ mThreadOpen[r] > 1
               /\ mThreadOpen' = [mThreadOpen EXCEPT ![r] = @ - 1]
               /\ UNCHANGED pc
            \/ /\ mTaskIndex[r] # NoSlot /\ mThreadOpen[r] = 1
               /\ mThreadOpen' = [mThreadOpen EXCEPT ![r] = 0]
               /\ pc' = [pc EXCEPT ![r] = "release"]
<1>1. /\ pc[r] = "rest" /\ depth[r] >= 1
      /\ depth' = [depth EXCEPT ![r] = @ - 1]
      /\ UNCHANGED <<pools, config, mTaskIndex, bound>>
      /\ mThreadOpen' = [mThreadOpen EXCEPT ![r] = Closed(r)]
      /\ pc' = [pc EXCEPT ![r] = AfterEnd(r)]
  BY DEF End, Goto, TypeOK
<1>2. CASE mTaskIndex[r] = NoSlot
  <2>1. mTaskIndex[r] < 0 /\ ~ (mTaskIndex[r] >= 0)
    BY <1>2 DEF NoSlot
  <2>2. Closed(r) = mThreadOpen[r] /\ AfterEnd(r) = "rest"
    BY <2>1 DEF Closed, AfterEnd
  <2>3. UNCHANGED <<mThreadOpen, pc>>
    BY <1>1, <2>2 DEF TypeOK
  <2> QED
    BY <1>1, <1>2, <2>3
<1>3. CASE mTaskIndex[r] # NoSlot
  <2>1. /\ mTaskIndex[r] \in Int /\ mTaskIndex[r] >= 0
        /\ mThreadOpen[r] \in Int /\ mThreadOpen[r] >= 1
    BY <1>1, <1>3, MaxTasksAssumption, MaxDepthAssumption DEF TypeOK, Sections, Slots, NoSlot
  <2>2. Closed(r) = mThreadOpen[r] - 1
    BY <2>1 DEF Closed
  <2>3. CASE mThreadOpen[r] = 1
    <3>1. AfterEnd(r) = "release"
      BY <2>1, <2>2, <2>3 DEF AfterEnd
    <3> QED
      BY <1>1, <1>3, <2>2, <2>3, <3>1
  <2>4. CASE mThreadOpen[r] > 1
    <3>1. AfterEnd(r) = "rest"
      BY <2>1, <2>2, <2>4 DEF AfterEnd
    <3>2. UNCHANGED pc
      BY <1>1, <3>1 DEF TypeOK
    <3> QED
      BY <1>1, <1>3, <2>2, <2>4, <3>2
  <2> QED
    BY <2>1, <2>3, <2>4
<1> QED
  BY <1>2, <1>3

LEMMA InitSections == Init => Sections
BY DEF Init, Sections, NoSlot

\* A step inside onConcurrencyBegin or onConcurrencyEnd keeps the types and the
\* count of sections.
LEMMA BeginSections ==
  ASSUME TypeOK, Sections, NEW r \in Runtimes, Begin(r)
  PROVE  TypeOK' /\ Sections'
<1> USE MaxDepthAssumption
<1>1. /\ pc[r] = "rest" /\ depth[r] < MaxDepth
      /\ depth' = [depth EXCEPT ![r] = @ + 1]
      /\ UNCHANGED <<config, numberThread, activeCount, bound>>
  BY Beginning
<1>2. CASE /\ mTaskIndex[r] = NoSlot /\ HasPool(r)
           /\ mThreadPool[r] \in Masks
           /\ \E s \in Slots : /\ s \in available[mThreadPool[r]]
                               /\ mTaskIndex' = [mTaskIndex EXCEPT ![r] = s]
                               /\ available' = [available EXCEPT ![mThreadPool[r]] = @ \ {s}]
           /\ pc' = [pc EXCEPT ![r] = "activate"]
           /\ mThreadOpen' = mThreadOpen
  <2>1. PICK s \in Slots : /\ mTaskIndex' = [mTaskIndex EXCEPT ![r] = s]
                           /\ available' = [available EXCEPT ![mThreadPool[r]] = @ \ {s}]
    BY <1>2
  <2>2. s # NoSlot
    BY MaxTasksAssumption DEF Slots, NoSlot
  <2>3. available' \in [Masks -> SUBSET Slots]
    BY <2>1 DEF TypeOK
  <2>4. TypeOK'
    BY <1>1, <1>2, <2>1, <2>3 DEF TypeOK, Points, config
  <2>5. Sections'
    BY <1>1, <1>2, <2>1, <2>2 DEF TypeOK, Sections, HasPool, config
  <2> QED
    BY <2>4, <2>5
<1>3. CASE /\ UNCHANGED <<mTaskIndex, available>>
           /\ pc' = [pc EXCEPT ![r] = "bind"]
           /\ mTaskIndex[r] = NoSlot /\ mThreadOpen' = mThreadOpen
  <2>1. TypeOK'
    BY <1>1, <1>3 DEF TypeOK, Points, config
  <2>2. Sections'
    BY <1>1, <1>3 DEF TypeOK, Sections, HasPool, config
  <2> QED
    BY <2>1, <2>2
<1>4. CASE /\ UNCHANGED <<mTaskIndex, available>>
           /\ pc' = [pc EXCEPT ![r] = "bind"]
           /\ mTaskIndex[r] # NoSlot /\ mThreadOpen' = [mThreadOpen EXCEPT ![r] = @ + 1]
  <2>1. mThreadOpen[r] <= depth[r] /\ mThreadOpen[r] >= 1
    BY <1>1, <1>4 DEF Sections
  <2>2. TypeOK'
    BY <1>1, <1>4, <2>1 DEF TypeOK, Points, config
  <2>3. Sections'
    BY <1>1, <1>4, <2>1 DEF TypeOK, Sections, HasPool, config
  <2> QED
    BY <2>2, <2>3
<1> QED
  BY <1>2, <1>3, <1>4, Beginning

LEMMA EndSections ==
  ASSUME TypeOK, Sections, NEW r \in Runtimes, End(r)
  PROVE  TypeOK' /\ Sections'
<1> USE MaxDepthAssumption
<1>1. /\ pc[r] = "rest" /\ depth[r] >= 1
      /\ depth' = [depth EXCEPT ![r] = @ - 1]
      /\ UNCHANGED <<pools, config, mTaskIndex, bound>>
  BY Ending
<1>2. CASE mTaskIndex[r] = NoSlot /\ UNCHANGED <<mThreadOpen, pc>>
  <2>1. mThreadOpen[r] = 0
    BY <1>2 DEF Sections
  <2>2. TypeOK'
    BY <1>1, <1>2 DEF TypeOK, config, pools
  <2>3. Sections'
    BY <1>1, <1>2, <2>1 DEF TypeOK, Sections, HasPool, config
  <2> QED
    BY <2>2, <2>3
<1>3. CASE /\ mTaskIndex[r] # NoSlot /\ mThreadOpen[r] > 1
           /\ mThreadOpen' = [mThreadOpen EXCEPT ![r] = @ - 1]
           /\ UNCHANGED pc
  <2>1. TypeOK'
    BY <1>1, <1>3 DEF TypeOK, config, pools
  <2>2. Sections'
    BY <1>1, <1>3 DEF TypeOK, Sections, HasPool, config
  <2> QED
    BY <2>1, <2>2
<1>4. CASE /\ mTaskIndex[r] # NoSlot /\ mThreadOpen[r] = 1
           /\ mThreadOpen' = [mThreadOpen EXCEPT ![r] = 0]
           /\ pc' = [pc EXCEPT ![r] = "release"]
  <2>1. TypeOK'
    BY <1>1, <1>4 DEF TypeOK, Points, config, pools
  <2>2. Sections'
    BY <1>1, <1>4 DEF TypeOK, Sections, HasPool, config
  <2> QED
    BY <2>1, <2>2
<1> QED
  BY <1>2, <1>3, <1>4, Ending

LEMMA StepSections ==
  ASSUME TypeOK, Sections, PoolsExist, ThreadsFitPool, NEW r \in Runtimes, Step(r)
  PROVE  TypeOK' /\ Sections'
<1>1. CASE OnReset(r) \/ OnCreate(r)
  <2>1. TypeOK'
    BY <1>1, ConfigInv
  <2>2. /\ pc[r] = "rest" /\ depth[r] = 0
        /\ UNCHANGED <<mTaskIndex, mThreadOpen, depth, pc>>
        /\ \A q \in Runtimes : q # r => mThreadPool'[q] = mThreadPool[q]
    BY <1>1, Reconfigured DEF ResetThreadPool, TypeOK
  <2>3. mTaskIndex[r] = NoSlot
    BY <2>2, MaxDepthAssumption DEF Sections, TypeOK
  <2>4. Sections'
    BY <2>2, <2>3 DEF Sections, HasPool
  <2> QED
    BY <2>1, <2>4
<1>2. CASE Activate(r)
  <2> USE <1>2, MaxDepthAssumption DEF Activate, Goto, SetActive, config
  <2>1. mThreadOpen[r] = 0 /\ depth[r] >= 1 /\ mTaskIndex[r] # NoSlot /\ HasPool(r)
    BY DEF Sections
  <2>2. activeCount' \in [Masks -> Int]
    BY <2>1 DEF TypeOK, HasPool
  <2>3. TypeOK'
    BY <2>1, <2>2 DEF TypeOK, Points
  <2>4. Sections'
    BY <2>1 DEF TypeOK, Sections, HasPool
  <2> QED
    BY <2>3, <2>4
<1>3. CASE KeepCores(r)
  BY <1>3 DEF KeepCores, Goto, TypeOK, Sections, Points, HasPool, config, pools
<1>4. CASE BindCores(r)
  <2> USE <1>4 DEF BindCores, Goto, SetActive, config
  <2>1. activeCount' \in [Masks -> Int]
    BY DEF TypeOK, HasPool
  <2>2. pc[r] = "bind" /\ pc' \in [Runtimes -> Points]
    BY DEF TypeOK, Points
  <2>3. TypeOK'
    BY <2>1, <2>2 DEF TypeOK
  <2>4. Sections'
    BY <2>2 DEF TypeOK, Sections, HasPool
  <2> QED
    BY <2>3, <2>4
<1>5. CASE Bound(r)
  <2> USE <1>5 DEF Bound, Goto, SetActive, config
  <2>1. HasPool(r)
    BY DEF Sections
  <2>2. activeCount' \in [Masks -> Int]
    BY <2>1 DEF TypeOK, HasPool
  <2>3. TypeOK'
    BY <2>2 DEF TypeOK, Points
  <2>4. Sections'
    BY DEF TypeOK, Sections, HasPool
  <2> QED
    BY <2>3, <2>4
<1>6. CASE Release(r)
  <2> USE <1>6 DEF Release, Goto, config
  <2>1. mTaskIndex[r] # NoSlot /\ mTaskIndex[r] \in Slots /\ HasPool(r)
    BY DEF Sections, TypeOK
  <2>2. available' \in [Masks -> SUBSET Slots]
    BY <2>1 DEF TypeOK, HasPool
  <2>3. TypeOK'
    BY <2>2 DEF TypeOK, Points
  <2>4. Sections'
    BY <2>1 DEF TypeOK, Sections, HasPool
  <2> QED
    BY <2>3, <2>4
<1>7. CASE Deactivate(r)
  <2> USE <1>7 DEF Deactivate, Goto, SetActive, config
  <2>1. HasPool(r) /\ mThreadOpen[r] = 0
    BY DEF Sections
  <2>2. activeCount' \in [Masks -> Int]
    BY <2>1 DEF TypeOK, HasPool
  <2>3. TypeOK'
    BY <2>2 DEF TypeOK, Points
  <2>4. Sections'
    BY <2>1 DEF TypeOK, Sections, HasPool
  <2> QED
    BY <2>3, <2>4
<1> QED
  BY <1>1, <1>2, <1>3, <1>4, <1>5, <1>6, <1>7, BeginSections, EndSections DEF Step

\* Only a reconfiguration changes which pools there are.
LEMMA StepPools ==
  ASSUME TypeOK, Sections, PoolsExist, ThreadsFitPool, NEW r \in Runtimes, Step(r)
  PROVE  PoolsExist' /\ ThreadsFitPool'
<1>1. CASE OnReset(r) \/ OnCreate(r)
  BY <1>1, ConfigInv
<1>2. CASE ~ (OnReset(r) \/ OnCreate(r))
  <2>1. UNCHANGED <<config, numberThread>>
    BY <1>2 DEF Step, Begin, Activate, KeepCores, BindCores, Bound, End, Release, Deactivate,
                config, pools
  <2> QED
    BY <2>1 DEF PoolsExist, ThreadsFitPool, HasPool, config
<1> QED
  BY <1>1, <1>2

LEMMA InitSlots == Init => SlotsOwned
BY DEF Init, SlotsOwned, HasSlot, Leased

\* While nobody takes or gives back a slot, ownership stays.
LEMMA SlotsKept ==
  ASSUME SlotsOwned, UNCHANGED available,
         \A q \in Runtimes, m \in Masks, s \in Slots : HasSlot(q, m, s)' <=> HasSlot(q, m, s)
  PROVE  SlotsOwned'
BY DEF SlotsOwned

LEMMA StepSlots ==
  ASSUME TypeOK, Sections, SlotsOwned, NEW r \in Runtimes, Step(r)
  PROVE  SlotsOwned'
<1>1. CASE OnReset(r) \/ OnCreate(r)
  <2>1. /\ pc[r] = "rest" /\ depth[r] = 0
        /\ UNCHANGED <<available, mTaskIndex, pc>>
        /\ \A q \in Runtimes : q # r => mThreadPool'[q] = mThreadPool[q]
    BY <1>1, Reconfigured DEF ResetThreadPool, TypeOK
  <2>2. mTaskIndex[r] = NoSlot
    BY <2>1, MaxDepthAssumption DEF Sections, TypeOK
  <2> QED
    BY <2>1, <2>2, SlotsKept DEF HasSlot, Leased
<1>2. CASE Begin(r)
  <2>1. pc[r] = "rest" /\ UNCHANGED config
    BY <1>2, Beginning
  <2>2. CASE UNCHANGED <<mTaskIndex, available>> /\ pc' = [pc EXCEPT ![r] = "bind"]
    BY <2>1, <2>2, SlotsKept DEF HasSlot, Leased, config, TypeOK
  <2>3. CASE /\ mTaskIndex[r] = NoSlot
             /\ mThreadPool[r] \in Masks
             /\ \E s \in Slots : /\ s \in available[mThreadPool[r]]
                                 /\ mTaskIndex' = [mTaskIndex EXCEPT ![r] = s]
                                 /\ available' = [available EXCEPT ![mThreadPool[r]] = @ \ {s}]
             /\ pc' = [pc EXCEPT ![r] = "activate"]
    <3> DEFINE p == mThreadPool[r]
    <3>1. PICK s \in Slots : /\ s \in available[p]
                             /\ mTaskIndex' = [mTaskIndex EXCEPT ![r] = s]
                             /\ available' = [available EXCEPT ![p] = @ \ {s}]
      BY <2>3
    <3>2. s # NoSlot
      BY MaxTasksAssumption DEF Slots, NoSlot
    <3>3. \A q \in Runtimes : ~ HasSlot(q, p, s)
      BY <2>3, <3>1 DEF SlotsOwned
    <3>4. ASSUME NEW q \in Runtimes, NEW m \in Masks, NEW k \in Slots
          PROVE  HasSlot(q, m, k)' <=> HasSlot(q, m, k) \/ (q = r /\ m = p /\ k = s)
      <4>1. CASE q = r
        BY <2>1, <2>3, <3>1, <3>2, <4>1 DEF HasSlot, Leased, config, TypeOK
      <4>2. CASE q # r
        BY <2>1, <2>3, <3>1, <4>2 DEF HasSlot, Leased, config, TypeOK
      <4> QED
        BY <4>1, <4>2
    <3>5. ASSUME NEW m \in Masks, NEW k \in Slots
          PROVE  k \in available'[m] <=> k \in available[m] /\ ~ (m = p /\ k = s)
      BY <2>3, <3>1 DEF TypeOK
    <3> HIDE DEF p
    <3> QED
      BY <3>3, <3>4, <3>5 DEF SlotsOwned
  <2> QED
    BY <1>2, <2>2, <2>3, Beginning
<1>3. CASE Activate(r) \/ KeepCores(r) \/ BindCores(r) \/ Bound(r)
  <2>1. /\ UNCHANGED <<available, mTaskIndex, mThreadPool>>
        /\ pc[r] # "deactivate" /\ pc'[r] # "deactivate"
        /\ \A q \in Runtimes : q # r => pc'[q] = pc[q]
    BY <1>3 DEF Activate, KeepCores, BindCores, Bound, Goto, config, pools, TypeOK
  <2> QED
    BY <2>1, SlotsKept DEF HasSlot, Leased
<1>4. CASE End(r)
  <2>1. /\ UNCHANGED <<available, mTaskIndex, mThreadPool>>
        /\ pc[r] # "deactivate" /\ pc'[r] # "deactivate"
        /\ \A q \in Runtimes : q # r => pc'[q] = pc[q]
    BY <1>4, Ending DEF config, pools, TypeOK
  <2> QED
    BY <2>1, SlotsKept DEF HasSlot, Leased
<1>5. CASE Release(r)
  <2> DEFINE p == mThreadPool[r]
             s == mTaskIndex[r]
  <2>1. /\ pc[r] = "release" /\ pc' = [pc EXCEPT ![r] = "deactivate"]
        /\ available' = [available EXCEPT ![p] = @ \cup {s}]
        /\ UNCHANGED <<mThreadPool, mTaskIndex>>
    BY <1>5 DEF Release, Goto, config
  <2>2. s # NoSlot /\ s \in Slots /\ p \in Masks
    BY <2>1 DEF Sections, TypeOK, HasPool
  <2>3. HasSlot(r, p, s)
    BY <2>1, <2>2 DEF HasSlot, Leased
  <2>4. ASSUME NEW q \in Runtimes, NEW m \in Masks, NEW k \in Slots
        PROVE  HasSlot(q, m, k)' <=> HasSlot(q, m, k) /\ q # r
    BY <2>1 DEF HasSlot, Leased, TypeOK
  <2>5. ASSUME NEW m \in Masks, NEW k \in Slots
        PROVE  k \in available'[m] <=> k \in available[m] \/ (m = p /\ k = s)
    BY <2>1, <2>2 DEF TypeOK
  <2>6. ASSUME NEW m \in Masks, NEW k \in Slots
        PROVE  HasSlot(r, m, k) => m = p /\ k = s
    BY DEF HasSlot
  <2> HIDE DEF p, s
  <2> QED
    BY <2>2, <2>3, <2>4, <2>5, <2>6 DEF SlotsOwned
<1>6. CASE Deactivate(r)
  <2>1. /\ UNCHANGED <<available, mThreadPool>>
        /\ pc[r] = "deactivate" /\ mTaskIndex'[r] = NoSlot
        /\ \A q \in Runtimes : q # r => pc'[q] = pc[q] /\ mTaskIndex'[q] = mTaskIndex[q]
    BY <1>6 DEF Deactivate, Goto, config, TypeOK
  <2> QED
    BY <2>1, SlotsKept DEF HasSlot, Leased
<1> QED
  BY <1>1, <1>2, <1>3, <1>4, <1>5, <1>6 DEF Step

------------------------------------------------------------------------------
LEMMA FiniteActivations ==
  \A m \in Masks : /\ IsFiniteSet(Activations(m))
                   /\ Cardinality(Activations(m)) \in Nat
<1>1. IsFiniteSet(Reasons)
  <2>1. IsFiniteSet({}) BY FS_EmptySet
  <2>2. IsFiniteSet({} \cup {"section"}) BY <2>1, FS_AddElement
  <2>3. IsFiniteSet(({} \cup {"section"}) \cup {"cores"}) BY <2>2, FS_AddElement
  <2>4. Reasons = ({} \cup {"section"}) \cup {"cores"} BY DEF Reasons
  <2> QED
    BY <2>3, <2>4
<1>2. IsFiniteSet(Runtimes \X Reasons)
  BY <1>1, RuntimesAssumption, FS_Product
<1>3. \A m \in Masks : Activations(m) \in SUBSET (Runtimes \X Reasons)
  BY DEF Activations
<1> QED
  BY <1>2, <1>3, FS_Subset, FS_CardinalityType

LEMMA InitActivations == Init => ActivationsCounted
<1> SUFFICES ASSUME Init, NEW m \in Masks
             PROVE  activeCount[m] = Cardinality(Activations(m))
  BY DEF ActivationsCounted
<1>1. Activations(m) = {}
  BY DEF Init, Activations, Made
<1> QED
  BY <1>1, FS_EmptySet DEF Init

\* Steps that make no call keep the activations.
LEMMA ActivationsKept ==
  ASSUME ActivationsCounted, UNCHANGED activeCount,
         \A q \in Runtimes, why \in Reasons, m \in Masks :
           (mThreadPool'[q] = m /\ Made(q, why)') <=> (mThreadPool[q] = m /\ Made(q, why))
  PROVE  ActivationsCounted'
<1> SUFFICES ASSUME NEW m \in Masks PROVE Activations(m)' = Activations(m)
  BY DEF ActivationsCounted
<1>1. ASSUME NEW e \in Runtimes \X Reasons
      PROVE  (mThreadPool'[e[1]] = m /\ Made(e[1], e[2])') <=> (mThreadPool[e[1]] = m /\ Made(e[1], e[2]))
  <2>1. e[1] \in Runtimes /\ e[2] \in Reasons
    OBVIOUS
  <2> QED
    BY <2>1
<1> QED
  BY <1>1 DEF Activations

\* active() adds one activation and one to the count of the pool.
LEMMA ActivationMade ==
  ASSUME TypeOK, ActivationsCounted, NEW r \in Runtimes, NEW reason \in Reasons,
         HasPool(r), SetActive(r, 1), UNCHANGED mThreadPool, ~ Made(r, reason),
         \A q \in Runtimes, why \in Reasons :
           Made(q, why)' <=> Made(q, why) \/ (q = r /\ why = reason)
  PROVE  ActivationsCounted'
<1> SUFFICES ASSUME NEW m \in Masks
             PROVE  activeCount'[m] = Cardinality(Activations(m)')
  BY DEF ActivationsCounted
<1> DEFINE p == mThreadPool[r]
<1>1. p \in Masks /\ activeCount' = [activeCount EXCEPT ![p] = @ + 1]
  BY DEF TypeOK, HasPool, SetActive
<1>2. ASSUME NEW e \in Runtimes \X Reasons
      PROVE  Made(e[1], e[2])' <=> Made(e[1], e[2]) \/ e = <<r, reason>>
  <2>1. e[1] \in Runtimes /\ e[2] \in Reasons /\ e = <<e[1], e[2]>>
    OBVIOUS
  <2> QED
    BY <2>1
<1>3. CASE m = p
  <2>1. Activations(m)' = Activations(m) \cup {<<r, reason>>}
    BY <1>2, <1>3 DEF Activations
  <2>2. <<r, reason>> \notin Activations(m)
    BY DEF Activations
  <2>3. Cardinality(Activations(m)') = Cardinality(Activations(m)) + 1
    BY <2>1, <2>2, FiniteActivations, FS_AddElement
  <2> QED
    BY <1>1, <1>3, <2>3 DEF ActivationsCounted, TypeOK
<1>4. CASE m # p
  <2>1. Activations(m)' = Activations(m)
    BY <1>2, <1>4 DEF Activations
  <2> QED
    BY <1>1, <1>4, <2>1 DEF ActivationsCounted, TypeOK
<1> QED
  BY <1>3, <1>4

\* deactive() takes one of each away.
LEMMA ActivationEnded ==
  ASSUME TypeOK, ActivationsCounted, NEW r \in Runtimes, NEW reason \in Reasons,
         HasPool(r), SetActive(r, -1), UNCHANGED mThreadPool, Made(r, reason),
         \A q \in Runtimes, why \in Reasons :
           Made(q, why)' <=> Made(q, why) /\ ~ (q = r /\ why = reason)
  PROVE  ActivationsCounted'
<1> SUFFICES ASSUME NEW m \in Masks
             PROVE  activeCount'[m] = Cardinality(Activations(m)')
  BY DEF ActivationsCounted
<1> DEFINE p == mThreadPool[r]
<1>1. p \in Masks /\ activeCount' = [activeCount EXCEPT ![p] = @ - 1]
  BY DEF TypeOK, HasPool, SetActive
<1>2. ASSUME NEW e \in Runtimes \X Reasons
      PROVE  Made(e[1], e[2])' <=> Made(e[1], e[2]) /\ e # <<r, reason>>
  <2>1. e[1] \in Runtimes /\ e[2] \in Reasons /\ e = <<e[1], e[2]>>
    OBVIOUS
  <2> QED
    BY <2>1
<1>3. CASE m = p
  <2>1. Activations(m)' = Activations(m) \ {<<r, reason>>}
    BY <1>2, <1>3 DEF Activations
  <2>2. <<r, reason>> \in Activations(m)
    BY <1>3 DEF Activations
  <2>3. Cardinality(Activations(m)') = Cardinality(Activations(m)) - 1
    BY <2>1, <2>2, FiniteActivations, FS_RemoveElement
  <2> QED
    BY <1>1, <1>3, <2>3 DEF ActivationsCounted, TypeOK
<1>4. CASE m # p
  <2>1. Activations(m)' = Activations(m)
    BY <1>2, <1>4 DEF Activations
  <2> QED
    BY <1>1, <1>4, <2>1 DEF ActivationsCounted, TypeOK
<1> QED
  BY <1>3, <1>4

LEMMA StepActivations ==
  ASSUME TypeOK, Sections, ActivationsCounted, NEW r \in Runtimes, Step(r)
  PROVE  ActivationsCounted'
<1>1. CASE OnReset(r) \/ OnCreate(r)
  <2>1. /\ pc[r] = "rest" /\ depth[r] = 0
        /\ UNCHANGED <<activeCount, mTaskIndex, pc>>
        /\ \A q \in Runtimes : q # r => mThreadPool'[q] = mThreadPool[q]
    BY <1>1, Reconfigured DEF ResetThreadPool, TypeOK
  <2>2. mTaskIndex[r] = NoSlot
    BY <2>1, MaxDepthAssumption DEF Sections, TypeOK
  <2> QED
    BY <2>1, <2>2, ActivationsKept DEF Made
<1>2. CASE Begin(r)
  <2>1. pc[r] = "rest" /\ UNCHANGED <<config, activeCount>>
    BY <1>2, Beginning
  <2>2. ASSUME NEW q \in Runtimes, NEW why \in Reasons PROVE Made(q, why)' <=> Made(q, why)
    <3>1. CASE UNCHANGED <<mTaskIndex, available>> /\ pc' = [pc EXCEPT ![r] = "bind"]
      BY <2>1, <3>1 DEF Made, TypeOK
    <3>2. CASE /\ mTaskIndex[r] = NoSlot
               /\ \E s \in Slots : mTaskIndex' = [mTaskIndex EXCEPT ![r] = s]
               /\ pc' = [pc EXCEPT ![r] = "activate"]
      BY <2>1, <3>2 DEF Made, TypeOK
    <3> QED
      BY <1>2, <3>1, <3>2, Beginning
  <2> QED
    BY <2>1, <2>2, ActivationsKept DEF config
<1>3. CASE Activate(r)
  <2>1. /\ pc[r] = "activate" /\ pc' = [pc EXCEPT ![r] = "bind"]
        /\ SetActive(r, 1) /\ UNCHANGED <<mThreadPool, mTaskIndex>>
    BY <1>3 DEF Activate, Goto, config
  <2>2. HasPool(r) /\ mTaskIndex[r] # NoSlot
    BY <2>1 DEF Sections
  <2>3. /\ ~ Made(r, "section") /\ "section" \in Reasons
        /\ \A q \in Runtimes, why \in Reasons :
             Made(q, why)' <=> Made(q, why) \/ (q = r /\ why = "section")
    BY <2>1, <2>2 DEF Made, Reasons, TypeOK
  <2> QED
    BY <2>1, <2>2, <2>3, ActivationMade
<1>4. CASE \/ KeepCores(r)
           \/ BindCores(r) /\ ~ HasPool(r)
           \/ End(r)
           \/ Release(r)
  <2>1. /\ UNCHANGED <<activeCount, mTaskIndex, mThreadPool>>
        /\ \A q \in Runtimes : q # r => pc'[q] = pc[q]
        /\ pc[r] \notin {"activate", "bound"} /\ pc'[r] \notin {"activate", "bound"}
    <3>1. CASE KeepCores(r) \/ (BindCores(r) /\ ~ HasPool(r)) \/ Release(r)
      BY <3>1 DEF KeepCores, BindCores, Release, Goto, config, pools, TypeOK
    <3>2. CASE End(r)
      BY <3>2, Ending DEF config, pools, TypeOK
    <3> QED
      BY <1>4, <3>1, <3>2
  <2> QED
    BY <2>1, ActivationsKept DEF Made
<1>5. CASE BindCores(r) /\ HasPool(r)
  <2>1. /\ pc[r] = "bind" /\ pc' = [pc EXCEPT ![r] = "bound"]
        /\ SetActive(r, 1) /\ UNCHANGED <<mThreadPool, mTaskIndex>>
    BY <1>5 DEF BindCores, Goto, config
  <2>2. /\ ~ Made(r, "cores") /\ "cores" \in Reasons
        /\ \A q \in Runtimes, why \in Reasons :
             Made(q, why)' <=> Made(q, why) \/ (q = r /\ why = "cores")
    BY <2>1 DEF Made, Reasons, TypeOK
  <2> QED
    BY <1>5, <2>1, <2>2, ActivationMade
<1>6. CASE Bound(r)
  <2>1. /\ pc[r] = "bound" /\ pc' = [pc EXCEPT ![r] = "rest"]
        /\ SetActive(r, -1) /\ UNCHANGED <<mThreadPool, mTaskIndex>>
    BY <1>6 DEF Bound, Goto, config
  <2>2. HasPool(r)
    BY <2>1 DEF Sections
  <2>3. /\ Made(r, "cores") /\ "cores" \in Reasons
        /\ \A q \in Runtimes, why \in Reasons :
             Made(q, why)' <=> Made(q, why) /\ ~ (q = r /\ why = "cores")
    BY <2>1 DEF Made, Reasons, TypeOK
  <2> QED
    BY <2>1, <2>2, <2>3, ActivationEnded
<1>7. CASE Deactivate(r)
  <2>1. /\ pc[r] = "deactivate" /\ pc' = [pc EXCEPT ![r] = "rest"]
        /\ mTaskIndex' = [mTaskIndex EXCEPT ![r] = NoSlot]
        /\ SetActive(r, -1) /\ UNCHANGED mThreadPool
    BY <1>7 DEF Deactivate, Goto, config
  <2>2. HasPool(r) /\ mTaskIndex[r] # NoSlot
    BY <2>1 DEF Sections
  <2>3. /\ Made(r, "section") /\ "section" \in Reasons
        /\ \A q \in Runtimes, why \in Reasons :
             Made(q, why)' <=> Made(q, why) /\ ~ (q = r /\ why = "section")
    BY <2>1, <2>2 DEF Made, Reasons, TypeOK
  <2> QED
    BY <2>1, <2>2, <2>3, ActivationEnded
<1> QED
  BY <1>1, <1>2, <1>3, <1>4, <1>5, <1>6, <1>7 DEF Step

------------------------------------------------------------------------------
LEMMA InitInv == Init => IInv
<1> SUFFICES ASSUME Init PROVE IInv
  OBVIOUS
<1>1. PoolsExist /\ ThreadsFitPool
  BY DEF Init, PoolsExist, ThreadsFitPool, HasPool
<1> QED
  BY <1>1, InitTyping, InitSections, InitSlots, InitActivations DEF IInv

LEMMA NextInv == IInv /\ [Next]_vars => IInv'
<1> SUFFICES ASSUME IInv, [Next]_vars PROVE IInv'
  OBVIOUS
<1>1. ASSUME NEW r \in Runtimes, Step(r) PROVE IInv'
  BY <1>1, StepSections, StepPools, StepSlots, StepActivations DEF IInv
<1>2. CASE UNCHANGED vars
  BY <1>2 DEF vars, pools, config, IInv, TypeOK, Sections, SlotsOwned, HasSlot, Leased,
              ActivationsCounted, Activations, Made, PoolsExist, ThreadsFitPool, HasPool
<1> QED
  BY <1>1, <1>2 DEF Next, Step

LEMMA Inductive == Spec => []IInv
BY InitInv, NextInv, PTL DEF Spec

\* Every field keeps its type: mThreadOpen never goes beyond the open sections,
\* and the number of threads stays within 1 and MAX_THREAD_NUMBER.
THEOREM TypeCorrect == Spec => []TypeOK
<1>1. IInv => TypeOK
  BY DEF IInv
<1> QED
  BY <1>1, Inductive, PTL

\* A pool on which no section is open has all its slots and no activation.
THEOREM NothingLeaks == Spec => []QuietPools
<1>1. IInv => QuietPools
  <2> SUFFICES ASSUME IInv, NEW m \in Masks, Quiet(m)
               PROVE  available[m] = Slots /\ activeCount[m] = 0
    BY DEF QuietPools
  <2> USE DEF IInv
  <2>1. ASSUME NEW r \in Runtimes, mThreadPool[r] = m
        PROVE  mTaskIndex[r] = NoSlot /\ pc[r] = "rest"
    <3>1. pc[r] = "rest" /\ depth[r] = 0
      BY <2>1 DEF Quiet, Uses
    <3>2. ~ (mThreadOpen[r] >= 1)
      BY <3>1, MaxDepthAssumption DEF Sections, TypeOK
    <3> QED
      BY <3>1, <3>2 DEF Sections
  <2>2. available[m] = Slots
    <3>1. \A s \in Slots : s \in available[m]
      BY <2>1 DEF SlotsOwned, HasSlot, Leased
    <3> QED
      BY <3>1 DEF TypeOK
  <2>3. Activations(m) = {}
    BY <2>1 DEF Activations, Made
  <2> QED
    BY <2>2, <2>3, FS_EmptySet DEF ActivationsCounted
<1> QED
  BY <1>1, Inductive, PTL

\* A runtime that has a slot while its kernels run has an active pool, and has
\* counted between one section and all that are open.
THEOREM SlotsAreParallel == Spec => []SlotMeansParallel
<1>1. IInv => SlotMeansParallel
  <2> SUFFICES ASSUME IInv, NEW r \in Runtimes, pc[r] = "rest", mTaskIndex[r] >= 0
               PROVE  /\ mThreadOpen[r] \in 1 .. depth[r]
                      /\ HasPool(r) /\ activeCount[mThreadPool[r]] > 0
    BY DEF SlotMeansParallel
  <2> USE DEF IInv
  <2>1. mTaskIndex[r] # NoSlot
    BY DEF NoSlot
  <2>2. mThreadOpen[r] \in 1 .. depth[r] /\ HasPool(r)
    BY <2>1, MaxDepthAssumption DEF Sections, TypeOK
  <2> DEFINE p == mThreadPool[r]
  <2>3. p \in Masks
    BY <2>2 DEF TypeOK, HasPool
  <2>4. <<r, "section">> \in Activations(p)
    BY <2>1 DEF Activations, Made, Reasons
  <2>5. Cardinality(Activations(p)) > 0
    BY <2>3, <2>4, FiniteActivations, FS_EmptySet
  <2> QED
    BY <2>2, <2>3, <2>5 DEF ActivationsCounted
<1> QED
  BY <1>1, Inductive, PTL

\* A runtime never splits its work over threads its pool does not have.
THEOREM ThreadsAlwaysFit == Spec => []ThreadsFitPool
<1>1. IInv => ThreadsFitPool
  BY DEF IInv
<1> QED
  BY <1>1, Inductive, PTL

------------------------------------------------------------------------------
(* What the pools see of the runtimes is PoolProtocol.                      *)

FreeLeases == {l \in Masks \X Slots : l[2] \in available[l[1]]}
Leases == [r \in Runtimes |-> Lease(r)]
Stages == [r \in Runtimes |-> Stage(r)]

\* A step that leaves slots and stages alone is a stutter of the protocol.
LEMMA Stuttering ==
  ASSUME UNCHANGED available,
         \A q \in Runtimes : Lease(q)' = Lease(q) /\ Stage(q)' = Stage(q)
  PROVE  UNCHANGED <<FreeLeases, Leases, Stages>>
BY DEF FreeLeases, Leases, Stages

\* Only the runtime that makes a step changes its lease and stage.
LEMMA OthersKeep ==
  ASSUME TypeOK, NEW r \in Runtimes, NEW q \in Runtimes, q # r,
         mTaskIndex'[q] = mTaskIndex[q], mThreadPool'[q] = mThreadPool[q], pc'[q] = pc[q]
  PROVE  Lease(q)' = Lease(q) /\ Stage(q)' = Stage(q)
BY DEF Lease, Stage

LEMMA ProtocolInit == Init => Protocol!Init
<1> SUFFICES ASSUME Init PROVE Protocol!Init
  OBVIOUS
<1>1. FreeLeases = Masks \X Slots
  BY DEF Init, FreeLeases
<1>2. \A r \in Runtimes : Lease(r) = <<NoPool, NoSlot>> /\ Stage(r) = "out"
  BY DEF Init, Lease, Stage
<1> QED
  BY <1>1, <1>2 DEF Protocol!Init, FreeLeases

\* A first section that finds a slot is the protocol's Acquire, the rest of
\* onConcurrencyBegin its Activate, and the two calls of the last
\* onConcurrencyEnd are its Release and Deactivate.
LEMMA ProtocolStep ==
  ASSUME IInv, NEW r \in Runtimes, Step(r)
  PROVE  \/ Protocol!Next
         \/ UNCHANGED <<FreeLeases, Leases, Stages>>
<1> USE DEF IInv
<1> DEFINE p == mThreadPool[r]
<1>1. CASE OnReset(r) \/ OnCreate(r)
  <2>1. /\ pc[r] = "rest" /\ depth[r] = 0
        /\ UNCHANGED <<available, mTaskIndex, pc>>
        /\ \A q \in Runtimes : q # r => mThreadPool'[q] = mThreadPool[q]
    BY <1>1, Reconfigured DEF ResetThreadPool, TypeOK
  <2>2. mTaskIndex[r] = NoSlot
    BY <2>1, MaxDepthAssumption DEF Sections, TypeOK
  <2> QED
    BY <2>1, <2>2, Stuttering DEF Lease, Stage
<1>2. CASE Begin(r)
  <2>1. pc[r] = "rest" /\ UNCHANGED config
    BY <1>2, Beginning
  <2>2. CASE UNCHANGED <<mTaskIndex, available>> /\ pc' = [pc EXCEPT ![r] = "bind"]
    BY <2>1, <2>2, Stuttering DEF Lease, Stage, config, TypeOK
  <2>3. CASE /\ mTaskIndex[r] = NoSlot /\ HasPool(r) /\ p \in Masks
             /\ \E s \in Slots : /\ s \in available[p]
                                 /\ mTaskIndex' = [mTaskIndex EXCEPT ![r] = s]
                                 /\ available' = [available EXCEPT ![p] = @ \ {s}]
             /\ pc' = [pc EXCEPT ![r] = "activate"]
    <3>1. PICK s \in Slots : /\ s \in available[p]
                             /\ mTaskIndex' = [mTaskIndex EXCEPT ![r] = s]
                             /\ available' = [available EXCEPT ![p] = @ \ {s}]
      BY <2>3
    <3>2. s # NoSlot
      BY MaxTasksAssumption DEF Slots, NoSlot
    <3>3. <<p, s>> \in FreeLeases
      BY <2>3, <3>1 DEF FreeLeases
    <3>4. FreeLeases' = FreeLeases \ {<<p, s>>}
      BY <2>3, <3>1 DEF FreeLeases, TypeOK
    <3>5. /\ Stage(r) = "out" /\ Stage(r)' = "taken" /\ Lease(r)' = <<p, s>>
          /\ \A q \in Runtimes : q # r => Lease(q)' = Lease(q) /\ Stage(q)' = Stage(q)
      BY <2>1, <2>3, <3>1, <3>2 DEF Lease, Stage, config, TypeOK
    <3>6. /\ Leases' = [Leases EXCEPT ![r] = <<p, s>>]
          /\ Stages[r] = "out" /\ Stages' = [Stages EXCEPT ![r] = "taken"]
      BY <3>5 DEF Leases, Stages
    <3>7. Protocol!Acquire(r)
      BY <3>3, <3>4, <3>6 DEF Protocol!Acquire, Protocol!Goto, FreeLeases, Leases, Stages
    <3> QED
      BY <3>7 DEF Protocol!Next
  <2> QED
    BY <1>2, <2>2, <2>3, Beginning
<1>3. CASE Activate(r)
  <2>1. /\ pc[r] = "activate" /\ pc' = [pc EXCEPT ![r] = "bind"]
        /\ UNCHANGED <<available, mThreadPool, mTaskIndex>>
    BY <1>3 DEF Activate, Goto, config
  <2>2. mTaskIndex[r] # NoSlot
    BY <2>1 DEF Sections
  <2>3. /\ Stage(r) = "taken" /\ Stage(r)' = "active"
        /\ \A q \in Runtimes : Lease(q)' = Lease(q) /\ (q # r => Stage(q)' = Stage(q))
    BY <2>1, <2>2 DEF Lease, Stage, TypeOK
  <2>4. /\ Leases' = Leases /\ FreeLeases' = FreeLeases
        /\ Stages[r] = "taken" /\ Stages' = [Stages EXCEPT ![r] = "active"]
    BY <2>1, <2>3 DEF FreeLeases, Leases, Stages
  <2>5. Protocol!Activate(r)
    BY <2>4 DEF Protocol!Activate, Protocol!Goto, FreeLeases, Leases, Stages
  <2> QED
    BY <2>5 DEF Protocol!Next
<1>4. CASE KeepCores(r) \/ BindCores(r) \/ Bound(r)
  <2>1. /\ UNCHANGED <<available, mTaskIndex, mThreadPool>>
        /\ pc[r] \in {"bind", "bound"} /\ pc'[r] \in {"bound", "rest"}
        /\ \A q \in Runtimes : q # r => pc'[q] = pc[q]
    BY <1>4 DEF KeepCores, BindCores, Bound, Goto, config, pools, TypeOK
  <2> QED
    BY <2>1, Stuttering DEF Lease, Stage
<1>5. CASE End(r)
  <2>1. /\ UNCHANGED <<available, mTaskIndex, mThreadPool>>
        /\ pc[r] = "rest" /\ pc'[r] \in {"release", "rest"}
        /\ \A q \in Runtimes : q # r => pc'[q] = pc[q]
    BY <1>5, Ending DEF config, pools, TypeOK
  <2> QED
    BY <2>1, Stuttering DEF Lease, Stage
<1>6. CASE Release(r)
  <2> DEFINE s == mTaskIndex[r]
  <2>1. /\ pc[r] = "release" /\ pc' = [pc EXCEPT ![r] = "deactivate"]
        /\ available' = [available EXCEPT ![p] = @ \cup {s}]
        /\ UNCHANGED <<mThreadPool, mTaskIndex>>
    BY <1>6 DEF Release, Goto, config
  <2>2. s # NoSlot /\ s \in Slots /\ p \in Masks
    BY <2>1 DEF Sections, TypeOK, HasPool
  <2>3. FreeLeases' = FreeLeases \cup {<<p, s>>}
    BY <2>1, <2>2 DEF FreeLeases, TypeOK
  <2>4. /\ Stage(r) = "active" /\ Stage(r)' = "released" /\ Lease(r) = <<p, s>>
        /\ \A q \in Runtimes : Lease(q)' = Lease(q) /\ (q # r => Stage(q)' = Stage(q))
    BY <2>1, <2>2 DEF Lease, Stage, TypeOK
  <2>5. /\ Leases' = Leases /\ Leases[r] = <<p, s>>
        /\ Stages[r] = "active" /\ Stages' = [Stages EXCEPT ![r] = "released"]
    BY <2>4 DEF Leases, Stages
  <2>6. Protocol!Release(r)
    BY <2>3, <2>5 DEF Protocol!Release, Protocol!Goto, FreeLeases, Leases, Stages
  <2> QED
    BY <2>6 DEF Protocol!Next
<1>7. CASE Deactivate(r)
  <2>1. /\ pc[r] = "deactivate" /\ pc' = [pc EXCEPT ![r] = "rest"]
        /\ mTaskIndex' = [mTaskIndex EXCEPT ![r] = NoSlot]
        /\ UNCHANGED <<available, mThreadPool>>
    BY <1>7 DEF Deactivate, Goto, config
  <2>2. mTaskIndex[r] # NoSlot
    BY <2>1 DEF Sections
  <2>3. /\ Stage(r) = "released" /\ Stage(r)' = "out" /\ Lease(r)' = <<NoPool, NoSlot>>
        /\ \A q \in Runtimes : q # r => Lease(q)' = Lease(q) /\ Stage(q)' = Stage(q)
    BY <2>1, <2>2 DEF Lease, Stage, TypeOK
  <2>4. /\ Leases' = [Leases EXCEPT ![r] = <<NoPool, NoSlot>>] /\ FreeLeases' = FreeLeases
        /\ Stages[r] = "released" /\ Stages' = [Stages EXCEPT ![r] = "out"]
    BY <2>1, <2>3 DEF FreeLeases, Leases, Stages
  <2>5. Protocol!Deactivate(r)
    BY <2>4 DEF Protocol!Deactivate, Protocol!Goto, FreeLeases, Leases, Stages
  <2> QED
    BY <2>5 DEF Protocol!Next
<1> QED
  BY <1>1, <1>2, <1>3, <1>4, <1>5, <1>6, <1>7 DEF Step

\* The calls that all the runtimes of a process make into its pools follow, pool
\* by pool and runtime by runtime, the order that ThreadPool relies on.
THEOREM RuntimesKeepProtocol == Spec => KeepsProtocol
<1>1. IInv /\ [Next]_vars => [Protocol!Next]_(Protocol!vars)
  <2> SUFFICES ASSUME IInv, [Next]_vars
               PROVE  Protocol!Next \/ UNCHANGED Protocol!vars
    OBVIOUS
  <2>1. ASSUME NEW r \in Runtimes, Step(r)
        PROVE  Protocol!Next \/ UNCHANGED <<FreeLeases, Leases, Stages>>
    BY <2>1, ProtocolStep
  <2>2. CASE UNCHANGED vars
    <3>1. UNCHANGED <<available, mTaskIndex, mThreadPool, pc>>
      BY <2>2 DEF vars, pools, config
    <3>2. UNCHANGED <<FreeLeases, Leases, Stages>>
      BY <3>1, Stuttering DEF Lease, Stage
    <3> QED
      BY <3>2 DEF FreeLeases, Leases, Stages, Protocol!vars
  <2>3. UNCHANGED <<FreeLeases, Leases, Stages>> => UNCHANGED Protocol!vars
    BY DEF FreeLeases, Leases, Stages, Protocol!vars
  <2> QED
    BY <2>1, <2>2, <2>3 DEF Next, Step
<1> QED
  BY <1>1, ProtocolInit, Inductive, PTL DEF Spec, KeepsProtocol, Protocol!Spec
------------------------------------------------------------------------------
(* How an operator divides its work: computeDivideSizes, for a machine with *)
(* any number of groups of cores, and multiThreadDivide.                    *)

\* What the quotient is.
LEMMA DivFacts ==
  ASSUME NEW x \in Nat, NEW y \in Nat \ {0}
  PROVE  /\ x \div y \in Nat
         /\ (x \div y) * y <= x /\ x < (x \div y) * y + y
<1>1. y > 0
  OBVIOUS
<1>2. x = (x \div y) * y + (x % y) /\ x % y \in 0 .. y - 1 /\ x \div y \in Int
  BY <1>1, SMTT(30)
<1>3. x \div y >= 0
  BY <1>1, SMTT(30)
<1> QED
  BY <1>2, <1>3

\* The quotient rounded up is the least that reaches the work.
LEMMA UpDivFacts ==
  ASSUME NEW x \in Nat, NEW y \in Nat \ {0}
  PROVE  /\ UpDiv(x, y) \in Nat
         /\ UpDiv(x, y) * y >= x
         /\ UpDiv(x, y) * y < x + y
         /\ x > 0 => UpDiv(x, y) > 0
<1> DEFINE q == (x + y - 1) \div y
<1>1. x + y - 1 \in Nat
  OBVIOUS
<1>2. q \in Nat /\ q * y <= x + y - 1 /\ x + y - 1 < q * y + y
  BY <1>1, DivFacts
<1>3. UpDiv(x, y) = q
  BY DEF UpDiv
<1>4. PICK p \in Int : p = q * y
  BY <1>2
<1>5. x > 0 => q > 0
  <2> SUFFICES ASSUME x > 0, q = 0 PROVE FALSE
    BY <1>2
  <2> QED
    BY <1>2
<1> HIDE DEF q
<1> QED
  BY <1>2, <1>3, <1>4, <1>5

\* One element of a sum.
LEMMA SumStep ==
  ASSUME NEW D, NEW w \in [D -> Nat], NEW S \in SUBSET D, IsFiniteSet(S), NEW x \in S
  PROVE  SumOver(w, S) = w[x] + SumOver(w, S \ {x})
BY SumOverFacts

\* What SumTo adds up, number by number.
LEMMA SumToFacts ==
  ASSUME NEW m \in Nat, NEW w \in [1 .. m -> Nat]
  PROVE  /\ \A k \in 0 .. m : SumTo(w, k) \in Nat
         /\ SumTo(w, 0) = 0
         /\ \A k \in 1 .. m : SumTo(w, k) = SumTo(w, k - 1) + w[k]
<1>1. ASSUME NEW k \in 0 .. m
      PROVE  SumTo(w, k) = SumOver(w, 1 .. k)
  BY DEF SumTo, SumOver, FoldFunctionOnSet, MapThenFoldSet
<1>2. \A k \in 0 .. m : 1 .. k \in SUBSET (1 .. m) /\ IsFiniteSet(1 .. k)
  BY FS_Interval
<1>3. SumTo(w, 0) = 0
  <2>1. 1 .. 0 = {} /\ 0 \in 0 .. m
    OBVIOUS
  <2> QED
    BY <1>1, <1>2, <2>1, SumOverFacts
<1>4. ASSUME NEW k \in 1 .. m
      PROVE  SumTo(w, k) = SumTo(w, k - 1) + w[k]
  <2>1. (1 .. k) \ {k} = 1 .. (k - 1) /\ k \in 1 .. k /\ k \in 0 .. m /\ k - 1 \in 0 .. m
    OBVIOUS
  <2>2. SumOver(w, 1 .. k) = w[k] + SumOver(w, (1 .. k) \ {k})
    <3>1. 1 .. k \in SUBSET (1 .. m) /\ IsFiniteSet(1 .. k)
      BY <1>2, <2>1
    <3>2. k \in 1 .. k /\ w \in [1 .. m -> Nat]
      BY <2>1
    <3>3. SumOver(w, 1 .. k) = w[k] + SumOver(w, (1 .. k) \ {k})
      BY <3>1, <3>2, SumStep, SMTT(60)
    <3> QED
      BY <3>3
  <2>3. SumOver(w, 1 .. (k - 1)) \in Nat /\ w[k] \in Nat
    BY <1>2, <2>1, SumOverFacts
  <2>4. SumTo(w, k) = SumOver(w, 1 .. k)
    BY <1>1, <2>1
  <2>5. SumTo(w, k - 1) = SumOver(w, 1 .. (k - 1))
    BY <1>1, <2>1
  <2>6. SumOver(w, 1 .. k) = w[k] + SumOver(w, 1 .. (k - 1))
    BY <2>1, <2>2
  <2> QED
    BY <2>3, <2>4, <2>5, <2>6
<1>5. ASSUME NEW k \in 0 .. m
      PROVE  SumTo(w, k) \in Nat
  BY <1>1, <1>2, SumOverFacts
<1> QED
  BY <1>3, <1>4, <1>5

\* A sequence that no step makes smaller never becomes smaller.
LEMMA Climbs ==
  ASSUME NEW m \in Nat, NEW f \in [0 .. m -> Nat], \A k \in 1 .. m : f[k - 1] <= f[k],
         NEW a \in 0 .. m, NEW b \in 0 .. m, a <= b
  PROVE  f[a] <= f[b]
<1> DEFINE B == {k \in Nat : k \in a .. m /\ ~ (f[a] <= f[k])}
<1>1. B = {}
  <2> SUFFICES ASSUME B # {} PROVE FALSE
    OBVIOUS
  <2>1. PICK k \in B : \A n \in B : k <= n
    <3>1. B \in SUBSET Nat
      OBVIOUS
    <3> HIDE DEF B
    <3> QED
      BY <3>1, LeastNumber
  <2>2. k # a /\ k - 1 \in a .. m /\ k \in 1 .. m /\ f[k - 1] <= f[k]
    OBVIOUS
  <2>3. k - 1 \notin B /\ k - 1 \in Nat
    BY <2>1, <2>2
  <2> QED
    BY <2>2, <2>3
<1>2. b \in Nat /\ b \in a .. m
  OBVIOUS
<1>3. b \notin B
  <2> HIDE DEF B
  <2> QED
    BY <1>1
<1> QED
  BY <1>2, <1>3

------------------------------------------------------------------------------
\* Each of c[k] entries gets P[k] more than the one before it, group by group.
Groups(n, c, P, F, D) ==
  /\ n \in Nat \ {0} /\ c \in [1 .. n -> Nat \ {0}] /\ P \in [1 .. n -> Nat]
  /\ F \in [0 .. n -> Nat] /\ F[0] = 0 /\ \A k \in 1 .. n : F[k] = F[k - 1] + c[k]
  /\ D \in [0 .. n -> Nat] /\ D[0] = 0 /\ \A k \in 1 .. n : D[k] = D[k - 1] + c[k] * P[k]
Within(F, k, i) == F[k - 1] < i /\ i <= F[k]

\* The numbers of one group.
LEMMA GroupFacts ==
  ASSUME NEW n, NEW c, NEW P, NEW F, NEW D, Groups(n, c, P, F, D), NEW k \in 1 .. n
  PROVE  /\ k \in Nat \ {0} /\ k \in 0 .. n /\ k - 1 \in 0 .. n
         /\ F[k - 1] \in Nat /\ F[k] \in Nat \ {0} /\ c[k] \in Nat \ {0} /\ P[k] \in Nat
         /\ F[k] = F[k - 1] + c[k] /\ F[k - 1] < F[k]
         /\ D[k - 1] \in Nat /\ D[k] \in Nat /\ D[k] = D[k - 1] + c[k] * P[k]
<1>1. n \in Nat /\ k \in Nat \ {0} /\ k \in 0 .. n /\ k - 1 \in 0 .. n
  BY DEF Groups
<1>2. /\ F[k - 1] \in Nat /\ F[k] \in Nat /\ c[k] \in Nat \ {0} /\ P[k] \in Nat
      /\ D[k - 1] \in Nat /\ D[k] \in Nat
  BY <1>1 DEF Groups
<1>3. F[k] = F[k - 1] + c[k] /\ D[k] = D[k - 1] + c[k] * P[k]
  BY DEF Groups
<1> QED
  BY <1>1, <1>2, <1>3

\* An entry is of one group at most,
LEMMA OneGroup ==
  ASSUME NEW n, NEW c, NEW P, NEW F, NEW D, Groups(n, c, P, F, D), NEW i \in Int,
         NEW p \in 1 .. n, NEW q \in 1 .. n, Within(F, p, i), Within(F, q, i)
  PROVE  p = q
<1>1. n \in Nat /\ F \in [0 .. n -> Nat] /\ \A k \in 1 .. n : F[k - 1] <= F[k]
  <2>1. \A k \in 1 .. n : F[k - 1] <= F[k]
    BY GroupFacts
  <2> QED
    BY <2>1 DEF Groups
<1>2. \A a, b \in 0 .. n : a <= b => F[a] <= F[b]
  BY <1>1, Climbs
<1>3. ASSUME NEW a \in 1 .. n, NEW b \in 1 .. n, a < b, Within(F, a, i), Within(F, b, i)
      PROVE  FALSE
  <2>1. a \in 0 .. n /\ b - 1 \in 0 .. n /\ a <= b - 1
    BY <1>1, <1>3
  <2>2. F[a] <= F[b - 1] /\ F[a] \in Nat /\ F[b - 1] \in Nat
    BY <1>1, <1>2, <2>1
  <2> QED
    BY <1>3, <2>2 DEF Within
<1>4. p \in Int /\ q \in Int
  OBVIOUS
<1>5. ~ (p < q) /\ ~ (q < p)
  BY <1>3
<1> QED
  BY <1>4, <1>5

\* and of one at least.
LEMMA SomeGroup ==
  ASSUME NEW n, NEW c, NEW P, NEW F, NEW D, Groups(n, c, P, F, D), NEW i \in 1 .. F[n]
  PROVE  \E k \in 1 .. n : Within(F, k, i)
<1> DEFINE B == {k \in Nat : k \in 0 .. n /\ i <= F[k]}
<1>1. n \in Nat \ {0} /\ F \in [0 .. n -> Nat] /\ F[0] = 0
  BY DEF Groups
<1>2. B \in SUBSET Nat /\ n \in B
  BY <1>1
<1>3. PICK k \in B : \A b \in B : k <= b
  <2> HIDE DEF B
  <2> QED
    BY <1>2, LeastNumber
<1>4. k \in 1 .. n /\ k - 1 \in 0 .. n /\ k - 1 \in Nat /\ i <= F[k]
  BY <1>1
<1>5. k - 1 \notin B
  <2> HIDE DEF B
  <2> QED
    BY <1>3, <1>4
<1>6. F[k - 1] \in Nat /\ ~ (i <= F[k - 1])
  BY <1>1, <1>4, <1>5
<1> QED
  BY <1>4, <1>6 DEF Within

\* Where the entries are, as the groups add them up; entry i is of group pos[i].
Ends(n, P, F, D, pos) ==
  [i \in 0 .. F[n] |-> IF i = 0 THEN 0 ELSE D[pos[i] - 1] + (i - F[pos[i] - 1]) * P[pos[i]]]
Positions(n, F, pos) ==
  pos \in [1 .. F[n] -> 1 .. n] /\ \A i \in 1 .. F[n] : Within(F, pos[i], i)
Entered(n, P, F, D, pos, U) ==
  /\ F[n] \in Nat \ {0} /\ U \in [0 .. F[n] -> Nat]
  /\ U[0] = 0 /\ U[F[n]] = D[n]
  /\ \A i \in 1 .. F[n] : U[i] = U[i - 1] + P[pos[i]]
\* The entries of a group follow each other, and its first the last of the one before.
LEMMA Entries ==
  ASSUME NEW n, NEW c, NEW P, NEW F, NEW D, Groups(n, c, P, F, D),
         NEW pos, Positions(n, F, pos),
         NEW U, U = Ends(n, P, F, D, pos)
  PROVE  Entered(n, P, F, D, pos, U)
<1>1. /\ n \in Nat \ {0} /\ c \in [1 .. n -> Nat \ {0}] /\ P \in [1 .. n -> Nat]
      /\ F \in [0 .. n -> Nat] /\ F[0] = 0 /\ \A k \in 1 .. n : F[k] = F[k - 1] + c[k]
      /\ D \in [0 .. n -> Nat] /\ D[0] = 0 /\ \A k \in 1 .. n : D[k] = D[k - 1] + c[k] * P[k]
  BY DEF Groups
<1>2. \A a, b \in 0 .. n : a <= b => F[a] <= F[b]
  <2>1. \A k \in 1 .. n : F[k - 1] <= F[k]
    BY GroupFacts
  <2> QED
    BY <1>1, <2>1, Climbs
<1>3. F[n] \in Nat \ {0} /\ \A k \in 1 .. n : F[k] \in Nat \ {0}
  <2>1. n \in 1 .. n
    BY <1>1
  <2> QED
    BY <2>1, GroupFacts
<1>4. ASSUME NEW i \in 1 .. F[n]
      PROVE  /\ i \in Nat \ {0} /\ i <= F[n] /\ pos[i] \in Nat \ {0} /\ pos[i] <= n
             /\ pos[i] \in 1 .. n /\ pos[i] - 1 \in 0 .. n /\ Within(F, pos[i], i)
             /\ F[pos[i] - 1] \in Nat /\ F[pos[i]] = F[pos[i] - 1] + c[pos[i]]
             /\ i > F[pos[i] - 1] /\ i <= F[pos[i]]
             /\ P[pos[i]] \in Nat /\ D[pos[i] - 1] \in Nat
             /\ D[pos[i]] = D[pos[i] - 1] + c[pos[i]] * P[pos[i]] /\ c[pos[i]] \in Nat \ {0}
             /\ U[i] = D[pos[i] - 1] + (i - F[pos[i] - 1]) * P[pos[i]]
  <2>1. pos[i] \in 1 .. n /\ Within(F, pos[i], i)
    BY DEF Positions
  <2>2. U[i] = D[pos[i] - 1] + (i - F[pos[i] - 1]) * P[pos[i]]
    <3>1. i \in 0 .. F[n] /\ i # 0
      BY <1>3
    <3> QED
      BY <3>1 DEF Ends
  <2>3. /\ pos[i] - 1 \in 0 .. n /\ pos[i] \in Nat \ {0}
        /\ F[pos[i] - 1] \in Nat /\ F[pos[i]] = F[pos[i] - 1] + c[pos[i]]
        /\ P[pos[i]] \in Nat /\ D[pos[i] - 1] \in Nat /\ c[pos[i]] \in Nat \ {0}
        /\ D[pos[i]] = D[pos[i] - 1] + c[pos[i]] * P[pos[i]]
    BY <2>1, GroupFacts
  <2>4. i \in Nat \ {0} /\ i <= F[n] /\ pos[i] <= n
    <3>1. \A a \in Nat : i \in 1 .. a => i \in Nat \ {0} /\ i <= a
      OBVIOUS
    <3>2. \A a \in Nat : \A b : b \in 1 .. a => b <= a
      OBVIOUS
    <3> QED
      BY <1>1, <1>3, <2>1, <3>1, <3>2
  <2> QED
    BY <2>1, <2>2, <2>3, <2>4 DEF Within
<1>5. ASSUME NEW i \in 1 .. F[n]
      PROVE  U[i] \in Nat
  <2>1. i \in Int /\ F[pos[i] - 1] \in Nat /\ i > F[pos[i] - 1]
    BY <1>4
  <2>2. i - F[pos[i] - 1] \in Nat
    BY <2>1
  <2>3. P[pos[i]] \in Nat /\ D[pos[i] - 1] \in Nat
    BY <1>4
  <2>4. (i - F[pos[i] - 1]) * P[pos[i]] \in Nat
    BY <2>2, <2>3
  <2>5. U[i] = D[pos[i] - 1] + (i - F[pos[i] - 1]) * P[pos[i]]
    BY <1>4
  <2> QED
    BY <2>3, <2>4, <2>5
<1>6. U \in [0 .. F[n] -> Nat] /\ U[0] = 0
  <2>1. 0 \in 0 .. F[n] /\ U[0] = 0 /\ U = [i \in 0 .. F[n] |-> U[i]]
    BY <1>3 DEF Ends
  <2>2. \A i \in 0 .. F[n] : U[i] \in Nat
    <3> TAKE i \in 0 .. F[n]
    <3>1. i = 0 \/ i \in 1 .. F[n]
      BY <1>3
    <3> QED
      BY <3>1, <1>5, <2>1
  <2> QED
    BY <2>1, <2>2
<1>7. U[F[n]] = D[n]
  <2> DEFINE i == F[n]
  <2>1. i \in 1 .. F[n] /\ n \in 1 .. n
    <3>1. \A a \in Nat \ {0} : a \in 1 .. a
      OBVIOUS
    <3>2. n \in Nat \ {0} /\ F[n] \in Nat \ {0}
      BY <1>1, <1>3
    <3> QED
      BY <3>1, <3>2
  <2>2. Within(F, n, i)
    <3>1. F[n - 1] < F[n] /\ F[n] \in Nat
      BY <2>1, GroupFacts
    <3> QED
      BY <3>1 DEF Within
  <2>3. pos[i] = n
    <3>1. pos[i] \in 1 .. n /\ Within(F, pos[i], i) /\ i \in Int
      BY <1>4, <2>1
    <3> HIDE DEF i
    <3> QED
      BY <2>1, <2>2, <3>1, OneGroup
  <2>4. /\ F[n] - F[n - 1] = c[n]
        /\ D[n] = D[n - 1] + c[n] * P[n]
    BY <2>1, GroupFacts
  <2>5. U[i] = D[n - 1] + (F[n] - F[n - 1]) * P[n]
    BY <2>1, <2>3, <1>4
  <2> QED
    BY <2>4, <2>5
<1>8. \A a \in Nat \ {0} : a <= n => a - 1 \in 1 .. n \/ a - 1 = 0
  <2>1. n \in Nat
    BY <1>1
  <2> QED
    BY <2>1
<1>9. ASSUME NEW i \in 1 .. F[n]
      PROVE  U[i] = U[i - 1] + P[pos[i]]
  <2> DEFINE p == pos[i]
  <2>1. CASE i - 1 = F[p - 1]
    <3>1. U[i] = D[p - 1] + P[p]
      <4>1. i - F[p - 1] = 1
        BY <1>4, <2>1
      <4> QED
        BY <1>4, <4>1
    <3>2. U[i - 1] = D[p - 1]
      <4>1. CASE i = 1
        <5>1. F[p - 1] = 0
          BY <2>1, <4>1
        <5>2. p - 1 = 0
          <6>1. p \in Nat \ {0} /\ p <= n
            BY <1>4
          <6>2. p - 1 \in 1 .. n => F[p - 1] # 0
            BY <1>3
          <6>3. p - 1 \in 1 .. n \/ p - 1 = 0
            BY <6>1, <1>8
          <6> QED
            BY <5>1, <6>2, <6>3
        <5>3. U[i - 1] = 0 /\ D[p - 1] = 0
          <6>1. i - 1 = 0
            BY <4>1
          <6> QED
            BY <5>2, <6>1, <1>1, <1>6
        <5> QED
          BY <5>3
      <4>2. CASE i # 1
        <5>1. i - 1 \in 1 .. F[n]
          BY <1>3, <4>2
        <5>2. p - 1 \in 1 .. n
          <6>1. p \in Nat \ {0} /\ p <= n
            BY <1>4
          <6>2. p - 1 # 0
            <7>1. i - 1 # 0 /\ F[0] = 0
              BY <1>1, <1>4, <4>2
            <7> QED
              BY <2>1, <7>1
          <6> QED
            BY <6>1, <6>2, <1>8
        <5>3. /\ F[p - 1] = F[(p - 1) - 1] + c[p - 1] /\ F[(p - 1) - 1] \in Nat
              /\ F[(p - 1) - 1] < F[p - 1] /\ F[p - 1] \in Nat /\ c[p - 1] \in Nat \ {0}
              /\ D[p - 1] = D[(p - 1) - 1] + c[p - 1] * P[p - 1]
          BY <5>2, GroupFacts
        <5>4. Within(F, p - 1, i - 1)
          BY <2>1, <5>3 DEF Within
        <5>5. pos[i - 1] = p - 1
          <6>1. pos[i - 1] \in 1 .. n /\ Within(F, pos[i - 1], i - 1) /\ i - 1 \in Int
            BY <1>4, <5>1
          <6> HIDE DEF p
          <6> QED
            BY <5>2, <5>4, <6>1, OneGroup
        <5>6. U[i - 1] = D[(p - 1) - 1] + ((i - 1) - F[(p - 1) - 1]) * P[p - 1]
          BY <5>1, <5>5, <1>4
        <5>7. (i - 1) - F[(p - 1) - 1] = c[p - 1]
          BY <2>1, <5>3
        <5> QED
          BY <5>3, <5>6, <5>7
      <4> QED
        BY <4>1, <4>2
    <3>3. D[p - 1] \in Nat /\ P[p] \in Nat
      BY <1>4
    <3> QED
      BY <3>1, <3>2, <3>3
  <2>2. CASE i - 1 # F[p - 1]
    <3>1. i - 1 \in 1 .. F[n] /\ i - 1 > F[p - 1] /\ i - 1 <= F[p]
      <4>1. F[p - 1] \in Nat /\ i > F[p - 1] /\ i <= F[p] /\ i \in Nat /\ i <= F[n]
        BY <1>4
      <4>2. F[p] \in Nat /\ F[n] \in Nat
        BY <1>3, <1>4
      <4> QED
        BY <2>2, <4>1, <4>2
    <3>2. Within(F, p, i - 1)
      BY <3>1 DEF Within
    <3>3. pos[i - 1] = p
      BY <1>4, <3>1, <3>2, OneGroup
    <3>4. U[i - 1] = D[p - 1] + ((i - 1) - F[p - 1]) * P[p]
      BY <3>1, <3>3, <1>4
    <3>5. U[i] = D[p - 1] + (i - F[p - 1]) * P[p]
      BY <1>4
    <3>6. ASSUME NEW a \in Nat, NEW b \in Nat, NEW d \in Nat
          PROVE  d + (i - a) * b = (d + ((i - 1) - a) * b) + b
      BY <1>3
    <3>7. F[p - 1] \in Nat /\ P[p] \in Nat /\ D[p - 1] \in Nat
      BY <1>4
    <3> QED
      BY <3>4, <3>5, <3>6, <3>7
  <2> QED
    BY <2>1, <2>2
<1> QED
  BY <1>3, <1>6, <1>7, <1>9 DEF Entered

------------------------------------------------------------------------------
\* What the runtime and the operator were made with.
Settings == threadNumber \in Nat \ {0} /\ pack \in Nat \ {0} /\ kept \in BOOLEAN
Rates ==
  /\ mGroupWithComputeRate \in Seq([rate : Nat \ {0}, count : Nat \ {0}])
  /\ Len(mGroupWithComputeRate) > 1 => CoresOf(mGroupWithComputeRate) <= threadNumber

\* A division gives the first m threads parts that lie side by side, all of them
\* something until nothing is left.  It ends where w does while w is small enough.
DividedAmong(d, w, m) ==
  /\ d[0] = 0 /\ (w < Accuracy => d[m] = w) /\ \A i \in 0 .. m : d[i] \in Nat
  /\ \A i \in 1 .. m : /\ d[i - 1] <= d[i] /\ d[i] <= w
                       /\ d[i - 1] = d[i] => d[i] = w
\* The last division gave the threads it reached their parts, the others nothing
\* unless the operator keeps its vector.
Divided ==
  /\ size \in Nat /\ reached \in 0 .. threadNumber /\ (size > 0 => reached > 0)
  /\ DividedAmong(divides, size, reached)
  /\ ~ kept => \A i \in reached + 1 .. threadNumber : divides[i] = 0
DivisionInv == Settings /\ Rates /\ Divided

\* Marks that grow make such a division when they are cut off at the work.
LEMMA CutOff ==
  ASSUME Settings, NEW m \in 1 .. threadNumber, NEW w \in Nat, NEW U \in [0 .. m -> Nat],
         U[0] = 0, w < Accuracy => U[m] >= w,
         \A i \in 1 .. m : U[i - 1] <= U[i] /\ (w > 0 => U[i - 1] < U[i]),
         NEW d, d[0] = 0, \A i \in 1 .. m : d[i] = Least(U[i], w)
  PROVE  DividedAmong(d, w, m)
<1>1. m \in Nat \ {0} /\ m <= threadNumber /\ threadNumber \in Nat \ {0}
  BY DEF Settings
<1>2. ASSUME NEW i \in 0 .. m
      PROVE  U[i] \in Nat /\ d[i] = IF U[i] < w THEN U[i] ELSE w
  <2>1. U[i] \in Nat
    OBVIOUS
  <2>2. CASE i = 0
    BY <2>2
  <2>3. CASE i \in 1 .. m
    <3>1. d[i] = Least(U[i], w)
      BY <2>3
    <3> QED
      BY <3>1 DEF Least
  <2>4. i = 0 \/ i \in 1 .. m
    BY <1>1
  <2> QED
    BY <2>1, <2>2, <2>3, <2>4
<1>3. ASSUME NEW i \in 1 .. m
      PROVE  d[i - 1] <= d[i] /\ d[i] <= w /\ (d[i - 1] = d[i] => d[i] = w)
  <2>1. i - 1 \in 0 .. m /\ i \in 0 .. m
    BY <1>1
  <2>2. U[i - 1] <= U[i] /\ (w > 0 => U[i - 1] < U[i])
    OBVIOUS
  <2>3. /\ U[i - 1] \in Nat /\ d[i - 1] = IF U[i - 1] < w THEN U[i - 1] ELSE w
        /\ U[i] \in Nat /\ d[i] = IF U[i] < w THEN U[i] ELSE w
    BY <1>2, <2>1
  <2> QED
    BY <2>2, <2>3
<1>4. w < Accuracy => d[m] = w
  <2>1. m \in 0 .. m
    BY <1>1
  <2>2. U[m] \in Nat /\ d[m] = IF U[m] < w THEN U[m] ELSE w
    BY <1>2, <2>1
  <2> QED
    BY <2>2
<1>5. \A i \in 0 .. m : d[i] \in Nat
  BY <1>2
<1> QED
  BY <1>3, <1>4, <1>5 DEF DividedAmong

\* Equal parts reach the work.
LEMMA AverageDivides ==
  ASSUME Settings, NEW work \in Nat, NEW d,
         d = [i \in 0 .. threadNumber |-> IF i = 0 THEN 0 ELSE Average(work, i)]
  PROVE  DividedAmong(d, work, threadNumber)
<1> DEFINE L == UpDiv(work, threadNumber)
<1>1. /\ threadNumber \in Nat \ {0} /\ L \in Nat /\ L * threadNumber >= work
      /\ work > 0 => L > 0
  BY UpDivFacts DEF Settings
<1> HIDE DEF L
<1> DEFINE U == [i \in 0 .. threadNumber |-> i * L]
<1>2. \A i \in 0 .. threadNumber : i \in Nat /\ i * L \in Nat
  BY <1>1
<1>3. U \in [0 .. threadNumber -> Nat] /\ U[0] = 0 /\ U[threadNumber] >= work
  BY <1>1, <1>2
<1>4. \A i \in 1 .. threadNumber : U[i - 1] <= U[i] /\ (work > 0 => U[i - 1] < U[i])
  <2> TAKE i \in 1 .. threadNumber
  <2>1. i - 1 \in 0 .. threadNumber /\ i \in 0 .. threadNumber /\ i \in Nat
    BY <1>1
  <2>2. i * L = (i - 1) * L + L /\ (i - 1) * L \in Nat
    BY <1>1, <1>2, <2>1
  <2>3. U[i] = i * L /\ U[i - 1] = (i - 1) * L
    BY <2>1
  <2> QED
    BY <1>1, <2>2, <2>3
<1>5. \A i \in 1 .. threadNumber : d[i] = Least(U[i], work)
  <2> TAKE i \in 1 .. threadNumber
  <2>1. i \in 0 .. threadNumber /\ i # 0
    BY <1>1
  <2>2. U[i] = i * UpDiv(work, threadNumber)
    BY <2>1 DEF L
  <2> QED
    BY <2>1, <2>2 DEF Average
<1>6. d[0] = 0 /\ threadNumber \in 1 .. threadNumber
  BY <1>1
<1> HIDE DEF U
<1> QED
  BY <1>3, <1>4, <1>5, <1>6, CutOff

\* What a group gets at least, summed up over the groups, reaches the work.
Shares(n, w, r, R, p, D) ==
  /\ r \in [1 .. n -> Nat \ {0}] /\ R \in [0 .. n -> Nat]
  /\ R[0] = 0 /\ \A k \in 1 .. n : R[k] = R[k - 1] + r[k]
  /\ p \in [1 .. n -> Nat] /\ D \in [0 .. n -> Nat]
  /\ D[0] = 0 /\ \A k \in 1 .. n : D[k] = D[k - 1] + p[k]
LEMMA SharesReach ==
  ASSUME NEW n \in Nat \ {0}, NEW w \in Nat, NEW r, NEW R, NEW p, NEW D, Shares(n, w, r, R, p, D),
         NEW T \in Nat, \A k \in 1 .. n : T * p[k] >= w * r[k]
  PROVE  D[n] \in Nat /\ T * D[n] >= w * R[n]
<1> DEFINE B == {k \in Nat : k \in 0 .. n /\ ~ (T * D[k] >= w * R[k])}
<1>0. ASSUME NEW k \in 1 .. n
      PROVE  /\ k \in 0 .. n /\ k - 1 \in 0 .. n /\ k - 1 \in Nat
             /\ D[k - 1] \in Nat /\ R[k - 1] \in Nat /\ p[k] \in Nat /\ r[k] \in Nat \ {0}
             /\ D[k] = D[k - 1] + p[k] /\ R[k] = R[k - 1] + r[k]
  <2>1. k \in 0 .. n /\ k - 1 \in 0 .. n /\ k - 1 \in Nat
    OBVIOUS
  <2> QED
    BY <2>1 DEF Shares
<1>1. B = {}
  <2> SUFFICES ASSUME B # {} PROVE FALSE
    OBVIOUS
  <2>1. PICK k \in B : \A b \in B : k <= b
    <3>1. B \in SUBSET Nat
      OBVIOUS
    <3> HIDE DEF B
    <3> QED
      BY <3>1, LeastNumber
  <2>2. k \in 0 .. n /\ ~ (T * D[k] >= w * R[k])
    OBVIOUS
  <2>3. k # 0
    <3>1. D[0] = 0 /\ R[0] = 0
      BY DEF Shares
    <3> QED
      BY <2>2, <3>1
  <2>4. k \in 1 .. n
    BY <2>2, <2>3
  <2>5. k - 1 \notin B
    <3> HIDE DEF B
    <3> QED
      BY <1>0, <2>1, <2>4
  <2>6. T * D[k - 1] >= w * R[k - 1]
    BY <1>0, <2>4, <2>5
  <2>7. T * p[k] >= w * r[k]
    BY <2>4
  <2>8. ASSUME NEW a \in Nat, NEW b \in Nat, NEW q \in Nat, NEW s \in Nat,
               T * a >= w * b, T * q >= w * s
        PROVE  T * (a + q) >= w * (b + s)
    <3>1. T * (a + q) = T * a + T * q /\ w * (b + s) = w * b + w * s
      OBVIOUS
    <3>2. T * a \in Nat /\ T * q \in Nat /\ w * b \in Nat /\ w * s \in Nat
      OBVIOUS
    <3> QED
      BY <2>8, <3>1, <3>2
  <2>9. T * (D[k - 1] + p[k]) >= w * (R[k - 1] + r[k])
    <3>1. D[k - 1] \in Nat /\ R[k - 1] \in Nat /\ p[k] \in Nat /\ r[k] \in Nat
      BY <1>0, <2>4
    <3> HIDE DEF B
    <3> QED
      BY <2>6, <2>7, <2>8, <3>1
  <2> QED
    BY <1>0, <2>2, <2>4, <2>9
<1>2. n \in Nat /\ n \in 0 .. n /\ n \in 1 .. n
  OBVIOUS
<1>3. n \notin B
  <2> HIDE DEF B
  <2> QED
    BY <1>1
<1> QED
  BY <1>2, <1>3 DEF Shares

\* A share that is short by one part in A reaches a whole number below A, since
\* what the groups get are whole numbers.
LEMMA RoundedReach ==
  ASSUME NEW T \in Nat \ {0}, NEW A \in Nat, A >= 2, NEW w \in Nat, NEW g \in Nat, w < A,
         (T * A) * g >= (w * (A - 1)) * T
  PROVE  g >= w
<1> SUFFICES ASSUME g + 1 <= w PROVE FALSE
  OBVIOUS
<1>1. A * (g + 1) <= A * w /\ A * (g + 1) = A * g + A /\ A * w = w * (A - 1) + w
  <2>1. \A a, b, c \in Nat : a <= b => c * a <= c * b
    OBVIOUS
  <2>2. A * (g + 1) <= A * w
    BY <2>1
  <2>3. A * (g + 1) = A * g + A /\ A * w = w * (A - 1) + w
    OBVIOUS
  <2> QED
    BY <2>2, <2>3
<1>2. A * g \in Nat /\ w * (A - 1) \in Nat
  OBVIOUS
<1>3. A * g + 1 <= w * (A - 1)
  BY <1>1, <1>2
<1>4. \A a, b \in Nat : a + 1 <= b => a * T + T <= b * T /\ a * T \in Nat /\ b * T \in Nat
  <2> TAKE a, b \in Nat
  <2> HAVE a + 1 <= b
  <2>1. (a + 1) * T <= b * T /\ (a + 1) * T = a * T + T
    OBVIOUS
  <2> QED
    BY <2>1
<1>5. (A * g) * T + T <= (w * (A - 1)) * T /\ (A * g) * T \in Nat /\ (w * (A - 1)) * T \in Nat
  BY <1>2, <1>3, <1>4
<1>6. (T * A) * g = (A * g) * T
  OBVIOUS
<1> QED
  BY <1>5, <1>6

\* The groups of cores, their shares and parts, and the sums over the groups before each.
Count == [k \in DOMAIN mGroupWithComputeRate |-> mGroupWithComputeRate[k].count]
Rate == [k \in DOMAIN mGroupWithComputeRate |-> mGroupWithComputeRate[k].rate]
Parts(totals) == [k \in DOMAIN mGroupWithComputeRate |-> PartOf(totals, k)]
Given(totals) == [k \in DOMAIN mGroupWithComputeRate |->
                    mGroupWithComputeRate[k].count * PartOf(totals, k)]
Sums(w) == [k \in 0 .. Len(mGroupWithComputeRate) |-> SumTo(w, k)]

\* What those sums are,
LEMMA SumsFacts ==
  ASSUME Rates, NEW w \in [1 .. Len(mGroupWithComputeRate) -> Nat]
  PROVE  /\ Sums(w) \in [0 .. Len(mGroupWithComputeRate) -> Nat] /\ Sums(w)[0] = 0
         /\ \A k \in 1 .. Len(mGroupWithComputeRate) : Sums(w)[k] = Sums(w)[k - 1] + w[k]
<1> DEFINE n == Len(mGroupWithComputeRate)
<1>1. n \in Nat
  BY DEF Rates
<1> HIDE DEF n
<1>2. w \in [1 .. n -> Nat] /\ Sums(w) = [k \in 0 .. n |-> SumTo(w, k)]
  BY DEF Sums, n
<1>3. /\ \A k \in 0 .. n : SumTo(w, k) \in Nat
      /\ SumTo(w, 0) = 0
      /\ \A k \in 1 .. n : SumTo(w, k) = SumTo(w, k - 1) + w[k]
  BY <1>1, <1>2, SumToFacts
<1>4. \A k \in 1 .. n : k \in 0 .. n /\ k - 1 \in 0 .. n
  BY <1>1
<1>5. 0 \in 0 .. n
  BY <1>1
<1>6. /\ Sums(w) \in [0 .. n -> Nat] /\ Sums(w)[0] = 0
      /\ \A k \in 1 .. n : Sums(w)[k] = Sums(w)[k - 1] + w[k]
  BY <1>2, <1>3, <1>4, <1>5
<1> QED
  BY <1>6 DEF n

\* of the rates and of the counts.
LEMMA RateFacts ==
  ASSUME Rates, Len(mGroupWithComputeRate) > 1
  PROVE  LET n == Len(mGroupWithComputeRate) IN
         /\ n \in Nat \ {0} /\ DOMAIN mGroupWithComputeRate = 1 .. n
         /\ Count \in [1 .. n -> Nat \ {0}] /\ Rate \in [1 .. n -> Nat \ {0}]
         /\ Sums(Rate) \in [0 .. n -> Nat] /\ Sums(Rate)[0] = 0
         /\ \A k \in 1 .. n : Sums(Rate)[k] = Sums(Rate)[k - 1] + Rate[k]
         /\ Sums(Count) \in [0 .. n -> Nat] /\ Sums(Count)[0] = 0
         /\ \A k \in 1 .. n : Sums(Count)[k] = Sums(Count)[k - 1] + Count[k]
         /\ Total = Sums(Rate)[n] /\ Total \in Nat \ {0}
         /\ CoresOf(mGroupWithComputeRate) = Sums(Count)[n]
         /\ \A k \in 1 .. n : First(k) = Sums(Count)[k - 1]
<1> DEFINE n == Len(mGroupWithComputeRate)
<1>1. /\ n \in Nat \ {0} /\ DOMAIN mGroupWithComputeRate = 1 .. n
      /\ \A k \in 1 .. n : mGroupWithComputeRate[k] \in [rate : Nat \ {0}, count : Nat \ {0}]
  <2>1. mGroupWithComputeRate \in Seq([rate : Nat \ {0}, count : Nat \ {0}])
    BY DEF Rates
  <2>2. n \in Nat /\ n > 1
    BY <2>1
  <2>3. DOMAIN mGroupWithComputeRate = 1 .. n
    BY <2>1
  <2>4. \A k \in 1 .. n : mGroupWithComputeRate[k] \in [rate : Nat \ {0}, count : Nat \ {0}]
    <3>1. \A S, q : q \in Seq(S) => \A k \in 1 .. Len(q) : q[k] \in S
      OBVIOUS
    <3> QED
      BY <2>1, <3>1, Zenon
  <2> HIDE DEF n
  <2> QED
    BY <2>2, <2>3, <2>4
<1>2. Count \in [1 .. n -> Nat \ {0}] /\ Rate \in [1 .. n -> Nat \ {0}]
  BY <1>1 DEF Count, Rate
<1>3. Count \in [1 .. n -> Nat] /\ Rate \in [1 .. n -> Nat]
  BY <1>2
<1>4. /\ Sums(Rate) \in [0 .. n -> Nat] /\ Sums(Rate)[0] = 0
      /\ \A k \in 1 .. n : Sums(Rate)[k] = Sums(Rate)[k - 1] + Rate[k]
  BY <1>3, SumsFacts
<1>5. /\ Sums(Count) \in [0 .. n -> Nat] /\ Sums(Count)[0] = 0
      /\ \A k \in 1 .. n : Sums(Count)[k] = Sums(Count)[k - 1] + Count[k]
  BY <1>3, SumsFacts
<1>6. Total = Sums(Rate)[n] /\ CoresOf(mGroupWithComputeRate) = Sums(Count)[n]
  BY <1>1 DEF Total, CoresOf, Sums, Rate, Count
<1>7. \A k \in 1 .. n : First(k) = Sums(Count)[k - 1]
  <2>1. \A k \in 1 .. n : k - 1 \in 0 .. n
    BY <1>1
  <2> QED
    BY <2>1 DEF First, Sums, Count
<1>8. Sums(Rate)[n] \in Nat \ {0}
  <2>1. n \in 1 .. n /\ n - 1 \in 0 .. n /\ n \in 0 .. n
    BY <1>1
  <2>2. Sums(Rate)[n] = Sums(Rate)[n - 1] + Rate[n] /\ Sums(Rate)[n - 1] \in Nat
        /\ Rate[n] \in Nat \ {0}
    BY <1>2, <1>4, <2>1
  <2> QED
    BY <2>2
<1> QED
  BY <1>1, <1>2, <1>4, <1>5, <1>6, <1>7, <1>8

\* Each group gets its share of the work, less what the floats may lose.
LEMMA PartFacts ==
  ASSUME Rates, Len(mGroupWithComputeRate) > 1, NEW work \in Nat, NEW totals \in Totals(work),
         NEW k \in 1 .. Len(mGroupWithComputeRate)
  PROVE  /\ Parts(totals)[k] = PartOf(totals, k) /\ Parts(totals)[k] \in Nat
         /\ work > 0 => Parts(totals)[k] > 0
         /\ Given(totals)[k] = Count[k] * Parts(totals)[k] /\ Given(totals)[k] \in Nat
         /\ (Total * Accuracy) * Given(totals)[k] >= (work * (Accuracy - 1)) * Rate[k]
<1> DEFINE T == Total * Accuracy
           c == Count[k]
           r == Rate[k]
           a == Accuracy - 1
           s == (work * r) * a
           u == UpDiv(s, T)
           t == totals[k]
           p == UpDiv(t, c)
<1>1. /\ T \in Nat \ {0} /\ c \in Nat \ {0} /\ r \in Nat \ {0} /\ a \in Nat \ {0}
      /\ k \in DOMAIN mGroupWithComputeRate
  <2>1. /\ Total \in Nat \ {0} /\ c \in Nat \ {0} /\ r \in Nat \ {0}
        /\ k \in DOMAIN mGroupWithComputeRate
    BY RateFacts
  <2>2. Accuracy \in Nat \ {0} /\ a \in Nat \ {0}
    BY AccuracyAssumption
  <2>3. \A x, y \in Nat \ {0} : x * y \in Nat \ {0}
    OBVIOUS
  <2> QED
    BY <2>1, <2>2, <2>3
<1>2. c = mGroupWithComputeRate[k].count /\ r = mGroupWithComputeRate[k].rate
  BY <1>1 DEF Count, Rate
<1>3. Parts(totals)[k] = p /\ Parts(totals)[k] = PartOf(totals, k) /\ Given(totals)[k] = c * p
  BY <1>1, <1>2 DEF Parts, Given, PartOf
<1>4. t \in Int /\ t >= u
  <2>1. PICK h : Ceilings(work, k) = u .. h
    BY <1>2 DEF Ceilings
  <2>2. t \in u .. h
    BY <1>1, <2>1 DEF Totals
  <2>3. u \in Int
    <3>1. s \in Nat
      BY <1>1
    <3> HIDE DEF s, T
    <3> QED
      BY <1>1, <3>1, UpDivFacts
  <2> HIDE DEF u
  <2> QED
    BY <2>2, <2>3
<1> HIDE DEF T, c, r, a, t
<1>5. s \in Nat /\ (work > 0 => s > 0)
  <2>1. work * r \in Nat /\ (work > 0 => work * r > 0)
    BY <1>1
  <2>2. \A x \in Nat : x * a \in Nat /\ (x > 0 => x * a > 0)
    BY <1>1
  <2> QED
    BY <2>1, <2>2
<1>6. s = (work * a) * r
  BY <1>1
<1> HIDE DEF s
<1>7. u \in Nat /\ u * T >= s /\ (s > 0 => u > 0)
  BY <1>1, <1>5, UpDivFacts
<1> HIDE DEF u
<1>8. t \in Nat /\ (s > 0 => t > 0)
  BY <1>4, <1>7
<1>9. p \in Nat /\ p * c >= t /\ (t > 0 => p > 0)
  BY <1>1, <1>8, UpDivFacts
<1> HIDE DEF p
<1>10. c * p \in Nat /\ c * p >= u
  BY <1>1, <1>4, <1>7, <1>8, <1>9
<1>11. T * (c * p) >= s
  <2>1. \A i \in Nat, j \in Nat, l \in Nat : i >= j => l * i >= j * l
    OBVIOUS
  <2>2. T * (c * p) >= u * T
    BY <1>1, <1>7, <1>10, <2>1
  <2>3. u * T \in Nat /\ T * (c * p) \in Nat
    BY <1>1, <1>7, <1>10
  <2> QED
    BY <1>5, <1>7, <2>2, <2>3
<1>12. p > 0 \/ work = 0
  BY <1>5, <1>8, <1>9
<1>13. T * Given(totals)[k] >= (work * a) * r
  BY <1>3, <1>6, <1>11
<1>14. Parts(totals)[k] = PartOf(totals, k) /\ Parts(totals)[k] \in Nat
       /\ (work > 0 => Parts(totals)[k] > 0)
  <2>1. work > 0 => p > 0
    BY <1>12
  <2> QED
    BY <1>3, <1>9, <2>1
<1>15. Given(totals)[k] = c * Parts(totals)[k] /\ Given(totals)[k] \in Nat
  BY <1>3, <1>10
<1> QED
  BY <1>13, <1>14, <1>15, Zenon DEF T, c, r, a

\* What the groups of cores get reaches the work.
LEMMA RatedDivides ==
  ASSUME Settings, Rates, Len(mGroupWithComputeRate) > 1, NEW work \in Nat,
         NEW totals \in Totals(work), NEW C, C = CoresOf(mGroupWithComputeRate),
         NEW d, d[0] = 0, \A i \in 1 .. C : d[i] = Rated(work, totals, i)
  PROVE  C \in 1 .. threadNumber /\ DividedAmong(d, work, C)
<1> DEFINE n == Len(mGroupWithComputeRate)
           c == Count
           P == Parts(totals)
           F == Sums(Count)
           D == Sums(Given(totals))
<1>1. /\ n \in Nat \ {0} /\ DOMAIN mGroupWithComputeRate = 1 .. n
      /\ c \in [1 .. n -> Nat \ {0}]
      /\ F \in [0 .. n -> Nat] /\ F[0] = 0 /\ \A k \in 1 .. n : F[k] = F[k - 1] + c[k]
      /\ C = F[n] /\ \A k \in 1 .. n : First(k) = F[k - 1]
  BY RateFacts
<1>2. P \in [1 .. n -> Nat] /\ Given(totals) \in [1 .. n -> Nat]
  <2>1. \A k \in 1 .. n : P[k] \in Nat /\ Given(totals)[k] \in Nat
    BY PartFacts
  <2>2. P = [k \in 1 .. n |-> P[k]] /\ Given(totals) = [k \in 1 .. n |-> Given(totals)[k]]
    BY <1>1 DEF Parts, Given
  <2> QED
    BY <2>1, <2>2
<1>3. /\ D \in [0 .. n -> Nat] /\ D[0] = 0
      /\ \A k \in 1 .. n : D[k] = D[k - 1] + Given(totals)[k]
  BY <1>2, SumsFacts
<1>4. Groups(n, c, P, F, D)
  <2>1. \A k \in 1 .. n : Given(totals)[k] = c[k] * P[k]
    BY PartFacts
  <2> QED
    BY <1>1, <1>2, <1>3, <2>1 DEF Groups
<1>5. work < Accuracy => D[n] >= work
  <2>1. Shares(n, work * (Accuracy - 1), Rate, Sums(Rate), Given(totals), D)
    BY <1>2, <1>3, RateFacts DEF Shares
  <2>2. Total \in Nat \ {0} /\ Total = Sums(Rate)[n] /\ Accuracy \in Nat /\ Accuracy >= 2
    BY RateFacts, AccuracyAssumption
  <2>3. Total * Accuracy \in Nat /\ work * (Accuracy - 1) \in Nat
    BY <2>2
  <2>4. \A k \in 1 .. n : (Total * Accuracy) * Given(totals)[k] >= (work * (Accuracy - 1)) * Rate[k]
    BY PartFacts
  <2> DEFINE T == Total * Accuracy
             v == work * (Accuracy - 1)
             g == Given(totals)
             R == Sums(Rate)
  <2>5. /\ n \in Nat \ {0} /\ T \in Nat /\ v \in Nat
        /\ Shares(n, v, Rate, R, g, D) /\ \A k \in 1 .. n : T * g[k] >= v * Rate[k]
    BY <1>1, <2>1, <2>3, <2>4
  <2>6. D[n] \in Nat /\ T * D[n] >= v * R[n]
    <3> HIDE DEF n, D, T, v, g, R
    <3> QED
      BY <2>5, SharesReach
  <2>7. (Total * Accuracy) * D[n] >= (work * (Accuracy - 1)) * Total
    BY <2>2, <2>6
  <2> HIDE DEF n, D
  <2> QED
    BY <2>2, <2>6, <2>7, RoundedReach
<1>6. \A k \in 1 .. n, i \in Int : Within(F, k, i)
        <=> (First(k) < i /\ i <= First(k) + mGroupWithComputeRate[k].count)
  BY <1>1 DEF Within, Count
<1>7. \A k \in 1 .. n : Done(totals, k) = D[k - 1] /\ PartOf(totals, k) = P[k]
  <2>1. \A k \in 1 .. n : k - 1 \in 0 .. n
    BY <1>1
  <2> QED
    BY <1>1, <2>1 DEF Done, Sums, Given, Parts
<1> HIDE DEF n, c, P, F, D
<1> DEFINE pos == [i \in 1 .. F[n] |->
             CHOOSE k \in 1 .. n : /\ First(k) < i
                                   /\ i <= First(k) + mGroupWithComputeRate[k].count]
<1>8. ASSUME NEW i \in 1 .. F[n]
      PROVE  pos[i] \in 1 .. n /\ Within(F, pos[i], i)
  <2>1. \E k \in 1 .. n : Within(F, k, i)
    BY <1>4, SomeGroup
  <2>2. i \in Int
    OBVIOUS
  <2>3. PICK k \in 1 .. n : /\ First(k) < i
                            /\ i <= First(k) + mGroupWithComputeRate[k].count
    BY <1>6, <2>1, <2>2
  <2>4. /\ pos[i] \in 1 .. n /\ First(pos[i]) < i
        /\ i <= First(pos[i]) + mGroupWithComputeRate[pos[i]].count
    BY <2>3
  <2> HIDE DEF pos
  <2> QED
    BY <1>6, <2>2, <2>4
<1>9. pos \in [1 .. F[n] -> 1 .. n]
  BY <1>8
<1> DEFINE U == Ends(n, P, F, D, pos)
<1>10. /\ F[n] \in Nat \ {0} /\ U \in [0 .. F[n] -> Nat]
       /\ U[0] = 0 /\ U[F[n]] = D[n]
       /\ \A i \in 1 .. F[n] : U[i] = U[i - 1] + P[pos[i]]
  <2>1. U = Ends(n, P, F, D, pos)
    OBVIOUS
  <2>2. Positions(n, F, pos)
    BY <1>8, <1>9 DEF Positions
  <2> HIDE DEF pos, U
  <2>3. Entered(n, P, F, D, pos, U)
    BY <1>4, <2>1, <2>2, Entries, Zenon
  <2> QED
    BY <2>3 DEF Entered
<1>11. ASSUME NEW i \in 1 .. F[n]
       PROVE  d[i] = Least(U[i], work)
  <2>1. Rated(work, totals, i) =
          Least(Done(totals, pos[i])
              + (i - First(pos[i])) * PartOf(totals, pos[i]), work)
    BY <1>1 DEF Rated, n
  <2>2. /\ Done(totals, pos[i]) = D[pos[i] - 1] /\ PartOf(totals, pos[i]) = P[pos[i]]
        /\ First(pos[i]) = F[pos[i] - 1]
    BY <1>1, <1>7, <1>8
  <2>3. U[i] = D[pos[i] - 1] + (i - F[pos[i] - 1]) * P[pos[i]]
    <3>1. i \in 0 .. F[n] /\ i # 0
      BY <1>10
    <3> HIDE DEF pos
    <3> QED
      BY <3>1 DEF Ends
  <2>4. d[i] = Rated(work, totals, i)
    BY <1>1
  <2> HIDE DEF pos, U
  <2> QED
    BY <2>1, <2>2, <2>3, <2>4
<1>12. ASSUME NEW i \in 1 .. F[n]
       PROVE  U[i - 1] <= U[i] /\ (work > 0 => U[i - 1] < U[i])
  <2>1. U[i] = U[i - 1] + P[pos[i]]
    BY <1>10
  <2>2. P[pos[i]] \in Nat /\ (work > 0 => P[pos[i]] > 0)
    BY <1>8, PartFacts DEF P, n
  <2>3. U[i - 1] \in Nat
    <3>1. i - 1 \in 0 .. F[n]
      BY <1>10
    <3> HIDE DEF U
    <3> QED
      BY <1>10, <3>1
  <2> HIDE DEF pos, U
  <2> QED
    BY <2>1, <2>2, <2>3
<1>13. C \in 1 .. threadNumber /\ C = F[n] /\ (work < Accuracy => U[C] >= work)
  <2>1. C <= threadNumber /\ threadNumber \in Nat
    BY DEF Rates, Settings
  <2> HIDE DEF U
  <2> QED
    BY <1>1, <1>5, <1>10, <2>1
<1> HIDE DEF U, pos
<1>14. DividedAmong(d, work, C)
  <2>1. U \in [0 .. C -> Nat] /\ U[0] = 0 /\ (work < Accuracy => U[C] >= work)
    BY <1>10, <1>13
  <2>2. \A i \in 1 .. C : U[i - 1] <= U[i] /\ (work > 0 => U[i - 1] < U[i])
    BY <1>12, <1>13
  <2>3. \A i \in 1 .. C : d[i] = Least(U[i], work)
    BY <1>11, <1>13
  <2> QED
    BY <1>13, <2>1, <2>2, <2>3, CutOff
<1> QED
  BY <1>13, <1>14

------------------------------------------------------------------------------
\* The powers of a rate, which the constructor multiplies up.
LEMMA PowerPositive ==
  ASSUME NEW b \in Nat \ {0}, NEW n \in Nat
  PROVE  Power(b, n) \in Nat \ {0}
<1> DEFINE Steps(f, m) == f[0] = 1 /\ \A k \in 1 .. m : f[k] = b * f[k - 1]
           Missing == {m \in Nat : ~ \E f \in [0 .. m -> Nat \ {0}] : Steps(f, m)}
<1>1. Missing = {}
  <2> SUFFICES ASSUME Missing # {} PROVE FALSE
    OBVIOUS
  <2>1. PICK m \in Missing : \A k \in Missing : m <= k
    <3>1. Missing \in SUBSET Nat
      OBVIOUS
    <3> HIDE DEF Missing
    <3> QED
      BY <3>1, LeastNumber
  <2>2. m # 0
    <3> DEFINE f == [k \in 0 .. 0 |-> 1]
    <3>1. f \in [0 .. 0 -> Nat \ {0}] /\ Steps(f, 0)
      OBVIOUS
    <3> QED
      BY <3>1
  <2>3. m \in Nat \ {0} /\ m - 1 \in Nat /\ m - 1 \notin Missing
    <3>1. m \in Nat
      OBVIOUS
    <3> HIDE DEF Missing
    <3> QED
      BY <2>1, <2>2, <3>1
  <2>4. PICK f \in [0 .. m - 1 -> Nat \ {0}] : Steps(f, m - 1)
    BY <2>3
  <2> DEFINE g == [k \in 0 .. m |-> IF k = m THEN b * f[m - 1] ELSE f[k]]
  <2>5. f[m - 1] \in Nat \ {0} /\ b * f[m - 1] \in Nat \ {0}
    <3>1. m - 1 \in 0 .. m - 1
      BY <2>3
    <3>2. f[m - 1] \in Nat \ {0}
      BY <3>1
    <3> QED
      BY <3>2
  <2>6. g \in [0 .. m -> Nat \ {0}]
    <3> SUFFICES ASSUME NEW k \in 0 .. m PROVE g[k] \in Nat \ {0}
      OBVIOUS
    <3>1. k = m \/ k \in 0 .. m - 1
      BY <2>3
    <3> QED
      BY <2>5, <3>1
  <2>7. Steps(g, m)
    <3>1. g[0] = 1
      BY <2>3, <2>4
    <3>2. ASSUME NEW k \in 1 .. m
          PROVE  g[k] = b * g[k - 1]
      <4>1. k - 1 \in 0 .. m - 1 /\ k - 1 # m /\ k - 1 \in 0 .. m /\ k \in 0 .. m
        BY <2>3
      <4>2. g[k - 1] = f[k - 1]
        BY <4>1
      <4>3. CASE k = m
        BY <4>1, <4>2, <4>3
      <4>4. CASE k # m
        <5>1. k \in 1 .. m - 1
          BY <2>3, <4>4
        <5> QED
          BY <2>4, <4>1, <4>2, <4>4, <5>1
      <4> QED
        BY <4>3, <4>4
    <3> QED
      BY <3>1, <3>2
  <2> HIDE DEF g, Steps
  <2> QED
    BY <2>3, <2>6, <2>7
<1>2. n \notin Missing
  <2> HIDE DEF Missing
  <2> QED
    BY <1>1
<1> DEFINE Eqn(f) == f = [k \in 0 .. n |-> IF k = 0 THEN 1 ELSE b * f[k - 1]]
<1>3. \E f : Eqn(f)
  <2>1. PICK f \in [0 .. n -> Nat \ {0}] : Steps(f, n)
    BY <1>2
  <2>2. \A k \in 0 .. n : f[k] = IF k = 0 THEN 1 ELSE b * f[k - 1]
    <3> TAKE k \in 0 .. n
    <3>1. k = 0 \/ k \in 1 .. n
      OBVIOUS
    <3>2. CASE k = 0
      BY <2>1, <3>2
    <3>3. CASE k \in 1 .. n
      BY <2>1, <3>3
    <3> QED
      BY <3>1, <3>2, <3>3
  <2>3. Eqn(f)
    BY <2>2
  <2> QED
    BY <2>3
<1> DEFINE to == CHOOSE f : Eqn(f)
<1>4. Eqn(to)
  BY <1>3
<1>5. Power(b, n) = to[n]
  BY DEF Power
<1> HIDE DEF to, Missing
<1>6. to[0] = 1 /\ \A k \in 1 .. n : to[k] = b * to[k - 1]
  <2>1. to = [k \in 0 .. n |-> IF k = 0 THEN 1 ELSE b * to[k - 1]]
    BY <1>4
  <2>2. 0 \in 0 .. n /\ \A k \in 1 .. n : k \in 0 .. n /\ k # 0
    OBVIOUS
  <2> QED
    BY <2>1, <2>2
<1> DEFINE B == {k \in Nat : k \in 0 .. n /\ to[k] \notin Nat \ {0}}
<1>7. B = {}
  <2> SUFFICES ASSUME B # {} PROVE FALSE
    OBVIOUS
  <2>1. PICK k \in B : \A m \in B : k <= m
    <3>1. B \in SUBSET Nat
      OBVIOUS
    <3> HIDE DEF B
    <3> QED
      BY <3>1, LeastNumber
  <2>2. k \in 1 .. n /\ k - 1 \in Nat /\ k - 1 \in 0 .. n /\ to[k] \notin Nat \ {0}
    BY <1>6
  <2>3. k - 1 \notin B
    <3> HIDE DEF B
    <3> QED
      BY <2>1, <2>2
  <2>4. to[k - 1] \in Nat \ {0}
    BY <2>2, <2>3
  <2>5. b * to[k - 1] \in Nat \ {0}
    BY <2>4
  <2> QED
    BY <1>6, <2>2, <2>5
<1>8. to[n] \in Nat \ {0}
  <2>1. n \notin B
    <3> HIDE DEF B
    <3> QED
      BY <1>7
  <2> QED
    BY <2>1
<1> QED
  BY <1>5, <1>8

\* Smaller numbers have smaller sums.
LEMMA SumsCompare ==
  ASSUME NEW m \in Nat, NEW l \in Nat, m <= l,
         NEW v \in [1 .. m -> Nat], NEW w \in [1 .. l -> Nat],
         \A k \in 1 .. m : v[k] <= w[k], NEW j \in 0 .. m
  PROVE  SumTo(v, j) <= SumTo(w, j)
<1> DEFINE S(u, k) == SumTo(u, k)
           B == {k \in Nat : k \in 0 .. m /\ ~ (S(v, k) <= S(w, k))}
<1>1. /\ \A k \in 0 .. m : S(v, k) \in Nat /\ S(w, k) \in Nat
      /\ S(v, 0) = 0 /\ S(w, 0) = 0
      /\ \A k \in 1 .. m : S(v, k) = S(v, k - 1) + v[k] /\ S(w, k) = S(w, k - 1) + w[k]
  <2>1. /\ \A k \in 0 .. m : S(v, k) \in Nat
        /\ S(v, 0) = 0 /\ \A k \in 1 .. m : S(v, k) = S(v, k - 1) + v[k]
    BY SumToFacts
  <2>2. /\ \A k \in 0 .. l : S(w, k) \in Nat
        /\ S(w, 0) = 0 /\ \A k \in 1 .. l : S(w, k) = S(w, k - 1) + w[k]
    BY SumToFacts
  <2>3. \A k \in 0 .. m : k \in 0 .. l
    OBVIOUS
  <2>4. \A k \in 1 .. m : k \in 1 .. l
    OBVIOUS
  <2> HIDE DEF S
  <2> QED
    BY <2>1, <2>2, <2>3, <2>4
<1> HIDE DEF S
<1>2. B = {}
  <2> SUFFICES ASSUME B # {} PROVE FALSE
    OBVIOUS
  <2>1. PICK k \in B : \A i \in B : k <= i
    <3>1. B \in SUBSET Nat
      OBVIOUS
    <3> HIDE DEF B
    <3> QED
      BY <3>1, LeastNumber
  <2>2. k \in 1 .. m /\ k - 1 \in Nat /\ k - 1 \in 0 .. m /\ ~ (S(v, k) <= S(w, k))
    BY <1>1
  <2>3. k - 1 \notin B
    <3> HIDE DEF B
    <3> QED
      BY <2>1, <2>2
  <2>4. S(v, k - 1) <= S(w, k - 1)
    BY <2>2, <2>3
  <2>5. v[k] \in Nat /\ w[k] \in Nat /\ v[k] <= w[k]
    BY <2>2
  <2> QED
    BY <1>1, <2>2, <2>4, <2>5
<1>3. j \notin B
  <2> HIDE DEF B
  <2> QED
    BY <1>2
<1> QED
  BY <1>3 DEF S

\* The cores that are selected are no more than there are threads.
LEMMA RatesMade ==
  ASSUME NEW groups \in Seq(Nat \ {0}), NEW N \in Nat \ {0}, NEW rate \in Nat,
         NEW G, G = ComputeRates(groups, N, rate)
  PROVE  /\ G \in Seq([rate : Nat \ {0}, count : Nat \ {0}])
         /\ Len(G) > 1 => CoresOf(G) <= N
<1> DEFINE L == Len(groups)
           fast == Reverse(groups)
           S(k) == SumTo(fast, k)
           used == {k \in 1 .. Len(fast) : Needs(S(k - 1), N)}
           count(k) == Least(fast[k], N - S(k - 1))
           Alike == N <= 1 \/ rate \notin 1 .. 99 \/ Len(groups) < 2
<1>1. CASE Alike
  <2>1. G = <<>>
    BY <1>1 DEF ComputeRates
  <2>2. Len(G) = 0 /\ G \in Seq([rate : Nat \ {0}, count : Nat \ {0}])
    BY <2>1, EmptySeq
  <2> QED
    BY <2>2
<1>2. CASE ~ Alike
  <2>1. /\ L \in Nat \ {0} /\ rate \in Nat \ {0}
        /\ fast \in [1 .. L -> Nat \ {0}] /\ Len(fast) = L
    <3>1. L \in Nat \ {0} /\ rate \in Nat \ {0}
      BY <1>2
    <3>2. fast = [i \in 1 .. L |-> groups[(L - i) + 1]]
      BY DEF Reverse
    <3>3. \A i \in 1 .. L : groups[(L - i) + 1] \in Nat \ {0}
      <4> TAKE i \in 1 .. L
      <4>1. (L - i) + 1 \in 1 .. L
        BY <3>1
      <4>2. \A k \in 1 .. Len(groups) : groups[k] \in Nat \ {0}
        OBVIOUS
      <4> QED
        BY <4>1, <4>2
    <3> HIDE DEF L
    <3>4. fast \in [1 .. L -> Nat \ {0}]
      BY <3>2, <3>3
    <3>5. Len(fast) = L
      <4>1. fast \in Seq(Nat \ {0}) /\ DOMAIN fast = 1 .. L
        BY <3>1, <3>4, SeqDef
      <4> QED
        BY <3>1, <4>1
    <3> QED
      BY <3>1, <3>4, <3>5
  <2> DEFINE n == Cardinality(used)
             made == [k \in 1 .. n |->
               [rate |-> Power(rate, k - 1) * Power(100, n - k) * count(k),
                count |-> count(k)]]
  <2>2. G = made
    <3>1. ComputeRates(groups, N, rate) = IF Alike THEN <<>> ELSE made
      BY Zenon DEF ComputeRates
    <3> HIDE DEF made, Alike
    <3> QED
      BY <1>2, <3>1
  <2> HIDE DEF L, fast
  <2>3. fast \in [1 .. L -> Nat]
    BY <2>1
  <2>4. /\ \A k \in 0 .. L : S(k) \in Nat
        /\ S(0) = 0 /\ \A k \in 1 .. L : S(k) = S(k - 1) + fast[k]
    BY <2>1, <2>3, SumToFacts
  <2> HIDE DEF S
  <2> DEFINE K == {k \in Nat : k \in 0 .. L /\ (k = L \/ S(k) >= N)}
  <2>5. PICK m \in K : \A k \in K : m <= k
    <3>1. K \in SUBSET Nat /\ L \in K
      BY <2>1
    <3> HIDE DEF K
    <3> QED
      BY <3>1, LeastNumber
  <2>6. m \in Nat /\ m \in 0 .. L /\ (m = L \/ S(m) >= N)
    OBVIOUS
  <2>7. \A a, b \in 0 .. L : a <= b => S(a) <= S(b)
    <3> DEFINE f == [k \in 0 .. L |-> S(k)]
    <3>1. f \in [0 .. L -> Nat] /\ L \in Nat
      BY <2>1, <2>4
    <3>2. \A k \in 1 .. L : f[k - 1] <= f[k]
      <4> TAKE k \in 1 .. L
      <4>1. k - 1 \in 0 .. L /\ k \in 0 .. L /\ fast[k] \in Nat /\ S(k - 1) \in Nat
        BY <2>1, <2>3, <2>4
      <4> QED
        BY <2>4, <4>1
    <3>3. \A k \in 0 .. L : f[k] = S(k)
      OBVIOUS
    <3> HIDE DEF f
    <3> QED
      BY <3>1, <3>2, <3>3, Climbs
  <2>8. ASSUME NEW k \in 1 .. L
        PROVE  k <= m <=> S(k - 1) < N
    <3>1. k - 1 \in Nat /\ k - 1 \in 0 .. L /\ S(k - 1) \in Nat
      BY <2>1, <2>4
    <3>2. ASSUME k <= m PROVE S(k - 1) < N
      <4>1. k - 1 \notin K
        <5>1. ~ (m <= k - 1)
          BY <2>6, <3>1, <3>2
        <5> HIDE DEF K
        <5> QED
          BY <2>5, <5>1
      <4> QED
        BY <3>1, <4>1
    <3>3. ASSUME ~ (k <= m) PROVE ~ (S(k - 1) < N)
      <4>1. m # L /\ m <= k - 1
        BY <2>1, <2>6, <3>3
      <4>2. S(m) >= N /\ S(m) \in Nat /\ S(m) <= S(k - 1)
        BY <2>4, <2>6, <2>7, <3>1, <4>1
      <4> QED
        BY <3>1, <4>2
    <3> QED
      BY <3>2, <3>3
  <2>9. used = 1 .. m
    <3>1. \A k \in 1 .. L : k \in used <=> k <= m
      BY <2>1, <2>8 DEF Needs
    <3>2. used \subseteq 1 .. L /\ 1 .. m \subseteq 1 .. L
      BY <2>1, <2>6
    <3>3. \A k \in 1 .. L : k \in 1 .. m <=> k <= m
      BY <2>6
    <3> HIDE DEF used
    <3> QED
      BY <3>1, <3>2, <3>3
  <2>10. n = m
    <3>1. \A i \in Nat : i >= 1 => Cardinality(1 .. i) = i
      BY FS_Interval
    <3>2. Cardinality(1 .. 0) = 0
      <4>1. 1 .. 0 = {}
        OBVIOUS
      <4> QED
        BY <4>1, FS_EmptySet
    <3>3. n = Cardinality(used)
      OBVIOUS
    <3> HIDE DEF used, n
    <3> QED
      BY <2>6, <2>9, <3>1, <3>2, <3>3
  <2>11. ASSUME NEW k \in 1 .. m
         PROVE  /\ k \in 1 .. L /\ count(k) \in Nat \ {0} /\ count(k) <= fast[k]
                /\ count(k) <= N - S(k - 1)
    <3>1. k \in 1 .. L /\ k <= m
      BY <2>1, <2>6
    <3>2. S(k - 1) < N /\ S(k - 1) \in Nat /\ fast[k] \in Nat \ {0}
      <4>1. k - 1 \in 0 .. L
        BY <2>1, <3>1
      <4> QED
        BY <2>1, <2>4, <2>8, <3>1, <4>1
    <3> QED
      BY <3>1, <3>2 DEF Least
  <2> DEFINE c == [k \in 1 .. m |-> count(k)]
             r(k) == Power(rate, k - 1) * Power(100, m - k)
  <2>12. c \in [1 .. m -> Nat \ {0}] /\ \A k \in 1 .. m : r(k) \in Nat \ {0}
    <3>1. c \in [1 .. m -> Nat \ {0}]
      BY <2>11
    <3>2. ASSUME NEW k \in 1 .. m PROVE r(k) \in Nat \ {0}
      <4>1. k - 1 \in Nat /\ m - k \in Nat /\ 100 \in Nat \ {0}
        BY <2>6
      <4>2. Power(rate, k - 1) \in Nat \ {0} /\ Power(100, m - k) \in Nat \ {0}
        BY <2>1, <4>1, PowerPositive
      <4> QED
        BY <4>2
    <3> QED
      BY <3>1, <3>2
  <2> HIDE DEF r
  <2>13. G = [k \in 1 .. m |-> [rate |-> r(k) * c[k], count |-> c[k]]]
    BY <2>2, <2>10 DEF r
  <2> HIDE DEF c
  <2>14. G \in [1 .. m -> [rate : Nat \ {0}, count : Nat \ {0}]]
    <3>1. ASSUME NEW k \in 1 .. m
          PROVE  r(k) * c[k] \in Nat \ {0} /\ c[k] \in Nat \ {0}
      <4>1. r(k) \in Nat \ {0} /\ c[k] \in Nat \ {0}
        BY <2>12
      <4> QED
        BY <4>1
    <3> QED
      BY <2>13, <3>1
  <2>15. G \in Seq([rate : Nat \ {0}, count : Nat \ {0}]) /\ Len(G) = m
    <3>1. DOMAIN G = 1 .. m
      BY <2>13
    <3>2. \A S1, f : f \in [1 .. m -> S1] => f \in Seq(S1)
      BY <2>6, SeqDef
    <3>3. G \in Seq([rate : Nat \ {0}, count : Nat \ {0}])
      BY <2>14, <3>2, Zenon
    <3>4. Len(G) = m
      BY <2>6, <3>1, <3>3
    <3> QED
      BY <3>3, <3>4
  <2>16. ASSUME m > 1
         PROVE  CoresOf(G) <= N
    <3>1. [k \in DOMAIN G |-> G[k].count] = c
      <4>1. DOMAIN G = 1 .. m /\ \A k \in 1 .. m : G[k].count = c[k]
        BY <2>13
      <4> QED
        BY <2>12, <4>1
    <3>2. CoresOf(G) = SumTo(c, m)
      BY <2>15, <3>1 DEF CoresOf
    <3>3. m \in 1 .. m /\ m - 1 \in 0 .. m /\ c \in [1 .. m -> Nat]
      BY <2>6, <2>12, <2>16
    <3>4. /\ SumTo(c, m) = SumTo(c, m - 1) + c[m]
          /\ SumTo(c, m - 1) \in Nat
      BY <2>6, <3>3, SumToFacts
    <3>5. SumTo(c, m - 1) <= S(m - 1)
      <4>1. m - 1 \in 0 .. m /\ m <= L /\ L \in Nat
        BY <2>1, <2>6, <3>3
      <4>2. \A k \in 1 .. m : c[k] <= fast[k]
        BY <2>11 DEF c
      <4>3. SumTo(c, m - 1) <= SumTo(fast, m - 1)
        BY <2>3, <2>6, <3>3, <4>1, <4>2, SumsCompare
      <4> QED
        BY <4>3 DEF S
    <3>6. c[m] \in Nat /\ c[m] <= N - S(m - 1) /\ S(m - 1) \in Nat
      <4>1. m - 1 \in 0 .. L
        BY <2>1, <2>6, <3>3
      <4> QED
        BY <2>4, <2>11, <3>3, <4>1 DEF c
    <3> QED
      BY <3>2, <3>4, <3>5, <3>6
  <2> QED
    BY <2>15, <2>16
<1> QED
  BY <1>1, <1>2

------------------------------------------------------------------------------
\* Before anything is divided, and after every division, the invariant holds.
LEMMA InitDivided ==
  ASSUME DivideInit
  PROVE  DivisionInv
<1>1. Settings
  BY NumbersAssumption DEF DivideInit, Settings
<1>2. Rates
  <2>1. PICK groups \in Machines, rate \in DecreaseRates :
          mGroupWithComputeRate = ComputeRates(groups, threadNumber, rate)
    BY DEF DivideInit
  <2>2. groups \in Seq(Nat \ {0}) /\ rate \in Nat /\ threadNumber \in Nat \ {0}
    BY <1>1, MachinesAssumption, RatesAssumption DEF Settings
  <2>3. /\ mGroupWithComputeRate \in Seq([rate : Nat \ {0}, count : Nat \ {0}])
        /\ Len(mGroupWithComputeRate) > 1 =>
             CoresOf(mGroupWithComputeRate) <= threadNumber
    BY <2>1, <2>2, RatesMade
  <2> QED
    BY <2>3 DEF Rates
<1>3. Divided
  <2>1. divides = [i \in 0 .. threadNumber |-> 0] /\ size = 0 /\ reached = 0
    BY DEF DivideInit, None
  <2>2. threadNumber \in Nat \ {0}
    BY <1>1 DEF Settings
  <2>3. reached \in 0 .. threadNumber /\ \A i \in 0 .. threadNumber : divides[i] = 0
    BY <2>1, <2>2
  <2>4. DividedAmong(divides, size, reached)
    BY <2>1, <2>2, <2>3 DEF DividedAmong
  <2>5. \A i \in reached + 1 .. threadNumber : divides[i] = 0
    BY <2>1, <2>2, <2>3
  <2> QED
    BY <2>1, <2>3, <2>4, <2>5 DEF Divided
<1> QED
  BY <1>1, <1>2, <1>3 DEF DivisionInv

LEMMA ResizeDivides ==
  ASSUME DivisionInv, NEW work \in Sizes, NEW light \in BOOLEAN,
         Resize(work, light)
  PROVE  DivisionInv'
<1> DEFINE dst == IF kept THEN divides ELSE None
           m == Reach(light)
<1>1. PICK totals \in Totals(work) : divides' = ComputeDivideSizes(work, totals, dst, light)
  BY DEF Resize
<1>2. /\ threadNumber' = threadNumber /\ mGroupWithComputeRate' = mGroupWithComputeRate
      /\ pack' = pack /\ kept' = kept /\ size' = work /\ reached' = m
  BY DEF Resize, machine
<1>3. Settings /\ Rates /\ work \in Nat
  BY NumbersAssumption DEF DivisionInv
<1>4. Settings' /\ Rates'
  <2>1. CoresOf(mGroupWithComputeRate)' = CoresOf(mGroupWithComputeRate)
    BY <1>2
  <2> QED
    BY <1>2, <1>3, <2>1 DEF Settings, Rates
<1>5. threadNumber \in Nat \ {0} /\ threadNumber \in 1 .. threadNumber
  BY <1>3 DEF Settings
<1>6. divides' = [i \in 0 .. threadNumber |->
                    IF i = 0 THEN 0 ELSE IF i > m THEN dst[i]
                    ELSE IF Evenly(light) THEN Average(work, i) ELSE Rated(work, totals, i)]
  BY <1>1 DEF ComputeDivideSizes
<1>7. divides'[0] = 0
  BY <1>5, <1>6
<1>8. m \in 1 .. threadNumber /\ DividedAmong(divides', work, m)
  <2> HIDE DEF dst
  <2>1. CASE Evenly(light)
    <3>1. m = threadNumber
      BY <2>1 DEF Reach
    <3>2. \A i \in 0 .. threadNumber : ~ (i > m)
      BY <1>5, <3>1
    <3>3. divides' = [i \in 0 .. threadNumber |-> IF i = 0 THEN 0 ELSE Average(work, i)]
      BY <1>6, <2>1, <3>2
    <3> QED
      BY <1>3, <1>5, <3>1, <3>3, AverageDivides
  <2>2. CASE ~ Evenly(light)
    <3>1. Len(mGroupWithComputeRate) > 1
      BY <1>3, <2>2 DEF Rates, Evenly
    <3>2. m = CoresOf(mGroupWithComputeRate)
      BY <2>2 DEF Reach
    <3>3. m <= threadNumber /\ m \in Nat
      <4>1. /\ m = Sums(Count)[Len(mGroupWithComputeRate)]
            /\ Sums(Count) \in [0 .. Len(mGroupWithComputeRate) -> Nat]
            /\ Len(mGroupWithComputeRate) \in Nat
        BY <1>3, <3>1, <3>2, RateFacts
      <4> QED
        BY <1>3, <3>1, <3>2, <4>1 DEF Rates
    <3> HIDE DEF m
    <3>4. \A i \in 1 .. m : divides'[i] = Rated(work, totals, i)
      <4> TAKE i \in 1 .. m
      <4>1. i \in 0 .. threadNumber /\ i # 0 /\ ~ (i > m)
        BY <1>5, <3>3
      <4> QED
        BY <1>6, <2>2, <4>1
    <3> QED
      BY <1>3, <1>7, <3>1, <3>2, <3>4, RatedDivides
  <2> QED
    BY <2>1, <2>2
<1>9. ~ kept => \A i \in m + 1 .. threadNumber : divides'[i] = 0
  <2> SUFFICES ASSUME ~ kept, NEW i \in m + 1 .. threadNumber PROVE divides'[i] = 0
    OBVIOUS
  <2> HIDE DEF m
  <2>1. i \in 0 .. threadNumber /\ i # 0 /\ i > m
    BY <1>5, <1>8
  <2>2. dst[i] = 0
    BY <2>1 DEF None
  <2> HIDE DEF dst
  <2> QED
    BY <1>6, <2>1, <2>2
<1>10. Divided'
  <2> HIDE DEF m, dst
  <2>1. m \in 0 .. threadNumber /\ m > 0
    BY <1>5, <1>8
  <2>2. DividedAmong(divides, size, reached)'
    BY <1>2, <1>8 DEF DividedAmong
  <2> QED
    BY <1>2, <1>3, <1>9, <2>1, <2>2 DEF Divided
<1> QED
  BY <1>4, <1>10 DEF DivisionInv

LEMMA AlwaysDivided ==
  DivideSpec => []DivisionInv
<1>1. DivideInit => DivisionInv
  BY InitDivided
<1>2. DivisionInv /\ [DivideNext]_(divideVars) => DivisionInv'
  <2> SUFFICES ASSUME DivisionInv, [DivideNext]_(divideVars) PROVE DivisionInv'
    OBVIOUS
  <2>1. CASE DivideNext
    BY <2>1, ResizeDivides DEF DivideNext
  <2>2. CASE UNCHANGED divideVars
    <3>1. /\ threadNumber' = threadNumber /\ mGroupWithComputeRate' = mGroupWithComputeRate
          /\ pack' = pack /\ kept' = kept /\ size' = size /\ divides' = divides
          /\ reached' = reached
      BY <2>2 DEF divideVars, machine
    <3>2. CoresOf(mGroupWithComputeRate)' = CoresOf(mGroupWithComputeRate)
      BY <3>1
    <3> QED
      BY <3>1, <3>2 DEF DivisionInv, Settings, Rates, Divided, DividedAmong
  <2> QED
    BY <2>1, <2>2
<1> QED
  BY <1>1, <1>2, PTL DEF DivideSpec

\* What the parts of the threads are that a division is for, by the last thread it reached.
LEMMA PartsOf ==
  ASSUME DivisionInv
  PROVE  \E m \in 0 .. threadNumber :
           /\ \A i \in Served : i \in Nat \ {0} /\ (i \in 1 .. m \/ Part(i) = {})
           /\ \A i \in 1 .. m : i \in Served
           /\ \A i \in 1 .. m : /\ divides[i - 1] \in Nat /\ divides[i] \in Nat
                                /\ divides[i - 1] <= divides[i] /\ divides[i] <= size
                                /\ divides[i - 1] = divides[i] => divides[i] = size
           /\ \A i, j \in 0 .. m : i <= j => divides[i] <= divides[j]
           /\ divides[0] = 0 /\ (size < Accuracy => divides[m] = size)
           /\ size \in Nat /\ (size > 0 => m > 0)
<1> DEFINE m == reached
<1>1. threadNumber \in Nat \ {0} /\ size \in Nat /\ m \in 0 .. threadNumber
      /\ (size > 0 => m > 0) /\ DividedAmong(divides, size, m)
      /\ (~ kept => \A i \in m + 1 .. threadNumber : divides[i] = 0)
  BY DEF DivisionInv, Settings, Divided
<1>2. Served = 1 .. m \/ (Served = 1 .. threadNumber /\ ~ kept)
  BY DEF Served
<1> HIDE DEF m
<1>3. m \in Nat /\ m <= threadNumber
  BY <1>1
<1>4. \A i \in 0 .. m : divides[i] \in Nat
  BY <1>1 DEF DividedAmong
<1>5. \A i \in 1 .. m : /\ divides[i - 1] \in Nat /\ divides[i] \in Nat
                        /\ divides[i - 1] <= divides[i] /\ divides[i] <= size
                        /\ divides[i - 1] = divides[i] => divides[i] = size
  <2> TAKE i \in 1 .. m
  <2>1. i \in 0 .. m /\ i - 1 \in 0 .. m
    BY <1>3
  <2> QED
    BY <1>1, <1>4, <2>1 DEF DividedAmong
<1>6. ASSUME ~ kept, NEW i \in m + 1 .. threadNumber
      PROVE  Part(i) = {}
  <2>1. divides[i] = 0 /\ divides[i - 1] \in Nat
    <3>1. i - 1 \in 0 .. m \/ i - 1 \in m + 1 .. threadNumber
      BY <1>1, <1>3
    <3>2. i - 1 \in m + 1 .. threadNumber => divides[i - 1] = 0
      BY <1>1, <1>6
    <3> QED
      BY <1>1, <1>4, <1>6, <3>1, <3>2
  <2>2. divides[i - 1] .. divides[i] - 1 = {}
    BY <2>1
  <2> QED
    BY <2>2 DEF Part
<1>7. \A i \in Served : i \in Nat \ {0} /\ (i \in 1 .. m \/ Part(i) = {})
  <2> TAKE i \in Served
  <2>1. CASE Served = 1 .. m
    BY <1>3, <2>1
  <2>2. CASE Served = 1 .. threadNumber /\ ~ kept
    <3>1. i \in Nat \ {0} /\ (i \in 1 .. m \/ i \in m + 1 .. threadNumber)
      BY <1>1, <1>3, <2>2
    <3> QED
      BY <1>6, <2>2, <3>1
  <2> QED
    BY <1>2, <2>1, <2>2
<1>8. \A i \in 1 .. m : i \in Served
  <2>1. \A i \in 1 .. m : i \in 1 .. threadNumber
    BY <1>1, <1>3
  <2> QED
    BY <1>2, <2>1
<1>9. \A i, j \in 0 .. m : i <= j => divides[i] <= divides[j]
  <2> DEFINE f == [i \in 0 .. m |-> divides[i]]
  <2>1. f \in [0 .. m -> Nat] /\ \A i \in 0 .. m : f[i] = divides[i]
    BY <1>4
  <2>2. \A i \in 1 .. m : f[i - 1] <= f[i]
    <3> TAKE i \in 1 .. m
    <3>1. i - 1 \in 0 .. m /\ i \in 0 .. m
      BY <1>3
    <3> HIDE DEF f
    <3> QED
      BY <1>5, <2>1, <3>1
  <2> HIDE DEF f
  <2> QED
    BY <1>3, <2>1, <2>2, Climbs
<1>10. divides[0] = 0 /\ (size < Accuracy => divides[m] = size)
  BY <1>1 DEF DividedAmong
<1> QED
  BY <1>1, <1>5, <1>7, <1>8, <1>9, <1>10

\* The parts that computeDivideSizes gives the threads are apart and make up every
\* work whose size a float can tell from the next, for every machine, every rate and
\* every number of threads, however the shares are rounded, and whatever the vector
\* of an operator that keeps it held before.
THEOREM DivisionIsWork ==
  DivideSpec => []PartsMakeWork
<1>1. ASSUME DivisionInv, size < Accuracy
      PROVE  /\ UNION {Part(i) : i \in Served} = Work
             /\ \A i, j \in Served : i # j => Part(i) \cap Part(j) = {}
  <2>1. PICK m \in 0 .. threadNumber :
           /\ \A i \in Served : i \in Nat \ {0} /\ (i \in 1 .. m \/ Part(i) = {})
           /\ \A i \in 1 .. m : i \in Served
           /\ \A i \in 1 .. m : /\ divides[i - 1] \in Nat /\ divides[i] \in Nat
                                /\ divides[i - 1] <= divides[i] /\ divides[i] <= size
                                /\ divides[i - 1] = divides[i] => divides[i] = size
           /\ \A i, j \in 0 .. m : i <= j => divides[i] <= divides[j]
           /\ divides[0] = 0 /\ (size < Accuracy => divides[m] = size)
           /\ size \in Nat /\ (size > 0 => m > 0)
    BY <1>1, PartsOf
  <2>2. m \in Nat /\ divides[m] = size
    BY <1>1, <2>1
  <2>3. \A i \in Served : Part(i) = divides[i - 1] .. divides[i] - 1
    BY DEF Part
  <2>4. ASSUME NEW i \in Served, NEW x \in Part(i)
        PROVE  /\ i \in 1 .. m /\ x \in Nat /\ x < size
               /\ divides[i - 1] <= x /\ x < divides[i]
    <3>1. i \in 1 .. m
      BY <2>1, <2>4
    <3>2. x \in divides[i - 1] .. divides[i] - 1
      BY <2>3, <2>4
    <3>3. divides[i - 1] \in Nat /\ divides[i] \in Nat /\ divides[i] <= size
      BY <2>1, <3>1
    <3> QED
      BY <2>1, <3>1, <3>2, <3>3
  <2>5. ASSUME NEW x \in Work
        PROVE  \E i \in Served : x \in Part(i)
    <3>1. x \in Nat /\ x < size
      BY <2>1 DEF Work
    <3> DEFINE B == {i \in Nat : i \in 1 .. m /\ x < divides[i]}
    <3>2. B \in SUBSET Nat /\ m \in B
      <4>1. m > 0
        BY <2>1, <3>1
      <4> QED
        BY <2>2, <3>1, <4>1
    <3>3. PICK i \in B : \A j \in B : i <= j
      <4> HIDE DEF B
      <4> QED
        BY <3>2, LeastNumber
    <3>4. i \in Nat /\ i \in 1 .. m /\ x < divides[i] /\ i \in Served
      BY <2>1
    <3>5. i - 1 \notin B
      <4>1. ~ (i <= i - 1)
        BY <3>4
      <4> HIDE DEF B
      <4> QED
        BY <3>3, <4>1
    <3>6. divides[i - 1] <= x
      <4>1. CASE i = 1
        BY <2>1, <3>1, <4>1
      <4>2. CASE i # 1
        <5>1. i - 1 \in Nat /\ i - 1 \in 1 .. m
          BY <2>2, <3>4, <4>2
        <5>2. ~ (x < divides[i - 1]) /\ divides[i - 1] \in Nat
          BY <2>1, <3>4, <3>5, <5>1
        <5> QED
          BY <3>1, <5>2
      <4> QED
        BY <4>1, <4>2
    <3>7. divides[i - 1] \in Nat /\ divides[i] \in Nat
      BY <2>1, <3>4
    <3>8. x \in divides[i - 1] .. divides[i] - 1
      BY <3>1, <3>4, <3>6, <3>7
    <3> QED
      BY <2>3, <3>4, <3>8
  <2>6. UNION {Part(i) : i \in Served} = Work
    <3>1. \A i \in Served : \A x \in Part(i) : x \in Work
      BY <2>1, <2>4 DEF Work
    <3> QED
      BY <2>5, <3>1, Zenon
  <2>7. ASSUME NEW i \in Served, NEW j \in Served, i < j,
               NEW x \in Part(i), x \in Part(j)
        PROVE  FALSE
    <3>1. i \in 1 .. m /\ j \in 1 .. m /\ x \in Nat /\ x < divides[i] /\ divides[j - 1] <= x
      BY <2>4, <2>7
    <3>2. i \in 0 .. m /\ j - 1 \in 0 .. m /\ i <= j - 1
      BY <2>2, <2>7, <3>1
    <3>3. divides[i] <= divides[j - 1] /\ divides[i] \in Nat /\ divides[j - 1] \in Nat
      BY <2>1, <3>1, <3>2
    <3> QED
      BY <3>1, <3>3
  <2>8. \A i, j \in Served : i # j => Part(i) \cap Part(j) = {}
    <3>1. \A i, j \in Served : i # j => i < j \/ j < i
      BY <2>1
    <3> QED
      BY <2>7, <3>1
  <2> QED
    BY <2>6, <2>8
<1>2. DivisionInv => PartsMakeWork
  BY <1>1 DEF PartsMakeWork
<1> QED
  BY <1>2, AlwaysDivided, PTL

\* The threads with work come first, and there is one when there is work, for every size.
THEOREM WorkComesFirst ==
  DivideSpec => []WorkIsPrefix
<1>1. ASSUME DivisionInv
      PROVE  WorkIsPrefix
  <2>1. PICK m \in 0 .. threadNumber :
           /\ \A i \in Served : i \in Nat \ {0} /\ (i \in 1 .. m \/ Part(i) = {})
           /\ \A i \in 1 .. m : i \in Served
           /\ \A i \in 1 .. m : /\ divides[i - 1] \in Nat /\ divides[i] \in Nat
                                /\ divides[i - 1] <= divides[i] /\ divides[i] <= size
                                /\ divides[i - 1] = divides[i] => divides[i] = size
           /\ \A i, j \in 0 .. m : i <= j => divides[i] <= divides[j]
           /\ divides[0] = 0 /\ (size < Accuracy => divides[m] = size)
           /\ size \in Nat /\ (size > 0 => m > 0)
    BY <1>1, PartsOf
  <2>2. m \in Nat
    BY <1>1, <2>1 DEF DivisionInv, Settings
  <2>3. ASSUME NEW i \in 1 .. m
        PROVE  Part(i) # {} <=> divides[i - 1] < divides[i]
    <3>1. divides[i - 1] \in Nat /\ divides[i] \in Nat
      BY <2>1
    <3>2. Part(i) = divides[i - 1] .. divides[i] - 1
      BY DEF Part
    <3>3. \A a, b \in Nat : a .. b - 1 # {} <=> a < b
      <4> TAKE a, b \in Nat
      <4>1. a < b => a \in a .. b - 1
        OBVIOUS
      <4>2. ~ (a < b) => a .. b - 1 = {}
        OBVIOUS
      <4> QED
        BY <4>1, <4>2
    <3> QED
      BY <3>1, <3>2, <3>3
  <2>4. ASSUME NEW i \in Served, i > 1, Part(i) # {}
        PROVE  Part(i - 1) # {}
    <3>1. i \in 1 .. m /\ i - 1 \in 1 .. m
      <4>1. i \in Nat /\ i \in 1 .. m
        BY <2>1, <2>4
      <4> QED
        BY <2>2, <2>4, <4>1
    <3>2. divides[i - 1] < divides[i] /\ divides[i] <= size /\ divides[i] \in Nat /\ size \in Nat
      BY <2>1, <2>3, <2>4, <3>1
    <3>3. /\ divides[(i - 1) - 1] \in Nat /\ divides[i - 1] \in Nat
          /\ divides[(i - 1) - 1] <= divides[i - 1]
          /\ divides[(i - 1) - 1] = divides[i - 1] => divides[i - 1] = size
      BY <2>1, <3>1
    <3>4. divides[(i - 1) - 1] < divides[i - 1]
      BY <3>2, <3>3
    <3> QED
      BY <2>3, <3>1, <3>4
  <2>5. ASSUME size > 0
        PROVE  Part(1) # {}
    <3>1. 1 \in 1 .. m /\ 1 - 1 = 0
      BY <2>1, <2>2, <2>5
    <3>2. /\ divides[1] \in Nat /\ divides[0] = 0 /\ divides[0] <= divides[1]
          /\ divides[0] = divides[1] => divides[1] = size
      BY <2>1, <3>1
    <3> QED
      BY <2>3, <2>5, <3>1, <3>2
  <2> QED
    BY <2>4, <2>5 DEF WorkIsPrefix
<1> QED
  BY <1>1, AlwaysDivided, PTL

\* Multiples that grow with their number.
LEMMA MultiplesGrow ==
  ASSUME NEW d \in Nat \ {0}, NEW s \in Nat, NEW t \in Nat
  PROVE  /\ d * s \in Nat
         /\ s < t => d * s + d <= d * t
         /\ d * s < d * t => s < t
<1>1. \A n \in Nat : d * n \in Nat
  OBVIOUS
<1>2. \A a, b \in Nat : a < b => d * a + d <= d * b
  <2> TAKE a, b \in Nat
  <2> HAVE a < b
  <2>1. PICK k \in Nat : b = a + 1 + k
    <3>1. b - a - 1 \in Nat /\ b = a + 1 + (b - a - 1)
      OBVIOUS
    <3> QED
      BY <3>1
  <2>2. d * b = d * a + d + d * k
    BY <2>1
  <2> QED
    BY <1>1, <2>2
<1>3. d * s < d * t => s < t
  <2> SUFFICES ASSUME d * s < d * t, ~ (s < t) PROVE FALSE
    OBVIOUS
  <2>1. s = t \/ t < s
    OBVIOUS
  <2>2. d * s \in Nat /\ d * t \in Nat
    BY <1>1
  <2>3. CASE s = t
    BY <2>2, <2>3
  <2>4. CASE t < s
    BY <1>2, <2>2, <2>4
  <2> QED
    BY <2>1, <2>3, <2>4
<1> QED
  BY <1>1, <1>2, <1>3

\* A work of w is cut into n pieces of d, the last one shorter.
Pieces(w, d, n) ==
  /\ w \in Nat /\ d \in Nat \ {0} /\ n \in Nat
  /\ d * n >= w /\ (n > 0 => d * (n - 1) < w)
Piece(w, d, t) == {x \in 0 .. w - 1 : d * t <= x /\ x < d * t + d}

\* A piece is the interval that starts at its multiple of d.
LEMMA PieceIs ==
  ASSUME NEW w, NEW d, NEW n, Pieces(w, d, n), NEW t \in 0 .. n - 1
  PROVE  Piece(w, d, t) = d * t .. d * t + (IF t = n - 1 THEN w - d * t ELSE d) - 1
<1>1. w \in Nat /\ d \in Nat \ {0} /\ n \in Nat \ {0} /\ n - 1 \in Nat /\ t \in Nat /\ t <= n - 1
  BY DEF Pieces
<1>2. d * t \in Nat /\ d * n \in Nat /\ d * (n - 1) \in Nat
  BY <1>1, MultiplesGrow
<1>3. PICK a \in Nat : a = d * t
  BY <1>2
<1>4. CASE t = n - 1
  <2>1. a < w
    BY <1>1, <1>3, <1>4 DEF Pieces
  <2>2. d * n = a + d
    <3>1. d * ((n - 1) + 1) = d * (n - 1) + d
      BY <1>1
    <3> QED
      BY <1>1, <1>3, <1>4, <3>1
  <2>3. w <= a + d
    BY <2>2 DEF Pieces
  <2>4. \A k, e \in Nat : k < w /\ w <= k + e =>
          {x \in 0 .. w - 1 : k <= x /\ x < k + e} = k .. k + (w - k) - 1
    BY <1>1
  <2> QED
    BY <1>1, <1>3, <1>4, <2>1, <2>3, <2>4 DEF Piece
<1>5. CASE t # n - 1
  <2>1. t < n - 1
    BY <1>1, <1>5
  <2>2. a + d <= d * (n - 1)
    BY <1>1, <1>3, <2>1, MultiplesGrow
  <2>3. d * (n - 1) < w
    BY <1>1 DEF Pieces
  <2>4. a + d <= w
    BY <1>1, <1>2, <2>2, <2>3
  <2>5. \A k, e \in Nat : k + e <= w => {x \in 0 .. w - 1 : k <= x /\ x < k + e} = k .. k + e - 1
    BY <1>1
  <2> QED
    BY <1>1, <1>3, <1>5, <2>4, <2>5 DEF Piece
<1> QED
  BY <1>4, <1>5

\* The pieces are apart and make up the work.
LEMMA PiecesMakeWork ==
  ASSUME NEW w, NEW d, NEW n, Pieces(w, d, n)
  PROVE  /\ \A x \in 0 .. w - 1 : \E t \in 0 .. n - 1 : x \in Piece(w, d, t)
         /\ \A s, t \in 0 .. n - 1 : s # t => Piece(w, d, s) \cap Piece(w, d, t) = {}
<1>1. w \in Nat /\ d \in Nat \ {0} /\ n \in Nat
  BY DEF Pieces
<1>2. ASSUME NEW x \in 0 .. w - 1
      PROVE  \E t \in 0 .. n - 1 : x \in Piece(w, d, t)
  <2>1. x \in Nat /\ x < w
    BY <1>1
  <2>2. PICK t \in Nat : t * d <= x /\ x < t * d + d
    BY <1>1, <2>1, DivFacts
  <2>3. t * d = d * t /\ d * t \in Nat /\ d * n \in Nat /\ d * n >= w
    BY <1>1, MultiplesGrow DEF Pieces
  <2>4. d * t < d * n
    BY <1>1, <2>1, <2>2, <2>3
  <2>5. t \in 0 .. n - 1
    <3>1. t < n
      BY <1>1, <2>4, MultiplesGrow
    <3> QED
      BY <1>1, <3>1
  <2> QED
    BY <2>2, <2>3, <2>5 DEF Piece
<1>3. ASSUME NEW s \in 0 .. n - 1, NEW t \in 0 .. n - 1, s < t,
             NEW x, x \in Piece(w, d, s), x \in Piece(w, d, t)
      PROVE  FALSE
  <2>1. s \in Nat /\ t \in Nat
    BY <1>1
  <2>2. d * s \in Nat /\ d * t \in Nat /\ d * s + d <= d * t
    BY <1>1, <1>3, <2>1, MultiplesGrow
  <2>3. x \in Int /\ x < d * s + d /\ d * t <= x
    BY <1>1, <1>3 DEF Piece
  <2> QED
    BY <1>1, <2>2, <2>3
<1>4. \A s, t \in 0 .. n - 1 : s # t => s < t \/ t < s
  BY <1>1
<1> QED
  BY <1>2, <1>3, <1>4

\* What multiThreadDivide schedules on the threads is apart and makes up the work.
THEOREM ScheduleIsWork ==
  DivideSpec => []ScheduleMakesWork
<1>1. ASSUME DivisionInv
      PROVE  ScheduleMakesWork
  <2> DEFINE d == SizeDivide
             n == ScheduleNumber
  <2>1. size \in Nat /\ threadNumber \in Nat \ {0} /\ pack \in Nat \ {0}
    BY <1>1 DEF DivisionInv, Settings, Divided
  <2>2. d \in Nat
    <3>1. size \div threadNumber \in Nat
      BY <2>1, DivFacts
    <3>2. UpDiv(size \div threadNumber, pack) \in Nat
      BY <2>1, <3>1, UpDivFacts
    <3> QED
      BY <2>1, <3>2 DEF SizeDivide
  <2>3. CASE d = 0
    <3>1. n = 1
      BY <2>3 DEF ScheduleNumber
    <3>2. 0 .. n - 1 = {0}
      BY <3>1
    <3>3. Scheduled(0) = 0 .. size - 1
      BY <2>1, <2>3, <3>1 DEF Scheduled
    <3> HIDE DEF d, n
    <3>4. ScheduleNumber = n
      BY DEF n
    <3> QED
      BY <3>2, <3>3, <3>4 DEF ScheduleMakesWork, Work
  <2>4. CASE d # 0
    <3>1. n = UpDiv(size, d) /\ d \in Nat \ {0}
      BY <2>2, <2>4 DEF ScheduleNumber
    <3>2. n \in Nat /\ n * d >= size /\ n * d < size + d
      <4> HIDE DEF d, n
      <4> QED
        BY <2>1, <3>1, UpDivFacts
    <3>3. Pieces(size, d, n)
      <4> HIDE DEF d, n
      <4>1. \A k \in Nat : k * d = d * k /\ k * d \in Nat
        BY <3>1
      <4>2. n > 0 => d * (n - 1) < size
        <5> HAVE n > 0
        <5>1. n - 1 \in Nat /\ (n - 1) * d = n * d - d
          BY <3>1, <3>2
        <5> QED
          BY <2>1, <3>1, <3>2, <4>1, <5>1
      <4> QED
        BY <2>1, <3>1, <3>2, <4>1, <4>2 DEF Pieces
    <3>4. \A t \in 0 .. n - 1 : Scheduled(t) = Piece(size, d, t)
      <4> TAKE t \in 0 .. n - 1
      <4>1. Scheduled(t) = d * t .. d * t + (IF t = n - 1 THEN size - d * t ELSE d) - 1
        BY DEF Scheduled
      <4> HIDE DEF d, n
      <4> QED
        BY <3>3, <4>1, PieceIs
    <3> HIDE DEF d, n
    <3>5. ScheduleNumber = n
      BY DEF n
    <3>6. UNION {Scheduled(t) : t \in 0 .. n - 1} = 0 .. size - 1
      <4>1. \A t \in 0 .. n - 1 : \A x \in Scheduled(t) : x \in 0 .. size - 1
        BY <3>4 DEF Piece
      <4>2. \A x \in 0 .. size - 1 : \E t \in 0 .. n - 1 : x \in Scheduled(t)
        BY <3>3, <3>4, PiecesMakeWork
      <4> QED
        BY <4>1, <4>2, Zenon
    <3>7. \A s, t \in 0 .. n - 1 : s # t => Scheduled(s) \cap Scheduled(t) = {}
      BY <3>3, <3>4, PiecesMakeWork
    <3> QED
      BY <3>5, <3>6, <3>7 DEF ScheduleMakesWork, Work
  <2> QED
    BY <2>3, <2>4
<1> QED
  BY <1>1, AlwaysDivided, PTL
===============================================================================

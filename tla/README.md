# A TLA+ model of MNN_CPU

The repository is the CPU build of the MNN inference engine with an OCR engine and a C API on top
(`MNN.dll`). This directory holds TLA+ modules for the parts whose correctness depends on orders of
events that tests hardly reach, TLC configurations that check them on small instances, and TLAPS
proofs of the main results for every instance. Paths below are relative to `src/` of the repository;
`cpu/` stands for `src/MNN/source/backend/cpu/` and `core/` for `src/MNN/source/core/`.

## 1. The system

| Component | State it keeps | Operations | Interacts through |
|---|---|---|---|
| Thread pool, `cpu/ThreadPool.*` | slots (`mTaskAvailable`, `mTasks`), one atomic flag per slot and worker, `mActiveCount`, `mStop`, mutex and condition variable | `init`, `destroy`, `acquireWorkIndex`, `releaseWorkIndex`, `active`, `deactive`, `enqueue`, the worker loop | shared by all runtimes with the same core mask (`gInstances`) |
| CPU runtime, `cpu/CPUBackend.*` | its pool, `mThreadNumber`, `mCpuMask`, `mTaskIndex`, `mThreadOpen`, `mCurrentTID`, the blocks `mDynamic`, the rates of core groups, the hint `useCachedMmap` | `onConcurrencyBegin/End`, `onReset`, `onCreate`, `onClearBuffer`, `onGabageCollect`, `computeDivideSizes` | called by sessions, modules and executors around every run; calls the pool |
| Dynamic memory planner, `DeferBufferAllocator` in `core/BufferAllocator.*` | line of nodes with sizes, parents and offsets, free list, barrier, total size, applied block | `alloc`, `free`, `barrierBegin/End`, `reset`, `compute`, `apply` | one per backend; blocks (`SingleBufferWithAllocator`) are shared by the backends of a runtime |
| Eager allocator, `EagerBufferAllocator` | used list, free lists, groups, parents with use counts | `alloc`, `free`, `barrier*`, `*Group`, `release`, `sync` | weights and staging memory; may sit on mmap files |
| Mmap allocator, `MmapAllocator` | files by address, file counter, sync marker | `onAlloc`, `onRelease`, `sync` | file system, survives restarts |
| Pipeline, session, interpreter, `core/Pipeline.cpp`, `core/Session.cpp`, `core/Schedule.cpp`, `source/geometry/GeometryComputerUtils.cpp`, `core/Interpreter.cpp` | shapes, commands and executions of operations, what every tensor holds, use counts, groups, the resize cache, `mNeedResize`, `mNeedMalloc`, the lock of a net | `resizeTensor`, `resize` (encode, allocMemory), `openResizeCheck`, `fixResizeCache`, `run` | call backends, runtimes and planners |
| Express: lazy graph and executor, `src/MNN/express/Expr.cpp`, `Executor.cpp`, `Utils.cpp` | operators with `mInfoDirty`, `mValid` and their cache; caches (`ComputeCache`) with `mShapeDirty`, `mContentDirty`, a session and the caches they build on | `getInfo`, `readMap`, `writeMap`, `resize`, `input`, `compute`, `fix`, `replace` | sessions |
| OCR engine and API, `src/MNN/source/ocr/`, `src/test_ocr/MnnOcr.hpp` | `g_engine`, dictionary; in a client `m_dll` and function pointers | `MNN_ocrInit/Destroy/Recognize*`, `MnnOcr::load/init/destroy`, `decode`, `detect`, `crop_region` | modules of Express; the loader of the operating system |
| Worker thread, KV cache, file access, kernels, geometry, shapes, image processing, schema, third-party code | | | see section 8 |

The calls form a stack. A client goes through `MnnOcr` and the C API to `OcrEngine`, which runs
Express modules. These open a section on the runtimes (`onConcurrencyBegin`), resize their session
when shapes change (planner: `reset`, `alloc`/`free`, `compute`), and run it (`apply`, then
operators). Operators hand parallel loops to the pool (`enqueue`).

What is hard about it, and the property that makes each part correct:

* **Pool.** Lock-free handover by flags next to a mutex and a condition variable. No worker may sleep
  or be late in a way that loses an index, touches a task that is gone, or keeps `enqueue` from
  returning. Slots are a limited resource.
* **Runtime.** Sections nest and may fail to get a slot; begin and end must pair up on the right pool.
* **Planner.** Offsets are computed long after the lifetimes they depend on are known, from a
  structure that was split, fused and widened in between. Buffers that live together must be disjoint.
  The block moves under the feet of other sessions.
* **Eager allocator.** Use counts decide when the parts of a block are one again: memory has one holder,
  none is lost, and groups of one barrier share nothing.
* **Mmap allocator and weight cache.** Files outlive a process that is killed. No process may map less
  than it needs, give one file to two blocks, or take weights for written that nobody wrote.
* **Division of work.** Shares are rounded up twice, and there may be more threads than cores: the parts
  must make up the work.
* **Session.** A resize has many steps, each of which may fail or be skipped because nothing changed. What
  `run` accepts must have memory and commands for the sizes of now, and a tensor must hold its memory
  from its writer to its last reader.
* **Lazy graph.** Two kinds of dirty flags, on operators and on caches, are set by writes and resizes and
  cleared by reads, in any order. A read must never give something that is older than the inputs.
* **OCR.** Several owners of one engine and one library; the order of unload and last call.

PROJECT.json lists each hazard with its line and the properties that would catch it.

## 2. Modules

| Module | Models | Relation to others |
|---|---|---|
| `ThreadPool` | `cpu/ThreadPool.cpp` | implements `ParallelFor`; its callers follow `PoolProtocol` |
| `ParallelFor` | what `MNN_CONCURRENCY_BEGIN/END` promise a kernel | abstract specification |
| `PoolProtocol` | the order in which one client uses one slot | abstract interface of pool and runtime |
| `CPURuntime` | sections, pools and reconfiguration of the runtimes, `cpu/CPUBackend.cpp` | implements `PoolProtocol` over all pools |
| `DeferBufferAllocator` | the planner and the shared block | |
| `EagerBufferAllocator` | the allocator of weights and of feature maps without a planner | |
| `MmapAllocator` | `MmapAllocator` and the blocks of feature maps on it, `core/BufferAllocator.cpp` | |
| `WeightCache` | the weights of a runtime on mapped files, across processes | extends `MmapAllocator` |
| `WorkDivision` | `computeDivideSizes`, `multiThreadDivide` | |
| `Session` | `Session::resize` with everything below it, `Pipeline::openResizeCheck`, `fixResizeCache` | the plans are those of `DeferBufferAllocator`, reduced to what has been given back |
| `LazyGraph` | `Expr`, `Variable`, `Executor::_makeCache`, `ComputeCache` | its caches stand for sessions |
| `CtcDecode` | `OcrEngine::decode` and `recognize`, as operators | used by `OcrLifecycle` |
| `OcrLifecycle` | `global_init`, `global_destroy`, `MnnOcr`, `MNN_ocrRecognize` | extends `CtcDecode` |
| `CPURuntime_proof`, `OcrLifecycle_proof`, `Session_proof`, `EagerBufferAllocator_proof`, `DeferBufferAllocator_proof`, `LazyGraph_proof` | theorems | extend the module they are named after; `CPURuntime_proof` also `WorkDivision` |
| `CPUBackend_proof` | theorems | extends `ThreadPool` and `WeightCache` |
| `FoldLemmas` | lemmas on least elements, folds and sums over finite sets | extended by the proofs of the two allocators, of the decoder, of the lazy graph and of `WorkDivision` |
| `MC*` | instances for TLC | extend the module they are named after |

### ThreadPool

One action is one access to shared memory or one step under the mutex.

* A worker `w` has a control point `wpc[w]`: `outer` is `while (!mStop)`, `inner` is
  `while (mActiveCount > 0)`, `scan` tests the flag of slot `wslot[w]`, `fetch` reads
  `mTasks[i].first`, `run` executes its share index by index, `lower` clears the flag, `lock` waits for
  `mQueueMutex`, `sleep` has found the predicate false and still holds the mutex, `blocked` waits on
  `mCondition`. Splitting `lock`, `sleep` and `blocked` is what makes a lost wakeup expressible: a
  notification only reaches workers in `blocked`. Spurious wakeups are an action.
* A session thread `c` goes through `acquireWorkIndex`, `active` (increment, then notification), any
  number of `enqueue` calls, `releaseWorkIndex` and `deactive`, as `onConcurrencyBegin/End` make it. In
  an enqueue it is at `serial`, or at `publish` (writes the task pointer), `raise` (one flag per step),
  `self` (its own share) and `poll` (one flag per step, the round starts again at a raised flag).
* `ran[c][v]` counts the executions of index `v`, a history variable that no guard reads.
* Atomics are sequentially consistent, as `std::atomic` operators are by default. The plain pointer
  `mTasks[index].first` is covered by `PublishUnread`: it is never written while a worker may read it,
  and the flag that follows publishes it.
* The destructor runs when every session is closed. Nothing in the repository calls
  `ThreadPool::destroy`; a call during a session would hang, since the inner loop of a worker does not
  test `mStop`.

### CPURuntime

Several runtimes over pools named by their core mask. `Begin` is `onConcurrencyBegin` up to its next
call into the pool, `Activate` is `active()`, `KeepCores`, `BindCores` and `Bound` are `_bindCPUCore`
with its own `active()` and `deactive()`; `End`, `Release` and `Deactivate` are `onConcurrencyEnd`.
`depth[r]` is a history variable that counts open sections, so a section without a slot is still one.
`Reconfigure` is `onReset` and `onCreate`; `PoolSize` is `ThreadPool::init`, which keeps an existing
pool.

Two assumptions limit it, both recorded as hazards: a runtime is used by one thread at a time, and
it is reconfigured only while no section is open on it.

The pool and the runtime are composed through `PoolProtocol` instead of a product of the two state
spaces: `FollowsProtocol` shows that the callers of `ThreadPool` are at least as restricted as the
protocol, `KeepsProtocol` that the runtimes are, with `free`, `lease` and `stage` read off the state of
each. The extra `active()`/`deactive()` of `_bindCPUCore` is outside the protocol; it only raises the
activation count for a while, which lets workers spin, and `QuietPools` shows it leaves nothing behind.

### DeferBufferAllocator

`plan` is the whole node structure as one record, so that `TakeNode`, `FuseToLeft` and `FreeNode` are
functions from plans to plans and `barrierEnd` is a fold of `FreeNode` over the delayed chunks. A node
is its index in `mChunks`; a node that was fused keeps its parent and its offset in it. `Offsets` is
what `compute` assigns, as a recursive function over parents.

`buffer`, `live`, `retired` and `together` are history: the buffers allocated since the last reset with
their node and wanted size, and the pairs of buffers that may hold data at the same time. Two buffers
are such a pair if one is allocated while the other is live, or while it waits in a barrier.
`PlanDisjoint` is checked in **every** state, with the offsets `compute` would give now, so a
violation shows at the step that causes it and not at the end.

`root` is the shared block. `OthersRealloc` and `OthersRelease` stand for the planners of other
sessions and for `onGabageCollect`; an allocation may fail, and a new block may get an old address.
They are enabled between resizes only, since nothing within a resize reads `root` before `compute`.

Abstracted: sizes are in units of the alignment (every caller uses the default one); among free nodes
of the same size the choice is open (the multiset keeps insertion order). Assumed of the callers:
each chunk is freed once, and between `compute` and the next `reset` there is no `alloc` or `free`.

### EagerBufferAllocator

A node is the sequence of extents from its block down to itself, so its parents are its prefixes, and
nodes that were cut need no state of their own but `useCount`. `TakeGroup`, `TakeFree` and `TakeBlock`
are the three ways through `alloc`; `ReturnMemory` is the loop of `returnMemory`, without a loop: the
parents that merge are those whose use count, and that of every parent below them, is 1. `live` and
`retired` are history: the chunks out with what was asked for them, and those given back in a barrier.

Three facts about the callers limit the model. Barriers with groups are used above the heap
(`Convolution1x1Strassen::onResize`, `CPURaster::onResize`), a least block size only above mapped
files (`CPURuntime::onCreate`); `use` is therefore one kind of allocator or the other, chosen at the
start. Every chunk is freed once, within a barrier by the group that took it. `release(true)` comes when nothing is out. An alignment beyond that of the allocator
is a parameter of the interface.

### MmapAllocator, WeightCache

A step of `MmapAllocator` ends wherever the disk has changed, for a process can be killed there:
`Begin`, `Open` (the file is opened or created), `SetFileSize`, `Map`. `Exit` runs the destructors,
`Kill` does not; `disk` survives both. The system may refuse to open, to enlarge and to map. `mCache` has one entry per address as the map in the code does,
so failed mappings share the one for null. `use` says who the allocator belongs to: the two blocks
`mDynamicMmap` of a runtime, or weights.

In `WeightCache` the buffers are the weights, numbered in the order of loading, one per file. `weight`
follows each from `onAcquireBuffer` to the packing that writes it, `data` says which weight a file
holds. `Pack` and `LoadRaw` contain the early return of the operators' constructors.
`FilesNext` is the behaviour of an allocator of either kind, so that one run covers both.

The code is right under two conditions only, and the properties carry them as history variables, while every
action has the guards of the code and no others. `restarted`: a number of a file went back behind a block that stays,
which `onRelease` does as soon as the block with the higher number is released, and a failed mapping after
one of the lower number. `hasty`: `onClearBuffer`, which every encode begins with, came before all weights of kept
files were loaded and mapped. Section 5 says what happens then.

### WorkDivision

The rates of the groups, as `CPUBackend`'s constructor makes them, are integers over their sum; in the code they are
floats. The float product of `computeDivideSizes` is therefore known up to a relative error of one part in `Accuracy`, and
`Ceilings` has every whole number that `ceilf` may make of it. For the few float operations in question `Accuracy`
is about 2^20. `Resize` is one `onResize` of an operator: most begin with a vector of zeros, the int8 convolution
keeps its own (`kept`) and may ask for equal parts (`light`), on any machine. `reached` is history: how many threads the last
division wrote an entry for, which are those that the properties speak of. `pack` and `multiThreadDivide` need
no action; `ScheduleMakesWork` evaluates them on the size divided last.

### Session

One session with one pipeline on the CPU. An operation has one output and becomes one command; a size
stands for a whole shape. `pc` and `at` are the step of a resize and the operation it is at, so that it
can fail at every place where the code returns an error; `at` runs over the operations once for each of
the three loops: shapes, geometry, executions. `mem` is the `mem` of each tensor, `where` where its host
pointer leads, `room` the size that place was acquired for. Both may be `gone`: a chunk, or an
address, of a plan that `reset` has deleted meanwhile. `index` is the group that `_allocForTensor` works
for, 1 while `fixResizeCache` does. `cache` is `OpResizeCache` of each operation.

A caller can do more than the code supports. `Situations` lists what careful callers and a machine
with memory avoid, and each guard `Careless(...)` is one such rule: sizes are changed so that
exempt operations keep theirs (`untraced sizes`), a check is not opened after a fix (`check again`), a
fix comes before the resize that it is for (`run after a fix`), once (`fix again`), and does not run out
of memory (`no memory for a fix`); a session whose resize failed while tensors held memory is not
resized again (`resize after a failure`). The run `session` has none of them; section 5 says what each does.

### LazyGraph

A graph of leaves (`VARP::INPUT`) and operators. For every input of an operator the graph says
whether its content is needed for the content, or for the shape (`Executor::getRequirement`). A value is the tree of
what it was computed from, so two values are equal when they come from the same leaves through the same
operators. `infoDirty`, `valid`, `info` and `cache` are the fields of each `Expr`, `caches` the `ComputeCache`s that are
referred to, each with its session. The session of a cache is its result (`held`), made from the sizes it had
when the cache was made. `Used` drops the caches nobody refers to any more.

`Resize`, `Input`, `WriteMap`, `Ask` (`getInfo`, `readMap`), `Fix`, `Prepare` (`Variable::compute`) are the calls of an
application, one at a time. Where the code recurses, a call takes one step per operator, and `call` says how far it
has come: `requireInfo` under way (`ask`, with the contents read so far in `got`), its answer (`have`, `failed`),
`informDirty` (`inform`), `compute` of several variables (`compute`). What the recursion has on its stack is a
function of the state: `Asked` are the operators whose `requireInfo` has not returned, because each asks its inputs in
their order. Memory can be short once for a while. `Value` is the reference: the graph computed anew, a recursive
function over the nodes in the order they were created in.

`VARP::fix` makes a constant of an operator whose tensor is a clone, and `Tensor::clone` copies no content: the constant lies in
the memory of the session. `shared` has such pairs of an operator and a cache that is still in use, because the
cache computes another target too. When its session runs again, the constant is `overwritten`, and what another session
of the same run finds there depends on the order (`Contents`, `Constant`).

Three history variables name the uses that the code gets wrong; nothing is cut off, and the properties say which of
them they need absent: `overwritten`; `mixed`, a write to a leaf that reaches an operator by inputs of different need (`OneNeed`);
`hasty`, a `compute` of what a shape depends on (`ForShape`) together with variables that need other
leaves, or an `Input` on a leaf that has a size and no content. Section 5 has an example of each.

### CtcDecode, OcrLifecycle

`Decode` is a fold over the time steps, `Turn` the body of the loop. Scores are 0 or 1, since only
their order matters; `factors` are the classes whose scores are multiplied.
`OcrLifecycle` has one action per method of `MnnOcr`. `references` counts what `LoadLibrary` and
`FreeLibrary` did; `pinned` says that pool threads exist, each of which keeps the library mapped
through the C runtime until it ends, and pool threads never end. A library that cannot be found
leaves everything as it was, so this outcome of `load` is a stuttering step. `Recognize` is a call
between any two of the others: it reaches the engine of that moment, or none. `Spoken` is what CTC reads of a table,
defined apart from the decoder: collapse repeats, then drop blanks.

## 3. Properties and runs

Definitions are preceded by a comment each; this is the overview.

| Run | Instance | Shows |
|---|---|---|
| `pool_safety` | 2 sessions, 3 threads, 2 slots, tasks up to 4 indices; 550 thousand states | `TaskAlive`, `PublishUnread`, `NoSleeperWhileOpen`, `ExactlyOnce` |
| `pool_liveness` | 2 sessions, 3 threads, 1 slot, up to 3 indices; 90 thousand | `SlotExclusive`, `ActiveCountExact`, `FollowsProtocol`, `EnqueueReturns`, `DestroyEnds`, `ParallelForSpec` |
| `runtime_sections` | 2 runtimes, 2 masks, 1 slot each, at most 3 threads, nesting 2; 86 thousand | `QuietPools`, `SlotMeansParallel`, `ThreadsFitPool`, `KeepsProtocol` |
| `planner` | 4 buffers of 1 or 2 units, 2 addresses; 1.9 million | `PlanDisjoint`, `Coalesced`, `RunsInCurrentBlock` |
| `ocr_lifecycle` | 3 objects, 5 classes, dictionary of 2, tables of up to 3 time steps; 64 thousand | `ReferencesBalanced`, `EngineDeleted`, `ReadsCtc`, `ConfidenceOfText` |
| `session` | 3 sessions of 3 or 4 operations, inputs inside and outputs dynamic or inputs outside and outputs static, 2 sizes; 144 thousand | `TensorsReady`, `CommandsAnew`, `HeldWhileResized`, `PlanAllReturned`, `FreesOwnChunks` |
| `lazy_graph` | 4 graphs of 1 or 2 leaves and 2 or 3 operators, 3 and 2 sizes, 2 values; 585 thousand | `AnswersAnew`, `CleanIsFresh`, `DirtIsClosed` |
| `eager_allocator` | 2 blocks; sizes 1 and 6 with 2 groups, or sizes 1, 3, 7, blocks of at least 8, alignments 2 and 4; 170 thousand | `ChunksApart`, `ChunksFit`, `NothingLost`, `AllMerged` |
| `mapped_files` | 3 file numbers; 2 blocks of 1 or 2 units, or 3 weights, files kept or removed; kills and failures; 201 thousand | `OwnFile`, `NoFileLeft`, `WeightsWritten`, `SyncedFilesComplete` |
| `work_division` | 6 machines, up to 8 threads, 4 rates, sizes to 31, accuracy 31; 5.8 thousand | `PartsMakeWork`, `WorkIsPrefix`, `ScheduleMakesWork` |
| `ocr_destroy_twice` | violation | the destructor after `destroy()` calls into an unmapped library |
| `session_retry` | violation of `FreesOwnChunks` | a resize after a failed one frees chunks of a plan that it has reset |

Types are not checked as properties; `TypeOK` is there where a proof starts from it. Definitions marked `seeded fault` are variants of a definition of the
code (a lost guard, a missed reset, an off-by-one); each property is known to fail for one of them.

**Why the bounds suffice.** In the pool the interesting numbers are: as many sessions as slots and
more, tasks smaller than the pool, as large and one larger, so that one thread runs two strides and the
others one, and at least two workers, so that one can be late while another is done; the theorems cover
the rest of the safety properties' instances. `MaxWork`, `MaxDepth`, `MaxBuffers`, `MaxSize`, `MaxSteps`,
`MaxTimes`, `Blocks`, `Sizes`, `OtherSizes` and the like are bounds; each is marked `BOUND` or named
where it is declared. Nesting 2 is one section inside another. Four buffers suffice for a free node with two neighbours that are fused with it, for a fused node of
three or four units that is split twice, and for a node that is split off and then widened.
Two blocks of the eager allocator are enough for chunks in one and in two, sizes of one and of three alignments for nodes cut twice and merged over two levels, and two groups for one that
must not see the other. Three file numbers leave one that is used, one that is being opened and one of
an earlier process. Three weights can be loaded before, at and after a crash.
An accuracy of 31 lets each share be off by one at many sizes, with size 31 the first at which the parts may miss work.
Three time steps hold a character, a blank and the same or another character. Three operations are one that reads
another's output while a third has not, and one behind both; four add a border between parts that a fix
keeps and others. The graphs have a diamond, a shape that depends on a content with operators before and behind it, an operator
that needs only a shape, and one whose inputs differ in need. In each of them a constant is overwritten by a session
that stays. The half of `hasty` that belongs to `compute` matters only with four operators, in the example of section 5.

Deadlock is checked in every run except those of `OcrLifecycle` (every object may be destructed),
`Session` (a failed session may be left alone) and `LazyGraph` (an application may have nothing
left to do).

**Fairness.** `FairSpec` asks for weak fairness of each worker's next step, of each caller's steps
within an enqueue, and of the destructor. The code busy-waits with `std::this_thread::yield` and
otherwise waits for a mutex that every holder gives back in its next steps, so any scheduler that runs
every runnable thread eventually provides it. Nothing is assumed of sessions between their calls: they
may stop for ever, and spurious wakeups need not happen. Other specifications have no fairness, for
their properties are safety.

## 4. Proofs

The theorems hold for every value of the constants that the named `ASSUME`s of the modules allow. Every
proof that a step preserves an invariant has a part for each action and under it one per conjunct that the
action disturbs.

`CPUBackend_proof`, about `ThreadPool`: every finite set of sessions, every number of threads, slots and indices, of which
there is at least one each.

* `TypeCorrect`: `Spec => []TypeOK`.
* `SlotsAreExclusive`, `ActiveCountIsExact`: inductive with `TypeOK` once the invariant says which
  control points hold a slot and which are counted; the count uses the library's facts on the
  cardinality of a set with one element added or removed.
* `NoLostWakeup`: the strengthening relates the sleeper and the count. A worker at `sleep` holds the
  mutex, so no session can pass `active()` meanwhile, and one at `blocked` is released by the
  notification each session gives before it opens. `ActiveCountExact` is needed for the predicate.
* `TasksOutliveWorkers`, `PublishIsUnread`: the strengthening says which flags may be raised at each
  control point of the caller: none before `publish`, exactly those below the loop variable that are not
  yet done at `raise`, and at `poll` none among the flags the current round has passed.
* `IndicesRunOnce`: `Accounted` states for every index how often it ran, from the caller's loop
  variable, the flags still raised and the worker's loop variable. It needs that the strides
  `v = tId, tId + N, ...` of different threads never meet and together reach every index, which the
  lemmas on division with remainder give.
* `CallersFollowProtocol`: the refinement `Spec => FollowsProtocol`. Most steps leave the stages of the
  callers alone (`ProtocolKept`); each of the others is one step of `PoolProtocol` (`StageMoved`).
* `ParallelForKept`: the safety part of the refinement `ParallelForSpec`. A thread that counts an index is a
  `RunIndex`, because `Accounted` after the step leaves the index a count of one (`IndexRuns`); the step that leaves
  `enqueue` is a `Return`, because `Accounted` then has every index run (`SectionReturns`).

`CPURuntime_proof`: every finite set of runtimes, every set of masks, every number of slots and threads and
every depth of nesting.

* `TypeCorrect`, `NothingLeaks` (`QuietPools`), `SlotsAreParallel` (`SlotMeansParallel`),
  `ThreadsAlwaysFit` (`ThreadsFitPool`). The inductive invariant adds to the types what ties fields to the
  history: `Sections` (`mThreadOpen` and the control point from the number of open sections),
  `SlotsOwned` (a slot that is taken has exactly one runtime that remembers it, on its own pool),
  `ActivationsCounted` (the count of a pool is the number of runtimes that have activated it and not yet
  ended, those inside `_bindCPUCore` twice) and `PoolsExist`. `QuietPools` is the case of no section.
* `RuntimesKeepProtocol`: the refinement `Spec => KeepsProtocol`. `SlotsOwned` is needed for the step that
  gives a slot back. Together with `CallersFollowProtocol` the two modules are composed for every size.

`OcrLifecycle_proof`: every finite set of objects; every number of classes, dictionary, number of time steps and
scores that recognition may end with.

* `ReferencesAreBalanced`, `EngineIsDeleted`: inductive with the types and `DestroyKnown`, which says that
  an object with the library has `MNN_ocrDestroy`. Without it `destroy()` could unload the library and leave
  the engine.
* `TextIsCtc` (`ReadsCtc`), `ConfidenceIsOfText` (`ConfidenceOfText`): an answer is decoded from its own
  table (`AnswerDecoded`), and of the fold over the time steps one shows what it has after each of them: the steps
  read so far in their order, of which those the dictionary has make the text. The first step of a run of equal
  classes is the one that is read, whatever blanks lie in between, because the fold keeps the class of the last one
  read (`Fresh`). Without a character that comes again after nothing but blanks these steps are those of CTC
  (`FreshIsSpoken`): the last step with a character before a repeated one would be next to it.

`CPUBackend_proof`, about `WeightCache`: every number of weights, the two blocks of feature maps, every number of
processes, kills and failures, every size. There is no hypothesis beyond the conditions in the properties.

* `FilesAreOwned` (`OwnFile`), `FilesAreRemoved` (`NoFileLeft`): `PendingInv` says that the file being opened
  exists and its block has none yet, `NextIsFree` that the next number is the file of no block, until the numbers have gone
  back behind one (which those of weights never do, `Growing`), `FilesHeld` that every file belongs to a block or
  to the call under way.
* `LoadedIsWritten` (`WeightsWritten`), `SyncIsComplete` (`SyncedFilesComplete`): each needs the other, since a
  packing is left out because of the file of sync, and the file of sync is made because of what was packed.
  `Numbered` ties the number of a weight to that of its file over all processes; `Complete` says that only with the
  file of sync a packing is left out, and that while it is there no new file is made.

`Session_proof`: every graph of operations with one output, every number of them, all sizes and every failure,
for callers as careful as those of the run `session` (`Careful`).

* `ChunksOutlived` (`FreesOwnChunks`): no tensor holds a chunk when its plan is reset. `Chunks` says when tensors
  hold any: while a plan is made, and after a failure within it. A failure while the main plan is made
  may leave some, which is why `session_retry` needs a caller who resizes again after it.
* `PlanReturned` (`PlanAllReturned`): `Counted` says that the use count of a tensor is the number of reads
  that are left, and `Returnable` who will give each chunk back: an input of the session its last reader,
  every other tensor the sweep over the commands of the group at the end. For the latter `Groups` ties the groups of
  commands and tensors, and `Constants` with `Passed` shows that constants never ask for a chunk: what is to be
  folded has been when a plan is made, even where the cache passes it over.

* `TensorsHeld` (`HeldWhileResized`): `HeldInv` says that what a command wrote in this plan and a later one reads
  has memory. Giving it back early would contradict `Counted`: its use count is the number of reads left. That
  holds only if every writer has been resized in the same pass, hence `MadeInv`: an operation the resize
  cache passes over has a command from before, through encodes that failed half way and checks opened after
  them. For tensors of the other plan `Backed` says that a fix gives each an address before it ends, and
  `Addressed` and `Callers` that nothing takes it away.
* `SizesAnew` (`CommandsAnew`): `SizeInv` compares what the session has with the sizes that follow from its inputs.
  Behind the point a resize has reached these are the same (`PassInv`), by the order of the operations: the inputs of each
  are right when it is reached (`InputsRight`), so if the cache passes it over, what it has seen (`SeenInv`) makes its
  output right too. What the cache has seen is never older than the command, through failures and checks
  (`RestInv`), and an exempt operation keeps a command for the sizes of now (`ExemptInv`). `AnewKept` says that
  those sizes depend on nothing but what no operation computes.
* `ReadyToRun` (`TensorsReady`): `RoomInv` follows each tensor to the end of a plan. What commands behind the point reached
  use is acquired for the size it has (`SettledInv`); a new shape takes the memory of the output away (`ClearedInv`), so
  no tensor keeps room for an older one; static outputs keep theirs only for the same size (`StaticInv`), and what a fix
  has given to the backup plan belongs to exempt operations, whose sizes do not change (`BackupInv`).

`DeferBufferAllocator_proof`: every number and size of buffers, with barriers and separate ones anywhere, every
set of addresses, whatever the other planners on the runtime do.

* `Disjointness` (`PlanDisjoint`), `Coalescing` (`Coalesced`), `CurrentBlocks` (`RunsInCurrentBlock`), and `Kinds`
  for the types. While a session is resized there are no offsets, so the invariant `LaidOut` speaks of
  those that `compute` would give now: `Laid` asks for a function `at` from all nodes, those that were fused too, to
  offsets, for which the nodes of the line lie behind each other (`Packed`) and every other node within its
  parent (`Rooted`, with a depth that says parents end somewhere). `OffsetsAre` shows that `compute` assigns `at`.
* A node that is widened moves all that is behind it, so apartness in itself is not kept by a step. What is kept is
  that of two nodes neither gets nearer to the other than it was, in the order of the places of their roots on the line
  (`Spread`), and that gives `Spaced`: buffers that may hold data together lie one behind the other in that order.
  Each operation on the line, to put in a node at its end or by a split, to widen and to fuse, is one lemma about
  `Spread`; alloc, free and the barrier are made of these.
* `Sorted` says that of two neighbours on the line one is in use. In the middle of `free` it holds except at one place
  (`Half`), which the second fuse repairs. `Holds` ties the nodes in use to the buffers not yet given back.
* `barrierEnd` is a fold over the chunks that wait; `BarrierKeeps` is its induction.

`EagerBufferAllocator_proof`: every set of uses (a least size of blocks, or threads with barriers), every alignment,
sizes and addresses.

* `Apartness` (`ChunksApart`), `Fitting` (`ChunksFit`), `Accounting` (`NothingLost`), `Merging` (`AllMerged`), and
  `Typed` for the types. The invariant `Tree` describes the forest of all nodes from its leaves and the nodes that
  were cut: the parts of a node that was cut are two halves, and its use count is the number of those that are not
  free (`TreeCut`); the leaves are apart (`TreeApart`), only the last node of a block may be empty (`TreeEnds`), and the
  sizes of the leaves add up to `mTotalSize` and to the blocks (`TreeSum`). `TreeDepth` says that there is a deepest
  node: for `Merging`, whose two halves are both free and would have been merged.
* `OwnersInv`, `InsideInv` and `KeptInv` tie the chunks to the leaves. Each of taking, cutting and returning a node, with the
  merges that follow from it, is a lemma about `Tree`; `barrierEnd` is a fold of returns. The proof showed two
  facts about callers that the module now states as assumptions (`UsesAssumption`): a least size of blocks is a
  multiple of the alignment, and an allocator has either that or barriers.

`CPURuntime_proof`, about `WorkDivision`: every machine with groups of any sizes, every rate,
number of threads, vector width and size.

* `DivisionIsWork` (`PartsMakeWork`), `WorkComesFirst` (`WorkIsPrefix`): `DivisionInv` says that a division gives the
  first of the threads it reaches work from end to end, each something until nothing is left, and the others nothing; that
  it reaches the size is only claimed for sizes below `Accuracy`. It is inductive with `Rates`: groups have cores,
  rates are positive, and there are no more cores than threads. Three facts carry the proof. The places where
  groups begin are sums of counts, so every thread is of one group (`SomeGroup`, `OneGroup`) and its mark is the one before
  plus the part of its group (`Entries`). The shares, each too small by less than one part in `Accuracy`, add up to
  more than the size less one, so the whole numbers they are rounded up to reach it (`SharesReach`, `RoundedReach`).
  Marks that grow and reach the work stay a division when they are cut off at it (`CutOff`).
* `ScheduleIsWork` (`ScheduleMakesWork`): the pieces are the multiples of one width, cut off at the work
  (`PieceIs`).

`LazyGraph_proof`: every graph of operators with one output, every number of leaves and operators, all sizes and
contents, every order of calls, with memory short for a while. The last two speak of runs that are `Regular`, as
their properties do.

* `WellFormedAlways` has the types and what ties the parts: a known shape has known inputs, an operator that was refused
  has no shape, and a cache that is referred to exists, as do those it was built on.
* `DirtIsAlwaysClosed` (`DirtIsClosed`): why `setInfoDirty` may stop at an operator that is dirty already.
* `CleanIsAlwaysFresh` (`CleanIsFresh`): the invariant `Fresh` says that a shape that counts as known is that of `Value`
  (`ShapesFresh`), and a content that does not count as dirty too (`ContentsFresh`); that a session has the sizes of now and
  finds all it reads in its leaves, its operators or the caches it was built on (`SessionsGood`); and what a call has read or informed so far (`AskFresh`, `HaveFresh`, `InformFresh`). `Value` is the
  only function with its equations (`AnewIs`), hence a node whose leaves did not change keeps its value. `Restarts` is
  what every change has in common: the operators that start anew are closed under use, and all others
  have inputs of the same value. For `writeMap` this needs
  `OneNeed`, hence no `mixed` write: `informDirty` visits an operator once, for one input.
  A constant keeps its value while no session that shares its memory runs (`RunsRegular`).
  What a session computes is `Value` by the least operator for which it is not (`LeastNumber`).
* `AlwaysAnswersAnew` (`AnswersAnew`): an answer is right by `Fresh`; the other half is that null is only answered for a
  reason of now. `Reasoned` gives every operator that is not valid such a reason: an input that is a leaf without size,
  or an operator that is invalid itself, or one whose own shape needs a content while a leaf behind that has none. The first
  invalid operator therefore has such a leaf behind it. `Informed` and `InformFresh` say that writing the leaf reaches what
  fails because of it. This needs that what a shape depends on is computed from the leaves behind it and no others (`LeavesFit`), which
  holds until a call is `hasty`; the
  attempt to prove it without found the joint computation of section 5. `MemoryKept` says that while memory was
  never short no session owes a resize.

`FoldLemmas` has what replaces induction over data. The library's rules take the induction hypothesis as an operator,
which the installed provers cannot use. Instead a fold or a recursive function that would fail has a least number, or a
smallest set, for which it fails (`LeastNumber`, `LeastSet`), and that one is refuted. `FoldExists` and
`SumOverFacts` give the equations that the folds of the community modules satisfy.

Every safety property of the passing runs is stated by a theorem. Only model-checked: liveness (`EnqueueReturns`,
`DestroyEnds`) and the part of `ParallelForSpec` that is its fairness, which the prover does not reach.

## 5. Findings

* `ocr_destroy_twice`. The header's example calls `ocr.destroy()` on a scoped object. The destructor calls
  `destroy()` again, and `m_destroy` was not cleared. With pool threads the library is still mapped and
  the second call does nothing; with one thread, or without `init`, it is unmapped.
* `session_retry`. A resize that runs out of memory leaves chunks of its plan in the tensors. The next
  one resets the plan, which deletes the nodes these chunks point to, and then sets `mem` to null: the
  chunks are freed into nodes that are gone. `BufferAllocator.hpp:141` asks for a chunk of the allocator.

Seen while modelling, without a run of their own. About memory and files:

* `core/BufferAllocator.cpp:140`: `MmapAllocator::onRelease` starts its numbering again while other files are
  mapped, and `CPURuntime::onCreate` puts two blocks of feature maps on one allocator (`cpu/CPUBackend.cpp:277`). When the
  one with the higher number grows, it is given the name of the other's file and finds it on the disk: both blocks
  lie on one file. `OwnFile` without `restarted` is violated by the second block growing from 1 unit while
  the first has 2.
* `core/BufferAllocator.cpp:245`: the assertion `allocSize > size` fails for sizes that round up to the
  least size of a block. A build without assertions keeps a free node of size 0; `eager_allocator` has
  such sizes and shows that it disturbs nothing else.
* `core/BufferAllocator.cpp:112`: a process killed between creating a file and setting its size leaves an
  empty one. The next process maps it without a look at its size, against the warning at
  `core/MNNFileUtils.h:174`; `MNNMmapFile` refuses, and `mapped_files` shows that no block ends up on it.
* `cpu/CPUBackend.cpp:758`: `onClearBuffer` marks the weights as written even if none, or not all, were
  loaded, and `Pipeline::encode` calls it before it makes the executions that load theirs (`core/Pipeline.cpp:228`). The
  next `onCreate` raises the hint, and operators then leave out weights that live on the heap. A later process finds
  the marker, makes the missing files and packs nothing into them. Without `hasty` TLC shows both
  `WeightsWritten` and `SyncedFilesComplete` violated.
* The same with a mapping that fails while weights are loaded: that file has its size but no weight when `sync` leaves the
  marker, so one process later the weight counts as packed. Both properties are violated without that part of `hasty`.
  It goes well if all weights are loaded and mapped before the first encode, as `StaticModule` does with `rearrange`.
* `core/BufferAllocator.cpp:452`: after a failed allocation the block of a `SingleBufferWithAllocator` is
  null and its size is still the old one.
* The comment at `src/MNN/include/MNN/Interpreter.hpp:247` gives the size of mapped files in KB,
  `CPURuntime::onCreate` takes the hint in units of 1024 * 1024.

About the session; each is a member of `Situations`, and a run with it shows a property of `session` violated:

* `untraced sizes`: a fix exempts operations whose sizes did not change while the check was open. If a later
  resize changes them, they keep the commands and the memory for the old ones.
* `check again`: tensors that a fix has given memory keep it in group 1, for the sizes of that time.
* `no memory for a fix`: `fixResizeCache` does not look at the result of `_allocForTensor(1, true)`.
* `run after a fix`: the fix releases the main plan, so a run before the next resize reads memory that is gone.
* `fix again`: the second call takes the exemption back while the tensors stay in group 1.
* An open check and an encode that fails: the retry takes commands of the failed one for unchanged.
* `src/MNN/express/module/StaticModule.cpp:505`: `_resize` that runs out of memory keeps the host pointer of
  the caller's tensor in an input.

About expressions. The first two make a run other than `Regular`: without either part of it TLC shows `AnswersAnew` and
`CleanIsFresh` violated. The next two make a call `hasty`, and `AnswersAnew` is violated without their parts of it. What
the rest say is how the model behaves, or has no action:

* `src/MNN/express/Expr.cpp:96`: `VARP::fix` makes its constant by `Tensor::clone`, which takes no notice of `deepCopy`
  and shares `mem` and `host` with the tensor of the session (`core/Tensor.cpp:117`). Usually nothing runs that
  session again. But if `Variable::compute` made it for another target too, it stays for that one; after a
  write or a resize of an input it computes the fixed operator with the other, and the constant has the new content. What
  uses the constant keeps a result of the old one, and gives another when it is computed again. Example: leaf 1,
  operators 2 and 3 of it; `compute({2, 3})`, `fix(2)`, a write to 1, `readMap(3)`.
* `informDirty` visits an operator once, for the first input it is reached by. If that one needs only the
  shape and another the content, the cache behind keeps an old result.
* `Variable::input` with another size on a leaf that has a size and no content leaves an operator behind it
  invalid, if its shape depends on a content that cannot be computed at that moment.
* `Variable::compute` of several variables makes one session for them, and `ComputeCache::compute`
  (`express/Utils.cpp:241`) stops if any leaf of it has no content. An operator whose shape depends on one of them
  then fails, and what asked for it gets `mValid = false` because of a leaf it does not use. Writing that leaf informs only what uses
  it, so these variables stay null for good although every input is there (`express/Expr.cpp:310`). Example (outside of the graphs of the run, which have fewer operators): leaves
  1 and 2, operators 3 of 2, 4 of 1 with its shape from the content of 3, 5 of 4 and 6 of 1; 1 has a size and
  no content, 2 a content; `compute({3, 6})`, `getInfo(5)`, then `writeMap(1)`: `getInfo(5)` fails for ever. It
  was met in the proof of `AlwaysAnswersAnew`.
* `Variable::input` from a variable that cannot be computed replaces the leaf without informing anyone.
* `Executor::_makeCache` and `prepareCompute` ignore that `requireInfo` failed; one leaf without content makes
  every variable that is computed together with others unreadable.
* `ComputeCache::resizeImpl` ignores that `Session::resize` failed. The model shows that the following
  compute refuses, until a shape changes.

About the rest:

* `README.md:125` describes the decoder as CTC with a blank. `decode` keeps `last_idx` across blanks
  (`src/MNN/source/ocr/MNN_OcrEngine.cpp:236`), so a doubled character, which a CTC model marks by a blank in
  between, is read once. `ReadsCtc` without `AgainAfterBlank` is violated by the table of a character, a blank and the
  same character.
* `cpu/CPUBackend.cpp:67`: `computeDivideSizes` leaves the entries of threads beyond the cores alone, and the
  int8 convolution, which keeps its vector between resizes, runs all threads. After an equal division of a larger size the
  last parts reach beyond the work; with all threads in place of `Served` TLC shows `PartsMakeWork` violated.
* `cpu/CPUBackend.cpp:70`: `ceilf` of a float product may be one short of the share, and large sizes are no floats. With
  groups of 4 and 2 cores, six threads, rate 50 and size 16777217 the last index belongs to no thread. The model shows
  this at the size `Accuracy`: `PartsMakeWork` without `size < Accuracy` is violated by size 31 in the run.
* `src/MNN/source/ocr/MNN_OcrEngine.cpp:479`: `crop_region` rounds after scaling, which for a region enlarged
  twice or more is one beyond its last row or column. `recognize` comes there by `classify` (line 414), if there is
  a classification model, with the whole image as its region.

## 6. Plan

Done, in this order: the pool, runtime, planner, decoder and life of the OCR engine with the proofs of the
pool; the eager allocator, mapped files with crashes and restarts, and the division of work; the session with
failures half way and the resize cache; the lazy graph against recomputation of everything; the proofs of
the runtime, of both sides of the protocol, of the OCR engine, of the mapped files and of the session's memory;
the proofs of the planner, of the eager allocator, of the decoder, of the session's sizes and of the division of work;
the lazy graph, one step per operator, and its proofs.

Left, most useful first:

1. The eager allocator above mapped files as one composition, with several weights per file.
2. A session whose outputs share their content, and several pipelines on one runtime.
3. The executor's runtimes, for sections that are open while a runtime is reconfigured.
4. `KVCacheManager` and `WorkerThread`, once anything in this build uses them.

## 7. Running it

`tlc -workers 2 -config MCThreadPool.cfg MCThreadPool` and alike for each pair in PROJECT.json;
`tlapm CPUBackend_proof.tla` and alike for each module of section 2 with theorems or lemmas. The longest run takes two
to three minutes on two cores, each proof some minutes.

## 8. Not modelled

Kernels, geometry, shape inference and image processing are functions without shared state, floating
point for the most part. Schema and third-party code are generated or vendored, and they are the larger part
of the lines. `WorkerThread` is never instantiated. The KV cache belongs to language models, which this
build's OCR does not load. File access is pure input and output. Within the modelled components:

* CPU runtime: creators, copies and `_validateCpuIds` in `CPUBackend.cpp`; a runtime used by two threads; the copy of
  `mThreadNumber` in each backend (`cpu/CPUBackend.cpp:457`), by which kernels divide their work: `ThreadsFitPool` is about
  the number of the runtime, and a backend made before a reconfiguration keeps the older one.
* OCR client: `ocr_destroy_twice` has the destructor after `destroy()`; the destructor after a failed load
  reaches the same call and is in the run `ocr_lifecycle` only.
* Session: outputs that share their content (`mUsageCount` beyond the readers), quantisation and the
  propagation of constants, wraps and copies between backends, tuning, inputs that may be released, models
  without geometry; `mNeedMalloc`, which does nothing on the CPU beyond the plan; several pipelines.
* Express: `Variable::input(nullptr)`, `replace` with another number of outputs, operators with several
  outputs, the modes of lazy evaluation other than the default, `writeScaleMap`, optimizers.
* OCR: detection in `MNN_OcrEngine.cpp`, which `recognize` does not call at present, and classification and
  cropping, which it does through `recognize_text`. They are arithmetic on images, so recognition may end with
  any table of scores in the model. Concurrent calls of the C API, for the API makes no promise about them.

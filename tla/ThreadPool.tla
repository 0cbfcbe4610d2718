------------------------------ MODULE ThreadPool ------------------------------
(***************************************************************************)
(* source/backend/cpu/ThreadPool.cpp: one pool of N threads.  Thread 0 of  *)
(* a task is the thread that calls enqueue; the pool owns workers 1..N-1.  *)
(* A caller owns a slot of mTasks between acquireWorkIndex and             *)
(* releaseWorkIndex, hands work over by raising one atomic flag for each   *)
(* worker, and spins until all of them are lowered again.  Workers spin    *)
(* while mActiveCount > 0 and sleep on mCondition otherwise.               *)
(***************************************************************************)
EXTENDS Integers, FiniteSets

CONSTANTS Callers,      \* the threads that run a session on this pool
          N,            \* mNumberThread
          MaxTasks,     \* MNN_THREAD_POOL_MAX_TASKS
          MaxWork       \* BOUND: largest task.second

ASSUME CallersAssumption == IsFiniteSet(Callers)
ASSUME NAssumption == N \in Nat \ {0}
ASSUME MaxTasksAssumption == MaxTasks \in Nat \ {0}
ASSUME MaxWorkAssumption == MaxWork \in Nat

Workers == 1 .. N - 1
Slots == 0 .. MaxTasks - 1
NoSlot == -1
Indices == 0 .. MaxWork - 1
Free == 0                              \* mQueueMutex when no worker holds it
NoTask == "null"

VARIABLES
  available,    \* the slots whose mTaskAvailable is true
  task,         \* mTasks[s].first, named by the caller whose task it is
  raised,       \* the workers whose atomic flag in mTasks[s].second is true
  activeCount,  \* mActiveCount
  mutex,        \* mQueueMutex: callers hold it for a single step only
  wpc, wslot,   \* a worker's control point, and the slot its scan has reached
  wtask, wv,    \* the task it runs and the next index it runs of it
  cpc, idx,     \* a caller's control point and its slot, the mTaskIndex
  size, cv,     \* task.second and the loop variable of its enqueue
  ran,          \* ran[c][v]: how often index v of the current task of c ran
  dpc           \* the control point of ~ThreadPool, which is past mStop = true
                \* unless it is "live"

pool == <<available, task, raised, activeCount, mutex>>
workerVars == <<wpc, wslot, wtask, wv>>
callerVars == <<cpc, idx, size, cv>>
vars == <<pool, workerVars, callerVars, ran, dpc>>

mStop == dpc # "live"

NothingRan == [v \in Indices |-> 0]

Init ==
  /\ available = Slots
  /\ task = [s \in Slots |-> NoTask]
  /\ raised = [s \in Slots |-> {}]
  /\ activeCount = 0
  /\ mutex = Free
  /\ wpc = [w \in Workers |-> "outer"]
  /\ wslot = [w \in Workers |-> 0]
  /\ wtask = [w \in Workers |-> NoTask]
  /\ wv = [w \in Workers |-> 0]
  /\ cpc = [c \in Callers |-> "idle"]
  /\ idx = [c \in Callers |-> NoSlot]
  /\ size = [c \in Callers |-> 0]
  /\ cv = [c \in Callers |-> 0]
  /\ ran = [c \in Callers |-> NothingRan]
  /\ dpc = "live"

WGoto(w, from, to) == wpc[w] = from /\ wpc' = [wpc EXCEPT ![w] = to]
CGoto(c, from, to) == cpc[c] = from /\ cpc' = [cpc EXCEPT ![c] = to]

\* How many threads a task of c is spread over: workSize after the wrapping.
ShareOffByOne(c) == IF size[c] >= N THEN N - 1 ELSE size[c]      \* seeded fault
Share(c) == IF size[c] > N THEN N ELSE size[c]

NotifyOne ==                                                     \* seeded fault
  IF \A w \in Workers : wpc[w] # "blocked"
  THEN UNCHANGED wpc
  ELSE \E w \in Workers : wpc[w] = "blocked" /\ wpc' = [wpc EXCEPT ![w] = "lock"]

\* mCondition.notify_all(): every sleeper goes back for the mutex.
NotifyAll ==
  wpc' = [w \in Workers |-> IF wpc[w] = "blocked" THEN "lock" ELSE wpc[w]]

------------------------------------------------------------------------------
(* The loop of worker w.                                                    *)

TestStop(w) ==                                   \* while (!mStop)
  /\ WGoto(w, "outer", IF mStop THEN "exited" ELSE "inner")
  /\ UNCHANGED <<pool, wslot, wtask, wv, callerVars, ran, dpc>>

TestActive(w) ==                                 \* while (mActiveCount > 0)
  /\ WGoto(w, "inner", IF activeCount > 0 THEN "scan" ELSE "lock")
  /\ wslot' = [wslot EXCEPT ![w] = 0]
  /\ UNCHANGED <<pool, wtask, wv, callerVars, ran, dpc>>

\* One flag of the scan; after the last slot the worker yields and re-tests.
Scan(w) ==
  /\ wpc[w] = "scan"
  /\ \/ /\ wslot[w] = MaxTasks
        /\ WGoto(w, "scan", "inner")
        /\ UNCHANGED wslot
     \/ /\ wslot[w] < MaxTasks
        /\ w \in raised[wslot[w]]
        /\ WGoto(w, "scan", "fetch")
        /\ UNCHANGED wslot
     \/ /\ wslot[w] < MaxTasks
        /\ w \notin raised[wslot[w]]
        /\ wslot' = [wslot EXCEPT ![w] = @ + 1]
        /\ UNCHANGED wpc
  /\ UNCHANGED <<pool, wtask, wv, callerVars, ran, dpc>>

Fetch(w) ==                                      \* reads mTasks[i].first
  /\ WGoto(w, "fetch", "run")
  /\ wtask' = [wtask EXCEPT ![w] = task[wslot[w]]]
  /\ wv' = [wv EXCEPT ![w] = w]
  /\ UNCHANGED <<pool, wslot, callerVars, ran, dpc>>

\* One index of the worker's share v = tId, tId + N, ... < workSize; a task
\* no larger than the pool gives it the single index tId.
WorkerRun(w) ==
  /\ wpc[w] = "run"
  /\ wtask[w] # NoTask
  /\ LET c == wtask[w] IN
       IF wv[w] < size[c]
       THEN /\ ran' = [ran EXCEPT ![c][wv[w]] = @ + 1]
            /\ wv' = [wv EXCEPT ![w] = @ + N]
            /\ UNCHANGED wpc
       ELSE /\ WGoto(w, "run", "lower")
            /\ UNCHANGED <<ran, wv>>
  /\ UNCHANGED <<pool, wslot, wtask, callerVars, dpc>>

Lower(w) ==                                      \* *mTasks[i].second[tId] = false
  /\ WGoto(w, "lower", "scan")
  /\ raised' = [raised EXCEPT ![wslot[w]] = @ \ {w}]
  /\ wslot' = [wslot EXCEPT ![w] = @ + 1]
  /\ wtask' = [wtask EXCEPT ![w] = NoTask]
  /\ wv' = [wv EXCEPT ![w] = 0]
  /\ UNCHANGED <<available, task, activeCount, mutex, callerVars, ran, dpc>>

AwakeIgnoresStop == activeCount > 0                              \* seeded fault

\* The predicate of mCondition.wait.
Awake == mStop \/ activeCount > 0

\* unique_lock _l(mQueueMutex) and the predicate under it; the mutex stays
\* taken until the worker is asleep.
Wait(w) ==
  /\ mutex = Free
  /\ WGoto(w, "lock", IF Awake THEN "outer" ELSE "sleep")
  /\ mutex' = IF Awake THEN Free ELSE w
  /\ UNCHANGED <<available, task, raised, activeCount,
                 wslot, wtask, wv, callerVars, ran, dpc>>

Sleep(w) ==
  /\ WGoto(w, "sleep", "blocked")
  /\ mutex' = Free
  /\ UNCHANGED <<available, task, raised, activeCount,
                 wslot, wtask, wv, callerVars, ran, dpc>>

SpuriousWakeup(w) ==
  /\ WGoto(w, "blocked", "lock")
  /\ UNCHANGED <<pool, wslot, wtask, wv, callerVars, ran, dpc>>

------------------------------------------------------------------------------
(* A session thread c, as CPURuntime::onConcurrencyBegin and onConcurrencyEnd *)
(* make it use the pool.                                                    *)

TakeWrongIndex(c, s) ==                                          \* seeded fault
  available' = available \ {s} /\ idx' = [idx EXCEPT ![c] = s + 1]

TakeUnmarked(c, s) ==                                            \* seeded fault
  UNCHANGED available /\ idx' = [idx EXCEPT ![c] = s]

Take(c, s) ==
  available' = available \ {s} /\ idx' = [idx EXCEPT ![c] = s]

AcquireWorkIndex(c) ==
  /\ cpc[c] = "idle"
  /\ dpc = "live"
  /\ mutex = Free
  /\ \/ \E s \in Slots :
          /\ s \in available
          /\ \A t \in available : s <= t
          /\ Take(c, s)
          /\ CGoto(c, "idle", "activate")
     \/ /\ available = {}
        /\ CGoto(c, "idle", "open")
        /\ UNCHANGED <<available, idx>>
  /\ UNCHANGED <<task, raised, activeCount, mutex, workerVars, size, cv, ran, dpc>>

ActiveUnlocked(c) ==                                             \* seeded fault
  /\ CGoto(c, "activate", "notify")
  /\ activeCount' = activeCount + 1
  /\ UNCHANGED <<available, task, raised, mutex,
                 workerVars, idx, size, cv, ran, dpc>>

Active(c) ==
  /\ mutex = Free
  /\ CGoto(c, "activate", "notify")
  /\ activeCount' = activeCount + 1
  /\ UNCHANGED <<available, task, raised, mutex,
                 workerVars, idx, size, cv, ran, dpc>>

ActiveNotify(c) ==
  /\ CGoto(c, "notify", "open")
  /\ NotifyAll
  /\ UNCHANGED <<pool, wslot, wtask, wv, idx, size, cv, ran, dpc>>

\* enqueue(task, index) with task.second = k, and the test of mActiveCount
\* that enqueueInternal starts with.
Enqueue(c, k) ==
  /\ CGoto(c, "open", IF k <= 1 \/ idx[c] < 0 \/ activeCount = 0
                      THEN "serial" ELSE "publish")
  /\ size' = [size EXCEPT ![c] = k]
  /\ cv' = [cv EXCEPT ![c] = 0]
  /\ ran' = [ran EXCEPT ![c] = NothingRan]
  /\ UNCHANGED <<pool, workerVars, idx, dpc>>

\* The caller runs indices itself: all of them when it runs serially, its
\* own share, as thread 0, when it has published the task.
RunOwn(c, from, stride, to) ==
  /\ cpc[c] = from
  /\ IF cv[c] < size[c]
     THEN /\ ran' = [ran EXCEPT ![c][cv[c]] = @ + 1]
          /\ cv' = [cv EXCEPT ![c] = @ + stride]
          /\ UNCHANGED cpc
     ELSE /\ CGoto(c, from, to)
          /\ cv' = [cv EXCEPT ![c] = 1]
          /\ UNCHANGED ran
  /\ UNCHANGED <<pool, workerVars, idx, size, dpc>>

RunSerial(c) == RunOwn(c, "serial", 1, "open")
RunSelfAll(c) == RunOwn(c, "self", 1, "poll")                    \* seeded fault
RunSelf(c) == RunOwn(c, "self", N, "poll")

Publish(c) ==                                    \* mTasks[index].first = ...
  /\ CGoto(c, "publish", "raise")
  /\ task' = [task EXCEPT ![idx[c]] = c]
  /\ cv' = [cv EXCEPT ![c] = 1]
  /\ UNCHANGED <<available, raised, activeCount, mutex,
                 workerVars, idx, size, ran, dpc>>

Raise(c) ==                                      \* *mTasks[index].second[i] = true
  /\ cpc[c] = "raise"
  /\ IF cv[c] < Share(c)
     THEN /\ raised' = [raised EXCEPT ![idx[c]] = @ \cup {cv[c]}]
          /\ cv' = [cv EXCEPT ![c] = @ + 1]
          /\ UNCHANGED cpc
     ELSE /\ CGoto(c, "raise", "self")
          /\ cv' = [cv EXCEPT ![c] = 0]
          /\ UNCHANGED raised
  /\ UNCHANGED <<available, task, activeCount, mutex,
                 workerVars, idx, size, ran, dpc>>

PolledNoRestart(c) == cv[c] + 1                                  \* seeded fault
PolledSkips(c) == IF cv[c] \in raised[idx[c]] THEN 1 ELSE cv[c] + 2   \* seeded fault
Polled(c) == IF cv[c] \in raised[idx[c]] THEN 1 ELSE cv[c] + 1

\* do { ... } while (!complete): a raised flag restarts the round, a round
\* without one deletes the wrapper, if any, and returns.
Poll(c) ==
  /\ cpc[c] = "poll"
  /\ IF cv[c] < Share(c)
     THEN /\ cv' = [cv EXCEPT ![c] = Polled(c)]
          /\ UNCHANGED cpc
     ELSE /\ CGoto(c, "poll", "open")
          /\ UNCHANGED cv
  /\ UNCHANGED <<pool, workerVars, idx, size, ran, dpc>>

DeactiveAlways(c) == "deactivate"                                \* seeded fault
AfterRelease(c) == IF idx[c] = NoSlot THEN "idle" ELSE "deactivate"

ReleaseWorkIndex(c) ==
  /\ CGoto(c, "open", AfterRelease(c))
  /\ IF idx[c] = NoSlot
     THEN UNCHANGED available
     ELSE mutex = Free /\ available' = available \cup {idx[c]}
  /\ size' = [size EXCEPT ![c] = 0]
  /\ cv' = [cv EXCEPT ![c] = 0]
  /\ ran' = [ran EXCEPT ![c] = NothingRan]
  /\ UNCHANGED <<task, raised, activeCount, mutex, workerVars, idx, dpc>>

Deactive(c) ==                                   \* without the mutex
  /\ CGoto(c, "deactivate", "idle")
  /\ activeCount' = activeCount - 1
  /\ idx' = [idx EXCEPT ![c] = NoSlot]
  /\ UNCHANGED <<available, task, raised, mutex, workerVars, size, cv, ran, dpc>>

------------------------------------------------------------------------------
(* ~ThreadPool.  The pool is destroyed when no session uses it: destroy()    *)
(* leaves that to its caller.                                               *)

Stop ==
  /\ dpc = "live"
  /\ \A c \in Callers : cpc[c] = "idle"
  /\ mutex = Free
  /\ dpc' = "notify"
  /\ UNCHANGED <<available, task, raised, activeCount, mutex, workerVars, callerVars, ran>>

StopNotify ==
  /\ dpc = "notify"
  /\ NotifyAll
  /\ dpc' = "join"
  /\ UNCHANGED <<pool, wslot, wtask, wv, callerVars, ran>>

Join ==
  /\ dpc = "join"
  /\ \A w \in Workers : wpc[w] = "exited"
  /\ dpc' = "gone"
  /\ UNCHANGED <<pool, workerVars, callerVars, ran>>

Destroyed == dpc = "gone" /\ UNCHANGED vars

------------------------------------------------------------------------------
WorkerStep(w) ==
  \/ TestStop(w) \/ TestActive(w) \/ Scan(w) \/ Fetch(w)
  \/ WorkerRun(w) \/ Lower(w) \/ Wait(w) \/ Sleep(w)

InEnqueue(c) ==
  \/ RunSerial(c) \/ Publish(c) \/ Raise(c) \/ RunSelf(c) \/ Poll(c)

CallerStep(c) ==
  \/ AcquireWorkIndex(c) \/ Active(c) \/ ActiveNotify(c)
  \/ \E k \in 0 .. MaxWork : Enqueue(c, k)
  \/ InEnqueue(c)
  \/ ReleaseWorkIndex(c) \/ Deactive(c)

Next ==
  \/ \E w \in Workers : WorkerStep(w) \/ SpuriousWakeup(w)
  \/ \E c \in Callers : CallerStep(c)
  \/ Stop \/ StopNotify \/ Join \/ Destroyed

Spec == Init /\ [][Next]_vars
Fairness ==
  /\ \A w \in Workers : WF_vars(WorkerStep(w))
  /\ \A c \in Callers : WF_vars(InEnqueue(c))
  /\ WF_vars(StopNotify \/ Join)

FairSpec == Spec /\ Fairness

------------------------------------------------------------------------------
InSection(c) == cpc[c] \in {"serial", "publish", "raise", "self", "poll"}
Holds(c, s) == idx[c] = s /\ cpc[c] # "deactivate"
Counted(c) == idx[c] # NoSlot /\ cpc[c] \notin {"idle", "activate"}

WorkerPoints == {"outer", "inner", "scan", "fetch", "run", "lower",
                 "lock", "sleep", "blocked", "exited"}
CallerPoints == {"idle", "activate", "notify", "open", "serial",
                 "publish", "raise", "self", "poll", "deactivate"}

\* Every variable keeps the type its C++ declaration gives it.
TypeOK ==
  /\ available \subseteq Slots
  /\ task \in [Slots -> Callers \cup {NoTask}]
  /\ raised \in [Slots -> SUBSET Workers]
  /\ activeCount \in Int
  /\ mutex \in Workers \cup {Free}
  /\ wpc \in [Workers -> WorkerPoints]
  /\ wslot \in [Workers -> 0 .. MaxTasks]
  /\ wtask \in [Workers -> Callers \cup {NoTask}]
  /\ wv \in [Workers -> Nat]
  /\ cpc \in [Callers -> CallerPoints]
  /\ idx \in [Callers -> Slots \cup {NoSlot}]
  /\ size \in [Callers -> 0 .. MaxWork]
  /\ cv \in [Callers -> Nat]
  /\ ran \in [Callers -> [Indices -> Nat]]
  /\ dpc \in {"live", "notify", "join", "gone"}

\* acquireWorkIndex never gives a slot that a session still has: two sessions
\* on one slot would overwrite each other's task.
SlotExclusive ==
  \A c \in Callers, s \in Slots :
    Holds(c, s) => /\ s \notin available
                   /\ \A d \in Callers : Holds(d, s) => d = c

\* mActiveCount counts the sessions between active() and deactive().
ActiveCountExact == activeCount = Cardinality({c \in Callers : Counted(c)})

\* A worker between reading mTasks[i].first and lowering its flag works on a
\* task whose enqueue has not returned: neither the wrapper that enqueue
\* deletes nor the caller's stack frame is used after it is gone.
TaskAlive ==
  \A w \in Workers : wpc[w] \in {"fetch", "run", "lower"} =>
    /\ wslot[w] \in Slots
    /\ w \in raised[wslot[w]]
    /\ \E c \in Callers : /\ task[wslot[w]] = c /\ idx[c] = wslot[w]
                          /\ cpc[c] \in {"raise", "self", "poll"}
                          /\ wpc[w] \in {"run", "lower"} => wtask[w] = c

\* mTasks[index].first is not atomic: when a caller is about to write it, no
\* worker has a flag of that slot, so none reads it.
PublishUnread ==
  \A c \in Callers : cpc[c] = "publish" => raised[idx[c]] = {}

\* No lost wakeup: once active() has notified, and until deactive(), no worker
\* sleeps on mCondition, so every flag the session raises is seen.
NoSleeperWhileOpen ==
  \A c \in Callers : Counted(c) /\ cpc[c] # "notify" =>
    \A w \in Workers : wpc[w] # "blocked"

\* When enqueue returns every index of the task has run once, whether the
\* work was shared, wrapped because it exceeds the pool, or run serially.
ExactlyOnce ==
  \A c \in Callers : cpc[c] = "open" =>
    \A v \in Indices : ran[c][v] = IF v < size[c] THEN 1 ELSE 0

\* enqueue returns: no flag stays raised because its worker sleeps or spins.
EnqueueReturns == \A c \in Callers : InSection(c) ~> cpc[c] = "open"

\* ~ThreadPool joins every worker, also the ones asleep or about to sleep.
DestroyEnds == dpc = "notify" ~> dpc = "gone"

\* The callers of this module use the pool in the order of PoolProtocol, the
\* order that CPURuntime is shown to keep.
Stage(c) ==
  CASE idx[c] = NoSlot -> "out"
    [] idx[c] # NoSlot /\ cpc[c] = "activate" -> "taken"
    [] idx[c] # NoSlot /\ cpc[c] = "deactivate" -> "released"
    [] OTHER -> "active"
Protocol == INSTANCE PoolProtocol
            WITH Clients <- Callers, free <- available, lease <- idx,
                 stage <- [c \in Callers |-> Stage(c)]
FollowsProtocol == Protocol!Spec

\* The promise of a parallel section, with the pool hidden.
PF == INSTANCE ParallelFor WITH calling <- {c \in Callers : InSection(c)}
ParallelForSpec == PF!Spec
==============================================================================

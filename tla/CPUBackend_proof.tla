---------------------------- MODULE CPUBackend_proof ----------------------------
(***************************************************************************)
(* What a runtime of the CPU backend holds beyond a session: its pool of   *)
(* threads, and its weights on mapped files.                               *)
(*                                                                         *)
(* Safety of the thread pool is for every number of callers, threads,      *)
(* slots and indices; blocks and weights on files are for every number of  *)
(* weights, of processes, of failures and of kills, and every size.        *)
(***************************************************************************)
EXTENDS ThreadPool, WeightCache, FiniteSetTheorems, TLAPS

\* A worker that works on a slot works on one of mTasks, and a caller that
\* raises flags starts with that of worker 1.
LoopBounds ==
  /\ \A w \in Workers : wpc[w] \in {"fetch", "run", "lower"} => wslot[w] # MaxTasks
  /\ \A c \in Callers : cpc[c] = "raise" => cv[c] >= 1

Typing == TypeOK /\ LoopBounds

\* The slot after one of mTasks is within the bound the scan stops at.
LEMMA NextSlot == \A k \in 0 .. MaxTasks : k # MaxTasks => k + 1 \in 0 .. MaxTasks
BY MaxTasksAssumption

\* Counting one more execution of an index keeps the type of ran.
LEMMA CountTyping ==
  ASSUME NEW f \in [Callers -> [Indices -> Nat]], NEW c \in Callers, NEW v
  PROVE  [f EXCEPT ![c][v] = @ + 1] \in [Callers -> [Indices -> Nat]]
<1>1. CASE v \in Indices
  <2>1. f[c] \in [Indices -> Nat]  OBVIOUS
  <2>2. f[c][v] + 1 \in Nat  BY <1>1, <2>1
  <2>3. [f[c] EXCEPT ![v] = f[c][v] + 1] \in [Indices -> Nat]  BY <2>1, <2>2
  <2> QED  BY <2>3
<1>2. CASE v \notin Indices
  <2>1. [f[c] EXCEPT ![v] = f[c][v] + 1] = f[c]  BY <1>2
  <2> QED  BY <2>1
<1> QED  BY <1>1, <1>2

\* The initial state has the types of the C++ declarations.
LEMMA InitTyping == Init => Typing
BY NAssumption, MaxTasksAssumption, MaxWorkAssumption
   DEF Init, Typing, TypeOK, LoopBounds, Workers, Slots, Indices, NothingRan,
       WorkerPoints, CallerPoints

\* A step of a worker's loop keeps the types.
LEMMA WorkerTyping ==
  ASSUME Typing, NEW w \in Workers, WorkerStep(w) \/ SpuriousWakeup(w)
  PROVE  Typing'
<1> USE NAssumption, MaxTasksAssumption DEF Typing, TypeOK
<1>1. CASE TestStop(w)
  <2> USE <1>1 DEF TestStop, WGoto, pool, callerVars
  <2>1. wpc' \in [Workers -> WorkerPoints] /\ LoopBounds'
    BY DEF WorkerPoints, LoopBounds
  <2> QED  BY <2>1
<1>2. CASE TestActive(w)
  <2> USE <1>2 DEF TestActive, WGoto, pool, callerVars
  <2>1. wslot' \in [Workers -> 0 .. MaxTasks]  OBVIOUS
  <2>2. wpc' \in [Workers -> WorkerPoints] /\ LoopBounds'
    BY DEF WorkerPoints, LoopBounds
  <2> QED  BY <2>1, <2>2
<1>3. CASE Scan(w)
  <2> USE <1>3 DEF Scan, WGoto, pool, callerVars
  <2>1. wslot' \in [Workers -> 0 .. MaxTasks]  OBVIOUS
  <2>2. wpc' \in [Workers -> WorkerPoints] /\ LoopBounds'
    BY DEF WorkerPoints, LoopBounds
  <2> QED  BY <2>1, <2>2
<1>4. CASE Fetch(w)
  <2> USE <1>4 DEF Fetch, WGoto, pool, callerVars
  <2>1. wslot[w] \in Slots  BY DEF LoopBounds, Slots
  <2>2. wtask' \in [Workers -> Callers \cup {NoTask}]  BY <2>1
  <2>3. wv' \in [Workers -> Nat]  BY DEF Workers
  <2>4. wpc' \in [Workers -> WorkerPoints] /\ LoopBounds'
    BY DEF WorkerPoints, LoopBounds
  <2> QED  BY <2>2, <2>3, <2>4
<1>5. CASE WorkerRun(w)
  <2> USE <1>5 DEF WorkerRun, WGoto, pool, callerVars
  <2>1. wtask[w] \in Callers  OBVIOUS
  <2>2. ran' \in [Callers -> [Indices -> Nat]]
    <3>1. ran' = ran \/ ran' = [ran EXCEPT ![wtask[w]][wv[w]] = @ + 1]  OBVIOUS
    <3>2. [ran EXCEPT ![wtask[w]][wv[w]] = @ + 1] \in [Callers -> [Indices -> Nat]]
      BY <2>1, CountTyping
    <3> QED  BY <3>1, <3>2
  <2>3. wv' \in [Workers -> Nat]  BY <2>1
  <2>4. wpc' \in [Workers -> WorkerPoints] /\ LoopBounds'
    BY DEF WorkerPoints, LoopBounds
  <2> QED  BY <2>2, <2>3, <2>4
<1>6. CASE Lower(w)
  <2> USE <1>6 DEF Lower, WGoto, pool, callerVars
  <2>1. wslot' \in [Workers -> 0 .. MaxTasks]
    <3>1. wslot[w] \in 0 .. MaxTasks /\ wslot[w] # MaxTasks  BY DEF LoopBounds
    <3>2. wslot[w] + 1 \in 0 .. MaxTasks  BY <3>1, NextSlot
    <3> QED  BY <3>2
  <2>2. raised' \in [Slots -> SUBSET Workers]  OBVIOUS
  <2>3. wtask' \in [Workers -> Callers \cup {NoTask}] /\ wv' \in [Workers -> Nat]
    OBVIOUS
  <2>4. wpc' \in [Workers -> WorkerPoints] /\ LoopBounds'
    BY DEF WorkerPoints, LoopBounds
  <2> QED  BY <2>1, <2>2, <2>3, <2>4
<1>7. CASE Wait(w)
  <2> USE <1>7 DEF Wait, WGoto, callerVars
  <2>1. mutex' \in Workers \cup {Free}  OBVIOUS
  <2>2. wpc' \in [Workers -> WorkerPoints] /\ LoopBounds'
    BY DEF WorkerPoints, LoopBounds
  <2> QED  BY <2>1, <2>2
<1>8. CASE Sleep(w)
  <2> USE <1>8 DEF Sleep, WGoto, callerVars
  <2>1. wpc' \in [Workers -> WorkerPoints] /\ LoopBounds'
    BY DEF WorkerPoints, LoopBounds
  <2> QED  BY <2>1
<1>9. CASE SpuriousWakeup(w)
  <2> USE <1>9 DEF SpuriousWakeup, WGoto, pool, callerVars
  <2>1. wpc' \in [Workers -> WorkerPoints] /\ LoopBounds'
    BY DEF WorkerPoints, LoopBounds
  <2> QED  BY <2>1
<1> QED  BY <1>1, <1>2, <1>3, <1>4, <1>5, <1>6, <1>7, <1>8, <1>9 DEF WorkerStep

\* notify_all moves sleepers and nobody else.
LEMMA NotifyTyping ==
  ASSUME Typing, NotifyAll, UNCHANGED wslot
  PROVE  /\ wpc' \in [Workers -> WorkerPoints]
         /\ \A w \in Workers :
              wpc'[w] \in {"fetch", "run", "lower"} => wslot'[w] # MaxTasks
BY DEF Typing, TypeOK, LoopBounds, NotifyAll, WorkerPoints

\* A step of a session thread keeps the types.
LEMMA CallerTyping ==
  ASSUME Typing, NEW c \in Callers, CallerStep(c)
  PROVE  Typing'
<1> USE NAssumption, MaxTasksAssumption DEF Typing, TypeOK
<1>1. CASE AcquireWorkIndex(c)
  <2> USE <1>1 DEF AcquireWorkIndex, Take, CGoto, workerVars
  <2>1. cpc' \in [Callers -> CallerPoints]  BY DEF CallerPoints
  <2>2. idx' \in [Callers -> Slots \cup {NoSlot}] /\ available' \subseteq Slots
    OBVIOUS
  <2>3. LoopBounds'  BY DEF LoopBounds
  <2> QED  BY <2>1, <2>2, <2>3
<1>2. CASE Active(c)
  <2> USE <1>2 DEF Active, CGoto, workerVars
  <2>1. cpc' \in [Callers -> CallerPoints]  BY DEF CallerPoints
  <2>2. activeCount' \in Int  OBVIOUS
  <2>3. LoopBounds'  BY DEF LoopBounds
  <2> QED  BY <2>1, <2>2, <2>3
<1>3. CASE ActiveNotify(c)
  <2> USE <1>3 DEF ActiveNotify, CGoto, pool
  <2>1. cpc' \in [Callers -> CallerPoints]  BY DEF CallerPoints
  <2>2. wpc' \in [Workers -> WorkerPoints] /\ LoopBounds'
    BY NotifyTyping DEF LoopBounds
  <2> QED  BY <2>1, <2>2
<1>4. ASSUME NEW k \in 0 .. MaxWork, Enqueue(c, k)  PROVE Typing'
  <2> USE <1>4 DEF Enqueue, CGoto, pool, workerVars
  <2>1. cpc' \in [Callers -> CallerPoints]  BY DEF CallerPoints
  <2>2. size' \in [Callers -> 0 .. MaxWork] /\ cv' \in [Callers -> Nat]  OBVIOUS
  <2>3. ran' \in [Callers -> [Indices -> Nat]]  BY DEF NothingRan
  <2>4. LoopBounds'  BY DEF LoopBounds
  <2> QED  BY <2>1, <2>2, <2>3, <2>4
<1>5. ASSUME NEW from \in CallerPoints, NEW to \in CallerPoints,
             NEW stride \in Nat, RunOwn(c, from, stride, to)
      PROVE  Typing'
  <2> USE <1>5 DEF RunOwn, CGoto, pool, workerVars
  <2>1. cpc' \in [Callers -> CallerPoints]  OBVIOUS
  <2>2. cv' \in [Callers -> Nat]  OBVIOUS
  <2>3. ran' \in [Callers -> [Indices -> Nat]]
    <3>1. ran' = ran \/ ran' = [ran EXCEPT ![c][cv[c]] = @ + 1]  OBVIOUS
    <3>2. [ran EXCEPT ![c][cv[c]] = @ + 1] \in [Callers -> [Indices -> Nat]]
      BY CountTyping
    <3> QED  BY <3>1, <3>2
  <2>4. LoopBounds'  BY SMTT(30) DEF LoopBounds
  <2> QED  BY <2>1, <2>2, <2>3, <2>4
<1>6. CASE RunSerial(c)  BY <1>5, <1>6 DEF RunSerial, CallerPoints
<1>7. CASE RunSelf(c)  BY <1>5, <1>7 DEF RunSelf, CallerPoints
<1>8. CASE Publish(c)
  <2> USE <1>8 DEF Publish, CGoto, workerVars
  <2>1. cpc' \in [Callers -> CallerPoints]  BY DEF CallerPoints
  <2>2. task' \in [Slots -> Callers \cup {NoTask}] /\ cv' \in [Callers -> Nat]
    OBVIOUS
  <2>3. LoopBounds'  BY DEF LoopBounds
  <2> QED  BY <2>1, <2>2, <2>3
<1>9. CASE Raise(c)
  <2> USE <1>9 DEF Raise, CGoto, workerVars
  <2>1. cpc' \in [Callers -> CallerPoints]  BY DEF CallerPoints
  <2>2. cv' \in [Callers -> Nat]  BY SMTT(30)
  <2>3. raised' \in [Slots -> SUBSET Workers]
    <3>1. cv[c] < Share(c) => cv[c] \in Workers  BY DEF LoopBounds, Share, Workers
    <3>2. ASSUME cv[c] \in Workers
          PROVE  [raised EXCEPT ![idx[c]] = @ \cup {cv[c]}] \in [Slots -> SUBSET Workers]
      BY <3>2
    <3>3. CASE cv[c] < Share(c)
      <4>1. raised' = [raised EXCEPT ![idx[c]] = @ \cup {cv[c]}]  BY <3>3
      <4> QED  BY <3>1, <3>2, <3>3, <4>1
    <3>4. CASE ~ (cv[c] < Share(c))  BY <3>4
    <3> QED  BY <3>3, <3>4
  <2>4. LoopBounds'
    <3>1. \A w \in Workers :
            wpc'[w] \in {"fetch", "run", "lower"} => wslot'[w] # MaxTasks
      BY DEF LoopBounds
    <3>2. ASSUME NEW d \in Callers, cpc'[d] = "raise"  PROVE cv'[d] >= 1
      <4>1. CASE d = c
        <5>1. cv'[c] = cv[c] + 1 /\ cv[c] \in Nat  BY <3>2, <4>1
        <5> QED  BY <4>1, <5>1
      <4>2. CASE d # c  BY <3>2, <4>2 DEF LoopBounds
      <4> QED  BY <4>1, <4>2
    <3> QED  BY <3>1, <3>2 DEF LoopBounds
  <2> QED  BY <2>1, <2>2, <2>3, <2>4
<1>10. CASE Poll(c)
  <2> USE <1>10 DEF Poll, CGoto, pool, workerVars
  <2>1. cpc' \in [Callers -> CallerPoints]  BY DEF CallerPoints
  <2>2. cv' \in [Callers -> Nat]
    <3>1. Polled(c) \in Nat  BY DEF Polled
    <3> QED  BY <3>1
  <2>3. LoopBounds'  BY DEF LoopBounds
  <2> QED  BY <2>1, <2>2, <2>3
<1>11. CASE ReleaseWorkIndex(c)
  <2> USE <1>11 DEF ReleaseWorkIndex, AfterRelease, CGoto, workerVars
  <2>1. cpc' \in [Callers -> CallerPoints]  BY DEF CallerPoints
  <2>2. size' \in [Callers -> 0 .. MaxWork] /\ cv' \in [Callers -> Nat]
    BY MaxWorkAssumption
  <2>3. ran' \in [Callers -> [Indices -> Nat]]  BY DEF NothingRan
  <2>4. available' \subseteq Slots  OBVIOUS
  <2>5. LoopBounds'  BY DEF LoopBounds
  <2> QED  BY <2>1, <2>2, <2>3, <2>4, <2>5
<1>12. CASE Deactive(c)
  <2> USE <1>12 DEF Deactive, CGoto, workerVars
  <2>1. cpc' \in [Callers -> CallerPoints]  BY DEF CallerPoints
  <2>2. activeCount' \in Int  OBVIOUS
  <2>3. idx' \in [Callers -> Slots \cup {NoSlot}]  OBVIOUS
  <2>4. LoopBounds'  BY DEF LoopBounds
  <2> QED  BY <2>1, <2>2, <2>3, <2>4
<1> QED  BY <1>1, <1>2, <1>3, <1>4, <1>6, <1>7, <1>8, <1>9, <1>10, <1>11, <1>12
         DEF CallerStep, InEnqueue

\* Every step keeps the types.
LEMMA NextTyping == Typing /\ [Next]_vars => Typing'
<1> SUFFICES ASSUME Typing, [Next]_vars PROVE Typing'  OBVIOUS
<1>1. ASSUME NEW w \in Workers, WorkerStep(w) \/ SpuriousWakeup(w)  PROVE Typing'
  BY <1>1, WorkerTyping
<1>2. ASSUME NEW c \in Callers, CallerStep(c)  PROVE Typing'
  BY <1>2, CallerTyping
<1>3. CASE Stop
  BY <1>3 DEF Stop, Typing, TypeOK, LoopBounds, workerVars, callerVars
<1>4. CASE StopNotify
  <2>1. wpc' \in [Workers -> WorkerPoints] /\ LoopBounds'
    BY <1>4, NotifyTyping DEF StopNotify, Typing, LoopBounds, callerVars
  <2> QED  BY <1>4, <2>1 DEF StopNotify, Typing, TypeOK, pool, callerVars
<1>5. CASE Join
  BY <1>5 DEF Join, Typing, TypeOK, LoopBounds, pool, workerVars, callerVars
<1>6. CASE UNCHANGED vars
  BY <1>6 DEF Typing, TypeOK, LoopBounds, vars, pool, workerVars, callerVars
<1> QED  BY <1>1, <1>2, <1>3, <1>4, <1>5, <1>6 DEF Next, Destroyed

\* The pool's variables keep their types in every behaviour.
THEOREM TypeCorrect == Spec => []TypeOK
<1>1. Typing => TypeOK  BY DEF Typing
<1> QED  BY <1>1, InitTyping, NextTyping, PTL DEF Spec

--------------------------------------------------------------------------------
\* A session has no slot outside of its begin and end, and has one while it
\* shares work; no slot is given twice.
SlotsOwned ==
  /\ \A c \in Callers : cpc[c] = "idle" => idx[c] = NoSlot
  /\ \A c \in Callers :
       cpc[c] \in {"activate", "notify", "publish", "raise", "self", "poll", "deactivate"}
       => idx[c] \in Slots
  /\ SlotExclusive

LEMMA InitSlots == Init => SlotsOwned
BY DEF Init, SlotsOwned, SlotExclusive, Holds, Slots, NoSlot

\* A caller that moves between two points of its section keeps what it owns.
LEMMA SlotsKept ==
  ASSUME Typing, SlotsOwned, UNCHANGED <<available, idx>>, NEW c \in Callers,
         cpc[c] # "deactivate", NEW to \in CallerPoints \ {"idle", "deactivate"},
         to = "open" \/ to = "serial" \/ idx[c] \in Slots,
         cpc' = [cpc EXCEPT ![c] = to]
  PROVE  SlotsOwned'
<1> USE DEF Typing, TypeOK
<1>1. \A d \in Callers : cpc'[d] = IF d = c THEN to ELSE cpc[d]  OBVIOUS
<1>2. \A d \in Callers, s \in Slots : Holds(d, s)' <=> Holds(d, s)
  BY <1>1 DEF Holds
<1>3. SlotExclusive'  BY <1>2 DEF SlotsOwned, SlotExclusive
<1> QED  BY <1>1, <1>3 DEF SlotsOwned

LEMMA CallerSlots ==
  ASSUME Typing, SlotsOwned, NEW c \in Callers, CallerStep(c)
  PROVE  SlotsOwned'
<1> USE DEF Typing, TypeOK
<1>1. CASE AcquireWorkIndex(c)
  <2>1. CASE available = {} /\ CGoto(c, "idle", "open") /\ UNCHANGED <<available, idx>>
    BY <2>1, SlotsKept DEF CGoto, CallerPoints
  <2>2. ASSUME NEW s \in Slots, s \in available, Take(c, s), CGoto(c, "idle", "activate")
        PROVE  SlotsOwned'
    <3> USE <2>2 DEF Take, CGoto
    <3>1. \A d \in Callers : cpc'[d] = IF d = c THEN "activate" ELSE cpc[d]  OBVIOUS
    <3>2. \A d \in Callers : idx'[d] = IF d = c THEN s ELSE idx[d]  OBVIOUS
    <3>3. \A d \in Callers : ~ Holds(d, s)  BY DEF SlotsOwned, SlotExclusive
    <3>4. \A d \in Callers, t \in Slots :
            Holds(d, t)' <=> IF d = c THEN t = s ELSE Holds(d, t)
      BY <3>1, <3>2 DEF Holds
    <3>5. SlotExclusive'  BY <3>3, <3>4 DEF SlotsOwned, SlotExclusive
    <3> QED  BY <3>1, <3>2, <3>5 DEF SlotsOwned
  <2> QED  BY <1>1, <2>1, <2>2 DEF AcquireWorkIndex
<1>2. CASE Active(c)
  BY <1>2, SlotsKept DEF Active, CGoto, CallerPoints, SlotsOwned
<1>3. CASE ActiveNotify(c)
  BY <1>3, SlotsKept DEF ActiveNotify, CGoto, CallerPoints, pool
<1>4. ASSUME NEW k \in 0 .. MaxWork, Enqueue(c, k)  PROVE SlotsOwned'
  <2> USE <1>4 DEF Enqueue, CGoto, pool
  <2>1. CASE k <= 1 \/ idx[c] < 0 \/ activeCount = 0
    BY <2>1, SlotsKept DEF CallerPoints
  <2>2. CASE ~ (k <= 1 \/ idx[c] < 0 \/ activeCount = 0)
    <3>1. idx[c] \in Slots  BY <2>2 DEF NoSlot
    <3> QED  BY <2>2, <3>1, SlotsKept DEF CallerPoints
  <2> QED  BY <2>1, <2>2
<1>5. CASE RunSerial(c)
  <2>1. CASE UNCHANGED cpc
    BY <1>5, <2>1 DEF RunSerial, RunOwn, pool, SlotsOwned, SlotExclusive, Holds
  <2>2. CASE CGoto(c, "serial", "open")
    BY <1>5, <2>2, SlotsKept DEF RunSerial, RunOwn, pool, CGoto, CallerPoints
  <2> QED  BY <1>5, <2>1, <2>2 DEF RunSerial, RunOwn
<1>6. CASE RunSelf(c)
  <2>1. CASE UNCHANGED cpc
    BY <1>6, <2>1 DEF RunSelf, RunOwn, pool, SlotsOwned, SlotExclusive, Holds
  <2>2. CASE CGoto(c, "self", "poll")
    BY <1>6, <2>2, SlotsKept DEF RunSelf, RunOwn, pool, CGoto, CallerPoints, SlotsOwned
  <2> QED  BY <1>6, <2>1, <2>2 DEF RunSelf, RunOwn
<1>7. CASE Publish(c)
  BY <1>7, SlotsKept DEF Publish, CGoto, CallerPoints, SlotsOwned
<1>8. CASE Raise(c)
  <2>1. CASE UNCHANGED cpc
    BY <1>8, <2>1 DEF Raise, SlotsOwned, SlotExclusive, Holds
  <2>2. CASE CGoto(c, "raise", "self")
    BY <1>8, <2>2, SlotsKept DEF Raise, CGoto, CallerPoints, SlotsOwned
  <2> QED  BY <1>8, <2>1, <2>2 DEF Raise
<1>9. CASE Poll(c)
  <2>1. CASE UNCHANGED cpc
    BY <1>9, <2>1 DEF Poll, pool, SlotsOwned, SlotExclusive, Holds
  <2>2. CASE CGoto(c, "poll", "open")
    BY <1>9, <2>2, SlotsKept DEF Poll, pool, CGoto, CallerPoints
  <2> QED  BY <1>9, <2>1, <2>2 DEF Poll
<1>10. CASE ReleaseWorkIndex(c)
  <2> USE <1>10 DEF ReleaseWorkIndex, AfterRelease, CGoto
  <2>1. \A d \in Callers : cpc'[d] = IF d = c THEN AfterRelease(c) ELSE cpc[d]
    OBVIOUS
  <2>2. idx' = idx  OBVIOUS
  <2>3. \A d \in Callers, s \in Slots : Holds(d, s)' <=> d # c /\ Holds(d, s)
    BY <2>1, <2>2 DEF Holds, Slots, NoSlot
  <2>4. \A d \in Callers \ {c}, s \in Slots : Holds(d, s) => s # idx[c]
    BY DEF SlotsOwned, SlotExclusive, Holds
  <2>5. available' = available \/ available' = available \cup {idx[c]}  OBVIOUS
  <2>6. SlotExclusive'  BY <2>3, <2>4, <2>5 DEF SlotsOwned, SlotExclusive
  <2> QED  BY <2>1, <2>2, <2>6 DEF SlotsOwned
<1>11. CASE Deactive(c)
  <2> USE <1>11 DEF Deactive, CGoto
  <2>1. \A d \in Callers : cpc'[d] = IF d = c THEN "idle" ELSE cpc[d]  OBVIOUS
  <2>2. \A d \in Callers : idx'[d] = IF d = c THEN NoSlot ELSE idx[d]  OBVIOUS
  <2>3. \A d \in Callers, s \in Slots : Holds(d, s)' <=> Holds(d, s)
    BY <2>1, <2>2 DEF Holds, Slots, NoSlot
  <2>4. SlotExclusive'  BY <2>3 DEF SlotsOwned, SlotExclusive
  <2> QED  BY <2>1, <2>2, <2>4 DEF SlotsOwned
<1> QED  BY <1>1, <1>2, <1>3, <1>4, <1>5, <1>6, <1>7, <1>8, <1>9, <1>10, <1>11
         DEF CallerStep, InEnqueue

\* What the slots depend on, no worker touches, nor the destructor.
LEMMA WorkerKeepsCallers ==
  ASSUME NEW w \in Workers, WorkerStep(w) \/ SpuriousWakeup(w)
  PROVE  UNCHANGED <<available, task, activeCount, cpc, idx, size, cv, dpc>>
BY DEF WorkerStep, TestStop, TestActive, Scan, Fetch, WorkerRun, Lower, Wait, Sleep,
       SpuriousWakeup, pool, callerVars

LEMMA DestroyKeepsCallers ==
  ASSUME Stop \/ StopNotify \/ Join \/ UNCHANGED vars
  PROVE  UNCHANGED <<available, task, raised, activeCount, mutex, cpc, idx, size, cv, ran>>
BY DEF Stop, StopNotify, Join, vars, pool, callerVars

LEMMA NextSlots == Typing /\ SlotsOwned /\ [Next]_vars => SlotsOwned'
<1> SUFFICES ASSUME Typing, SlotsOwned, [Next]_vars PROVE SlotsOwned'  OBVIOUS
<1>1. CASE UNCHANGED <<available, cpc, idx>>
  BY <1>1 DEF SlotsOwned, SlotExclusive, Holds
<1>2. ASSUME NEW c \in Callers, CallerStep(c)  PROVE SlotsOwned'
  BY <1>2, CallerSlots
<1> QED  BY <1>1, <1>2, WorkerKeepsCallers, DestroyKeepsCallers DEF Next, Destroyed

\* Two sessions never own the same slot of mTasks.
THEOREM SlotsAreExclusive == Spec => []SlotExclusive
<1>1. SlotsOwned => SlotExclusive  BY DEF SlotsOwned
<1> QED  BY <1>1, InitTyping, NextTyping, InitSlots, NextSlots, PTL DEF Spec

--------------------------------------------------------------------------------
(* The callers of the pool keep PoolProtocol.                                 *)

Stages == [c \in Callers |-> Stage(c)]

LEMMA ProtocolInit == Init => Protocol!Init
BY DEF Init, Protocol!Init, Stage

\* A step that leaves slots and stages alone is a stutter of the protocol.
LEMMA ProtocolKept ==
  ASSUME UNCHANGED <<available, idx>>, \A c \in Callers : Stage(c)' = Stage(c)
  PROVE  UNCHANGED Protocol!vars
BY DEF Protocol!vars

\* One caller comes to another stage.
LEMMA StageMoved ==
  ASSUME NEW c \in Callers, \A d \in Callers : d # c => Stage(d)' = Stage(d)
  PROVE  Stages[c] = Stage(c) /\ Stages' = [Stages EXCEPT ![c] = Stage(c)']
BY DEF Stages

\* AcquireWorkIndex that finds a slot, Active, ReleaseWorkIndex of a slot and
\* Deactive are the steps of the protocol; every other step is none.
LEMMA CallerProtocol ==
  ASSUME Typing, SlotsOwned, NEW c \in Callers, CallerStep(c)
  PROVE  Protocol!Next \/ UNCHANGED Protocol!vars
<1> USE DEF Typing, TypeOK
<1>1. CASE AcquireWorkIndex(c)
  <2>1. CASE CGoto(c, "idle", "open") /\ UNCHANGED <<available, idx>>
    <3>1. idx[c] = NoSlot  BY <2>1 DEF SlotsOwned, CGoto
    <3>2. \A d \in Callers : Stage(d)' = Stage(d)
      BY <2>1, <3>1 DEF Stage, CGoto
    <3> QED  BY <2>1, <3>2, ProtocolKept
  <2>2. ASSUME NEW s \in Slots, s \in available, Take(c, s), CGoto(c, "idle", "activate")
        PROVE  Protocol!Next
    <3> USE <2>2 DEF Take, CGoto
    <3>1. idx[c] = NoSlot /\ s # NoSlot  BY DEF SlotsOwned, Slots, NoSlot
    <3>2. /\ Stage(c) = "out" /\ Stage(c)' = "taken"
          /\ \A d \in Callers : d # c => Stage(d)' = Stage(d)
      BY <3>1 DEF Stage
    <3>3. Protocol!Acquire(c)
      BY <3>2, StageMoved DEF Protocol!Acquire, Protocol!Goto, Stages
    <3> QED  BY <3>3 DEF Protocol!Next
  <2> QED  BY <1>1, <2>1, <2>2 DEF AcquireWorkIndex
<1>2. CASE Active(c)
  <2> USE <1>2 DEF Active, CGoto
  <2>1. idx[c] # NoSlot  BY DEF SlotsOwned, Slots, NoSlot
  <2>2. /\ Stage(c) = "taken" /\ Stage(c)' = "active"
        /\ \A d \in Callers : d # c => Stage(d)' = Stage(d)
    BY <2>1 DEF Stage
  <2>3. Protocol!Activate(c)
    BY <2>2, StageMoved DEF Protocol!Activate, Protocol!Goto, Stages
  <2> QED  BY <2>3 DEF Protocol!Next
<1>3. CASE ActiveNotify(c) \/ (\E k \in 0 .. MaxWork : Enqueue(c, k)) \/ InEnqueue(c)
  <2>1. UNCHANGED <<available, idx>>
    BY <1>3 DEF ActiveNotify, Enqueue, InEnqueue, RunSerial, RunSelf, RunOwn, Publish, Raise, Poll, pool
  <2>2. /\ cpc[c] \notin {"activate", "deactivate"} /\ cpc'[c] \notin {"activate", "deactivate"}
        /\ \A d \in Callers : d # c => cpc'[d] = cpc[d]
    BY <1>3 DEF ActiveNotify, Enqueue, InEnqueue, RunSerial, RunSelf, RunOwn, Publish, Raise, Poll, CGoto
  <2>3. \A d \in Callers : Stage(d)' = Stage(d)
    BY <2>1, <2>2 DEF Stage
  <2> QED  BY <2>1, <2>3, ProtocolKept
<1>4. CASE ReleaseWorkIndex(c)
  <2> USE <1>4 DEF ReleaseWorkIndex, AfterRelease, CGoto
  <2>1. CASE idx[c] = NoSlot
    <3>1. \A d \in Callers : Stage(d)' = Stage(d)  BY <2>1 DEF Stage
    <3> QED  BY <2>1, <3>1, ProtocolKept
  <2>2. CASE idx[c] # NoSlot
    <3>1. /\ Stage(c) = "active" /\ Stage(c)' = "released"
          /\ \A d \in Callers : d # c => Stage(d)' = Stage(d)
      BY <2>2 DEF Stage
    <3>2. Protocol!Release(c)
      BY <2>2, <3>1, StageMoved DEF Protocol!Release, Protocol!Goto, Stages
    <3> QED  BY <3>2 DEF Protocol!Next
  <2> QED  BY <2>1, <2>2
<1>5. CASE Deactive(c)
  <2> USE <1>5 DEF Deactive, CGoto
  <2>1. idx[c] # NoSlot  BY DEF SlotsOwned, Slots, NoSlot
  <2>2. /\ Stage(c) = "released" /\ Stage(c)' = "out"
        /\ \A d \in Callers : d # c => Stage(d)' = Stage(d)
    BY <2>1 DEF Stage
  <2>3. Protocol!Deactivate(c)
    BY <2>2, StageMoved DEF Protocol!Deactivate, Protocol!Goto, Stages
  <2> QED  BY <2>3 DEF Protocol!Next
<1> QED  BY <1>1, <1>2, <1>3, <1>4, <1>5 DEF CallerStep

\* The callers that ThreadPool models use it in the order of PoolProtocol, the
\* one that the runtimes are shown to keep.
THEOREM CallersFollowProtocol == Spec => FollowsProtocol
<1>1. Typing /\ SlotsOwned /\ [Next]_vars => [Protocol!Next]_(Protocol!vars)
  <2> SUFFICES ASSUME Typing, SlotsOwned, [Next]_vars
               PROVE  Protocol!Next \/ UNCHANGED Protocol!vars
    OBVIOUS
  <2>1. ASSUME NEW c \in Callers, CallerStep(c)
        PROVE  Protocol!Next \/ UNCHANGED Protocol!vars
    BY <2>1, CallerProtocol
  <2>2. CASE UNCHANGED <<available, cpc, idx>>
    <3>1. \A d \in Callers : Stage(d)' = Stage(d)  BY <2>2 DEF Stage
    <3> QED  BY <2>2, <3>1, ProtocolKept
  <2> QED  BY <2>1, <2>2, WorkerKeepsCallers, DestroyKeepsCallers DEF Next, Destroyed
<1> QED
  BY <1>1, ProtocolInit, InitTyping, NextTyping, InitSlots, NextSlots, PTL
  DEF Spec, FollowsProtocol, Protocol!Spec


--------------------------------------------------------------------------------
CountedSet == {c \in Callers : Counted(c)}

LEMMA InitCount == Init => ActiveCountExact
<1> SUFFICES ASSUME Init PROVE ActiveCountExact  OBVIOUS
<1>1. CountedSet = {}  BY DEF Init, CountedSet, Counted
<1> QED  BY <1>1, FS_EmptySet DEF Init, ActiveCountExact, CountedSet

LEMMA CountKept ==
  ASSUME ActiveCountExact, UNCHANGED activeCount, CountedSet' = CountedSet
  PROVE  ActiveCountExact'
BY DEF ActiveCountExact, CountedSet

\* active() and deactive() add and remove one session; whatever else a session
\* does leaves it on the side it is.
LEMMA CallerCount ==
  ASSUME Typing, SlotsOwned, ActiveCountExact, NEW c \in Callers, CallerStep(c)
  PROVE  ActiveCountExact'
<1> USE DEF Typing, TypeOK
<1>0. IsFiniteSet(CountedSet)
  BY CallersAssumption, FS_Subset DEF CountedSet
<1>1. CASE Active(c)
  <2> USE <1>1 DEF Active, CGoto
  <2>1. idx[c] # NoSlot  BY DEF SlotsOwned, Slots, NoSlot
  <2>2. \A d \in Callers : Counted(d)' <=> d = c \/ Counted(d)
    BY <2>1 DEF Counted
  <2>3. c \notin CountedSet /\ CountedSet' = CountedSet \cup {c}
    BY <2>2 DEF CountedSet, Counted
  <2>4. Cardinality(CountedSet') = Cardinality(CountedSet) + 1
    BY <1>0, <2>3, FS_AddElement
  <2> QED  BY <2>4 DEF ActiveCountExact, CountedSet
<1>2. CASE Deactive(c)
  <2> USE <1>2 DEF Deactive, CGoto
  <2>1. idx[c] # NoSlot  BY DEF SlotsOwned, Slots, NoSlot
  <2>2. \A d \in Callers : Counted(d)' <=> d # c /\ Counted(d)
    BY DEF Counted
  <2>3. c \in CountedSet /\ CountedSet' = CountedSet \ {c}
    BY <2>1, <2>2 DEF CountedSet, Counted
  <2>4. Cardinality(CountedSet') = Cardinality(CountedSet) - 1
    BY <1>0, <2>3, FS_RemoveElement
  <2> QED  BY <2>4 DEF ActiveCountExact, CountedSet
<1>3. ASSUME UNCHANGED activeCount, \A d \in Callers : Counted(d)' <=> Counted(d)
      PROVE  ActiveCountExact'
  BY <1>3, CountKept DEF CountedSet
<1>4. CASE AcquireWorkIndex(c)
  <2>1. \A d \in Callers : Counted(d)' <=> Counted(d)
    BY <1>4 DEF AcquireWorkIndex, Take, CGoto, Counted, SlotsOwned
  <2> QED  BY <1>3, <1>4, <2>1 DEF AcquireWorkIndex
<1>5. CASE ReleaseWorkIndex(c)
  <2>1. \A d \in Callers : Counted(d)' <=> Counted(d)
    BY <1>5 DEF ReleaseWorkIndex, AfterRelease, CGoto, Counted
  <2> QED  BY <1>3, <1>5, <2>1 DEF ReleaseWorkIndex
<1>6. ASSUME UNCHANGED <<activeCount, idx>>, cpc[c] \notin {"idle", "activate"},
             NEW to \in CallerPoints \ {"idle", "activate"},
             cpc' = [cpc EXCEPT ![c] = to]
      PROVE  ActiveCountExact'
  <2>1. \A d \in Callers : Counted(d)' <=> Counted(d)  BY <1>6 DEF Counted
  <2> QED  BY <1>3, <1>6, <2>1
<1>7. CASE ActiveNotify(c)
  BY <1>6, <1>7 DEF ActiveNotify, CGoto, pool, CallerPoints
<1>8. ASSUME NEW k \in 0 .. MaxWork, Enqueue(c, k)  PROVE ActiveCountExact'
  BY <1>6, <1>8 DEF Enqueue, CGoto, pool, CallerPoints
<1>9. CASE InEnqueue(c)
  <2>1. UNCHANGED <<activeCount, idx>>
    BY <1>9 DEF InEnqueue, RunSerial, RunSelf, RunOwn, Publish, Raise, Poll, pool
  <2>2. CASE UNCHANGED cpc
    <3>1. \A d \in Callers : Counted(d)' <=> Counted(d)  BY <2>1, <2>2 DEF Counted
    <3> QED  BY <1>3, <2>1, <3>1
  <2>3. CASE \/ CGoto(c, "serial", "open") \/ CGoto(c, "self", "poll")
             \/ CGoto(c, "publish", "raise") \/ CGoto(c, "raise", "self")
             \/ CGoto(c, "poll", "open")
    BY <1>6, <2>1, <2>3 DEF CGoto, CallerPoints
  <2> QED  BY <1>9, <2>2, <2>3
           DEF InEnqueue, RunSerial, RunSelf, RunOwn, Publish, Raise, Poll
<1> QED  BY <1>1, <1>2, <1>4, <1>5, <1>7, <1>8, <1>9 DEF CallerStep

LEMMA NextCount ==
  Typing /\ SlotsOwned /\ ActiveCountExact /\ [Next]_vars => ActiveCountExact'
<1> SUFFICES ASSUME Typing, SlotsOwned, ActiveCountExact, [Next]_vars
             PROVE  ActiveCountExact'
  OBVIOUS
<1>1. CASE UNCHANGED <<activeCount, cpc, idx>>
  BY <1>1, CountKept DEF CountedSet, Counted
<1>2. ASSUME NEW c \in Callers, CallerStep(c)  PROVE ActiveCountExact'
  BY <1>2, CallerCount
<1> QED  BY <1>1, <1>2, WorkerKeepsCallers, DestroyKeepsCallers DEF Next, Destroyed

\* mActiveCount is the number of sessions between active() and deactive(),
\* although deactive() decrements it without the mutex.
THEOREM ActiveCountIsExact == Spec => []ActiveCountExact
BY InitTyping, NextTyping, InitSlots, NextSlots, InitCount, NextCount, PTL DEF Spec

--------------------------------------------------------------------------------
\* The worker that has found the predicate false holds the mutex until it
\* sleeps, so no session can become active in between.
SleepGuarded ==
  /\ \A w \in Workers : wpc[w] = "sleep" => mutex = w /\ activeCount <= 0
  /\ NoSleeperWhileOpen

LEMMA InitSleep == Init => SleepGuarded
BY DEF Init, SleepGuarded, NoSleeperWhileOpen, Counted

LEMMA WorkerSleep ==
  ASSUME Typing, ActiveCountExact, SleepGuarded,
         NEW w \in Workers, WorkerStep(w) \/ SpuriousWakeup(w)
  PROVE  SleepGuarded'
<1> USE DEF Typing, TypeOK
<1>1. \A c \in Callers : Counted(c)' <=> Counted(c)
  BY WorkerKeepsCallers DEF Counted
<1>2. UNCHANGED <<activeCount, cpc>>  BY WorkerKeepsCallers
<1>3. ASSUME NEW to, to \notin {"sleep", "blocked"}, wpc' = [wpc EXCEPT ![w] = to],
             UNCHANGED mutex
      PROVE  SleepGuarded'
  BY <1>1, <1>2, <1>3 DEF SleepGuarded, NoSleeperWhileOpen
<1>4. CASE TestStop(w)  BY <1>3, <1>4 DEF TestStop, WGoto, pool
<1>5. CASE TestActive(w)  BY <1>3, <1>5 DEF TestActive, WGoto, pool
<1>6. ASSUME UNCHANGED <<wpc, mutex>>  PROVE SleepGuarded'
  BY <1>1, <1>2, <1>6 DEF SleepGuarded, NoSleeperWhileOpen
<1>7. CASE Scan(w)  BY <1>3, <1>6, <1>7 DEF Scan, WGoto, pool
<1>8. CASE Fetch(w)  BY <1>3, <1>8 DEF Fetch, WGoto, pool
<1>9. CASE WorkerRun(w)  BY <1>3, <1>6, <1>9 DEF WorkerRun, WGoto, pool
<1>10. CASE Lower(w)  BY <1>3, <1>10 DEF Lower, WGoto
<1>11. CASE Wait(w)
  <2> USE <1>11 DEF Wait, WGoto
  <2>1. CASE Awake  BY <1>3, <2>1
  <2>2. CASE ~ Awake
    <3>1. \A v \in Workers : wpc[v] # "sleep"
      BY DEF SleepGuarded, Free, Workers
    <3>2. activeCount' <= 0  BY <1>2, <2>2 DEF Awake
    <3>3. mutex' = w  BY <2>2
    <3>4. \A v \in Workers : wpc'[v] = IF v = w THEN "sleep" ELSE wpc[v]  BY <2>2
    <3>5. NoSleeperWhileOpen'  BY <1>1, <1>2, <3>4 DEF SleepGuarded, NoSleeperWhileOpen
    <3> QED  BY <3>1, <3>2, <3>3, <3>4, <3>5 DEF SleepGuarded
  <2> QED  BY <2>1, <2>2
<1>12. CASE Sleep(w)
  <2> USE <1>12 DEF Sleep, WGoto
  <2>1. activeCount <= 0  BY DEF SleepGuarded
  <2>2. IsFiniteSet(CountedSet)  BY CallersAssumption, FS_Subset DEF CountedSet
  <2>3. Cardinality(CountedSet) = 0
    BY <2>1, <2>2, FS_CardinalityType DEF ActiveCountExact, CountedSet
  <2>4. CountedSet = {}  BY <2>2, <2>3, FS_EmptySet
  <2>5. \A c \in Callers : ~ Counted(c)  BY <2>4 DEF CountedSet
  <2>6. NoSleeperWhileOpen'  BY <1>1, <2>5 DEF NoSleeperWhileOpen
  <2>7. \A v \in Workers : v # w => wpc'[v] = wpc[v] /\ wpc[v] # "sleep"
    BY DEF SleepGuarded
  <2>8. wpc'[w] = "blocked"  OBVIOUS
  <2> QED  BY <2>6, <2>7, <2>8 DEF SleepGuarded
<1>13. CASE SpuriousWakeup(w)  BY <1>3, <1>13 DEF SpuriousWakeup, WGoto, pool
<1> QED  BY <1>4, <1>5, <1>7, <1>8, <1>9, <1>10, <1>11, <1>12, <1>13 DEF WorkerStep

LEMMA CallerSleep ==
  ASSUME Typing, SlotsOwned, SleepGuarded, NEW c \in Callers, CallerStep(c)
  PROVE  SleepGuarded'
<1> USE DEF Typing, TypeOK
<1>1. CASE Active(c)
  <2> USE <1>1 DEF Active, CGoto, workerVars
  <2>1. \A w \in Workers : wpc[w] # "sleep"  BY DEF SleepGuarded, Free, Workers
  <2>2. \A d \in Callers : Counted(d)' /\ cpc'[d] # "notify"
                           => Counted(d) /\ cpc[d] # "notify"
    BY DEF Counted
  <2> QED  BY <2>1, <2>2 DEF SleepGuarded, NoSleeperWhileOpen
<1>2. CASE ActiveNotify(c)
  <2> USE <1>2 DEF ActiveNotify, NotifyAll, CGoto, pool
  <2>1. \A w \in Workers : /\ wpc'[w] # "blocked"
                           /\ wpc'[w] = "sleep" => wpc[w] = "sleep"
    OBVIOUS
  <2> QED  BY <2>1 DEF SleepGuarded, NoSleeperWhileOpen
<1>3. ASSUME UNCHANGED <<mutex, wpc>>, activeCount' <= activeCount, activeCount' \in Int,
             \A d \in Callers : Counted(d)' /\ cpc'[d] # "notify"
                               => Counted(d) /\ cpc[d] # "notify"
      PROVE  SleepGuarded'
  BY <1>3 DEF SleepGuarded, NoSleeperWhileOpen
<1>4. CASE AcquireWorkIndex(c)
  BY <1>3, <1>4 DEF AcquireWorkIndex, Take, CGoto, Counted, SlotsOwned, workerVars
<1>5. ASSUME NEW k \in 0 .. MaxWork, Enqueue(c, k)  PROVE SleepGuarded'
  BY <1>3, <1>5 DEF Enqueue, CGoto, Counted, pool, workerVars
<1>6. CASE InEnqueue(c)
  <2>1. UNCHANGED <<mutex, wpc, activeCount, idx>>
    BY <1>6 DEF InEnqueue, RunSerial, RunSelf, RunOwn, Publish, Raise, Poll,
                pool, workerVars
  <2>2. \A d \in Callers : Counted(d)' /\ cpc'[d] # "notify"
                           => Counted(d) /\ cpc[d] # "notify"
    BY <1>6, <2>1 DEF InEnqueue, RunSerial, RunSelf, RunOwn, Publish, Raise, Poll,
                      CGoto, Counted
  <2> QED  BY <1>3, <2>1, <2>2
<1>7. CASE ReleaseWorkIndex(c)
  BY <1>3, <1>7 DEF ReleaseWorkIndex, AfterRelease, CGoto, Counted, workerVars
<1>8. CASE Deactive(c)
  BY <1>3, <1>8 DEF Deactive, CGoto, Counted, workerVars
<1> QED  BY <1>1, <1>2, <1>4, <1>5, <1>6, <1>7, <1>8 DEF CallerStep

LEMMA NextSleep ==
  /\ Typing /\ SlotsOwned /\ ActiveCountExact /\ SleepGuarded /\ [Next]_vars
  => SleepGuarded'
<1> SUFFICES ASSUME Typing, SlotsOwned, ActiveCountExact, SleepGuarded, [Next]_vars
             PROVE  SleepGuarded'
  OBVIOUS
<1>1. ASSUME NEW w \in Workers, WorkerStep(w) \/ SpuriousWakeup(w)  PROVE SleepGuarded'
  BY <1>1, WorkerSleep
<1>2. ASSUME NEW c \in Callers, CallerStep(c)  PROVE SleepGuarded'
  BY <1>2, CallerSleep
<1>3. CASE Stop \/ StopNotify \/ Join \/ UNCHANGED vars
  <2>1. \A w \in Workers : wpc'[w] \in {"sleep", "blocked"} => wpc'[w] = wpc[w]
    BY <1>3 DEF Stop, StopNotify, NotifyAll, Join, vars, workerVars, Typing, TypeOK
  <2> QED  BY <1>3, <2>1, DestroyKeepsCallers
           DEF SleepGuarded, NoSleeperWhileOpen, Counted
<1> QED  BY <1>1, <1>2, <1>3 DEF Next, Destroyed

\* No lost wakeup: a session that has returned from active() finds no worker
\* asleep until it calls deactive().
THEOREM NoLostWakeup == Spec => []NoSleeperWhileOpen
<1>1. SleepGuarded => NoSleeperWhileOpen  BY DEF SleepGuarded
<1> QED  BY <1>1, InitTyping, NextTyping, InitSlots, NextSlots, InitCount, NextCount,
            InitSleep, NextSleep, PTL DEF Spec
--------------------------------------------------------------------------------
\* Session c shares a task through slot s; worker w is busy with that of slot s.
Serves(c, s) == idx[c] = s /\ cpc[c] \in {"raise", "self", "poll"}
Works(w, s) == wslot[w] = s /\ wpc[w] \in {"run", "lower"}

\* A raised flag belongs to a task whose enqueue has not returned: its caller
\* has raised it and has not yet seen it lowered.
FlagServed ==
  \A s \in Slots : \A w \in raised[s] : \E c \in Callers :
    /\ Serves(c, s)
    /\ w < Share(c)
    /\ cpc[c] = "raise" => w < cv[c]
    /\ cpc[c] = "poll" => w >= cv[c]

HandOver ==
  /\ FlagServed
  /\ \A c \in Callers : cpc[c] \in {"raise", "self", "poll"} => task[idx[c]] = c
  /\ \A w \in Workers : wpc[w] \in {"fetch", "run", "lower"} => w \in raised[wslot[w]]
  /\ \A w \in Workers : wpc[w] \in {"run", "lower"} => wtask[w] = task[wslot[w]]

LEMMA InitHandOver == Init => HandOver
BY DEF Init, HandOver, FlagServed

\* The session that owns a slot is the only one that can serve it.
LEMMA OneServer ==
  ASSUME SlotsOwned, NEW c \in Callers, NEW d \in Callers, NEW s \in Slots,
         idx[c] = s, cpc[c] # "deactivate", Serves(d, s)
  PROVE  d = c
BY DEF SlotsOwned, SlotExclusive, Holds, Serves

\* A worker that is busy is busy with one of the slots.
LEMMA BusySlot ==
  ASSUME Typing, NEW w \in Workers, wpc[w] \in {"fetch", "run", "lower"}
  PROVE  wslot[w] \in Slots
BY MaxTasksAssumption DEF Typing, TypeOK, LoopBounds, Slots

LEMMA WorkerHandOver ==
  ASSUME Typing, HandOver, NEW w \in Workers, WorkerStep(w) \/ SpuriousWakeup(w)
  PROVE  HandOver'
<1> USE DEF Typing, TypeOK
<1>1. UNCHANGED <<task, cpc, idx, size, cv>>  BY WorkerKeepsCallers
<1>2. ASSUME UNCHANGED raised  PROVE FlagServed'
  BY <1>1, <1>2 DEF HandOver, FlagServed, Serves, Share
<1>3. ASSUME UNCHANGED <<raised, wtask>>,
             NEW to, to \notin {"fetch", "run", "lower"}, wpc' = [wpc EXCEPT ![w] = to],
             \A v \in Workers : v # w => wslot'[v] = wslot[v]
      PROVE  HandOver'
  BY <1>1, <1>2, <1>3 DEF HandOver
<1>4. CASE TestStop(w)  BY <1>3, <1>4 DEF TestStop, WGoto, pool
<1>5. CASE TestActive(w)  BY <1>3, <1>5 DEF TestActive, WGoto, pool
<1>6. CASE Scan(w)
  <2> USE <1>6 DEF Scan, WGoto, pool
  <2>1. CASE wpc'[w] = "fetch"
    <3>1. w \in raised[wslot[w]] /\ UNCHANGED <<raised, wtask, wslot>>  BY <2>1
    <3>2. \A v \in Workers : v # w => wpc'[v] = wpc[v]  OBVIOUS
    <3> QED  BY <1>1, <1>2, <2>1, <3>1, <3>2 DEF HandOver
  <2>2. CASE wpc'[w] # "fetch"
    <3>1. UNCHANGED <<raised, wtask>>  OBVIOUS
    <3>2. \A v \in Workers : v # w => wpc'[v] = wpc[v] /\ wslot'[v] = wslot[v]  OBVIOUS
    <3>3. wpc'[w] \notin {"fetch", "run", "lower"}  BY <2>2
    <3> QED  BY <1>1, <1>2, <3>1, <3>2, <3>3 DEF HandOver
  <2> QED  BY <2>1, <2>2
<1>7. CASE Fetch(w)
  <2> USE <1>7 DEF Fetch, WGoto, pool
  <2>1. UNCHANGED <<raised, wslot>>  OBVIOUS
  <2>2. wtask'[w] = task[wslot[w]] /\ wpc'[w] = "run" /\ wpc[w] = "fetch"  OBVIOUS
  <2>3. \A v \in Workers : v # w => wpc'[v] = wpc[v] /\ wtask'[v] = wtask[v]  OBVIOUS
  <2> QED  BY <1>1, <1>2, <2>1, <2>2, <2>3 DEF HandOver
<1>8. CASE WorkerRun(w)
  <2> USE <1>8 DEF WorkerRun, WGoto, pool
  <2>1. UNCHANGED <<raised, wslot, wtask>>  OBVIOUS
  <2>2. wpc[w] = "run" /\ wpc'[w] \in {"run", "lower"}  OBVIOUS
  <2>3. \A v \in Workers : v # w => wpc'[v] = wpc[v]  OBVIOUS
  <2> QED  BY <1>1, <1>2, <2>1, <2>2, <2>3 DEF HandOver
<1>9. CASE Lower(w)
  <2> USE <1>9 DEF Lower, WGoto
  <2>1. wslot[w] \in Slots  BY BusySlot
  <2>2. \A s \in Slots : raised'[s] = IF s = wslot[w] THEN raised[s] \ {w} ELSE raised[s]
    BY <2>1
  <2>3. FlagServed'  BY <1>1, <2>2 DEF HandOver, FlagServed, Serves, Share
  <2>4. \A v \in Workers : v # w => /\ wpc'[v] = wpc[v] /\ wtask'[v] = wtask[v]
                                    /\ wslot'[v] = wslot[v]
    OBVIOUS
  <2>5. wpc'[w] = "scan"  OBVIOUS
  <2>6. \A v \in Workers : wpc[v] \in {"fetch", "run", "lower"} => wslot[v] \in Slots
    BY BusySlot
  <2> QED  BY <1>1, <2>2, <2>3, <2>4, <2>5, <2>6 DEF HandOver
<1>10. CASE Wait(w)  BY <1>3, <1>10 DEF Wait, WGoto
<1>11. CASE Sleep(w)  BY <1>3, <1>11 DEF Sleep, WGoto
<1>12. CASE SpuriousWakeup(w)  BY <1>3, <1>12 DEF SpuriousWakeup, WGoto, pool
<1> QED  BY <1>4, <1>5, <1>6, <1>7, <1>8, <1>9, <1>10, <1>11, <1>12 DEF WorkerStep

\* A step of a session that serves no slot before and after it.
LEMMA HandOverKept ==
  ASSUME Typing, HandOver, NEW c \in Callers,
         UNCHANGED <<task, raised, wslot, wtask>>,
         \A w \in Workers : wpc'[w] \in {"fetch", "run", "lower"} => wpc'[w] = wpc[w],
         \A d \in Callers : d # c => /\ cpc'[d] = cpc[d] /\ idx'[d] = idx[d]
                                     /\ size'[d] = size[d] /\ cv'[d] = cv[d],
         cpc[c] \notin {"raise", "self", "poll"},
         cpc'[c] \notin {"raise", "self", "poll"}
  PROVE  HandOver'
<1>1. FlagServed'
  <2> SUFFICES ASSUME NEW s \in Slots, NEW w \in raised[s]
               PROVE  \E d \in Callers : /\ Serves(d, s)' /\ w < Share(d)'
                                         /\ cpc'[d] = "raise" => w < cv'[d]
                                         /\ cpc'[d] = "poll" => w >= cv'[d]
    BY DEF FlagServed
  <2>1. PICK d \in Callers : /\ Serves(d, s) /\ w < Share(d)
                             /\ cpc[d] = "raise" => w < cv[d]
                             /\ cpc[d] = "poll" => w >= cv[d]
    BY DEF HandOver, FlagServed
  <2>2. d # c  BY <2>1 DEF Serves
  <2> QED  BY <2>1, <2>2 DEF Serves, Share
<1> QED  BY <1>1 DEF HandOver

LEMMA CallerHandOver ==
  ASSUME Typing, SlotsOwned, HandOver, NEW c \in Callers, CallerStep(c)
  PROVE  HandOver'
<1> USE DEF Typing, TypeOK
<1>1. CASE AcquireWorkIndex(c)
  BY <1>1, HandOverKept DEF AcquireWorkIndex, Take, CGoto, workerVars
<1>2. CASE Active(c)  BY <1>2, HandOverKept DEF Active, CGoto, workerVars
<1>3. CASE ActiveNotify(c)
  BY <1>3, HandOverKept DEF ActiveNotify, NotifyAll, CGoto, pool
<1>4. ASSUME NEW k \in 0 .. MaxWork, Enqueue(c, k)  PROVE HandOver'
  BY <1>4, HandOverKept DEF Enqueue, CGoto, pool, workerVars
<1>5. CASE RunSerial(c)
  BY <1>5, HandOverKept DEF RunSerial, RunOwn, CGoto, pool, workerVars
<1>6. CASE ReleaseWorkIndex(c)
  BY <1>6, HandOverKept DEF ReleaseWorkIndex, AfterRelease, CGoto, workerVars
<1>7. CASE Deactive(c)  BY <1>7, HandOverKept DEF Deactive, CGoto, workerVars
<1>8. CASE Publish(c)
  <2> USE <1>8 DEF Publish, CGoto, workerVars
  <2> DEFINE s == idx[c]
  <2>1. s \in Slots  BY DEF SlotsOwned
  <2>2. \A d \in Callers : ~ Serves(d, s)
    <3>1. ASSUME NEW d \in Callers, Serves(d, s)  PROVE FALSE
      <4>1. d = c  BY <2>1, <3>1, OneServer
      <4> QED  BY <3>1, <4>1 DEF Serves
    <3> QED  BY <3>1
  <2>3. raised[s] = {}  BY <2>1, <2>2 DEF HandOver, FlagServed
  <2>4. \A w \in Workers : wpc[w] \in {"fetch", "run", "lower"} =>
                            wslot[w] \in Slots /\ wslot[w] # s
    BY <2>3, BusySlot DEF HandOver
  <2>5. \A t \in Slots : task'[t] = IF t = s THEN c ELSE task[t]  OBVIOUS
  <2>6. \A d \in Callers : d # c => /\ cpc'[d] = cpc[d] /\ cv'[d] = cv[d]
                                    /\ idx'[d] = idx[d] /\ size'[d] = size[d]
    OBVIOUS
  <2>7. FlagServed'
    <3> SUFFICES ASSUME NEW t \in Slots, NEW w \in raised[t]
                 PROVE  \E d \in Callers : /\ Serves(d, t)' /\ w < Share(d)'
                                           /\ cpc'[d] = "raise" => w < cv'[d]
                                           /\ cpc'[d] = "poll" => w >= cv'[d]
      BY DEF FlagServed
    <3>1. PICK d \in Callers : /\ Serves(d, t) /\ w < Share(d)
                               /\ cpc[d] = "raise" => w < cv[d]
                               /\ cpc[d] = "poll" => w >= cv[d]
      BY DEF HandOver, FlagServed
    <3>2. d # c  BY <3>1 DEF Serves
    <3> QED  BY <2>6, <3>1, <3>2 DEF Serves, Share
  <2>8. ASSUME NEW d \in Callers, cpc'[d] \in {"raise", "self", "poll"}
        PROVE  task'[idx'[d]] = d
    <3>1. CASE d = c  BY <2>1, <2>5, <3>1
    <3>2. CASE d # c
      <4>1. Serves(d, idx[d]) /\ idx[d] \in Slots  BY <2>6, <2>8, <3>2 DEF Serves, SlotsOwned
      <4>2. idx[d] # s  BY <2>2, <4>1
      <4>3. task[idx[d]] = d  BY <4>1 DEF HandOver, Serves
      <4> QED  BY <2>5, <4>1, <4>2, <4>3
    <3> QED  BY <3>1, <3>2
  <2>9. UNCHANGED <<raised, wpc, wslot, wtask>>  OBVIOUS
  <2> QED  BY <2>4, <2>5, <2>7, <2>8, <2>9 DEF HandOver
<1>9. CASE Raise(c)
  <2> USE <1>9 DEF Raise, CGoto, workerVars
  <2>1. idx[c] \in Slots /\ cpc[c] = "raise" /\ cv[c] \in Nat  BY DEF SlotsOwned
  <2>2. \A d \in Callers : d # c => /\ cpc'[d] = cpc[d] /\ cv'[d] = cv[d]
    OBVIOUS
  <2>3. UNCHANGED <<idx, size, task, wpc, wslot, wtask>>  OBVIOUS
  <2>4. CASE cv[c] < Share(c)
    <3>1. \A s \in Slots :
            raised'[s] = IF s = idx[c] THEN raised[s] \cup {cv[c]} ELSE raised[s]
      BY <2>1, <2>4
    <3>2. cpc' = cpc /\ cv'[c] = cv[c] + 1  BY <2>4
    <3>3. FlagServed'
      <4> SUFFICES ASSUME NEW t \in Slots, NEW w \in raised'[t]
                   PROVE  \E d \in Callers : /\ Serves(d, t)' /\ w < Share(d)'
                                             /\ cpc'[d] = "raise" => w < cv'[d]
                                             /\ cpc'[d] = "poll" => w >= cv'[d]
        BY DEF FlagServed
      <4>1. CASE w \in raised[t]
        <5>1. PICK d \in Callers : /\ Serves(d, t) /\ w < Share(d)
                                   /\ cpc[d] = "raise" => w < cv[d]
                                   /\ cpc[d] = "poll" => w >= cv[d]
          BY <4>1 DEF HandOver, FlagServed
        <5>2. w \in Int  BY <4>1 DEF Workers
        <5>3. CASE d = c
          <6>1. w < cv[c] + 1  BY <2>1, <5>1, <5>2, <5>3
          <6> QED  BY <2>1, <2>3, <3>2, <5>1, <5>3, <6>1 DEF Serves, Share
        <5>4. CASE d # c  BY <2>2, <2>3, <5>1, <5>4 DEF Serves, Share
        <5> QED  BY <5>3, <5>4
      <4>2. CASE w \notin raised[t]
        <5>1. t = idx[c] /\ w = cv[c]  BY <3>1, <4>2
        <5>2. cv[c] < cv[c] + 1  BY <2>1
        <5> QED  BY <2>1, <2>3, <2>4, <3>2, <5>1, <5>2 DEF Serves, Share
      <4> QED  BY <4>1, <4>2
    <3> QED  BY <2>3, <3>1, <3>2, <3>3, BusySlot DEF HandOver
  <2>5. CASE ~ (cv[c] < Share(c))
    <3>1. UNCHANGED raised /\ cpc'[c] = "self"  BY <2>5
    <3>2. FlagServed'  BY <2>1, <2>2, <2>3, <3>1 DEF HandOver, FlagServed, Serves, Share
    <3>3. \A d \in Callers : cpc'[d] \in {"raise", "self", "poll"}
                            => cpc[d] \in {"raise", "self", "poll"}
      BY <2>1, <2>2
    <3> QED  BY <2>3, <3>1, <3>2, <3>3 DEF HandOver
  <2> QED  BY <2>4, <2>5
<1>10. CASE RunSelf(c)
  <2> USE <1>10 DEF RunSelf, RunOwn, CGoto, pool, workerVars
  <2>1. cpc[c] = "self" /\ (cpc'[c] = "self" \/ (cpc'[c] = "poll" /\ cv'[c] = 1))
    OBVIOUS
  <2>2. \A d \in Callers : d # c => /\ cpc'[d] = cpc[d] /\ cv'[d] = cv[d]
    OBVIOUS
  <2>3. UNCHANGED <<idx, size, task, raised, wpc, wslot, wtask>>  OBVIOUS
  <2>4. \A s \in Slots : \A w \in raised[s] : w >= 1  BY DEF Workers
  <2>5. FlagServed'
    BY <2>1, <2>2, <2>3, <2>4 DEF HandOver, FlagServed, Serves, Share
  <2>6. \A d \in Callers : cpc'[d] \in {"raise", "self", "poll"}
                          => cpc[d] \in {"raise", "self", "poll"}
    BY <2>1, <2>2
  <2> QED  BY <2>3, <2>5, <2>6 DEF HandOver
<1>11. CASE Poll(c)
  <2> USE <1>11 DEF Poll, CGoto, pool, workerVars
  <2>1. cpc[c] = "poll" /\ idx[c] \in Slots /\ cv[c] \in Nat  BY DEF SlotsOwned
  <2>2. \A d \in Callers : d # c => /\ cpc'[d] = cpc[d] /\ cv'[d] = cv[d]
    OBVIOUS
  <2>3. UNCHANGED <<idx, size, task, raised, wpc, wslot, wtask>>  OBVIOUS
  <2>4. \A w \in raised[idx[c]] : w < Share(c) /\ w >= cv[c] /\ w \in Workers
    <3> SUFFICES ASSUME NEW w \in raised[idx[c]] PROVE w < Share(c) /\ w >= cv[c]
      BY <2>1
    <3>1. PICK d \in Callers : /\ Serves(d, idx[c]) /\ w < Share(d)
                               /\ cpc[d] = "poll" => w >= cv[d]
      BY <2>1 DEF HandOver, FlagServed
    <3>2. d = c  BY <2>1, <3>1, OneServer
    <3> QED  BY <2>1, <3>1, <3>2
  <2>5. FlagServed'
    <3> SUFFICES ASSUME NEW t \in Slots, NEW w \in raised[t]
                 PROVE  \E d \in Callers : /\ Serves(d, t)' /\ w < Share(d)'
                                           /\ cpc'[d] = "raise" => w < cv'[d]
                                           /\ cpc'[d] = "poll" => w >= cv'[d]
      BY <2>3 DEF FlagServed
    <3>1. PICK d \in Callers : /\ Serves(d, t) /\ w < Share(d)
                               /\ cpc[d] = "raise" => w < cv[d]
                               /\ cpc[d] = "poll" => w >= cv[d]
      BY DEF HandOver, FlagServed
    <3>2. CASE d # c  BY <2>2, <2>3, <3>1, <3>2 DEF Serves, Share
    <3>3. CASE d = c
      <4>1. t = idx[c] /\ w < Share(c) /\ w >= cv[c] /\ w \in Workers
        BY <2>4, <3>1, <3>3 DEF Serves
      <4>2. cv[c] < Share(c)
        BY <2>1, <4>1, NAssumption DEF Share, Workers
      <4>3. cpc' = cpc /\ cv'[c] = Polled(c)  BY <4>2
      <4>4. w >= Polled(c)  BY <2>1, <4>1 DEF Polled, Workers
      <4> QED  BY <2>1, <2>3, <3>1, <3>3, <4>3, <4>4 DEF Serves, Share
    <3> QED  BY <3>2, <3>3
  <2>6. \A d \in Callers : cpc'[d] \in {"raise", "self", "poll"}
                          => cpc[d] \in {"raise", "self", "poll"}
    BY <2>1, <2>2
  <2> QED  BY <2>3, <2>5, <2>6 DEF HandOver
<1> QED  BY <1>1, <1>2, <1>3, <1>4, <1>5, <1>6, <1>7, <1>8, <1>9, <1>10, <1>11
         DEF CallerStep, InEnqueue

LEMMA NextHandOver ==
  Typing /\ SlotsOwned /\ HandOver /\ [Next]_vars => HandOver'
<1> SUFFICES ASSUME Typing, SlotsOwned, HandOver, [Next]_vars PROVE HandOver'
  OBVIOUS
<1>1. ASSUME NEW w \in Workers, WorkerStep(w) \/ SpuriousWakeup(w)  PROVE HandOver'
  BY <1>1, WorkerHandOver
<1>2. ASSUME NEW c \in Callers, CallerStep(c)  PROVE HandOver'
  BY <1>2, CallerHandOver
<1>3. CASE Stop \/ StopNotify \/ Join \/ UNCHANGED vars
  <2>1. /\ UNCHANGED <<wslot, wtask>>
        /\ \A w \in Workers : wpc'[w] \in {"fetch", "run", "lower"} => wpc'[w] = wpc[w]
    BY <1>3 DEF Stop, StopNotify, NotifyAll, Join, vars, workerVars, Typing, TypeOK
  <2>2. FlagServed'
    BY <1>3, DestroyKeepsCallers DEF HandOver, FlagServed, Serves, Share
  <2> QED  BY <1>3, <2>1, <2>2, DestroyKeepsCallers DEF HandOver
<1> QED  BY <1>1, <1>2, <1>3 DEF Next, Destroyed

LEMMA HandOverSafe ==
  ASSUME Typing, SlotsOwned, HandOver
  PROVE  TaskAlive /\ PublishUnread
<1> USE DEF Typing, TypeOK
<1>1. TaskAlive
  <2> SUFFICES ASSUME NEW w \in Workers, wpc[w] \in {"fetch", "run", "lower"}
               PROVE  /\ wslot[w] \in Slots
                      /\ w \in raised[wslot[w]]
                      /\ \E c \in Callers :
                           /\ task[wslot[w]] = c /\ idx[c] = wslot[w]
                           /\ cpc[c] \in {"raise", "self", "poll"}
                           /\ wpc[w] \in {"run", "lower"} => wtask[w] = c
    BY DEF TaskAlive
  <2>1. wslot[w] \in Slots /\ w \in raised[wslot[w]]  BY BusySlot DEF HandOver
  <2>2. PICK c \in Callers : Serves(c, wslot[w])  BY <2>1 DEF HandOver, FlagServed
  <2> QED  BY <2>1, <2>2 DEF HandOver, Serves
<1>2. PublishUnread
  <2> SUFFICES ASSUME NEW c \in Callers, cpc[c] = "publish"  PROVE raised[idx[c]] = {}
    BY DEF PublishUnread
  <2>1. idx[c] \in Slots  BY DEF SlotsOwned
  <2>2. ASSUME NEW d \in Callers, Serves(d, idx[c])  PROVE FALSE
    <3>1. d = c  BY <2>1, <2>2, OneServer
    <3> QED  BY <2>2, <3>1 DEF Serves
  <2> QED  BY <2>1, <2>2 DEF HandOver, FlagServed
<1> QED  BY <1>1, <1>2

\* No worker runs a task after the enqueue that shared it has returned.
THEOREM TasksOutliveWorkers == Spec => []TaskAlive
BY InitTyping, NextTyping, InitSlots, NextSlots, InitHandOver, NextHandOver,
   HandOverSafe, PTL DEF Spec

\* mTasks[index].first is never written while a worker may read it.
THEOREM PublishIsUnread == Spec => []PublishUnread
BY InitTyping, NextTyping, InitSlots, NextSlots, InitHandOver, NextHandOver,
   HandOverSafe, PTL DEF Spec

------------------------------------------------------------------------------
(***************************************************************************)
(* A task that is spread over the pool runs every index exactly once, for  *)
(* every pool size and every task size.  The argument needs no history:    *)
(* which indices have run follows from where the threads are.              *)
(***************************************************************************)

\* Division with remainder by the number of threads.
LEMMA DivMod ==
  \A a \in Nat : /\ a % N \in 0 .. N - 1
                 /\ a \div N \in Nat
                 /\ a = N * (a \div N) + (a % N)
BY NAssumption

LEMMA SmallMod == \A a \in Nat : a < N => a % N = a
BY NAssumption

LEMMA Multiples ==
  ASSUME NEW x \in Nat, NEW y \in Nat, x < y
  PROVE  N * x \in Nat /\ N * y \in Nat /\ N * x + N <= N * y
<1> DEFINE d == y - x - 1
<1>1. d \in Nat /\ y = x + 1 + d  OBVIOUS
<1> HIDE DEF d
<1>2. N * (x + 1 + d) = N * x + N + N * d  BY <1>1, NAssumption
<1>3. N * d >= 0 /\ N * x \in Nat  BY <1>1, NAssumption
<1>4. N * y \in Nat  BY NAssumption
<1> QED  BY <1>1, <1>2, <1>3, <1>4, NAssumption

\* Two indices of one thread are a whole stride apart.
LEMMA StrideApart ==
  ASSUME NEW a \in Nat, NEW b \in Nat, a % N = b % N, b <= a, a < b + N
  PROVE  a = b
<1>1. a = N * (a \div N) + (a % N) /\ a \div N \in Nat /\ a % N \in Int
  BY DivMod
<1>2. b = N * (b \div N) + (b % N) /\ b \div N \in Nat  BY DivMod
<1>3. ~ (b \div N < a \div N)
  <2> SUFFICES ASSUME b \div N < a \div N PROVE FALSE  OBVIOUS
  <2>1. /\ N * (b \div N) \in Nat /\ N * (a \div N) \in Nat
        /\ N * (b \div N) + N <= N * (a \div N)
    BY <1>1, <1>2, Multiples
  <2> QED  BY <1>1, <1>2, <2>1, NAssumption
<1>4. ~ (a \div N < b \div N)
  <2> SUFFICES ASSUME a \div N < b \div N PROVE FALSE  OBVIOUS
  <2>1. /\ N * (b \div N) \in Nat /\ N * (a \div N) \in Nat
        /\ N * (a \div N) + N <= N * (b \div N)
    BY <1>1, <1>2, Multiples
  <2> QED  BY <1>1, <1>2, <2>1, NAssumption
<1>5. a \div N = b \div N  BY <1>1, <1>2, <1>3, <1>4
<1> QED  BY <1>1, <1>2, <1>5

\* v += N stays with the thread.
LEMMA StrideMod ==
  ASSUME NEW a \in Nat
  PROVE  a + N \in Nat /\ (a + N) % N = a % N
<1> DEFINE q == a \div N
           r == a % N
           p == (a + N) \div N
           s == (a + N) % N
<1>1. a = N * q + r /\ q \in Nat /\ r \in 0 .. N - 1  BY DivMod
<1>2. a + N = N * p + s /\ p \in Nat /\ s \in 0 .. N - 1 /\ a + N \in Nat
  BY DivMod, NAssumption
<1>3. N * (q + 1) = N * q + N /\ N * q \in Nat /\ N * p \in Nat
  BY <1>1, <1>2, NAssumption
<1> HIDE DEF q, r, p, s
<1>4. ~ (q + 1 < p)
  <2> SUFFICES ASSUME q + 1 < p PROVE FALSE  OBVIOUS
  <2>1. N * (q + 1) + N <= N * p  BY <1>1, <1>2, Multiples
  <2> QED  BY <1>1, <1>2, <1>3, <2>1, NAssumption
<1>5. ~ (p < q + 1)
  <2> SUFFICES ASSUME p < q + 1 PROVE FALSE  OBVIOUS
  <2>1. N * p + N <= N * (q + 1)  BY <1>1, <1>2, Multiples
  <2> QED  BY <1>1, <1>2, <1>3, <2>1, NAssumption
<1>6. p = q + 1  BY <1>1, <1>2, <1>4, <1>5
<1>7. N * p = N * q + N  BY <1>3, <1>6
<1>8. s = r  BY <1>1, <1>2, <1>3, <1>7, NAssumption
<1> QED  BY <1>2, <1>8 DEF s, r

--------------------------------------------------------------------------------
\* Whether index v of the task of c has run, read off the control state alone:
\* index v is the business of thread v % N.
WorkerDone(c, t, v) ==
  IF Works(t, idx[c]) THEN wpc[t] = "lower" \/ v < wv[t]
  ELSE t \notin raised[idx[c]] /\ (cpc[c] = "raise" => t < cv[c])

Done(c, v) ==
  /\ v < size[c]
  /\ \/ cpc[c] = "open"
     \/ cpc[c] = "serial" /\ v < cv[c]
     \/ v % N = 0 /\ (cpc[c] = "poll" \/ (cpc[c] = "self" /\ v < cv[c]))
     \/ v % N # 0 /\ cpc[c] \in {"raise", "self", "poll"} /\ WorkerDone(c, v % N, v)

Accounted ==
  \A c \in Callers, v \in Indices : ran[c][v] = IF Done(c, v) THEN 1 ELSE 0

Cursors ==
  /\ \A c \in Callers : cpc[c] \in {"idle", "activate", "notify", "deactivate"} => size[c] = 0
  /\ \A c \in Callers : cpc[c] = "self" => cv[c] % N = 0
  /\ \A w \in Workers : wpc[w] = "run" => wv[w] % N = w

\* The thread of an index is one the task is spread over.
LEMMA ThreadOf ==
  ASSUME Typing, NEW c \in Callers, NEW v \in Indices
  PROVE  /\ v \in Nat
         /\ v % N \in 0 .. N - 1
         /\ v % N # 0 => v % N \in Workers
         /\ v < size[c] => v % N < Share(c)
<1>1. v \in Nat  BY MaxWorkAssumption DEF Indices
<1>2. v % N \in 0 .. N - 1  BY <1>1, DivMod
<1>3. v % N # 0 => v % N \in Workers  BY <1>2, NAssumption DEF Workers
<1>4. size[c] \in Nat  BY MaxWorkAssumption DEF Typing, TypeOK
<1>5. v < size[c] => v % N < Share(c)
  <2>1. CASE size[c] > N  BY <1>2, <2>1, NAssumption DEF Share
  <2>2. CASE ~ (size[c] > N)
    <3>1. v < size[c] => v % N = v  BY <1>1, <1>4, <2>2, SmallMod, NAssumption
    <3> QED  BY <2>2, <3>1 DEF Share
  <2> QED  BY <2>1, <2>2
<1> QED  BY <1>1, <1>2, <1>3, <1>5

\* What Done reads of a session and of the workers of its slot.
LEMMA DoneKept ==
  ASSUME Typing, NEW d \in Callers,
         cpc'[d] = cpc[d], idx'[d] = idx[d], size'[d] = size[d], cv'[d] = cv[d],
         \/ cpc[d] \notin {"raise", "self", "poll"}
         \/ /\ raised'[idx[d]] = raised[idx[d]]
            /\ \A w \in Workers : Works(w, idx[d])' <=> Works(w, idx[d])
            /\ \A w \in Workers : Works(w, idx[d])
                                  => wpc'[w] = wpc[w] /\ wv'[w] = wv[w]
  PROVE  \A v \in Indices : Done(d, v)' <=> Done(d, v)
<1> SUFFICES ASSUME NEW v \in Indices PROVE Done(d, v)' <=> Done(d, v)  OBVIOUS
<1>1. CASE cpc[d] \notin {"raise", "self", "poll"}  BY <1>1 DEF Done
<1>2. CASE cpc[d] \in {"raise", "self", "poll"}
  <2> DEFINE t == v % N
  <2>1. t # 0 => t \in Workers  BY ThreadOf
  <2>2. t # 0 => (WorkerDone(d, t, v)' <=> WorkerDone(d, t, v))
    BY <1>2, <2>1 DEF WorkerDone, Works
  <2> HIDE DEF t
  <2> QED  BY <1>2, <2>2 DEF Done, t
<1> QED  BY <1>1, <1>2

LEMMA AccountKept ==
  ASSUME Accounted, UNCHANGED ran,
         \A d \in Callers : \A v \in Indices : Done(d, v)' <=> Done(d, v)
  PROVE  Accounted'
BY DEF Accounted

LEMMA InitAccounted == Init => Accounted /\ Cursors
<1> SUFFICES ASSUME Init PROVE Accounted /\ Cursors  OBVIOUS
<1>1. \A c \in Callers, v \in Indices : ~ (v < 0)  BY MaxWorkAssumption DEF Indices
<1>2. Accounted  BY <1>1 DEF Init, Accounted, Done, NothingRan
<1>3. Cursors  BY DEF Init, Cursors
<1> QED  BY <1>2, <1>3

--------------------------------------------------------------------------------
\* A busy worker works for the one session that serves its slot.
LEMMA BusyFor ==
  ASSUME Typing, SlotsOwned, HandOver,
         NEW w \in Workers, wpc[w] \in {"fetch", "run", "lower"}
  PROVE  \E c \in Callers :
           /\ Serves(c, wslot[w]) /\ w \in raised[wslot[w]]
           /\ wslot[w] \in Slots /\ w < Share(c)
           /\ cpc[c] = "raise" => w < cv[c]
           /\ wpc[w] \in {"run", "lower"} => wtask[w] = c
           /\ \A d \in Callers : Serves(d, wslot[w]) => d = c
<1>1. wslot[w] \in Slots /\ w \in raised[wslot[w]]  BY BusySlot DEF HandOver
<1>2. PICK c \in Callers : /\ Serves(c, wslot[w]) /\ w < Share(c)
                           /\ cpc[c] = "raise" => w < cv[c]
  BY <1>1 DEF HandOver, FlagServed
<1>3. \A d \in Callers : Serves(d, wslot[w]) => d = c
  BY <1>1, <1>2, OneServer DEF Serves
<1>4. wpc[w] \in {"run", "lower"} => wtask[w] = c  BY <1>2 DEF HandOver, Serves
<1> QED  BY <1>1, <1>2, <1>3, <1>4

\* A worker that is not busy before nor after its step.
LEMMA IdleWorker ==
  ASSUME Typing, Accounted, Cursors, NEW w \in Workers,
         UNCHANGED <<raised, cpc, idx, size, cv, ran>>,
         wpc[w] \notin {"run", "lower"}, wpc'[w] \notin {"run", "lower"},
         \A v \in Workers : v # w => /\ wpc'[v] = wpc[v] /\ wv'[v] = wv[v]
                                    /\ wslot'[v] = wslot[v]
  PROVE  Accounted' /\ Cursors'
<1>1. ASSUME NEW d \in Callers  PROVE \A v \in Indices : Done(d, v)' <=> Done(d, v)
  BY DoneKept DEF Works
<1>2. Accounted'  BY <1>1, AccountKept
<1>3. Cursors'  BY DEF Cursors
<1> QED  BY <1>2, <1>3

\* The step that begins a share: nothing of it has run.
LEMMA FetchAccounted ==
  ASSUME Typing, SlotsOwned, HandOver, Accounted, Cursors, NEW w \in Workers, Fetch(w)
  PROVE  Accounted' /\ Cursors'
<1> USE DEF Fetch, WGoto, pool, callerVars
<1>1. w \in raised[wslot[w]] /\ wpc[w] = "fetch"  BY DEF HandOver
<1>2. /\ wpc'[w] = "run" /\ wv'[w] = w
      /\ \A u \in Workers : u # w => wpc'[u] = wpc[u] /\ wv'[u] = wv[u]
      /\ UNCHANGED <<raised, wslot, cpc, idx, size, cv, ran>>
  BY DEF Typing, TypeOK
<1>3. w \in Nat /\ w < N  BY NAssumption DEF Workers
<1>4. w % N = w  BY <1>3, SmallMod
<1>5. ASSUME NEW d \in Callers, NEW v \in Indices  PROVE Done(d, v)' <=> Done(d, v)
  <2> DEFINE t == v % N
  <2>1. v \in Nat /\ (t # 0 => t \in Workers)  BY ThreadOf
  <2>2. t # 0 => (WorkerDone(d, t, v)' <=> WorkerDone(d, t, v))
    <3> SUFFICES ASSUME t # 0 PROVE WorkerDone(d, t, v)' <=> WorkerDone(d, t, v)
      OBVIOUS
    <3>1. CASE t = w /\ wslot[w] = idx[d]
      <4>1. ~ (v < w)  BY <2>1, <1>3, <3>1, SmallMod, NAssumption
      <4>2. Works(w, idx[d])' /\ ~ Works(w, idx[d])  BY <1>1, <1>2, <3>1 DEF Works
      <4>3. ~ WorkerDone(d, w, v)'  BY <1>2, <4>1, <4>2 DEF WorkerDone
      <4>4. ~ WorkerDone(d, w, v)  BY <1>1, <3>1, <4>2 DEF WorkerDone
      <4> QED  BY <3>1, <4>3, <4>4
    <3>2. CASE t # w \/ wslot[w] # idx[d]
      <4>1. Works(t, idx[d])' <=> Works(t, idx[d])  BY <1>1, <1>2, <2>1, <3>2 DEF Works
      <4>2. Works(t, idx[d]) => t # w  BY <1>1 DEF Works
      <4> QED  BY <1>2, <2>1, <4>1, <4>2 DEF WorkerDone
    <3> QED  BY <3>1, <3>2
  <2> HIDE DEF t
  <2> QED  BY <1>2, <2>2 DEF Done, t
<1>6. Accounted'  BY <1>2, <1>5, AccountKept
<1>7. Cursors'  BY <1>2, <1>4 DEF Cursors
<1> QED  BY <1>6, <1>7

\* A step of worker w leaves what Done reads of the sessions on other slots.
LEMMA OtherSession ==
  ASSUME Typing, NEW w \in Workers, NEW d \in Callers,
         UNCHANGED <<cpc, idx, size, cv>>,
         cpc[d] \in {"raise", "self", "poll"} => idx[d] # wslot[w],
         wslot'[w] = wslot[w] \/ wpc'[w] = "scan",
         \A s \in Slots : s # wslot[w] => raised'[s] = raised[s],
         \A u \in Workers : u # w => /\ wpc'[u] = wpc[u] /\ wv'[u] = wv[u]
                                    /\ wslot'[u] = wslot[u],
         cpc[d] \in {"raise", "self", "poll"} => idx[d] \in Slots
  PROVE  \A v \in Indices : Done(d, v)' <=> Done(d, v)
<1>1. CASE cpc[d] \notin {"raise", "self", "poll"}  BY <1>1, DoneKept
<1>2. CASE cpc[d] \in {"raise", "self", "poll"}
  <2>1. raised'[idx[d]] = raised[idx[d]]  BY <1>2
  <2>2. ~ Works(w, idx[d]) /\ ~ Works(w, idx[d])'  BY <1>2 DEF Works
  <2>3. \A u \in Workers : Works(u, idx[d])' <=> Works(u, idx[d])
    BY <2>2 DEF Works
  <2>4. \A u \in Workers : Works(u, idx[d]) => wpc'[u] = wpc[u] /\ wv'[u] = wv[u]
    BY <2>2
  <2> QED  BY <2>1, <2>3, <2>4, DoneKept
<1> QED  BY <1>1, <1>2

\* A session in a parallel section has a slot.
LEMMA ServerSlot ==
  ASSUME Typing, SlotsOwned, HandOver, NEW c \in Callers,
         cpc[c] \in {"publish", "raise", "self", "poll"}
  PROVE  idx[c] \in Slots
BY DEF SlotsOwned, Typing, TypeOK

LEMMA RunAccounted ==
  ASSUME Typing, SlotsOwned, HandOver, Accounted, Cursors,
         NEW w \in Workers, WorkerRun(w)
  PROVE  Accounted' /\ Cursors'
<1> USE DEF WorkerRun, WGoto, pool, callerVars
<1>1. wpc[w] = "run"  OBVIOUS
<1>2. PICK c \in Callers :
         /\ c = wtask[w] /\ Serves(c, wslot[w]) /\ wslot[w] \in Slots
         /\ \A d \in Callers : Serves(d, wslot[w]) => d = c
  BY <1>1, BusyFor
<1>3. PICK n \in Nat :
         /\ n = wv[w] /\ n % N = w /\ w # 0 /\ w \in Nat
         /\ size[c] \in Nat /\ size[c] <= MaxWork
  BY <1>1, <1>2, MaxWorkAssumption, NAssumption DEF Cursors, Typing, TypeOK, Workers
<1>4. /\ UNCHANGED <<raised, wslot, cpc, idx, size, cv>>
      /\ \A u \in Workers : u # w => wpc'[u] = wpc[u] /\ wv'[u] = wv[u]
  BY DEF Typing, TypeOK
<1>5. ASSUME NEW d \in Callers, d # c
      PROVE  \A v \in Indices : Done(d, v)' <=> Done(d, v)
  <2>1. cpc[d] \in {"raise", "self", "poll"} => idx[d] # wslot[w]
    BY <1>2, <1>5 DEF Serves
  <2>2. cpc[d] \in {"raise", "self", "poll"} => idx[d] \in Slots  BY ServerSlot
  <2> QED  BY <1>4, <2>1, <2>2, OtherSession
<1>6. Works(w, idx[c]) /\ Works(w, idx[c])' /\ idx[c] = wslot[w]
  BY <1>1, <1>2, <1>4 DEF Works, Serves, Typing, TypeOK
<1>7. ASSUME NEW v \in Indices, v % N # w
      PROVE  Done(c, v)' <=> Done(c, v)
  <2> DEFINE t == v % N
  <2>1. t # 0 => t \in Workers  BY <1>2, ThreadOf
  <2>2. t # 0 => (WorkerDone(c, t, v)' <=> WorkerDone(c, t, v))
    BY <1>4, <1>7, <2>1 DEF WorkerDone, Works
  <2> HIDE DEF t
  <2> QED  BY <1>4, <2>2 DEF Done, t
<1>8. CASE n < size[c]
  <2>1. /\ ran' = [ran EXCEPT ![c][n] = @ + 1] /\ wv'[w] = n + N /\ wpc'[w] = "run"
    BY <1>2, <1>3, <1>8 DEF Typing, TypeOK
  <2>2. n \in Indices  BY <1>3, <1>8, MaxWorkAssumption DEF Indices
  <2>3. n < n + N /\ n + N \in Nat /\ (n + N) % N = w
    BY <1>3, StrideMod, NAssumption
  <2>4. ~ Done(c, n) /\ Done(c, n)'
    <3>1. ~ WorkerDone(c, w, n)  BY <1>1, <1>3, <1>6 DEF WorkerDone
    <3>2. WorkerDone(c, w, n)'  BY <1>6, <2>1, <2>3 DEF WorkerDone
    <3> QED  BY <1>2, <1>3, <1>4, <1>8, <3>1, <3>2 DEF Done, Serves
  <2>5. ASSUME NEW v \in Indices, v # n  PROVE Done(c, v)' <=> Done(c, v)
    <3>1. CASE v % N = w
      <4>1. v \in Nat  BY <1>2, ThreadOf
      <4>2. v < n + N <=> v < n
        BY <1>3, <2>3, <2>5, <3>1, <4>1, StrideApart, NAssumption
      <4>3. WorkerDone(c, w, v)' <=> WorkerDone(c, w, v)
        BY <1>1, <1>3, <1>6, <2>1, <4>2 DEF WorkerDone
      <4> QED  BY <1>4, <3>1, <4>3 DEF Done
    <3> QED  BY <3>1, <1>7
  <2>6. Accounted'
    <3> SUFFICES ASSUME NEW d \in Callers, NEW v \in Indices
                 PROVE ran'[d][v] = IF Done(d, v)' THEN 1 ELSE 0
      BY DEF Accounted
    <3>1. ran[d][v] = IF Done(d, v) THEN 1 ELSE 0  BY DEF Accounted
    <3>2. ran \in [Callers -> [Indices -> Nat]]  BY DEF Typing, TypeOK
    <3>3. CASE d = c /\ v = n
      <4>1. ran[c][n] = 0  BY <3>1, <3>3, <2>4
      <4>2. ran'[c][n] = 1  BY <1>2, <2>1, <2>2, <3>2, <4>1
      <4> QED  BY <3>3, <4>2, <2>4
    <3>4. CASE ~ (d = c /\ v = n)
      <4>1. ran'[d][v] = ran[d][v]  BY <1>2, <2>1, <2>2, <3>2, <3>4
      <4>2. Done(d, v)' <=> Done(d, v)  BY <1>5, <2>5, <3>4
      <4> QED  BY <3>1, <4>1, <4>2
    <3> QED  BY <3>3, <3>4
  <2>7. Cursors'  BY <1>4, <2>1, <2>3 DEF Cursors
  <2> QED  BY <2>6, <2>7
<1>9. CASE ~ (n < size[c])
  <2>1. UNCHANGED <<ran, wv>> /\ wpc'[w] = "lower"
    BY <1>2, <1>3, <1>9 DEF Typing, TypeOK
  <2>2. ASSUME NEW v \in Indices  PROVE Done(c, v)' <=> Done(c, v)
    <3>1. CASE v % N = w
      <4>1. v \in Nat  BY <1>2, ThreadOf
      <4>2. v < size[c] => v < n  BY <1>3, <1>9, <4>1
      <4>3. v < size[c] => WorkerDone(c, w, v) /\ WorkerDone(c, w, v)'
        BY <1>3, <1>6, <2>1, <4>2 DEF WorkerDone
      <4> QED  BY <1>4, <3>1, <4>3 DEF Done
    <3> QED  BY <3>1, <1>7
  <2>3. \A d \in Callers : \A v \in Indices : Done(d, v)' <=> Done(d, v)
    BY <1>5, <2>2
  <2>4. Accounted'  BY <2>1, <2>3, AccountKept
  <2>5. Cursors'  BY <1>4, <2>1 DEF Cursors
  <2> QED  BY <2>4, <2>5
<1> QED  BY <1>8, <1>9

LEMMA LowerAccounted ==
  ASSUME Typing, SlotsOwned, HandOver, Accounted, Cursors,
         NEW w \in Workers, Lower(w)
  PROVE  Accounted' /\ Cursors'
<1> USE DEF Lower, WGoto, pool, callerVars
<1>1. wpc[w] = "lower"  OBVIOUS
<1>0. PICK s \in Slots : s = wslot[w]  BY <1>1, BusySlot
<1>2. PICK c \in Callers :
         /\ Serves(c, s) /\ w < Share(c)
         /\ cpc[c] = "raise" => w < cv[c]
         /\ \A d \in Callers : Serves(d, s) => d = c
  BY <1>0, <1>1, BusyFor
<1>3. /\ UNCHANGED <<cpc, idx, size, cv, ran>> /\ wpc'[w] = "scan"
      /\ \A u \in Workers : u # w => /\ wpc'[u] = wpc[u] /\ wv'[u] = wv[u]
                                     /\ wslot'[u] = wslot[u]
  BY DEF Typing, TypeOK
<1>4. /\ raised'[s] = raised[s] \ {w}
      /\ \A r \in Slots : r # s => raised'[r] = raised[r]
  BY <1>0 DEF Typing, TypeOK
<1>5. ASSUME NEW d \in Callers, d # c
      PROVE  \A v \in Indices : Done(d, v)' <=> Done(d, v)
  <2>1. cpc[d] \in {"raise", "self", "poll"} => idx[d] # s
    BY <1>2, <1>5 DEF Serves
  <2>2. cpc[d] \in {"raise", "self", "poll"} => idx[d] \in Slots  BY ServerSlot
  <2> QED  BY <1>0, <1>3, <1>4, <2>1, <2>2, OtherSession
<1>6. ASSUME NEW v \in Indices  PROVE Done(c, v)' <=> Done(c, v)
  <2> DEFINE t == v % N
  <2>1. t # 0 => t \in Workers  BY ThreadOf
  <2>2. ASSUME t # 0  PROVE WorkerDone(c, t, v)' <=> WorkerDone(c, t, v)
    <3>1. idx[c] = s /\ idx'[c] = s  BY <1>2, <1>3 DEF Serves
    <3>2. CASE t = w
      <4>1. WorkerDone(c, w, v)  BY <1>0, <1>1, <3>1 DEF WorkerDone, Works
      <4>2. ~ Works(w, s)'  BY <1>3 DEF Works
      <4>3. WorkerDone(c, w, v)'
        BY <1>2, <1>3, <1>4, <3>1, <4>2 DEF WorkerDone, Works
      <4> QED  BY <3>2, <4>1, <4>3
    <3>3. CASE t # w
      <4>1. t \in raised'[s] <=> t \in raised[s]  BY <1>4, <3>3
      <4>2. Works(t, s)' <=> Works(t, s)  BY <1>3, <2>1, <2>2, <3>3 DEF Works
      <4> QED  BY <1>3, <2>1, <2>2, <3>1, <3>3, <4>1, <4>2 DEF WorkerDone, Works
    <3> QED  BY <3>2, <3>3
  <2> HIDE DEF t
  <2> QED  BY <1>3, <2>2 DEF Done, t
<1>7. \A d \in Callers : \A v \in Indices : Done(d, v)' <=> Done(d, v)
  BY <1>5, <1>6
<1>8. Accounted'  BY <1>3, <1>7, AccountKept
<1>9. Cursors'  BY <1>3 DEF Cursors
<1> QED  BY <1>8, <1>9

LEMMA WorkerAccounted ==
  ASSUME Typing, SlotsOwned, HandOver, Accounted, Cursors,
         NEW w \in Workers, WorkerStep(w) \/ SpuriousWakeup(w)
  PROVE  Accounted' /\ Cursors'
<1>1. ASSUME UNCHANGED <<raised, cpc, idx, size, cv, ran>>,
             wpc[w] \notin {"run", "lower"}, wpc'[w] \notin {"run", "lower"},
             \A v \in Workers : v # w => /\ wpc'[v] = wpc[v] /\ wv'[v] = wv[v]
                                        /\ wslot'[v] = wslot[v]
      PROVE  Accounted' /\ Cursors'
  BY <1>1, IdleWorker
<1> USE DEF WGoto, pool, callerVars, Typing, TypeOK
<1>2. CASE TestStop(w)  BY <1>1, <1>2 DEF TestStop
<1>3. CASE TestActive(w)  BY <1>1, <1>3 DEF TestActive
<1>4. CASE Scan(w)  BY <1>1, <1>4 DEF Scan
<1>5. CASE Fetch(w)  BY <1>5, FetchAccounted
<1>6. CASE WorkerRun(w)  BY <1>6, RunAccounted
<1>7. CASE Lower(w)  BY <1>7, LowerAccounted
<1>8. CASE Wait(w)  BY <1>1, <1>8 DEF Wait
<1>9. CASE Sleep(w)  BY <1>1, <1>9 DEF Sleep
<1>10. CASE SpuriousWakeup(w)  BY <1>1, <1>10 DEF SpuriousWakeup
<1> QED  BY <1>2, <1>3, <1>4, <1>5, <1>6, <1>7, <1>8, <1>9, <1>10 DEF WorkerStep

--------------------------------------------------------------------------------
\* A step that moves no worker but the sleepers, and of the sessions only c.
LEMMA OtherCaller ==
  ASSUME Typing, SlotsOwned, HandOver, NEW c \in Callers,
         UNCHANGED <<wslot, wv>>,
         \A w \in Workers : wpc'[w] = wpc[w] \/ (wpc[w] = "blocked" /\ wpc'[w] = "lock"),
         \A d \in Callers : d # c => /\ cpc'[d] = cpc[d] /\ idx'[d] = idx[d]
                                     /\ size'[d] = size[d] /\ cv'[d] = cv[d],
         \/ UNCHANGED raised
         \/ /\ cpc[c] # "deactivate" /\ idx[c] \in Slots
            /\ \A s \in Slots : s # idx[c] => raised'[s] = raised[s]
  PROVE  \A d \in Callers : d # c => \A v \in Indices : Done(d, v)' <=> Done(d, v)
<1> SUFFICES ASSUME NEW d \in Callers, d # c
             PROVE  \A v \in Indices : Done(d, v)' <=> Done(d, v)
  OBVIOUS
<1>1. CASE cpc[d] \notin {"raise", "self", "poll"}  BY <1>1, DoneKept
<1>2. CASE cpc[d] \in {"raise", "self", "poll"}
  <2>1. idx[d] \in Slots /\ Serves(d, idx[d])  BY <1>2, ServerSlot DEF Serves
  <2>2. raised'[idx[d]] = raised[idx[d]]  BY <2>1, OneServer
  <2>3. \A w \in Workers : Works(w, idx[d])' <=> Works(w, idx[d])  BY DEF Works
  <2>4. \A w \in Workers : Works(w, idx[d]) => wpc'[w] = wpc[w] /\ wv'[w] = wv[w]
    BY DEF Works
  <2> QED  BY <2>2, <2>3, <2>4, DoneKept
<1> QED  BY <1>1, <1>2

\* What is left to show of a step of session c.
LEMMA CallerAccount ==
  ASSUME Typing, Accounted, NEW c \in Callers,
         \A d \in Callers : d # c => \A v \in Indices : Done(d, v)' <=> Done(d, v),
         \A d \in Callers : d # c => ran'[d] = ran[d],
         \A v \in Indices : ran'[c][v] = IF Done(c, v)' THEN 1 ELSE 0
  PROVE  Accounted'
<1> SUFFICES ASSUME NEW d \in Callers, NEW v \in Indices
             PROVE  ran'[d][v] = IF Done(d, v)' THEN 1 ELSE 0
  BY DEF Accounted
<1>1. CASE d = c  BY <1>1
<1>2. CASE d # c  BY <1>2 DEF Accounted
<1> QED  BY <1>1, <1>2

\* A step of session c that runs nothing.
LEMMA SameDone ==
  ASSUME Typing, Accounted, NEW c \in Callers, UNCHANGED ran,
         \A d \in Callers : d # c => \A v \in Indices : Done(d, v)' <=> Done(d, v),
         \A v \in Indices : Done(c, v)' <=> Done(c, v)
  PROVE  Accounted'
<1>1. \A d \in Callers : \A v \in Indices : Done(d, v)' <=> Done(d, v)  OBVIOUS
<1> QED  BY <1>1, AccountKept

\* Cursors after a step of session c.
LEMMA CallerCursors ==
  ASSUME Typing, Cursors, NEW c \in Callers, UNCHANGED wv,
         \A w \in Workers : wpc'[w] = wpc[w] \/ wpc'[w] = "lock",
         \A d \in Callers : d # c => /\ cpc'[d] = cpc[d] /\ size'[d] = size[d]
                                     /\ cv'[d] = cv[d],
         cpc'[c] \in {"idle", "activate", "notify", "deactivate"} => size'[c] = 0,
         cpc'[c] = "self" => cv'[c] % N = 0
  PROVE  Cursors'
<1>1. \A w \in Workers : wpc'[w] = "run" => wv'[w] % N = w  BY DEF Cursors
<1>2. \A d \in Callers : cpc'[d] \in {"idle", "activate", "notify", "deactivate"}
                         => size'[d] = 0
  BY DEF Cursors
<1>3. \A d \in Callers : cpc'[d] = "self" => cv'[d] % N = 0  BY DEF Cursors
<1> QED  BY <1>1, <1>2, <1>3 DEF Cursors

\* The steps of a session outside enqueue: no index of a task is pending.
LEMMA SectionAccounted ==
  ASSUME Typing, SlotsOwned, HandOver, Accounted, Cursors, NEW c \in Callers,
         \/ AcquireWorkIndex(c) \/ Active(c) \/ ActiveNotify(c) \/ Deactive(c)
  PROVE  Accounted' /\ Cursors'
<1>1. /\ UNCHANGED <<raised, wslot, wv, size, cv, ran>>
      /\ \A w \in Workers : wpc'[w] = wpc[w] \/ (wpc[w] = "blocked" /\ wpc'[w] = "lock")
      /\ cpc[c] \in {"idle", "activate", "notify", "deactivate"}
      /\ cpc'[c] \in {"idle", "activate", "notify", "deactivate", "open"}
      /\ \A d \in Callers : d # c => cpc'[d] = cpc[d] /\ idx'[d] = idx[d]
  BY DEF AcquireWorkIndex, Take, Active, ActiveNotify, NotifyAll, Deactive, CGoto,
         workerVars, pool, Typing, TypeOK
<1>2. size[c] = 0 /\ size'[c] = 0  BY <1>1 DEF Cursors
<1>3. \A v \in Indices : ~ (v < 0)  BY MaxWorkAssumption DEF Indices
<1>4. \A v \in Indices : Done(c, v)' <=> Done(c, v)  BY <1>2, <1>3 DEF Done
<1>5. \A d \in Callers : d # c => \A v \in Indices : Done(d, v)' <=> Done(d, v)
  BY <1>1, OtherCaller
<1>6. Accounted'  BY <1>1, <1>4, <1>5, SameDone
<1>7. Cursors'  BY <1>1, <1>2, CallerCursors
<1> QED  BY <1>6, <1>7

\* The steps that begin a task or drop its record.
LEMMA FreshAccounted ==
  ASSUME Typing, SlotsOwned, HandOver, Accounted, Cursors, NEW c \in Callers,
         ReleaseWorkIndex(c) \/ \E k \in 0 .. MaxWork : Enqueue(c, k)
  PROVE  Accounted' /\ Cursors'
<1>1. /\ UNCHANGED <<raised, wpc, wslot, wv, idx>>
      /\ cpc'[c] \in {"idle", "deactivate", "serial", "publish"}
      /\ cpc'[c] \in {"idle", "deactivate"} => size'[c] = 0
      /\ cv'[c] = 0 /\ ran'[c] = NothingRan
      /\ \A d \in Callers : d # c => /\ cpc'[d] = cpc[d] /\ size'[d] = size[d]
                                     /\ cv'[d] = cv[d] /\ ran'[d] = ran[d]
  BY DEF ReleaseWorkIndex, AfterRelease, Enqueue, CGoto, workerVars, pool, Typing, TypeOK
<1>2. \A v \in Indices : ~ (v < 0)  BY MaxWorkAssumption DEF Indices
<1>3. \A v \in Indices : ~ Done(c, v)'  BY <1>1, <1>2 DEF Done
<1>4. \A v \in Indices : ran'[c][v] = IF Done(c, v)' THEN 1 ELSE 0
  BY <1>1, <1>3 DEF NothingRan
<1>5. \A d \in Callers : d # c => \A v \in Indices : Done(d, v)' <=> Done(d, v)
  BY <1>1, OtherCaller
<1>6. Accounted'  BY <1>1, <1>4, <1>5, CallerAccount
<1>7. Cursors'  BY <1>1, CallerCursors
<1> QED  BY <1>6, <1>7

\* The caller runs an index that nobody has run, or leaves its loop with all
\* of its share behind it.
LEMMA OwnAccounted ==
  ASSUME Typing, SlotsOwned, HandOver, Accounted, Cursors, NEW c \in Callers,
         RunSerial(c) \/ RunSelf(c)
  PROVE  Accounted' /\ Cursors'
<1>1. /\ UNCHANGED <<raised, wpc, wslot, wv, idx, size>>
      /\ \A d \in Callers : d # c => cpc'[d] = cpc[d] /\ cv'[d] = cv[d]
      /\ \A d \in Callers : d # c => ran'[d] = ran[d]
  BY DEF RunSerial, RunSelf, RunOwn, CGoto, workerVars, pool, Typing, TypeOK
<1>2. \A d \in Callers : d # c => \A v \in Indices : Done(d, v)' <=> Done(d, v)
  BY <1>1, OtherCaller
<1>3. PICK n \in Nat : n = cv[c]  BY DEF Typing, TypeOK
<1>4. size[c] \in Nat /\ size[c] <= MaxWork /\ size'[c] = size[c]
  BY <1>1, MaxWorkAssumption DEF Typing, TypeOK
<1>5. \A v \in Indices : v \in Nat  BY MaxWorkAssumption DEF Indices
<1>6. \A v \in Indices : Works(v % N, idx[c])' <=> Works(v % N, idx[c])
  BY <1>1 DEF Works
<1>7. CASE n < size[c]
  <2>1. PICK stride \in Nat :
           /\ cv'[c] = n + stride /\ ran' = [ran EXCEPT ![c][n] = @ + 1]
           /\ cpc'[c] = cpc[c]
           /\ \/ cpc[c] = "serial" /\ stride = 1
              \/ cpc[c] = "self" /\ stride = N
    BY <1>3, <1>7, NAssumption DEF RunSerial, RunSelf, RunOwn, CGoto, Typing, TypeOK
  <2>2. n \in Indices  BY <1>4, <1>7, MaxWorkAssumption DEF Indices
  <2>3. ~ Done(c, n) /\ Done(c, n)'
    <3>1. n < n + stride  BY <2>1, NAssumption
    <3>2. cpc[c] = "self" => n % N = 0  BY <1>3 DEF Cursors
    <3> QED  BY <1>3, <1>4, <1>7, <2>1, <3>1, <3>2 DEF Done
  <2>4. ASSUME NEW v \in Indices, v # n  PROVE Done(c, v)' <=> Done(c, v)
    <3>1. CASE cpc[c] = "serial"
      <4>1. v < n + 1 <=> v < n  BY <1>5, <2>4
      <4> QED  BY <1>3, <1>4, <2>1, <3>1, <4>1 DEF Done
    <3>2. CASE cpc[c] = "self"
      <4>1. n % N = 0  BY <1>3, <3>2 DEF Cursors
      <4>2. v % N = 0 => (v < n + N <=> v < n)
        BY <1>5, <2>4, <4>1, StrideApart, NAssumption
      <4>3. WorkerDone(c, v % N, v)' <=> WorkerDone(c, v % N, v)
        BY <1>1, <1>6, <2>1, <3>2 DEF WorkerDone
      <4> QED  BY <1>3, <1>4, <2>1, <3>2, <4>2, <4>3 DEF Done
    <3> QED  BY <2>1, <3>1, <3>2
  <2>5. \A v \in Indices : ran'[c][v] = IF Done(c, v)' THEN 1 ELSE 0
    <3> SUFFICES ASSUME NEW v \in Indices
                 PROVE  ran'[c][v] = IF Done(c, v)' THEN 1 ELSE 0
      OBVIOUS
    <3>1. ran[c][v] = IF Done(c, v) THEN 1 ELSE 0  BY DEF Accounted
    <3>2. ran \in [Callers -> [Indices -> Nat]]  BY DEF Typing, TypeOK
    <3>3. CASE v = n
      <4>1. ran[c][n] = 0  BY <2>3, <3>1, <3>3
      <4>2. ran'[c][n] = 1  BY <2>1, <2>2, <3>2, <4>1
      <4> QED  BY <2>3, <3>3, <4>2
    <3>4. CASE v # n
      <4>1. ran'[c][v] = ran[c][v]  BY <2>1, <2>2, <3>2, <3>4
      <4> QED  BY <2>4, <3>1, <3>4, <4>1
    <3> QED  BY <3>3, <3>4
  <2>6. Accounted'  BY <1>1, <1>2, <2>5, CallerAccount
  <2>7. cpc'[c] = "self" => cv'[c] % N = 0
    BY <1>3, <2>1, StrideMod, ZenonT(30) DEF Cursors
  <2>8. Cursors'  BY <1>1, <2>1, <2>7, CallerCursors
  <2> QED  BY <2>6, <2>8
<1>8. CASE ~ (n < size[c])
  <2>1. /\ UNCHANGED ran
        /\ \/ cpc[c] = "serial" /\ cpc'[c] = "open"
           \/ cpc[c] = "self" /\ cpc'[c] = "poll"
    BY <1>3, <1>8 DEF RunSerial, RunSelf, RunOwn, CGoto, Typing, TypeOK
  <2>2. ASSUME NEW v \in Indices  PROVE Done(c, v)' <=> Done(c, v)
    <3>1. v < size[c] => v < n  BY <1>4, <1>5, <1>8
    <3>2. CASE cpc[c] = "serial"  BY <1>3, <1>4, <2>1, <3>1, <3>2 DEF Done
    <3>3. CASE cpc[c] = "self"
      <4>1. WorkerDone(c, v % N, v)' <=> WorkerDone(c, v % N, v)
        BY <1>1, <1>6, <2>1, <3>3 DEF WorkerDone
      <4> QED  BY <1>3, <1>4, <2>1, <3>1, <3>3, <4>1 DEF Done
    <3> QED  BY <2>1, <3>2, <3>3
  <2>3. Accounted'  BY <1>2, <2>1, <2>2, SameDone
  <2>4. Cursors'  BY <1>1, <2>1, CallerCursors
  <2> QED  BY <2>3, <2>4
<1> QED  BY <1>7, <1>8

\* Publishing and raising: no worker has begun, so only index 0 and its like
\* could have run, and those are the caller's own.
LEMMA PublishAccounted ==
  ASSUME Typing, SlotsOwned, HandOver, Accounted, Cursors, NEW c \in Callers, Publish(c)
  PROVE  Accounted' /\ Cursors'
<1>1. /\ UNCHANGED <<raised, wpc, wslot, wv, idx, size, ran>>
      /\ cpc[c] = "publish" /\ cpc'[c] = "raise" /\ cv'[c] = 1
      /\ \A d \in Callers : d # c => cpc'[d] = cpc[d] /\ cv'[d] = cv[d]
  BY DEF Publish, CGoto, workerVars, Typing, TypeOK
<1>2. \A d \in Callers : d # c => \A v \in Indices : Done(d, v)' <=> Done(d, v)
  BY <1>1, OtherCaller
<1>3. raised[idx[c]] = {}  BY <1>1, HandOverSafe DEF PublishUnread
<1>4. \A w \in Workers : ~ Works(w, idx[c])
  BY <1>3 DEF HandOver, Works
<1>5. ASSUME NEW v \in Indices  PROVE ~ Done(c, v) /\ ~ Done(c, v)'
  <2> DEFINE t == v % N
  <2>1. t # 0 => t \in Workers /\ ~ (t < 1)  BY ThreadOf DEF Workers
  <2>2. t # 0 => ~ WorkerDone(c, t, v)'
    BY <1>1, <1>4, <2>1 DEF WorkerDone, Works
  <2> HIDE DEF t
  <2> QED  BY <1>1, <2>2 DEF Done, t
<1>6. Accounted'  BY <1>1, <1>2, <1>5, SameDone
<1>7. Cursors'  BY <1>1, CallerCursors
<1> QED  BY <1>6, <1>7

LEMMA RaiseAccounted ==
  ASSUME Typing, SlotsOwned, HandOver, Accounted, Cursors, NEW c \in Callers, Raise(c)
  PROVE  Accounted' /\ Cursors'
<1>1. /\ UNCHANGED <<wpc, wslot, wv, idx, size, ran>> /\ cpc[c] = "raise"
      /\ \A d \in Callers : d # c => cpc'[d] = cpc[d] /\ cv'[d] = cv[d]
  BY DEF Raise, CGoto, workerVars, Typing, TypeOK
<1>2. PICK s \in Slots : s = idx[c]  BY <1>1, ServerSlot
<1>3. PICK n \in Nat : n = cv[c]  BY DEF Typing, TypeOK
<1>4. \A r \in Slots : r # s => raised'[r] = raised[r]
  BY <1>2 DEF Raise, Typing, TypeOK
<1>5. \A d \in Callers : d # c => \A v \in Indices : Done(d, v)' <=> Done(d, v)
  BY <1>1, <1>2, <1>4, OtherCaller
<1>6. \A w \in raised[s] : w < n
  <2> SUFFICES ASSUME NEW w \in raised[s] PROVE w < n  OBVIOUS
  <2>1. PICK d \in Callers : Serves(d, s) /\ (cpc[d] = "raise" => w < cv[d])
    BY DEF HandOver, FlagServed
  <2>2. d = c  BY <1>1, <1>2, <2>1, OneServer
  <2> QED  BY <1>1, <1>3, <2>1, <2>2
<1>7. \A w \in Workers : Works(w, s) => w \in raised[s]  BY DEF HandOver, Works
<1>8. CASE n < Share(c)
  <2>1. /\ raised'[s] = raised[s] \cup {n} /\ cv'[c] = n + 1 /\ cpc'[c] = "raise"
    BY <1>2, <1>3, <1>8 DEF Raise, Typing, TypeOK
  <2>2. ASSUME NEW v \in Indices  PROVE Done(c, v)' <=> Done(c, v)
    <3> DEFINE t == v % N
    <3>1. t \in Nat /\ (t # 0 => t \in Workers)  BY ThreadOf
    <3>2. ASSUME t # 0  PROVE WorkerDone(c, t, v)' <=> WorkerDone(c, t, v)
      <4>1. CASE t = n
        <5>1. ~ Works(t, s) /\ ~ Works(t, s)'
          BY <1>1, <1>6, <1>7, <3>1, <3>2, <4>1 DEF Works
        <5> QED  BY <1>1, <1>2, <1>3, <2>1, <4>1, <5>1 DEF WorkerDone
      <4>2. CASE t # n
        <5>1. t \in raised'[s] <=> t \in raised[s]  BY <2>1, <4>2
        <5>2. t < n + 1 <=> t < n  BY <3>1, <4>2
        <5>3. Works(t, s)' <=> Works(t, s)  BY <1>1 DEF Works
        <5> QED  BY <1>1, <1>2, <1>3, <2>1, <5>1, <5>2, <5>3 DEF WorkerDone
      <4> QED  BY <4>1, <4>2
    <3> HIDE DEF t
    <3> QED  BY <1>1, <2>1, <3>2 DEF Done, t
  <2>3. Accounted'  BY <1>1, <1>5, <2>2, SameDone
  <2>4. Cursors'  BY <1>1, <2>1, CallerCursors
  <2> QED  BY <2>3, <2>4
<1>9. CASE ~ (n < Share(c))
  <2>1. raised' = raised /\ cv'[c] = 0 /\ cpc'[c] = "self"
    BY <1>3, <1>9 DEF Raise, CGoto, Typing, TypeOK
  <2>2. ASSUME NEW v \in Indices  PROVE Done(c, v)' <=> Done(c, v)
    <3> DEFINE t == v % N
    <3>1. /\ t \in Nat /\ (t # 0 => t \in Workers)
          /\ v < size[c] => t < Share(c)
          /\ v \in Nat
      BY ThreadOf, NAssumption
    <3>2. Share(c) \in Nat
      BY MaxWorkAssumption, NAssumption DEF Share, Typing, TypeOK
    <3>3. v < size[c] => t < n  BY <1>9, <3>1, <3>2
    <3>4. Works(t, s)' <=> Works(t, s)  BY <1>1 DEF Works
    <3>5. ASSUME v < size[c]  PROVE WorkerDone(c, t, v)' <=> WorkerDone(c, t, v)
      BY <1>1, <1>2, <1>3, <2>1, <3>3, <3>4, <3>5 DEF WorkerDone
    <3>6. ~ (v < 0)  BY <3>1
    <3> HIDE DEF t
    <3> QED  BY <1>1, <2>1, <3>5, <3>6 DEF Done, t
  <2>3. Accounted'  BY <1>1, <1>5, <2>2, SameDone
  <2>4. 0 % N = 0  BY NAssumption
  <2>5. Cursors'  BY <1>1, <2>1, <2>4, CallerCursors
  <2> QED  BY <2>3, <2>5
<1> QED  BY <1>8, <1>9

\* A round that meets no raised flag has met every worker of the task.
LEMMA PollAccounted ==
  ASSUME Typing, SlotsOwned, HandOver, Accounted, Cursors, NEW c \in Callers, Poll(c)
  PROVE  Accounted' /\ Cursors'
<1>1. /\ UNCHANGED <<raised, wpc, wslot, wv, idx, size, ran>> /\ cpc[c] = "poll"
      /\ \A d \in Callers : d # c => cpc'[d] = cpc[d] /\ cv'[d] = cv[d]
  BY DEF Poll, CGoto, pool, workerVars, Typing, TypeOK
<1>2. \A d \in Callers : d # c => \A v \in Indices : Done(d, v)' <=> Done(d, v)
  BY <1>1, OtherCaller
<1>3. PICK s \in Slots : s = idx[c]  BY <1>1, ServerSlot
<1>4. CASE cv[c] < Share(c)
  <2>1. cpc'[c] = "poll"  BY <1>1, <1>4 DEF Poll
  <2>2. ASSUME NEW v \in Indices  PROVE Done(c, v)' <=> Done(c, v)
    <3>1. Works(v % N, idx[c])' <=> Works(v % N, idx[c])  BY <1>1 DEF Works
    <3>2. WorkerDone(c, v % N, v)' <=> WorkerDone(c, v % N, v)
      BY <1>1, <2>1, <3>1 DEF WorkerDone
    <3> QED  BY <1>1, <2>1, <3>2 DEF Done
  <2>3. Accounted'  BY <1>1, <1>2, <2>2, SameDone
  <2>4. Cursors'  BY <1>1, <2>1, CallerCursors
  <2> QED  BY <2>3, <2>4
<1>5. CASE ~ (cv[c] < Share(c))
  <2>1. cpc'[c] = "open"  BY <1>5 DEF Poll, CGoto, Typing, TypeOK
  <2>2. raised[s] = {}
    <3> SUFFICES ASSUME NEW w \in raised[s] PROVE FALSE  OBVIOUS
    <3>1. PICK d \in Callers : /\ Serves(d, s) /\ w < Share(d)
                               /\ cpc[d] = "poll" => w >= cv[d]
      BY DEF HandOver, FlagServed
    <3>2. d = c  BY <1>1, <1>3, <3>1, OneServer
    <3>3. w \in Nat /\ cv[c] \in Nat /\ Share(c) \in Nat
      BY MaxWorkAssumption, NAssumption DEF Share, Workers, Typing, TypeOK
    <3> QED  BY <1>1, <1>5, <3>1, <3>2, <3>3
  <2>3. ASSUME NEW v \in Indices  PROVE Done(c, v)' <=> Done(c, v)
    <3> DEFINE t == v % N
    <3>1. t # 0 => t \in Workers  BY ThreadOf
    <3>2. t # 0 => ~ Works(t, s)  BY <2>2, <3>1 DEF HandOver, Works
    <3>3. t # 0 => WorkerDone(c, t, v)
      BY <1>1, <1>3, <2>2, <3>2 DEF WorkerDone
    <3> HIDE DEF t
    <3> QED  BY <1>1, <2>1, <3>3 DEF Done, t
  <2>4. Accounted'  BY <1>1, <1>2, <2>3, SameDone
  <2>5. Cursors'  BY <1>1, <2>1, CallerCursors
  <2> QED  BY <2>4, <2>5
<1> QED  BY <1>4, <1>5

LEMMA NextAccounted ==
  /\ Typing /\ SlotsOwned /\ HandOver /\ Accounted /\ Cursors /\ [Next]_vars
  => Accounted' /\ Cursors'
<1> SUFFICES ASSUME Typing, SlotsOwned, HandOver, Accounted, Cursors, [Next]_vars
             PROVE  Accounted' /\ Cursors'
  OBVIOUS
<1>1. ASSUME NEW w \in Workers, WorkerStep(w) \/ SpuriousWakeup(w)
      PROVE  Accounted' /\ Cursors'
  BY <1>1, WorkerAccounted
<1>2. ASSUME NEW c \in Callers, CallerStep(c)  PROVE Accounted' /\ Cursors'
  BY <1>2, SectionAccounted, FreshAccounted, OwnAccounted, PublishAccounted,
     RaiseAccounted, PollAccounted DEF CallerStep, InEnqueue
<1>3. CASE Stop \/ StopNotify \/ Join \/ UNCHANGED vars
  <2>1. /\ UNCHANGED <<raised, wslot, wv, cpc, idx, size, cv, ran>>
        /\ \A w \in Workers : wpc'[w] = wpc[w] \/ (wpc[w] = "blocked" /\ wpc'[w] = "lock")
    BY <1>3 DEF Stop, StopNotify, NotifyAll, Join, vars, pool, workerVars, callerVars,
                Typing, TypeOK
  <2>2. ASSUME NEW d \in Callers  PROVE \A v \in Indices : Done(d, v)' <=> Done(d, v)
    BY <2>1, DoneKept DEF Works
  <2>3. Accounted'  BY <2>1, <2>2, AccountKept
  <2>4. Cursors'  BY <2>1 DEF Cursors
  <2> QED  BY <2>3, <2>4
<1> QED  BY <1>1, <1>2, <1>3 DEF Next, Destroyed

\* When enqueue returns, every index of its task has run exactly once, on the
\* caller or on one of the workers.
THEOREM IndicesRunOnce == Spec => []ExactlyOnce
<1>1. Typing /\ Accounted => ExactlyOnce
  <2> SUFFICES ASSUME Typing, Accounted, NEW c \in Callers, cpc[c] = "open",
                      NEW v \in Indices
               PROVE  ran[c][v] = IF v < size[c] THEN 1 ELSE 0
    BY DEF ExactlyOnce
  <2> QED  BY DEF Accounted, Done
<1> QED  BY <1>1, InitTyping, NextTyping, InitSlots, NextSlots, InitHandOver,
            NextHandOver, InitAccounted, NextAccounted, PTL DEF Spec

------------------------------------------------------------------------------
(***************************************************************************)
(* The pool keeps the promise of a parallel section: every step of         *)
(* ThreadPool is a step of ParallelFor or none, for every number of        *)
(* callers, threads, slots and indices.  The part of ParallelForSpec about *)
(* progress, its fairness, is not among what is shown here.                *)
(***************************************************************************)

\* The callers that are inside a parallel section.
Calling == {c \in Callers : InSection(c)}

Inv == Typing /\ SlotsOwned /\ HandOver /\ Accounted /\ Cursors

LEMMA Refinement ==
  /\ PF!Init <=> /\ size = [c \in Callers |-> 0] /\ ran = [c \in Callers |-> NothingRan]
                 /\ Calling = {}
  /\ (UNCHANGED PF!vars) <=> UNCHANGED <<size, ran, Calling>>
BY DEF PF!Init, PF!vars, PF!NothingRan, PF!Indices, NothingRan, Indices, Calling

\* A step that leaves sections, sizes and runs alone is a stutter.
LEMMA Outside ==
  ASSUME UNCHANGED <<size, ran>>, \A c \in Callers : InSection(c)' <=> InSection(c)
  PROVE  UNCHANGED PF!vars
<1>1. Calling' = Calling  BY DEF Calling
<1> QED  BY <1>1, Refinement

\* An index that a thread counts has not run before, since it has run once then.
LEMMA IndexRuns ==
  ASSUME Inv, Accounted', NEW c \in Callers, NEW v \in Indices, InSection(c), v < size[c],
         ran' = [ran EXCEPT ![c][v] = @ + 1], UNCHANGED size,
         \A d \in Callers : InSection(d)' <=> InSection(d)
  PROVE  PF!Next
<1>1. ran \in [Callers -> [Indices -> Nat]]  BY DEF Inv, Typing, TypeOK
<1>2. ran'[c][v] = ran[c][v] + 1 /\ ran[c][v] \in Nat  BY <1>1
<1>3. ran'[c][v] \in {0, 1}  BY DEF Accounted
<1>4. ran[c][v] = 0  BY <1>2, <1>3
<1>5. ran' = [ran EXCEPT ![c][v] = 1]  BY <1>1, <1>4
<1>6. Calling' = Calling /\ c \in Calling  BY DEF Calling
<1>7. PF!RunIndex(c, v)  BY <1>4, <1>5, <1>6 DEF PF!RunIndex, Calling
<1> QED  BY <1>7 DEF PF!Next, PF!Indices, Indices

\* A caller that leaves enqueue leaves with every index run.
LEMMA SectionReturns ==
  ASSUME Inv, Inv', NEW c \in Callers, InSection(c), CGoto(c, cpc[c], "open"),
         UNCHANGED <<size, ran>>
  PROVE  PF!Next
<1>1. /\ cpc'[c] = "open" /\ ~ InSection(c)'
      /\ \A d \in Callers : d # c => (InSection(d)' <=> InSection(d))
  BY DEF CGoto, InSection, Inv, Typing, TypeOK
<1>2. Calling' = Calling \ {c} /\ c \in Calling  BY <1>1 DEF Calling
<1>3. \A v \in Indices : v < size[c] => ran[c][v] = 1
  BY <1>1 DEF Inv, Accounted, Done
<1>4. PF!Return(c)  BY <1>2, <1>3 DEF PF!Return, PF!Indices, Indices, Calling
<1> QED  BY <1>4 DEF PF!Next

LEMMA WorkerRefines ==
  ASSUME Inv, Inv', NEW w \in Workers, WorkerStep(w) \/ SpuriousWakeup(w)
  PROVE  PF!Next \/ UNCHANGED PF!vars
<1>1. UNCHANGED callerVars /\ (UNCHANGED ran \/ WorkerRun(w))
  BY DEF WorkerStep, SpuriousWakeup, TestStop, TestActive, Scan, Fetch, WorkerRun, Lower, Wait, Sleep
<1>2. \A d \in Callers : InSection(d)' <=> InSection(d)
  BY <1>1 DEF callerVars, InSection
<1>3. CASE UNCHANGED ran  BY <1>1, <1>2, <1>3, Outside DEF callerVars
<1>4. CASE WorkerRun(w) /\ ran' # ran
  <2>1. wpc[w] = "run"  BY <1>4 DEF WorkerRun
  <2>2. PICK c \in Callers : c = wtask[w] /\ Serves(c, wslot[w])
    BY <2>1, BusyFor DEF Inv
  <2>3. PICK n : n = wv[w]  OBVIOUS
  <2>4. n < size[c] /\ ran' = [ran EXCEPT ![c][n] = @ + 1]
    BY <1>4, <2>2, <2>3 DEF WorkerRun
  <2>5. n \in Indices
    <3>1. n \in Nat /\ size[c] \in 0 .. MaxWork  BY <2>3 DEF Inv, Typing, TypeOK
    <3> QED  BY <2>4, <3>1, MaxWorkAssumption DEF Indices
  <2>6. InSection(c)  BY <2>2 DEF Serves, InSection
  <2> QED  BY <1>1, <1>2, <2>4, <2>5, <2>6, IndexRuns DEF Inv, callerVars
<1> QED  BY <1>1, <1>3, <1>4

LEMMA OwnRefines ==
  ASSUME Inv, Inv', NEW c \in Callers, NEW from, NEW stride, NEW to, RunOwn(c, from, stride, to),
         from \in {"serial", "self"}, to \in {"open", "poll"}
  PROVE  PF!Next \/ UNCHANGED PF!vars
<1>1. cpc[c] = from /\ InSection(c) /\ UNCHANGED size
  BY DEF RunOwn, InSection
<1>2. CASE cv[c] < size[c]
  <2>1. PICK n : n = cv[c]  OBVIOUS
  <2>2. n \in Indices
    <3>1. n \in Nat /\ size[c] \in 0 .. MaxWork  BY <2>1 DEF Inv, Typing, TypeOK
    <3> QED  BY <1>2, <2>1, <3>1, MaxWorkAssumption DEF Indices
  <2>3. ran' = [ran EXCEPT ![c][n] = @ + 1] /\ UNCHANGED cpc
    BY <1>2, <2>1 DEF RunOwn
  <2>4. \A d \in Callers : InSection(d)' <=> InSection(d)  BY <2>3 DEF InSection
  <2> QED  BY <1>1, <1>2, <2>1, <2>2, <2>3, <2>4, IndexRuns DEF Inv
<1>3. CASE ~ (cv[c] < size[c])
  <2>1. CGoto(c, from, to) /\ UNCHANGED ran  BY <1>3 DEF RunOwn
  <2>2. CASE to = "open"  BY <1>1, <2>1, <2>2, SectionReturns
  <2>3. CASE to = "poll"
    <3>1. \A d \in Callers : InSection(d)' <=> InSection(d)
      BY <1>1, <2>1, <2>3 DEF CGoto, InSection, Inv, Typing, TypeOK
    <3> QED  BY <1>1, <2>1, <3>1, Outside
  <2> QED  BY <2>2, <2>3
<1> QED  BY <1>2, <1>3

\* The steps of a session that begin a section, end its record, or are within
\* one without running an index.
LEMMA CallerRefines ==
  ASSUME Inv, Inv', NEW c \in Callers, CallerStep(c)
  PROVE  PF!Next \/ UNCHANGED PF!vars
<1> USE DEF CGoto
<1>1. cpc \in [Callers -> CallerPoints]  BY DEF Inv, Typing, TypeOK
<1>2. CASE AcquireWorkIndex(c) \/ Active(c) \/ ActiveNotify(c) \/ Deactive(c) \/ Publish(c) \/ Raise(c)
  <2>1. UNCHANGED <<size, ran>>
    BY <1>2 DEF AcquireWorkIndex, Active, ActiveNotify, Deactive, Publish, Raise
  <2>2. \A d \in Callers : InSection(d)' <=> InSection(d)
    BY <1>1, <1>2 DEF AcquireWorkIndex, Active, ActiveNotify, Deactive, Publish, Raise, InSection
  <2> QED  BY <2>1, <2>2, Outside
<1>3. ASSUME NEW k \in 0 .. MaxWork, Enqueue(c, k) PROVE PF!Next
  <2>1. /\ ~ InSection(c) /\ InSection(c)'
        /\ \A d \in Callers : d # c => (InSection(d)' <=> InSection(d))
    BY <1>1, <1>3 DEF Enqueue, InSection
  <2>2. Calling' = Calling \cup {c} /\ c \notin Calling  BY <2>1 DEF Calling
  <2>3. PF!Call(c, k)
    BY <1>3, <2>2 DEF Enqueue, PF!Call, PF!NothingRan, PF!Indices, NothingRan, Indices, Calling
  <2> QED  BY <2>3 DEF PF!Next
<1>4. CASE RunSerial(c)  BY <1>4, OwnRefines DEF RunSerial
<1>5. CASE RunSelf(c)  BY <1>5, OwnRefines DEF RunSelf
<1>6. CASE Poll(c)
  <2>1. UNCHANGED <<size, ran>> /\ cpc[c] = "poll" /\ InSection(c)
    BY <1>6 DEF Poll, InSection
  <2>2. CASE UNCHANGED cpc
    <3>1. \A d \in Callers : InSection(d)' <=> InSection(d)  BY <2>2 DEF InSection
    <3> QED  BY <2>1, <3>1, Outside
  <2>3. CASE CGoto(c, "poll", "open")  BY <2>1, <2>3, SectionReturns
  <2> QED  BY <1>6, <2>2, <2>3 DEF Poll
<1>7. CASE ReleaseWorkIndex(c)
  <2>1. ~ InSection(c) /\ \A d \in Callers : InSection(d)' <=> InSection(d)
    BY <1>1, <1>7 DEF ReleaseWorkIndex, AfterRelease, InSection
  <2>2. Calling' = Calling /\ c \notin Calling  BY <2>1 DEF Calling
  <2>3. PF!Forget(c)
    BY <1>7, <2>2 DEF ReleaseWorkIndex, PF!Forget, PF!NothingRan, PF!Indices, NothingRan, Indices, Calling
  <2> QED  BY <2>3 DEF PF!Next
<1> QED
  BY <1>2, <1>3, <1>4, <1>5, <1>6, <1>7 DEF CallerStep, InEnqueue

\* What MNN_CONCURRENCY_BEGIN and MNN_CONCURRENCY_END promise to a kernel:
\* enqueue returns only when every index of its task has run, and none runs
\* twice, or outside the section (ThreadPool::enqueue, enqueueInternal).
THEOREM ParallelForKept == Spec => PF!Init /\ [][PF!Next]_(PF!vars)
<1>1. Init => PF!Init
  <2>1. Init => Calling = {}  BY DEF Init, Calling, InSection
  <2> QED  BY <2>1, Refinement DEF Init
<1>2. Inv /\ Inv' /\ [Next]_vars => [PF!Next]_(PF!vars)
  <2> SUFFICES ASSUME Inv, Inv', [Next]_vars PROVE PF!Next \/ UNCHANGED PF!vars
    OBVIOUS
  <2>1. CASE Stop \/ StopNotify \/ Join \/ UNCHANGED vars
    <3>1. UNCHANGED callerVars /\ UNCHANGED ran
      BY <2>1 DEF Stop, StopNotify, Join, vars
    <3>2. \A d \in Callers : InSection(d)' <=> InSection(d)
      BY <3>1 DEF callerVars, InSection
    <3> QED  BY <3>1, <3>2, Outside DEF callerVars
  <2> QED  BY <2>1, WorkerRefines, CallerRefines DEF Next, Destroyed
<1>3. Spec => []Inv
  BY InitTyping, NextTyping, InitSlots, NextSlots, InitHandOver, NextHandOver, InitAccounted,
     NextAccounted, PTL DEF Spec, Inv
<1> QED  BY <1>1, <1>2, <1>3, PTL DEF Spec
------------------------------------------------------------------------------
(* Weights and blocks on mapped files.                                      *)

Calls == [stage : {"open", "size", "map"}, buffer : Buffers, size : use.sizes, opened : BOOLEAN]

TypeInv ==
  /\ use \in Uses
  /\ disk \in [DOMAIN disk -> Nat] /\ DOMAIN disk \subseteq Files
  /\ DOMAIN mCache \subseteq Buffers \cup {Null}
  /\ \A a \in DOMAIN mCache : mCache[a].file \in Nat /\ mCache[a].size \in use.sizes
  /\ mAllocTimes \in Nat
  /\ pending = None \/ pending \in Calls
  /\ faulty \in BOOLEAN /\ restarted \in BOOLEAN /\ up \in BOOLEAN /\ synced \in BOOLEAN

\* What is between processes is only on the disk.
Dead == ~ up => mCache = <<>> /\ pending = None /\ mAllocTimes = 0

\* A block that is being allocated has no file, and the file that was opened for
\* it exists.
PendingInv ==
  pending # None =>
    /\ pending.buffer \notin DOMAIN mCache
    /\ pending.stage = "size" \/ (pending.stage = "map" /\ pending.opened) =>
         mAllocTimes \in DOMAIN disk

\* The next number is the file of no block while a block can still get it.
NextIsFree ==
  ~ restarted => \A b, c \in Buffers :
    Mapped(b) /\ ~ Mapped(c) => mCache[b].file # mAllocTimes

\* The numbers of weights only grow.
Growing == use.ofWeights => ~ restarted /\ \A a \in DOMAIN mCache : mCache[a].file < mAllocTimes

Underway(f) == pending # None /\ pending.stage # "open" /\ f = mAllocTimes
\* Every file that is to be removed at the end is held by a block, or about to be.
FilesHeld ==
  use.mRemove /\ ~ faulty =>
    \A f \in DOMAIN disk : Underway(f) \/ \E b \in Buffers : Mapped(b) /\ mCache[b].file = f

FileInv == TypeInv /\ Dead /\ PendingInv /\ OwnFile /\ NextIsFree /\ Growing /\ FilesHeld

Fates == {"none", "mapped", "packed", "failed", "raw", "unwritten"}

\* Weights take the files in the order of their numbers.
Numbered ==
  /\ weight \in [Weights -> Fates] /\ data \in [Files -> Weights \cup {Null}]
  /\ useCachedMmap \in 0 .. 2 /\ hasty \in BOOLEAN
  /\ mStaticAllocator \in {"mmap", "raw"}
  /\ \A w \in Weights : Mapped(w) => mCache[w].file = w - 1
  /\ \A w \in Weights : weight[w] \in {"mapped", "packed"} => Mapped(w)
  /\ mStaticAllocator = "mmap" =>
       /\ \A w \in Weights : weight[w] = "none" <=> w > mAllocTimes
       /\ \A w \in Weights : weight[w] \notin {"raw", "unwritten"}
  /\ mStaticAllocator = "raw" /\ ~ use.mRemove /\ ~ hasty => \A w \in Weights : weight[w] # "none"
  /\ ~ up => mStaticAllocator = "mmap"
  /\ pending # None => mStaticAllocator = "mmap" /\ pending.buffer = mAllocTimes + 1

\* The file of sync stands for complete files, and only then is packing skipped.
Complete ==
  /\ synced => ~ use.mRemove
  /\ pending # None /\ pending.stage = "size" /\ ~ hasty => ~ synced
  /\ useCachedMmap = 2 => synced
  /\ SyncedFilesComplete /\ WeightsWritten

\* An allocator of feature maps has no weights and no file of sync.
Idle == ~ synced /\ weight = [w \in Weights |-> "none"]

IInv == FileInv /\ (use.ofWeights => Numbered /\ Complete) /\ (~ use.ofWeights => Idle)

------------------------------------------------------------------------------
LEMMA UseFacts ==
  ASSUME use \in Uses
  PROVE  /\ Null \notin Buffers /\ use.sizes \subseteq Nat \ {0}
         /\ use.mRemove \in BOOLEAN /\ use.mayFail \in BOOLEAN /\ use.ofWeights \in BOOLEAN
         /\ use.ofWeights => /\ Buffers \subseteq Nat \ {0}
                             /\ \A w \in Buffers : 1 .. w \subseteq Buffers
         /\ ~ use.ofWeights => \E a, b \in Buffers : Buffers = {a, b}
BY UsesAssumption DEF Buffers

LEMMA CallFacts ==
  ASSUME pending = None \/ pending \in Calls
  PROVE  /\ pending # None => pending \in Calls
         /\ pending.stage # "none" => pending # None
         /\ pending = None => pending.stage = "none"
BY DEF None, Calls

\* A call of onAlloc begins for a block that has no file.
LEMMA BeginInv ==
  ASSUME FileInv, NEW b \in Buffers, NEW extent \in use.sizes,
         up, pending = None, Begin(b, extent),
         UNCHANGED <<use, disk, synced, up, faulty, restarted>>,
         b \notin DOMAIN mCache, UNCHANGED <<mCache, mAllocTimes>>
  PROVE  FileInv'
<1>1. TypeInv'
  BY DEF FileInv, TypeInv, Begin, Calls, Buffers
<1>2. pending'.stage = "open" /\ pending'.buffer = b
  BY DEF Begin
<1>3. Dead' /\ PendingInv' /\ OwnFile' /\ NextIsFree' /\ Growing'
  BY <1>2 DEF FileInv, Dead, PendingInv, OwnFile, NextIsFree, Growing, Buffers, Mapped
<1>4. FilesHeld'
  BY <1>2 DEF FileInv, FilesHeld, Underway, Buffers, Mapped
<1> QED
  BY <1>1, <1>3, <1>4 DEF FileInv

\* A step of onAlloc keeps what blocks have, if the files that exist stay.
LEMMA AllocInv ==
  ASSUME FileInv, TypeInv', up, pending # None, pending' # None,
         pending'.buffer = pending.buffer, pending'.stage \in {"size", "map"},
         pending'.stage = "size" \/ pending'.opened => mAllocTimes \in DOMAIN disk',
         DOMAIN disk \subseteq DOMAIN disk', DOMAIN disk' \subseteq DOMAIN disk \cup {mAllocTimes},
         \A f \in DOMAIN disk : f # mAllocTimes => disk'[f] = disk[f],
         UNCHANGED <<use, synced, up, mCache, mAllocTimes, faulty, restarted>>
  PROVE  FileInv'
<1>1. pending.buffer \in Buffers /\ ~ Mapped(pending.buffer)
  BY DEF FileInv, TypeInv, PendingInv, Calls, Mapped
<1>2. Dead' /\ PendingInv' /\ NextIsFree' /\ Growing'
  BY DEF FileInv, Dead, PendingInv, NextIsFree, Growing, Buffers, Mapped
<1>3. OwnFile'
  BY <1>1 DEF FileInv, OwnFile, NextIsFree, Buffers, Mapped
<1>4. FilesHeld'
  BY DEF FileInv, FilesHeld, Underway, Buffers, Mapped
<1> QED
  BY <1>2, <1>3, <1>4 DEF FileInv

\* What Open does to the disk and to the call.
LEMMA Opening ==
  ASSUME FileInv, Open
  PROVE  /\ pending \in Calls /\ pending # None /\ up /\ pending.stage = "open"
         /\ mAllocTimes \in Files
         /\ pending' \in Calls /\ pending' # None /\ pending'.buffer = pending.buffer
         /\ pending'.stage \in {"map", "size"}
         /\ pending'.stage = "size" \/ pending'.opened => mAllocTimes \in DOMAIN disk'
         /\ pending'.stage = "size" => mAllocTimes \notin DOMAIN disk
         /\ DOMAIN disk \subseteq DOMAIN disk'
         /\ DOMAIN disk' \subseteq DOMAIN disk \cup {mAllocTimes}
         /\ \A f \in DOMAIN disk : disk'[f] = disk[f]
         /\ disk' \in [DOMAIN disk' -> Nat]
         /\ UNCHANGED <<synced, up, mCache, mAllocTimes, faulty, restarted>>
<1>1. pending \in Calls /\ pending # None /\ up /\ pending.stage = "open"
  BY CallFacts DEF Open, FileInv, TypeInv
<1>2. UNCHANGED <<synced, up, mCache, mAllocTimes, faulty, restarted>>
  BY DEF Open, history
<1>3. mAllocTimes \in Files
  <2>1. mAllocTimes < MaxTimes /\ mAllocTimes \in Nat
    BY DEF Open, FileInv, TypeInv
  <2> QED
    BY <2>1, MaxTimesAssumption DEF Files
<1>4. CASE mAllocTimes \in DOMAIN disk
  <2>1. UNCHANGED disk
    BY <1>4 DEF Open
  <2>2. PICK opened \in BOOLEAN : pending' = [pending EXCEPT !.stage = "map", !.opened = opened]
    BY <1>4 DEF Open
  <2>3. /\ pending' \in Calls /\ pending' # None /\ pending'.buffer = pending.buffer
        /\ pending'.stage = "map"
    BY <1>1, <2>2 DEF Calls, None
  <2> QED
    BY <1>1, <1>2, <1>3, <1>4, <2>1, <2>3 DEF FileInv, TypeInv
<1>5. CASE mAllocTimes \notin DOMAIN disk
  <2>1. CASE /\ disk' = Inserted(disk, mAllocTimes, 0)
             /\ pending' = [pending EXCEPT !.stage = "size"]
    <3>1. /\ DOMAIN disk' = DOMAIN disk \cup {mAllocTimes}
          /\ \A f \in DOMAIN disk : disk'[f] = disk[f]
          /\ disk' \in [DOMAIN disk' -> Nat]
      BY <2>1 DEF FileInv, TypeInv, Inserted
    <3>2. /\ pending' \in Calls /\ pending' # None /\ pending'.buffer = pending.buffer
          /\ pending'.stage = "size"
      BY <1>1, <2>1 DEF Calls, None
    <3> QED
      BY <1>1, <1>2, <1>3, <1>5, <3>1, <3>2
  <2>2. CASE UNCHANGED disk /\ pending' = [pending EXCEPT !.stage = "map", !.opened = FALSE]
    <3>1. /\ pending' \in Calls /\ pending' # None /\ pending'.buffer = pending.buffer
          /\ pending'.stage = "map" /\ ~ pending'.opened
      BY <1>1, <2>2 DEF Calls, None
    <3> QED
      BY <1>1, <1>2, <1>3, <2>2, <3>1 DEF FileInv, TypeInv
  <2> QED
    BY <1>5, <2>1, <2>2 DEF Open
<1> QED
  BY <1>4, <1>5

LEMMA OpenInv ==
  ASSUME FileInv, Open, UNCHANGED use
  PROVE  FileInv'
<1>1. TypeInv'
  BY Opening DEF FileInv, TypeInv, Calls, Buffers, Files
<1> QED
  BY <1>1, Opening, AllocInv

\* What SetFileSize does to the disk and to the call.
LEMMA Sizing ==
  ASSUME FileInv, SetFileSize
  PROVE  /\ pending \in Calls /\ pending # None /\ up /\ pending.stage = "size"
         /\ mAllocTimes \in DOMAIN disk
         /\ pending' \in Calls /\ pending' # None /\ pending'.buffer = pending.buffer
         /\ pending'.stage = "map"
         /\ DOMAIN disk' = DOMAIN disk /\ disk' \in [DOMAIN disk' -> Nat]
         /\ \A f \in DOMAIN disk : f # mAllocTimes => disk'[f] = disk[f]
         /\ UNCHANGED <<synced, up, mCache, mAllocTimes, faulty, restarted>>
<1>1. pending \in Calls /\ pending # None /\ up /\ pending.stage = "size"
  BY CallFacts DEF SetFileSize, FileInv, TypeInv
<1>2. pending' \in Calls /\ pending' # None /\ pending'.buffer = pending.buffer
      /\ pending'.stage = "map"
  BY <1>1 DEF SetFileSize, Calls, None
<1>3. mAllocTimes \in DOMAIN disk
  BY <1>1 DEF FileInv, PendingInv
<1>4. pending.size \in Nat
  BY <1>1, UseFacts DEF FileInv, TypeInv, Calls
<1>5. /\ DOMAIN disk' = DOMAIN disk /\ disk' \in [DOMAIN disk' -> Nat]
      /\ \A f \in DOMAIN disk : f # mAllocTimes => disk'[f] = disk[f]
  <2>1. CASE disk' = [disk EXCEPT ![mAllocTimes] = pending.size]
    BY <2>1, <1>3, <1>4 DEF FileInv, TypeInv
  <2>2. CASE UNCHANGED disk
    BY <2>2 DEF FileInv, TypeInv
  <2> QED
    BY <2>1, <2>2 DEF SetFileSize
<1>6. UNCHANGED <<synced, up, mCache, mAllocTimes, faulty, restarted>>
  BY DEF SetFileSize, history
<1> QED
  BY <1>1, <1>2, <1>3, <1>5, <1>6

LEMMA SetFileSizeInv ==
  ASSUME FileInv, SetFileSize, UNCHANGED use
  PROVE  FileInv'
<1>1. TypeInv'
  BY Sizing DEF FileInv, TypeInv, Calls, Buffers, Files
<1> QED
  BY <1>1, Sizing, AllocInv

\* What Map does: the block gets the file, or nobody does and its number is used up.
LEMMA Mapping ==
  ASSUME FileInv, Map
  PROVE  /\ pending \in Calls /\ pending # None /\ up /\ pending.stage = "map"
         /\ pending' = None /\ mAllocTimes' = mAllocTimes + 1
         /\ UNCHANGED <<disk, synced, up>>
         /\ \E entry \in [file : {mAllocTimes}, size : use.sizes] :
              \/ /\ DOMAIN mCache' = DOMAIN mCache \cup {pending.buffer}
                 /\ mCache'[pending.buffer] = entry
                 /\ \A a \in DOMAIN mCache : mCache'[a] = mCache[a]
                 /\ pending.opened /\ entry.size <= disk[mAllocTimes]
                 /\ UNCHANGED <<faulty, restarted>>
              \/ /\ DOMAIN mCache' = DOMAIN mCache \cup {Null}
                 /\ Null \notin DOMAIN mCache => mCache'[Null] = entry
                 /\ \A a \in DOMAIN mCache : mCache'[a] = mCache[a]
                 /\ faulty' = TRUE
                 /\ restarted' = (restarted \/ \E c \in Buffers :
                                    Mapped(c) /\ mCache[c].file > mAllocTimes)
<1> DEFINE b == pending.buffer
           entry == [file |-> mAllocTimes, size |-> pending.size]
<1>1. pending \in Calls /\ pending # None /\ up /\ pending.stage = "map"
  BY CallFacts DEF Map, FileInv, TypeInv
<1>2. /\ pending' = None /\ mAllocTimes' = mAllocTimes + 1
      /\ UNCHANGED <<disk, synced, up>>
  BY DEF Map
<1>3. /\ entry \in [file : {mAllocTimes}, size : use.sizes] /\ b \notin DOMAIN mCache
      /\ entry.size = pending.size
  BY <1>1 DEF FileInv, PendingInv, Calls
<1>4. \/ /\ mCache' = Inserted(mCache, b, entry) /\ UNCHANGED <<faulty, restarted>>
         /\ pending.opened /\ pending.size <= disk[mAllocTimes]
      \/ /\ mCache' = Inserted(mCache, Null, entry) /\ faulty' = TRUE
         /\ restarted' = (restarted \/ \E c \in Buffers :
                            Mapped(c) /\ mCache[c].file > mAllocTimes)
  BY DEF Map, LargeEnough, history
<1> HIDE DEF b, entry
<1>5. CASE /\ mCache' = Inserted(mCache, b, entry) /\ UNCHANGED <<faulty, restarted>>
           /\ pending.opened /\ pending.size <= disk[mAllocTimes]
  <2>1. /\ DOMAIN mCache' = DOMAIN mCache \cup {b} /\ mCache'[b] = entry
        /\ \A a \in DOMAIN mCache : mCache'[a] = mCache[a]
    BY <1>3, <1>5 DEF Inserted
  <2> QED
    BY <1>1, <1>2, <1>3, <1>5, <2>1 DEF b
<1>6. CASE /\ mCache' = Inserted(mCache, Null, entry) /\ faulty' = TRUE
           /\ restarted' = (restarted \/ \E c \in Buffers :
                              Mapped(c) /\ mCache[c].file > mAllocTimes)
  <2>1. /\ DOMAIN mCache' = DOMAIN mCache \cup {Null}
        /\ Null \notin DOMAIN mCache => mCache'[Null] = entry
        /\ \A a \in DOMAIN mCache : mCache'[a] = mCache[a]
    BY <1>6 DEF Inserted
  <2> QED
    BY <1>1, <1>2, <1>3, <1>6, <2>1
<1> QED
  BY <1>4, <1>5, <1>6

LEMMA MapInv ==
  ASSUME FileInv, Map, UNCHANGED use
  PROVE  FileInv'
<1>1. /\ up /\ pending' = None /\ mAllocTimes' = mAllocTimes + 1
      /\ UNCHANGED <<disk, synced, up>> /\ mAllocTimes \in Nat
      /\ pending # None /\ pending.stage = "map"
  BY Mapping DEF FileInv, TypeInv
<1>2. /\ pending.buffer \in Buffers /\ ~ Mapped(pending.buffer) /\ Null \notin Buffers
      /\ pending.opened => mAllocTimes \in DOMAIN disk
  BY Mapping, UseFacts DEF FileInv, TypeInv, PendingInv, Calls, Mapped
<1> DEFINE b == pending.buffer
<1>3. PICK entry \in [file : {mAllocTimes}, size : use.sizes] :
        \/ /\ DOMAIN mCache' = DOMAIN mCache \cup {b} /\ mCache'[b] = entry
           /\ \A a \in DOMAIN mCache : mCache'[a] = mCache[a]
           /\ pending.opened /\ entry.size <= disk[mAllocTimes]
           /\ UNCHANGED <<faulty, restarted>>
        \/ /\ DOMAIN mCache' = DOMAIN mCache \cup {Null}
           /\ Null \notin DOMAIN mCache => mCache'[Null] = entry
           /\ \A a \in DOMAIN mCache : mCache'[a] = mCache[a]
           /\ faulty' = TRUE
           /\ restarted' = (restarted \/ \E c \in Buffers :
                              Mapped(c) /\ mCache[c].file > mAllocTimes)
  BY Mapping
<1> HIDE DEF b
<1>4. entry.file = mAllocTimes /\ entry.size \in use.sizes /\ b \in Buffers /\ ~ Mapped(b)
  BY <1>2 DEF b
<1>5. \A a \in DOMAIN mCache : mCache[a].file \in Nat
  BY DEF FileInv, TypeInv
<1>6. restarted' \in BOOLEAN /\ (~ restarted' => ~ restarted) /\ faulty' \in BOOLEAN
  BY <1>3 DEF FileInv, TypeInv
<1>7. TypeInv'
  BY <1>1, <1>3, <1>4, <1>6 DEF FileInv, TypeInv, Buffers, Calls
<1>8. Dead' /\ PendingInv'
  BY <1>1 DEF Dead, PendingInv
<1>9. CASE /\ DOMAIN mCache' = DOMAIN mCache \cup {b} /\ mCache'[b] = entry
           /\ \A a \in DOMAIN mCache : mCache'[a] = mCache[a]
           /\ pending.opened /\ entry.size <= disk[mAllocTimes]
           /\ UNCHANGED <<faulty, restarted>>
  <2>1. OwnFile'
    <3>1. mAllocTimes \in DOMAIN disk /\ disk[mAllocTimes] >= entry.size
      BY <1>2, <1>4, <1>9, UseFacts DEF FileInv, TypeInv
    <3> QED
      BY <1>1, <1>4, <1>9, <3>1 DEF FileInv, OwnFile, NextIsFree, Buffers, Mapped
  <2>2. Growing'
    BY <1>1, <1>4, <1>5, <1>9 DEF FileInv, Growing
  <2>3. NextIsFree'
    <3>1. CASE use.ofWeights
      BY <1>1, <1>5, <1>9, <2>2, <3>1 DEF Growing, NextIsFree, Mapped
    <3>2. CASE ~ use.ofWeights
      <4>1. PICK c, d \in Buffers : Buffers = {c, d}
        BY <3>2, UseFacts DEF FileInv, TypeInv
      <4>2. \A e, f \in Buffers : Mapped(e)' /\ ~ Mapped(f)' => e = b
        BY <1>4, <1>9, <4>1 DEF Mapped
      <4>3. mAllocTimes' # mAllocTimes
        BY <1>1
      <4> QED
        BY <1>4, <1>9, <4>2, <4>3 DEF NextIsFree, Buffers
    <3> QED
      BY <3>1, <3>2
  <2>4. FilesHeld'
    BY <1>1, <1>4, <1>9 DEF FileInv, FilesHeld, Underway, Buffers, Mapped
  <2> QED
    BY <1>7, <1>8, <2>1, <2>2, <2>3, <2>4 DEF FileInv
<1>10. CASE /\ DOMAIN mCache' = DOMAIN mCache \cup {Null}
            /\ Null \notin DOMAIN mCache => mCache'[Null] = entry
            /\ \A a \in DOMAIN mCache : mCache'[a] = mCache[a]
            /\ faulty' = TRUE
            /\ restarted' = (restarted \/ \E c \in Buffers :
                               Mapped(c) /\ mCache[c].file > mAllocTimes)
  <2>1. OwnFile'
    BY <1>1, <1>2, <1>6, <1>10 DEF FileInv, OwnFile, Buffers, Mapped
  <2>2. \A c \in Buffers : Mapped(c)' <=> Mapped(c)
    BY <1>2, <1>10 DEF Mapped
  <2>3. ~ restarted' => \A c \in Buffers : Mapped(c) => ~ (mCache[c].file > mAllocTimes)
    BY <1>10, Zenon
  <2>4. NextIsFree'
    <3>1. ~ restarted' =>
            \A c \in Buffers : Mapped(c) => mCache[c].file <= mAllocTimes
      BY <1>1, <1>5, <2>3 DEF Mapped
    <3>2. ~ restarted' =>
            \A c \in Buffers : Mapped(c) => mCache'[c].file # mAllocTimes + 1
      BY <1>1, <1>5, <1>10, <3>1 DEF Mapped
    <3> QED
      BY <1>1, <2>2, <3>2 DEF NextIsFree, Buffers
  <2>5. Growing'
    <3>1. use.ofWeights => ~ \E c \in Buffers : Mapped(c) /\ mCache[c].file > mAllocTimes
      BY <1>1, <1>5 DEF FileInv, Growing, Mapped
    <3>2. use.ofWeights => ~ restarted'
      BY <1>10, <3>1, Zenon DEF FileInv, Growing
    <3>3. use.ofWeights => \A a \in DOMAIN mCache' : mCache'[a].file < mAllocTimes + 1
      BY <1>1, <1>4, <1>5, <1>10 DEF FileInv, Growing
    <3> QED
      BY <1>1, <3>2, <3>3 DEF Growing
  <2>6. FilesHeld'
    BY <1>10 DEF FilesHeld
  <2> QED
    BY <1>7, <1>8, <2>1, <2>4, <2>5, <2>6 DEF FileInv
<1> QED
  BY <1>3, <1>9, <1>10

\* onRelease takes the file with the block.  Unless the numbers go back behind a
\* block that stays, the other blocks have files of their own, of higher numbers.
LEMMA Releasing ==
  ASSUME FileInv, NEW b \in Buffers, Mapped(b), OnRelease(b), UNCHANGED use
  PROVE  /\ disk' \in [DOMAIN disk' -> Nat] /\ DOMAIN disk' \subseteq Files
         /\ DOMAIN mCache' = DOMAIN mCache \ {b} /\ mAllocTimes' = 0
         /\ \A a \in DOMAIN mCache' : mCache'[a] = mCache[a]
         /\ restarted' \in BOOLEAN
         /\ OwnFile' /\ NextIsFree'
         /\ use.mRemove => DOMAIN disk' = DOMAIN disk \ {mCache[b].file}
<1>1. /\ DOMAIN mCache' = DOMAIN mCache \ {b} /\ mAllocTimes' = 0
      /\ \A a \in DOMAIN mCache' : mCache'[a] = mCache[a]
  BY DEF OnRelease, Without, Restrict
<1>2. /\ disk' = disk \/ DOMAIN disk' = DOMAIN disk \ {mCache[b].file}
      /\ use.mRemove => DOMAIN disk' = DOMAIN disk \ {mCache[b].file}
      /\ \A f \in DOMAIN disk' : disk'[f] = disk[f]
      /\ disk' \in [DOMAIN disk' -> Nat] /\ DOMAIN disk' \subseteq Files
  <2>1. CASE use.mRemove
    <3>1. disk' = Without(disk, {mCache[b].file})
      BY <2>1 DEF OnRelease, Removed
    <3> QED
      BY <2>1, <3>1 DEF Without, Restrict, FileInv, TypeInv
  <2>2. CASE ~ use.mRemove
    BY <2>2 DEF OnRelease, Removed, FileInv, TypeInv
  <2> QED
    BY <2>1, <2>2
<1>3. /\ restarted' \in BOOLEAN
      /\ ~ restarted' =>
           ~ restarted /\ \A c \in Buffers \ {b} : Mapped(c) => ~ (mCache[c].file < mCache[b].file)
  BY Zenon DEF OnRelease, FileInv, TypeInv
<1>4. ~ restarted' =>
        \A c \in Buffers \ {b} : Mapped(c) =>
          /\ mCache[c].file # mCache[b].file /\ mCache[c].file # 0
          /\ mCache[c].file \in DOMAIN disk /\ disk[mCache[c].file] >= mCache[c].size
  <2>1. ~ restarted' =>
          \A c \in Buffers \ {b} : Mapped(c) =>
            /\ mCache[c].file # mCache[b].file
            /\ mCache[c].file \in DOMAIN disk /\ disk[mCache[c].file] >= mCache[c].size
    BY <1>3 DEF FileInv, OwnFile
  <2>2. \A c \in Buffers : Mapped(c) => mCache[c].file \in Nat
    BY DEF FileInv, TypeInv, Mapped
  <2> QED
    BY <1>3, <2>1, <2>2
<1>5. \A c \in Buffers : Mapped(c)' <=> Mapped(c) /\ c # b
  BY <1>1 DEF Mapped
<1>6. OwnFile'
  BY <1>1, <1>2, <1>3, <1>4, <1>5 DEF FileInv, OwnFile, Buffers, Mapped
<1>7. NextIsFree'
  BY <1>1, <1>4, <1>5 DEF NextIsFree, Buffers, Mapped
<1> QED
  BY <1>1, <1>2, <1>3, <1>6, <1>7

\* Only feature maps release and grow.
LEMMA ReallocInv ==
  ASSUME FileInv, ~ use.ofWeights, UNCHANGED use,
         NEW b \in Buffers, NEW extent \in use.sizes, Realloc(b, extent)
  PROVE  FileInv'
<1>1. /\ up /\ pending = None /\ UNCHANGED <<use, synced, up, faulty>>
      /\ pending' \in Calls /\ pending'.stage = "open" /\ pending'.buffer = b /\ pending' # None
  BY DEF Realloc, Begin, Calls, None
<1>2. CASE Mapped(b) /\ OnRelease(b)
  <2>1. /\ disk' \in [DOMAIN disk' -> Nat] /\ DOMAIN disk' \subseteq Files
        /\ DOMAIN mCache' = DOMAIN mCache \ {b} /\ mAllocTimes' = 0
        /\ \A a \in DOMAIN mCache' : mCache'[a] = mCache[a]
        /\ restarted' \in BOOLEAN
        /\ OwnFile' /\ NextIsFree'
        /\ use.mRemove => DOMAIN disk' = DOMAIN disk \ {mCache[b].file}
    BY <1>2, Releasing
  <2>2. TypeInv'
    BY <1>1, <2>1 DEF FileInv, TypeInv, Buffers, Calls
  <2>3. Dead' /\ PendingInv' /\ Growing'
    BY <1>1, <2>1 DEF Dead, PendingInv, Growing
  <2>4. FilesHeld'
    BY <1>1, <2>1 DEF FileInv, FilesHeld, Underway, Buffers, Mapped
  <2> QED
    BY <2>1, <2>2, <2>3, <2>4 DEF FileInv
<1>3. CASE ~ Mapped(b) /\ UNCHANGED <<mCache, disk, mAllocTimes, restarted>>
  BY <1>1, <1>3, BeginInv DEF Realloc, Mapped
<1> QED
  BY <1>2, <1>3 DEF Realloc

LEMMA ReleaseInv ==
  ASSUME FileInv, ~ use.ofWeights, UNCHANGED use, NEW b \in Buffers, Release(b)
  PROVE  FileInv'
<1>1. /\ up /\ pending = None /\ UNCHANGED <<use, synced, up, faulty, pending>>
      /\ Mapped(b) /\ OnRelease(b)
  BY DEF Release
<1>2. /\ disk' \in [DOMAIN disk' -> Nat] /\ DOMAIN disk' \subseteq Files
      /\ DOMAIN mCache' = DOMAIN mCache \ {b} /\ mAllocTimes' = 0
      /\ \A a \in DOMAIN mCache' : mCache'[a] = mCache[a]
      /\ restarted' \in BOOLEAN
      /\ OwnFile' /\ NextIsFree'
      /\ use.mRemove => DOMAIN disk' = DOMAIN disk \ {mCache[b].file}
  BY <1>1, Releasing
<1>3. TypeInv'
  BY <1>1, <1>2 DEF FileInv, TypeInv, Buffers, Calls
<1>4. FilesHeld'
  BY <1>1, <1>2 DEF FileInv, FilesHeld, Underway, Buffers, Mapped
<1> QED
  BY <1>1, <1>2, <1>3, <1>4 DEF FileInv, Dead, PendingInv, Growing

\* A process that ends regularly removes its files, one that is killed leaves
\* whatever there is.
LEMMA EndInv ==
  ASSUME FileInv, UNCHANGED use, Exit \/ Kill
  PROVE  FileInv'
<1>1. /\ up' = FALSE /\ mCache' = <<>> /\ mAllocTimes' = 0 /\ pending' = None /\ UNCHANGED synced
      /\ DOMAIN mCache' = {} /\ faulty' \in BOOLEAN /\ restarted' = FALSE
  <2>1. Ended
    BY DEF Exit, Kill
  <2>2. faulty' \in BOOLEAN
    BY DEF Exit, Kill, FileInv, TypeInv
  <2> QED
    BY <2>1, <2>2 DEF Ended
<1>2. Dead' /\ PendingInv' /\ OwnFile' /\ NextIsFree' /\ Growing'
  BY <1>1 DEF Dead, PendingInv, OwnFile, NextIsFree, Growing, Mapped
<1> DEFINE mine == {mCache[a].file : a \in DOMAIN mCache}
<1>3. CASE Exit /\ use.mRemove
  <2>1. disk' = Without(disk, mine)
    BY <1>3 DEF Exit, Removed
  <2>2. DOMAIN disk' = DOMAIN disk \ mine /\ disk' \in [DOMAIN disk' -> Nat]
    BY <2>1 DEF Without, Restrict, FileInv, TypeInv
  <2>3. ~ faulty => DOMAIN disk \subseteq mine
    BY <1>3 DEF Exit, FileInv, FilesHeld, Underway, Mapped
  <2>4. UNCHANGED faulty
    BY <1>3 DEF Exit
  <2> HIDE DEF mine
  <2>5. TypeInv'
    BY <1>1, <2>2 DEF FileInv, TypeInv, Files, Calls
  <2>6. FilesHeld'
    BY <2>2, <2>3, <2>4 DEF FilesHeld
  <2> QED
    BY <1>2, <2>5, <2>6 DEF FileInv
<1>4. CASE Kill \/ ~ use.mRemove
  <2>1. UNCHANGED disk
    BY <1>4 DEF Exit, Removed, Kill
  <2>2. faulty' = TRUE \/ ~ use.mRemove
    BY <1>4 DEF Kill
  <2>3. TypeInv'
    BY <1>1, <2>1 DEF FileInv, TypeInv, Files, Calls
  <2> QED
    BY <1>2, <2>2, <2>3 DEF FileInv, FilesHeld
<1> QED
  BY <1>3, <1>4

\* Nothing of a new process is on the disk or in memory.
LEMMA QuietInv ==
  ASSUME FileInv, UNCHANGED <<use, disk, mCache, mAllocTimes, pending, faulty, restarted>>,
         synced' \in BOOLEAN, up' \in BOOLEAN, up => up'
  PROVE  FileInv'
<1>1. TypeInv'
  BY DEF FileInv, TypeInv, Files, Buffers, Calls
<1> QED
  BY <1>1 DEF FileInv, Dead, PendingInv, OwnFile, NextIsFree, Growing, FilesHeld, Underway, Mapped,
              Buffers

------------------------------------------------------------------------------
\* The steps of an allocator of weights.
WeightInv == Numbered /\ Complete

LEMMA WeightFacts ==
  ASSUME FileInv, use.ofWeights
  PROVE  /\ \A w \in Weights : w \in Nat /\ w > 0 /\ 1 .. w \subseteq Weights
         /\ use.mRemove \in BOOLEAN
         /\ Null \notin Weights
BY UseFacts DEF FileInv, TypeInv, Weights

LEMMA LevelInv ==
  ASSUME Numbered, Complete, NEW level \in 0 .. 2, level = 2 => synced
  PROVE  Hint(level) \in 0 .. 2 /\ (Hint(level) = 2 => synced)
BY DEF Hint, SyncValid

LEMMA StartWeights ==
  ASSUME FileInv, use.ofWeights, WeightInv, UNCHANGED use, CacheStart \/ OnCreate
  PROVE  FileInv' /\ WeightInv'
<1>1. /\ UNCHANGED <<use, disk, synced, mCache, mAllocTimes, pending, faulty, restarted>>
      /\ UNCHANGED <<mStaticAllocator, data, weight, hasty>>
      /\ up'
  BY DEF CacheStart, Start, OnCreate, mmapVars, history
<1>2. up' \in BOOLEAN
  BY DEF CacheStart, Start, OnCreate, mmapVars, FileInv, TypeInv
<1>3. FileInv'
  BY <1>1, <1>2, QuietInv DEF FileInv, TypeInv
<1>4. FirstUse \in 0 .. 2 /\ FirstUse # 2
  BY DEF FirstUse
<1>5. useCachedMmap' \in 0 .. 2 /\ (useCachedMmap' = 2 => synced)
  BY <1>4, LevelInv DEF CacheStart, OnCreate, WeightInv, Numbered, Complete
<1>6. Numbered'
  BY <1>1, <1>5 DEF WeightInv, Numbered, Weights, Buffers, Mapped, Fates, Files
<1>7. Complete'
  BY <1>1, <1>5 DEF WeightInv, Complete, SyncedFilesComplete, WeightsWritten, Weights, Buffers
<1> QED
  BY <1>3, <1>6, <1>7 DEF WeightInv

LEMMA LoadWeights ==
  ASSUME FileInv, use.ofWeights, WeightInv, UNCHANGED use, NEW w \in Weights, LoadMapped(w)
  PROVE  FileInv' /\ WeightInv'
<1>1. /\ up /\ pending = None /\ mStaticAllocator = "mmap" /\ NextToLoad(w)
      /\ UNCHANGED <<use, disk, synced, up, mCache, mAllocTimes, faulty, restarted>>
      /\ UNCHANGED <<mStaticAllocator, useCachedMmap, data, weight, hasty>>
  BY DEF LoadMapped, cache, history
<1>2. PICK extent \in use.sizes : Begin(w, extent)
  BY DEF LoadMapped
<1>3. w = mAllocTimes + 1
  <2>1. w \in Nat /\ w > 0 /\ 1 .. w \subseteq Weights /\ mAllocTimes \in Nat
    BY WeightFacts DEF FileInv, TypeInv
  <2>2. /\ w > mAllocTimes
        /\ \A v \in Weights : v < w => ~ (v > mAllocTimes)
    BY <1>1 DEF WeightInv, Numbered, NextToLoad
  <2>3. CASE w = 1
    BY <2>1, <2>2, <2>3
  <2>4. CASE w # 1
    <3>1. w - 1 \in Weights /\ w - 1 < w
      BY <2>1, <2>4
    <3> QED
      BY <2>1, <2>2, <3>1
  <2> QED
    BY <2>3, <2>4
<1>4. w \notin DOMAIN mCache
  <2>1. /\ \A a \in DOMAIN mCache : mCache[a].file < mAllocTimes /\ mCache[a].file \in Nat
        /\ \A c \in Weights : Mapped(c) => mCache[c].file = c - 1
    BY DEF WeightInv, Numbered, FileInv, TypeInv, Growing
  <2>2. mAllocTimes \in Nat
    BY DEF FileInv, TypeInv
  <2> QED
    BY <1>3, <2>1, <2>2 DEF Mapped
<1>5. FileInv'
  BY <1>1, <1>2, <1>4, BeginInv DEF Weights
<1>6. pending'.stage = "open" /\ pending'.buffer = w
  BY <1>2 DEF Begin
<1>7. Numbered'
  BY <1>1, <1>3, <1>6 DEF WeightInv, Numbered, Weights, Buffers, Mapped, Fates, Files
<1>8. Complete'
  BY <1>1, <1>6 DEF WeightInv, Complete, SyncedFilesComplete, WeightsWritten, Weights, Buffers
<1> QED
  BY <1>5, <1>7, <1>8 DEF WeightInv

\* A file is created for a weight that nobody holds yet, while there is no file
\* of sync unless one was left too early.
LEMMA OpenWeights ==
  ASSUME FileInv, use.ofWeights, WeightInv, UNCHANGED use, CacheOpen
  PROVE  FileInv' /\ WeightInv'
<1>1. FileInv' /\ Open
  BY OpenInv DEF CacheOpen
<1>2. /\ pending # None /\ pending' # None /\ pending'.buffer = pending.buffer
      /\ pending'.stage \in {"map", "size"} /\ mAllocTimes \in Files
      /\ pending'.stage = "size" => mAllocTimes \notin DOMAIN disk
      /\ DOMAIN disk \subseteq DOMAIN disk'
      /\ UNCHANGED <<synced, up, mCache, mAllocTimes>>
  BY <1>1, Opening
<1>3. UNCHANGED <<mStaticAllocator, useCachedMmap, weight, hasty>>
  BY DEF CacheOpen
<1>4. mStaticAllocator = "mmap" /\ pending.buffer = mAllocTimes + 1 /\ pending.buffer \in Weights
  BY <1>2 DEF WeightInv, Numbered, FileInv, TypeInv, Calls, Weights
<1>5. /\ data' \in [Files -> Weights \cup {Null}]
      /\ \A f \in DOMAIN disk : data'[f] = data[f]
  <2>1. data' = data \/ (mAllocTimes \notin DOMAIN disk /\ data' = [data EXCEPT ![mAllocTimes] = Null])
    BY DEF CacheOpen
  <2> QED
    BY <1>2, <2>1 DEF WeightInv, Numbered, FileInv, TypeInv
<1>6. Numbered'
  BY <1>2, <1>3, <1>4, <1>5 DEF WeightInv, Numbered, Weights, Buffers, Mapped, Fates, Files
<1>7. WeightsWritten'
  <2>1. \A w \in Weights : weight[w] = "packed" =>
          w \in DOMAIN mCache /\ mCache[w].file \in DOMAIN disk
    BY DEF WeightInv, Numbered, FileInv, Growing, OwnFile, Mapped, Weights
  <2> QED
    BY <1>2, <1>3, <1>5, <2>1 DEF WeightInv, Complete, WeightsWritten, Weights, Buffers
<1>8. SyncedFilesComplete'
  BY <1>2, <1>3, <1>5 DEF WeightInv, Complete, SyncedFilesComplete, Weights, Buffers
<1>9. ASSUME pending'.stage = "size", ~ hasty PROVE ~ synced
  <2>1. pending.buffer - 1 = mAllocTimes
    BY <1>4 DEF FileInv, TypeInv
  <2> QED
    BY <1>2, <1>4, <1>9, <2>1 DEF WeightInv, Complete, SyncedFilesComplete
<1>10. Complete'
  BY <1>2, <1>3, <1>7, <1>8, <1>9 DEF WeightInv, Complete
<1> QED
  BY <1>1, <1>6, <1>10 DEF WeightInv

LEMMA SizeWeights ==
  ASSUME FileInv, use.ofWeights, WeightInv, UNCHANGED use, SetFileSize, UNCHANGED cache
  PROVE  FileInv' /\ WeightInv'
<1>1. FileInv'
  BY SetFileSizeInv
<1>2. /\ pending # None /\ pending' # None /\ pending'.buffer = pending.buffer
      /\ pending'.stage = "map" /\ DOMAIN disk' = DOMAIN disk
      /\ UNCHANGED <<synced, up, mCache, mAllocTimes>>
  BY Sizing
<1>3. UNCHANGED <<mStaticAllocator, useCachedMmap, weight, data, hasty>>
  BY DEF cache
<1>4. Numbered'
  BY <1>2, <1>3 DEF WeightInv, Numbered, Weights, Buffers, Mapped, Fates, Files
<1>5. Complete'
  BY <1>2, <1>3 DEF WeightInv, Complete, SyncedFilesComplete, WeightsWritten, Weights, Buffers
<1> QED
  BY <1>1, <1>4, <1>5 DEF WeightInv

\* A weight gets the file of its number or none, and the number is used up.
LEMMA MapWeights ==
  ASSUME FileInv, use.ofWeights, WeightInv, UNCHANGED use, CacheMap
  PROVE  FileInv' /\ WeightInv'
<1> DEFINE w == pending.buffer
<1>1. FileInv' /\ Map
  BY MapInv DEF CacheMap
<1>2. /\ pending # None /\ pending' = None /\ mAllocTimes' = mAllocTimes + 1
      /\ UNCHANGED <<disk, synced, up>>
  BY <1>1, Mapping
<1>3. UNCHANGED <<mStaticAllocator, useCachedMmap, data, hasty>>
  BY DEF CacheMap
<1>4. /\ mStaticAllocator = "mmap" /\ w = mAllocTimes + 1 /\ mAllocTimes \in Nat
      /\ w \in Weights /\ w \notin DOMAIN mCache
  BY <1>2 DEF WeightInv, Numbered, FileInv, TypeInv, PendingInv, Calls, Weights
<1>5. weight' = [weight EXCEPT ![w] = IF w \in DOMAIN mCache' THEN "mapped" ELSE "failed"]
  BY DEF CacheMap
<1>6. PICK entry \in [file : {mAllocTimes}, size : use.sizes] :
        /\ \/ DOMAIN mCache' = DOMAIN mCache \cup {w} /\ mCache'[w] = entry
           \/ DOMAIN mCache' = DOMAIN mCache \cup {Null}
        /\ \A a \in DOMAIN mCache : mCache'[a] = mCache[a]
  BY <1>1, Mapping
<1> HIDE DEF w
<1>7. /\ \A v \in Weights : v \in DOMAIN mCache' =>
           /\ mCache'[v].file = v - 1
           /\ v # w => v \in DOMAIN mCache
      /\ DOMAIN mCache \subseteq DOMAIN mCache'
  <2>1. Null \notin Weights /\ \A v \in Weights : v \in DOMAIN mCache => mCache[v].file = v - 1
    BY WeightFacts DEF WeightInv, Numbered, Mapped
  <2>2. entry.file = w - 1
    BY <1>4
  <2>3. CASE DOMAIN mCache' = DOMAIN mCache \cup {w} /\ mCache'[w] = entry
    BY <1>6, <2>1, <2>2, <2>3
  <2>4. CASE DOMAIN mCache' = DOMAIN mCache \cup {Null}
    <3>1. \A v \in Weights : v \in DOMAIN mCache' => v \in DOMAIN mCache
      BY <2>1, <2>4
    <3> QED
      BY <1>6, <2>1, <2>4, <3>1
  <2> QED
    BY <1>6, <2>3, <2>4
<1>8. /\ weight' \in [Weights -> Fates] /\ weight'[w] \in {"mapped", "failed"}
      /\ weight'[w] = "mapped" => w \in DOMAIN mCache'
      /\ \A v \in Weights : v # w => weight'[v] = weight[v]
  BY <1>4, <1>5 DEF WeightInv, Numbered, Fates
<1>9. \A v \in Weights : weight'[v] = "none" <=> v > mAllocTimes'
  <2>1. \A v \in Weights : v \in Nat /\ (weight[v] = "none" <=> v > mAllocTimes)
    BY <1>4, WeightFacts DEF WeightInv, Numbered
  <2> QED
    BY <1>2, <1>4, <1>8, <2>1
<1>10. Numbered'
  BY <1>2, <1>3, <1>4, <1>7, <1>8, <1>9
     DEF WeightInv, Numbered, Weights, Buffers, Mapped, Fates, Files
<1>11. WeightsWritten'
  <2>1. \A v \in Weights : weight'[v] = "packed" =>
          v \in DOMAIN mCache /\ mCache'[v] = mCache[v] /\ weight[v] = "packed"
    BY <1>6, <1>8 DEF WeightInv, Numbered, Mapped
  <2> QED
    BY <1>3, <1>8, <2>1 DEF WeightInv, Complete, WeightsWritten, Weights, Buffers
<1>12. Complete'
  BY <1>2, <1>3, <1>11 DEF WeightInv, Complete, SyncedFilesComplete, Weights, Buffers
<1> QED
  BY <1>1, <1>10, <1>12 DEF WeightInv

LEMMA PackWeights ==
  ASSUME FileInv, use.ofWeights, WeightInv, UNCHANGED use, NEW w \in Weights, Pack(w)
  PROVE  FileInv' /\ WeightInv'
<1>1. /\ up /\ weight[w] = "mapped" /\ weight' = [weight EXCEPT ![w] = "packed"]
      /\ UNCHANGED <<use, disk, synced, up, mCache, mAllocTimes, pending, faulty, restarted>>
      /\ UNCHANGED <<mStaticAllocator, useCachedMmap, hasty>>
  BY DEF Pack, mmapVars, history
<1>2. FileInv'
  BY <1>1, QuietInv DEF FileInv, TypeInv
<1>3. w \in DOMAIN mCache /\ mCache[w].file = w - 1 /\ w - 1 \in Files
  BY <1>1 DEF WeightInv, Numbered, FileInv, Growing, OwnFile, TypeInv, Mapped, Weights
<1>4. /\ weight' \in [Weights -> Fates] /\ weight'[w] = "packed"
      /\ \A v \in Weights : v # w => weight'[v] = weight[v]
  BY <1>1 DEF WeightInv, Numbered, Fates
<1>5. /\ data' \in [Files -> Weights \cup {Null}] /\ (~ hasty => data'[w - 1] = w)
      /\ \A f \in Files : f # w - 1 => data'[f] = data[f]
  <2>1. CASE Skips(useCachedMmap)
    <3>1. data' = data /\ useCachedMmap = 2
      BY <2>1 DEF Pack, Skips, WeightInv, Numbered
    <3> QED
      BY <3>1 DEF WeightInv, Numbered, Complete, SyncedFilesComplete
  <2>2. CASE ~ Skips(useCachedMmap)
    <3>1. data' = [data EXCEPT ![w - 1] = w]
      BY <1>3, <2>2 DEF Pack
    <3> QED
      BY <1>3, <3>1 DEF WeightInv, Numbered
  <2> QED
    BY <2>1, <2>2
<1>6. Numbered'
  BY <1>1, <1>3, <1>4, <1>5 DEF WeightInv, Numbered, Weights, Buffers, Mapped, Fates, Files
<1>7. WeightsWritten'
  <2>1. \A v \in Weights : v # w /\ weight[v] = "packed" =>
          mCache[v].file # w - 1 /\ mCache[v].file \in Files
    BY WeightFacts DEF WeightInv, Numbered, FileInv, Growing, OwnFile, TypeInv, Mapped, Weights
  <2> QED
    BY <1>1, <1>3, <1>4, <1>5, <2>1 DEF WeightInv, Complete, WeightsWritten, Weights, Buffers
<1>8. SyncedFilesComplete'
  <2>1. \A v \in Weights : v - 1 \in DOMAIN disk => v - 1 \in Files /\ (v - 1 = w - 1 => v = w)
    BY WeightFacts DEF FileInv, TypeInv
  <2> QED
    BY <1>1, <1>5, <2>1 DEF WeightInv, Complete, SyncedFilesComplete, Weights, Buffers
<1>9. Complete'
  BY <1>1, <1>7, <1>8 DEF WeightInv, Complete
<1> QED
  BY <1>2, <1>6, <1>9 DEF WeightInv

\* With files that are kept nothing is left to load from the heap, unless
\* onClearBuffer was hasty; with others the weight is written.
LEMMA RawWeights ==
  ASSUME FileInv, use.ofWeights, WeightInv, UNCHANGED use, NEW w \in Weights, LoadRaw(w)
  PROVE  FileInv' /\ WeightInv'
<1>1. /\ up /\ pending = None /\ mStaticAllocator = "raw" /\ weight[w] = "none"
      /\ UNCHANGED <<use, disk, synced, up, mCache, mAllocTimes, pending, faulty, restarted>>
      /\ UNCHANGED <<mStaticAllocator, useCachedMmap, data, hasty>>
  BY DEF LoadRaw, NextToLoad, mmapVars, history
<1>2. FileInv'
  BY <1>1, QuietInv DEF FileInv, TypeInv
<1>3. hasty \/ use.mRemove
  BY <1>1 DEF WeightInv, Numbered
<1>4. ~ hasty => ~ Skips(useCachedMmap)
  BY <1>3 DEF Skips, WeightInv, Numbered, Complete
<1>5. /\ weight' \in [Weights -> Fates] /\ weight'[w] \in {"raw", "unwritten"}
      /\ ~ hasty => weight'[w] = "raw"
      /\ \A v \in Weights : v # w => weight'[v] = weight[v]
  BY <1>4 DEF LoadRaw, WeightInv, Numbered, Fates
<1>6. Numbered'
  BY <1>1, <1>5 DEF WeightInv, Numbered, Weights, Buffers, Mapped, Fates, Files
<1>7. Complete'
  BY <1>1, <1>5 DEF WeightInv, Complete, SyncedFilesComplete, WeightsWritten, Weights, Buffers
<1> QED
  BY <1>2, <1>6, <1>7 DEF WeightInv

\* sync marks files of which each holds its weight, unless it is hasty.
LEMMA ClearWeights ==
  ASSUME FileInv, use.ofWeights, WeightInv, UNCHANGED use, OnClearBuffer
  PROVE  FileInv' /\ WeightInv'
<1> DEFINE leaves == ~ mSynced /\ ~ use.mRemove /\ (mNewMmap \/ ~ mSyncValid)
           missing == {w \in Weights : weight[w] = "none" \/ (leaves /\ weight[w] = "failed")}
<1>1. /\ up /\ pending = None /\ mStaticAllocator = "mmap" /\ mStaticAllocator' = "raw"
      /\ \A w \in Weights : weight[w] # "mapped"
      /\ UNCHANGED <<use, disk, up, mCache, mAllocTimes, pending, faulty, restarted>>
      /\ UNCHANGED <<useCachedMmap, data, weight>>
  BY DEF OnClearBuffer, history
<1>2. /\ synced' = (synced \/ leaves)
      /\ hasty' = (hasty \/ (~ use.mRemove /\ missing # {}))
  BY DEF OnClearBuffer
<1>3. synced' \in BOOLEAN /\ hasty' \in BOOLEAN
  BY <1>2, Zenon DEF FileInv, TypeInv, WeightInv, Numbered
<1>4. /\ synced' => synced \/ leaves
      /\ ~ hasty' => ~ hasty /\ (use.mRemove \/ missing = {})
  BY <1>2, Zenon
<1>5. synced' => ~ use.mRemove
  BY <1>4 DEF WeightInv, Complete
<1>6. ~ hasty' /\ ~ use.mRemove => \A w \in Weights : weight[w] # "none"
  BY <1>4
<1>7. ~ hasty' /\ leaves => \A w \in Weights : weight[w] # "none" /\ weight[w] # "failed"
  BY <1>4
<1> HIDE DEF leaves, missing
<1>8. FileInv'
  BY <1>1, <1>3, QuietInv DEF FileInv, TypeInv
<1>9. Numbered'
  BY <1>1, <1>3, <1>6 DEF WeightInv, Numbered, Weights, Buffers, Mapped, Fates, Files
<1>10. WeightsWritten'
  BY <1>1, <1>4 DEF WeightInv, Complete, WeightsWritten, Weights, Buffers
<1>11. SyncedFilesComplete'
  <2>1. ASSUME leaves, ~ hasty'
        PROVE  \A w \in Weights : w - 1 \in DOMAIN disk /\ data[w - 1] = w
    <3>1. \A w \in Weights : weight[w] = "packed"
      BY <1>1, <1>7, <2>1 DEF WeightInv, Numbered, Fates
    <3> QED
      BY <1>4, <2>1, <3>1 DEF WeightInv, Numbered, Complete, WeightsWritten, FileInv, Growing,
                              OwnFile, Mapped, Weights
  <2> QED
    BY <1>1, <1>4, <2>1 DEF WeightInv, Complete, SyncedFilesComplete, Weights, Buffers
<1>12. Complete'
  <2>1. useCachedMmap' = 2 => synced'
    BY <1>1, <1>2 DEF WeightInv, Complete
  <2> QED
    BY <1>1, <1>5, <1>10, <1>11, <2>1 DEF Complete
<1> QED
  BY <1>8, <1>9, <1>12 DEF WeightInv

LEMMA EndWeights ==
  ASSUME FileInv, use.ofWeights, WeightInv, UNCHANGED use, CacheEnd
  PROVE  FileInv' /\ WeightInv'
<1>1. FileInv' /\ (Exit \/ Kill)
  BY EndInv DEF CacheEnd
<1>2. /\ UNCHANGED synced /\ mCache' = <<>> /\ mAllocTimes' = 0 /\ pending' = None
      /\ DOMAIN mCache' = {}
  BY <1>1 DEF Exit, Kill, Ended
<1>3. /\ mStaticAllocator' = "mmap" /\ useCachedMmap' = FirstUse /\ UNCHANGED <<data, hasty>>
      /\ weight' = [w \in Weights |-> "none"]
  BY DEF CacheEnd
<1>4. FirstUse \in 0 .. 1
  BY DEF FirstUse
<1>5. ~ use.mRemove => disk' = disk
  BY <1>1 DEF Exit, Kill, Removed
<1>6. Numbered'
  BY <1>2, <1>3, <1>4, WeightFacts DEF WeightInv, Numbered, Weights, Buffers, Mapped, Fates, Files
<1>7. Complete'
  BY <1>2, <1>3, <1>4, <1>5
     DEF WeightInv, Complete, SyncedFilesComplete, WeightsWritten, Weights, Buffers
<1> QED
  BY <1>1, <1>6, <1>7 DEF WeightInv
------------------------------------------------------------------------------
LEMMA InitInv == ASSUME CacheInit PROVE IInv
<1>1. /\ use \in Uses /\ disk = <<>> /\ synced = FALSE /\ up = TRUE /\ mCache = <<>>
      /\ mAllocTimes = 0 /\ pending = None /\ faulty = FALSE /\ restarted = FALSE
      /\ mStaticAllocator = "mmap" /\ useCachedMmap = FirstUse /\ hasty = FALSE
      /\ data = [f \in Files |-> Null] /\ weight = [w \in Weights |-> "none"]
  BY DEF CacheInit, MmapInit
<1>2. DOMAIN disk = {} /\ DOMAIN mCache = {} /\ disk \in [{} -> Nat] /\ FirstUse \in 0 .. 1
  BY <1>1 DEF FirstUse
<1>3. FileInv
  BY <1>1, <1>2
     DEF FileInv, TypeInv, Dead, PendingInv, OwnFile, NextIsFree, Growing, FilesHeld, Mapped
<1>4. use.ofWeights => Numbered
  <2>1. /\ weight \in [Weights -> Fates] /\ data \in [Files -> Weights \cup {Null}]
        /\ \A w \in Weights : weight[w] = "none"
    BY <1>1 DEF Fates
  <2>2. use.ofWeights => \A w \in Weights : w > mAllocTimes
    BY <1>1, <1>3, WeightFacts
  <2>3. hasty \in BOOLEAN
    BY <1>1, Zenon
  <2>4. useCachedMmap \in 0 .. 2
    BY <1>1, <1>2
  <2> QED
    BY <1>1, <1>2, <2>1, <2>2, <2>3, <2>4 DEF Numbered, Mapped
<1>5. use.ofWeights => Complete
  BY <1>1, <1>2 DEF Complete, SyncedFilesComplete, WeightsWritten
<1> QED
  BY <1>1, <1>3, <1>4, <1>5 DEF IInv, Idle

LEMMA CacheNextInv ==
  ASSUME FileInv, use.ofWeights, WeightInv, CacheNext
  PROVE  FileInv' /\ WeightInv'
<1>1. UNCHANGED use
  BY DEF CacheNext
<1>2. CASE CacheStart \/ OnCreate
  BY <1>1, <1>2, StartWeights
<1>3. ASSUME NEW w \in Weights, LoadMapped(w) \/ Pack(w) \/ LoadRaw(w)
      PROVE  FileInv' /\ WeightInv'
  BY <1>1, <1>3, LoadWeights, PackWeights, RawWeights
<1>4. CASE CacheOpen
  BY <1>1, <1>4, OpenWeights
<1>5. CASE CacheMap
  BY <1>1, <1>5, MapWeights
<1>6. CASE SetFileSize /\ UNCHANGED cache
  BY <1>1, <1>6, SizeWeights
<1>7. CASE OnClearBuffer
  BY <1>1, <1>7, ClearWeights
<1>8. CASE CacheEnd
  BY <1>1, <1>8, EndWeights
<1> QED
  BY <1>2, <1>3, <1>4, <1>5, <1>6, <1>7, <1>8 DEF CacheNext

LEMMA BlocksNextInv ==
  ASSUME FileInv, ~ use.ofWeights, MmapNext
  PROVE  FileInv' /\ UNCHANGED <<use, synced>>
<1>1. UNCHANGED <<use, synced>>
  <2>1. UNCHANGED use
    BY DEF MmapNext
  <2>2. CASE \E b \in Buffers, extent \in use.sizes : Realloc(b, extent)
    BY <2>1, <2>2 DEF Realloc
  <2>3. CASE \E b \in Buffers : Release(b)
    BY <2>1, <2>3 DEF Release
  <2>4. CASE Open
    BY <2>1, <2>4 DEF Open
  <2>5. CASE SetFileSize \/ Map
    BY <2>1, <2>5 DEF SetFileSize, Map
  <2>6. CASE Exit \/ Kill \/ Start(FALSE)
    BY <2>1, <2>6 DEF Exit, Kill, Ended, Start
  <2> QED
    BY <2>2, <2>3, <2>4, <2>5, <2>6 DEF MmapNext
<1>2. ASSUME NEW b \in Buffers, NEW extent \in use.sizes, Realloc(b, extent) PROVE FileInv'
  BY <1>1, <1>2, ReallocInv
<1>3. ASSUME NEW b \in Buffers, Release(b) PROVE FileInv'
  BY <1>1, <1>3, ReleaseInv
<1>4. CASE Open
  BY <1>1, <1>4, OpenInv
<1>5. CASE SetFileSize
  BY <1>1, <1>5, SetFileSizeInv
<1>6. CASE Map
  BY <1>1, <1>6, MapInv
<1>7. CASE Exit \/ Kill
  BY <1>1, <1>7, EndInv
<1>8. CASE Start(FALSE)
  <2>1. /\ UNCHANGED <<use, disk, mCache, mAllocTimes, pending, faulty, restarted, synced>>
        /\ up' = TRUE
    BY <1>1, <1>8 DEF Start, history
  <2> QED
    BY <2>1, QuietInv DEF FileInv, TypeInv
<1> QED
  BY <1>1, <1>2, <1>3, <1>4, <1>5, <1>6, <1>7, <1>8 DEF MmapNext

LEMMA NextInv == ASSUME IInv, [FilesNext]_allVars PROVE IInv'
<1>1. CASE UNCHANGED allVars
  <2>1. UNCHANGED <<use, disk, synced, up, mCache, mAllocTimes, pending, faulty, restarted>>
        /\ UNCHANGED <<mStaticAllocator, useCachedMmap, data, weight, hasty>>
    BY <1>1 DEF allVars, mmapVars, cache, history
  <2>2. FileInv'
    BY <2>1, QuietInv DEF IInv, FileInv, TypeInv
  <2>3. use'.ofWeights => Numbered'
    BY <2>1 DEF IInv, Numbered, Weights, Buffers, Mapped, Fates, Files
  <2>4. use'.ofWeights => Complete'
    BY <2>1 DEF IInv, Complete, SyncedFilesComplete, WeightsWritten, Weights, Buffers
  <2>5. ~ use'.ofWeights => Idle'
    BY <2>1 DEF IInv, Idle, Weights, Buffers
  <2> QED
    BY <2>2, <2>3, <2>4, <2>5 DEF IInv
<1>2. CASE use.ofWeights /\ CacheNext
  <2>1. FileInv' /\ WeightInv' /\ use'.ofWeights
    BY <1>2, CacheNextInv DEF IInv, WeightInv, CacheNext
  <2> QED
    BY <2>1 DEF IInv, WeightInv
<1>3. CASE ~ use.ofWeights /\ MmapNext /\ UNCHANGED cache
  <2>1. FileInv' /\ UNCHANGED <<use, synced, weight>>
    BY <1>3, BlocksNextInv DEF IInv, cache
  <2> QED
    BY <1>3, <2>1 DEF IInv, Idle, Weights, Buffers
<1> QED
  BY <1>1, <1>2, <1>3 DEF FilesNext

LEMMA Inductive == CacheSpec => []IInv
<1>1. CacheInit => IInv
  BY InitInv
<1>2. IInv /\ [FilesNext]_allVars => IInv'
  BY NextInv
<1> QED
  BY <1>1, <1>2, PTL DEF CacheSpec

\* A block has a file of its own, as large as the block, whatever earlier
\* processes left, however they ended and whatever the system refused, until the
\* numbers go back behind a block that stays (MmapAllocator::onAlloc, onRelease).
THEOREM FilesAreOwned == CacheSpec => []OwnFile
<1>1. IInv => OwnFile
  BY DEF IInv, FileInv
<1> QED
  BY <1>1, Inductive, PTL

\* Processes that end regularly leave no file of those to be removed, even if
\* blocks shared one (MmapAllocator::~MmapAllocator).
THEOREM FilesAreRemoved == CacheSpec => []NoFileLeft
<1>1. IInv => NoFileLeft
  <2> SUFFICES ASSUME IInv, use.mRemove, ~ up, ~ faulty PROVE disk = <<>>
    BY DEF NoFileLeft
  <2>1. disk \in [DOMAIN disk -> Nat] /\ mCache = <<>> /\ pending = None
    BY DEF IInv, FileInv, TypeInv, Dead
  <2>2. DOMAIN mCache = {}
    BY <2>1
  <2>3. DOMAIN disk = {}
    BY <2>1, <2>2 DEF IInv, FileInv, FilesHeld, Underway, Mapped
  <2> QED
    BY <2>1, <2>3
<1> QED
  BY <1>1, Inductive, PTL

\* A weight whose packing was left out is in its file, unless an onClearBuffer
\* came before all weights were there (CPURuntime::onCreate, the constructors of
\* operators).
THEOREM LoadedIsWritten == CacheSpec => []WeightsWritten
<1>1. IInv => WeightsWritten
  BY DEF IInv, Complete, Idle, WeightsWritten
<1> QED
  BY <1>1, Inductive, PTL

\* The file of sync stands for complete files, wherever processes were killed and
\* whatever the system refused, unless an onClearBuffer came before all weights
\* were there (MmapAllocator::sync, CPUBackend::onClearBuffer).
THEOREM SyncIsComplete == CacheSpec => []SyncedFilesComplete
<1>1. IInv => SyncedFilesComplete
  BY DEF IInv, Complete, Idle, SyncedFilesComplete
<1> QED
  BY <1>1, Inductive, PTL
================================================================================

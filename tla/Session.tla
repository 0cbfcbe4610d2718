------------------------------ MODULE Session ------------------------------
(***************************************************************************)
(* Session::resize, Pipeline::encode, allocMemory and fixResizeCache on    *)
(* the CPU backend: shapes, commands, executions and the memory of the     *)
(* tensors, from a change of an input's size to the state in which         *)
(* Session::run accepts the session.                                       *)
(*                                                                         *)
(* An operation of the model has one output and becomes one command.  A    *)
(* size stands for the whole shape of a tensor.  Memory is what the        *)
(* tensor's mem holds: a chunk of the plan of the main or of the backup    *)
(* allocator, static memory, or nothing; "gone" is a chunk whose plan has  *)
(* been reset meanwhile, its MemNode deleted.                              *)
(***************************************************************************)
EXTENDS Integers, Sequences, FiniteSets, SequencesExt

CONSTANTS
    Setups,      \* the sessions: operations, usages of tensors, input and output mode
    Sizes,       \* the sizes an input may be given
    Situations   \* what callers and the machine may do beyond careful use, see Careless

ASSUME SizesAssumption == Sizes \subseteq Nat \ {0}
(* The order of the operations is one in which they can run.  Constants are  *)
(* weights, or what an operation that is folded makes of them.               *)
ASSUME SetupsAssumption ==
    \A s \in Setups :
        LET ts == DOMAIN s.usage
        IN  /\ s.allocInput \in BOOLEAN /\ s.outputStatic \in BOOLEAN
            /\ \A t \in ts : s.usage[t] \in {"input", "normal", "output", "constant"}
            /\ s.ops \in Seq([in : Seq(ts) \ {<<>>}, out : ts, reduce : BOOLEAN, const : BOOLEAN])
            /\ \E o \in DOMAIN s.ops : ~s.ops[o].const
            /\ \A o \in DOMAIN s.ops :
                  /\ s.usage[s.ops[o].out] # "input"
                  /\ s.ops[o].const <=> s.usage[s.ops[o].out] = "constant"
                  /\ s.ops[o].const => \A t \in ToSet(s.ops[o].in) : s.usage[t] = "constant"
                  /\ \A p \in DOMAIN s.ops : s.ops[p].out = s.ops[o].out => p = o
                  /\ \A p \in DOMAIN s.ops, i \in DOMAIN s.ops[o].in :
                        s.ops[p].out = s.ops[o].in[i] => p < o
                  /\ \A t \in ToSet(s.ops[o].in) :
                        s.usage[t] \in {"input", "constant"} \/ \E p \in DOMAIN s.ops : s.ops[p].out = t

VARIABLES
    setup,       \* the session chosen by Init
    shape,       \* the size of each tensor, 0 before it is computed
    cache,       \* computeCache of each operation: can, pass, seen
    compute,     \* needComputeShape of each operation
    command,     \* executeBuffer of each operation: the sizes it was made for, execution, group
    mem,         \* what each tensor holds
    where,       \* where the host pointer of each tensor leads
    room,        \* the size that place was acquired for
    group,       \* group of each tensor: -1 the caller's, 0 main plan, 1 backup plan
    useCount,    \* readers that have not yet been resized
    plan,        \* the two DeferBufferAllocators: reset, laid out, or computed
    needResize,  \* mNeedResize
    pc, at,      \* the step of the resize, and the operation it is at
    index,       \* the group _allocForTensor is working for
    dangling     \* a chunk was given back after its plan had been reset

vars == <<setup, shape, cache, compute, command, mem, where, room, group,
          useCount, plan, needResize, pc, at, index, dangling>>
memory == <<mem, where, room, plan, dangling>>
structure == <<shape, cache, compute, command>>

PlanOf == [g \in {0, 1} |-> IF g = 0 THEN "main" ELSE "backup"]
Careless(what) == what \in Situations

ops == setup.ops
usage == setup.usage
Tensors == DOMAIN setup.usage
Inputs == {t \in Tensors : usage[t] = "input"}
IsConst(o) == ops[o].const

(* The sizes of the inputs of an operation, read from some assignment.     *)
InSizes(o, s) == [i \in DOMAIN ops[o].in |-> s[ops[o].in[i]]]

(* Whether an operation has a result: the element-wise ones want equal     *)
(* inputs.                                                                 *)
Compatible(o, s) ==
    \A i, j \in DOMAIN ops[o].in :
        (usage[ops[o].in[i]] # "constant" /\ usage[ops[o].in[j]] # "constant")
            => s[ops[o].in[i]] = s[ops[o].in[j]]
OutSize(o, s) == IF ops[o].reduce THEN 1 ELSE s[ops[o].in[1]]

-----------------------------------------------------------------------------
(* Memory.                                                                 *)

(* _getTensorStorageType.                                                  *)
StorageOf(t) == CASE usage[t] = "output" /\ setup.outputStatic -> "static"
                  [] usage[t] \in {"constant", "input"}        -> "separate"
                  [] OTHER                                     -> "dynamic"

(* mem = nullptr for the tensors of a set: CPUMemObj gives the chunk back. *)
Without(m, ts) == [t \in Tensors |-> IF t \in ts THEN "none" ELSE m[t]]
Drop(ts) ==
    /\ mem' = Without(mem, ts)
    /\ where' = [t \in Tensors |-> IF t \in ts /\ mem[t] = "static" THEN "none" ELSE where[t]]
    /\ dangling' = (dangling \/ \E t \in ts : mem[t] = "gone")

(* DeferBufferAllocator::reset of a plan.                                  *)
Forget(f, p) == [t \in Tensors |-> IF f[t] = p THEN "gone" ELSE f[t]]
Reset(p) ==
    /\ mem' = Forget(mem, p)
    /\ where' = Forget(where, p)
    /\ plan' = [plan EXCEPT ![p] = "reset"]
    /\ UNCHANGED <<room, dangling>>

(* onAcquireBuffer that succeeds.                                          *)
Acquired(t, place) ==
    /\ mem' = [mem EXCEPT ![t] = place]
    /\ where' = [where EXCEPT ![t] = place]
    /\ room' = [room EXCEPT ![t] = shape[t]]
    /\ plan' = IF place \in DOMAIN plan THEN [plan EXCEPT ![place] = "laid"] ELSE plan
    /\ UNCHANGED dangling

-----------------------------------------------------------------------------
Init ==
    /\ setup \in Setups
    /\ shape \in {s \in [Tensors -> Sizes \cup {0, 1}] : \A t \in Tensors :
                    CASE usage[t] = "input"                               -> s[t] \in Sizes
                      [] usage[t] = "constant" /\ ~\E o \in DOMAIN ops : ops[o].out = t -> s[t] = 1
                      [] OTHER                                            -> s[t] = 0}
    /\ cache = [o \in DOMAIN ops |-> [can |-> FALSE, pass |-> FALSE, seen |-> <<>>]]
    /\ compute = [o \in DOMAIN ops |-> TRUE]
    /\ command = [o \in DOMAIN ops |-> [made |-> <<>>, exe |-> FALSE, group |-> 0]]
    /\ where = [t \in Tensors |->
                  CASE usage[t] = "input" /\ ~setup.allocInput             -> "user"
                    [] usage[t] = "constant" /\ ~\E o \in DOMAIN ops : ops[o].out = t -> "static"
                    [] OTHER                                               -> "none"]
    /\ mem = [t \in Tensors |-> IF where[t] = "static" THEN "static" ELSE "none"]
    /\ room = shape
    /\ group = [t \in Tensors |-> IF where[t] = "user" THEN -1 ELSE 0]
    /\ useCount = [t \in Tensors |-> 0]
    /\ plan = [p \in {"main", "backup"} |-> "reset"]
    /\ needResize = TRUE
    /\ pc = "idle" /\ at = 1 /\ index = 0
    /\ dangling = FALSE

(* The sizes the tensors have when everything is computed from the inputs, *)
(* with no cache; 0 behind an operation that has no result.                *)
AnewFrom(s) ==
    LET After[n \in 0 .. Len(ops)] ==
          IF n = 0 THEN [t \in Tensors |-> IF \E o \in DOMAIN ops : ops[o].out = t THEN 0 ELSE s[t]]
          ELSE LET p == After[n - 1] IN
               [p EXCEPT ![ops[n].out] =
                  IF Compatible(n, p) /\ \A i \in DOMAIN ops[n].in : p[ops[n].in[i]] # 0
                  THEN OutSize(n, p) ELSE 0]
    IN After[Len(ops)]
Anew == AnewFrom(shape)

(* Operations that fixResizeCache exempted from every later computation.   *)
Exempt(c, o) == ~c[o].can /\ c[o].pass
ExemptUnchanged(c, s) ==
    \A o \in DOMAIN ops : (Exempt(c, o) /\ ~IsConst(o)) => command[o].made = InSizes(o, AnewFrom(s))

Quiet == pc \in {"idle", "failed"}
(* The commands from at on, and the next of them.                          *)
Due == {o \in DOMAIN ops : o >= at /\ ~IsConst(o) /\ command[o].made # <<>>}
Current == Min(Due)

-----------------------------------------------------------------------------
(* The caller.                                                             *)

(* Interpreter::resizeTensor, StaticModule's _resizeTensor.                *)
ResizeTensor(t, n) ==
    /\ Quiet /\ t \in Inputs /\ n # shape[t]
    /\ Careless("untraced sizes") \/ ExemptUnchanged(cache, [shape EXCEPT ![t] = n])
    /\ shape' = [shape EXCEPT ![t] = n]
    /\ needResize' = TRUE
    /\ room' = IF where[t] = "user" THEN [room EXCEPT ![t] = n] ELSE room
    /\ UNCHANGED <<setup, cache, compute, command, mem, where, plan, dangling, group,
                   useCount, pc, at, index>>

(* Session_Resize_Check: Pipeline::openResizeCheck.                        *)
OpenResizeCheck ==
    /\ Quiet
    /\ Careless("check again") \/ \A t \in Tensors : group[t] # 1
    /\ cache' = [o \in DOMAIN ops |-> [cache[o] EXCEPT !.can = TRUE]]
    /\ UNCHANGED <<setup, shape, compute, command, group, useCount, needResize,
                   pc, at, index, memory>>

-----------------------------------------------------------------------------
(* Pipeline::encode.                                                       *)

Fail == pc' = "failed" /\ UNCHANGED at
Continue(step, next) == pc' = step /\ at' = next

(* Session::resize with mNeedResize: encode begins with onClearBuffer.     *)
Resize ==
    /\ Quiet /\ needResize
    /\ pc = "failed" => \/ Careless("resize after a failure")
                        \/ /\ ~\E t \in Tensors : mem[t] = "main"
                           /\ ~\E o \in DOMAIN ops : cache[o].can
    /\ Reset("main")
    /\ Continue("shape", 1)
    /\ index' = 0
    /\ UNCHANGED <<setup, structure, group, useCount, needResize>>

MatchFirst(o) == IF cache[o].can                                 \* seeded fault
                   THEN cache[o].seen # <<>> /\ cache[o].seen[1] = shape[ops[o].in[1]]
                   ELSE cache[o].pass
(* The computeCache of an operation: match, close, insert.                 *)
Match(o) == IF cache[o].can THEN cache[o].seen = InSizes(o, shape) ELSE cache[o].pass
Closed(o, pass) == [can |-> FALSE, pass |-> pass, seen |-> <<>>]
Compared(o) == IF cache[o].can /\ cache[o].seen # <<>> /\ ~Match(o)
                 THEN Closed(o, FALSE) ELSE cache[o]
Inserted(o) == LET c == Compared(o) IN
                 IF c.can THEN [c EXCEPT !.seen = InSizes(o, shape)] ELSE c

ClearedDynamic(o) == {t \in {ops[o].out} :                       \* seeded fault
                        group[t] = 0 /\ StorageOf(t) # "static"}
(* The outputs that lose their memory at the start of their operation.     *)
Cleared(o) == {t \in {ops[o].out} : group[t] = 0 /\ ~IsConst(o)}

(* The shape of one operation.                                             *)
ComputeShape ==
    LET o == at IN
    /\ pc = "shape" /\ o <= Len(ops)
    /\ Drop(Cleared(o))
    /\ IF Match(o)
         THEN /\ compute' = [compute EXCEPT ![o] = FALSE]
              /\ Continue("shape", o + 1)
              /\ UNCHANGED <<cache, shape>>
         ELSE IF Compatible(o, shape)
         THEN /\ shape' = [shape EXCEPT ![ops[o].out] = OutSize(o, shape)]
              /\ cache' = [cache EXCEPT ![o] = Inserted(o)]
              /\ compute' = [compute EXCEPT ![o] = TRUE]
              /\ Continue(IF IsConst(o) THEN "constant" ELSE "shape", o + 1)
         ELSE /\ cache' = [cache EXCEPT ![o] = Compared(o)]
              /\ Fail
              /\ UNCHANGED <<shape, compute>>
    /\ UNCHANGED <<setup, command, room, plan, group, useCount, needResize, index>>

(* A constant operation is computed at once, in static memory.  The        *)
(* onResizeBegin before it resets a plan that is empty here.               *)
FoldConstant ==
    LET t == ops[at - 1].out IN
    /\ pc = "constant"
    /\ \/ Acquired(t, "static") /\ Continue("shape", at)
       \/ Acquired(t, "static") /\ Fail
       \/ UNCHANGED memory /\ Fail
    /\ UNCHANGED <<setup, structure, group, useCount, needResize, index>>

(* The geometry transform makes the command of one operation.              *)
Transform ==
    LET o == at - Len(ops) IN
    /\ pc = "shape" /\ o \in DOMAIN ops
    /\ IF IsConst(o) \/ ~compute[o]
         THEN Continue("shape", at + 1) /\ UNCHANGED command
         ELSE \/ /\ command' = [command EXCEPT ![o] =
                       [made |-> InSizes(o, shape), exe |-> FALSE, group |-> 0]]
                 /\ Continue("shape", at + 1)
              \/ /\ command' = [command EXCEPT ![o].made = <<>>]
                 /\ Fail
    /\ UNCHANGED <<setup, shape, cache, compute, memory, group, useCount, needResize, index>>

-----------------------------------------------------------------------------
(* Pipeline::allocMemory.                                                  *)

(* _createExecutions for one operation.                                    *)
CreateExecution ==
    LET o == at - 2 * Len(ops) IN
    /\ pc = "shape" /\ o \in DOMAIN ops
    /\ IF IsConst(o) \/ ~compute[o]
         THEN Continue("shape", at + 1) /\ UNCHANGED command
         ELSE \/ command' = [command EXCEPT ![o].exe = TRUE] /\ Continue("shape", at + 1)
              \/ Fail /\ UNCHANGED command
    /\ UNCHANGED <<setup, shape, cache, compute, memory, group, useCount, needResize, index>>

(* The readers of a tensor among the commands, each as often as it reads.  *)
Readers(t) == {r \in UNION {{o} \X DOMAIN ops[o].in : o \in DOMAIN ops} :
                 ~IsConst(r[1]) /\ command[r[1]].made # <<>> /\ ops[r[1]].in[r[2]] = t}
CountReaders == [t \in Tensors |-> IF usage[t] # "constant" /\ Readers(t) # {}
                                     THEN Cardinality(Readers(t)) ELSE useCount[t]]

(* The use counts, and onClearBuffer and onResizeBegin, which reset the    *)
(* plan that is being made.                                                *)
BeginAlloc ==
    /\ pc = "shape" /\ at > 3 * Len(ops)
    /\ useCount' = CountReaders
    /\ Reset("main")
    /\ Continue("alloc", 1)
    /\ UNCHANGED <<setup, structure, group, needResize, index>>

AllocInput == setup.allocInput \/ index = 1

(* What the current command still has to acquire: _allocTensor passes over *)
(* the tensors of the other group and those that hold memory.              *)
Asked == (IF AllocInput THEN ops[Current].in ELSE <<>>) \o <<ops[Current].out>>
Lacking == {i \in DOMAIN Asked : group[Asked[i]] = index /\ mem[Asked[i]] = "none"}

AllocFails == /\ index = 1 => Careless("no memory for a fix")
              /\ pc' = IF index = 1 THEN "idle" ELSE "failed"
              /\ index' = 0 /\ at' = 1

Acquire ==
    /\ pc = "alloc" /\ Due # {} /\ Lacking # {}
    /\ \/ /\ LET t == Asked[Min(Lacking)]
             IN Acquired(t, IF StorageOf(t) = "static" THEN "static" ELSE PlanOf[index])
          /\ UNCHANGED <<pc, at, index>>
       \/ AllocFails /\ UNCHANGED memory
    /\ UNCHANGED <<setup, structure, group, useCount, needResize>>

(* _releaseTensor for the inputs of a command that has been resized.       *)
Reads(o, t) == Cardinality({i \in DOMAIN ops[o].in : ops[o].in[i] = t})
CountDown(o) == [t \in Tensors |-> IF usage[t] = "constant" THEN useCount[t]
                                     ELSE useCount[t] - Reads(o, t)]
ReleasedEarly(o) == {t \in ToSet(ops[o].in) :                    \* seeded fault
                       /\ group[t] = index
                       /\ CountDown(o)[t] <= 1
                       /\ usage[t] \in IF AllocInput THEN {"normal", "input"} ELSE {"normal"}}
Released(o) == {t \in ToSet(ops[o].in) :
                  /\ group[t] = index
                  /\ CountDown(o)[t] = 0
                  /\ usage[t] \in IF AllocInput THEN {"normal", "input"} ELSE {"normal"}}

(* onResize of the current command, if it is of the group, then the inputs *)
(* nobody reads any more.                                                  *)
ResizeCommand ==
    LET o == Current IN
    /\ pc = "alloc" /\ Due # {} /\ Lacking = {}
    /\ \/ /\ useCount' = CountDown(o)
          /\ Drop(Released(o))
          /\ Continue("alloc", o + 1)
          /\ UNCHANGED <<room, plan, index>>
       \/ /\ command[o].group = index
          /\ AllocFails
          /\ UNCHANGED <<useCount, memory>>
    /\ UNCHANGED <<setup, structure, group, needResize>>

(* _recycleDynamicMemory for the commands of the group.                    *)
RecycledInputs == {t \in Tensors : /\ StorageOf(t) = "dynamic"     \* seeded fault
                                   /\ \E o \in DOMAIN ops :
                                         /\ command[o].group = index /\ command[o].made # <<>>
                                         /\ t \in ToSet(ops[o].in)}
RecycledUngrouped == {t \in Tensors :                            \* seeded fault
                        StorageOf(t) = "dynamic" /\ usage[t] = "normal"}
Recycled == {t \in Tensors : /\ StorageOf(t) = "dynamic"
                             /\ \E o \in DOMAIN ops :
                                   /\ command[o].group = index /\ command[o].made # <<>>
                                   /\ t \in ToSet(ops[o].in) \cup {ops[o].out}}
Recycle ==
    /\ pc = "alloc" /\ Due = {}
    /\ Drop(Recycled)
    /\ Continue("end", at)
    /\ UNCHANGED <<setup, structure, room, plan, group, useCount, needResize, index>>

(* onResizeEnd: the plan is computed and its memory allocated.             *)
EndAlloc ==
    /\ pc = "end"
    /\ \/ /\ plan' = [plan EXCEPT ![PlanOf[index]] = "computed"]
          /\ needResize' = (IF index = 0 THEN FALSE ELSE needResize)
          /\ Continue("idle", 1)
          /\ index' = 0
       \/ AllocFails /\ UNCHANGED <<plan, needResize>>
    /\ UNCHANGED <<setup, structure, mem, where, room, dangling, group, useCount>>

-----------------------------------------------------------------------------
(* Session_Resize_Fix: Pipeline::fixResizeCache.                           *)

Mutable(o) == ~cache[o].can /\ compute[o]
FixedCache == [o \in DOMAIN ops |-> Closed(o, ~Mutable(o))]
FixedOps == {o \in DOMAIN ops : ~Mutable(o) /\ ~IsConst(o) /\ command[o].made # <<>>}
FixedGroup == [t \in Tensors |->
                 IF \/ \E o \in FixedOps : ops[o].out = t
                    \/ group[t] = 0 /\ \E o \in FixedOps : t \in ToSet(ops[o].in)
                 THEN 1 ELSE group[t]]

(* The main plan is emptied, the exempt commands move to the backup plan,  *)
(* which is begun.                                                         *)
FixResizeCache ==
    /\ Quiet
    /\ \/ Careless("run after a fix")
       \/ /\ pc = "idle" /\ needResize
          /\ Careless("fix again") \/ \A t \in Tensors : group[t] # 1
          /\ ExemptUnchanged(FixedCache, shape)
          /\ \A o \in DOMAIN ops : IsConst(o) \/ command[o].exe
    /\ cache' = FixedCache
    /\ command' = [o \in DOMAIN ops |-> IF o \in FixedOps THEN [command[o] EXCEPT !.group = 1]
                                                         ELSE command[o]]
    /\ group' = FixedGroup
    /\ useCount' = CountReaders
    /\ mem' = Forget(Forget(mem, "main"), "backup")
    /\ where' = Forget(Forget(where, "main"), "backup")
    /\ plan' = [plan EXCEPT !["main"] = "reset", !["backup"] = "reset"]
    /\ Continue("alloc", 1)
    /\ index' = 1
    /\ UNCHANGED <<setup, shape, compute, room, dangling, needResize>>

-----------------------------------------------------------------------------
Next ==
    \/ \E t \in Tensors, n \in Sizes : ResizeTensor(t, n)
    \/ OpenResizeCheck
    \/ Resize
    \/ ComputeShape
    \/ FoldConstant
    \/ Transform
    \/ CreateExecution
    \/ BeginAlloc
    \/ Acquire
    \/ ResizeCommand
    \/ Recycle
    \/ EndAlloc
    \/ FixResizeCache

Spec == Init /\ [][Next]_vars

-----------------------------------------------------------------------------
(* Properties.                                                             *)

(* Session::run only tests mNeedResize.                                    *)
RunAccepts == pc = "idle" /\ ~needResize

Placed(t) == \/ where[t] \in {"user", "static"}
             \/ where[t] \in DOMAIN plan /\ plan[where[t]] = "computed"

(* Every tensor of a command of a session that run accepts has a place in  *)
(* memory that exists and was acquired for the tensor's size.              *)
TensorsReady ==
    RunAccepts => \A o \in DOMAIN ops : ~IsConst(o) =>
        \A t \in ToSet(ops[o].in) \cup {ops[o].out} : Placed(t) /\ room[t] >= shape[t]

(* The commands of a session that run accepts were made for the sizes      *)
(* that follow from its inputs, whatever the resize cache skipped.         *)
CommandsAnew ==
    RunAccepts => \A o \in DOMAIN ops : ~IsConst(o) =>
        command[o].exe /\ command[o].made = InSizes(o, Anew) /\ shape[ops[o].out] = Anew[ops[o].out]

(* A command is resized while everything it reads and writes has memory,   *)
(* and what an earlier command wrote has been held since: no tensor is     *)
(* given back before its last reader, to be acquired again with its        *)
(* contents lost.                                                          *)
HeldWhileResized ==
    (pc = "alloc" /\ Due # {} /\ command[Current].group = index) =>
        LET written == {ops[o].out : o \in 1 .. Current - 1}
            needed == IF Lacking = {} THEN ToSet(ops[Current].in) \cup {ops[Current].out}
                                        ELSE ToSet(ops[Current].in) \cap written
        IN \A t \in needed :
              (IF group[t] = index THEN mem[t] ELSE where[t]) \notin {"none", "gone"}

(* When the plan is computed no chunk of it is out, as the assertion       *)
(* mFreeList.size() == 1 of DeferBufferAllocator::compute wants.           *)
PlanAllReturned == pc = "end" => \A t \in Tensors : mem[t] # PlanOf[index]

(* A chunk is given back to the plan it was taken from: free is never      *)
(* called for a MemNode that a reset has deleted.                          *)
FreesOwnChunks == ~dangling
=============================================================================

------------------------- MODULE DeferBufferAllocator -------------------------
(***************************************************************************)
(* source/core/BufferAllocator.cpp: the planner of a backend's dynamic     *)
(* memory.  While a session is resized, alloc and free only describe the   *)
(* lifetimes of its buffers: a line of nodes is split, fused and widened,  *)
(* and no memory exists.  compute gives every node that ever was on the    *)
(* line its offset, in a single block that the planners of all sessions on *)
(* the runtime share, and apply points the tensors into that block before  *)
(* each run.  Sizes are in units of the alignment; which of several free   *)
(* nodes of one size is taken is left open.                                *)
(***************************************************************************)
EXTENDS Integers, FiniteSets, SequencesExt

CONSTANTS MaxBuffers,   \* BOUND: buffers of one resize
          MaxSize,      \* BOUND: units of one buffer
          Blocks,       \* BOUND: the addresses a root allocation may have
          OtherSizes    \* BOUND: sizes that the other planners need

ASSUME MaxBuffersAssumption == MaxBuffers \in Nat
ASSUME MaxSizeAssumption == MaxSize \in Nat \ {0}
ASSUME OtherSizesAssumption == OtherSizes \subseteq Nat

Null == "null"
None == 0     \* no parent

VARIABLES
  plan,        \* the nodes: see NoPlan
  mBarrrier, mBarrrierFreeChunks,
  mTotalSize,
  root,        \* SingleBufferWithAllocator: current and currentSize
  mPtr,        \* the block that the tensors point into
  stage,       \* of the session: "idle", "resizing", "prepared"
  status,      \* the result of the last compute or apply
  buffer,      \* the buffers since the last reset: each its node and its size
  live,        \* those not freed yet
  retired,     \* those freed since barrierBegin, until barrierEnd
  together     \* the pairs that may hold data at the same time

shared == <<root, mPtr>>
history == <<buffer, live, retired, together>>
vars == <<plan, mBarrrier, mBarrrierFreeChunks, mTotalSize, shared, stage, status, history>>

\* A node is its index in mChunks; the line runs from mHead to mTail.
NoPlan == [line |-> <<>>, size |-> <<>>, usage |-> <<>>, parent |-> <<>>,
           offset |-> <<>>, free |-> {}]

Init ==
  /\ plan = NoPlan
  /\ mBarrrier = FALSE /\ mBarrrierFreeChunks = <<>>
  /\ mTotalSize = 0
  /\ root = [current |-> Null, currentSize |-> 0]
  /\ mPtr = Null
  /\ stage = "idle" /\ status = "NO_ERROR"
  /\ buffer = <<>> /\ live = {} /\ retired = {} /\ together = {}

------------------------------------------------------------------------------
(* Nodes and the line.                                                      *)

Nodes(p) == 1 .. Len(p.size)
NewNode(p) == Len(p.size) + 1
IndexOf(p, n) == CHOOSE i \in 1 .. Len(p.line) : p.line[i] = n

\* createMemNode and insert_after, at position i of the line.
Insert(p, i, s) ==
  [p EXCEPT !.line = InsertAt(@, i, NewNode(p)), !.size = Append(@, s),
            !.usage = Append(@, TRUE), !.parent = Append(@, None),
            !.offset = Append(@, 0)]

\* lower_bound, or the largest node when every free one is too small.
Fits(p, s) ==
  LET enough == {n \in p.free : p.size[n] >= s}
  IN  IF enough # {}
      THEN {n \in enough : \A m \in enough : p.size[n] <= p.size[m]}
      ELSE {n \in p.free : \A m \in p.free : p.size[m] <= p.size[n]}

\* Takes the free node n: what it has beyond s becomes a free node after it, and
\* a node that is too small is widened.
TakeNode(p, n, s) ==
  LET rest == NewNode(p)
      split == IF p.size[n] > s
               THEN [Insert(p, IndexOf(p, n) + 1, p.size[n] - s)
                       EXCEPT !.usage[rest] = FALSE, !.free = @ \cup {rest}]
               ELSE p
  IN  [split EXCEPT !.free = @ \ {n}, !.usage[n] = TRUE, !.size[n] = s]

\* eraseFree, fuse_to_left and erase_node: r leaves the line as a child of l.
FuseToLeft(p, l, r) ==
  [p EXCEPT !.offset[r] = p.size[l], !.parent[r] = l, !.size[l] = @ + p.size[r],
            !.line = RemoveAt(@, IndexOf(p, r)), !.free = @ \ {l, r}]

Unused(p, i) == i \in 1 .. Len(p.line) /\ ~ p.usage[p.line[i]]

FreeNodeLeft(p, n) ==                                            \* seeded fault
  LET i == IndexOf(p, n)
      node == IF Unused(p, i - 1) THEN p.line[i - 1] ELSE n
      q == IF node # n THEN FuseToLeft(p, node, n) ELSE p
  IN  [q EXCEPT !.usage[node] = FALSE, !.free = @ \cup {node}]
\* free outside a barrier.
FreeNode(p, n) ==
  LET i == IndexOf(p, n)
      node == IF Unused(p, i - 1) THEN p.line[i - 1] ELSE n
      left == IF node # n THEN FuseToLeft(p, node, n) ELSE p
      both == IF Unused(p, i + 1) THEN FuseToLeft(left, node, p.line[i + 1]) ELSE left
  IN  [both EXCEPT !.usage[node] = FALSE, !.free = @ \cup {node}]

------------------------------------------------------------------------------
(* The calls of a backend while it is resized.                              *)

Remember(n, s) ==
  LET b == Len(buffer) + 1
  IN  /\ buffer' = Append(buffer, [node |-> n, size |-> s])
      /\ live' = live \cup {b}
      /\ together' = together \cup {{a, b} : a \in live \cup retired}
      /\ UNCHANGED retired

\* alloc(s, separate).
Alloc(s, separate) ==
  /\ stage = "resizing" /\ Len(buffer) < MaxBuffers
  /\ \/ /\ plan.free = {} \/ separate
        /\ plan' = Insert(plan, Len(plan.line) + 1, s)
        /\ Remember(NewNode(plan), s)
     \/ /\ plan.free # {} /\ ~ separate
        /\ \E n \in Fits(plan, s) : plan' = TakeNode(plan, n, s) /\ Remember(n, s)
  /\ UNCHANGED <<mBarrrier, mBarrrierFreeChunks, mTotalSize, shared, stage, status>>

DeferredNever(b) == FALSE                                        \* seeded fault
Deferred(b) == mBarrrier

\* free(chunk) by the holder of buffer b, which frees it once.
Free(b) ==
  /\ stage = "resizing" /\ b \in live
  /\ \/ /\ Deferred(b)
        /\ mBarrrierFreeChunks' = Append(mBarrrierFreeChunks, buffer[b].node)
        /\ UNCHANGED plan
     \/ /\ ~ Deferred(b)
        /\ plan' = FreeNode(plan, buffer[b].node)
        /\ UNCHANGED mBarrrierFreeChunks
  /\ live' = live \ {b}
  /\ retired' = IF mBarrrier THEN retired \cup {b} ELSE retired
  /\ UNCHANGED <<mBarrrier, mTotalSize, shared, stage, status, buffer, together>>

BarrierBegin ==
  /\ stage = "resizing" /\ ~ mBarrrier
  /\ mBarrrier' = TRUE
  /\ UNCHANGED <<plan, mBarrrierFreeChunks, mTotalSize, shared, stage, status, history>>

BarrierEnd ==
  /\ stage = "resizing" /\ mBarrrier
  /\ mBarrrier' = FALSE
  /\ plan' = FoldLeft(FreeNode, plan, mBarrrierFreeChunks)
  /\ mBarrrierFreeChunks' = <<>>
  /\ retired' = {}
  /\ UNCHANGED <<mTotalSize, shared, stage, status, buffer, live, together>>

\* reset, by onResizeBegin (stage "resizing") or by release(true) ("idle").
Reset(to) ==
  /\ stage' = to
  /\ plan' = NoPlan
  /\ mBarrrier' = FALSE /\ mBarrrierFreeChunks' = <<>>
  /\ mTotalSize' = 0
  /\ mPtr' = Null
  /\ buffer' = <<>> /\ live' = {} /\ retired' = {} /\ together' = {}
  /\ UNCHANGED <<root, status>>

------------------------------------------------------------------------------
(* compute and apply.                                                       *)

\* The offset of every node: its own within its parent, as visiChildren adds
\* them up, under the offset of the node on the line.
Offsets(p) ==
  LET before(n) == {p.line[j] : j \in 1 .. IndexOf(p, n) - 1}
      at[n \in Nodes(p)] ==
        IF p.parent[n] # None THEN at[p.parent[n]] + p.offset[n]
        ELSE FoldFunctionOnSet(+, 0, p.size, before(n))
  IN  at

\* SingleBufferWithAllocator::realloc: the new block may have any address.
Realloc(s) ==
  \/ \E a \in Blocks : root' = [current |-> a, currentSize |-> s]
  \/ root' = [root EXCEPT !.current = Null]

Single(p) == Cardinality(p.free) = 1 /\ Len(p.line) = 1

ApplyStale(p, total) ==                                          \* seeded fault
  IF p.free = {} \/ root.currentSize >= total
  THEN UNCHANGED shared /\ status' = "NO_ERROR"
  ELSE /\ Realloc(total)
       /\ status' = IF root'.current = Null THEN "OUT_OF_MEMORY" ELSE "NO_ERROR"
       /\ mPtr' = IF root'.current = Null THEN mPtr ELSE root'.current
\* apply, for a plan whose total is mTotalSize.
Apply(p, total) ==
  \/ /\ p.free = {}
     /\ UNCHANGED shared /\ status' = "NO_ERROR"
  \/ /\ p.free # {} /\ root.currentSize >= total
     /\ mPtr' = root.current
     /\ UNCHANGED root /\ status' = "NO_ERROR"
  \/ /\ p.free # {} /\ root.currentSize < total
     /\ Realloc(total)
     /\ IF root'.current = Null
        THEN status' = "OUT_OF_MEMORY" /\ UNCHANGED mPtr
        ELSE status' = "NO_ERROR" /\ mPtr' = root'.current

\* onResizeEnd: compute.  mTotalSize is 0, since onResizeBegin has reset it.
Compute ==
  /\ stage = "resizing" /\ ~ mBarrrier
  /\ \/ /\ plan.free = {}
        /\ status' = "NO_ERROR"
        /\ UNCHANGED <<plan, mTotalSize, shared>>
     \/ /\ plan.free # {} /\ ~ Single(plan)
        /\ status' = "INVALID_VALUE"
        /\ UNCHANGED <<plan, mTotalSize, shared>>
     \/ /\ Single(plan)
        /\ plan' = [plan EXCEPT !.offset = Offsets(plan)]
        /\ mTotalSize' = plan.size[Head(plan.line)]
        /\ Apply(plan, mTotalSize')
  /\ stage' = IF status' = "NO_ERROR" THEN "prepared" ELSE "idle"
  /\ UNCHANGED <<mBarrrier, mBarrrierFreeChunks, history>>

\* onExecuteBegin: apply.
ExecuteBegin ==
  /\ stage = "prepared"
  /\ Apply(plan, mTotalSize)
  /\ UNCHANGED <<plan, mBarrrier, mBarrrierFreeChunks, mTotalSize, stage, history>>

\* The planner of another session on the runtime needs s units, or the runtime
\* gives the block back (onGabageCollect, onSelectDynamicAllocator).
OthersRealloc(s) ==
  /\ stage # "resizing" /\ root.currentSize < s
  /\ Realloc(s)
  /\ UNCHANGED <<plan, mBarrrier, mBarrrierFreeChunks, mTotalSize, mPtr, stage, status, history>>
OthersRelease ==
  /\ stage # "resizing" /\ root.current # Null
  /\ root' = [current |-> Null, currentSize |-> 0]
  /\ UNCHANGED <<plan, mBarrrier, mBarrrierFreeChunks, mTotalSize, mPtr, stage, status, history>>

Next ==
  \/ \E s \in 1 .. MaxSize, separate \in BOOLEAN : Alloc(s, separate)
  \/ \E b \in 1 .. Len(buffer) : Free(b)
  \/ BarrierBegin \/ BarrierEnd
  \/ Reset("resizing") \/ Reset("idle")
  \/ Compute \/ ExecuteBegin
  \/ \E s \in OtherSizes : OthersRealloc(s)
  \/ OthersRelease

Spec == Init /\ [][Next]_vars

------------------------------------------------------------------------------
Layout(p) == IF mTotalSize > 0 THEN p.offset ELSE Offsets(p)
Extent(p) == FoldFunctionOnSet(+, 0, p.size, ToSet(p.line))

\* Two buffers that may hold data at the same time never share memory, however
\* nodes were split, fused and widened before and after; buffers of different
\* threads within one barrier count as such.  All lie within the memory that the
\* plan asks for.
PlanDisjoint ==
  LET at == Layout(plan)
      start(b) == at[buffer[b].node]
      end(b) == start(b) + buffer[b].size
      buffers == 1 .. Len(buffer)
  IN  /\ \A a, b \in buffers : {a, b} \in together /\ start(a) <= start(b) => end(a) <= start(b)
      /\ \A b \in buffers : end(b) <= Extent(plan)

\* mFreeList is what is unused on the line, no two of its nodes are neighbours,
\* and so the line is one free node when every buffer is freed: the assertions
\* of compute.
Coalesced ==
  /\ plan.free = {n \in ToSet(plan.line) : ~ plan.usage[n]}
  /\ \A i \in 1 .. Len(plan.line) : ~ (Unused(plan, i) /\ Unused(plan, i + 1))
  /\ live = {} /\ retired = {} /\ plan # NoPlan => Single(plan)

\* When onExecuteBegin reports no error the tensors point into the block that
\* the runtime has now, and if there is one it is as large as the plan: no
\* matter what other sessions did to the block since the resize.
RunsInCurrentBlock ==
  [][ExecuteBegin /\ status' = "NO_ERROR" /\ mTotalSize > 0 =>
       /\ mPtr' = root'.current
       /\ root'.current # Null => root'.currentSize >= mTotalSize]_vars
==============================================================================

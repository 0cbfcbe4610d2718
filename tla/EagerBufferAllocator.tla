------------------------- MODULE EagerBufferAllocator -------------------------
(***************************************************************************)
(* source/core/BufferAllocator.cpp: the allocator that hands out memory at *)
(* once.  The runtime keeps its weights in one, above the heap or above    *)
(* mapped files, and a backend without a planner keeps its feature maps in *)
(* one above that.  Blocks come from outside, are cut into nodes, and a    *)
(* use count on each node that was cut decides when its parts are one      *)
(* again.  While an operator prepares its threads, a group per thread      *)
(* keeps what that thread gives back from the other threads.               *)
(*                                                                         *)
(* A chunk goes by its address.  Which of several free nodes of one size   *)
(* is taken is left open.                                                  *)
(***************************************************************************)
EXTENDS Integers, FiniteSetsExt, Functions, SequencesExt

CONSTANTS mAlign,
          Blocks,    \* BOUND: addresses of the blocks that outside can give
          Uses       \* what allocators there are: see use

ASSUME AlignAssumption == mAlign \in Nat \ {0}
\* Only the allocator above mapped files has a least size for a block, a multiple
\* of the alignment; barriers are for feature maps, which are never in that one.
ASSUME UsesAssumption ==
  \A u \in Uses : /\ u.mMinAllocSize \in Nat /\ u.mMinAllocSize % mAlign = 0
                  /\ u.threads \in Nat /\ (u.threads > 0 => u.mMinAllocSize = 0)
                  /\ u.sizes \subseteq Nat \ {0} /\ u.aligns \subseteq Nat \ {0}

VARIABLES use,              \* of this allocator: its mMinAllocSize, BOUND on the sizes
                            \* asked for, the alignments, and the groups of a
                            \* barrier (0 if it has none)
          mUsedList,        \* from chunks to nodes
          mFreeList,
          mGroups,          \* the free list of each group
          mCurrentFreeList, \* index in mGroups, or NoGroup
          useCount,         \* of the nodes that were cut, where it is not 0
          mTotalSize,
          barrier,          \* between barrierBegin and barrierEnd
          live,             \* the chunks out: with what was asked, and the group
          retired           \* those given back since barrierBegin

lists == <<mUsedList, mFreeList, useCount>>
groups == <<mGroups, mCurrentFreeList, barrier>>
vars == <<use, lists, groups, mTotalSize, live, retired>>

NoGroup == 0

\* A node is the sequence of extents from its block to itself: those before the
\* last are its parent and that one's parents.
Extent(n) == Last(n)
Node(above, base, offset, size) ==
  Append(above, [base |-> base, offset |-> offset, size |-> size])
HasParent(n) == Len(n) > 1
Parents(n) == {SubSeq(n, 1, i) : i \in 1 .. Len(n) - 1}

Init ==
  /\ use \in Uses
  /\ mUsedList = <<>> /\ mFreeList = {} /\ useCount = <<>>
  /\ mGroups = <<>> /\ mCurrentFreeList = NoGroup /\ barrier = FALSE
  /\ mTotalSize = 0
  /\ live = {} /\ retired = {}

RoundUp(size, align) == ((size + align - 1) \div align) * align

\* useCount += by.
Count(n, counts) == IF n \in DOMAIN counts THEN counts[n] ELSE 0
Counted(n, by, counts) ==
  LET count == Count(n, counts) + by
      domain == IF count = 0 THEN DOMAIN counts \ {n} ELSE DOMAIN counts \cup {n}
  IN  [m \in domain |-> IF m = n THEN count ELSE counts[m]]

------------------------------------------------------------------------------
(* alloc.                                                                   *)

Remember(chunk, size, align) ==
  live' = live \cup {[chunk |-> chunk, size |-> size, align |-> align,
                      group |-> mCurrentFreeList]}

\* std::map::insert keeps what the key has already.
Use(chunk, n) ==
  [k \in DOMAIN mUsedList \cup {chunk} |->
     IF k \in DOMAIN mUsedList THEN mUsedList[k] ELSE n]

NeedExtra(align) == mAlign % align # 0
EnoughTight(size, align) == size                                 \* seeded fault
Enough(size, align) == IF NeedExtra(align) THEN size + align - 1 ELSE size
\* lower_bound.
Best(list, size) ==
  LET enough == {n \in list : Extent(n).size >= size}
  IN  {n \in enough : \A m \in enough : Extent(n).size <= Extent(m).size}

\* What size takes of node n, with the bytes skipped for the alignment.
Shifted(size, n, align) ==
  IF NeedExtra(align)
  THEN size + RoundUp(Extent(n).offset, align) - Extent(n).offset
  ELSE size

\* A part of a parent goes into use.
Taken(n, counts) == IF HasParent(n) THEN Counted(Front(n), 1, counts) ELSE counts

\* getFromFreeList with permiteSplit, on mFreeList.
TakeFree(size, align) ==
  \E n \in Best(mFreeList, Enough(size, align)) :
    LET e == Extent(n)
        at == IF NeedExtra(align) THEN RoundUp(e.offset, align) ELSE e.offset
        chunk == <<e.base, at>>
        sizeAlign == RoundUp(Shifted(size, n, align), mAlign)
        first == Node(n, e.base, e.offset, sizeAlign)
        second == Node(n, e.base, e.offset + sizeAlign, e.size - sizeAlign)
    IN  /\ Remember(chunk, size, align)
        /\ \/ /\ sizeAlign >= e.size
              /\ mUsedList' = Use(chunk, n)
              /\ mFreeList' = mFreeList \ {n}
              /\ useCount' = Taken(n, useCount)
           \/ /\ sizeAlign < e.size
              /\ mUsedList' = Use(chunk, first)
              /\ mFreeList' = (mFreeList \ {n}) \cup {second}
              /\ useCount' = Counted(n, 1, Taken(n, useCount))
        /\ UNCHANGED <<groups, mTotalSize>>

\* getFromFreeList without permiteSplit, on the list of the group.
TakeGroup(size, align) ==
  \E n \in Best(mGroups[mCurrentFreeList], Enough(size, align)) :
    LET e == Extent(n)
        at == IF NeedExtra(align) THEN RoundUp(e.offset, align) ELSE e.offset
    IN  /\ Remember(<<e.base, at>>, size, align)
        /\ mUsedList' = Use(<<e.base, at>>, n)
        /\ mGroups' = [mGroups EXCEPT ![mCurrentFreeList] = @ \ {n}]
        /\ UNCHANGED <<mFreeList, useCount, mCurrentFreeList, barrier, mTotalSize>>

Leaves == Range(mUsedList) \cup mFreeList \cup UNION ToSet(mGroups)
Held == {Head(n) : n \in Leaves}

AllocSize(size) == Max({use.mMinAllocSize, size})

\* A block from outside; the part that is not asked for becomes a free node.
TakeBlock(size, align) ==
  \E b \in Blocks \ {e.base : e \in Held} :
    LET allocSize == AllocSize(size)
        node == Node(<<>>, b, 0, allocSize)
        first == Node(node, b, 0, RoundUp(size, mAlign))
        second == Node(node, b, RoundUp(size, mAlign), allocSize - RoundUp(size, mAlign))
    IN  /\ Remember(<<b, 0>>, size, align)
        /\ mTotalSize' = mTotalSize + allocSize
        /\ \/ /\ allocSize = size
              /\ mUsedList' = Use(<<b, 0>>, node)
              /\ UNCHANGED <<mFreeList, mGroups, useCount>>
           \/ /\ allocSize > size
              /\ mUsedList' = Use(<<b, 0>>, first)
              /\ useCount' = Counted(node, 1, useCount)
              /\ \/ /\ mCurrentFreeList = NoGroup
                    /\ mFreeList' = mFreeList \cup {second}
                    /\ UNCHANGED mGroups
                 \/ /\ mCurrentFreeList # NoGroup
                    /\ mGroups' = [mGroups EXCEPT ![mCurrentFreeList] = @ \cup {second}]
                    /\ UNCHANGED mFreeList
        /\ UNCHANGED <<mCurrentFreeList, barrier>>

InGroup(size, align) ==
  /\ mCurrentFreeList # NoGroup
  /\ Best(mGroups[mCurrentFreeList], Enough(size, align)) # {}
InFree(size, align) == Best(mFreeList, Enough(size, align)) # {}

\* alloc(size, separate, align); within a barrier the callers are in a group.
Alloc(size, separate, align) ==
  /\ barrier => mCurrentFreeList # NoGroup
  /\ \/ ~ separate /\ InGroup(size, align) /\ TakeGroup(size, align)
     \/ ~ separate /\ ~ InGroup(size, align) /\ InFree(size, align) /\ TakeFree(size, align)
     \/ /\ separate \/ ~ (InGroup(size, align) \/ InFree(size, align))
        /\ TakeBlock(size, align)
  /\ UNCHANGED retired

------------------------------------------------------------------------------
(* free, barriers and groups, release.                                      *)

\* Memory of mFreeList is h.free and h.counts.
ReturnOnce(n, h) ==                                              \* seeded fault
  LET parents == Parents(n)
      merged == {p \in parents : Len(p) = Len(n) - 1 /\ Count(p, h.counts) = 1}
  IN  [free |-> {m \in h.free \cup {n} \cup merged : Front(m) \notin merged},
       counts |-> IF parents = {} THEN h.counts ELSE Counted(Front(n), -1, h.counts)]
\* returnMemory(&mFreeList, n): the nearest parents of n whose last part in use
\* this was become free nodes in place of their parts.
ReturnMemory(n, h) ==
  LET merged == {p \in Parents(n) : \A q \in Parents(n) :
                   Len(q) >= Len(p) => Count(q, h.counts) = 1}
      less == {p \in Parents(n) : \A q \in Parents(n) : Len(q) > Len(p) => q \in merged}
  IN  [free |-> {m \in h.free \cup {n} \cup merged : Front(m) \notin merged},
       counts |-> [p \in DOMAIN h.counts \ merged |->
                     IF p \in less THEN h.counts[p] - 1 ELSE h.counts[p]]]

ListOfNone == NoGroup                                            \* seeded fault
ListOf == mCurrentFreeList

\* free(chunk) by its holder; within a barrier in the group that took it.
Free(c) ==
  /\ c \in live /\ c.chunk \in DOMAIN mUsedList
  /\ barrier => mCurrentFreeList # NoGroup /\ c.group = mCurrentFreeList
  /\ LET n == mUsedList[c.chunk]
         after == ReturnMemory(n, [free |-> mFreeList, counts |-> useCount])
     IN  \/ /\ ListOf # NoGroup
            /\ mGroups' = [mGroups EXCEPT ![ListOf] = @ \cup {n}]
            /\ UNCHANGED <<mFreeList, useCount>>
         \/ /\ ListOf = NoGroup
            /\ mFreeList' = after.free /\ useCount' = after.counts
            /\ UNCHANGED mGroups
  /\ mUsedList' = Restrict(mUsedList, DOMAIN mUsedList \ {c.chunk})
  /\ live' = live \ {c}
  /\ retired' = IF barrier THEN retired \cup {c} ELSE retired
  /\ UNCHANGED <<mCurrentFreeList, barrier, mTotalSize>>

BarrierBegin ==
  /\ use.threads > 0 /\ ~ barrier
  /\ barrier' = TRUE
  /\ UNCHANGED <<lists, mGroups, mCurrentFreeList, mTotalSize, live, retired>>

BeginGroup ==
  /\ barrier /\ mCurrentFreeList = NoGroup /\ Len(mGroups) < use.threads
  /\ mGroups' = Append(mGroups, {})
  /\ mCurrentFreeList' = Len(mGroups')
  /\ UNCHANGED <<lists, barrier, mTotalSize, live, retired>>

EndGroup ==
  /\ mCurrentFreeList # NoGroup
  /\ mCurrentFreeList' = NoGroup
  /\ UNCHANGED <<lists, mGroups, barrier, mTotalSize, live, retired>>

\* The order in which what the groups have is returned makes no difference.
BarrierEnd ==
  /\ barrier /\ mCurrentFreeList = NoGroup
  /\ LET after == FoldSet(ReturnMemory, [free |-> mFreeList, counts |-> useCount],
                          UNION ToSet(mGroups))
     IN  mFreeList' = after.free /\ useCount' = after.counts
  /\ mGroups' = <<>> /\ barrier' = FALSE
  /\ live' = {[c EXCEPT !.group = NoGroup] : c \in live} /\ retired' = {}
  /\ UNCHANGED <<mUsedList, mCurrentFreeList, mTotalSize>>

WholeAny == mFreeList                                            \* seeded fault
Whole == {n \in mFreeList : ~ HasParent(n)}

\* release(false): free blocks go back to outside.
ReleaseFree ==
  /\ ~ barrier
  /\ mFreeList' = mFreeList \ Whole
  /\ mTotalSize' = mTotalSize - MapThenSumSet(LAMBDA n : Extent(n).size, Whole)
  /\ UNCHANGED <<mUsedList, useCount, groups, live, retired>>

\* release(true), which the callers do when nothing is out.
ReleaseAll ==
  /\ ~ barrier /\ live = {}
  /\ mUsedList' = <<>> /\ mFreeList' = {} /\ useCount' = <<>>
  /\ mTotalSize' = 0
  /\ UNCHANGED <<groups, live, retired>>

Next ==
  /\ \/ \E size \in use.sizes, separate \in BOOLEAN, align \in use.aligns :
          Alloc(size, separate, align)
     \/ \E c \in live : Free(c)
     \/ BarrierBegin \/ BeginGroup \/ EndGroup \/ BarrierEnd
     \/ ReleaseFree \/ ReleaseAll
  /\ UNCHANGED use

Spec == Init /\ [][Next]_vars

------------------------------------------------------------------------------

Apart(b, o, s, c, p, t) == b # c \/ o + s <= p \/ p + t <= o
ApartChunks(c, d) ==
  Apart(c.chunk[1], c.chunk[2], c.size, d.chunk[1], d.chunk[2], d.size)

\* Memory is never given to two holders, however blocks were cut and merged; and
\* "different group must use different memory": what a thread takes within a
\* barrier is apart from all that another thread takes, given back or not.
OtherGroups(c, d) == NoGroup \notin {c.group, d.group} /\ c.group # d.group
ChunksApart ==
  \A c, d \in live \cup retired :
    \/ c # d /\ {c, d} \subseteq live
    \/ OtherGroups(c, d)
    => ApartChunks(c, d)

\* The chunks out are those of mUsedList, so that free never meets its
\* assertion; each is aligned as asked and lies within its node, bytes skipped
\* for the alignment included.
ChunksFit ==
  /\ DOMAIN mUsedList = {c.chunk : c \in live}
  /\ \A c \in live :
       LET e == Extent(mUsedList[c.chunk])
       IN  /\ c.chunk[2] % c.align = 0
           /\ e.offset <= c.chunk[2] /\ c.chunk[2] + c.size <= e.offset + e.size

\* No memory is lost or counted twice: the nodes in use, free or with a group are
\* apart and fill the blocks held, which are mTotalSize in all.
NothingLost ==
  LET size(n) == Extent(n).size
  IN  /\ \A n, m \in Leaves : n # m =>
           Apart(Extent(n).base, Extent(n).offset, size(n),
                 Extent(m).base, Extent(m).offset, size(m))
      /\ MapThenSumSet(size, Leaves) = MapThenSumSet(LAMBDA e : e.size, Held)
      /\ mTotalSize = MapThenSumSet(LAMBDA e : e.size, Held)

\* Once everything is given back and no barrier is open the blocks are whole, so
\* that release(false) returns all of them.
AllMerged ==
  live = {} /\ ~ barrier => mFreeList = Whole /\ DOMAIN useCount = {}
==============================================================================

--------------------- MODULE EagerBufferAllocator_proof ---------------------
(***************************************************************************)
(* Proofs about EagerBufferAllocator: the chunks that are out are apart,   *)
(* within a barrier those of different threads too, each lies within its   *)
(* node, the nodes make up the blocks, and the blocks are whole once       *)
(* everything is given back.                                               *)
(*                                                                         *)
(* The nodes in use, in a group or free are the leaves of a forest whose   *)
(* inner nodes are those that were cut.  Tree says what this forest looks  *)
(* like; each operation on a node is one lemma about Tree.                 *)
(***************************************************************************)
EXTENDS EagerBufferAllocator, FoldLemmas, SequenceTheorems

Extents == [base : Blocks, offset : Nat, size : Nat]
NodeType == Seq(Extents) \ {<<>>}

\* What is not free: the nodes of the chunks out and those in groups.
Grouped == UNION ToSet(mGroups)
InHand == Range(mUsedList) \cup Grouped

\* free and counts are mFreeList and useCount, hand is InHand.
Tips(free, hand) == free \cup hand
Nodes(free, counts, hand) == Tips(free, hand) \cup DOMAIN counts

SizeOf(n) == Extent(n).size
SizesOf(S) == MapThenSumSet(SizeOf, S)
SizeOfBlock(e) == e.size
SizesOfBlocks(S) == MapThenSumSet(SizeOfBlock, S)
Heads(S) == {Head(n) : n \in S}

Within(o, s, n) == Extent(n).offset <= o /\ o + s <= Extent(n).offset + Extent(n).size
Separate(n, m) == Apart(Extent(n).base, Extent(n).offset, Extent(n).size,
                        Extent(m).base, Extent(m).offset, Extent(m).size)

\* c and d are what a cut made of p.
Halves(p, c, d) ==
  /\ c # d /\ HasParent(c) /\ HasParent(d) /\ Front(c) = p /\ Front(d) = p
  /\ Extent(c).base = Extent(p).base /\ Extent(d).base = Extent(p).base
  /\ Extent(c).offset = Extent(p).offset
  /\ Extent(d).offset = Extent(p).offset + Extent(c).size
  /\ Extent(c).size + Extent(d).size = Extent(p).size
PartsOf(p, nodes) == {n \in nodes : HasParent(n) /\ Front(n) = p}
Busy(n, free) == IF n \in free THEN 0 ELSE 1

TreeTyped(free, counts, hand) ==
  /\ Nodes(free, counts, hand) \subseteq NodeType
  /\ IsFiniteSet(Tips(free, hand))
  /\ free \cap hand = {} /\ Tips(free, hand) \cap DOMAIN counts = {}
  /\ counts = [p \in DOMAIN counts |-> counts[p]]
\* Paths are finite, so that there is a deepest node.
TreeDepth(free, counts, hand) ==
  \E k \in Nat : \A n \in Nodes(free, counts, hand) : Len(n) <= k
\* Whatever is above a node was cut.
TreeClosed(free, counts, hand) ==
  \A n \in Nodes(free, counts, hand) : Parents(n) \subseteq DOMAIN counts
\* The parts of a node that was cut are the two halves of the cut, and its use
\* count is the number of them that are not free.
TreeCut(free, counts, hand) ==
  \A p \in DOMAIN counts :
    /\ counts[p] \in Nat \ {0}
    /\ \E c, d \in Nodes(free, counts, hand) :
         /\ Halves(p, c, d)
         /\ PartsOf(p, Nodes(free, counts, hand)) = {c, d}
         /\ counts[p] = Busy(c, free) + Busy(d, free)
TreeApart(free, counts, hand) ==
  \A n, m \in Tips(free, hand) : n # m => Separate(n, m)
\* An empty node is at the end of its block.
TreeEnds(free, counts, hand) ==
  \A n, m \in Nodes(free, counts, hand) :
    SizeOf(m) = 0 /\ Extent(n).base = Extent(m).base =>
      Extent(n).offset + SizeOf(n) <= Extent(m).offset
TreeAligned(free, counts, hand) ==
  \A n \in Nodes(free, counts, hand) : Extent(n).offset % mAlign = 0
\* The block of a node is the one it began as, and is known from a leaf.
TreeBlocks(free, counts, hand) ==
  /\ \A n \in Nodes(free, counts, hand) :
       /\ Head(n).base = Extent(n).base
       /\ Head(n) \in Heads(Tips(free, hand))
  /\ \A n, m \in Nodes(free, counts, hand) :
       Head(n).base = Head(m).base => Head(n) = Head(m)
TreeSum(free, hand, total) ==
  SizesOf(Tips(free, hand)) = total /\ SizesOfBlocks(Heads(Tips(free, hand))) = total

Shape(free, counts, hand) ==
  /\ TreeTyped(free, counts, hand) /\ TreeDepth(free, counts, hand)
  /\ TreeClosed(free, counts, hand) /\ TreeCut(free, counts, hand)
Places(free, counts, hand) ==
  /\ TreeApart(free, counts, hand) /\ TreeEnds(free, counts, hand)
  /\ TreeAligned(free, counts, hand) /\ TreeBlocks(free, counts, hand)
Tree(free, counts, hand, total) ==
  /\ Shape(free, counts, hand) /\ Places(free, counts, hand)
  /\ TreeSum(free, hand, total) /\ total \in Nat

------------------------------------------------------------------------------
Chunks == [chunk : Blocks \X Nat, size : Nat \ {0}, align : Nat \ {0}, group : Nat]

TypeInv ==
  /\ use \in Uses
  /\ live \subseteq Chunks /\ retired \subseteq Chunks
  /\ mUsedList = [k \in DOMAIN mUsedList |-> mUsedList[k]]
  /\ mGroups \in Seq(SUBSET NodeType)
  /\ mCurrentFreeList \in 0 .. Len(mGroups)
  /\ barrier \in BOOLEAN
  /\ barrier => use.threads > 0
  /\ ~ barrier => mGroups = <<>> /\ retired = {}

ForestInv == Tree(mFreeList, useCount, InHand, mTotalSize)

NodeOf(c) == mUsedList[c.chunk]
\* Each chunk out has its own node, which no group has, and groups have none in
\* common.
OwnersInv ==
  /\ DOMAIN mUsedList = {c.chunk : c \in live}
  /\ \A c, d \in live : NodeOf(c) = NodeOf(d) => c = d
  /\ \A c \in live : NodeOf(c) \notin Grouped
  /\ \A i, j \in DOMAIN mGroups : i # j => mGroups[i] \cap mGroups[j] = {}

InNode(c, n) == c.chunk[1] = Extent(n).base /\ Within(c.chunk[2], c.size, n)
InsideInv ==
  \A c \in live : /\ InNode(c, NodeOf(c)) /\ c.chunk[2] % c.align = 0
                  /\ c.group \in 0 .. Len(mGroups)
\* What a chunk given back within the barrier was in is still with its group.
KeptInv ==
  \A c \in retired :
    /\ c.group \in DOMAIN mGroups
    /\ \E n \in InHand :
         /\ InNode(c, n)
         /\ \/ n \in mGroups[c.group]
            \/ \E d \in live : d.group = c.group /\ NodeOf(d) = n

Inv == TypeInv /\ ForestInv /\ OwnersInv /\ InsideInv /\ KeptInv

------------------------------------------------------------------------------
(* Nodes as sequences.                                                      *)

LEMMA NodeFacts ==
  ASSUME NEW n \in NodeType
  PROVE  /\ Len(n) \in Nat \ {0} /\ Extent(n) \in Extents /\ Head(n) \in Extents
         /\ HasParent(n) => /\ Front(n) \in NodeType /\ Len(Front(n)) = Len(n) - 1
                            /\ Head(Front(n)) = Head(n)
                            /\ Parents(n) = Parents(Front(n)) \cup {Front(n)}
         /\ ~ HasParent(n) => /\ Parents(n) = {} /\ n = <<Head(n)>> /\ Extent(n) = Head(n)
                              /\ Front(n) = <<>>
<1>1. Len(n) \in Nat \ {0} /\ n \in [1 .. Len(n) -> Extents] /\ n \in Seq(Extents)
  BY EmptySeq, LenProperties DEF NodeType
<1>2. Extent(n) \in Extents /\ Head(n) \in Extents
  BY <1>1, HeadTailProperties DEF Extent, Last, NodeType
<1>3. ASSUME HasParent(n)
      PROVE  /\ Front(n) \in NodeType /\ Len(Front(n)) = Len(n) - 1
             /\ Head(Front(n)) = Head(n)
             /\ Parents(n) = Parents(Front(n)) \cup {Front(n)}
  <2> DEFINE p == SubSeq(n, 1, Len(n) - 1)
  <2>1. Len(n) > 1 /\ Len(n) - 1 \in 1 .. Len(n)
    BY <1>1, <1>3 DEF HasParent
  <2>2. /\ p \in Seq(Extents) /\ Len(p) = Len(n) - 1
        /\ \A i \in 1 .. Len(n) - 1 : p[i] = n[i]
    <3>1. \A i \in 1 .. Len(n) - 1 : n[i] \in Extents
      BY <1>1
    <3> QED
      BY <1>1, <2>1, <3>1, SubSeqProperties
  <2>3. p # <<>> /\ Head(p) = Head(n)
    <3>1. p # <<>>
      <4>1. Len(p) # 0
        BY <1>1, <2>1, <2>2
      <4> QED
        BY <4>1, EmptySeq
    <3>2. Head(p) = p[1] /\ Head(n) = n[1] /\ p[1] = n[1]
      BY <1>1, <2>1, <2>2, <3>1
    <3> QED
      BY <3>1, <3>2
  <2>4. \A i \in 1 .. Len(n) - 2 : SubSeq(p, 1, i) = SubSeq(n, 1, i)
    <3> TAKE i \in 1 .. Len(n) - 2
    <3>1. SubSeq(SubSeq(n, 1, Len(n) - 1), 1, i) = SubSeq(n, 1 + 1 - 1, 1 + i - 1)
      BY <1>1, <2>1, SubSeqOfSubSeq
    <3>2. 1 + 1 - 1 = 1 /\ 1 + i - 1 = i
      OBVIOUS
    <3> QED
      BY <3>1, <3>2
  <2>5. Parents(p) = {SubSeq(n, 1, i) : i \in 1 .. Len(n) - 2}
    BY <2>2, <2>4 DEF Parents
  <2>6. Parents(n) = {SubSeq(n, 1, i) : i \in 1 .. Len(n) - 2} \cup {p}
    BY <1>1, <2>1 DEF Parents
  <2> QED
    BY <2>2, <2>3, <2>5, <2>6 DEF Front, NodeType
<1>4. ASSUME ~ HasParent(n)
      PROVE  /\ Parents(n) = {} /\ n = <<Head(n)>> /\ Extent(n) = Head(n)
             /\ Front(n) = <<>>
  <2>1. Len(n) = 1
    BY <1>1, <1>4 DEF HasParent
  <2>2. Head(n) = n[1]
    BY <1>1
  <2> QED
    BY <1>1, <1>4, <2>1, <2>2 DEF Parents, Extent, Last, Front
<1> QED
  BY <1>1, <1>2, <1>3, <1>4

\* A part: a node with one extent more.
LEMMA PartFacts ==
  ASSUME NEW p \in NodeType, NEW e \in Extents
  PROVE  LET n == Append(p, e) IN
         /\ n \in NodeType /\ HasParent(n) /\ Front(n) = p /\ Extent(n) = e
         /\ Len(n) = Len(p) + 1 /\ Head(n) = Head(p)
         /\ Parents(n) = Parents(p) \cup {p}
<1> DEFINE n == Append(p, e)
<1>1. /\ p \in Seq(Extents) /\ n \in Seq(Extents) /\ n # <<>> /\ Len(n) = Len(p) + 1
      /\ n[Len(p) + 1] = e /\ \A i \in 1 .. Len(p) : n[i] = p[i]
  BY AppendProperties DEF NodeType
<1>2. n \in NodeType /\ HasParent(n) /\ Extent(n) = e
  BY <1>1, NodeFacts DEF NodeType, HasParent, Extent, Last
<1>3. Front(n) = p
  <2>1. /\ Front(n) \in Seq(Extents) /\ Len(Front(n)) = Len(p)
        /\ \A i \in 1 .. Len(p) : Front(n)[i] = n[i]
    <3>1. \A i \in 1 .. Len(n) - 1 : n[i] \in Extents
      BY <1>1, LenProperties
    <3>2. Len(p) \in Nat \ {0} /\ Len(n) - 1 = Len(p)
      BY <1>1, NodeFacts
    <3> QED
      BY <3>1, <3>2, SubSeqProperties DEF Front
  <2> QED
    BY <1>1, <2>1, SeqEqual
<1> QED
  BY <1>1, <1>2, <1>3, NodeFacts

\* A block on its own.
LEMMA BlockFacts ==
  ASSUME NEW e \in Extents
  PROVE  LET n == Append(<<>>, e) IN
         /\ n = <<e>> /\ n \in NodeType /\ ~ HasParent(n) /\ Extent(n) = e
         /\ Len(n) = 1 /\ Head(n) = e /\ Parents(n) = {}
<1>1. <<>> \in Seq(Extents)
  BY EmptySeq
<1>2. Append(<<>>, e) = <<e>> /\ <<e>> \in Seq(Extents) /\ Len(<<e>>) = 1 /\ <<e>> # <<>>
  OBVIOUS
<1>3. <<e>> \in NodeType /\ ~ HasParent(<<e>>)
  BY <1>2 DEF NodeType, HasParent
<1> QED
  BY <1>2, <1>3, NodeFacts

\* Each of the parents is a node, shorter, and the whole way down is there.
LEMMA ParentsFacts ==
  ASSUME NEW n \in NodeType, NEW p \in Parents(n)
  PROVE  /\ p \in NodeType /\ Len(p) < Len(n) /\ Head(p) = Head(n) /\ HasParent(n)
         /\ Parents(p) \subseteq Parents(n)
         /\ \E m \in Parents(n) \cup {n} : HasParent(m) /\ Front(m) = p
<1>1. Len(n) \in Nat \ {0} /\ n \in Seq(Extents) /\ n \in [1 .. Len(n) -> Extents]
  BY NodeFacts, LenProperties DEF NodeType
<1>2. PICK i \in 1 .. Len(n) - 1 : p = SubSeq(n, 1, i)
  BY DEF Parents
<1> DEFINE m == SubSeq(n, 1, i + 1)
<1>3. i \in Nat \ {0} /\ i + 1 \in 2 .. Len(n)
  BY <1>1
<1>4. /\ p \in Seq(Extents) /\ Len(p) = i
      /\ m \in Seq(Extents) /\ Len(m) = i + 1
  <2>1. \A j \in 1 .. i : n[j] \in Extents
    BY <1>1
  <2>2. \A j \in 1 .. i + 1 : n[j] \in Extents
    BY <1>1, <1>3
  <2>3. p \in Seq(Extents) /\ Len(p) = i
    BY <1>2, <1>3, <2>1, SubSeqProperties
  <2>4. m \in Seq(Extents) /\ Len(m) = i + 1
    BY <1>3, <2>2, SubSeqProperties
  <2> QED
    BY <2>3, <2>4
<1>5. p \in NodeType /\ m \in NodeType /\ Len(p) < Len(n) /\ HasParent(n) /\ HasParent(m)
  BY <1>1, <1>3, <1>4, EmptySeq DEF NodeType, HasParent
<1>6. Head(p) = Head(n)
  <2>1. Head(p) = n[1]
    BY <1>1, <1>2, <1>3, HeadTailOfSubSeq
  <2> QED
    BY <1>1, <2>1
<1>7. Front(m) = p
  <2>1. SubSeq(SubSeq(n, 1, i + 1), 1, i) = SubSeq(n, 1 + 1 - 1, 1 + i - 1)
    BY <1>1, <1>3, SubSeqOfSubSeq
  <2>2. 1 + 1 - 1 = 1 /\ 1 + i - 1 = i /\ Len(m) - 1 = i
    BY <1>3, <1>4
  <2> QED
    BY <1>2, <2>1, <2>2 DEF Front
<1>8. m \in Parents(n) \cup {n}
  <2>1. CASE i + 1 = Len(n)
    BY <1>1, <2>1, SubSeqFull
  <2>2. CASE i + 1 # Len(n)
    <3>1. i \in Nat /\ Len(n) \in Nat /\ i + 1 <= Len(n) /\ i + 1 # Len(n)
      <4>1. i \in Nat /\ i + 1 <= Len(n)
        BY <1>3
      <4> QED
        BY <4>1, <1>1, <2>2
    <3>2. i + 1 \in 1 .. Len(n) - 1
      BY ONLY <3>1
    <3> QED
      BY <3>2 DEF Parents
  <2> QED
    BY <2>1, <2>2
<1>9. Parents(p) \subseteq Parents(n)
  <2> SUFFICES ASSUME NEW q \in Parents(p) PROVE q \in Parents(n)
    OBVIOUS
  <2>1. PICK j \in 1 .. i - 1 : q = SubSeq(p, 1, j)
    BY <1>4 DEF Parents
  <2>2. SubSeq(SubSeq(n, 1, i), 1, j) = SubSeq(n, 1 + 1 - 1, 1 + j - 1)
    BY <1>1, <1>3, SubSeqOfSubSeq
  <2>3. 1 + 1 - 1 = 1 /\ 1 + j - 1 = j /\ j \in 1 .. Len(n) - 1
    BY <1>1, <1>3
  <2> QED
    BY <1>2, <2>1, <2>2, <2>3 DEF Parents
<1> QED
  BY <1>5, <1>6, <1>7, <1>8, <1>9

------------------------------------------------------------------------------
(* returnMemory, one level at a time.                                       *)

Lowered(counts, p) == [q \in DOMAIN counts |-> IF q = p THEN counts[q] - 1 ELSE counts[q]]
Less(counts, p) == [q \in DOMAIN counts \ {p} |-> counts[q]]

\* The node becomes free where it is, if its parent has another part in use.
LEMMA ReturnHere ==
  ASSUME NEW n \in NodeType, NEW free, NEW counts,
         HasParent(n) => Count(Front(n), counts) # 1
  PROVE  ReturnMemory(n, [free |-> free, counts |-> counts])
           = [free |-> free \cup {n},
              counts |-> IF HasParent(n) THEN Lowered(counts, Front(n))
                         ELSE [q \in DOMAIN counts |-> counts[q]]]
<1> DEFINE merged == {p \in Parents(n) : \A q \in Parents(n) :
                        Len(q) >= Len(p) => Count(q, counts) = 1}
           less == {p \in Parents(n) : \A q \in Parents(n) : Len(q) > Len(p) => q \in merged}
<1>1. /\ Len(n) \in Nat
      /\ \A p \in Parents(n) : /\ p \in NodeType /\ HasParent(n) /\ Len(p) \in Nat
                               /\ p # Front(n) => Len(p) < Len(Front(n))
      /\ HasParent(n) => Front(n) \in Parents(n)
  BY NodeFacts, ParentsFacts
<1>2. merged = {}
  <2> SUFFICES ASSUME NEW p \in merged PROVE FALSE
    OBVIOUS
  <2>1. HasParent(n) /\ Len(Front(n)) >= Len(p) /\ Front(n) \in Parents(n)
    BY <1>1, NodeFacts
  <2> QED
    BY <2>1
<1>3. less = IF HasParent(n) THEN {Front(n)} ELSE {}
  <2>1. \A p \in less : p = Front(n) /\ HasParent(n)
    <3> TAKE p \in less
    <3>1. HasParent(n) /\ Front(n) \in Parents(n) /\ Len(Front(n)) \in Nat /\ Len(p) \in Nat
      BY <1>1, NodeFacts
    <3>2. ~ (Len(Front(n)) > Len(p))
      BY <1>2, <3>1
    <3> QED
      BY <1>1, <3>1, <3>2
  <2>2. HasParent(n) => Front(n) \in less
    <3> SUFFICES ASSUME HasParent(n), NEW q \in Parents(n)
                 PROVE  ~ (Len(q) > Len(Front(n)))
      BY <1>1
    <3> QED
      BY <1>1, NodeFacts
  <2> HIDE DEF less
  <2> QED
    BY <2>1, <2>2
<1> DEFINE h == [free |-> free, counts |-> counts]
<1>4. ReturnMemory(n, h)
        = [free |-> {m \in free \cup {n} \cup merged : Front(m) \notin merged},
           counts |-> [p \in DOMAIN counts \ merged |->
                         IF p \in less THEN counts[p] - 1 ELSE counts[p]]]
  BY DEF ReturnMemory
<1> HIDE DEF merged, less, h
<1>5. {m \in free \cup {n} \cup merged : Front(m) \notin merged} = free \cup {n}
  BY <1>2
<1>6. [p \in DOMAIN counts \ merged |-> IF p \in less THEN counts[p] - 1 ELSE counts[p]]
        = IF HasParent(n) THEN Lowered(counts, Front(n))
          ELSE [q \in DOMAIN counts |-> counts[q]]
  BY <1>2, <1>3 DEF Lowered
<1> QED
  BY <1>4, <1>5, <1>6 DEF h

\* The node was the last part in use: its parent is returned in its place, and the
\* parent's other part leaves the list.
LEMMA ReturnUp ==
  ASSUME NEW n \in NodeType, NEW free, NEW counts,
         HasParent(n), Count(Front(n), counts) = 1
  PROVE  ReturnMemory(n, [free |-> free, counts |-> counts])
           = ReturnMemory(Front(n), [free |-> {m \in free : Front(m) # Front(n)},
                                     counts |-> Less(counts, Front(n))])
<1> DEFINE p == Front(n)
           rest == {m \in free : Front(m) # p}
           others == Less(counts, p)
           merged == {r \in Parents(n) : \A q \in Parents(n) :
                        Len(q) >= Len(r) => Count(q, counts) = 1}
           less == {r \in Parents(n) : \A q \in Parents(n) : Len(q) > Len(r) => q \in merged}
           above == {r \in Parents(p) : \A q \in Parents(p) :
                       Len(q) >= Len(r) => Count(q, others) = 1}
           lessAbove == {r \in Parents(p) : \A q \in Parents(p) : Len(q) > Len(r) => q \in above}
<1>1. /\ p \in NodeType /\ Len(p) \in Nat \ {0} /\ Parents(n) = Parents(p) \cup {p}
      /\ \A q \in Parents(p) : Len(q) \in Nat /\ Len(q) < Len(p) /\ q \in NodeType
  BY NodeFacts, ParentsFacts
<1>2. \A q \in Parents(p) : q # p /\ Count(q, others) = Count(q, counts)
  BY <1>1 DEF Less, Count
<1>3. merged = above \cup {p}
  <2>1. p \in merged
    BY <1>1
  <2>2. ASSUME NEW r \in Parents(p) PROVE r \in merged <=> r \in above
    BY <1>1, <1>2
  <2> QED
    BY <1>1, <2>1, <2>2
<1>4. less = lessAbove \cup {p}
  <2>1. p \in less
    BY <1>1
  <2>2. ASSUME NEW r \in Parents(p) PROVE r \in less <=> r \in lessAbove
    <3>1. \A q \in Parents(p) : q \in merged <=> q \in above
      BY <1>2, <1>3
    <3>2. p \in merged
      BY <1>3
    <3> HIDE DEF merged, above
    <3> QED
      BY <1>1, <3>1, <3>2
  <2> QED
    BY <1>1, <2>1, <2>2
<1>5. \A m \in above \cup {p} : Front(m) # p
  <2> TAKE m \in above \cup {p}
  <2>1. m \in NodeType /\ Len(m) <= Len(p) /\ Len(m) \in Nat
    BY <1>1
  <2>2. HasParent(m) => Len(Front(m)) < Len(p)
    BY <1>1, <2>1, NodeFacts
  <2>3. ~ HasParent(m) => Front(m) = <<>>
    BY <2>1, NodeFacts
  <2> QED
    BY <1>1, <2>2, <2>3 DEF NodeType
<1>6. /\ p \notin above /\ p \notin lessAbove
  BY <1>1
<1>7. ReturnMemory(n, [free |-> free, counts |-> counts])
        = [free |-> {m \in free \cup {n} \cup merged : Front(m) \notin merged},
           counts |-> [r \in DOMAIN counts \ merged |->
                         IF r \in less THEN counts[r] - 1 ELSE counts[r]]]
  BY DEF ReturnMemory
<1>8. ReturnMemory(p, [free |-> rest, counts |-> others])
        = [free |-> {m \in rest \cup {p} \cup above : Front(m) \notin above},
           counts |-> [r \in DOMAIN others \ above |->
                         IF r \in lessAbove THEN others[r] - 1 ELSE others[r]]]
  BY DEF ReturnMemory
<1> HIDE DEF merged, less, above, lessAbove
<1>9. {m \in free \cup {n} \cup merged : Front(m) \notin merged}
        = {m \in rest \cup {p} \cup above : Front(m) \notin above}
  BY <1>3, <1>5
<1>10. [r \in DOMAIN counts \ merged |-> IF r \in less THEN counts[r] - 1 ELSE counts[r]]
         = [r \in DOMAIN others \ above |->
              IF r \in lessAbove THEN others[r] - 1 ELSE others[r]]
  <2>1. DOMAIN others = DOMAIN counts \ {p} /\ \A r \in DOMAIN others : others[r] = counts[r]
    BY DEF Less
  <2> HIDE DEF others
  <2>2. DOMAIN others \ above = DOMAIN counts \ merged
    BY <1>3, <2>1
  <2>3. \A r \in DOMAIN counts \ merged :
          others[r] = counts[r] /\ (r \in less <=> r \in lessAbove)
    BY <1>3, <1>4, <2>1
  <2> QED
    BY <2>2, <2>3
<1> QED
  BY <1>7, <1>8, <1>9, <1>10

------------------------------------------------------------------------------
(* What nodes and blocks hold together.                                     *)

LEMMA SizesOfIsSum ==
  ASSUME NEW S \in SUBSET NodeType, IsFiniteSet(S),
         NEW f, IsSum(f, [n \in S |-> SizeOf(n)], S)
  PROVE  SizesOf(S) = f[S]
<1> DEFINE w == [n \in S |-> SizeOf(n)]
           Eqn(g) == g = [T \in SUBSET S |->
                            IF T = {} THEN 0
                            ELSE SizeOf(CHOOSE x \in T : TRUE) + g[T \ {CHOOSE x \in T : TRUE}]]
<1>1. w \in [S -> Nat]
  BY NodeFacts DEF SizeOf, Extents
<1>2. \A T \in SUBSET S : T # {} => Picked(T) \in S /\ w[Picked(T)] = SizeOf(Picked(T))
  <2> SUFFICES ASSUME NEW T \in SUBSET S, T # {}
               PROVE  Picked(T) \in S /\ w[Picked(T)] = SizeOf(Picked(T))
    OBVIOUS
  <2>1. Picked(T) \in S
    BY DEF Picked
  <2> QED
    BY <2>1
<1>3. IsSum(f, w, S)
  OBVIOUS
<1> HIDE DEF w
<1>4. Eqn(f)
  <2>1. \A T \in SUBSET S : f[T] = IF T = {} THEN 0 ELSE SizeOf(Picked(T)) + f[T \ {Picked(T)}]
    BY <1>2, <1>3 DEF IsSum, SumEqn
  <2> QED
    BY <1>3, <2>1 DEF IsSum, Picked
<1> DEFINE g == CHOOSE g : Eqn(g)
<1>5. Eqn(g)
  BY <1>4, Zenon
<1>6. SizesOf(S) = g[S]
  BY DEF SizesOf, MapThenSumSet, MapThenFoldSet
<1> HIDE DEF g
<1>7. SumEqn(g, w, S)
  BY <1>2, <1>5 DEF SumEqn, Picked
<1> QED
  BY <1>1, <1>3, <1>6, <1>7, SumUnique

LEMMA BlockSizesAreSum ==
  ASSUME NEW S \in SUBSET Extents, IsFiniteSet(S),
         NEW f, IsSum(f, [e \in S |-> SizeOfBlock(e)], S)
  PROVE  SizesOfBlocks(S) = f[S]
<1> DEFINE w == [e \in S |-> SizeOfBlock(e)]
           Eqn(g) == g = [T \in SUBSET S |->
                            IF T = {} THEN 0
                            ELSE SizeOfBlock(CHOOSE x \in T : TRUE) + g[T \ {CHOOSE x \in T : TRUE}]]
<1>1. w \in [S -> Nat]
  BY DEF SizeOfBlock, Extents
<1>2. \A T \in SUBSET S : T # {} => Picked(T) \in S /\ w[Picked(T)] = SizeOfBlock(Picked(T))
  <2> SUFFICES ASSUME NEW T \in SUBSET S, T # {}
               PROVE  Picked(T) \in S /\ w[Picked(T)] = SizeOfBlock(Picked(T))
    OBVIOUS
  <2>1. Picked(T) \in S
    BY DEF Picked
  <2> QED
    BY <2>1
<1>3. IsSum(f, w, S)
  OBVIOUS
<1> HIDE DEF w
<1>4. Eqn(f)
  <2>1. \A T \in SUBSET S : f[T] = IF T = {} THEN 0 ELSE SizeOfBlock(Picked(T)) + f[T \ {Picked(T)}]
    BY <1>2, <1>3 DEF IsSum, SumEqn
  <2> QED
    BY <1>3, <2>1 DEF IsSum, Picked
<1> DEFINE g == CHOOSE g : Eqn(g)
<1>5. Eqn(g)
  BY <1>4, Zenon
<1>6. SizesOfBlocks(S) = g[S]
  BY DEF SizesOfBlocks, MapThenSumSet, MapThenFoldSet
<1> HIDE DEF g
<1>7. SumEqn(g, w, S)
  BY <1>2, <1>5 DEF SumEqn, Picked
<1> QED
  BY <1>1, <1>3, <1>6, <1>7, SumUnique

LEMMA SizesFacts ==
  ASSUME NEW S \in SUBSET NodeType, IsFiniteSet(S)
  PROVE  /\ SizesOf(S) \in Nat /\ (S = {} => SizesOf(S) = 0)
         /\ \A x \in S : SizeOf(x) \in Nat /\ SizesOf(S) = SizeOf(x) + SizesOf(S \ {x})
<1> DEFINE w == [n \in S |-> SizeOf(n)]
<1>1. w \in [S -> Nat] /\ \A x \in S : w[x] = SizeOf(x)
  BY NodeFacts DEF SizeOf, Extents
<1>2. PICK f : IsSum(f, w, S)
  BY <1>1, SumExists
<1>3. SizesOf(S) = f[S]
  BY <1>2, SizesOfIsSum
<1>4. ASSUME NEW x \in S PROVE SizeOf(x) \in Nat /\ SizesOf(S) = SizeOf(x) + SizesOf(S \ {x})
  <2> DEFINE U == S \ {x}
             v == [n \in U |-> SizeOf(n)]
  <2>1. U \in SUBSET NodeType /\ IsFiniteSet(U) /\ U \in SUBSET S
    BY FS_Subset
  <2>2. v \in [U -> Nat] /\ \A n \in U : w[n] = v[n]
    BY <1>1
  <2>3. PICK g : IsSum(g, v, U)
    BY <2>1, <2>2, SumExists
  <2>4. SizesOf(U) = g[U]
    <3> HIDE DEF U
    <3> QED
      BY <2>1, <2>3, SizesOfIsSum
  <2>5. f[U] = g[U]
    <3>1. SumEqn(g, v, U)
      BY <2>3 DEF IsSum
    <3> HIDE DEF U, v, w
    <3> QED
      BY <1>1, <1>2, <2>1, <2>2, <3>1, SumUnique
  <2>6. f[S] = w[x] + f[U]
    <3> HIDE DEF w
    <3> QED
      BY <1>1, <1>2, SumTakesOut
  <2> QED
    BY <1>1, <1>3, <2>4, <2>5, <2>6
<1> HIDE DEF w
<1> QED
  BY <1>2, <1>3, <1>4 DEF IsSum, SumEqn

LEMMA BlockSizesFacts ==
  ASSUME NEW S \in SUBSET Extents, IsFiniteSet(S)
  PROVE  /\ SizesOfBlocks(S) \in Nat /\ (S = {} => SizesOfBlocks(S) = 0)
         /\ \A x \in S : SizeOfBlock(x) \in Nat /\ SizesOfBlocks(S) = SizeOfBlock(x) + SizesOfBlocks(S \ {x})
<1> DEFINE w == [e \in S |-> SizeOfBlock(e)]
<1>1. w \in [S -> Nat] /\ \A x \in S : w[x] = SizeOfBlock(x)
  BY DEF SizeOfBlock, Extents
<1>2. PICK f : IsSum(f, w, S)
  BY <1>1, SumExists
<1>3. SizesOfBlocks(S) = f[S]
  BY <1>2, BlockSizesAreSum
<1>4. ASSUME NEW x \in S PROVE SizeOfBlock(x) \in Nat /\ SizesOfBlocks(S) = SizeOfBlock(x) + SizesOfBlocks(S \ {x})
  <2> DEFINE U == S \ {x}
             v == [e \in U |-> SizeOfBlock(e)]
  <2>1. U \in SUBSET Extents /\ IsFiniteSet(U) /\ U \in SUBSET S
    BY FS_Subset
  <2>2. v \in [U -> Nat] /\ \A e \in U : w[e] = v[e]
    BY <1>1
  <2>3. PICK g : IsSum(g, v, U)
    BY <2>1, <2>2, SumExists
  <2>4. SizesOfBlocks(U) = g[U]
    <3> HIDE DEF U
    <3> QED
      BY <2>1, <2>3, BlockSizesAreSum
  <2>5. f[U] = g[U]
    <3>1. SumEqn(g, v, U)
      BY <2>3 DEF IsSum
    <3> HIDE DEF U, v, w
    <3> QED
      BY <1>1, <1>2, <2>1, <2>2, <3>1, SumUnique
  <2>6. f[S] = w[x] + f[U]
    <3> HIDE DEF w
    <3> QED
      BY <1>1, <1>2, SumTakesOut
  <2> QED
    BY <1>1, <1>3, <2>4, <2>5, <2>6
<1> HIDE DEF w
<1> QED
  BY <1>2, <1>3, <1>4 DEF IsSum, SumEqn

LEMMA SizesAdd ==
  ASSUME NEW S \in SUBSET NodeType, IsFiniteSet(S), NEW n \in NodeType, n \notin S
  PROVE  SizesOf(S \cup {n}) = SizeOf(n) + SizesOf(S) /\ IsFiniteSet(S \cup {n})
<1>1. IsFiniteSet(S \cup {n}) /\ S \cup {n} \in SUBSET NodeType /\ (S \cup {n}) \ {n} = S
  BY FS_AddElement
<1> QED
  BY <1>1, SizesFacts

LEMMA BlockSizesAdd ==
  ASSUME NEW S \in SUBSET Extents, IsFiniteSet(S), NEW e \in Extents, e \notin S
  PROVE  SizesOfBlocks(S \cup {e}) = SizeOfBlock(e) + SizesOfBlocks(S)
<1>1. IsFiniteSet(S \cup {e}) /\ S \cup {e} \in SUBSET Extents /\ (S \cup {e}) \ {e} = S
  BY FS_AddElement
<1> QED
  BY <1>1, BlockSizesFacts

------------------------------------------------------------------------------
(* What returnMemory does to the forest.                                    *)

\* What there is to know of a node that has a parent: the parent was cut, and the
\* node is one of its two halves.
LEMMA HalfOf ==
  ASSUME NEW free, NEW counts, NEW hand, Shape(free, counts, hand),
         NEW n \in Nodes(free, counts, hand), HasParent(n)
  PROVE  /\ n \in NodeType /\ Front(n) \in DOMAIN counts
         /\ counts[Front(n)] \in Nat \ {0}
         /\ \E m \in Nodes(free, counts, hand) :
              /\ Halves(Front(n), n, m) \/ Halves(Front(n), m, n)
              /\ PartsOf(Front(n), Nodes(free, counts, hand)) = {n, m}
              /\ counts[Front(n)] = Busy(n, free) + Busy(m, free)
<1> DEFINE N == Nodes(free, counts, hand)
           p == Front(n)
<1>1. n \in NodeType /\ p \in DOMAIN counts
  BY NodeFacts DEF Shape, TreeTyped, TreeClosed
<1>2. PICK c, d \in N : /\ Halves(p, c, d) /\ PartsOf(p, N) = {c, d}
                        /\ counts[p] = Busy(c, free) + Busy(d, free)
  BY <1>1 DEF Shape, TreeCut
<1>3. n \in {c, d}
  BY <1>2 DEF PartsOf
<1>4. Busy(c, free) + Busy(d, free) = Busy(d, free) + Busy(c, free)
  BY DEF Busy
<1>5. counts[p] \in Nat \ {0}
  BY <1>1 DEF Shape, TreeCut
<1> QED
  BY <1>1, <1>2, <1>3, <1>4, <1>5

\* A node becomes free where it is.
LEMMA HereKeepsTree ==
  ASSUME NEW free, NEW counts, NEW hand, NEW total, Tree(free, counts, hand, total),
         NEW n \in hand, HasParent(n) => Count(Front(n), counts) # 1
  PROVE  Tree(free \cup {n},
              IF HasParent(n) THEN Lowered(counts, Front(n)) ELSE [q \in DOMAIN counts |-> counts[q]],
              hand \ {n}, total)
<1> DEFINE after == IF HasParent(n) THEN Lowered(counts, Front(n))
                    ELSE [q \in DOMAIN counts |-> counts[q]]
           N == Nodes(free, counts, hand)
<1>1. n \in Tips(free, hand) /\ n \in N /\ n \notin free /\ Shape(free, counts, hand)
  BY DEF Tree, Shape, TreeTyped, Tips, Nodes
<1>2. /\ Tips(free \cup {n}, hand \ {n}) = Tips(free, hand)
      /\ DOMAIN after = DOMAIN counts
      /\ after = [q \in DOMAIN after |-> after[q]]
      /\ Nodes(free \cup {n}, after, hand \ {n}) = N
      /\ (free \cup {n}) \cap (hand \ {n}) = {}
  BY <1>1 DEF Shape, TreeTyped, Tips, Nodes, Lowered
<1>3. \A p \in DOMAIN counts :
        after[p] = IF HasParent(n) /\ p = Front(n) THEN counts[p] - 1 ELSE counts[p]
  BY DEF Lowered
<1>4. TreeCut(free \cup {n}, after, hand \ {n})
  <2> SUFFICES ASSUME NEW p \in DOMAIN counts
               PROVE  /\ after[p] \in Nat \ {0}
                      /\ \E c, d \in N :
                           /\ Halves(p, c, d) /\ PartsOf(p, N) = {c, d}
                           /\ after[p] = Busy(c, free \cup {n}) + Busy(d, free \cup {n})
    <3> HIDE DEF after, N
    <3> QED
      BY <1>2, SMTT(30) DEF TreeCut
  <2>1. PICK c, d \in N : /\ Halves(p, c, d) /\ PartsOf(p, N) = {c, d}
                          /\ counts[p] = Busy(c, free) + Busy(d, free)
    BY <1>1 DEF Shape, TreeCut
  <2>2. counts[p] \in Nat \ {0} /\ c # d
    BY <1>1, <2>1 DEF Shape, TreeCut, Halves
  <2>3. CASE HasParent(n) /\ p = Front(n)
    <3>1. n \in {c, d} /\ after[p] = counts[p] - 1 /\ counts[p] # 1
      BY <1>1, <1>3, <2>1, <2>3 DEF PartsOf, Count
    <3>2. after[p] = Busy(c, free \cup {n}) + Busy(d, free \cup {n})
      BY <1>1, <2>1, <2>2, <3>1 DEF Busy
    <3> QED
      BY <2>1, <2>2, <3>1, <3>2
  <2>4. CASE ~ (HasParent(n) /\ p = Front(n))
    <3>1. n # c /\ n # d /\ after[p] = counts[p]
      BY <1>3, <2>1, <2>4 DEF Halves
    <3>2. Busy(c, free \cup {n}) = Busy(c, free) /\ Busy(d, free \cup {n}) = Busy(d, free)
      BY <3>1 DEF Busy
    <3> QED
      BY <2>1, <2>2, <3>1, <3>2
  <2> QED
    BY <2>3, <2>4
<1> HIDE DEF after
<1>5. Shape(free \cup {n}, after, hand \ {n})
  BY <1>1, <1>2, <1>4 DEF Shape, TreeTyped, TreeDepth, TreeClosed
<1>6. Places(free \cup {n}, after, hand \ {n}) /\ TreeSum(free \cup {n}, hand \ {n}, total)
  BY <1>2 DEF Tree, Places, TreeApart, TreeEnds, TreeAligned, TreeBlocks, TreeSum
<1>7. Tree(free \cup {n}, after, hand \ {n}, total)
  BY <1>5, <1>6 DEF Tree
<1> QED
  BY <1>7 DEF after

\* Two halves are apart from what their whole is apart from, and conversely.
LEMMA JoinedApart ==
  ASSUME NEW p \in NodeType, NEW c \in NodeType, NEW d \in NodeType, NEW y \in NodeType,
         Halves(p, c, d), Separate(c, y), Separate(d, y),
         SizeOf(y) = 0 /\ Extent(p).base = Extent(y).base =>
           Extent(p).offset + SizeOf(p) <= Extent(y).offset
  PROVE  Separate(p, y) /\ Separate(y, p)
<1>1. \A x \in {p, c, d, y} : Extent(x).offset \in Nat /\ Extent(x).size \in Nat
  BY NodeFacts DEF Extents
<1> QED
  BY <1>1 DEF Halves, Separate, Apart, SizeOf

\* A node whose parent has no other part in use: the parent takes its place, and
\* that of the other part.
LEMMA UpKeepsTree ==
  ASSUME NEW free, NEW counts, NEW hand, NEW total, Tree(free, counts, hand, total),
         NEW n \in hand, HasParent(n), Count(Front(n), counts) = 1
  PROVE  /\ Tree({m \in free : Front(m) # Front(n)}, Less(counts, Front(n)),
                 (hand \ {n}) \cup {Front(n)}, total)
         /\ Front(n) \in NodeType /\ Front(n) \notin hand
<1> DEFINE p == Front(n)
           free1 == {x \in free : Front(x) # p}
           counts1 == Less(counts, p)
           hand1 == (hand \ {n}) \cup {p}
           N == Nodes(free, counts, hand)
           N1 == Nodes(free1, counts1, hand1)
           T == Tips(free, hand)
           T1 == Tips(free1, hand1)
<1>1. /\ Shape(free, counts, hand) /\ Places(free, counts, hand) /\ TreeSum(free, hand, total)
      /\ total \in Nat
  BY DEF Tree
<1>2. /\ N \subseteq NodeType /\ T \subseteq N /\ IsFiniteSet(T) /\ DOMAIN counts \subseteq N
      /\ free \subseteq T /\ hand \subseteq T /\ free \cap hand = {} /\ T \cap DOMAIN counts = {}
      /\ T = free \cup hand /\ N = T \cup DOMAIN counts
      /\ n \in N /\ n \in T /\ n \notin free /\ n \in NodeType
  BY <1>1 DEF Shape, TreeTyped, Tips, Nodes
<1>3. p \in DOMAIN counts /\ counts[p] = 1 /\ p \in NodeType /\ p # <<>>
  BY <1>1, <1>2, HalfOf DEF Count, NodeType
<1>4. PICK m \in N : /\ Halves(p, n, m) \/ Halves(p, m, n)
                     /\ PartsOf(p, N) = {n, m}
                     /\ counts[p] = Busy(n, free) + Busy(m, free)
  BY <1>1, <1>2, HalfOf
<1>5. m \in free /\ m # n /\ HasParent(m) /\ Front(m) = p /\ m \in NodeType /\ m \in T
  <2>1. Busy(n, free) = 1
    BY <1>2 DEF Busy
  <2>2. m \in free
    BY <1>3, <1>4, <2>1 DEF Busy
  <2> QED
    BY <1>2, <1>4, <2>2 DEF Halves
<1>6. free1 = free \ {m}
  <2>1. ASSUME NEW x \in free, Front(x) = p PROVE x = m
    <3>1. x \in NodeType /\ x \in N
      BY <1>2
    <3>2. HasParent(x)
      BY <1>3, <2>1, <3>1, NodeFacts
    <3>3. x \in PartsOf(p, N)
      BY <2>1, <3>1, <3>2 DEF PartsOf
    <3> QED
      BY <1>2, <1>4, <3>3
  <2> QED
    BY <1>5, <2>1
<1>7. /\ DOMAIN counts1 = DOMAIN counts \ {p}
      /\ counts1 = [q \in DOMAIN counts1 |-> counts1[q]]
      /\ \A q \in DOMAIN counts1 : counts1[q] = counts[q]
  BY DEF Less
<1> HIDE DEF free1, counts1
<1>8. T1 = (T \ {n, m}) \cup {p} /\ N1 = N \ {n, m}
  <2>1. T1 = (T \ {n, m}) \cup {p}
    BY <1>2, <1>5, <1>6 DEF Tips
  <2>2. N1 = T1 \cup (DOMAIN counts \ {p})
    BY <1>7 DEF Nodes
  <2> QED
    BY <1>2, <1>3, <1>5, <2>1, <2>2, ZenonT(30)
<1> HIDE DEF N, N1, T, T1
<1>9. TreeTyped(free1, counts1, hand1)
  <2>1. IsFiniteSet(T1)
    <3>1. IsFiniteSet(T \ {n, m})
      BY <1>2, FS_Subset
    <3> QED
      BY <1>8, <3>1, FS_AddElement
  <2>2. free1 \cap hand1 = {}
    BY <1>2, <1>3, <1>6
  <2>3. T1 \cap DOMAIN counts1 = {} /\ N1 \subseteq NodeType
    BY <1>2, <1>7, <1>8
  <2> QED
    BY <1>7, <2>1, <2>2, <2>3 DEF TreeTyped, T1, N1
<1>10. TreeDepth(free1, counts1, hand1)
  BY <1>1, <1>8 DEF Shape, TreeDepth, N, N1
<1>11. TreeClosed(free1, counts1, hand1)
  <2> SUFFICES ASSUME NEW x \in N1, NEW q \in Parents(x) PROVE q \in DOMAIN counts1
    BY DEF TreeClosed, N1
  <2>1. x \in N /\ x \in NodeType /\ Parents(x) \subseteq DOMAIN counts
    BY <1>1, <1>2, <1>8 DEF Shape, TreeClosed, N
  <2>2. ASSUME q = p PROVE FALSE
    <3>1. PICK y \in Parents(x) \cup {x} : HasParent(y) /\ Front(y) = p
      BY <2>1, <2>2, ParentsFacts
    <3>2. y \in PartsOf(p, N)
      BY <1>2, <2>1, <3>1 DEF PartsOf
    <3> QED
      BY <1>2, <1>4, <1>5, <1>8, <2>1, <3>1, <3>2
  <2> QED
    BY <1>7, <2>1, <2>2
<1>12. TreeCut(free1, counts1, hand1)
  <2> SUFFICES ASSUME NEW q \in DOMAIN counts1
               PROVE  /\ counts1[q] \in Nat \ {0}
                      /\ \E c, d \in N1 :
                           /\ Halves(q, c, d) /\ PartsOf(q, N1) = {c, d}
                           /\ counts1[q] = Busy(c, free1) + Busy(d, free1)
    BY DEF TreeCut, N1
  <2>1. q \in DOMAIN counts /\ q # p /\ counts1[q] = counts[q]
    BY <1>7
  <2>2. PICK c, d \in N : /\ Halves(q, c, d) /\ PartsOf(q, N) = {c, d}
                          /\ counts[q] = Busy(c, free) + Busy(d, free)
    BY <1>1, <2>1 DEF Shape, TreeCut, N
  <2>3. c \notin {n, m} /\ d \notin {n, m} /\ c \in N1 /\ d \in N1
    BY <1>5, <1>8, <2>1, <2>2 DEF Halves
  <2>4. PartsOf(q, N1) = {c, d}
    BY <1>8, <2>2, <2>3 DEF PartsOf
  <2>5. Busy(c, free1) = Busy(c, free) /\ Busy(d, free1) = Busy(d, free)
    BY <1>6, <2>3 DEF Busy
  <2>6. counts[q] \in Nat \ {0}
    BY <1>1, <2>1 DEF Shape, TreeCut
  <2> QED
    BY <2>1, <2>2, <2>3, <2>4, <2>5, <2>6
<1>13. TreeApart(free1, counts1, hand1)
  <2> SUFFICES ASSUME NEW x \in T1, NEW y \in T1, x # y PROVE Separate(x, y)
    BY DEF TreeApart, T1
  <2>1. \A u, v \in T : u # v => Separate(u, v)
    BY <1>1 DEF Places, TreeApart, T
  <2>2. ASSUME NEW z \in T \ {n, m} PROVE Separate(p, z) /\ Separate(z, p)
    <3>1. z \in NodeType /\ z \in N /\ p \in N /\ Separate(n, z) /\ Separate(m, z)
      BY <1>2, <1>3, <1>5, <2>1
    <3>2. SizeOf(z) = 0 /\ Extent(p).base = Extent(z).base =>
            Extent(p).offset + SizeOf(p) <= Extent(z).offset
      BY <1>1, <3>1 DEF Places, TreeEnds, N
    <3> QED
      BY <1>2, <1>3, <1>4, <1>5, <3>1, <3>2, JoinedApart
  <2> QED
    BY <1>8, <2>1, <2>2
<1>14. TreeEnds(free1, counts1, hand1) /\ TreeAligned(free1, counts1, hand1)
  BY <1>1, <1>8 DEF Places, TreeEnds, TreeAligned, N, N1
<1>15. Heads(T1) = Heads(T) /\ Head(n) = Head(p) /\ Head(m) = Head(p)
  <2>1. Head(n) = Head(p) /\ Head(m) = Head(p)
    BY <1>2, <1>5, NodeFacts
  <2> QED
    BY <1>2, <1>8, <2>1 DEF Heads
<1>16. TreeBlocks(free1, counts1, hand1)
  BY <1>1, <1>8, <1>15 DEF Places, TreeBlocks, N, N1, T, T1
<1>17. TreeSum(free1, hand1, total)
  <2> DEFINE rest == (T \ {n}) \ {m}
  <2>1. rest \in SUBSET NodeType /\ IsFiniteSet(rest) /\ T \ {n} \in SUBSET NodeType
        /\ IsFiniteSet(T \ {n}) /\ T \in SUBSET NodeType /\ m \in T \ {n}
    BY <1>2, <1>5, FS_Subset
  <2>2. SizesOf(T) = SizeOf(n) + SizesOf(T \ {n}) /\ SizesOf(T \ {n}) = SizeOf(m) + SizesOf(rest)
    BY <1>2, <2>1, SizesFacts
  <2>3. T1 = rest \cup {p} /\ p \notin rest
    BY <1>2, <1>3, <1>8
  <2> HIDE DEF rest
  <2>4. SizesOf(T1) = SizeOf(p) + SizesOf(rest)
    BY <1>3, <2>1, <2>3, SizesAdd
  <2>5. SizeOf(p) = SizeOf(n) + SizeOf(m) /\ SizeOf(n) \in Nat /\ SizeOf(m) \in Nat
    BY <1>2, <1>4, <1>5, NodeFacts DEF Halves, SizeOf, Extents
  <2>6. SizesOf(rest) \in Nat
    BY <2>1, SizesFacts
  <2>7. SizesOf(T1) = SizesOf(T)
    BY <2>2, <2>4, <2>5, <2>6
  <2> QED
    BY <1>1, <1>15, <2>7 DEF TreeSum, T, T1
<1>18. Tree(free1, counts1, hand1, total)
  BY <1>1, <1>9, <1>10, <1>11, <1>12, <1>13, <1>14, <1>16, <1>17 DEF Tree, Shape, Places
<1> QED
  BY <1>2, <1>3, <1>18 DEF free1, counts1

\* free and counts after n was returned.
Returned(n, free, counts) == ReturnMemory(n, [free |-> free, counts |-> counts])

\* returnMemory, however far up it goes.
LEMMA ReturnKeepsTree ==
  ASSUME NEW free, NEW counts, NEW hand, NEW total, Tree(free, counts, hand, total),
         NEW n \in hand
  PROVE  Tree(Returned(n, free, counts).free, Returned(n, free, counts).counts,
              hand \ {n}, total)
<1> DEFINE Fails(k, f, c, h, m) ==
             /\ Tree(f, c, h, total) /\ m \in h /\ Len(m) = k
             /\ ~ Tree(Returned(m, f, c).free, Returned(m, f, c).counts, h \ {m}, total)
           Bad == {k \in Nat : \E f, c, h, m : Fails(k, f, c, h, m)}
<1>1. Bad = {}
  <2> SUFFICES ASSUME Bad # {} PROVE FALSE
    OBVIOUS
  <2>1. PICK k \in Bad : \A j \in Bad : k <= j
    BY LeastNumber
  <2>2. PICK f, c, h, m : Fails(k, f, c, h, m)
    OBVIOUS
  <2>3. m \in NodeType /\ k \in Nat /\ Len(m) = k /\ Tree(f, c, h, total) /\ m \in h
    BY <2>2 DEF Tree, Shape, TreeTyped, Nodes, Tips
  <2>4. CASE HasParent(m) => Count(Front(m), c) # 1
    <3> DEFINE after == IF HasParent(m) THEN Lowered(c, Front(m)) ELSE [q \in DOMAIN c |-> c[q]]
    <3>1. Returned(m, f, c) = [free |-> f \cup {m}, counts |-> after]
      BY <2>3, <2>4, ReturnHere DEF Returned
    <3>2. Tree(f \cup {m}, after, h \ {m}, total)
      BY <2>3, <2>4, HereKeepsTree
    <3> HIDE DEF after
    <3>3. Returned(m, f, c).free = f \cup {m} /\ Returned(m, f, c).counts = after
      BY <3>1
    <3> QED
      BY <2>2, <3>2, <3>3
  <2>5. CASE HasParent(m) /\ Count(Front(m), c) = 1
    <3> DEFINE p == Front(m)
               f1 == {x \in f : Front(x) # p}
               c1 == Less(c, p)
               h1 == (h \ {m}) \cup {p}
    <3>1. Tree(f1, c1, h1, total) /\ p \in NodeType /\ p \notin h
      BY <2>3, <2>5, UpKeepsTree
    <3>2. Returned(m, f, c) = Returned(p, f1, c1)
      BY <2>3, <2>5, ReturnUp DEF Returned
    <3>3. Len(p) \in Nat /\ Len(p) < k
      BY <2>3, <2>5, NodeFacts
    <3>4. Len(p) \notin Bad
      <4> HIDE DEF Bad, p
      <4> QED
        BY <2>1, <2>3, <3>3
    <3>5. p \in h1 /\ h1 \ {p} = h \ {m}
      BY <3>1
    <3> HIDE DEF p, f1, c1, h1
    <3>6. ~ Fails(Len(p), f1, c1, h1, p)
      BY <3>3, <3>4
    <3>7. Tree(Returned(p, f1, c1).free, Returned(p, f1, c1).counts, h1 \ {p}, total)
      BY <3>1, <3>5, <3>6
    <3> QED
      BY <2>2, <3>2, <3>5, <3>7
  <2> QED
    BY <2>4, <2>5
<1>2. n \in NodeType /\ Len(n) \in Nat
  BY NodeFacts DEF Tree, Shape, TreeTyped, Nodes, Tips
<1>3. ~ Fails(Len(n), free, counts, hand, n)
  BY <1>1, <1>2
<1> QED
  BY <1>3

\* What mFreeList and useCount can be, as far as returnMemory goes.
Memory == [free : SUBSET NodeType, counts : UNION {[D -> Int] : D \in SUBSET NodeType}]

LEMMA ReturnTyped ==
  ASSUME NEW n \in NodeType, NEW h \in Memory
  PROVE  ReturnMemory(n, h) \in Memory
<1> DEFINE merged == {p \in Parents(n) : \A q \in Parents(n) :
                        Len(q) >= Len(p) => Count(q, h.counts) = 1}
           less == {p \in Parents(n) : \A q \in Parents(n) : Len(q) > Len(p) => q \in merged}
           free == {m \in h.free \cup {n} \cup merged : Front(m) \notin merged}
           counts == [p \in DOMAIN h.counts \ merged |->
                        IF p \in less THEN h.counts[p] - 1 ELSE h.counts[p]]
<1>1. ReturnMemory(n, h) = [free |-> free, counts |-> counts]
  BY DEF ReturnMemory
<1>2. merged \subseteq NodeType
  BY ParentsFacts
<1> HIDE DEF merged, less
<1>3. PICK D \in SUBSET NodeType : h.counts \in [D -> Int]
  BY DEF Memory
<1>4. free \in SUBSET NodeType
  BY <1>2 DEF Memory
<1>5. counts \in [D \ merged -> Int] /\ D \ merged \in SUBSET NodeType
  <2>1. DOMAIN h.counts = D /\ \A p \in D : h.counts[p] \in Int
    BY <1>3
  <2> QED
    BY <2>1
<1> HIDE DEF free, counts
<1>6. counts \in UNION {[E -> Int] : E \in SUBSET NodeType}
  BY <1>5
<1> QED
  BY <1>1, <1>4, <1>6 DEF Memory

\* Returning several nodes one after the other.
LEMMA ReturnAllKeepsTree ==
  ASSUME NEW free, NEW counts, NEW hand, NEW total, Tree(free, counts, hand, total),
         NEW S \in SUBSET hand
  PROVE  LET after == FoldSet(ReturnMemory, [free |-> free, counts |-> counts], S)
         IN  Tree(after.free, after.counts, hand \ S, total)
<1> DEFINE h0 == [free |-> free, counts |-> counts]
           after == FoldSet(ReturnMemory, h0, S)
           Eqn(g) == g = [T \in SUBSET S |->
                            IF T = {} THEN h0
                            ELSE ReturnMemory(CHOOSE x \in T : TRUE,
                                              g[T \ {CHOOSE x \in T : TRUE}])]
           step == [y \in S \X Memory |-> ReturnMemory(y[1], y[2])]
<1>1. hand \subseteq NodeType /\ IsFiniteSet(S) /\ S \subseteq NodeType
  <2>1. IsFiniteSet(free \cup hand) /\ S \in SUBSET (free \cup hand)
    BY DEF Tree, Shape, TreeTyped, Tips
  <2> QED
    BY <2>1, FS_Subset DEF Tree, Shape, TreeTyped, Nodes, Tips
<1>2. h0 \in Memory
  <2>1. free \subseteq NodeType /\ DOMAIN counts \subseteq NodeType
        /\ counts = [p \in DOMAIN counts |-> counts[p]]
        /\ \A p \in DOMAIN counts : counts[p] \in Int
    BY DEF Tree, Shape, TreeTyped, Nodes, Tips, TreeCut
  <2>2. counts \in [DOMAIN counts -> Int]
    BY <2>1
  <2>3. counts \in UNION {[D -> Int] : D \in SUBSET NodeType}
    BY <2>1, <2>2
  <2> QED
    BY <2>1, <2>3 DEF Memory
<1>3. /\ step \in [S \X Memory -> Memory]
      /\ \A x \in S, h \in Memory : step[<<x, h>>] = ReturnMemory(x, h)
  BY <1>1, ReturnTyped
<1> HIDE DEF step, h0
<1>4. PICK f \in [SUBSET S -> Memory] : PickedEqn(f, S, h0, step)
  BY <1>1, <1>2, <1>3, PickedFold, Zenon
<1>5. Eqn(f)
  <2>1. ASSUME NEW T \in SUBSET S, T # {}
        PROVE  f[T] = ReturnMemory(Picked(T), f[T \ {Picked(T)}])
    <3>1. Picked(T) \in S /\ T \ {Picked(T)} \in SUBSET S
      BY <2>1 DEF Picked
    <3> QED
      BY <1>3, <1>4, <2>1, <3>1 DEF PickedEqn
  <2>2. f[{}] = h0
    BY <1>4 DEF PickedEqn
  <2>3. f = [T \in SUBSET S |-> IF T = {} THEN h0 ELSE ReturnMemory(Picked(T), f[T \ {Picked(T)}])]
    BY <1>4, <2>1, <2>2
  <2> QED
    BY <2>3 DEF Picked
<1> DEFINE g == CHOOSE g : Eqn(g)
<1>6. Eqn(g)
  BY <1>5, Zenon
<1>7. after = g[S]
  BY DEF FoldSet, MapThenFoldSet
<1> HIDE DEF g
<1>8. /\ g[{}] = h0
      /\ \A T \in SUBSET S : T # {} => g[T] = ReturnMemory(Picked(T), g[T \ {Picked(T)}])
  BY <1>6 DEF Picked
<1> DEFINE Done(T) == g[T] \in Memory /\ Tree(g[T].free, g[T].counts, hand \ T, total)
           Bad == {T \in SUBSET S : ~ Done(T)}
<1> HIDE DEF Eqn
<1>9. Bad = {}
  <2> SUFFICES ASSUME Bad # {} PROVE FALSE
    OBVIOUS
  <2>1. PICK T \in Bad : \A V \in SUBSET T : V # T => V \notin Bad
    <3>1. Bad \in SUBSET (SUBSET S)
      OBVIOUS
    <3> HIDE DEF Bad
    <3> QED
      BY <1>1, <3>1, LeastSet
  <2>2. T \in SUBSET S /\ ~ Done(T)
    OBVIOUS
  <2>3. T # {}
    <3>1. Done({})
      <4>1. hand \ {} = hand /\ h0.free = free /\ h0.counts = counts
        BY DEF h0
      <4> QED
        BY <1>2, <1>8, <4>1
    <3> QED
      BY <2>2, <3>1
  <2> DEFINE x == Picked(T)
             U == T \ {x}
  <2>4. x \in T
    BY <2>3 DEF Picked
  <2>5. U \in SUBSET S /\ Done(U)
    BY <2>1, <2>2, <2>4
  <2>6. g[U] = [free |-> g[U].free, counts |-> g[U].counts]
    BY <2>5 DEF Memory
  <2>7. g[T] = Returned(x, g[U].free, g[U].counts)
    BY <1>8, <2>2, <2>3, <2>6 DEF Returned
  <2>8. x \in hand \ U /\ (hand \ U) \ {x} = hand \ T /\ x \in NodeType
    BY <1>1, <2>2, <2>4
  <2> HIDE DEF x, U
  <2>9. Tree(g[T].free, g[T].counts, hand \ T, total)
    BY <2>5, <2>7, <2>8, ReturnKeepsTree
  <2>10. g[T] \in Memory
    BY <2>5, <2>6, <2>7, <2>8, ReturnTyped DEF Returned
  <2> QED
    BY <2>2, <2>9, <2>10
<1>10. Done(S)
  BY <1>9
<1> QED
  BY <1>7, <1>10 DEF h0

------------------------------------------------------------------------------
(* What alloc and release do to the forest.                                 *)

\* A free node goes into use as it is.
LEMMA TakeKeepsTree ==
  ASSUME NEW free, NEW counts, NEW hand, NEW total, Tree(free, counts, hand, total),
         NEW n \in free
  PROVE  Tree(free \ {n}, Taken(n, counts), hand \cup {n}, total)
<1> DEFINE after == Taken(n, counts)
           N == Nodes(free, counts, hand)
<1>1. /\ n \in Tips(free, hand) /\ n \in N /\ n \notin hand /\ Shape(free, counts, hand)
      /\ n \in NodeType /\ counts = [q \in DOMAIN counts |-> counts[q]]
  BY DEF Tree, Shape, TreeTyped, Tips, Nodes
<1>2. HasParent(n) => Front(n) \in DOMAIN counts /\ counts[Front(n)] \in Nat \ {0}
  BY <1>1, HalfOf
<1>3. /\ DOMAIN after = DOMAIN counts
      /\ after = [q \in DOMAIN after |-> after[q]]
      /\ \A p \in DOMAIN counts :
           after[p] = IF HasParent(n) /\ p = Front(n) THEN counts[p] + 1 ELSE counts[p]
  <2>1. CASE ~ HasParent(n)
    BY <1>1, <2>1 DEF Taken
  <2>2. CASE HasParent(n)
    <3> DEFINE f == Front(n)
    <3>1. /\ Count(f, counts) + 1 = counts[f] + 1 /\ counts[f] + 1 # 0
          /\ DOMAIN counts \cup {f} = DOMAIN counts
      BY <1>2, <2>2 DEF Count
    <3>2. after = [m \in DOMAIN counts |-> IF m = f THEN counts[f] + 1 ELSE counts[m]]
      BY <2>2, <3>1 DEF Taken, Counted
    <3> HIDE DEF after
    <3> QED
      BY <2>2, <3>2
  <2> QED
    BY <2>1, <2>2
<1> HIDE DEF after
<1>4. /\ Tips(free \ {n}, hand \cup {n}) = Tips(free, hand)
      /\ Nodes(free \ {n}, after, hand \cup {n}) = N
      /\ (free \ {n}) \cap (hand \cup {n}) = {}
  BY <1>1, <1>3 DEF Shape, TreeTyped, Tips, Nodes
<1>5. TreeCut(free \ {n}, after, hand \cup {n})
  <2> SUFFICES ASSUME NEW p \in DOMAIN counts
               PROVE  /\ after[p] \in Nat \ {0}
                      /\ \E c, d \in N :
                           /\ Halves(p, c, d) /\ PartsOf(p, N) = {c, d}
                           /\ after[p] = Busy(c, free \ {n}) + Busy(d, free \ {n})
    <3>1. DOMAIN after = DOMAIN counts /\ Nodes(free \ {n}, after, hand \cup {n}) = N
      BY <1>3, <1>4
    <3> HIDE DEF N
    <3> QED
      BY <3>1, ZenonT(30) DEF TreeCut
  <2>1. PICK c, d \in N : /\ Halves(p, c, d) /\ PartsOf(p, N) = {c, d}
                          /\ counts[p] = Busy(c, free) + Busy(d, free)
    BY <1>1 DEF Shape, TreeCut
  <2>2. counts[p] \in Nat \ {0} /\ c # d
    BY <1>1, <2>1 DEF Shape, TreeCut, Halves
  <2>3. CASE HasParent(n) /\ p = Front(n)
    <3>1. n \in {c, d} /\ after[p] = counts[p] + 1
      BY <1>1, <1>3, <2>1, <2>3 DEF PartsOf
    <3>2. after[p] = Busy(c, free \ {n}) + Busy(d, free \ {n})
      BY <1>1, <2>1, <2>2, <3>1 DEF Busy
    <3> QED
      BY <2>1, <2>2, <3>1, <3>2
  <2>4. CASE ~ (HasParent(n) /\ p = Front(n))
    <3>1. n # c /\ n # d /\ after[p] = counts[p]
      BY <1>3, <2>1, <2>4 DEF Halves
    <3>2. Busy(c, free \ {n}) = Busy(c, free) /\ Busy(d, free \ {n}) = Busy(d, free)
      BY <3>1 DEF Busy
    <3> QED
      BY <2>1, <2>2, <3>1, <3>2
  <2> QED
    BY <2>3, <2>4
<1>6. Shape(free \ {n}, after, hand \cup {n})
  BY <1>1, <1>3, <1>4, <1>5 DEF Shape, TreeTyped, TreeDepth, TreeClosed
<1>7. Places(free \ {n}, after, hand \cup {n}) /\ TreeSum(free \ {n}, hand \cup {n}, total)
  BY <1>4 DEF Tree, Places, TreeApart, TreeEnds, TreeAligned, TreeBlocks, TreeSum
<1>8. Tree(free \ {n}, after, hand \cup {n}, total)
  BY <1>6, <1>7 DEF Tree
<1> QED
  BY <1>8 DEF after

LEMMA MultipleMod ==
  ASSUME NEW m \in Nat \ {0}, NEW k \in Nat
  PROVE  (m * k) % m = 0
<1> DEFINE d == (m * k) \div m
           r == (m * k) % m
<1>1. m * k \in Nat /\ d \in Nat /\ r \in 0 .. m - 1 /\ m * k = m * d + r
  OBVIOUS
<1> HIDE DEF d, r
<1>2. m * (k - d) = r
  BY <1>1
<1>3. k - d >= 1 => m * (k - d) >= m
  BY <1>1
<1>4. k - d <= -1 => m * (k - d) <= -m
  BY <1>1
<1>5. k = d
  BY <1>1, <1>2, <1>3, <1>4
<1>6. r = 0
  BY <1>1, <1>2, <1>5
<1> QED
  BY <1>6 DEF r

LEMMA AlignedSum ==
  ASSUME NEW m \in Nat \ {0}, NEW i \in Nat, NEW j \in Nat, i % m = 0, j % m = 0
  PROVE  (i + j) % m = 0
<1>1. PICK k \in Nat : i = m * k
  OBVIOUS
<1>2. PICK l \in Nat : j = m * l
  OBVIOUS
<1>3. i + j = m * (k + l) /\ k + l \in Nat
  BY <1>1, <1>2
<1> QED
  BY <1>3, MultipleMod

LEMMA AlignedDifference ==
  ASSUME NEW m \in Nat \ {0}, NEW i \in Nat, NEW j \in Nat, i < j, i % m = 0, j % m = 0
  PROVE  m <= j - i
<1>1. PICK k \in Nat : i = m * k
  OBVIOUS
<1>2. PICK l \in Nat : j = m * l
  OBVIOUS
<1> QED
  BY <1>1, <1>2

LEMMA RoundUpFacts ==
  ASSUME NEW m \in Nat \ {0}, NEW i \in Nat
  PROVE  /\ RoundUp(i, m) \in Nat /\ RoundUp(i, m) % m = 0
         /\ i <= RoundUp(i, m) /\ RoundUp(i, m) < i + m
         /\ (i % m = 0 => RoundUp(i, m) = i)
         /\ \A j \in Nat : j % m = 0 /\ i <= j => RoundUp(i, m) <= j
<1> DEFINE q == (i + m - 1) \div m
<1>1. q \in Nat /\ RoundUp(i, m) = q * m
  BY DEF RoundUp
<1>2. q * m <= i + m - 1 /\ i + m - 1 < (q + 1) * m
  OBVIOUS
<1> HIDE DEF q
<1>3. (q + 1) * m = q * m + m /\ q * m \in Nat
  BY <1>1
<1>4. (q * m) % m = 0
  <2>1. q * m = m * q /\ (m * q) % m = 0
    BY <1>1, MultipleMod
  <2> QED
    BY <2>1
<1>5. i <= q * m /\ q * m < i + m
  BY <1>2, <1>3
<1>6. ASSUME NEW j \in Nat, j % m = 0, i <= j PROVE q * m <= j
  <2>1. PICK l \in Nat : j = m * l
    BY <1>6, SMTT(30)
  <2>2. m * l < q * m => m <= q * m - m * l
    BY <1>3, <1>4, <1>6, <2>1, AlignedDifference
  <2> QED
    BY <1>3, <1>5, <1>6, <2>1, <2>2
<1> QED
  BY <1>1, <1>3, <1>4, <1>5, <1>6

\* What of a node is past its first s bytes is cut off and becomes free; that may
\* be nothing if the node is the end of its block.
First(n, s) == Node(n, Extent(n).base, Extent(n).offset, s)
Second(n, s) == Node(n, Extent(n).base, Extent(n).offset + s, Extent(n).size - s)

LEMMA CutKeepsTree ==
  ASSUME NEW free, NEW counts, NEW hand, NEW total, Tree(free, counts, hand, total),
         NEW n \in hand, NEW s \in Nat \ {0}, s <= Extent(n).size, s % mAlign = 0,
         s = Extent(n).size => \A x \in Nodes(free, counts, hand) :
           Extent(x).base = Extent(n).base =>
             Extent(x).offset + SizeOf(x) <= Extent(n).offset + Extent(n).size
  PROVE  /\ Tree(free \cup {Second(n, s)}, Counted(n, 1, counts),
                 (hand \ {n}) \cup {First(n, s)}, total)
         /\ First(n, s) \in NodeType /\ First(n, s) \notin Nodes(free, counts, hand)
         /\ Second(n, s) \in NodeType /\ Second(n, s) \notin Nodes(free, counts, hand)
<1> DEFINE c == First(n, s)
           d == Second(n, s)
           free1 == free \cup {d}
           counts1 == Counted(n, 1, counts)
           hand1 == (hand \ {n}) \cup {c}
           N == Nodes(free, counts, hand)
           N1 == Nodes(free1, counts1, hand1)
           T == Tips(free, hand)
           T1 == Tips(free1, hand1)
           e == Extent(n)
<1>1. /\ Shape(free, counts, hand) /\ Places(free, counts, hand) /\ TreeSum(free, hand, total)
      /\ total \in Nat
  BY DEF Tree
<1>2. /\ N \subseteq NodeType /\ T \subseteq N /\ IsFiniteSet(T) /\ DOMAIN counts \subseteq N
      /\ free \subseteq T /\ hand \subseteq T /\ free \cap hand = {} /\ T \cap DOMAIN counts = {}
      /\ T = free \cup hand /\ N = T \cup DOMAIN counts
      /\ n \in N /\ n \in T /\ n \notin free /\ n \in NodeType /\ n \notin DOMAIN counts
  BY <1>1 DEF Shape, TreeTyped, Tips, Nodes
<1>3. e.base \in Blocks /\ e.offset \in Nat /\ e.size \in Nat /\ s <= e.size
  BY <1>2, NodeFacts DEF Extents
<1> DEFINE first == [base |-> e.base, offset |-> e.offset, size |-> s]
           second == [base |-> e.base, offset |-> e.offset + s, size |-> e.size - s]
<1>4. first \in Extents /\ second \in Extents
  BY <1>3 DEF Extents
<1>5. c = Append(n, first) /\ d = Append(n, second)
  BY DEF First, Second, Node
<1>6. /\ c \in NodeType /\ HasParent(c) /\ Front(c) = n /\ Extent(c) = first
      /\ Len(c) = Len(n) + 1 /\ Head(c) = Head(n) /\ Parents(c) = Parents(n) \cup {n}
      /\ d \in NodeType /\ HasParent(d) /\ Front(d) = n /\ Extent(d) = second
      /\ Len(d) = Len(n) + 1 /\ Head(d) = Head(n) /\ Parents(d) = Parents(n) \cup {n}
  <2> HIDE DEF c, d, first, second
  <2> QED
    BY <1>2, <1>4, <1>5, PartFacts
<1>7. /\ Extent(c).base = e.base /\ Extent(c).offset = e.offset /\ Extent(c).size = s
      /\ Extent(d).base = e.base /\ Extent(d).offset = e.offset + s /\ Extent(d).size = e.size - s
  BY <1>6
<1> HIDE DEF c, d, e, first, second
<1>8. c # d /\ Halves(n, c, d)
  <2>1. e.offset # e.offset + s /\ s + (e.size - s) = e.size
    BY <1>3
  <2> QED
    BY <1>6, <1>7, <2>1 DEF Halves, e
<1>9. c \notin N /\ d \notin N /\ PartsOf(n, N) = {}
  BY <1>1, <1>2, <1>6, HalfOf DEF PartsOf, N
<1>10. /\ DOMAIN counts1 = DOMAIN counts \cup {n}
       /\ counts1 = [q \in DOMAIN counts1 |-> counts1[q]]
       /\ counts1[n] = 1 /\ \A q \in DOMAIN counts : counts1[q] = counts[q]
  <2>1. Count(n, counts) + 1 = 1
    BY <1>2 DEF Count
  <2>2. counts1 = [q \in DOMAIN counts \cup {n} |-> IF q = n THEN 1 ELSE counts[q]]
    BY <2>1 DEF Counted
  <2> HIDE DEF counts1
  <2> QED
    BY <1>2, <2>2
<1> HIDE DEF counts1
<1>11. T1 = (T \ {n}) \cup {c, d} /\ N1 = N \cup {c, d}
  <2>1. T1 = (T \ {n}) \cup {c, d}
    BY <1>2 DEF Tips
  <2>2. N1 = T1 \cup (DOMAIN counts \cup {n})
    BY <1>10 DEF Nodes
  <2> QED
    BY <1>2, <2>1, <2>2, ZenonT(30)
<1> HIDE DEF N, N1, T, T1
<1>12. TreeTyped(free1, counts1, hand1)
  <2>1. IsFiniteSet(T1)
    <3>1. IsFiniteSet(T \ {n})
      BY <1>2, FS_Subset
    <3>2. IsFiniteSet((T \ {n}) \cup {c})
      BY <3>1, FS_AddElement
    <3>3. IsFiniteSet(((T \ {n}) \cup {c}) \cup {d})
      BY <3>2, FS_AddElement
    <3>4. T1 = ((T \ {n}) \cup {c}) \cup {d}
      BY <1>11
    <3> QED
      BY <3>3, <3>4
  <2>2. free1 \cap hand1 = {}
    BY <1>2, <1>8, <1>9
  <2>3. T1 \cap DOMAIN counts1 = {} /\ N1 \subseteq NodeType
    BY <1>2, <1>6, <1>9, <1>10, <1>11
  <2> QED
    BY <1>10, <2>1, <2>2, <2>3 DEF TreeTyped, T1, N1
<1>13. TreeDepth(free1, counts1, hand1)
  <2>1. PICK k \in Nat : \A x \in N : Len(x) <= k
    BY <1>1 DEF Shape, TreeDepth, N
  <2>2. \A x \in N : Len(x) \in Nat
    BY <1>2, NodeFacts
  <2>3. \A x \in N : Len(x) <= k + 1
    BY <2>1, <2>2
  <2>4. Len(c) <= k + 1 /\ Len(d) <= k + 1
    BY <1>2, <1>6, <2>1, <2>2
  <2>5. k + 1 \in Nat /\ \A x \in N1 : Len(x) <= k + 1
    BY <1>11, <2>3, <2>4
  <2> QED
    BY <2>5 DEF TreeDepth, N1
<1>14. TreeClosed(free1, counts1, hand1)
  <2>1. \A x \in N : Parents(x) \subseteq DOMAIN counts
    BY <1>1 DEF Shape, TreeClosed, N
  <2>2. \A x \in N1 : Parents(x) \subseteq DOMAIN counts1
    BY <1>2, <1>6, <1>10, <1>11, <2>1
  <2> QED
    BY <2>2 DEF TreeClosed, N1
<1>15. TreeCut(free1, counts1, hand1)
  <2> SUFFICES ASSUME NEW q \in DOMAIN counts1
               PROVE  /\ counts1[q] \in Nat \ {0}
                      /\ \E x, y \in N1 :
                           /\ Halves(q, x, y) /\ PartsOf(q, N1) = {x, y}
                           /\ counts1[q] = Busy(x, free1) + Busy(y, free1)
    BY DEF TreeCut, N1
  <2>1. CASE q = n
    <3>1. PartsOf(n, N1) = {c, d}
      BY <1>6, <1>9, <1>11 DEF PartsOf
    <3>2. Busy(c, free1) = 1 /\ Busy(d, free1) = 0
      BY <1>2, <1>8, <1>9 DEF Busy
    <3>3. counts1[q] = 1 /\ 1 = Busy(c, free1) + Busy(d, free1) /\ 1 \in Nat \ {0}
      BY <1>10, <2>1, <3>2
    <3>4. c \in N1 /\ d \in N1 /\ Halves(q, c, d) /\ PartsOf(q, N1) = {c, d}
      BY <1>8, <1>11, <2>1, <3>1
    <3> HIDE DEF free1
    <3> QED
      BY <3>3, <3>4
  <2>2. CASE q # n
    <3>1. q \in DOMAIN counts /\ counts1[q] = counts[q] /\ counts[q] \in Nat \ {0}
      BY <1>1, <1>10, <2>2 DEF Shape, TreeCut
    <3>2. PICK x, y \in N : /\ Halves(q, x, y) /\ PartsOf(q, N) = {x, y}
                            /\ counts[q] = Busy(x, free) + Busy(y, free)
      BY <1>1, <3>1 DEF Shape, TreeCut, N
    <3>3. PartsOf(q, N1) = {x, y}
      BY <1>6, <1>11, <2>2, <3>2 DEF PartsOf
    <3>4. Busy(x, free1) = Busy(x, free) /\ Busy(y, free1) = Busy(y, free)
      BY <1>9, <3>2 DEF Busy
    <3> QED
      BY <1>11, <3>1, <3>2, <3>3, <3>4
  <2> QED
    BY <2>1, <2>2
<1>16. TreeApart(free1, counts1, hand1)
  <2> SUFFICES ASSUME NEW x \in T1, NEW y \in T1, x # y PROVE Separate(x, y)
    BY DEF TreeApart, T1
  <2>1. \A u, v \in T : u # v => Separate(u, v)
    BY <1>1 DEF Places, TreeApart, T
  <2>2. ASSUME NEW z \in T \ {n}
        PROVE  /\ Separate(c, z) /\ Separate(z, c)
               /\ Separate(d, z) /\ Separate(z, d)
    <3>1. Separate(n, z) /\ Separate(z, n) /\ Extent(z) \in Extents
      BY <1>2, <2>1, NodeFacts
    <3>2. Extent(z).offset \in Nat /\ Extent(z).size \in Nat
      BY <3>1 DEF Extents
    <3> QED
      BY <1>3, <1>7, <3>1, <3>2 DEF Separate, Apart, e
  <2>3. Separate(c, d) /\ Separate(d, c)
    BY <1>3, <1>7 DEF Separate, Apart
  <2> QED
    BY <1>11, <2>1, <2>2, <2>3
<1>17. TreeEnds(free1, counts1, hand1)
  <2> SUFFICES ASSUME NEW x \in N1, NEW y \in N1, SizeOf(y) = 0, Extent(x).base = Extent(y).base
               PROVE  Extent(x).offset + SizeOf(x) <= Extent(y).offset
    BY DEF TreeEnds, N1
  <2>1. y \in N \/ (y = d /\ s = e.size)
    BY <1>3, <1>7, <1>11 DEF SizeOf
  <2>2. \A z \in N : Extent(z).base = Extent(y).base =>
                       Extent(z).offset + SizeOf(z) <= Extent(y).offset
    <3>1. CASE y \in N
      BY <1>1, <3>1 DEF Places, TreeEnds, N
    <3>2. CASE y = d /\ s = e.size
      BY <1>7, <3>2 DEF N, e
    <3> QED
      BY <2>1, <3>1, <3>2
  <2>3. CASE x \in N
    BY <2>2, <2>3
  <2>4. CASE x \in {c, d}
    <3>1. e.offset + e.size <= Extent(y).offset
      BY <1>2, <1>7, <2>2, <2>4 DEF SizeOf, e
    <3>2. Extent(y).offset \in Nat
      BY <1>2, <1>6, <2>1, NodeFacts DEF Extents
    <3> QED
      BY <1>3, <1>7, <2>4, <3>1, <3>2 DEF SizeOf
  <2> QED
    BY <1>11, <2>3, <2>4
<1>18. TreeAligned(free1, counts1, hand1)
  <2>1. \A x \in N : Extent(x).offset % mAlign = 0
    BY <1>1 DEF Places, TreeAligned, N
  <2>2. e.offset % mAlign = 0
    BY <1>2, <2>1 DEF e
  <2>3. (e.offset + s) % mAlign = 0
    BY <1>3, <2>2, AlignedSum, AlignAssumption
  <2>4. \A x \in N1 : Extent(x).offset % mAlign = 0
    BY <1>7, <1>11, <2>1, <2>2, <2>3
  <2> QED
    BY <2>4 DEF TreeAligned, N1
<1>19. Heads(T1) = Heads(T)
  BY <1>2, <1>6, <1>11 DEF Heads
<1>20. TreeBlocks(free1, counts1, hand1)
  <2>1. /\ \A x \in N : Head(x).base = Extent(x).base /\ Head(x) \in Heads(T)
        /\ \A x, y \in N : Head(x).base = Head(y).base => Head(x) = Head(y)
    BY <1>1 DEF Places, TreeBlocks, N, T
  <2>2. \A x \in N1 : Head(x).base = Extent(x).base /\ Head(x) \in Heads(T1)
    <3>1. Head(n).base = e.base /\ Head(n) \in Heads(T)
      BY <1>2, <2>1 DEF e
    <3>2. \A x \in {c, d} : Head(x).base = Extent(x).base /\ Head(x) \in Heads(T)
      BY <1>6, <1>7, <3>1
    <3> QED
      BY <1>11, <1>19, <2>1, <3>2
  <2>3. \A x \in N1 : \E y \in N : Head(x) = Head(y)
    BY <1>2, <1>6, <1>11
  <2>4. \A x, y \in N1 : Head(x).base = Head(y).base => Head(x) = Head(y)
    BY <2>1, <2>3
  <2> QED
    BY <2>2, <2>4 DEF TreeBlocks, N1, T1
<1>21. TreeSum(free1, hand1, total)
  <2> DEFINE rest == T \ {n}
  <2>1. rest \in SUBSET NodeType /\ IsFiniteSet(rest) /\ T \in SUBSET NodeType
        /\ c \notin rest /\ d \notin rest \cup {c}
    BY <1>2, <1>8, <1>9, FS_Subset
  <2>2. SizesOf(T) = SizeOf(n) + SizesOf(rest)
    BY <1>2, <2>1, SizesFacts
  <2>3. T1 = (rest \cup {c}) \cup {d}
    BY <1>11
  <2> HIDE DEF rest
  <2>4. SizesOf(rest \cup {c}) = SizeOf(c) + SizesOf(rest) /\ IsFiniteSet(rest \cup {c})
    BY <1>6, <2>1, SizesAdd
  <2>5. SizesOf(T1) = SizeOf(d) + SizesOf(rest \cup {c})
    <3>1. rest \cup {c} \in SUBSET NodeType
      BY <1>6, <2>1
    <3> QED
      BY <1>6, <2>1, <2>3, <2>4, <3>1, SizesAdd
  <2>6. SizesOf(rest) \in Nat
    BY <2>1, SizesFacts
  <2>7. SizeOf(c) = s /\ SizeOf(d) = e.size - s /\ SizeOf(n) = e.size
    BY <1>7 DEF SizeOf, e
  <2>8. SizesOf(T1) = SizesOf(T)
    BY <1>3, <2>2, <2>4, <2>5, <2>6, <2>7
  <2> QED
    BY <1>1, <1>19, <2>8 DEF TreeSum, T, T1
<1>22. Tree(free1, counts1, hand1, total)
  BY <1>1, <1>12, <1>13, <1>14, <1>15, <1>16, <1>17, <1>18, <1>20, <1>21
  DEF Tree, Shape, Places
<1> QED
  BY <1>6, <1>9, <1>22 DEF c, d, counts1, N

LEMMA HeadsFinite ==
  ASSUME NEW S, IsFiniteSet(S)
  PROVE  IsFiniteSet(Heads(S))
<1> DEFINE f == [n \in S |-> Head(n)]
<1>1. f \in Surjection(S, Heads(S))
  BY DEF Surjection, Heads
<1> HIDE DEF f
<1> QED
  BY <1>1, FS_Surjection

\* A block that was not held, in use as a whole.
Block(b, size) == Node(<<>>, b, 0, size)

LEMMA BlockKeepsTree ==
  ASSUME NEW free, NEW counts, NEW hand, NEW total, Tree(free, counts, hand, total),
         NEW b \in Blocks, b \notin {e.base : e \in Heads(Tips(free, hand))}, NEW size \in Nat
  PROVE  /\ Tree(free, counts, hand \cup {Block(b, size)}, total + size)
         /\ Block(b, size) \in NodeType /\ Block(b, size) \notin Nodes(free, counts, hand)
<1> DEFINE n == Block(b, size)
           e == [base |-> b, offset |-> 0, size |-> size]
           hand1 == hand \cup {n}
           N == Nodes(free, counts, hand)
           N1 == Nodes(free, counts, hand1)
           T == Tips(free, hand)
           T1 == Tips(free, hand1)
<1>1. /\ Shape(free, counts, hand) /\ Places(free, counts, hand) /\ TreeSum(free, hand, total)
      /\ total \in Nat
  BY DEF Tree
<1>2. /\ N \subseteq NodeType /\ T \subseteq N /\ IsFiniteSet(T) /\ DOMAIN counts \subseteq N
      /\ free \subseteq T /\ hand \subseteq T /\ free \cap hand = {} /\ T \cap DOMAIN counts = {}
      /\ counts = [p \in DOMAIN counts |-> counts[p]]
  BY <1>1 DEF Shape, TreeTyped, Tips, Nodes
<1>3. e \in Extents /\ e.base = b /\ e.offset = 0 /\ e.size = size
  BY DEF Extents
<1>4. /\ n \in NodeType /\ ~ HasParent(n) /\ Extent(n) = e /\ Len(n) = 1 /\ Head(n) = e
      /\ Parents(n) = {}
  <2>1. n = Append(<<>>, e)
    BY DEF Block, Node
  <2> HIDE DEF n, e
  <2> QED
    BY <1>3, <2>1, BlockFacts
<1> HIDE DEF n, e
<1>5. T1 = T \cup {n} /\ N1 = N \cup {n}
  BY DEF Tips, Nodes
<1> HIDE DEF N, N1, T, T1
<1>6. \A x \in N : Extent(x).base # b /\ Head(x).base # b /\ Head(x) \in Heads(T)
  BY <1>1 DEF Places, TreeBlocks, N, T
<1>7. n \notin N
  BY <1>3, <1>4, <1>6
<1>8. TreeTyped(free, counts, hand1)
  <2>1. IsFiniteSet(T1) /\ N1 \subseteq NodeType
    BY <1>2, <1>4, <1>5, FS_AddElement
  <2>2. free \cap hand1 = {} /\ T1 \cap DOMAIN counts = {}
    BY <1>2, <1>5, <1>7
  <2> QED
    BY <1>2, <2>1, <2>2 DEF TreeTyped, T1, N1
<1>9. TreeDepth(free, counts, hand1)
  <2>1. PICK k \in Nat : \A x \in N : Len(x) <= k
    BY <1>1 DEF Shape, TreeDepth, N
  <2>2. \A x \in N : Len(x) \in Nat
    BY <1>2, NodeFacts
  <2>3. k + 1 \in Nat /\ \A x \in N1 : Len(x) <= k + 1
    BY <1>4, <1>5, <2>1, <2>2
  <2> QED
    BY <2>3 DEF TreeDepth, N1
<1>10. TreeClosed(free, counts, hand1)
  BY <1>1, <1>4, <1>5 DEF Shape, TreeClosed, N, N1
<1>11. TreeCut(free, counts, hand1)
  <2> SUFFICES ASSUME NEW q \in DOMAIN counts
               PROVE  /\ counts[q] \in Nat \ {0}
                      /\ \E x, y \in N1 :
                           /\ Halves(q, x, y) /\ PartsOf(q, N1) = {x, y}
                           /\ counts[q] = Busy(x, free) + Busy(y, free)
    BY DEF TreeCut, N1
  <2>1. PartsOf(q, N1) = PartsOf(q, N)
    BY <1>4, <1>5 DEF PartsOf
  <2> QED
    BY <1>1, <1>5, <2>1 DEF Shape, TreeCut, N
<1>12. TreeApart(free, counts, hand1)
  <2>1. \A x, y \in T : x # y => Separate(x, y)
    BY <1>1 DEF Places, TreeApart, T
  <2>2. \A x \in T : Separate(x, n) /\ Separate(n, x)
    BY <1>2, <1>3, <1>4, <1>6 DEF Separate, Apart
  <2>3. \A x, y \in T1 : x # y => Separate(x, y)
    BY <1>5, <2>1, <2>2
  <2> QED
    BY <2>3 DEF TreeApart, T1
<1>13. TreeEnds(free, counts, hand1)
  <2> SUFFICES ASSUME NEW x \in N1, NEW y \in N1, SizeOf(y) = 0, Extent(x).base = Extent(y).base
               PROVE  Extent(x).offset + SizeOf(x) <= Extent(y).offset
    BY DEF TreeEnds, N1
  <2>1. CASE x \in N /\ y \in N
    BY <1>1, <2>1 DEF Places, TreeEnds, N
  <2>2. CASE x = n /\ y = n
    BY <1>3, <1>4, <2>2 DEF SizeOf
  <2> QED
    BY <1>3, <1>4, <1>5, <1>6, <2>1, <2>2
<1>14. TreeAligned(free, counts, hand1)
  <2>1. Extent(n).offset % mAlign = 0
    BY <1>3, <1>4, AlignAssumption
  <2> QED
    BY <1>1, <1>5, <2>1 DEF Places, TreeAligned, N, N1
<1>15. Heads(T1) = Heads(T) \cup {e} /\ e \notin Heads(T)
  BY <1>2, <1>3, <1>4, <1>5, <1>6 DEF Heads
<1>16. TreeBlocks(free, counts, hand1)
  <2>1. /\ \A x \in N : Head(x).base = Extent(x).base /\ Head(x) \in Heads(T)
        /\ \A x, y \in N : Head(x).base = Head(y).base => Head(x) = Head(y)
    BY <1>1 DEF Places, TreeBlocks, N, T
  <2>2. \A x \in N1 : Head(x).base = Extent(x).base /\ Head(x) \in Heads(T1)
    BY <1>4, <1>5, <1>15, <2>1
  <2>3. \A x, y \in N1 : Head(x).base = Head(y).base => Head(x) = Head(y)
    BY <1>3, <1>4, <1>5, <1>6, <2>1
  <2> QED
    BY <2>2, <2>3 DEF TreeBlocks, N1, T1
<1>17. TreeSum(free, hand1, total + size)
  <2>1. SizesOf(T1) = SizeOf(n) + SizesOf(T)
    <3>1. T \in SUBSET NodeType /\ n \notin T
      BY <1>2, <1>7
    <3> QED
      BY <1>2, <1>4, <1>5, <3>1, SizesAdd
  <2>2. Heads(T) \in SUBSET Extents /\ IsFiniteSet(Heads(T))
    <3>1. Heads(T) \in SUBSET Extents
      BY <1>2, NodeFacts DEF Heads
    <3>2. IsFiniteSet(Heads(T))
      BY <1>2, HeadsFinite
    <3> QED
      BY <3>1, <3>2
  <2>3. SizesOfBlocks(Heads(T1)) = SizeOfBlock(e) + SizesOfBlocks(Heads(T))
    BY <1>3, <1>15, <2>2, BlockSizesAdd
  <2>4. SizeOf(n) = size /\ SizeOfBlock(e) = size
    BY <1>3, <1>4 DEF SizeOf, SizeOfBlock
  <2> QED
    BY <1>1, <2>1, <2>3, <2>4 DEF TreeSum, T, T1
<1>18. Tree(free, counts, hand1, total + size)
  BY <1>1, <1>8, <1>9, <1>10, <1>11, <1>12, <1>13, <1>14, <1>16, <1>17
  DEF Tree, Shape, Places
<1> QED
  BY <1>4, <1>7, <1>18 DEF n, N

LEMMA EmptyTree == Tree({}, <<>>, {}, 0)
<1>1. Tips({}, {}) = {} /\ DOMAIN <<>> = {} /\ Nodes({}, <<>>, {}) = {} /\ Heads({}) = {}
  BY DEF Tips, Nodes, Heads
<1>2. <<>> = [p \in DOMAIN <<>> |-> <<>>[p]]
  OBVIOUS
<1>3. Shape({}, <<>>, {}) /\ Places({}, <<>>, {})
  BY <1>1, <1>2, FS_EmptySet
  DEF Shape, TreeTyped, TreeDepth, TreeClosed, TreeCut, Places, TreeApart, TreeEnds,
      TreeAligned, TreeBlocks
<1>4. SizesOf({}) = 0 /\ SizesOfBlocks({}) = 0
  BY FS_EmptySet, SizesFacts, BlockSizesFacts
<1> QED
  BY <1>1, <1>3, <1>4 DEF Tree, TreeSum

\* Nothing else is in the block of a whole leaf.
LEMMA AloneInBlock ==
  ASSUME NEW free, NEW counts, NEW hand, Shape(free, counts, hand),
         NEW n \in Tips(free, hand), ~ HasParent(n),
         NEW x \in Nodes(free, counts, hand), Head(x) = Head(n)
  PROVE  x = n
<1>1. n \in NodeType /\ x \in NodeType /\ n \notin DOMAIN counts
  BY DEF Shape, TreeTyped, Nodes
<1>2. n = <<Head(n)>>
  BY <1>1, NodeFacts
<1>3. CASE ~ HasParent(x)
  BY <1>1, <1>2, <1>3, NodeFacts
<1>4. CASE HasParent(x)
  <2>1. x \in Seq(Extents) /\ x # <<>> /\ Len(x) \in Nat /\ Len(x) > 1 /\ x[1] = Head(x)
    <3>1. x \in Seq(Extents) /\ x # <<>>
      BY <1>1 DEF NodeType
    <3>2. Len(x) > 1
      BY <1>4 DEF HasParent
    <3> QED
      BY <3>1, <3>2, LenProperties
  <2>2. SubSeq(x, 1, 1) = <<x[1]>>
    <3>1. x[1] \in Extents
      BY <2>1, ElementOfSeq
    <3>2. \A i \in 1 .. 1 : x[i] \in Extents
      BY <3>1
    <3>3. /\ SubSeq(x, 1, 1) \in Seq(Extents) /\ Len(SubSeq(x, 1, 1)) = 1
          /\ SubSeq(x, 1, 1)[1] = x[1]
      BY <3>2, SubSeqProperties
    <3>4. <<x[1]>> \in Seq(Extents) /\ Len(<<x[1]>>) = 1 /\ <<x[1]>>[1] = x[1]
      BY <3>1
    <3> DEFINE u == SubSeq(x, 1, 1)
               v == <<x[1]>>
    <3>5. \A i \in 1 .. Len(u) : u[i] = v[i]
      BY <3>3, <3>4
    <3> HIDE DEF u, v
    <3>6. u = v
      BY <3>3, <3>4, <3>5, SeqEqual DEF u, v
    <3> QED
      BY <3>6 DEF u, v
  <2>3. SubSeq(x, 1, 1) \in Parents(x)
    BY <2>1 DEF Parents
  <2>4. SubSeq(x, 1, 1) \in DOMAIN counts
    BY <2>3 DEF Shape, TreeClosed
  <2> QED
    BY <1>1, <1>2, <2>1, <2>2, <2>4
<1> QED
  BY <1>3, <1>4

LEMMA ReleaseKeepsTree ==
  ASSUME NEW free, NEW counts, NEW hand, NEW total, Tree(free, counts, hand, total),
         NEW n \in free, ~ HasParent(n)
  PROVE  Tree(free \ {n}, counts, hand, total - SizeOf(n)) /\ n \in NodeType
<1> DEFINE free1 == free \ {n}
           N == Nodes(free, counts, hand)
           N1 == Nodes(free1, counts, hand)
           T == Tips(free, hand)
           T1 == Tips(free1, hand)
<1>1. /\ Shape(free, counts, hand) /\ Places(free, counts, hand) /\ TreeSum(free, hand, total)
      /\ total \in Nat
  BY DEF Tree
<1>2. /\ N \subseteq NodeType /\ T \subseteq N /\ IsFiniteSet(T) /\ DOMAIN counts \subseteq N
      /\ free \subseteq T /\ hand \subseteq T /\ free \cap hand = {} /\ T \cap DOMAIN counts = {}
      /\ counts = [p \in DOMAIN counts |-> counts[p]] /\ n \in T /\ n \in N /\ n \in NodeType
  BY <1>1 DEF Shape, TreeTyped, Tips, Nodes
<1>3. T1 = T \ {n} /\ N1 = N \ {n}
  <2>1. T1 = T \ {n}
    BY <1>2 DEF Tips
  <2>2. N = T \cup DOMAIN counts /\ N1 = T1 \cup DOMAIN counts
    BY DEF Nodes
  <2> HIDE DEF N, N1, T1, T
  <2> QED
    BY <1>2, <2>1, <2>2
<1>4. \A x \in N1 : x # n /\ Head(x) # Head(n)
  BY <1>1, <1>2, <1>3, AloneInBlock
<1> HIDE DEF N, N1, T, T1
<1>5. TreeTyped(free1, counts, hand)
  <2>1. IsFiniteSet(T1)
    BY <1>2, <1>3, FS_Subset
  <2> QED
    BY <1>2, <1>3, <2>1 DEF TreeTyped, T1, N1
<1>6. TreeDepth(free1, counts, hand) /\ TreeClosed(free1, counts, hand)
  BY <1>1, <1>3 DEF Shape, TreeDepth, TreeClosed, N, N1
<1>7. TreeCut(free1, counts, hand)
  <2> SUFFICES ASSUME NEW q \in DOMAIN counts
               PROVE  /\ counts[q] \in Nat \ {0}
                      /\ \E x, y \in N1 :
                           /\ Halves(q, x, y) /\ PartsOf(q, N1) = {x, y}
                           /\ counts[q] = Busy(x, free1) + Busy(y, free1)
    BY DEF TreeCut, N1
  <2>1. PICK x, y \in N : /\ Halves(q, x, y) /\ PartsOf(q, N) = {x, y}
                          /\ counts[q] = Busy(x, free) + Busy(y, free)
    BY <1>1 DEF Shape, TreeCut, N
  <2>2. x # n /\ y # n
    BY <2>1 DEF Halves
  <2>3. PartsOf(q, N1) = {x, y} /\ x \in N1 /\ y \in N1
    BY <1>3, <2>1, <2>2 DEF PartsOf
  <2>4. Busy(x, free1) = Busy(x, free) /\ Busy(y, free1) = Busy(y, free)
    BY <2>2 DEF Busy
  <2>5. counts[q] \in Nat \ {0}
    BY <1>1 DEF Shape, TreeCut
  <2> QED
    BY <2>1, <2>3, <2>4, <2>5
<1>8. TreeApart(free1, counts, hand) /\ TreeEnds(free1, counts, hand)
      /\ TreeAligned(free1, counts, hand)
  BY <1>1, <1>3 DEF Places, TreeApart, TreeEnds, TreeAligned, N, N1, T, T1
<1>9. Heads(T1) = Heads(T) \ {Head(n)}
  <2>1. \A x \in T1 : Head(x) # Head(n)
    BY <1>2, <1>3, <1>4
  <2> QED
    BY <1>3, <2>1 DEF Heads
<1>10. TreeBlocks(free1, counts, hand)
  <2>1. /\ \A x \in N : Head(x).base = Extent(x).base /\ Head(x) \in Heads(T)
        /\ \A x, y \in N : Head(x).base = Head(y).base => Head(x) = Head(y)
    BY <1>1 DEF Places, TreeBlocks, N, T
  <2>2. \A x \in N1 : Head(x).base = Extent(x).base /\ Head(x) \in Heads(T1)
    BY <1>3, <1>4, <1>9, <2>1
  <2>3. \A x, y \in N1 : Head(x).base = Head(y).base => Head(x) = Head(y)
    BY <1>3, <2>1
  <2> QED
    BY <2>2, <2>3 DEF TreeBlocks, N1, T1
<1>11. TreeSum(free1, hand, total - SizeOf(n)) /\ total - SizeOf(n) \in Nat
  <2>1. SizesOf(T) = SizeOf(n) + SizesOf(T1) /\ SizeOf(n) \in Nat /\ SizesOf(T1) \in Nat
    <3>1. T \in SUBSET NodeType /\ T1 \in SUBSET NodeType /\ IsFiniteSet(T1)
      BY <1>2, <1>3, FS_Subset
    <3> QED
      BY <1>2, <1>3, <3>1, SizesFacts
  <2>2. Heads(T) \in SUBSET Extents /\ IsFiniteSet(Heads(T)) /\ Head(n) \in Heads(T)
    <3>1. Heads(T) \in SUBSET Extents /\ Head(n) \in Heads(T)
      BY <1>2, NodeFacts DEF Heads
    <3> QED
      BY <1>2, <3>1, HeadsFinite
  <2>3. SizesOfBlocks(Heads(T)) = SizeOfBlock(Head(n)) + SizesOfBlocks(Heads(T1))
        /\ SizesOfBlocks(Heads(T1)) \in Nat
    <3>1. Heads(T1) \in SUBSET Extents /\ IsFiniteSet(Heads(T1))
      BY <1>9, <2>2, FS_Subset
    <3> QED
      BY <1>9, <2>2, <3>1, BlockSizesFacts
  <2>4. SizeOf(n) = SizeOfBlock(Head(n))
    BY <1>2, NodeFacts DEF SizeOf, SizeOfBlock
  <2>5. SizesOf(T) = total /\ SizesOfBlocks(Heads(T)) = total
    BY <1>1 DEF TreeSum, T
  <2>6. SizesOf(T1) = total - SizeOf(n) /\ SizesOfBlocks(Heads(T1)) = total - SizeOf(n)
    BY <1>1, <2>1, <2>3, <2>4, <2>5
  <2> QED
    BY <1>1, <2>1, <2>6 DEF TreeSum, T1
<1> QED
  BY <1>2, <1>5, <1>6, <1>7, <1>8, <1>10, <1>11 DEF Tree, Shape, Places

\* Several whole blocks.
LEMMA ReleaseAllKeepsTree ==
  ASSUME NEW free, NEW counts, NEW hand, NEW total, Tree(free, counts, hand, total),
         NEW W \in SUBSET free, \A n \in W : ~ HasParent(n)
  PROVE  Tree(free \ W, counts, hand, total - SizesOf(W))
<1> DEFINE Bad == {U \in SUBSET W : ~ Tree(free \ U, counts, hand, total - SizesOf(U))}
<1>1. W \in SUBSET NodeType /\ IsFiniteSet(W) /\ total \in Nat
  <2>1. IsFiniteSet(free \cup hand) /\ W \in SUBSET (free \cup hand)
    BY DEF Tree, Shape, TreeTyped, Tips
  <2> QED
    BY <2>1, FS_Subset DEF Tree, Shape, TreeTyped, Nodes, Tips
<1>2. Bad = {}
  <2> SUFFICES ASSUME Bad # {} PROVE FALSE
    OBVIOUS
  <2>1. PICK U \in Bad : \A V \in SUBSET U : V # U => V \notin Bad
    <3>1. Bad \in SUBSET (SUBSET W)
      OBVIOUS
    <3> HIDE DEF Bad
    <3> QED
      BY <1>1, <3>1, LeastSet
  <2>2. U \in SUBSET W /\ ~ Tree(free \ U, counts, hand, total - SizesOf(U))
    OBVIOUS
  <2>3. U \in SUBSET NodeType /\ IsFiniteSet(U)
    BY <1>1, <2>2, FS_Subset
  <2>4. CASE U = {}
    <3>1. SizesOf({}) = 0 /\ free \ {} = free /\ total - 0 = total
      BY <1>1, <2>3, <2>4, SizesFacts
    <3> QED
      BY <2>2, <2>4, <3>1
  <2>5. CASE U # {}
    <3>1. PICK n \in U : TRUE
      BY <2>5
    <3> DEFINE V == U \ {n}
    <3>2. Tree(free \ V, counts, hand, total - SizesOf(V))
      BY <2>1, <2>2, <3>1
    <3>3. SizesOf(U) = SizeOf(n) + SizesOf(V) /\ SizeOf(n) \in Nat
      BY <2>3, <3>1, SizesFacts
    <3>4. SizesOf(V) \in Nat
      <4>1. V \in SUBSET NodeType /\ IsFiniteSet(V)
        BY <2>3, FS_Subset
      <4> HIDE DEF V
      <4> QED
        BY <4>1, SizesFacts
    <3>5. n \in free \ V /\ (free \ V) \ {n} = free \ U /\ ~ HasParent(n)
      BY <2>2, <3>1
    <3> HIDE DEF V
    <3>6. Tree((free \ V) \ {n}, counts, hand, (total - SizesOf(V)) - SizeOf(n))
      BY <3>2, <3>5, ReleaseKeepsTree
    <3>7. (total - SizesOf(V)) - SizeOf(n) = total - SizesOf(U)
      BY <1>1, <3>3, <3>4
    <3> QED
      BY <2>2, <3>5, <3>6, <3>7
  <2> QED
    BY <2>4, <2>5
<1> QED
  BY <1>2

------------------------------------------------------------------------------
(* Where a chunk lies in its node.                                          *)

LEMMA AlignedFurther ==
  ASSUME NEW i \in Nat, NEW m \in Nat \ {0}, NEW k \in Nat \ {0}, i % m = 0, m % k = 0
  PROVE  i % k = 0
<1>1. PICK l \in Nat : i = m * l
  OBVIOUS
<1>2. PICK j \in Nat : m = k * j
  OBVIOUS
<1>3. i = k * (j * l) /\ j * l \in Nat
  BY <1>1, <1>2
<1> QED
  BY <1>3, MultipleMod

\* The address in node n of a chunk with this alignment.
At(n, align) == IF NeedExtra(align) THEN RoundUp(Extent(n).offset, align) ELSE Extent(n).offset
\* What a part of n for the chunk must have.
Cut(size, n, align) == RoundUp(Shifted(size, n, align), mAlign)

LEMMA AtFacts ==
  ASSUME NEW n \in NodeType, Extent(n).offset % mAlign = 0,
         NEW size \in Nat \ {0}, NEW align \in Nat \ {0}, Extent(n).size >= Enough(size, align)
  PROVE  /\ At(n, align) \in Nat /\ At(n, align) % align = 0
         /\ Within(At(n, align), size, n)
         /\ Cut(size, n, align) \in Nat \ {0} /\ Cut(size, n, align) % mAlign = 0
         /\ At(n, align) + size <= Extent(n).offset + Cut(size, n, align)
<1> DEFINE o == Extent(n).offset
           at == At(n, align)
           s == Shifted(size, n, align)
<1>1. o \in Nat /\ Extent(n).size \in Nat /\ o % mAlign = 0
  BY NodeFacts DEF Extents
<1>2. CASE NeedExtra(align)
  <2>1. at = RoundUp(o, align) /\ s = size + at - o
    BY <1>2 DEF At, Shifted
  <2>2. at \in Nat /\ at % align = 0 /\ o <= at /\ at < o + align
    <3> HIDE DEF o, at
    <3>1. /\ RoundUp(o, align) \in Nat /\ RoundUp(o, align) % align = 0
          /\ o <= RoundUp(o, align) /\ RoundUp(o, align) < o + align
      BY <1>1, RoundUpFacts
    <3> QED
      BY <2>1, <3>1
  <2>3. s \in Nat \ {0} /\ at + size = o + s
    BY <1>1, <2>1, <2>2
  <2>4. at + size <= o + Extent(n).size
    <3>1. Extent(n).size >= size + align - 1
      BY <1>2 DEF Enough
    <3> QED
      BY <1>1, <2>2, <3>1
  <2>5. Cut(size, n, align) \in Nat /\ Cut(size, n, align) % mAlign = 0
        /\ s <= Cut(size, n, align)
    BY <2>3, AlignAssumption, RoundUpFacts DEF Cut
  <2> HIDE DEF at, s
  <2>6. Cut(size, n, align) \in Nat \ {0} /\ at + size <= o + Cut(size, n, align)
    BY <1>1, <2>3, <2>5
  <2> QED
    BY <2>2, <2>4, <2>5, <2>6 DEF Within, at
<1>3. CASE ~ NeedExtra(align)
  <2>1. at = o /\ s = size /\ mAlign % align = 0
    BY <1>3 DEF At, Shifted, NeedExtra
  <2>2. at % align = 0
    BY <1>1, <2>1, AlignAssumption, AlignedFurther
  <2>3. at + size <= o + Extent(n).size
    <3>1. Extent(n).size >= size
      BY <1>3 DEF Enough
    <3> QED
      BY <1>1, <2>1, <3>1
  <2>4. Cut(size, n, align) \in Nat /\ Cut(size, n, align) % mAlign = 0
        /\ size <= Cut(size, n, align)
    BY <2>1, AlignAssumption, RoundUpFacts DEF Cut
  <2> HIDE DEF at, s
  <2>5. Cut(size, n, align) \in Nat \ {0} /\ at + size <= o + Cut(size, n, align)
    BY <1>1, <2>1, <2>4
  <2> QED
    BY <1>1, <2>1, <2>2, <2>3, <2>4, <2>5 DEF Within, at
<1> QED
  BY <1>2, <1>3

\* Chunks of separate nodes.
LEMMA InSeparateNodes ==
  ASSUME NEW c \in Chunks, NEW d \in Chunks, NEW n \in NodeType, NEW m \in NodeType,
         InNode(c, n), InNode(d, m), Separate(n, m)
  PROVE  ApartChunks(c, d) /\ c.chunk # d.chunk
<1>1. /\ c.chunk[1] \in Blocks /\ c.chunk[2] \in Nat /\ c.size \in Nat \ {0}
      /\ d.chunk[1] \in Blocks /\ d.chunk[2] \in Nat /\ d.size \in Nat \ {0}
  BY DEF Chunks
<1>2. /\ Extent(n).offset \in Nat /\ Extent(n).size \in Nat
      /\ Extent(m).offset \in Nat /\ Extent(m).size \in Nat
  BY NodeFacts DEF Extents
<1>3. ApartChunks(c, d)
  BY <1>1, <1>2 DEF InNode, Within, Separate, ApartChunks, Apart
<1>4. c.chunk = d.chunk => c.chunk[1] = d.chunk[1] /\ c.chunk[2] = d.chunk[2]
  OBVIOUS
<1>5. ~ (c.chunk[1] = d.chunk[1] /\ c.chunk[2] = d.chunk[2])
  BY <1>1, <1>3 DEF ApartChunks, Apart
<1> QED
  BY <1>3, <1>4, <1>5

------------------------------------------------------------------------------
(* The invariant.                                                           *)

LEMMA UsedFacts ==
  ASSUME NEW chunk, NEW n, chunk \notin DOMAIN mUsedList
  PROVE  LET after == Use(chunk, n) IN
         /\ after = [k \in DOMAIN after |-> after[k]]
         /\ DOMAIN after = DOMAIN mUsedList \cup {chunk}
         /\ after[chunk] = n /\ \A k \in DOMAIN mUsedList : after[k] = mUsedList[k]
         /\ Range(after) = Range(mUsedList) \cup {n}
BY DEF Use, Range

LEMMA UnusedFacts ==
  ASSUME NEW used, NEW chunk
  PROVE  LET after == Restrict(used, DOMAIN used \ {chunk}) IN
         /\ after = [k \in DOMAIN after |-> after[k]] /\ DOMAIN after = DOMAIN used \ {chunk}
         /\ \A k \in DOMAIN after : after[k] = used[k]
BY DEF Restrict

LEMMA InvFacts ==
  ASSUME Inv
  PROVE  /\ InHand \subseteq NodeType /\ mFreeList \subseteq NodeType
         /\ mFreeList \cap InHand = {} /\ DOMAIN useCount \cap (mFreeList \cup InHand) = {}
         /\ \A n, m \in mFreeList \cup InHand : n # m => Separate(n, m)
         /\ \A n \in mFreeList \cup InHand : Extent(n).offset % mAlign = 0
         /\ Range(mUsedList) = {NodeOf(c) : c \in live} /\ Range(mUsedList) \cap Grouped = {}
         /\ \A c \in live : NodeOf(c) \in InHand /\ c.chunk \in DOMAIN mUsedList
         /\ \A c, d \in live : c.chunk = d.chunk => c = d
         /\ Len(mGroups) \in Nat /\ DOMAIN mGroups = 1 .. Len(mGroups)
         /\ Grouped = UNION {mGroups[i] : i \in DOMAIN mGroups}
         /\ Leaves = Tips(mFreeList, InHand) /\ Held = Heads(Leaves)
         /\ use.mMinAllocSize \in Nat /\ use.mMinAllocSize % mAlign = 0
         /\ mCurrentFreeList # NoGroup => /\ mCurrentFreeList \in DOMAIN mGroups
                                          /\ barrier /\ use.mMinAllocSize = 0
<1>1. /\ InHand \subseteq NodeType /\ mFreeList \subseteq NodeType
      /\ mFreeList \cap InHand = {} /\ DOMAIN useCount \cap (mFreeList \cup InHand) = {}
      /\ \A n, m \in mFreeList \cup InHand : n # m => Separate(n, m)
      /\ \A n \in mFreeList \cup InHand : Extent(n).offset % mAlign = 0
  BY DEF Inv, ForestInv, Tree, Shape, TreeTyped, Places, TreeApart, TreeAligned, Nodes, Tips
<1>2. DOMAIN mUsedList = {c.chunk : c \in live}
  BY DEF Inv, OwnersInv
<1>3. /\ Range(mUsedList) = {NodeOf(c) : c \in live}
      /\ \A c \in live : NodeOf(c) \in InHand /\ c.chunk \in DOMAIN mUsedList
      /\ \A c, d \in live : c.chunk = d.chunk => c = d
      /\ Range(mUsedList) \cap Grouped = {}
  <2>1. Range(mUsedList) = {NodeOf(c) : c \in live}
    BY <1>2 DEF Range, NodeOf
  <2>2. \A c \in live : NodeOf(c) \notin Grouped
    BY DEF Inv, OwnersInv
  <2>3. \A c, d \in live : NodeOf(c) = NodeOf(d) => c = d
    BY DEF Inv, OwnersInv
  <2> QED
    BY <1>2, <2>1, <2>2, <2>3 DEF InHand, NodeOf
<1>4. Len(mGroups) \in Nat /\ DOMAIN mGroups = 1 .. Len(mGroups)
  BY LenProperties DEF Inv, TypeInv
<1>5. Grouped = UNION {mGroups[i] : i \in DOMAIN mGroups}
  BY DEF Grouped, ToSet
<1>6. Leaves = Tips(mFreeList, InHand) /\ Held = Heads(Leaves)
  BY DEF Leaves, Tips, InHand, Grouped, Held, Heads
<1>7. use \in Uses /\ use.mMinAllocSize \in Nat /\ use.mMinAllocSize % mAlign = 0
      /\ use.threads \in Nat
      /\ (use.threads > 0 => use.mMinAllocSize = 0)
  BY UsesAssumption DEF Inv, TypeInv
<1>8. ASSUME mCurrentFreeList # NoGroup
      PROVE  /\ mCurrentFreeList \in DOMAIN mGroups
             /\ barrier /\ use.mMinAllocSize = 0
  <2>1. mCurrentFreeList \in 0 .. Len(mGroups) /\ mCurrentFreeList # 0
    BY <1>8 DEF Inv, TypeInv, NoGroup
  <2>2. mCurrentFreeList \in 1 .. Len(mGroups)
    BY <1>4, <2>1
  <2>3. barrier
    <3>1. Len(<<>>) = 0
      OBVIOUS
    <3>2. mGroups # <<>>
      BY <2>2, <3>1
    <3> QED
      BY <3>2 DEF Inv, TypeInv
  <2>4. use.threads > 0
    BY <2>3 DEF Inv, TypeInv
  <2> QED
    BY <1>4, <1>7, <2>2, <2>3, <2>4
<1> QED
  BY <1>1, <1>3, <1>4, <1>5, <1>6, <1>7, <1>8

\* The groups without node n in the current one.
GroupsWithout(n) == [mGroups EXCEPT ![mCurrentFreeList] = @ \ {n}]

\* A chunk goes out that lies in node m, which was in no chunk's use.
LEMMA AllocStep ==
  ASSUME Inv, NEW size \in Nat \ {0}, NEW align \in Nat \ {0}, NEW chunk \in Blocks \X Nat,
         NEW m, chunk[1] = Extent(m).base, Within(chunk[2], size, m), chunk[2] % align = 0,
         \A c \in live : chunk # c.chunk, m \notin Range(mUsedList),
         Remember(chunk, size, align), mUsedList' = Use(chunk, m),
         \/ UNCHANGED mGroups /\ m \notin Grouped
         \/ /\ mCurrentFreeList # NoGroup /\ m \in mGroups[mCurrentFreeList]
            /\ mGroups' = GroupsWithout(m),
         UNCHANGED <<use, mCurrentFreeList, barrier, retired>>
  PROVE  /\ TypeInv' /\ OwnersInv' /\ InsideInv' /\ KeptInv'
         /\ InHand' = InHand \cup {m}
<1> DEFINE new == [chunk |-> chunk, size |-> size, align |-> align, group |-> mCurrentFreeList]
           i == mCurrentFreeList
<1>1. live' = live \cup {new} /\ new \notin live
  BY DEF Remember
<1>2. TypeInv /\ OwnersInv /\ InsideInv /\ KeptInv
  BY DEF Inv
<1>3. /\ DOMAIN mUsedList = {c.chunk : c \in live}
      /\ mUsedList = [k \in DOMAIN mUsedList |-> mUsedList[k]]
  BY <1>2 DEF TypeInv, OwnersInv
<1>4. chunk \notin DOMAIN mUsedList
  BY <1>3
<1>5. /\ mUsedList' = [k \in DOMAIN mUsedList' |-> mUsedList'[k]]
      /\ DOMAIN mUsedList' = DOMAIN mUsedList \cup {chunk}
      /\ mUsedList'[chunk] = m /\ \A k \in DOMAIN mUsedList : mUsedList'[k] = mUsedList[k]
      /\ Range(mUsedList') = Range(mUsedList) \cup {m}
  <2> DEFINE after == Use(chunk, m)
  <2>1. /\ after = [k \in DOMAIN after |-> after[k]]
        /\ DOMAIN after = DOMAIN mUsedList \cup {chunk}
        /\ after[chunk] = m /\ \A k \in DOMAIN mUsedList : after[k] = mUsedList[k]
        /\ Range(after) = Range(mUsedList) \cup {m}
    BY <1>4, UsedFacts
  <2>2. mUsedList' = after
    OBVIOUS
  <2> HIDE DEF after
  <2> QED
    BY <2>1, <2>2
<1>6. /\ Len(mGroups') = Len(mGroups) /\ DOMAIN mGroups' = DOMAIN mGroups
      /\ mGroups' \in Seq(SUBSET NodeType)
      /\ \A j \in DOMAIN mGroups : /\ mGroups'[j] \subseteq mGroups[j] /\ m \notin mGroups'[j]
                                   /\ mGroups[j] \subseteq mGroups'[j] \cup {m}
                                   /\ m \in mGroups[j] => j = i
      /\ i \in 0 .. Len(mGroups)
  <2>1. mGroups \in Seq(SUBSET NodeType) /\ i \in 0 .. Len(mGroups)
    BY <1>2 DEF TypeInv
  <2>2. CASE UNCHANGED mGroups /\ m \notin Grouped
    BY <2>1, <2>2, InvFacts
  <2>3. CASE /\ i # NoGroup /\ m \in mGroups[i]
             /\ mGroups' = GroupsWithout(m)
    <3> USE DEF GroupsWithout
    <3>1. i \in DOMAIN mGroups
      BY <2>3, InvFacts
    <3>2. \A j \in DOMAIN mGroups : m \in mGroups[j] => j = i
      BY <1>2, <2>3, <3>1 DEF OwnersInv
    <3>3. /\ DOMAIN mGroups' = DOMAIN mGroups /\ mGroups'[i] = mGroups[i] \ {m}
          /\ \A j \in DOMAIN mGroups : j # i => mGroups'[j] = mGroups[j]
      BY <2>3, <3>1
    <3>4. mGroups' \in Seq(SUBSET NodeType) /\ Len(mGroups') = Len(mGroups)
      <4>1. mGroups[i] \ {m} \in SUBSET NodeType
        BY <2>1, <3>1, ElementOfSeq, LenProperties
      <4> QED
        BY <2>1, <2>3, <3>1, <4>1, ExceptSeq
    <3> QED
      BY <2>1, <3>1, <3>2, <3>3, <3>4
  <2> QED
    BY <2>2, <2>3
<1>7. Grouped' \subseteq Grouped /\ Grouped \subseteq Grouped' \cup {m} /\ m \notin Grouped'
  <2>1. Grouped = UNION {mGroups[j] : j \in DOMAIN mGroups}
    BY InvFacts
  <2>2. Grouped' = UNION {mGroups'[j] : j \in DOMAIN mGroups'}
    BY DEF Grouped, ToSet
  <2>3. Grouped' \subseteq Grouped
    BY <1>6, <2>1, <2>2
  <2>4. Grouped \subseteq Grouped' \cup {m}
    BY <1>6, <2>1, <2>2
  <2>5. m \notin Grouped'
    BY <1>6, <2>2
  <2> QED
    BY <2>3, <2>4, <2>5
<1>8. InHand' = InHand \cup {m}
  <2>1. InHand' = Range(mUsedList') \cup Grouped'
    BY DEF InHand
  <2> QED
    BY <1>5, <1>7, <2>1 DEF InHand
<1>9. \A c \in live : /\ c.chunk # chunk /\ c.chunk \in DOMAIN mUsedList
                      /\ mUsedList'[c.chunk] = NodeOf(c) /\ NodeOf(c) # m
  BY <1>3, <1>4, <1>5, InvFacts DEF NodeOf
<1>10. new \in Chunks
  BY <1>6 DEF Chunks
<1>11. TypeInv'
  BY <1>1, <1>2, <1>5, <1>6, <1>10 DEF TypeInv
<1>12. OwnersInv'
  <2>1. DOMAIN mUsedList' = {c.chunk : c \in live'}
    BY <1>1, <1>3, <1>5
  <2>2. \A c, d \in live' : mUsedList'[c.chunk] = mUsedList'[d.chunk] => c = d
    BY <1>1, <1>2, <1>5, <1>9 DEF OwnersInv
  <2>3. \A c \in live' : mUsedList'[c.chunk] \notin Grouped'
    BY <1>1, <1>2, <1>5, <1>7, <1>9 DEF OwnersInv
  <2>4. \A j, k \in DOMAIN mGroups' : j # k => mGroups'[j] \cap mGroups'[k] = {}
    <3> SUFFICES ASSUME NEW j \in DOMAIN mGroups, NEW k \in DOMAIN mGroups, j # k
                 PROVE  mGroups'[j] \cap mGroups'[k] = {}
      BY <1>6
    <3>1. mGroups[j] \cap mGroups[k] = {}
      BY <1>2 DEF OwnersInv
    <3> QED
      BY <1>6, <3>1
  <2> QED
    BY <2>1, <2>2, <2>3, <2>4 DEF OwnersInv, NodeOf
<1>13. InsideInv'
  <2>1. \A c \in live : /\ InNode(c, mUsedList'[c.chunk]) /\ c.chunk[2] % c.align = 0
                        /\ c.group \in 0 .. Len(mGroups')
    BY <1>2, <1>6, <1>9 DEF InsideInv
  <2>2. /\ InNode(new, mUsedList'[new.chunk]) /\ new.chunk[2] % new.align = 0
        /\ new.group \in 0 .. Len(mGroups')
    BY <1>5, <1>6 DEF InNode
  <2>3. \A c \in live' : /\ InNode(c, mUsedList'[c.chunk]) /\ c.chunk[2] % c.align = 0
                         /\ c.group \in 0 .. Len(mGroups')
    BY <1>1, <2>1, <2>2
  <2> QED
    BY <2>3 DEF InsideInv, NodeOf, InNode
<1>14. KeptInv'
  <2> SUFFICES ASSUME NEW c \in retired
               PROVE  /\ c.group \in DOMAIN mGroups'
                      /\ \E n \in InHand' :
                           /\ InNode(c, n)
                           /\ \/ n \in mGroups'[c.group]
                              \/ \E d \in live' : d.group = c.group /\ mUsedList'[d.chunk] = n
    BY DEF KeptInv, NodeOf, InNode
  <2>1. PICK n \in InHand : /\ InNode(c, n)
                            /\ \/ n \in mGroups[c.group]
                               \/ \E d \in live : d.group = c.group /\ NodeOf(d) = n
    BY <1>2 DEF KeptInv
  <2>2. c.group \in DOMAIN mGroups
    BY <1>2 DEF KeptInv
  <2>3. CASE \E d \in live : d.group = c.group /\ NodeOf(d) = n
    BY <1>1, <1>6, <1>8, <1>9, <2>1, <2>2, <2>3
  <2>4. CASE n \in mGroups[c.group] /\ n # m
    BY <1>6, <1>8, <2>1, <2>2, <2>4
  <2>5. CASE n \in mGroups[c.group] /\ n = m
    <3>1. new.group = c.group /\ mUsedList'[new.chunk] = n /\ new \in live'
      BY <1>1, <1>5, <1>6, <2>2, <2>5
    <3> QED
      BY <1>6, <1>8, <2>1, <2>2, <3>1
  <2> QED
    BY <2>1, <2>3, <2>4, <2>5
<1> QED
  BY <1>8, <1>11, <1>12, <1>13, <1>14

LEMMA FreshChunk ==
  ASSUME Inv, NEW size \in Nat \ {0}, NEW chunk \in Blocks \X Nat,
         NEW n \in mFreeList \cup InHand, n \notin Range(mUsedList),
         chunk[1] = Extent(n).base, Within(chunk[2], size, n)
  PROVE  \A c \in live : chunk # c.chunk
<1> SUFFICES ASSUME NEW c \in live PROVE chunk # c.chunk
  OBVIOUS
<1> DEFINE new == [chunk |-> chunk, size |-> size, align |-> 1, group |-> 0]
<1>1. /\ NodeOf(c) \in InHand /\ NodeOf(c) \in Range(mUsedList)
      /\ n \in NodeType /\ NodeOf(c) \in NodeType
  BY InvFacts
<1>2. Separate(n, NodeOf(c))
  BY <1>1, InvFacts
<1>3. c \in Chunks /\ InNode(c, NodeOf(c))
  BY DEF Inv, TypeInv, InsideInv
<1>4. new \in Chunks /\ InNode(new, n) /\ new.chunk = chunk
  BY DEF Chunks, InNode
<1> HIDE DEF new
<1> QED
  BY <1>1, <1>2, <1>3, <1>4, InSeparateNodes

LEMMA TreeStep ==
  ASSUME Tree(mFreeList', useCount', InHand', mTotalSize')
  PROVE  ForestInv'
BY DEF ForestInv

LEMMA TakeGroupStep ==
  ASSUME Inv, NEW size \in Nat \ {0}, NEW align \in Nat \ {0}, mCurrentFreeList # NoGroup,
         TakeGroup(size, align), UNCHANGED <<use, retired>>
  PROVE  Inv'
<1>1. PICK n \in Best(mGroups[mCurrentFreeList], Enough(size, align)) :
        /\ Remember(<<Extent(n).base, At(n, align)>>, size, align)
        /\ mUsedList' = Use(<<Extent(n).base, At(n, align)>>, n)
        /\ mGroups' = [mGroups EXCEPT ![mCurrentFreeList] = @ \ {n}]
        /\ UNCHANGED <<mFreeList, useCount, mCurrentFreeList, barrier, mTotalSize>>
  BY DEF TakeGroup, At
<1>2. n \in mGroups[mCurrentFreeList] /\ Extent(n).size >= Enough(size, align)
  BY DEF Best
<1>3. n \in Grouped /\ n \in InHand /\ n \in NodeType /\ n \notin Range(mUsedList)
      /\ Extent(n).offset % mAlign = 0
  BY <1>2, InvFacts DEF InHand
<1> DEFINE chunk == <<Extent(n).base, At(n, align)>>
<1>4. /\ chunk \in Blocks \X Nat /\ chunk[1] = Extent(n).base /\ chunk[2] % align = 0
      /\ Within(chunk[2], size, n)
  BY <1>2, <1>3, AtFacts, NodeFacts DEF Extents
<1>5. Remember(chunk, size, align) /\ mUsedList' = Use(chunk, n)
  BY <1>1
<1> HIDE DEF chunk
<1>6. \A c \in live : chunk # c.chunk
  BY <1>3, <1>4, FreshChunk
<1>7. /\ TypeInv' /\ OwnersInv' /\ InsideInv' /\ KeptInv'
      /\ InHand' = InHand \cup {n}
  <2>1. /\ mCurrentFreeList # NoGroup /\ n \in mGroups[mCurrentFreeList]
        /\ mGroups' = GroupsWithout(n)
    BY <1>1, <1>2 DEF GroupsWithout
  <2>2. UNCHANGED <<use, mCurrentFreeList, barrier, retired>>
    BY <1>1
  <2> QED
    BY <1>3, <1>4, <1>5, <1>6, <2>1, <2>2, AllocStep
<1>8. ForestInv'
  <2>1. InHand' = InHand
    BY <1>3, <1>7
  <2> QED
    BY <1>1, <2>1, TreeStep DEF Inv, ForestInv
<1> QED
  BY <1>7, <1>8 DEF Inv

LEMMA TakeFreeStep ==
  ASSUME Inv, NEW size \in Nat \ {0}, NEW align \in Nat \ {0},
         TakeFree(size, align), UNCHANGED <<use, retired>>
  PROVE  Inv'
<1>1. PICK n \in Best(mFreeList, Enough(size, align)) :
        LET s == Cut(size, n, align)
            chunk == <<Extent(n).base, At(n, align)>>
        IN  /\ Remember(chunk, size, align)
            /\ \/ /\ s >= Extent(n).size
                  /\ mUsedList' = Use(chunk, n)
                  /\ mFreeList' = mFreeList \ {n}
                  /\ useCount' = Taken(n, useCount)
               \/ /\ s < Extent(n).size
                  /\ mUsedList' = Use(chunk, First(n, s))
                  /\ mFreeList' = (mFreeList \ {n}) \cup {Second(n, s)}
                  /\ useCount' = Counted(n, 1, Taken(n, useCount))
            /\ UNCHANGED <<groups, mTotalSize>>
  BY DEF TakeFree, At, Cut, First, Second
<1> DEFINE s == Cut(size, n, align)
           chunk == <<Extent(n).base, At(n, align)>>
<1>2. n \in mFreeList /\ Extent(n).size >= Enough(size, align)
  BY DEF Best
<1>3. /\ n \notin InHand /\ n \in NodeType /\ n \notin Range(mUsedList) /\ n \notin Grouped
      /\ Extent(n).offset % mAlign = 0
  BY <1>2, InvFacts DEF InHand
<1>4. /\ Extent(n).base \in Blocks /\ Extent(n).offset \in Nat /\ Extent(n).size \in Nat
  BY <1>3, NodeFacts DEF Extents
<1>5. /\ chunk \in Blocks \X Nat /\ chunk[1] = Extent(n).base /\ chunk[2] % align = 0
      /\ Within(chunk[2], size, n)
      /\ s \in Nat \ {0} /\ s % mAlign = 0 /\ chunk[2] + size <= Extent(n).offset + s
  BY <1>2, <1>3, <1>4, AtFacts
<1>6. /\ Remember(chunk, size, align)
      /\ UNCHANGED <<use, mGroups, mCurrentFreeList, barrier, retired, mTotalSize>>
      /\ \/ /\ mUsedList' = Use(chunk, n)
            /\ mFreeList' = mFreeList \ {n}
            /\ useCount' = Taken(n, useCount)
         \/ /\ s < Extent(n).size
            /\ mUsedList' = Use(chunk, First(n, s))
            /\ mFreeList' = (mFreeList \ {n}) \cup {Second(n, s)}
            /\ useCount' = Counted(n, 1, Taken(n, useCount))
  BY <1>1 DEF groups
<1> HIDE DEF chunk, s
<1>7. \A c \in live : chunk # c.chunk
  BY <1>2, <1>3, <1>5, FreshChunk
<1>8. Tree(mFreeList \ {n}, Taken(n, useCount), InHand \cup {n}, mTotalSize)
  BY <1>2, TakeKeepsTree DEF Inv, ForestInv
<1>9. CASE /\ mUsedList' = Use(chunk, n)
           /\ mFreeList' = mFreeList \ {n}
           /\ useCount' = Taken(n, useCount)
  <2>1. /\ TypeInv' /\ OwnersInv' /\ InsideInv' /\ KeptInv'
        /\ InHand' = InHand \cup {n}
    BY <1>3, <1>5, <1>6, <1>7, <1>9, AllocStep
  <2>2. ForestInv'
    BY <1>6, <1>8, <1>9, <2>1, TreeStep
  <2> QED
    BY <2>1, <2>2 DEF Inv
<1>10. CASE /\ s < Extent(n).size
            /\ mUsedList' = Use(chunk, First(n, s))
            /\ mFreeList' = (mFreeList \ {n}) \cup {Second(n, s)}
            /\ useCount' = Counted(n, 1, Taken(n, useCount))
  <2> DEFINE m == First(n, s)
             hand == InHand \cup {n}
             free == mFreeList \ {n}
             counts == Taken(n, useCount)
  <2>1. /\ Tree(free \cup {Second(n, s)}, Counted(n, 1, counts), (hand \ {n}) \cup {m}, mTotalSize)
        /\ m \in NodeType /\ m \notin Nodes(free, counts, hand)
    <3>1. n \in hand
      OBVIOUS
    <3> HIDE DEF free, counts, hand
    <3>2. s <= Extent(n).size /\ s # Extent(n).size
      BY <1>4, <1>5, <1>10
    <3> QED
      BY <1>5, <1>8, <3>1, <3>2, CutKeepsTree DEF free, counts, hand
  <2>2. m \notin InHand /\ (hand \ {n}) \cup {m} = InHand \cup {m}
    BY <1>3, <2>1 DEF Nodes, Tips
  <2>3. Extent(m).base = Extent(n).base /\ Extent(m).offset = Extent(n).offset
        /\ Extent(m).size = s
    <3> DEFINE e == [base |-> Extent(n).base, offset |-> Extent(n).offset, size |-> s]
    <3>1. e \in Extents /\ m = Append(n, e)
      BY <1>4, <1>5 DEF Extents, First, Node
    <3> HIDE DEF e, m
    <3>2. Extent(m) = e
      BY <1>3, <3>1, PartFacts
    <3> QED
      BY <3>2 DEF e
  <2>4. chunk[1] = Extent(m).base /\ Within(chunk[2], size, m)
    BY <1>5, <2>3 DEF Within
  <2> HIDE DEF m
  <2>5. m \notin Range(mUsedList) /\ m \notin Grouped /\ mUsedList' = Use(chunk, m)
    BY <1>10, <2>2 DEF InHand, m
  <2>6. /\ TypeInv' /\ OwnersInv' /\ InsideInv' /\ KeptInv'
        /\ InHand' = InHand \cup {m}
    BY <1>5, <1>6, <1>7, <2>4, <2>5, AllocStep
  <2>7. ForestInv'
    BY <1>6, <1>10, <2>1, <2>2, <2>6, TreeStep
  <2> QED
    BY <2>6, <2>7 DEF Inv
<1> QED
  BY <1>6, <1>9, <1>10

LEMMA AllocSizeFacts ==
  ASSUME Inv, NEW size \in Nat
  PROVE  /\ AllocSize(size) \in Nat /\ size <= AllocSize(size)
         /\ AllocSize(size) # size => AllocSize(size) = use.mMinAllocSize
<1> DEFINE S == {use.mMinAllocSize, size}
           Greatest(x) == \A y \in S : x >= y
           max == CHOOSE x \in S : Greatest(x)
<1>1. use.mMinAllocSize \in Nat
  BY InvFacts
<1>2. \E x \in S : Greatest(x)
  <2>1. CASE use.mMinAllocSize >= size
    <3>1. Greatest(use.mMinAllocSize)
      BY <1>1, <2>1
    <3> QED
      BY <3>1
  <2>2. CASE size >= use.mMinAllocSize
    <3>1. Greatest(size)
      BY <1>1, <2>2
    <3> QED
      BY <3>1
  <2> QED
    BY <1>1, <2>1, <2>2
<1> HIDE DEF Greatest
<1>3. max \in S /\ Greatest(max)
  BY <1>2
<1>4. AllocSize(size) = max
  BY DEF AllocSize, Max, Greatest
<1> HIDE DEF max
<1> QED
  BY <1>1, <1>3, <1>4 DEF Greatest

LEMMA TakeBlockStep ==
  ASSUME Inv, NEW size \in Nat \ {0}, NEW align \in Nat \ {0},
         TakeBlock(size, align), UNCHANGED <<use, retired>>
  PROVE  Inv'
<1> DEFINE allocSize == AllocSize(size)
           s == RoundUp(size, mAlign)
<1>1. PICK b \in Blocks \ {e.base : e \in Held} :
        LET node == Node(<<>>, b, 0, allocSize)
            first == Node(node, b, 0, s)
            second == Node(node, b, s, allocSize - s)
        IN  /\ Remember(<<b, 0>>, size, align)
            /\ mTotalSize' = mTotalSize + allocSize
            /\ \/ /\ allocSize = size
                  /\ mUsedList' = Use(<<b, 0>>, node)
                  /\ UNCHANGED <<mFreeList, mGroups, useCount>>
               \/ /\ allocSize > size
                  /\ mUsedList' = Use(<<b, 0>>, first)
                  /\ useCount' = Counted(node, 1, useCount)
                  /\ \/ /\ mCurrentFreeList = NoGroup
                        /\ mFreeList' = mFreeList \cup {second}
                        /\ UNCHANGED mGroups
                     \/ /\ mCurrentFreeList # NoGroup
                        /\ mGroups' = [mGroups EXCEPT ![mCurrentFreeList] = @ \cup {second}]
                        /\ UNCHANGED mFreeList
            /\ UNCHANGED <<mCurrentFreeList, barrier>>
  BY DEF TakeBlock
<1> DEFINE n == Block(b, allocSize)
           chunk == <<b, 0>>
<1>2. /\ allocSize \in Nat /\ size <= allocSize
      /\ allocSize # size => allocSize = use.mMinAllocSize
  BY AllocSizeFacts
<1>3. b \in Blocks /\ b \notin {e.base : e \in Heads(Tips(mFreeList, InHand))}
  BY InvFacts
<1> HIDE DEF allocSize
<1>4. /\ Tree(mFreeList, useCount, InHand \cup {n}, mTotalSize + allocSize)
      /\ n \in NodeType /\ n \notin Nodes(mFreeList, useCount, InHand)
  BY <1>2, <1>3, BlockKeepsTree DEF Inv, ForestInv
<1>5. Extent(n) = [base |-> b, offset |-> 0, size |-> allocSize] /\ n = Append(<<>>, Extent(n))
  <2> DEFINE e == [base |-> b, offset |-> 0, size |-> allocSize]
  <2>1. e \in Extents /\ n = Append(<<>>, e)
    BY <1>2, <1>3 DEF Extents, Block, Node
  <2> HIDE DEF e, n
  <2>2. Extent(n) = e
    BY <2>1, BlockFacts
  <2> QED
    BY <2>1, <2>2 DEF e
<1>6. Extent(n).base = b /\ Extent(n).offset = 0 /\ Extent(n).size = allocSize
  BY <1>5
<1>7. /\ chunk \in Blocks \X Nat /\ chunk[1] = b /\ chunk[2] = 0 /\ chunk[2] % align = 0
  BY <1>3
<1>8. \A c \in live : chunk # c.chunk
  <2> SUFFICES ASSUME NEW c \in live, chunk = c.chunk PROVE FALSE
    OBVIOUS
  <2>1. NodeOf(c) \in Tips(mFreeList, InHand)
    BY InvFacts DEF Tips
  <2>2. InNode(c, NodeOf(c))
    BY DEF Inv, InsideInv
  <2>3. Head(NodeOf(c)).base = Extent(NodeOf(c)).base
    BY <2>1 DEF Inv, ForestInv, Tree, Places, TreeBlocks, Nodes
  <2>4. Head(NodeOf(c)).base = b
    BY <1>7, <2>2, <2>3 DEF InNode
  <2>5. Head(NodeOf(c)) \in Heads(Tips(mFreeList, InHand))
    BY <2>1 DEF Heads
  <2> QED
    BY <1>3, <2>4, <2>5
<1>9. CASE /\ allocSize = size
           /\ mUsedList' = Use(chunk, n)
           /\ UNCHANGED <<mFreeList, mGroups, useCount>>
  <2>1. /\ n \notin Range(mUsedList) /\ n \notin Grouped
        /\ Remember(chunk, size, align) /\ mUsedList' = Use(chunk, n)
        /\ UNCHANGED <<use, mGroups, mCurrentFreeList, barrier, retired, mFreeList, useCount>>
        /\ mTotalSize' = mTotalSize + allocSize
    BY <1>1, <1>4, <1>9 DEF Nodes, Tips, InHand
  <2>2. chunk[1] = Extent(n).base /\ Within(chunk[2], size, n)
    BY <1>6, <1>7, <1>9 DEF Within
  <2> HIDE DEF n, chunk
  <2>3. /\ TypeInv' /\ OwnersInv' /\ InsideInv' /\ KeptInv'
        /\ InHand' = InHand \cup {n}
    BY <1>7, <1>8, <2>1, <2>2, AllocStep
  <2>4. ForestInv'
    BY <1>4, <2>1, <2>3, TreeStep
  <2> QED
    BY <2>3, <2>4 DEF Inv
<1>10. CASE allocSize > size
  <2> DEFINE m == First(n, s)
             hand == InHand \cup {n}
  <2>1. allocSize = use.mMinAllocSize /\ allocSize % mAlign = 0
        /\ mCurrentFreeList = NoGroup
    <3>1. allocSize # size /\ allocSize # 0
      BY <1>2, <1>10
    <3> QED
      BY <1>2, <3>1, InvFacts
  <2>2. s \in Nat \ {0} /\ s % mAlign = 0 /\ size <= s /\ s <= allocSize
    <3>1. /\ s \in Nat /\ s % mAlign = 0 /\ size <= s
          /\ \A j \in Nat : j % mAlign = 0 /\ size <= j => s <= j
      BY AlignAssumption, RoundUpFacts
    <3> HIDE DEF s
    <3> QED
      BY <1>2, <2>1, <3>1
  <2>3. m = Node(n, b, 0, s) /\ Second(n, s) = Node(n, b, s, allocSize - s)
    <3>1. 0 + s = s
      BY <2>2
    <3> HIDE DEF s, n
    <3> QED
      BY <1>6, <3>1 DEF First, Second
  <2>4. /\ Remember(chunk, size, align) /\ mUsedList' = Use(chunk, m)
        /\ mFreeList' = mFreeList \cup {Second(n, s)}
        /\ useCount' = Counted(n, 1, useCount)
        /\ UNCHANGED <<use, mGroups, mCurrentFreeList, barrier, retired>>
        /\ mTotalSize' = mTotalSize + allocSize
    <3>1. allocSize # size
      BY <1>2, <1>10
    <3>2. n = Node(<<>>, b, 0, allocSize)
      BY DEF Block
    <3> HIDE DEF m, s, n
    <3> QED
      BY <1>1, <2>1, <2>3, <3>1, <3>2
  <2>5. \A x \in Nodes(mFreeList, useCount, hand) :
          Extent(x).base = Extent(n).base =>
            Extent(x).offset + SizeOf(x) <= Extent(n).offset + Extent(n).size
    <3> SUFFICES ASSUME NEW x \in Nodes(mFreeList, useCount, hand), Extent(x).base = b
                 PROVE  x = n
      BY <1>2, <1>6 DEF SizeOf
    <3> SUFFICES ASSUME x \in Nodes(mFreeList, useCount, InHand)
                 PROVE  FALSE
      BY DEF Nodes, Tips
    <3>1. /\ Head(x).base = Extent(x).base
          /\ Head(x) \in Heads(Tips(mFreeList, InHand))
      BY DEF Inv, ForestInv, Tree, Places, TreeBlocks
    <3> QED
      BY <1>3, <3>1
  <2>6. /\ Tree(mFreeList \cup {Second(n, s)}, Counted(n, 1, useCount), (hand \ {n}) \cup {m},
                mTotalSize + allocSize)
        /\ m \in NodeType /\ m \notin Nodes(mFreeList, useCount, hand)
    <3>1. n \in hand /\ Tree(mFreeList, useCount, hand, mTotalSize + allocSize)
      BY <1>4
    <3> HIDE DEF hand, n, s
    <3>2. s <= Extent(n).size
      BY <1>6, <2>2
    <3> QED
      BY <2>2, <2>5, <3>1, <3>2, CutKeepsTree
  <2>7. m \notin InHand /\ (hand \ {n}) \cup {m} = InHand \cup {m}
    BY <1>4, <2>6 DEF Nodes, Tips
  <2>8. Extent(m).base = b /\ Extent(m).offset = 0 /\ Extent(m).size = s
    <3> DEFINE e == [base |-> b, offset |-> 0, size |-> s]
    <3>1. e \in Extents /\ m = Append(n, e)
      BY <1>3, <2>2, <2>3 DEF Extents, Node
    <3> HIDE DEF e, m, n
    <3>2. Extent(m) = e
      BY <1>4, <3>1, PartFacts
    <3> QED
      BY <3>2 DEF e
  <2>9. chunk[1] = Extent(m).base /\ Within(chunk[2], size, m)
    BY <1>7, <2>2, <2>8 DEF Within
  <2>10. m \notin Range(mUsedList) /\ m \notin Grouped
    BY <2>7 DEF InHand
  <2> HIDE DEF m, chunk
  <2>11. /\ TypeInv' /\ OwnersInv' /\ InsideInv' /\ KeptInv'
         /\ InHand' = InHand \cup {m}
    BY <1>7, <1>8, <2>4, <2>9, <2>10, AllocStep
  <2>12. ForestInv'
    <3> HIDE DEF hand, n, s
    <3> QED
      BY <2>4, <2>6, <2>7, <2>11, TreeStep
  <2> QED
    BY <2>11, <2>12 DEF Inv
<1>11. \/ allocSize > size
       \/ /\ allocSize = size /\ mUsedList' = Use(chunk, n)
          /\ UNCHANGED <<mFreeList, mGroups, useCount>>
  BY <1>1 DEF Block
<1> QED
  BY <1>9, <1>10, <1>11

LEMMA AllocInv ==
  ASSUME Inv, NEW size \in use.sizes, NEW separate \in BOOLEAN, NEW align \in use.aligns,
         Alloc(size, separate, align), UNCHANGED use
  PROVE  Inv'
<1>1. size \in Nat \ {0} /\ align \in Nat \ {0}
  BY UsesAssumption DEF Inv, TypeInv
<1>2. CASE InGroup(size, align) /\ TakeGroup(size, align)
  BY <1>1, <1>2, TakeGroupStep DEF InGroup, Alloc
<1>3. CASE TakeFree(size, align)
  BY <1>1, <1>3, TakeFreeStep DEF Alloc
<1>4. CASE TakeBlock(size, align)
  BY <1>1, <1>4, TakeBlockStep DEF Alloc
<1> QED
  BY <1>2, <1>3, <1>4 DEF Alloc

LEMMA FreeInv ==
  ASSUME Inv, NEW c \in live, Free(c), UNCHANGED use
  PROVE  Inv'
<1> DEFINE n == NodeOf(c)
           i == mCurrentFreeList
<1>1. TypeInv /\ OwnersInv /\ InsideInv /\ KeptInv /\ ForestInv
  BY DEF Inv
<1>2. /\ n \in InHand /\ n \in Range(mUsedList) /\ n \notin Grouped /\ n \in NodeType
      /\ \A d \in live : d # c => NodeOf(d) # n /\ d.chunk # c.chunk
  BY <1>1, InvFacts DEF OwnersInv
<1>3. /\ DOMAIN mUsedList = {d.chunk : d \in live}
      /\ mUsedList' = [k \in DOMAIN mUsedList' |-> mUsedList'[k]]
      /\ DOMAIN mUsedList' = DOMAIN mUsedList \ {c.chunk}
      /\ \A k \in DOMAIN mUsedList' : mUsedList'[k] = mUsedList[k]
  <2> DEFINE after == Restrict(mUsedList, DOMAIN mUsedList \ {c.chunk})
  <2>1. /\ after = [k \in DOMAIN after |-> after[k]]
        /\ DOMAIN after = DOMAIN mUsedList \ {c.chunk}
        /\ \A k \in DOMAIN after : after[k] = mUsedList[k]
    BY UnusedFacts
  <2>2. mUsedList' = after
    BY DEF Free
  <2> HIDE DEF after
  <2> QED
    BY <1>1, <2>1, <2>2 DEF OwnersInv
<1>4. /\ live' = live \ {c} /\ UNCHANGED <<use, mCurrentFreeList, barrier, mTotalSize>>
      /\ retired' = IF barrier THEN retired \cup {c} ELSE retired
      /\ barrier => i # NoGroup /\ c.group = i
  BY DEF Free
<1>5. \A d \in live' : /\ d \in live /\ d.chunk \in DOMAIN mUsedList'
                       /\ mUsedList'[d.chunk] = NodeOf(d) /\ NodeOf(d) # n
  BY <1>2, <1>3, <1>4 DEF NodeOf
<1>6. DOMAIN mUsedList' = {d.chunk : d \in live'}
  BY <1>2, <1>3, <1>4
<1>7. Range(mUsedList') = Range(mUsedList) \ {n}
  <2>1. Range(mUsedList') = {NodeOf(d) : d \in live'}
    BY <1>5, <1>6 DEF Range
  <2>2. Range(mUsedList) = {NodeOf(d) : d \in live}
    BY InvFacts
  <2> QED
    BY <1>2, <1>4, <2>1, <2>2
<1>8. CASE i # NoGroup
  <2>1. /\ mGroups' = [mGroups EXCEPT ![i] = @ \cup {n}]
        /\ UNCHANGED <<mFreeList, useCount>>
    BY <1>8 DEF Free, ListOf, NodeOf
  <2>2. i \in DOMAIN mGroups /\ barrier
    BY <1>8, InvFacts
  <2>3. mGroups \in Seq(SUBSET NodeType)
    BY <1>1 DEF TypeInv
  <2>4. mGroups' \in Seq(SUBSET NodeType) /\ Len(mGroups') = Len(mGroups)
    <3>1. mGroups[i] \cup {n} \in SUBSET NodeType
      BY <1>2, <2>2, <2>3, ElementOfSeq, InvFacts
    <3> QED
      BY <2>1, <2>2, <2>3, <3>1, ExceptSeq
  <2>5. /\ DOMAIN mGroups' = DOMAIN mGroups /\ mGroups'[i] = mGroups[i] \cup {n}
        /\ \A j \in DOMAIN mGroups : j # i => mGroups'[j] = mGroups[j]
    BY <2>1, <2>2
  <2>6. Grouped' = Grouped \cup {n}
    <3>1. Grouped = UNION {mGroups[j] : j \in DOMAIN mGroups}
      BY InvFacts
    <3>2. Grouped' = UNION {mGroups'[j] : j \in DOMAIN mGroups'}
      BY DEF Grouped, ToSet
    <3> QED
      BY <2>2, <2>5, <3>1, <3>2
  <2>7. InHand' = InHand
    <3>1. InHand' = Range(mUsedList') \cup Grouped'
      BY DEF InHand
    <3> QED
      BY <1>2, <1>7, <2>6, <3>1 DEF InHand
  <2>8. ForestInv'
    BY <1>1, <1>4, <2>1, <2>7, TreeStep DEF ForestInv
  <2>9. TypeInv'
    BY <1>1, <1>3, <1>4, <2>2, <2>4 DEF TypeInv
  <2>10. OwnersInv'
    <3>1. \A d, e \in live' : mUsedList'[d.chunk] = mUsedList'[e.chunk] => d = e
      BY <1>1, <1>5 DEF OwnersInv
    <3>2. \A d \in live' : mUsedList'[d.chunk] \notin Grouped'
      BY <1>1, <1>5, <2>6 DEF OwnersInv
    <3>3. \A j, k \in DOMAIN mGroups' : j # k => mGroups'[j] \cap mGroups'[k] = {}
      <4> SUFFICES ASSUME NEW j \in DOMAIN mGroups, NEW k \in DOMAIN mGroups, j # k
                   PROVE  mGroups'[j] \cap mGroups'[k] = {}
        BY <2>5
      <4>1. mGroups[j] \cap mGroups[k] = {}
        BY <1>1 DEF OwnersInv
      <4>2. n \notin mGroups[j] /\ n \notin mGroups[k]
        BY <1>2, InvFacts
      <4> HIDE DEF n
      <4> QED
        BY <2>5, <4>1, <4>2
    <3> QED
      BY <1>6, <3>1, <3>2, <3>3 DEF OwnersInv, NodeOf
  <2>11. InsideInv'
    <3>1. \A d \in live' : /\ InNode(d, mUsedList'[d.chunk]) /\ d.chunk[2] % d.align = 0
                           /\ d.group \in 0 .. Len(mGroups')
      BY <1>1, <1>5, <2>4 DEF InsideInv
    <3> QED
      BY <3>1 DEF InsideInv, NodeOf, InNode
  <2>12. KeptInv'
    <3> SUFFICES ASSUME NEW d \in retired \cup {c}
                 PROVE  /\ d.group \in DOMAIN mGroups'
                        /\ \E m \in InHand' :
                             /\ InNode(d, m)
                             /\ \/ m \in mGroups'[d.group]
                                \/ \E e \in live' : e.group = d.group /\ mUsedList'[e.chunk] = m
      BY <1>4, <2>2 DEF KeptInv, NodeOf, InNode
    <3>1. c.group = i /\ InNode(c, n) /\ n \in mGroups'[i]
      BY <1>1, <1>4, <2>2, <2>5 DEF InsideInv
    <3> HIDE DEF n
    <3>2. CASE d = c
      BY <1>2, <2>2, <2>5, <2>7, <3>1, <3>2
    <3>3. CASE d \in retired
      <4>1. PICK m \in InHand : /\ InNode(d, m)
                                /\ \/ m \in mGroups[d.group]
                                   \/ \E e \in live : e.group = d.group /\ NodeOf(e) = m
        BY <1>1, <3>3 DEF KeptInv
      <4>2. d.group \in DOMAIN mGroups
        BY <1>1, <3>3 DEF KeptInv
      <4>3. m \in mGroups[d.group] => m \in mGroups'[d.group]
        BY <2>5, <4>2
      <4>4. CASE \E e \in live : e.group = d.group /\ NodeOf(e) = m
        <5>1. PICK e \in live : e.group = d.group /\ NodeOf(e) = m
          BY <4>4
        <5>2. CASE e = c
          BY <2>5, <2>7, <3>1, <4>1, <4>2, <5>1, <5>2 DEF n
        <5>3. CASE e # c
          BY <1>4, <1>5, <2>5, <2>7, <4>1, <4>2, <5>1, <5>3
        <5> QED
          BY <5>2, <5>3
      <4> QED
        BY <2>5, <2>7, <4>1, <4>2, <4>3, <4>4
    <3> QED
      BY <3>2, <3>3
  <2> QED
    BY <2>8, <2>9, <2>10, <2>11, <2>12 DEF Inv
<1>9. CASE i = NoGroup
  <2>1. /\ mFreeList' = Returned(n, mFreeList, useCount).free
        /\ useCount' = Returned(n, mFreeList, useCount).counts
        /\ UNCHANGED mGroups
    BY <1>9 DEF Free, ListOf, NodeOf, Returned
  <2>2. ~ barrier /\ mGroups = <<>> /\ retired = {} /\ UNCHANGED retired
    BY <1>1, <1>4, <1>9 DEF TypeInv
  <2>3. Grouped = {} /\ Grouped' = {}
    <3>1. DOMAIN <<>> = {}
      OBVIOUS
    <3>2. mGroups' = <<>>
      BY <2>1, <2>2
    <3> QED
      BY <2>2, <3>1, <3>2 DEF Grouped, ToSet
  <2>4. InHand' = InHand \ {n}
    <3>1. InHand' = Range(mUsedList') \cup Grouped'
      BY DEF InHand
    <3> QED
      BY <1>7, <2>3, <3>1 DEF InHand
  <2>5. ForestInv'
    <3>1. Tree(Returned(n, mFreeList, useCount).free, Returned(n, mFreeList, useCount).counts,
               InHand \ {n}, mTotalSize)
      BY <1>1, <1>2, ReturnKeepsTree DEF ForestInv
    <3> QED
      BY <1>4, <2>1, <2>4, <3>1, TreeStep
  <2>6. TypeInv'
    BY <1>1, <1>3, <1>4, <2>1, <2>2 DEF TypeInv
  <2>7. OwnersInv'
    <3>1. \A d, e \in live' : mUsedList'[d.chunk] = mUsedList'[e.chunk] => d = e
      BY <1>1, <1>5 DEF OwnersInv
    <3>2. \A j, k \in DOMAIN mGroups' : j # k => mGroups'[j] \cap mGroups'[k] = {}
      BY <1>1, <2>1 DEF OwnersInv
    <3> QED
      BY <1>6, <2>3, <3>1, <3>2 DEF OwnersInv, NodeOf
  <2>8. InsideInv'
    <3>1. \A d \in live' : /\ InNode(d, mUsedList'[d.chunk]) /\ d.chunk[2] % d.align = 0
                           /\ d.group \in 0 .. Len(mGroups')
      BY <1>1, <1>5, <2>1 DEF InsideInv
    <3> QED
      BY <3>1 DEF InsideInv, NodeOf, InNode
  <2>9. KeptInv'
    BY <2>2 DEF KeptInv
  <2> QED
    BY <2>5, <2>6, <2>7, <2>8, <2>9 DEF Inv
<1> QED
  BY <1>8, <1>9

LEMMA BarrierBeginInv ==
  ASSUME Inv, BarrierBegin, UNCHANGED use
  PROVE  Inv'
<1>1. /\ UNCHANGED <<use, mUsedList, mFreeList, useCount, mGroups, mCurrentFreeList,
                     mTotalSize, live, retired>>
      /\ barrier' = TRUE /\ use.threads > 0
  BY DEF BarrierBegin, lists
<1>2. InHand' = InHand /\ Grouped' = Grouped
  BY <1>1 DEF InHand, Grouped
<1>3. ForestInv'
  BY <1>1, <1>2, TreeStep DEF Inv, ForestInv
<1>4. TypeInv'
  BY <1>1 DEF Inv, TypeInv
<1>5. OwnersInv' /\ InsideInv' /\ KeptInv'
  BY <1>1, <1>2 DEF Inv, OwnersInv, InsideInv, KeptInv, NodeOf, InNode
<1> QED
  BY <1>3, <1>4, <1>5 DEF Inv

LEMMA EndGroupInv ==
  ASSUME Inv, EndGroup, UNCHANGED use
  PROVE  Inv'
<1>1. /\ UNCHANGED <<use, mUsedList, mFreeList, useCount, mGroups, barrier,
                     mTotalSize, live, retired>>
      /\ mCurrentFreeList' = NoGroup
  BY DEF EndGroup, lists
<1>2. InHand' = InHand /\ Grouped' = Grouped
  BY <1>1 DEF InHand, Grouped
<1>3. ForestInv'
  BY <1>1, <1>2, TreeStep DEF Inv, ForestInv
<1>4. TypeInv'
  <2>1. 0 \in 0 .. Len(mGroups)
    BY InvFacts
  <2> QED
    BY <1>1, <2>1 DEF Inv, TypeInv, NoGroup
<1>5. OwnersInv' /\ InsideInv' /\ KeptInv'
  BY <1>1, <1>2 DEF Inv, OwnersInv, InsideInv, KeptInv, NodeOf, InNode
<1> QED
  BY <1>3, <1>4, <1>5 DEF Inv

LEMMA BeginGroupInv ==
  ASSUME Inv, BeginGroup, UNCHANGED use
  PROVE  Inv'
<1>1. /\ UNCHANGED <<use, mUsedList, mFreeList, useCount, barrier, mTotalSize, live, retired>>
      /\ mGroups' = Append(mGroups, {}) /\ mCurrentFreeList' = Len(mGroups') /\ barrier
  BY DEF BeginGroup, lists
<1>2. mGroups \in Seq(SUBSET NodeType)
  BY DEF Inv, TypeInv
<1>3. /\ mGroups' \in Seq(SUBSET NodeType) /\ Len(mGroups') = Len(mGroups) + 1
      /\ Len(mGroups) \in Nat
      /\ DOMAIN mGroups = 1 .. Len(mGroups) /\ DOMAIN mGroups' = 1 .. Len(mGroups) + 1
      /\ mGroups'[Len(mGroups) + 1] = {}
      /\ \A j \in DOMAIN mGroups : mGroups'[j] = mGroups[j]
  <2>1. {} \in SUBSET NodeType
    OBVIOUS
  <2>2. /\ mGroups' \in Seq(SUBSET NodeType) /\ Len(mGroups') = Len(mGroups) + 1
        /\ mGroups'[Len(mGroups) + 1] = {}
        /\ \A j \in 1 .. Len(mGroups) : mGroups'[j] = mGroups[j]
    BY <1>1, <1>2, <2>1, AppendProperties
  <2> QED
    BY <1>2, <2>2, LenProperties
<1>4. /\ \A j \in DOMAIN mGroups' : mGroups'[j] = {} \/ (j \in DOMAIN mGroups /\ mGroups'[j] = mGroups[j])
      /\ DOMAIN mGroups \subseteq DOMAIN mGroups'
  <2>1. \A j \in 1 .. Len(mGroups) + 1 : j = Len(mGroups) + 1 \/ j \in 1 .. Len(mGroups)
    BY <1>3
  <2>2. \A j \in 1 .. Len(mGroups) : j \in 1 .. Len(mGroups) + 1
    BY <1>3
  <2> QED
    BY <1>3, <2>1, <2>2
<1>5. Grouped' = Grouped
  <2>1. Grouped = UNION {mGroups[j] : j \in DOMAIN mGroups}
    BY InvFacts
  <2>2. Grouped' = UNION {mGroups'[j] : j \in DOMAIN mGroups'}
    BY DEF Grouped, ToSet
  <2> QED
    BY <1>3, <1>4, <2>1, <2>2
<1>6. InHand' = InHand
  BY <1>1, <1>5 DEF InHand
<1>7. ForestInv'
  BY <1>1, <1>6, TreeStep DEF Inv, ForestInv
<1>8. TypeInv'
  <2>1. Len(mGroups') \in 0 .. Len(mGroups')
    BY <1>3
  <2> QED
    BY <1>1, <1>3, <2>1 DEF Inv, TypeInv
<1>9. OwnersInv'
  <2>1. \A j, k \in DOMAIN mGroups' : j # k => mGroups'[j] \cap mGroups'[k] = {}
    BY <1>4 DEF Inv, OwnersInv
  <2> QED
    BY <1>1, <1>5, <2>1 DEF Inv, OwnersInv, NodeOf
<1>10. InsideInv'
  <2>1. \A g \in 0 .. Len(mGroups) : g \in 0 .. Len(mGroups')
    BY <1>3
  <2>2. \A c \in live : /\ InNode(c, NodeOf(c)) /\ c.chunk[2] % c.align = 0
                        /\ c.group \in 0 .. Len(mGroups')
    BY <2>1 DEF Inv, InsideInv
  <2> QED
    BY <1>1, <2>2 DEF InsideInv, NodeOf, InNode
<1>11. KeptInv'
  <2> SUFFICES ASSUME NEW c \in retired
               PROVE  /\ c.group \in DOMAIN mGroups'
                      /\ \E n \in InHand :
                           /\ InNode(c, n)
                           /\ \/ n \in mGroups'[c.group]
                              \/ \E d \in live : d.group = c.group /\ NodeOf(d) = n
    BY <1>1, <1>6 DEF KeptInv, NodeOf, InNode
  <2> QED
    BY <1>3, <1>4 DEF Inv, KeptInv
<1> QED
  BY <1>7, <1>8, <1>9, <1>10, <1>11 DEF Inv

LEMMA BarrierEndInv ==
  ASSUME Inv, BarrierEnd, UNCHANGED use
  PROVE  Inv'
<1> DEFINE after == FoldSet(ReturnMemory, [free |-> mFreeList, counts |-> useCount], Grouped)
<1>1. /\ UNCHANGED <<use, mUsedList, mCurrentFreeList, mTotalSize>>
      /\ mFreeList' = after.free /\ useCount' = after.counts
      /\ mGroups' = <<>> /\ barrier' = FALSE /\ retired' = {}
      /\ live' = {[c EXCEPT !.group = NoGroup] : c \in live}
      /\ mCurrentFreeList = NoGroup
  BY DEF BarrierEnd, Grouped
<1>2. TypeInv /\ OwnersInv /\ InsideInv /\ ForestInv
  BY DEF Inv
<1>3. Tree(after.free, after.counts, InHand \ Grouped, mTotalSize)
  <2>1. Grouped \in SUBSET InHand
    BY DEF InHand
  <2> QED
    BY <1>2, <2>1, ReturnAllKeepsTree DEF ForestInv
<1> HIDE DEF after
<1>4. Len(<<>>) = 0 /\ DOMAIN <<>> = {} /\ <<>> \in Seq(SUBSET NodeType)
  BY EmptySeq
<1>5. Grouped' = {}
  BY <1>1, <1>4 DEF Grouped, ToSet
<1>6. InHand' = InHand \ Grouped
  <2>1. InHand' = Range(mUsedList') \cup Grouped'
    BY DEF InHand
  <2> QED
    BY <1>1, <1>5, <2>1, InvFacts DEF InHand
<1>7. ForestInv'
  BY <1>1, <1>3, <1>6, TreeStep
<1> DEFINE home(c) == [c EXCEPT !.group = NoGroup]
<1>8. \A c \in live : /\ home(c) \in Chunks
                      /\ home(c).chunk = c.chunk /\ home(c).size = c.size
                      /\ home(c).align = c.align /\ home(c).group = NoGroup
  <2> SUFFICES ASSUME NEW c \in live
               PROVE  /\ home(c) \in Chunks
                      /\ home(c).chunk = c.chunk /\ home(c).size = c.size
                      /\ home(c).align = c.align /\ home(c).group = NoGroup
    OBVIOUS
  <2>1. c \in Chunks /\ NoGroup \in Nat
    BY <1>2 DEF TypeInv, NoGroup
  <2> QED
    BY <2>1 DEF Chunks
<1>9. live' = {home(c) : c \in live}
  BY <1>1
<1> HIDE DEF home
<1>10. TypeInv'
  <2>1. NoGroup \in 0 .. Len(mGroups')
    BY <1>1, <1>4 DEF NoGroup
  <2> QED
    BY <1>1, <1>2, <1>4, <1>8, <1>9, <2>1 DEF TypeInv
<1>11. OwnersInv'
  <2>1. DOMAIN mUsedList' = {c.chunk : c \in live'}
    <3>1. DOMAIN mUsedList = {c.chunk : c \in live}
      BY <1>2 DEF OwnersInv
    <3> QED
      BY <1>1, <1>8, <1>9, <3>1
  <2>2. \A c, d \in live' : mUsedList'[c.chunk] = mUsedList'[d.chunk] => c = d
    <3> SUFFICES ASSUME NEW c \in live, NEW d \in live,
                        mUsedList'[home(c).chunk] = mUsedList'[home(d).chunk]
                 PROVE  home(c) = home(d)
      BY <1>9
    <3>1. NodeOf(c) = NodeOf(d)
      BY <1>1, <1>8 DEF NodeOf
    <3>2. c = d
      BY <1>2, <3>1 DEF OwnersInv
    <3> QED
      BY <3>2
  <2> QED
    BY <1>1, <1>4, <1>5, <2>1, <2>2 DEF OwnersInv, NodeOf
<1>12. InsideInv'
  <2>1. \A c \in live : /\ InNode(c, NodeOf(c)) /\ c.chunk[2] % c.align = 0
    BY <1>2 DEF InsideInv
  <2>2. NoGroup \in 0 .. Len(mGroups')
    BY <1>1, <1>4 DEF NoGroup
  <2>3. \A c \in live' : /\ InNode(c, mUsedList'[c.chunk]) /\ c.chunk[2] % c.align = 0
                         /\ c.group \in 0 .. Len(mGroups')
    BY <1>1, <1>8, <1>9, <2>1, <2>2 DEF InNode, NodeOf
  <2> QED
    BY <2>3 DEF InsideInv, NodeOf, InNode
<1>13. KeptInv'
  BY <1>1 DEF KeptInv
<1> QED
  BY <1>7, <1>10, <1>11, <1>12, <1>13 DEF Inv

LEMMA ReleaseFreeInv ==
  ASSUME Inv, ReleaseFree, UNCHANGED use
  PROVE  Inv'
<1>1. /\ UNCHANGED <<use, mUsedList, useCount, mGroups, mCurrentFreeList, barrier, live, retired>>
      /\ mFreeList' = mFreeList \ Whole
      /\ mTotalSize' = mTotalSize - SizesOf(Whole)
  BY DEF ReleaseFree, groups, SizesOf, SizeOf, MapThenSumSet, MapThenFoldSet
<1>2. Tree(mFreeList \ Whole, useCount, InHand, mTotalSize - SizesOf(Whole))
  BY ReleaseAllKeepsTree DEF Inv, ForestInv, Whole
<1>3. InHand' = InHand /\ Grouped' = Grouped
  BY <1>1 DEF InHand, Grouped
<1>4. ForestInv'
  BY <1>1, <1>2, <1>3, TreeStep
<1>5. TypeInv' /\ OwnersInv' /\ InsideInv' /\ KeptInv'
  BY <1>1, <1>3 DEF Inv, TypeInv, OwnersInv, InsideInv, KeptInv, NodeOf, InNode
<1> QED
  BY <1>4, <1>5 DEF Inv

\* As the allocator begins, and as release(true) leaves it.
Nothing ==
  /\ use \in Uses /\ mUsedList = <<>> /\ mFreeList = {} /\ useCount = <<>> /\ mGroups = <<>>
  /\ mCurrentFreeList = NoGroup /\ barrier = FALSE /\ mTotalSize = 0
  /\ live = {} /\ retired = {}

LEMMA NothingOut == Nothing => Inv
<1> SUFFICES ASSUME Nothing PROVE Inv
  OBVIOUS
<1> USE DEF Nothing
<1>1. Len(<<>>) = 0 /\ DOMAIN <<>> = {} /\ <<>> \in Seq(SUBSET NodeType)
      /\ <<>> = [k \in DOMAIN <<>> |-> <<>>[k]]
  BY EmptySeq
<1>2. InHand = {} /\ Grouped = {}
  BY <1>1 DEF InHand, Grouped, Range, ToSet
<1>3. TypeInv
  <2>1. NoGroup \in 0 .. Len(<<>>)
    BY <1>1 DEF NoGroup
  <2> QED
    BY <1>1, <2>1 DEF TypeInv
<1>4. ForestInv
  BY <1>2, EmptyTree DEF ForestInv
<1>5. OwnersInv /\ InsideInv /\ KeptInv
  BY <1>1 DEF OwnersInv, InsideInv, KeptInv
<1> QED
  BY <1>3, <1>4, <1>5 DEF Inv

LEMMA ReleaseAllInv ==
  ASSUME Inv, ReleaseAll, UNCHANGED use
  PROVE  Inv'
<1>1. /\ mUsedList' = <<>> /\ mFreeList' = {} /\ useCount' = <<>> /\ mTotalSize' = 0
      /\ UNCHANGED <<use, mGroups, mCurrentFreeList, barrier, live, retired>>
      /\ ~ barrier /\ live = {}
  BY DEF ReleaseAll, groups
<1>2. mGroups = <<>> /\ retired = {} /\ barrier = FALSE /\ use \in Uses
  BY <1>1 DEF Inv, TypeInv
<1>3. mCurrentFreeList = NoGroup
  BY <1>1, InvFacts
<1>4. Nothing'
  BY <1>1, <1>2, <1>3 DEF Nothing
<1> QED
  BY <1>4, NothingOut, PTL

LEMMA Invariance == Spec => []Inv
<1>1. Init => Inv
  BY NothingOut DEF Init, Nothing
<1>2. Inv /\ [Next]_vars => Inv'
  <2> SUFFICES ASSUME Inv, [Next]_vars PROVE Inv'
    OBVIOUS
  <2>1. CASE UNCHANGED vars
    <3>1. /\ UNCHANGED <<use, mUsedList, mFreeList, useCount, mGroups, mCurrentFreeList,
                         barrier, mTotalSize, live, retired>>
      BY <2>1 DEF vars, lists, groups
    <3>2. InHand' = InHand /\ Grouped' = Grouped
      BY <3>1 DEF InHand, Grouped
    <3>3. ForestInv'
      BY <3>1, <3>2, TreeStep DEF Inv, ForestInv
    <3>4. TypeInv' /\ OwnersInv' /\ InsideInv' /\ KeptInv'
      BY <3>1, <3>2 DEF Inv, TypeInv, OwnersInv, InsideInv, KeptInv, NodeOf, InNode
    <3> QED
      BY <3>3, <3>4 DEF Inv
  <2>2. CASE Next
    <3>1. UNCHANGED use
      BY <2>2 DEF Next
    <3>2. CASE \E size \in use.sizes, separate \in BOOLEAN, align \in use.aligns :
                 Alloc(size, separate, align)
      BY <3>1, <3>2, AllocInv
    <3>3. CASE \E c \in live : Free(c)
      BY <3>1, <3>3, FreeInv
    <3>4. CASE BarrierBegin
      BY <3>1, <3>4, BarrierBeginInv
    <3>5. CASE BeginGroup
      BY <3>1, <3>5, BeginGroupInv
    <3>6. CASE EndGroup
      BY <3>1, <3>6, EndGroupInv
    <3>7. CASE BarrierEnd
      BY <3>1, <3>7, BarrierEndInv
    <3>8. CASE ReleaseFree
      BY <3>1, <3>8, ReleaseFreeInv
    <3>9. CASE ReleaseAll
      BY <3>1, <3>9, ReleaseAllInv
    <3> QED
      BY <2>2, <3>2, <3>3, <3>4, <3>5, <3>6, <3>7, <3>8, <3>9 DEF Next
  <2> QED
    BY <2>1, <2>2
<1> QED
  BY <1>1, <1>2, PTL DEF Spec

------------------------------------------------------------------------------
(* What follows.                                                            *)

\* The variables have the types that the code gives them.
THEOREM Typed == Spec => []TypeInv
BY Invariance, PTL DEF Inv

LEMMA LiveApart ==
  ASSUME Inv, NEW c \in live, NEW d \in live, c # d
  PROVE  ApartChunks(c, d)
<1>1. NodeOf(c) # NodeOf(d)
  BY DEF Inv, OwnersInv
<1>2. /\ NodeOf(c) \in InHand /\ NodeOf(d) \in InHand
      /\ NodeOf(c) \in NodeType /\ NodeOf(d) \in NodeType
      /\ Separate(NodeOf(c), NodeOf(d))
  BY <1>1, InvFacts
<1> QED
  BY <1>2, InSeparateNodes DEF Inv, TypeInv, InsideInv

\* A chunk is in a node that its group has, as long as it is known.
LEMMA HomeOf ==
  ASSUME Inv, NEW c \in live \cup retired
  PROVE  \E n \in InHand :
           /\ InNode(c, n) /\ c \in Chunks
           /\ \/ c.group \in DOMAIN mGroups /\ n \in mGroups[c.group]
              \/ \E e \in live : e.group = c.group /\ NodeOf(e) = n
<1>1. CASE c \in live
  BY <1>1, InvFacts DEF Inv, TypeInv, InsideInv
<1>2. CASE c \in retired
  BY <1>2 DEF Inv, TypeInv, KeptInv
<1> QED
  BY <1>1, <1>2

\* Two chunks that are out are apart, however blocks were cut and merged, and within
\* a barrier a chunk is apart from all those of another thread, even if both were
\* given back.
THEOREM Apartness == Spec => []ChunksApart
<1>1. Inv => ChunksApart
  <2> SUFFICES ASSUME Inv, NEW c \in live \cup retired, NEW d \in live \cup retired,
                      \/ c # d /\ {c, d} \subseteq live
                      \/ OtherGroups(c, d)
               PROVE  ApartChunks(c, d)
    BY DEF ChunksApart
  <2>1. CASE c # d /\ {c, d} \subseteq live
    BY <2>1, LiveApart
  <2>2. CASE OtherGroups(c, d)
    <3>1. c.group # d.group
      BY <2>2 DEF OtherGroups
    <3>2. PICK n \in InHand :
            /\ InNode(c, n) /\ c \in Chunks
            /\ \/ c.group \in DOMAIN mGroups /\ n \in mGroups[c.group]
               \/ \E e \in live : e.group = c.group /\ NodeOf(e) = n
      BY HomeOf
    <3>3. PICK m \in InHand :
            /\ InNode(d, m) /\ d \in Chunks
            /\ \/ d.group \in DOMAIN mGroups /\ m \in mGroups[d.group]
               \/ \E e \in live : e.group = d.group /\ NodeOf(e) = m
      BY HomeOf
    <3>4. n # m
      <4>1. \A e, f \in live : NodeOf(e) = NodeOf(f) => e = f
        BY DEF Inv, OwnersInv
      <4>2. \A e \in live, i \in DOMAIN mGroups : NodeOf(e) \notin mGroups[i]
        BY InvFacts DEF Inv, OwnersInv
      <4>3. \A i, j \in DOMAIN mGroups : i # j => mGroups[i] \cap mGroups[j] = {}
        BY DEF Inv, OwnersInv
      <4> QED
        BY <3>1, <3>2, <3>3, <4>1, <4>2, <4>3
    <3>5. n \in NodeType /\ m \in NodeType /\ Separate(n, m)
      BY <3>4, InvFacts
    <3> QED
      BY <3>2, <3>3, <3>5, InSeparateNodes
  <2> QED
    BY <2>1, <2>2
<1> QED
  BY <1>1, Invariance, PTL

\* Each chunk that is out is known to mUsedList, as aligned as was asked, and within
\* its node.
THEOREM Fitting == Spec => []ChunksFit
<1>1. Inv => ChunksFit
  BY DEF Inv, OwnersInv, InsideInv, ChunksFit, NodeOf, InNode, Within
<1> QED
  BY <1>1, Invariance, PTL

\* The nodes that are not cut are apart, and what they have is what the blocks have
\* that were taken from outside and not given back.
THEOREM Accounting == Spec => []NothingLost
<1>1. Inv => NothingLost
  <2> SUFFICES ASSUME Inv PROVE NothingLost
    OBVIOUS
  <2>1. Leaves = Tips(mFreeList, InHand) /\ Held = Heads(Leaves)
    BY InvFacts
  <2>2. \A n, m \in Leaves : n # m => Separate(n, m)
    BY <2>1, InvFacts DEF Tips
  <2>3. SizesOf(Leaves) = mTotalSize /\ SizesOfBlocks(Held) = mTotalSize
    BY <2>1 DEF Inv, ForestInv, Tree, TreeSum
  <2> HIDE DEF Leaves, Held
  <2> QED
    BY <2>2, <2>3
    DEF NothingLost, Separate, SizesOf, SizeOf, SizesOfBlocks, SizeOfBlock,
        MapThenSumSet, MapThenFoldSet
<1> QED
  BY <1>1, Invariance, PTL

\* A cut node of the greatest length would have two free parts.
LEMMA NoneCut ==
  ASSUME NEW free, NEW counts, NEW total, Tree(free, counts, {}, total)
  PROVE  DOMAIN counts = {}
<1> SUFFICES ASSUME DOMAIN counts # {} PROVE FALSE
  OBVIOUS
<1> DEFINE N == Nodes(free, counts, {})
<1>1. PICK k \in Nat : \A n \in N : Len(n) <= k
  BY DEF Tree, Shape, TreeDepth
<1>2. \A n \in DOMAIN counts : n \in N /\ n \in NodeType /\ Len(n) \in Nat
  BY NodeFacts DEF Tree, Shape, TreeTyped, Nodes
<1> DEFINE Heights == {k - Len(n) : n \in DOMAIN counts}
<1>3. Heights \in SUBSET Nat /\ Heights # {}
  BY <1>1, <1>2
<1>4. PICK h \in Heights : \A j \in Heights : h <= j
  <2> HIDE DEF Heights
  <2> QED
    BY <1>3, LeastNumber
<1>5. PICK p \in DOMAIN counts : h = k - Len(p)
  OBVIOUS
<1>6. \A q \in DOMAIN counts : Len(q) <= Len(p)
  <2> TAKE q \in DOMAIN counts
  <2>1. k - Len(q) \in Heights
    OBVIOUS
  <2> HIDE DEF Heights
  <2>2. h <= k - Len(q)
    BY <1>4, <2>1
  <2> QED
    BY <1>2, <1>5, <2>2
<1>7. PICK c, d \in N : /\ Halves(p, c, d)
                        /\ counts[p] = Busy(c, free) + Busy(d, free)
                        /\ counts[p] \in Nat \ {0}
  BY DEF Tree, Shape, TreeCut
<1>8. \A x \in {c, d} : x \notin DOMAIN counts
  <2> SUFFICES ASSUME NEW x \in {c, d}, x \in DOMAIN counts PROVE FALSE
    OBVIOUS
  <2>1. x \in NodeType /\ HasParent(x) /\ Front(x) = p
    BY <1>2, <1>7 DEF Halves
  <2>2. Len(p) = Len(x) - 1 /\ Len(x) \in Nat
    BY <1>2, <2>1, NodeFacts
  <2> QED
    BY <1>6, <2>2
<1>9. c \in free /\ d \in free
  BY <1>7, <1>8 DEF Nodes, Tips
<1> QED
  BY <1>7, <1>9 DEF Busy

\* When everything was given back and no barrier is open the blocks are whole.
THEOREM Merging == Spec => []AllMerged
<1>1. Inv => AllMerged
  <2> SUFFICES ASSUME Inv, live = {}, ~ barrier
               PROVE  mFreeList = Whole /\ DOMAIN useCount = {}
    BY DEF AllMerged
  <2>1. InHand = {}
    <3>1. mGroups = <<>> /\ DOMAIN <<>> = {}
      BY DEF Inv, TypeInv
    <3>2. Grouped = {}
      BY <3>1 DEF Grouped, ToSet
    <3>3. Range(mUsedList) = {}
      BY InvFacts
    <3> QED
      BY <3>2, <3>3 DEF InHand
  <2>2. DOMAIN useCount = {}
    BY <2>1, NoneCut DEF Inv, ForestInv
  <2>3. \A n \in mFreeList : ~ HasParent(n)
    <3> SUFFICES ASSUME NEW n \in mFreeList, HasParent(n) PROVE FALSE
      OBVIOUS
    <3>1. n \in Nodes(mFreeList, useCount, InHand) /\ Shape(mFreeList, useCount, InHand)
      BY DEF Nodes, Tips, Inv, ForestInv, Tree
    <3>2. Front(n) \in DOMAIN useCount
      BY <3>1, HalfOf
    <3> QED
      BY <2>2, <3>2
  <2> QED
    BY <2>2, <2>3 DEF Whole
<1> QED
  BY <1>1, Invariance, PTL

=============================================================================

--------------------- MODULE DeferBufferAllocator_proof ---------------------
(***************************************************************************)
(* Proofs about DeferBufferAllocator: buffers whose lifetimes overlap are  *)
(* planned apart, what is unused on the line is one node per gap, and a    *)
(* run that starts without an error uses the block that is there.          *)
(*                                                                         *)
(* While a session is resized no offset is known.  The proofs follow the   *)
(* offset that each node would have if compute came now, and the place on  *)
(* the line of the node it was fused into: a wider node moves all that     *)
(* comes after it, so that what is kept is who comes first.                *)
(***************************************************************************)
EXTENDS DeferBufferAllocator, FoldLemmas, SequenceTheorems

PlanType == [line : Seq(Nat), size : Seq(Nat \ {0}), usage : Seq(BOOLEAN),
             parent : Seq(Nat), offset : Seq(Nat), free : SUBSET Nat]

Typed(p) ==
  /\ p \in PlanType
  /\ Len(p.usage) = Len(p.size) /\ Len(p.parent) = Len(p.size) /\ Len(p.offset) = Len(p.size)

\* at has the offset of each node, pos where on the line its root is, and depth
\* how far below the root it is.
OnLine(p, pos) ==
  \A i \in 1 .. Len(p.line) :
    p.line[i] \in Nodes(p) /\ pos[p.line[i]] = i /\ p.parent[p.line[i]] = None
Rooted(p, at, pos, depth) ==
  \A n \in Nodes(p) :
    /\ pos[n] \in 1 .. Len(p.line)
    /\ p.parent[n] = None => p.line[pos[n]] = n
    /\ p.parent[n] # None =>
         /\ p.parent[n] \in Nodes(p) /\ pos[p.parent[n]] = pos[n]
         /\ depth[p.parent[n]] < depth[n]
         /\ at[n] = at[p.parent[n]] + p.offset[n]
EndOf(p, at, i) == at[p.line[i]] + p.size[p.line[i]]
Packed(p, at) ==
  /\ p.line # <<>> => at[p.line[1]] = 0
  /\ \A i \in 1 .. Len(p.line) - 1 : at[p.line[i + 1]] = EndOf(p, at, i)
Laid(p, at, pos, depth) ==
  /\ Typed(p)
  /\ at \in [Nodes(p) -> Nat] /\ pos \in [Nodes(p) -> Nat] /\ depth \in [Nodes(p) -> Nat]
  /\ OnLine(p, pos) /\ Rooted(p, at, pos, depth) /\ Packed(p, at)
  /\ p.line = <<>> => p = NoPlan

\* From plan p to plan q no node came before one that it was not before, or
\* nearer to one after it, or to the end.
Spread(p, at, pos, q, at2, pos2) ==
  /\ Nodes(p) \subseteq Nodes(q)
  /\ \A n, m \in Nodes(p) : pos[n] <= pos[m] =>
       pos2[n] <= pos2[m] /\ at[m] + at2[n] <= at2[m] + at[n]
  /\ \A n \in Nodes(p) :
       EndOf(p, at, Len(p.line)) + at2[n] <= EndOf(q, at2, Len(q.line)) + at[n]

\* The nodes on the line that are in use; all others on the line are free, and no
\* two of them are neighbours.
Line(p) == {p.line[i] : i \in 1 .. Len(p.line)}
InUse(p) == {n \in Line(p) : p.usage[n]}
Sorted(p) ==
  /\ p.free = Line(p) \ InUse(p)
  /\ \A i \in 1 .. Len(p.line) - 1 : p.line[i] \in InUse(p) \/ p.line[i + 1] \in InUse(p)

Chunk == [node : Nat, size : Nat \ {0}]
Before(at, pos, c, d) == pos[c.node] <= pos[d.node] /\ at[c.node] + c.size <= at[d.node]
\* The nodes in use are those of the buffers that are not yet free again.
Holds(p, busy, bufs) ==
  /\ busy \subseteq 1 .. Len(bufs)
  /\ InUse(p) = {bufs[b].node : b \in busy}
  /\ \A b \in busy : p.size[bufs[b].node] = bufs[b].size
  /\ \A a, b \in busy : bufs[a].node = bufs[b].node => a = b
\* What may hold data together is apart, and everything lies before the end.
Spaced(p, at, pos, bufs, pairs) ==
  /\ bufs \in Seq(Chunk) /\ pairs \subseteq SUBSET (1 .. Len(bufs))
  /\ \A b \in 1 .. Len(bufs) :
       bufs[b].node \in Nodes(p) /\ at[bufs[b].node] + bufs[b].size <= EndOf(p, at, Len(p.line))
  /\ \A a, b \in 1 .. Len(bufs) : {a, b} \in pairs =>
       Before(at, pos, bufs[a], bufs[b]) \/ Before(at, pos, bufs[b], bufs[a])

Kept(p, at, pos, depth, busy, bufs, pairs) ==
  /\ Laid(p, at, pos, depth) /\ Sorted(p)
  /\ Holds(p, busy, bufs) /\ Spaced(p, at, pos, bufs, pairs)
Planned(p, busy, bufs, pairs) ==
  \E at, pos, depth : Kept(p, at, pos, depth, busy, bufs, pairs)

------------------------------------------------------------------------------
(* Sequences with an element put in or taken out.                           *)

\* t is s with e at place i, and s without its place i.
PutIn(t, s, i, e) ==
  /\ Len(t) = Len(s) + 1
  /\ \A j \in 1 .. Len(s) + 1 :
       t[j] = IF j < i THEN s[j] ELSE IF j = i THEN e ELSE s[j - 1]
TakenOut(t, s, i) ==
  /\ Len(t) = Len(s) - 1
  /\ \A j \in 1 .. Len(s) - 1 : t[j] = IF j < i THEN s[j] ELSE s[j + 1]

LEMMA InsertAtFacts ==
  ASSUME NEW S, NEW s \in Seq(S), NEW i \in 1 .. Len(s) + 1, NEW e \in S
  PROVE  InsertAt(s, i, e) \in Seq(S) /\ PutIn(InsertAt(s, i, e), s, i, e)
<1> DEFINE l == SubSeq(s, 1, i - 1)
           r == SubSeq(s, i, Len(s))
<1>1. Len(s) \in Nat /\ i \in Nat \ {0} /\ \A j \in 1 .. Len(s) : s[j] \in S
  BY LenProperties
<1>2. /\ l \in Seq(S) /\ Len(l) = i - 1
      /\ \A j \in 1 .. i - 1 : l[j] = s[j]
  <2>1. /\ l \in Seq(S) /\ Len(l) = IF 1 <= i - 1 THEN (i - 1) - 1 + 1 ELSE 0
        /\ \A j \in 1 .. (i - 1) - 1 + 1 : l[j] = s[1 + j - 1]
    <3>1. \A j \in 1 .. i - 1 : s[j] \in S
      BY <1>1
    <3> QED
      BY <1>1, <3>1, SubSeqProperties
  <2> HIDE DEF l
  <2> QED
    BY <1>1, <2>1
<1>3. /\ r \in Seq(S) /\ Len(r) = Len(s) - i + 1
      /\ \A j \in 1 .. Len(s) - i + 1 : r[j] = s[i + j - 1]
  <2>1. /\ r \in Seq(S) /\ Len(r) = IF i <= Len(s) THEN Len(s) - i + 1 ELSE 0
        /\ \A j \in 1 .. Len(s) - i + 1 : r[j] = s[i + j - 1]
    <3>1. \A j \in i .. Len(s) : s[j] \in S
      BY <1>1
    <3> QED
      BY <1>1, <3>1, SubSeqProperties
  <2> HIDE DEF r
  <2> QED
    BY <1>1, <2>1
<1>4. <<e>> \in Seq(S) /\ Len(<<e>>) = 1 /\ <<e>>[1] = e
  OBVIOUS
<1> HIDE DEF l, r
<1> DEFINE le == l \o <<e>>
<1>5. /\ le \in Seq(S) /\ Len(le) = i
      /\ \A j \in 1 .. i : le[j] = IF j < i THEN s[j] ELSE e
  <2>1. /\ le \in Seq(S) /\ Len(le) = (i - 1) + 1
        /\ \A j \in 1 .. (i - 1) + 1 : le[j] = IF j <= i - 1 THEN l[j] ELSE <<e>>[j - (i - 1)]
    BY <1>2, <1>4, ConcatProperties
  <2> HIDE DEF le
  <2> QED
    BY <1>1, <1>2, <1>4, <2>1
<1> HIDE DEF le
<1>6. /\ le \o r \in Seq(S) /\ Len(le \o r) = i + (Len(s) - i + 1)
      /\ \A j \in 1 .. i + (Len(s) - i + 1) :
           (le \o r)[j] = IF j <= i THEN le[j] ELSE r[j - i]
  BY <1>3, <1>5, ConcatProperties
<1>7. InsertAt(s, i, e) = le \o r
  BY DEF InsertAt, le, l, r
<1>8. ASSUME NEW j \in 1 .. Len(s) + 1
      PROVE  (le \o r)[j] = IF j < i THEN s[j] ELSE IF j = i THEN e ELSE s[j - 1]
  <2>0. j \in Nat /\ i \in Nat /\ Len(s) \in Nat
    BY <1>1
  <2>1. CASE j <= i
    BY <1>1, <1>5, <1>6, <2>1
  <2>2. CASE j > i
    <3>1. j - i \in 1 .. Len(s) - i + 1 /\ i + (j - i) - 1 = j - 1 /\ ~ (j < i) /\ j # i
      BY <1>1, <2>2
    <3>2. (le \o r)[j] = r[j - i]
      BY <1>1, <1>6, <2>2
    <3> QED
      BY <1>3, <3>1, <3>2
  <2> QED
    <3>1. j <= i \/ j > i
      BY <2>0
    <3> QED
      BY <2>1, <2>2, <3>1, Zenon
<1>9. i + (Len(s) - i + 1) = Len(s) + 1
  BY <1>1
<1> HIDE DEF le, r
<1> QED
  BY <1>6, <1>7, <1>8, <1>9 DEF PutIn

LEMMA RemoveAtFacts ==
  ASSUME NEW S, NEW s \in Seq(S), NEW i \in 1 .. Len(s)
  PROVE  RemoveAt(s, i) \in Seq(S) /\ TakenOut(RemoveAt(s, i), s, i)
<1> DEFINE l == SubSeq(s, 1, i - 1)
           r == SubSeq(s, i + 1, Len(s))
<1>1. Len(s) \in Nat /\ i \in Nat \ {0} /\ \A j \in 1 .. Len(s) : s[j] \in S
  BY LenProperties
<1>2. /\ l \in Seq(S) /\ Len(l) = i - 1
      /\ \A j \in 1 .. i - 1 : l[j] = s[j]
  <2>1. /\ l \in Seq(S) /\ Len(l) = IF 1 <= i - 1 THEN (i - 1) - 1 + 1 ELSE 0
        /\ \A j \in 1 .. (i - 1) - 1 + 1 : l[j] = s[1 + j - 1]
    <3>1. \A j \in 1 .. i - 1 : s[j] \in S
      BY <1>1
    <3> QED
      BY <1>1, <3>1, SubSeqProperties
  <2> HIDE DEF l
  <2> QED
    BY <1>1, <2>1
<1>3. /\ r \in Seq(S) /\ Len(r) = Len(s) - i
      /\ \A j \in 1 .. Len(s) - i : r[j] = s[i + j]
  <2>1. /\ r \in Seq(S) /\ Len(r) = IF i + 1 <= Len(s) THEN Len(s) - (i + 1) + 1 ELSE 0
        /\ \A j \in 1 .. Len(s) - (i + 1) + 1 : r[j] = s[(i + 1) + j - 1]
    <3>1. \A j \in i + 1 .. Len(s) : s[j] \in S
      BY <1>1
    <3> QED
      BY <1>1, <3>1, SubSeqProperties
  <2> HIDE DEF r
  <2> QED
    BY <1>1, <2>1
<1> HIDE DEF l, r
<1>4. /\ l \o r \in Seq(S) /\ Len(l \o r) = (i - 1) + (Len(s) - i)
      /\ \A j \in 1 .. (i - 1) + (Len(s) - i) :
           (l \o r)[j] = IF j <= i - 1 THEN l[j] ELSE r[j - (i - 1)]
  <2>1. /\ l \o r \in Seq(S) /\ Len(l \o r) = Len(l) + Len(r)
        /\ \A j \in 1 .. Len(l) + Len(r) :
             (l \o r)[j] = IF j <= Len(l) THEN l[j] ELSE r[j - Len(l)]
    BY <1>2, <1>3, ConcatProperties
  <2>2. Len(l) = i - 1 /\ Len(r) = Len(s) - i
    BY <1>2, <1>3
  <2> QED
    BY <2>1, <2>2
<1>5. RemoveAt(s, i) = l \o r
  BY DEF RemoveAt, l, r
<1>6. ASSUME NEW j \in 1 .. Len(s) - 1
      PROVE  (l \o r)[j] = IF j < i THEN s[j] ELSE s[j + 1]
  <2>1. CASE j < i
    BY <1>1, <1>2, <1>4, <2>1
  <2>2. CASE ~ (j < i)
    <3>1. j - (i - 1) \in 1 .. Len(s) - i /\ i + (j - (i - 1)) = j + 1
      BY <1>1, <2>2
    <3>2. (l \o r)[j] = r[j - (i - 1)]
      BY <1>1, <1>4, <2>2
    <3> QED
      BY <1>3, <2>2, <3>1, <3>2
  <2> QED
    BY <1>1, <2>1, <2>2
<1> QED
  <2>1. (i - 1) + (Len(s) - i) = Len(s) - 1
    BY <1>1
  <2> HIDE DEF l, r
  <2>2. l \o r \in Seq(S) /\ Len(l \o r) = Len(s) - 1
    BY <1>4, <2>1
  <2> QED
    BY <1>5, <1>6, <2>2 DEF TakenOut

------------------------------------------------------------------------------
(* What Laid says.                                                          *)

LEMMA LaidFacts ==
  ASSUME NEW p, NEW at, NEW pos, NEW depth, Laid(p, at, pos, depth)
  PROVE  /\ Len(p.line) \in Nat /\ Len(p.size) \in Nat
         /\ p.line \in Seq(Nat) /\ p.size \in Seq(Nat \ {0}) /\ p.usage \in Seq(BOOLEAN)
         /\ p.parent \in Seq(Nat) /\ p.offset \in Seq(Nat) /\ p.free \in SUBSET Nat
         /\ \A n \in Nodes(p) : /\ n \in Nat \ {0} /\ p.size[n] \in Nat \ {0}
                                /\ p.usage[n] \in BOOLEAN
                                /\ p.parent[n] \in Nat /\ p.offset[n] \in Nat
                                /\ at[n] \in Nat /\ pos[n] \in Nat /\ depth[n] \in Nat
         /\ \A i \in 1 .. Len(p.line) :
              /\ p.line[i] \in Nodes(p) /\ IndexOf(p, p.line[i]) = i
              /\ EndOf(p, at, i) \in Nat
         /\ Nodes(p) # {} => Len(p.line) > 0
<1>1. /\ p.line \in Seq(Nat) /\ p.size \in Seq(Nat \ {0}) /\ p.usage \in Seq(BOOLEAN)
      /\ p.parent \in Seq(Nat) /\ p.offset \in Seq(Nat) /\ p.free \in SUBSET Nat
      /\ Len(p.usage) = Len(p.size) /\ Len(p.parent) = Len(p.size)
      /\ Len(p.offset) = Len(p.size)
  BY DEF Laid, Typed, PlanType
<1>2. Len(p.line) \in Nat /\ Len(p.size) \in Nat
  BY <1>1, LenProperties
<1>3. ASSUME NEW n \in Nodes(p)
      PROVE  /\ n \in Nat \ {0} /\ p.size[n] \in Nat \ {0}
             /\ p.usage[n] \in BOOLEAN
             /\ p.parent[n] \in Nat /\ p.offset[n] \in Nat
             /\ at[n] \in Nat /\ pos[n] \in Nat /\ depth[n] \in Nat
  <2>1. n \in 1 .. Len(p.size)
    BY DEF Nodes
  <2>2. n \in Nat \ {0}
    BY <1>2, <2>1
  <2>3. /\ p.size[n] \in Nat \ {0} /\ p.usage[n] \in BOOLEAN
        /\ p.parent[n] \in Nat /\ p.offset[n] \in Nat
    BY <1>1, <2>1, ElementOfSeq
  <2> QED
    BY <2>2, <2>3 DEF Laid
<1>4. ASSUME NEW i \in 1 .. Len(p.line)
      PROVE  /\ p.line[i] \in Nodes(p) /\ IndexOf(p, p.line[i]) = i
             /\ EndOf(p, at, i) \in Nat
  <2>1. p.line[i] \in Nodes(p) /\ \A j \in 1 .. Len(p.line) : p.line[j] = p.line[i] => j = i
    BY DEF Laid, OnLine
  <2>2. IndexOf(p, p.line[i]) = i
    BY <2>1 DEF IndexOf
  <2> QED
    BY <1>3, <2>1, <2>2 DEF EndOf
<1>5. Nodes(p) # {} => Len(p.line) > 0
  <2> SUFFICES ASSUME NEW n \in Nodes(p) PROVE Len(p.line) > 0
    OBVIOUS
  <2>1. pos[n] \in 1 .. Len(p.line)
    BY DEF Laid, Rooted
  <2> QED
    BY <1>2, <2>1
<1> QED
  BY <1>1, <1>2, <1>3, <1>4, <1>5

\* Along the line addresses grow.
LEMMA InOrder ==
  ASSUME NEW p, NEW at, NEW pos, NEW depth, Laid(p, at, pos, depth),
         NEW i \in 1 .. Len(p.line)
  PROVE  \A j \in 1 .. Len(p.line) :
           /\ i < j => EndOf(p, at, i) <= at[p.line[j]]
           /\ i <= j => EndOf(p, at, i) <= EndOf(p, at, j)
<1> DEFINE Far == {k \in Nat : /\ i + k + 1 <= Len(p.line)
                               /\ ~ (EndOf(p, at, i) <= at[p.line[i + k + 1]])}
<1>1. Far = {}
  <2> SUFFICES ASSUME Far # {} PROVE FALSE
    OBVIOUS
  <2>1. PICK k \in Far : \A n \in Far : k <= n
    BY LeastNumber
  <2>2. /\ k \in Nat /\ i \in 1 .. Len(p.line) /\ Len(p.line) \in Nat
        /\ i + k + 1 <= Len(p.line) /\ ~ (EndOf(p, at, i) <= at[p.line[i + k + 1]])
    BY LaidFacts
  <2>3. /\ i + k \in 1 .. Len(p.line) - 1 /\ (i + k) + 1 = i + k + 1
        /\ i + k \in 1 .. Len(p.line)
    BY <2>2
  <2>4. at[p.line[i + k + 1]] = EndOf(p, at, i + k)
    BY <2>3 DEF Laid, Packed
  <2>5. /\ EndOf(p, at, i + k) = at[p.line[i + k]] + p.size[p.line[i + k]]
        /\ at[p.line[i + k]] \in Nat /\ p.size[p.line[i + k]] \in Nat
        /\ EndOf(p, at, i) \in Nat
    BY <2>3, LaidFacts DEF EndOf
  <2>6. CASE k = 0
    <3>1. i + k = i
      BY <2>6, <2>2
    <3> QED
      BY <2>2, <2>4, <2>5, <3>1
  <2>7. CASE k # 0
    <3>1. k - 1 \in Nat /\ ~ (k <= k - 1) /\ i + (k - 1) + 1 = i + k /\ i + k <= Len(p.line)
      BY <2>2, <2>7
    <3>2. k - 1 \notin Far
      <4> HIDE DEF Far
      <4> QED
        BY <2>1, <3>1
    <3>3. EndOf(p, at, i) <= at[p.line[i + k]]
      BY <3>1, <3>2
    <3> QED
      BY <2>2, <2>4, <2>5, <3>3, SMTT(30)
  <2> QED
    BY <2>6, <2>7
<1>2. ASSUME NEW j \in 1 .. Len(p.line), i < j
      PROVE  EndOf(p, at, i) <= at[p.line[j]]
  <2>1. /\ j - i - 1 \in Nat /\ i + (j - i - 1) + 1 = j
        /\ i + (j - i - 1) + 1 <= Len(p.line)
    BY <1>2, LaidFacts
  <2>2. j - i - 1 \notin Far
    BY <1>1
  <2> QED
    BY <2>1, <2>2
<1>3. ASSUME NEW j \in 1 .. Len(p.line), i <= j
      PROVE  EndOf(p, at, i) <= EndOf(p, at, j)
  <2>1. CASE i = j
    BY <2>1, LaidFacts
  <2>2. CASE i # j
    <3>1. i < j
      BY <1>3, <2>2, LaidFacts
    <3>2. EndOf(p, at, i) <= at[p.line[j]]
      BY <1>2, <3>1
    <3>3. /\ EndOf(p, at, j) = at[p.line[j]] + p.size[p.line[j]]
          /\ at[p.line[j]] \in Nat /\ p.size[p.line[j]] \in Nat /\ EndOf(p, at, i) \in Nat
      BY LaidFacts DEF EndOf
    <3> QED
      BY <3>2, <3>3
  <2> QED
    BY <2>1, <2>2
<1> QED
  BY <1>2, <1>3

\* The sizes of the first nodes of the line add up to where they end.
LEMMA LineSum ==
  ASSUME NEW p, NEW at, NEW pos, NEW depth, Laid(p, at, pos, depth),
         NEW i \in 0 .. Len(p.line)
  PROVE  SumOver(p.size, {p.line[j] : j \in 1 .. i}) = IF i = 0 THEN 0 ELSE EndOf(p, at, i)
<1> DEFINE First(k) == {p.line[j] : j \in 1 .. k}
           Wrong == {k \in 0 .. Len(p.line) :
                       SumOver(p.size, First(k)) # IF k = 0 THEN 0 ELSE EndOf(p, at, k)}
<1>1. p.size \in [Nodes(p) -> Nat] /\ IsFiniteSet(Nodes(p))
  <2>1. p.size \in [1 .. Len(p.size) -> Nat \ {0}] /\ Len(p.size) \in Nat
    BY LaidFacts, LenProperties
  <2>2. p.size \in [Nodes(p) -> Nat]
    BY <2>1 DEF Nodes
  <2>3. 1 \in Int /\ Len(p.size) \in Int
    BY <2>1
  <2>4. IsFiniteSet(1 .. Len(p.size))
    BY <2>3, FS_Interval
  <2> QED
    BY <2>2, <2>4 DEF Nodes
<1>2. \A k \in 0 .. Len(p.line) : First(k) \in SUBSET Nodes(p) /\ IsFiniteSet(First(k))
  <2> SUFFICES ASSUME NEW k \in 0 .. Len(p.line)
               PROVE  First(k) \in SUBSET Nodes(p) /\ IsFiniteSet(First(k))
    OBVIOUS
  <2>1. First(k) \in SUBSET Nodes(p)
    <3>1. \A j \in 1 .. k : j \in 1 .. Len(p.line)
      BY LaidFacts
    <3> QED
      BY <3>1, LaidFacts
  <2> QED
    BY <1>1, <2>1, FS_Subset
<1>3. Wrong = {}
  <2> SUFFICES ASSUME Wrong # {} PROVE FALSE
    OBVIOUS
  <2>1. Wrong \in SUBSET Nat
    BY LaidFacts
  <2>2. PICK k \in Wrong : \A n \in Wrong : k <= n
    <3> HIDE DEF Wrong
    <3> QED
      BY <2>1, LeastNumber
  <2>3. /\ k \in 0 .. Len(p.line) /\ Len(p.line) \in Nat
        /\ SumOver(p.size, First(k)) # IF k = 0 THEN 0 ELSE EndOf(p, at, k)
    BY LaidFacts
  <2>4. SumOver(p.size, {}) = 0
    <3>1. IsFiniteSet({}) /\ {} \in SUBSET Nodes(p)
      BY FS_EmptySet
    <3> QED
      BY <1>1, <3>1, SumOverFacts
  <2>5. k # 0
    <3>1. First(0) = {}
      OBVIOUS
    <3> HIDE DEF First
    <3> QED
      BY <2>3, <2>4, <3>1
  <2>6. k - 1 \in 0 .. Len(p.line) /\ ~ (k <= k - 1) /\ k \in 1 .. Len(p.line)
    BY <2>3, <2>5
  <2>7. k - 1 \notin Wrong
    <3> HIDE DEF Wrong
    <3> QED
      BY <2>2, <2>6
  <2>8. SumOver(p.size, First(k - 1)) = IF k - 1 = 0 THEN 0 ELSE EndOf(p, at, k - 1)
    BY <2>6, <2>7
  <2>9. p.line[k] \in First(k) /\ First(k) \ {p.line[k]} = First(k - 1)
    <3>1. \A j \in 1 .. k : j \in 1 .. Len(p.line) /\ (p.line[j] = p.line[k] => j = k)
      BY <2>3, <2>6, LaidFacts DEF Laid, OnLine
    <3>2. k \in 1 .. k /\ \A j \in 1 .. k : j \in 1 .. k - 1 <=> j # k
      BY <2>6
    <3>3. \A j \in 1 .. k - 1 : j \in 1 .. k
      BY <2>6
    <3> QED
      BY <3>1, <3>2, <3>3
  <2> HIDE DEF First, Wrong
  <2>10. SumOver(p.size, First(k)) = p.size[p.line[k]] + SumOver(p.size, First(k - 1))
    <3>1. First(k) \in SUBSET Nodes(p) /\ IsFiniteSet(First(k))
      BY <1>2, <2>3
    <3>2. SumOver(p.size, First(k))
            = p.size[p.line[k]] + SumOver(p.size, First(k) \ {p.line[k]})
      BY <1>1, <2>9, <3>1, SumOverFacts
    <3> QED
      BY <2>9, <3>2
  <2>11. p.size[p.line[k]] \in Nat
    BY <2>6, LaidFacts
  <2>12. CASE k = 1
    <3>1. at[p.line[1]] = 0
      <4>1. p.line # <<>>
        BY <2>6, <2>12, <2>3
      <4> QED
        BY <4>1 DEF Laid, Packed
    <3> QED
      BY <2>3, <2>8, <2>10, <2>11, <2>12, <3>1 DEF EndOf
  <2>13. CASE k # 1
    <3>1. k - 1 \in 1 .. Len(p.line) - 1 /\ (k - 1) + 1 = k /\ k - 1 \in 1 .. Len(p.line)
      BY <2>6, <2>3, <2>13
    <3>2. at[p.line[k]] = EndOf(p, at, k - 1)
      BY <3>1 DEF Laid, Packed
    <3>3. EndOf(p, at, k) = at[p.line[k]] + p.size[p.line[k]]
      BY DEF EndOf
    <3>4. EndOf(p, at, k - 1) \in Nat
      BY <3>1, LaidFacts
    <3> QED
      BY <2>3, <2>5, <2>6, <2>8, <2>10, <2>11, <2>13, <3>1, <3>2, <3>3, <3>4
  <2> QED
    BY <2>12, <2>13
<1> QED
  BY <1>3

LEMMA ExtentIsEnd ==
  ASSUME NEW p, NEW at, NEW pos, NEW depth, Laid(p, at, pos, depth), p.line # <<>>
  PROVE  Extent(p) = EndOf(p, at, Len(p.line))
<1>1. /\ p.line \in Seq(Nat) /\ Len(p.line) \in Nat /\ Len(p.line) # 0
      /\ DOMAIN p.line = 1 .. Len(p.line)
  BY LaidFacts, LenProperties, EmptySeq
<1>2. ToSet(p.line) = {p.line[j] : j \in 1 .. Len(p.line)}
  BY <1>1 DEF ToSet
<1>3. Len(p.line) \in 0 .. Len(p.line)
  BY <1>1
<1>4. SumOver(p.size, {p.line[j] : j \in 1 .. Len(p.line)}) = EndOf(p, at, Len(p.line))
  BY <1>1, <1>3, LineSum
<1> QED
  BY <1>2, <1>4 DEF Extent, SumOver

\* compute gives every node the offset that the proofs follow.
LEMMA OffsetsAre ==
  ASSUME NEW p, NEW at, NEW pos, NEW depth, Laid(p, at, pos, depth)
  PROVE  Offsets(p) = at
<1> DEFINE First(n) == {p.line[j] : j \in 1 .. IndexOf(p, n) - 1}
           Own(n) == FoldFunctionOnSet(+, 0, p.size, First(n))
           Eqn(g) == g = [n \in Nodes(p) |->
                            IF p.parent[n] # None THEN g[p.parent[n]] + p.offset[n]
                            ELSE Own(n)]
<1>1. ASSUME NEW n \in Nodes(p), p.parent[n] = None
      PROVE  Own(n) = at[n]
  <2> DEFINE i == pos[n]
  <2>1. i \in 1 .. Len(p.line) /\ p.line[i] = n /\ Len(p.line) \in Nat
    BY <1>1, LaidFacts DEF Laid, Rooted
  <2>2. IndexOf(p, n) = i
    BY <2>1, LaidFacts
  <2>3. i - 1 \in 0 .. Len(p.line)
    BY <2>1
  <2>4. Own(n) = SumOver(p.size, {p.line[j] : j \in 1 .. i - 1})
    BY <2>2 DEF SumOver
  <2> HIDE DEF i
  <2>5. Own(n) = IF i - 1 = 0 THEN 0 ELSE EndOf(p, at, i - 1)
    BY <2>3, <2>4, LineSum
  <2> HIDE DEF Own
  <2>6. CASE i = 1
    <3>1. p.line # <<>>
      BY <2>1
    <3> QED
      BY <2>1, <2>5, <2>6, <3>1 DEF Laid, Packed
  <2>7. CASE i # 1
    <3>1. i - 1 \in 1 .. Len(p.line) - 1 /\ (i - 1) + 1 = i /\ i - 1 # 0
      BY <2>1, <2>7
    <3> QED
      BY <2>1, <2>5, <3>1 DEF Laid, Packed
  <2> QED
    BY <2>6, <2>7
<1> HIDE DEF Own
<1>2. \A n \in Nodes(p) :
        at[n] = IF p.parent[n] # None THEN at[p.parent[n]] + p.offset[n] ELSE Own(n)
  BY <1>1 DEF Laid, Rooted
<1>3. Eqn(at)
  <2>1. at = [n \in Nodes(p) |-> at[n]]
    BY DEF Laid
  <2> QED
    BY <1>2, <2>1
<1> DEFINE g == CHOOSE g : Eqn(g)
<1>4. Eqn(g)
  BY <1>3, Zenon
<1>5. Offsets(p) = g
  BY DEF Offsets, Own
<1> HIDE DEF g
<1>6. /\ g = [n \in Nodes(p) |-> g[n]]
      /\ \A n \in Nodes(p) :
           g[n] = IF p.parent[n] # None THEN g[p.parent[n]] + p.offset[n] ELSE Own(n)
  BY <1>4
<1> HIDE DEF Eqn
<1> DEFINE Deep == {k \in Nat : \E n \in Nodes(p) : depth[n] = k /\ g[n] # at[n]}
<1>7. Deep = {}
  <2> SUFFICES ASSUME Deep # {} PROVE FALSE
    OBVIOUS
  <2>1. PICK k \in Deep : \A l \in Deep : k <= l
    BY LeastNumber
  <2>2. PICK n \in Nodes(p) : depth[n] = k /\ g[n] # at[n]
    OBVIOUS
  <2>3. p.parent[n] # None
    BY <1>2, <1>6, <2>2
  <2>4. p.parent[n] \in Nodes(p) /\ depth[p.parent[n]] < depth[n]
    BY <2>3 DEF Laid, Rooted
  <2>5. depth[p.parent[n]] \in Nat /\ depth[n] \in Nat
    BY <2>4, LaidFacts
  <2>6. depth[p.parent[n]] \notin Deep
    <3>1. ~ (k <= depth[p.parent[n]])
      BY <2>2, <2>4, <2>5
    <3> HIDE DEF Deep
    <3> QED
      BY <2>1, <3>1
  <2>7. g[p.parent[n]] = at[p.parent[n]]
    BY <2>4, <2>5, <2>6
  <2> QED
    BY <1>2, <1>6, <2>2, <2>3, <2>7
<1>8. \A n \in Nodes(p) : g[n] = at[n]
  <2> SUFFICES ASSUME NEW n \in Nodes(p) PROVE g[n] = at[n]
    OBVIOUS
  <2>1. depth[n] \in Nat
    BY LaidFacts
  <2> QED
    BY <1>7, <2>1
<1> QED
  <2>1. at = [n \in Nodes(p) |-> at[n]]
    BY DEF Laid
  <2>2. g = at
    BY <1>6, <1>8, <2>1
  <2> QED
    BY <1>5, <2>2

LEMMA SpreadAgain ==
  ASSUME NEW p, NEW at, NEW pos, NEW depth, Laid(p, at, pos, depth),
         NEW q, NEW at2, NEW pos2, NEW depth2, Laid(q, at2, pos2, depth2),
         NEW r, NEW at3, NEW pos3, NEW depth3, Laid(r, at3, pos3, depth3),
         Spread(p, at, pos, q, at2, pos2), Spread(q, at2, pos2, r, at3, pos3)
  PROVE  Spread(p, at, pos, r, at3, pos3)
<1>1. Nodes(p) \subseteq Nodes(q) /\ Nodes(q) \subseteq Nodes(r)
  BY DEF Spread
<1>2. ASSUME NEW n \in Nodes(p), NEW m \in Nodes(p), pos[n] <= pos[m]
      PROVE  pos3[n] <= pos3[m] /\ at[m] + at3[n] <= at3[m] + at[n]
  <2>1. n \in Nodes(q) /\ m \in Nodes(q) /\ n \in Nodes(r) /\ m \in Nodes(r)
    BY <1>1
  <2>2. pos2[n] <= pos2[m] /\ at[m] + at2[n] <= at2[m] + at[n]
    BY <1>2 DEF Spread
  <2>3. pos3[n] <= pos3[m] /\ at2[m] + at3[n] <= at3[m] + at2[n]
    BY <2>1, <2>2 DEF Spread
  <2>4. /\ at[n] \in Nat /\ at[m] \in Nat /\ at2[n] \in Nat /\ at2[m] \in Nat
        /\ at3[n] \in Nat /\ at3[m] \in Nat
    BY <2>1, LaidFacts
  <2> QED
    BY <2>2, <2>3, <2>4
<1>3. ASSUME NEW n \in Nodes(p)
      PROVE  EndOf(p, at, Len(p.line)) + at3[n] <= EndOf(r, at3, Len(r.line)) + at[n]
  <2>1. n \in Nodes(q) /\ n \in Nodes(r)
    BY <1>1
  <2>2. EndOf(p, at, Len(p.line)) + at2[n] <= EndOf(q, at2, Len(q.line)) + at[n]
    BY DEF Spread
  <2>3. EndOf(q, at2, Len(q.line)) + at3[n] <= EndOf(r, at3, Len(r.line)) + at2[n]
    BY <2>1 DEF Spread
  <2>4. /\ Len(p.line) \in 1 .. Len(p.line) /\ Len(q.line) \in 1 .. Len(q.line)
        /\ Len(r.line) \in 1 .. Len(r.line)
    <3>1. Len(p.line) > 0 /\ Len(q.line) > 0 /\ Len(r.line) > 0
      BY <2>1, LaidFacts
    <3>2. Len(p.line) \in Nat /\ Len(q.line) \in Nat /\ Len(r.line) \in Nat
      BY LaidFacts
    <3> QED
      BY <3>1, <3>2
  <2>5. /\ EndOf(p, at, Len(p.line)) \in Nat /\ EndOf(q, at2, Len(q.line)) \in Nat
        /\ EndOf(r, at3, Len(r.line)) \in Nat
    BY <2>4, LaidFacts
  <2>6. at[n] \in Nat /\ at2[n] \in Nat /\ at3[n] \in Nat
    BY <2>1, LaidFacts
  <2> QED
    BY <2>2, <2>3, <2>5, <2>6
<1> QED
  BY <1>1, <1>2, <1>3 DEF Spread

\* q can be laid out again with every node no nearer than it was.
Relaid(p, at, pos, q) ==
  \E at2, pos2, depth2 : Laid(q, at2, pos2, depth2) /\ Spread(p, at, pos, q, at2, pos2)

\* q is p with a new node of s units at place i of the line.
NodeAdded(p, q, i, s) ==
  /\ Typed(q)
  /\ Len(q.size) = Len(p.size) + 1 /\ PutIn(q.line, p.line, i, NewNode(p))
  /\ \A n \in Nodes(p) : q.parent[n] = p.parent[n] /\ q.offset[n] = p.offset[n]
  /\ q.parent[NewNode(p)] = None /\ q.size[NewNode(p)] = s

LEMMA NewNodeFacts ==
  ASSUME NEW p, NEW at, NEW pos, NEW depth, Laid(p, at, pos, depth),
         NEW q, Len(q.size) = Len(p.size) + 1
  PROVE  /\ Nodes(q) = Nodes(p) \cup {NewNode(p)} /\ NewNode(p) \notin Nodes(p)
         /\ NewNode(p) \in Nat \ {0}
BY LaidFacts DEF Nodes, NewNode

LEMMA AddAtEnd ==
  ASSUME NEW p, NEW at, NEW pos, NEW depth, Laid(p, at, pos, depth),
         NEW s \in Nat \ {0}, NEW q, NodeAdded(p, q, Len(p.line) + 1, s),
         \A n \in Nodes(p) : q.size[n] = p.size[n]
  PROVE  Relaid(p, at, pos, q)
<1> DEFINE N == NewNode(p)
           L == Len(p.line)
           end == IF L = 0 THEN 0 ELSE EndOf(p, at, L)
           at2 == [n \in Nodes(q) |-> IF n = N THEN end ELSE at[n]]
           pos2 == [n \in Nodes(q) |-> IF n = N THEN L + 1 ELSE pos[n]]
           depth2 == [n \in Nodes(q) |-> IF n = N THEN 0 ELSE depth[n]]
<1>1. /\ Nodes(q) = Nodes(p) \cup {N} /\ N \notin Nodes(p) /\ N \in Nat \ {0}
      /\ L \in Nat
  BY NewNodeFacts, LaidFacts DEF NodeAdded
<1>2. end \in Nat /\ \A j \in 1 .. L : EndOf(p, at, j) <= end
  <2>1. CASE L = 0
    BY <2>1
  <2>2. CASE L # 0
    <3>1. L \in 1 .. L
      BY <1>1, <2>2
    <3> QED
      BY <2>2, <3>1, LaidFacts, InOrder
  <2> QED
    BY <2>1, <2>2
<1> HIDE DEF end
<1>3. /\ at2 \in [Nodes(q) -> Nat] /\ pos2 \in [Nodes(q) -> Nat] /\ depth2 \in [Nodes(q) -> Nat]
      /\ \A n \in Nodes(p) : at2[n] = at[n] /\ pos2[n] = pos[n] /\ depth2[n] = depth[n]
      /\ at2[N] = end /\ pos2[N] = L + 1 /\ depth2[N] = 0
  <2>1. \A n \in Nodes(q) : n # N => at[n] \in Nat /\ pos[n] \in Nat /\ depth[n] \in Nat
    BY <1>1, LaidFacts
  <2> QED
    BY <1>1, <1>2, <2>1
<1> HIDE DEF at2, pos2, depth2
<1>4. /\ Typed(q) /\ Len(q.line) = L + 1
      /\ \A j \in 1 .. L : q.line[j] = p.line[j]
      /\ q.line[L + 1] = N
      /\ \A n \in Nodes(p) : q.parent[n] = p.parent[n] /\ q.offset[n] = p.offset[n]
      /\ q.parent[N] = None /\ q.size[N] = s
  <2>1. \A j \in 1 .. L + 1 :
          q.line[j] = IF j < L + 1 THEN p.line[j] ELSE IF j = L + 1 THEN N ELSE p.line[j - 1]
    BY DEF NodeAdded, PutIn
  <2>2. \A j \in 1 .. L : j \in 1 .. L + 1 /\ j < L + 1
    BY <1>1
  <2>3. L + 1 \in 1 .. L + 1 /\ ~ (L + 1 < L + 1)
    BY <1>1
  <2> QED
    BY <2>1, <2>2, <2>3 DEF NodeAdded, PutIn
<1> HIDE DEF N, L
<1>5. \A j \in 1 .. L : p.line[j] \in Nodes(p) /\ EndOf(q, at2, j) = EndOf(p, at, j)
  <2>1. \A j \in 1 .. L : p.line[j] \in Nodes(p)
    BY LaidFacts DEF L
  <2> QED
    BY <1>3, <1>4, <2>1 DEF EndOf
<1>6. \A j \in 1 .. L + 1 : j \in 1 .. L \/ j = L + 1
  BY <1>1
<1>7. OnLine(q, pos2)
  <2>1. \A j \in 1 .. L : p.line[j] \in Nodes(p) /\ pos[p.line[j]] = j /\ p.parent[p.line[j]] = None
    BY DEF Laid, OnLine, L
  <2>2. ASSUME NEW j \in 1 .. L + 1
        PROVE  q.line[j] \in Nodes(q) /\ pos2[q.line[j]] = j /\ q.parent[q.line[j]] = None
    <3>1. CASE j = L + 1
      BY <1>1, <1>3, <1>4, <3>1
    <3>2. CASE j \in 1 .. L
      <4>1. q.line[j] = p.line[j] /\ p.line[j] \in Nodes(p)
        BY <1>4, <2>1, <3>2
      <4>2. pos[p.line[j]] = j /\ p.parent[p.line[j]] = None
        BY <2>1, <3>2
      <4> QED
        BY <1>1, <1>3, <1>4, <4>1, <4>2, SMTT(30)
    <3> QED
      BY <1>6, <3>1, <3>2
  <2> QED
    BY <1>4, <2>2 DEF OnLine
<1>8. Rooted(q, at2, pos2, depth2)
  <2> SUFFICES ASSUME NEW n \in Nodes(q)
               PROVE  /\ pos2[n] \in 1 .. L + 1
                      /\ q.parent[n] = None => q.line[pos2[n]] = n
                      /\ q.parent[n] # None =>
                           /\ q.parent[n] \in Nodes(q) /\ pos2[q.parent[n]] = pos2[n]
                           /\ depth2[q.parent[n]] < depth2[n]
                           /\ at2[n] = at2[q.parent[n]] + q.offset[n]
    BY <1>4 DEF Rooted
  <2>1. CASE n = N
    BY <1>1, <1>3, <1>4, <2>1
  <2>2. CASE n \in Nodes(p)
    <3>1. /\ pos[n] \in 1 .. L
          /\ p.parent[n] = None => p.line[pos[n]] = n
          /\ p.parent[n] # None =>
               /\ p.parent[n] \in Nodes(p) /\ pos[p.parent[n]] = pos[n]
               /\ depth[p.parent[n]] < depth[n]
               /\ at[n] = at[p.parent[n]] + p.offset[n]
      BY <2>2 DEF Laid, Rooted, L
    <3>2. pos[n] \in 1 .. L + 1
      BY <1>1, <3>1
    <3>3. /\ pos2[n] = pos[n] /\ q.parent[n] = p.parent[n] /\ at2[n] = at[n]
          /\ q.offset[n] = p.offset[n] /\ depth2[n] = depth[n]
          /\ q.line[pos[n]] = p.line[pos[n]]
      BY <1>3, <1>4, <2>2, <3>1
    <3>4. CASE p.parent[n] = None
      BY <3>1, <3>2, <3>3, <3>4
    <3>5. CASE p.parent[n] # None
      <4>1. /\ pos2[p.parent[n]] = pos[p.parent[n]] /\ at2[p.parent[n]] = at[p.parent[n]]
            /\ depth2[p.parent[n]] = depth[p.parent[n]] /\ p.parent[n] \in Nodes(q)
        BY <1>1, <1>3, <3>1, <3>5
      <4> QED
        BY <3>1, <3>2, <3>3, <3>5, <4>1
    <3> QED
      BY <3>4, <3>5
  <2> QED
    BY <1>1, <2>1, <2>2
<1>9. Packed(q, at2)
  <2>1. /\ p.line # <<>> => at[p.line[1]] = 0
        /\ \A j \in 1 .. L - 1 : at[p.line[j + 1]] = EndOf(p, at, j)
    BY DEF Laid, Packed, L
  <2>2. at2[q.line[1]] = 0
    <3>1. CASE L = 0
      <4>1. q.line[1] = N
        BY <1>4, <3>1
      <4> QED
        BY <1>3, <3>1, <4>1 DEF end
    <3>2. CASE L # 0
      <4>1. 1 \in 1 .. L /\ p.line # <<>>
        BY <1>1, <3>2 DEF L
      <4> QED
        BY <1>3, <1>4, <1>5, <2>1, <4>1
    <3> QED
      BY <3>1, <3>2
  <2>3. ASSUME NEW j \in 1 .. (L + 1) - 1
        PROVE  at2[q.line[j + 1]] = EndOf(q, at2, j)
    <3>1. j \in 1 .. L /\ L # 0
      BY <1>1
    <3>2. CASE j = L
      <4>1. at2[q.line[j + 1]] = end
        BY <1>3, <1>4, <3>2
      <4> QED
        BY <1>5, <3>1, <3>2, <4>1 DEF end
    <3>3. CASE j # L
      <4>1. j \in 1 .. L - 1 /\ j + 1 \in 1 .. L
        BY <1>1, <3>1, <3>3
      <4> QED
        BY <1>3, <1>4, <1>5, <2>1, <3>1, <4>1, SMTT(30)
    <3> QED
      BY <3>2, <3>3
  <2> QED
    BY <1>4, <2>2, <2>3 DEF Packed
<1>10. Laid(q, at2, pos2, depth2)
  <2>1. q.line # <<>>
    BY <1>1, <1>4
  <2> QED
    BY <1>3, <1>4, <1>7, <1>8, <1>9, <2>1 DEF Laid
<1>11. Spread(p, at, pos, q, at2, pos2)
  <2>1. ASSUME NEW n \in Nodes(p)
        PROVE  EndOf(p, at, L) + at2[n] <= EndOf(q, at2, Len(q.line)) + at[n]
    <3>1. EndOf(q, at2, Len(q.line)) = end + s
      BY <1>3, <1>4 DEF EndOf
    <3>2. L # 0 /\ L \in 1 .. L
      BY <1>1, LaidFacts DEF L
    <3>3. EndOf(p, at, L) \in Nat /\ end = EndOf(p, at, L)
      BY <3>2, LaidFacts DEF end, L
    <3>4. at[n] \in Nat /\ at2[n] = at[n]
      BY <1>3, LaidFacts
    <3> QED
      BY <3>1, <3>3, <3>4
  <2>2. \A n \in Nodes(p) : at[n] \in Nat
    BY LaidFacts
  <2> QED
    BY <1>1, <1>3, <2>1, <2>2 DEF Spread, L
<1> QED
  BY <1>10, <1>11 DEF Relaid

\* A free node is cut: the new node has the end of it.
LEMMA AddBySplit ==
  ASSUME NEW p, NEW at, NEW pos, NEW depth, Laid(p, at, pos, depth),
         NEW i \in 1 .. Len(p.line), NEW s \in Nat \ {0}, NEW x \in Nat \ {0},
         s + x = p.size[p.line[i]],
         NEW q, NodeAdded(p, q, i + 1, x),
         \A n \in Nodes(p) : q.size[n] = IF n = p.line[i] THEN s ELSE p.size[n]
  PROVE  Relaid(p, at, pos, q)
<1> DEFINE N == NewNode(p)
           L == Len(p.line)
           n0 == p.line[i]
           at2 == [n \in Nodes(q) |-> IF n = N THEN at[n0] + s ELSE at[n]]
           pos2 == [n \in Nodes(q) |-> IF n = N THEN i + 1
                                       ELSE IF pos[n] > i THEN pos[n] + 1 ELSE pos[n]]
           depth2 == [n \in Nodes(q) |-> IF n = N THEN 0 ELSE depth[n]]
<1>1. /\ Nodes(q) = Nodes(p) \cup {N} /\ N \notin Nodes(p) /\ N \in Nat \ {0}
      /\ L \in Nat /\ i \in Nat \ {0} /\ i <= L /\ n0 \in Nodes(p) /\ at[n0] \in Nat
      /\ pos[n0] = i
  <2>1. L \in Nat /\ n0 \in Nodes(p)
    BY LaidFacts
  <2>2. i \in Nat \ {0} /\ i <= L
    BY <2>1
  <2>3. at[n0] \in Nat
    BY <2>1, LaidFacts
  <2>4. pos[n0] = i
    BY DEF Laid, OnLine
  <2>5. Nodes(q) = Nodes(p) \cup {N} /\ N \notin Nodes(p) /\ N \in Nat \ {0}
    BY NewNodeFacts DEF NodeAdded
  <2> QED
    BY <2>1, <2>2, <2>3, <2>4, <2>5
<1>2. \A n \in Nodes(p) : at[n] \in Nat /\ pos[n] \in Nat /\ depth[n] \in Nat
  BY LaidFacts
<1>3. /\ at2 \in [Nodes(q) -> Nat] /\ pos2 \in [Nodes(q) -> Nat] /\ depth2 \in [Nodes(q) -> Nat]
      /\ \A n \in Nodes(p) : /\ at2[n] = at[n] /\ depth2[n] = depth[n]
                             /\ pos2[n] = IF pos[n] > i THEN pos[n] + 1 ELSE pos[n]
      /\ at2[N] = at[n0] + s /\ pos2[N] = i + 1 /\ depth2[N] = 0
  <2>1. \A n \in Nodes(q) : n # N => at[n] \in Nat /\ pos[n] \in Nat /\ depth[n] \in Nat
    BY <1>1, <1>2
  <2> HIDE DEF n0
  <2> QED
    BY <1>1, <2>1
<1> HIDE DEF at2, pos2, depth2
<1>4. /\ Typed(q) /\ Len(q.line) = L + 1
      /\ \A j \in 1 .. L + 1 :
           q.line[j] = IF j < i + 1 THEN p.line[j] ELSE IF j = i + 1 THEN N ELSE p.line[j - 1]
      /\ \A n \in Nodes(p) : q.parent[n] = p.parent[n] /\ q.offset[n] = p.offset[n]
      /\ q.parent[N] = None /\ q.size[N] = x
  BY DEF NodeAdded, PutIn
<1> HIDE DEF N, L
\* Where the places of the old line are on the new one.
<1>5. /\ \A j \in 1 .. i : j \in 1 .. L /\ j \in 1 .. L + 1 /\ q.line[j] = p.line[j]
      /\ i + 1 \in 1 .. L + 1 /\ q.line[i + 1] = N
      /\ \A j \in i + 1 .. L : j \in 1 .. L /\ j + 1 \in 1 .. L + 1 /\ q.line[j + 1] = p.line[j]
  <2>1. \A j \in 1 .. i : j \in 1 .. L /\ j \in 1 .. L + 1 /\ j < i + 1
    BY <1>1
  <2>2. i + 1 \in 1 .. L + 1 /\ ~ (i + 1 < i + 1)
    BY <1>1
  <2>3. \A j \in i + 1 .. L : /\ j \in 1 .. L /\ j + 1 \in 1 .. L + 1
                              /\ ~ (j + 1 < i + 1) /\ j + 1 # i + 1 /\ (j + 1) - 1 = j
    BY <1>1
  <2> QED
    BY <1>4, <2>1, <2>2, <2>3
<1>6. \A j \in 1 .. L : p.line[j] \in Nodes(p) /\ pos[p.line[j]] = j /\ p.parent[p.line[j]] = None
  BY DEF Laid, OnLine, L
<1>7. \A j \in 1 .. L + 1 : \/ j \in 1 .. i \/ j = i + 1
                            \/ j - 1 \in i + 1 .. L /\ j = (j - 1) + 1
  BY <1>1, SMTT(30)
<1>8. OnLine(q, pos2)
  <2>1. ASSUME NEW j \in 1 .. L + 1
        PROVE  q.line[j] \in Nodes(q) /\ pos2[q.line[j]] = j /\ q.parent[q.line[j]] = None
    <3>1. CASE j \in 1 .. i
      <4>1. q.line[j] = p.line[j] /\ p.line[j] \in Nodes(p) /\ pos[p.line[j]] = j
            /\ p.parent[p.line[j]] = None
        BY <1>5, <1>6, <3>1
      <4>2. ~ (j > i)
        BY <1>1, <3>1
      <4>3. p.line[j] \in Nodes(q) /\ q.parent[p.line[j]] = None
        BY <1>1, <1>4, <4>1
      <4>4. pos2[p.line[j]] = j
        BY <1>3, <4>1, <4>2
      <4> QED
        BY <4>1, <4>3, <4>4
    <3>2. CASE j = i + 1
      BY <1>1, <1>3, <1>4, <1>5, <3>2
    <3>3. CASE j - 1 \in i + 1 .. L /\ j = (j - 1) + 1
      <4>1. q.line[j] = p.line[j - 1] /\ p.line[j - 1] \in Nodes(p) /\ pos[p.line[j - 1]] = j - 1
            /\ p.parent[p.line[j - 1]] = None
        BY <1>5, <1>6, <3>3
      <4>2. j - 1 > i
        BY <1>1, <3>3
      <4>3. p.line[j - 1] \in Nodes(q) /\ q.parent[p.line[j - 1]] = None
        BY <1>1, <1>4, <4>1
      <4>4. pos2[p.line[j - 1]] = j
        <5>1. pos2[p.line[j - 1]] = (j - 1) + 1
          BY <1>3, <4>1, <4>2
        <5> QED
          BY <3>3, <5>1
      <4> QED
        BY <4>1, <4>3, <4>4
    <3> QED
      BY <1>7, <3>1, <3>2, <3>3
  <2> QED
    BY <1>4, <2>1 DEF OnLine
<1>9. Rooted(q, at2, pos2, depth2)
  <2> SUFFICES ASSUME NEW n \in Nodes(q)
               PROVE  /\ pos2[n] \in 1 .. L + 1
                      /\ q.parent[n] = None => q.line[pos2[n]] = n
                      /\ q.parent[n] # None =>
                           /\ q.parent[n] \in Nodes(q) /\ pos2[q.parent[n]] = pos2[n]
                           /\ depth2[q.parent[n]] < depth2[n]
                           /\ at2[n] = at2[q.parent[n]] + q.offset[n]
    BY <1>4 DEF Rooted
  <2>1. CASE n = N
    BY <1>1, <1>3, <1>4, <1>5, <2>1
  <2>2. CASE n \in Nodes(p)
    <3>1. /\ pos[n] \in 1 .. L
          /\ p.parent[n] = None => p.line[pos[n]] = n
          /\ p.parent[n] # None =>
               /\ p.parent[n] \in Nodes(p) /\ pos[p.parent[n]] = pos[n]
               /\ depth[p.parent[n]] < depth[n]
               /\ at[n] = at[p.parent[n]] + p.offset[n]
      BY <2>2 DEF Laid, Rooted, L
    <3>2. /\ q.parent[n] = p.parent[n] /\ at2[n] = at[n]
          /\ q.offset[n] = p.offset[n] /\ depth2[n] = depth[n]
      BY <1>3, <1>4, <2>2, <3>1
    <3>3. pos2[n] \in 1 .. L + 1 /\ q.line[pos2[n]] = p.line[pos[n]]
      <4>1. CASE pos[n] > i
        <5>1. pos2[n] = pos[n] + 1 /\ pos[n] \in i + 1 .. L
          BY <1>1, <1>3, <2>2, <3>1, <4>1
        <5> QED
          BY <1>5, <5>1
      <4>2. CASE ~ (pos[n] > i)
        <5>1. pos2[n] = pos[n] /\ pos[n] \in 1 .. i
          BY <1>1, <1>3, <2>2, <3>1, <4>2
        <5> QED
          BY <1>5, <5>1
      <4> QED
        BY <4>1, <4>2
    <3>4. CASE p.parent[n] = None
      BY <3>1, <3>2, <3>3, <3>4
    <3>5. CASE p.parent[n] # None
      <4>1. /\ pos2[p.parent[n]] = pos2[n] /\ at2[p.parent[n]] = at[p.parent[n]]
            /\ depth2[p.parent[n]] = depth[p.parent[n]] /\ p.parent[n] \in Nodes(q)
        <5>1. p.parent[n] \in Nodes(p) /\ pos[p.parent[n]] = pos[n]
          BY <3>1, <3>5
        <5>2. pos2[p.parent[n]] = IF pos[p.parent[n]] > i THEN pos[p.parent[n]] + 1
                                  ELSE pos[p.parent[n]]
          BY <1>3, <5>1
        <5>3. pos2[n] = IF pos[n] > i THEN pos[n] + 1 ELSE pos[n]
          BY <1>3, <2>2
        <5>4. pos2[p.parent[n]] = pos2[n]
          BY <5>1, <5>2, <5>3
        <5> QED
          BY <1>1, <1>3, <5>1, <5>4
      <4> QED
        BY <3>1, <3>2, <3>3, <3>5, <4>1
    <3> QED
      BY <3>4, <3>5
  <2> QED
    BY <1>1, <2>1, <2>2
<1>10. /\ \A j \in 1 .. L : j # i => /\ p.line[j] # n0
                                     /\ q.size[p.line[j]] = p.size[p.line[j]]
       /\ q.size[n0] = s
  BY <1>1, <1>6
<1>11. /\ \A j \in 1 .. i - 1 : EndOf(q, at2, j) = EndOf(p, at, j)
       /\ EndOf(q, at2, i) = at[n0] + s
       /\ EndOf(q, at2, i + 1) = EndOf(p, at, i)
       /\ \A j \in i + 1 .. L : EndOf(q, at2, j + 1) = EndOf(p, at, j)
  <2>1. ASSUME NEW j \in 1 .. i - 1
        PROVE  EndOf(q, at2, j) = EndOf(p, at, j)
    <3>1. j \in 1 .. i /\ j \in 1 .. L /\ j # i
      BY <1>1
    <3>2. q.line[j] = p.line[j] /\ p.line[j] \in Nodes(p)
      BY <1>5, <1>6, <3>1
    <3> QED
      BY <1>3, <1>10, <3>1, <3>2 DEF EndOf
  <2>2. EndOf(q, at2, i) = at[n0] + s
    <3>1. i \in 1 .. i
      BY <1>1
    <3>2. q.line[i] = n0
      BY <1>5, <3>1
    <3> QED
      BY <1>1, <1>3, <1>10, <3>2, SMTT(30) DEF EndOf
  <2>3. EndOf(q, at2, i + 1) = EndOf(p, at, i)
    <3>1. EndOf(q, at2, i + 1) = (at[n0] + s) + x
      BY <1>3, <1>4, <1>5 DEF EndOf
    <3>2. EndOf(p, at, i) = at[n0] + (s + x)
      BY DEF EndOf
    <3> QED
      BY <1>1, <3>1, <3>2
  <2>4. ASSUME NEW j \in i + 1 .. L
        PROVE  EndOf(q, at2, j + 1) = EndOf(p, at, j)
    <3>1. j \in 1 .. L /\ j # i
      BY <1>1
    <3>2. q.line[j + 1] = p.line[j] /\ p.line[j] \in Nodes(p)
      BY <1>5, <1>6, <3>1
    <3> QED
      BY <1>3, <1>10, <3>1, <3>2 DEF EndOf
  <2> QED
    BY <2>1, <2>2, <2>3, <2>4
<1>12. Packed(q, at2)
  <2>1. /\ at[p.line[1]] = 0
        /\ \A j \in 1 .. L - 1 : at[p.line[j + 1]] = EndOf(p, at, j)
    <3>1. p.line # <<>>
      BY <1>1 DEF L
    <3> QED
      BY <3>1 DEF Laid, Packed, L
  <2>2. at2[q.line[1]] = 0
    <3>1. 1 \in 1 .. i /\ 1 \in 1 .. L
      BY <1>1
    <3>2. q.line[1] = p.line[1] /\ p.line[1] \in Nodes(p)
      BY <1>5, <1>6, <3>1
    <3> QED
      BY <1>3, <2>1, <3>2
  <2>3. ASSUME NEW j \in 1 .. (L + 1) - 1
        PROVE  at2[q.line[j + 1]] = EndOf(q, at2, j)
    <3>1. j \in Nat /\ (j < i \/ j = i \/ j = i + 1 \/ j > i + 1) /\ j <= L /\ j >= 1
      BY <1>1
    <3>2. CASE j < i
      <4>1. j \in 1 .. i - 1 /\ j + 1 \in 1 .. i /\ j \in 1 .. L - 1 /\ j + 1 \in 1 .. L
        BY <1>1, <3>1, <3>2, SMTT(30)
      <4>2. q.line[j + 1] = p.line[j + 1] /\ p.line[j + 1] \in Nodes(p)
        BY <1>5, <1>6, <4>1
      <4>3. at2[q.line[j + 1]] = at[p.line[j + 1]]
        BY <1>3, <4>2
      <4> QED
        BY <1>11, <2>1, <4>1, <4>3
    <3>3. CASE j = i
      BY <1>3, <1>5, <1>11, <3>3
    <3>4. CASE j = i + 1
      <4>1. i \in 1 .. L - 1 /\ i + 1 \in i + 1 .. L /\ i + 1 \in 1 .. L
        BY <1>1, <3>1, <3>4
      <4>2. q.line[j + 1] = p.line[i + 1] /\ p.line[i + 1] \in Nodes(p)
        BY <1>5, <1>6, <3>4, <4>1
      <4>3. at2[q.line[j + 1]] = at[p.line[i + 1]]
        BY <1>3, <4>2
      <4> QED
        BY <1>11, <2>1, <3>4, <4>1, <4>3
    <3>5. CASE j > i + 1
      <4>1. /\ j - 1 \in 1 .. L - 1 /\ (j - 1) + 1 = j /\ j \in i + 1 .. L /\ j \in 1 .. L
            /\ j - 1 \in i + 1 .. L
        BY <1>1, <3>1, <3>5
      <4>2. q.line[j + 1] = p.line[j] /\ p.line[j] \in Nodes(p)
        BY <1>5, <1>6, <4>1
      <4>3. at2[q.line[j + 1]] = at[p.line[j]]
        BY <1>3, <4>2
      <4>4. EndOf(q, at2, j) = EndOf(p, at, j - 1)
        BY <1>11, <4>1
      <4> QED
        BY <2>1, <4>1, <4>3, <4>4
    <3> QED
      BY <3>1, <3>2, <3>3, <3>4, <3>5
  <2> QED
    BY <1>4, <2>2, <2>3 DEF Packed
<1>13. Laid(q, at2, pos2, depth2)
  <2>1. q.line # <<>>
    BY <1>1, <1>4
  <2> QED
    BY <1>3, <1>4, <1>8, <1>9, <1>12, <2>1 DEF Laid
<1>14. Spread(p, at, pos, q, at2, pos2)
  <2>1. EndOf(q, at2, Len(q.line)) = EndOf(p, at, L)
    <3>1. CASE i = L
      BY <1>4, <1>11, <3>1
    <3>2. CASE i # L
      <4>1. L \in i + 1 .. L
        BY <1>1, <3>2
      <4> QED
        BY <1>4, <1>11, <4>1
    <3> QED
      BY <3>1, <3>2
  <2>2. EndOf(p, at, L) \in Nat
    <3>1. L \in 1 .. L
      BY <1>1
    <3> QED
      BY <3>1, LaidFacts DEF L
  <2>3. ASSUME NEW n \in Nodes(p)
        PROVE  EndOf(p, at, L) + at2[n] <= EndOf(q, at2, Len(q.line)) + at[n]
    BY <1>2, <1>3, <2>1, <2>2
  <2>4. ASSUME NEW n \in Nodes(p), NEW m \in Nodes(p), pos[n] <= pos[m]
        PROVE  pos2[n] <= pos2[m] /\ at[m] + at2[n] <= at2[m] + at[n]
    <3>1. /\ at2[n] = at[n] /\ at2[m] = at[m] /\ at[n] \in Nat /\ at[m] \in Nat
          /\ pos2[n] = IF pos[n] > i THEN pos[n] + 1 ELSE pos[n]
          /\ pos2[m] = IF pos[m] > i THEN pos[m] + 1 ELSE pos[m]
          /\ pos[n] \in Nat /\ pos[m] \in Nat
      BY <1>2, <1>3
    <3> QED
      BY <1>1, <2>4, <3>1, SMTT(30)
  <2> QED
    BY <1>1, <2>3, <2>4 DEF Spread, L
<1> QED
  BY <1>13, <1>14 DEF Relaid

\* A node gets wider: what comes after it moves.
Widened(p, q, i, s) ==
  /\ Typed(q) /\ Len(q.size) = Len(p.size)
  /\ q.line = p.line /\ q.parent = p.parent /\ q.offset = p.offset
  /\ \A n \in Nodes(p) : q.size[n] = IF n = p.line[i] THEN s ELSE p.size[n]

LEMMA Widen ==
  ASSUME NEW p, NEW at, NEW pos, NEW depth, Laid(p, at, pos, depth),
         NEW i \in 1 .. Len(p.line), NEW s \in Nat, s >= p.size[p.line[i]],
         NEW q, Widened(p, q, i, s)
  PROVE  Relaid(p, at, pos, q)
<1> DEFINE L == Len(p.line)
           n0 == p.line[i]
           d == s - p.size[n0]
           at2 == [n \in Nodes(p) |-> IF pos[n] > i THEN at[n] + d ELSE at[n]]
<1>1. L \in Nat /\ i \in Nat \ {0} /\ i <= L /\ n0 \in Nodes(p)
  <2>1. L \in Nat /\ n0 \in Nodes(p)
    BY LaidFacts
  <2> QED
    BY <2>1
<1>2. d \in Nat /\ s = p.size[n0] + d
  <2>1. p.size[n0] \in Nat
    BY <1>1, LaidFacts
  <2> QED
    BY <2>1
<1> HIDE DEF d
<1>3. \A n \in Nodes(p) : at[n] \in Nat /\ pos[n] \in Nat
  BY LaidFacts
<1>4. /\ at2 \in [Nodes(p) -> Nat]
      /\ \A n \in Nodes(p) : at2[n] = IF pos[n] > i THEN at[n] + d ELSE at[n]
  BY <1>2, <1>3
<1> HIDE DEF at2
<1>5. /\ Typed(q) /\ Nodes(q) = Nodes(p) /\ q.line = p.line /\ q.parent = p.parent
      /\ q.offset = p.offset
      /\ \A n \in Nodes(p) : q.size[n] = IF n = n0 THEN s ELSE p.size[n]
  BY DEF Widened, Nodes
<1> HIDE DEF n0
<1>6. \A j \in 1 .. L : /\ p.line[j] \in Nodes(p) /\ pos[p.line[j]] = j
                        /\ p.line[j] = n0 <=> j = i
  BY DEF Laid, OnLine, n0
<1>7. ASSUME NEW j \in 1 .. L
      PROVE  EndOf(q, at2, j) = EndOf(p, at, j) + (IF j >= i THEN d ELSE 0)
  <2> DEFINE n == p.line[j]
  <2>1. /\ n \in Nodes(p) /\ pos[n] = j /\ (n = n0 <=> j = i)
    BY <1>6
  <2>2. EndOf(q, at2, j) = at2[n] + q.size[n] /\ EndOf(p, at, j) = at[n] + p.size[n]
    BY <1>5 DEF EndOf
  <2>3. at2[n] = IF j > i THEN at[n] + d ELSE at[n]
    BY <1>4, <2>1
  <2>4. q.size[n] = IF j = i THEN p.size[n] + d ELSE p.size[n]
    BY <1>2, <1>5, <2>1
  <2>5. at[n] \in Nat /\ p.size[n] \in Nat
    BY <2>1, LaidFacts
  <2> HIDE DEF n
  <2> QED
    BY <1>1, <1>2, <2>2, <2>3, <2>4, <2>5
<1>8. OnLine(q, pos)
  BY <1>5 DEF Laid, OnLine
<1>9. Rooted(q, at2, pos, depth)
  <2> SUFFICES ASSUME NEW n \in Nodes(p)
               PROVE  /\ pos[n] \in 1 .. Len(p.line)
                      /\ p.parent[n] = None => p.line[pos[n]] = n
                      /\ p.parent[n] # None =>
                           /\ p.parent[n] \in Nodes(p) /\ pos[p.parent[n]] = pos[n]
                           /\ depth[p.parent[n]] < depth[n]
                           /\ at2[n] = at2[p.parent[n]] + p.offset[n]
    BY <1>5 DEF Rooted
  <2>1. /\ pos[n] \in 1 .. Len(p.line)
        /\ p.parent[n] = None => p.line[pos[n]] = n
        /\ p.parent[n] # None =>
             /\ p.parent[n] \in Nodes(p) /\ pos[p.parent[n]] = pos[n]
             /\ depth[p.parent[n]] < depth[n]
             /\ at[n] = at[p.parent[n]] + p.offset[n]
    BY DEF Laid, Rooted
  <2>2. ASSUME p.parent[n] # None
        PROVE  at2[n] = at2[p.parent[n]] + p.offset[n]
    <3> DEFINE m == p.parent[n]
    <3>1. m \in Nodes(p) /\ pos[m] = pos[n] /\ at[n] = at[m] + p.offset[n]
      BY <2>1, <2>2
    <3>2. /\ at2[n] = IF pos[n] > i THEN at[n] + d ELSE at[n]
          /\ at2[m] = IF pos[n] > i THEN at[m] + d ELSE at[m]
      BY <1>4, <3>1
    <3>3. at[m] \in Nat /\ p.offset[n] \in Nat
      BY <3>1, LaidFacts
    <3> HIDE DEF m
    <3>4. at2[n] = at2[m] + p.offset[n]
      BY <1>2, <3>1, <3>2, <3>3
    <3> QED
      BY <3>4 DEF m
  <2> QED
    BY <2>1, <2>2
<1>10. Packed(q, at2)
  <2>1. p.line # <<>>
    BY <1>1
  <2>2. at2[p.line[1]] = 0
    <3>1. at[p.line[1]] = 0
      BY <2>1 DEF Laid, Packed
    <3>2. 1 \in 1 .. L /\ ~ (1 > i)
      BY <1>1
    <3>3. p.line[1] \in Nodes(p) /\ pos[p.line[1]] = 1
      BY <1>6, <3>2
    <3> QED
      BY <1>4, <3>1, <3>2, <3>3
  <2>3. ASSUME NEW j \in 1 .. L - 1
        PROVE  at2[p.line[j + 1]] = EndOf(q, at2, j)
    <3>1. j \in 1 .. L /\ j + 1 \in 1 .. L /\ (j + 1 > i <=> j >= i)
      BY <1>1
    <3>2. at[p.line[j + 1]] = EndOf(p, at, j)
      BY DEF Laid, Packed
    <3>3. at2[p.line[j + 1]] = IF j + 1 > i THEN at[p.line[j + 1]] + d ELSE at[p.line[j + 1]]
      BY <1>4, <1>6, <3>1
    <3>4. EndOf(q, at2, j) = EndOf(p, at, j) + (IF j >= i THEN d ELSE 0)
      BY <1>7, <3>1
    <3>5. EndOf(p, at, j) \in Nat
      BY <3>1, LaidFacts
    <3> QED
      BY <3>1, <3>2, <3>3, <3>4, <3>5
  <2> QED
    BY <1>5, <2>2, <2>3 DEF Packed
<1>11. Laid(q, at2, pos, depth)
  <2>1. q.line # <<>>
    BY <1>1, <1>5
  <2> QED
    BY <1>4, <1>5, <1>8, <1>9, <1>10, <2>1 DEF Laid
<1>12. Spread(p, at, pos, q, at2, pos)
  <2>1. EndOf(q, at2, Len(q.line)) = EndOf(p, at, L) + d /\ EndOf(p, at, L) \in Nat
    <3>1. L \in 1 .. L /\ L >= i
      BY <1>1
    <3>2. EndOf(p, at, L) \in Nat
      BY <3>1, LaidFacts DEF L
    <3> QED
      BY <1>5, <1>7, <3>1, <3>2
  <2>2. ASSUME NEW n \in Nodes(p)
        PROVE  EndOf(p, at, L) + at2[n] <= EndOf(q, at2, Len(q.line)) + at[n]
    BY <1>2, <1>3, <1>4, <2>1
  <2>3. ASSUME NEW n \in Nodes(p), NEW m \in Nodes(p), pos[n] <= pos[m]
        PROVE  at[m] + at2[n] <= at2[m] + at[n]
    <3>1. /\ at[n] \in Nat /\ at[m] \in Nat /\ pos[n] \in Nat /\ pos[m] \in Nat
          /\ at2[n] = IF pos[n] > i THEN at[n] + d ELSE at[n]
          /\ at2[m] = IF pos[m] > i THEN at[m] + d ELSE at[m]
      BY <1>3, <1>4
    <3> QED
      BY <1>1, <1>2, <2>3, <3>1
  <2> QED
    BY <1>5, <2>2, <2>3 DEF Spread
<1> QED
  BY <1>11, <1>12 DEF Relaid

\* Two neighbours become one node.
Fused(p, q, i) ==
  LET l == p.line[i]
      r == p.line[i + 1]
  IN  /\ Typed(q) /\ Len(q.size) = Len(p.size) /\ TakenOut(q.line, p.line, i + 1)
      /\ \A n \in Nodes(p) :
           /\ q.size[n] = IF n = l THEN p.size[l] + p.size[r] ELSE p.size[n]
           /\ q.parent[n] = IF n = r THEN l ELSE p.parent[n]
           /\ q.offset[n] = IF n = r THEN p.size[l] ELSE p.offset[n]

LEMMA Fuse ==
  ASSUME NEW p, NEW at, NEW pos, NEW depth, Laid(p, at, pos, depth),
         NEW i \in 1 .. Len(p.line) - 1, NEW q, Fused(p, q, i)
  PROVE  Relaid(p, at, pos, q)
<1> DEFINE L == Len(p.line)
           l == p.line[i]
           r == p.line[i + 1]
           pos2 == [n \in Nodes(p) |-> IF pos[n] > i THEN pos[n] - 1 ELSE pos[n]]
           depth2 == [n \in Nodes(p) |-> IF pos[n] = i + 1 THEN depth[n] + depth[l] + 1
                                         ELSE depth[n]]
<1>1. L \in Nat /\ i \in Nat \ {0} /\ i + 1 <= L /\ i \in 1 .. L /\ i + 1 \in 1 .. L
  <2>1. L \in Nat
    BY LaidFacts
  <2> QED
    BY <2>1
<1>2. /\ l \in Nodes(p) /\ pos[l] = i /\ p.parent[l] = None
      /\ r \in Nodes(p) /\ pos[r] = i + 1 /\ p.parent[r] = None
      /\ l # r /\ l # None
  <2>1. /\ l \in Nodes(p) /\ pos[l] = i /\ p.parent[l] = None
        /\ r \in Nodes(p) /\ pos[r] = i + 1 /\ p.parent[r] = None
    BY <1>1 DEF Laid, OnLine
  <2>2. l \in Nat \ {0} /\ i # i + 1
    <3>1. l \in Nat \ {0}
      BY <2>1, LaidFacts
    <3> QED
      BY <1>1, <3>1
  <2> QED
    BY <2>1, <2>2 DEF None
<1>3. \A n \in Nodes(p) : at[n] \in Nat /\ pos[n] \in Nat /\ depth[n] \in Nat
  BY LaidFacts
<1> HIDE DEF l, r
<1>4. /\ pos2 \in [Nodes(p) -> Nat] /\ depth2 \in [Nodes(p) -> Nat]
      /\ \A n \in Nodes(p) :
           /\ pos2[n] = IF pos[n] > i THEN pos[n] - 1 ELSE pos[n]
           /\ depth2[n] = IF pos[n] = i + 1 THEN depth[n] + depth[l] + 1 ELSE depth[n]
  <2>1. \A n \in Nodes(p) : (pos[n] > i => pos[n] - 1 \in Nat) /\ depth[n] + depth[l] + 1 \in Nat
    BY <1>1, <1>2, <1>3
  <2> QED
    BY <1>3, <2>1
<1> HIDE DEF pos2, depth2
<1>5. /\ Typed(q) /\ Nodes(q) = Nodes(p) /\ Len(q.line) = L - 1
      /\ \A j \in 1 .. L - 1 : q.line[j] = IF j < i + 1 THEN p.line[j] ELSE p.line[j + 1]
      /\ \A n \in Nodes(p) :
           /\ q.size[n] = IF n = l THEN p.size[l] + p.size[r] ELSE p.size[n]
           /\ q.parent[n] = IF n = r THEN l ELSE p.parent[n]
           /\ q.offset[n] = IF n = r THEN p.size[l] ELSE p.offset[n]
  BY DEF Fused, TakenOut, Nodes, l, r
<1>6. \A j \in 1 .. L : p.line[j] \in Nodes(p) /\ pos[p.line[j]] = j /\ p.parent[p.line[j]] = None
  BY DEF Laid, OnLine
\* Where the places of the old line are on the new one.
<1>7. /\ \A j \in 1 .. i : j \in 1 .. L - 1 /\ j \in 1 .. L /\ q.line[j] = p.line[j]
      /\ \A j \in i + 2 .. L : j - 1 \in 1 .. L - 1 /\ j \in 1 .. L /\ q.line[j - 1] = p.line[j]
      /\ \A j \in 1 .. L - 1 : j \in 1 .. i \/ j + 1 \in i + 2 .. L
  <2>1. \A j \in 1 .. i : j \in 1 .. L - 1 /\ j \in 1 .. L /\ j < i + 1
    BY <1>1
  <2>2. \A j \in i + 2 .. L : /\ j - 1 \in 1 .. L - 1 /\ j \in 1 .. L
                              /\ ~ (j - 1 < i + 1) /\ (j - 1) + 1 = j
    BY <1>1
  <2>3. \A j \in 1 .. L - 1 : j \in 1 .. i \/ j + 1 \in i + 2 .. L
    BY <1>1
  <2> QED
    BY <1>5, <2>1, <2>2, <2>3
<1>8. OnLine(q, pos2)
  <2>1. ASSUME NEW j \in 1 .. L - 1
        PROVE  q.line[j] \in Nodes(p) /\ pos2[q.line[j]] = j /\ q.parent[q.line[j]] = None
    <3>1. CASE j \in 1 .. i
      <4>1. q.line[j] = p.line[j] /\ p.line[j] \in Nodes(p) /\ pos[p.line[j]] = j
            /\ p.parent[p.line[j]] = None
        BY <1>6, <1>7, <3>1
      <4>2. ~ (j > i) /\ j # i + 1
        BY <1>1, <3>1
      <4>3. p.line[j] # r
        BY <1>2, <4>1, <4>2
      <4>4. pos2[p.line[j]] = j
        BY <1>4, <4>1, <4>2
      <4>5. q.parent[p.line[j]] = None
        BY <1>5, <4>1, <4>3
      <4> QED
        BY <4>1, <4>4, <4>5
    <3>2. CASE j + 1 \in i + 2 .. L
      <4> DEFINE k == j + 1
      <4>1. k \in i + 2 .. L /\ k - 1 = j
        BY <1>1, <3>2
      <4> HIDE DEF k
      <4>2. q.line[j] = p.line[k] /\ p.line[k] \in Nodes(p) /\ pos[p.line[k]] = k
            /\ p.parent[p.line[k]] = None
        BY <1>6, <1>7, <4>1
      <4>3. k > i /\ k # i + 1
        BY <1>1, <4>1
      <4>4. p.line[k] # r
        BY <1>2, <4>2, <4>3
      <4>5. pos2[p.line[k]] = j
        BY <1>4, <4>1, <4>2, <4>3
      <4>6. q.parent[p.line[k]] = None
        BY <1>5, <4>2, <4>4
      <4> QED
        BY <4>2, <4>5, <4>6
    <3> QED
      BY <1>7, <3>1, <3>2
  <2> QED
    BY <1>5, <2>1 DEF OnLine
<1>9. EndOf(p, at, i) = at[r] /\ EndOf(p, at, i) = at[l] + p.size[l]
  BY DEF Laid, Packed, EndOf, l, r
<1>10. Rooted(q, at, pos2, depth2)
  <2> SUFFICES ASSUME NEW n \in Nodes(p)
               PROVE  /\ pos2[n] \in 1 .. L - 1
                      /\ q.parent[n] = None => q.line[pos2[n]] = n
                      /\ q.parent[n] # None =>
                           /\ q.parent[n] \in Nodes(p) /\ pos2[q.parent[n]] = pos2[n]
                           /\ depth2[q.parent[n]] < depth2[n]
                           /\ at[n] = at[q.parent[n]] + q.offset[n]
    BY <1>5 DEF Rooted
  <2>1. /\ pos[n] \in 1 .. L
        /\ p.parent[n] = None => p.line[pos[n]] = n
        /\ p.parent[n] # None =>
             /\ p.parent[n] \in Nodes(p) /\ pos[p.parent[n]] = pos[n]
             /\ depth[p.parent[n]] < depth[n]
             /\ at[n] = at[p.parent[n]] + p.offset[n]
    BY DEF Laid, Rooted
  <2>2. pos2[n] \in 1 .. L - 1
    <3>1. pos2[n] = IF pos[n] > i THEN pos[n] - 1 ELSE pos[n]
      BY <1>4
    <3> QED
      BY <1>1, <2>1, <3>1
  <2>3. CASE n = r
    <3>1. q.parent[n] = l /\ q.offset[n] = p.size[l]
      BY <1>2, <1>5, <2>3
    <3>2. pos2[n] = i /\ pos2[l] = i
      BY <1>1, <1>2, <1>4, <2>3
    <3>3. depth2[l] = depth[l] /\ depth2[n] = depth[n] + depth[l] + 1
      BY <1>1, <1>2, <1>4, <2>3
    <3>4. depth2[l] < depth2[n]
      BY <1>2, <1>3, <3>3
    <3> QED
      BY <1>2, <1>9, <2>2, <2>3, <3>1, <3>2, <3>4
  <2>4. CASE n # r /\ p.parent[n] = None
    <3>1. q.parent[n] = None /\ p.line[pos[n]] = n
      BY <1>5, <2>1, <2>4
    <3>2. q.line[pos2[n]] = n
      <4>1. pos[n] # i + 1
        BY <2>4, <3>1 DEF r
      <4>2. CASE pos[n] > i
        <5>1. pos2[n] = pos[n] - 1 /\ pos[n] \in i + 2 .. L
          BY <1>1, <1>4, <2>1, <4>1, <4>2
        <5> QED
          BY <1>7, <3>1, <5>1
      <4>3. CASE ~ (pos[n] > i)
        <5>1. pos2[n] = pos[n] /\ pos[n] \in 1 .. i
          BY <1>1, <1>4, <2>1, <4>3
        <5> QED
          BY <1>7, <3>1, <5>1
      <4> QED
        BY <4>2, <4>3
    <3> QED
      BY <2>2, <3>1, <3>2
  <2>5. CASE n # r /\ p.parent[n] # None
    <3> DEFINE m == p.parent[n]
    <3>1. /\ m \in Nodes(p) /\ pos[m] = pos[n] /\ depth[m] < depth[n]
          /\ at[n] = at[m] + p.offset[n] /\ m # None
      BY <2>1, <2>5
    <3>2. q.parent[n] = m /\ q.offset[n] = p.offset[n]
      BY <1>5, <2>5
    <3> HIDE DEF m
    <3>3. pos2[m] = pos2[n]
      BY <1>4, <3>1
    <3>4. /\ depth2[m] = IF pos[n] = i + 1 THEN depth[m] + depth[l] + 1 ELSE depth[m]
          /\ depth2[n] = IF pos[n] = i + 1 THEN depth[n] + depth[l] + 1 ELSE depth[n]
      BY <1>4, <3>1
    <3>5. depth[m] \in Nat /\ depth[n] \in Nat /\ depth[l] \in Nat
      BY <1>2, <1>3, <3>1
    <3>6. depth2[m] < depth2[n]
      BY <3>1, <3>4, <3>5
    <3> QED
      BY <2>2, <3>1, <3>2, <3>3, <3>6
  <2> QED
    BY <2>3, <2>4, <2>5
<1>11. /\ \A j \in 1 .. L : j # i => /\ p.line[j] # l
                                     /\ q.size[p.line[j]] = p.size[p.line[j]]
       /\ q.size[l] = p.size[l] + p.size[r]
  <2>1. ASSUME NEW j \in 1 .. L, j # i
        PROVE  p.line[j] # l /\ q.size[p.line[j]] = p.size[p.line[j]]
    <3>1. p.line[j] # l /\ p.line[j] \in Nodes(p)
      BY <1>2, <1>6, <2>1
    <3> QED
      BY <1>5, <3>1
  <2> QED
    BY <1>2, <1>5, <2>1
<1>12. /\ \A j \in 1 .. i - 1 : EndOf(q, at, j) = EndOf(p, at, j)
       /\ EndOf(q, at, i) = EndOf(p, at, i + 1)
       /\ \A j \in i + 2 .. L : EndOf(q, at, j - 1) = EndOf(p, at, j)
  <2>1. ASSUME NEW j \in 1 .. i - 1
        PROVE  EndOf(q, at, j) = EndOf(p, at, j)
    <3>1. j \in 1 .. i /\ j \in 1 .. L /\ j # i
      BY <1>1
    <3>2. q.line[j] = p.line[j]
      BY <1>7, <3>1
    <3> QED
      BY <1>11, <3>1, <3>2 DEF EndOf
  <2>2. EndOf(q, at, i) = EndOf(p, at, i + 1)
    <3>1. i \in 1 .. i
      BY <1>1
    <3>2. q.line[i] = l
      BY <1>7, <3>1 DEF l
    <3>3. EndOf(q, at, i) = at[l] + (p.size[l] + p.size[r])
      BY <1>11, <3>2 DEF EndOf
    <3>4. EndOf(p, at, i + 1) = at[r] + p.size[r]
      BY DEF EndOf, r
    <3>5. at[l] \in Nat /\ p.size[l] \in Nat /\ p.size[r] \in Nat
      BY <1>2, LaidFacts
    <3> QED
      BY <1>9, <3>3, <3>4, <3>5
  <2>3. ASSUME NEW j \in i + 2 .. L
        PROVE  EndOf(q, at, j - 1) = EndOf(p, at, j)
    <3>1. j \in 1 .. L /\ j # i
      BY <1>1
    <3>2. q.line[j - 1] = p.line[j]
      BY <1>7
    <3> QED
      BY <1>11, <3>1, <3>2 DEF EndOf
  <2> QED
    BY <2>1, <2>2, <2>3
<1>13. Packed(q, at)
  <2>1. /\ at[p.line[1]] = 0
        /\ \A j \in 1 .. L - 1 : at[p.line[j + 1]] = EndOf(p, at, j)
    <3>1. p.line # <<>>
      BY <1>1
    <3> QED
      BY <3>1 DEF Laid, Packed
  <2>2. at[q.line[1]] = 0
    <3>1. 1 \in 1 .. i
      BY <1>1
    <3> QED
      BY <1>7, <2>1, <3>1
  <2>3. ASSUME NEW j \in 1 .. (L - 1) - 1
        PROVE  at[q.line[j + 1]] = EndOf(q, at, j)
    <3>1. j \in Nat /\ j >= 1 /\ j <= L - 2 /\ (j < i \/ j = i \/ j > i)
      BY <1>1
    <3>2. CASE j < i
      <4>1. j \in 1 .. i - 1 /\ j + 1 \in 1 .. i /\ j \in 1 .. L - 1
        BY <1>1, <3>1, <3>2
      <4>2. q.line[j + 1] = p.line[j + 1]
        BY <1>7, <4>1
      <4> QED
        BY <1>12, <2>1, <4>1, <4>2
    <3>3. CASE j = i
      <4>1. i + 1 \in 1 .. L - 1 /\ (i + 1) + 1 \in i + 2 .. L /\ ((i + 1) + 1) - 1 = j + 1
        BY <1>1, <3>1, <3>3
      <4>2. q.line[j + 1] = p.line[(i + 1) + 1]
        BY <1>7, <4>1
      <4> QED
        BY <1>12, <2>1, <3>3, <4>1, <4>2
    <3>4. CASE j > i
      <4>1. /\ j + 1 \in i + 2 .. L /\ (j + 1) - 1 = j /\ (j + 1) + 1 \in i + 2 .. L
            /\ ((j + 1) + 1) - 1 = j + 1 /\ j + 1 \in 1 .. L - 1
        BY <1>1, <3>1, <3>4
      <4>2. q.line[j + 1] = p.line[(j + 1) + 1]
        BY <1>7, <4>1
      <4>3. EndOf(q, at, j) = EndOf(p, at, j + 1)
        BY <1>12, <4>1
      <4> QED
        BY <2>1, <4>1, <4>2, <4>3
    <3> QED
      BY <3>1, <3>2, <3>3, <3>4
  <2> QED
    BY <1>5, <2>2, <2>3 DEF Packed
<1>14. Laid(q, at, pos2, depth2)
  <2>1. q.line # <<>>
    <3>1. L - 1 # 0
      <4> HIDE DEF L
      <4> QED
        BY <1>1
    <3>2. Len(q.line) # 0
      BY <1>5, <3>1
    <3> QED
      BY <3>2
  <2>2. at \in [Nodes(p) -> Nat]
    BY DEF Laid
  <2> QED
    BY <1>4, <1>5, <1>8, <1>10, <1>13, <2>1, <2>2 DEF Laid
<1>15. Spread(p, at, pos, q, at, pos2)
  <2>1. EndOf(q, at, Len(q.line)) = EndOf(p, at, L)
    <3>1. CASE i + 1 = L
      <4>1. L - 1 = i
        BY <1>1, <3>1
      <4> QED
        BY <1>5, <1>12, <3>1, <4>1
    <3>2. CASE i + 1 # L
      <4>1. L \in i + 2 .. L
        BY <1>1, <3>2
      <4> QED
        BY <1>5, <1>12, <4>1
    <3> QED
      BY <3>1, <3>2
  <2>2. EndOf(p, at, L) \in Nat
    <3>1. L \in 1 .. L
      BY <1>1
    <3> QED
      BY <3>1, LaidFacts
  <2>3. ASSUME NEW n \in Nodes(p)
        PROVE  EndOf(p, at, L) + at[n] <= EndOf(q, at, Len(q.line)) + at[n]
    BY <1>3, <2>1, <2>2
  <2>4. ASSUME NEW n \in Nodes(p), NEW m \in Nodes(p), pos[n] <= pos[m]
        PROVE  pos2[n] <= pos2[m] /\ at[m] + at[n] <= at[m] + at[n]
    <3>1. /\ at[n] \in Nat /\ at[m] \in Nat
          /\ pos2[n] = IF pos[n] > i THEN pos[n] - 1 ELSE pos[n]
          /\ pos2[m] = IF pos[m] > i THEN pos[m] - 1 ELSE pos[m]
          /\ pos[n] \in Nat /\ pos[m] \in Nat
      BY <1>3, <1>4
    <3> QED
      BY <1>1, <2>4, <3>1
  <2> QED
    BY <1>5, <2>3, <2>4 DEF Spread
<1> QED
  BY <1>14, <1>15 DEF Relaid

------------------------------------------------------------------------------
(* Buffers on a plan that is laid out again.                                *)

LEMMA ChunkFacts ==
  ASSUME NEW bufs \in Seq(Chunk)
  PROVE  /\ Len(bufs) \in Nat
         /\ \A b \in 1 .. Len(bufs) : bufs[b].node \in Nat /\ bufs[b].size \in Nat \ {0}
<1>1. Len(bufs) \in Nat
  BY LenProperties
<1>2. \A b \in 1 .. Len(bufs) : bufs[b] \in Chunk
  BY ElementOfSeq
<1> QED
  BY <1>1, <1>2 DEF Chunk

LEMMA LineFacts ==
  ASSUME NEW p, NEW at, NEW pos, NEW depth, Laid(p, at, pos, depth)
  PROVE  /\ ToSet(p.line) = Line(p) /\ InUse(p) \subseteq Line(p) /\ Line(p) \subseteq Nodes(p)
         /\ \A n \in Line(p) : /\ pos[n] \in 1 .. Len(p.line) /\ p.line[pos[n]] = n
                               /\ p.parent[n] = None /\ IndexOf(p, n) = pos[n]
<1>1. DOMAIN p.line = 1 .. Len(p.line)
  BY LaidFacts, LenProperties
<1>2. ToSet(p.line) = Line(p)
  BY <1>1 DEF ToSet, Line
<1>3. \A i \in 1 .. Len(p.line) :
        /\ p.line[i] \in Nodes(p) /\ pos[p.line[i]] = i /\ p.parent[p.line[i]] = None
        /\ IndexOf(p, p.line[i]) = i
  BY LaidFacts DEF Laid, OnLine
<1> QED
  BY <1>2, <1>3 DEF Line, InUse

LEMMA SpacedStill ==
  ASSUME NEW p, NEW at, NEW pos, NEW depth, Laid(p, at, pos, depth),
         NEW q, NEW at2, NEW pos2, NEW depth2, Laid(q, at2, pos2, depth2),
         Spread(p, at, pos, q, at2, pos2),
         NEW bufs, NEW pairs, Spaced(p, at, pos, bufs, pairs)
  PROVE  Spaced(q, at2, pos2, bufs, pairs)
<1>1. /\ bufs \in Seq(Chunk) /\ pairs \subseteq SUBSET (1 .. Len(bufs))
      /\ \A b \in 1 .. Len(bufs) : bufs[b].size \in Nat \ {0}
  BY ChunkFacts DEF Spaced
<1>2. ASSUME NEW b \in 1 .. Len(bufs)
      PROVE  /\ bufs[b].node \in Nodes(p) /\ bufs[b].node \in Nodes(q)
             /\ at[bufs[b].node] \in Nat /\ at2[bufs[b].node] \in Nat
  <2>1. bufs[b].node \in Nodes(p) /\ bufs[b].node \in Nodes(q)
    BY DEF Spaced, Spread
  <2> QED
    BY <2>1, LaidFacts
<1>3. ASSUME NEW b \in 1 .. Len(bufs)
      PROVE  at2[bufs[b].node] + bufs[b].size <= EndOf(q, at2, Len(q.line))
  <2>1. at[bufs[b].node] + bufs[b].size <= EndOf(p, at, Len(p.line))
    BY DEF Spaced
  <2>2. EndOf(p, at, Len(p.line)) + at2[bufs[b].node]
          <= EndOf(q, at2, Len(q.line)) + at[bufs[b].node]
    BY <1>2 DEF Spread
  <2>3. Len(p.line) \in 1 .. Len(p.line) /\ Len(q.line) \in 1 .. Len(q.line)
    <3>1. Len(p.line) \in Nat /\ Len(p.line) > 0
      BY <1>2, LaidFacts
    <3>2. Len(q.line) \in Nat /\ Len(q.line) > 0
      BY <1>2, LaidFacts
    <3> QED
      BY <3>1, <3>2
  <2>4. EndOf(p, at, Len(p.line)) \in Nat /\ EndOf(q, at2, Len(q.line)) \in Nat
    BY <2>3, LaidFacts
  <2> QED
    BY <1>1, <1>2, <2>1, <2>2, <2>4
<1>4. ASSUME NEW a \in 1 .. Len(bufs), NEW b \in 1 .. Len(bufs),
             Before(at, pos, bufs[a], bufs[b])
      PROVE  Before(at2, pos2, bufs[a], bufs[b])
  <2> DEFINE n == bufs[a].node
             m == bufs[b].node
  <2>1. pos[n] <= pos[m] /\ at[n] + bufs[a].size <= at[m]
    BY <1>4 DEF Before
  <2>2. pos2[n] <= pos2[m] /\ at[m] + at2[n] <= at2[m] + at[n]
    BY <1>2, <2>1 DEF Spread
  <2>3. at[n] \in Nat /\ at[m] \in Nat /\ at2[n] \in Nat /\ at2[m] \in Nat
        /\ bufs[a].size \in Nat
    BY <1>1, <1>2
  <2> HIDE DEF n, m
  <2>4. at2[n] + bufs[a].size <= at2[m]
    BY <2>1, <2>2, <2>3, SMTT(30)
  <2> QED
    BY <2>2, <2>4 DEF Before, n, m
<1>5. \A a, b \in 1 .. Len(bufs) : {a, b} \in pairs =>
        Before(at2, pos2, bufs[a], bufs[b]) \/ Before(at2, pos2, bufs[b], bufs[a])
  BY <1>4 DEF Spaced
<1> QED
  BY <1>1, <1>2, <1>3, <1>5 DEF Spaced

\* Node n comes into use for a new buffer of s units.
NewBuffer(q, busy, bufs, pairs, n, s) ==
  LET b == Len(bufs) + 1
  IN  Planned(q, busy \cup {b}, Append(bufs, [node |-> n, size |-> s]),
              pairs \cup {{a, b} : a \in busy})

LEMMA TakenKeeps ==
  ASSUME NEW p, NEW at, NEW pos, NEW depth, NEW busy, NEW bufs, NEW pairs,
         Kept(p, at, pos, depth, busy, bufs, pairs),
         NEW q, Relaid(p, at, pos, q), Sorted(q),
         NEW n, n \notin InUse(p), InUse(q) = InUse(p) \cup {n},
         NEW s \in Nat \ {0}, q.size[n] = s, \A m \in InUse(p) : q.size[m] = p.size[m]
  PROVE  NewBuffer(q, busy, bufs, pairs, n, s)
<1> DEFINE b == Len(bufs) + 1
           c == [node |-> n, size |-> s]
           bufs2 == Append(bufs, c)
           busy2 == busy \cup {b}
           pairs2 == pairs \cup {{a, b} : a \in busy}
<1>1. PICK at2, pos2, depth2 : Laid(q, at2, pos2, depth2) /\ Spread(p, at, pos, q, at2, pos2)
  BY DEF Relaid
<1>2. Laid(p, at, pos, depth) /\ Holds(p, busy, bufs) /\ Spaced(p, at, pos, bufs, pairs)
  BY DEF Kept
<1>3. Spaced(q, at2, pos2, bufs, pairs)
  BY <1>1, <1>2, SpacedStill
<1>4. n \in Line(q) /\ n \in Nodes(q) /\ n \in Nat
  <2>1. n \in Line(q)
    BY <1>1, LineFacts
  <2> QED
    BY <1>1, <2>1, LineFacts, LaidFacts
<1>5. c \in Chunk /\ c.node = n /\ c.size = s
  BY <1>4 DEF Chunk
<1> HIDE DEF c
<1>6. /\ bufs \in Seq(Chunk) /\ Len(bufs) \in Nat
      /\ bufs2 \in Seq(Chunk) /\ Len(bufs2) = b /\ bufs2[b] = c
      /\ \A a \in 1 .. Len(bufs) : bufs2[a] = bufs[a]
  <2>1. bufs \in Seq(Chunk)
    BY <1>2 DEF Spaced
  <2> QED
    BY <1>5, <2>1, AppendProperties, LenProperties
<1>7. /\ \A a \in 1 .. Len(bufs) : a \in 1 .. b /\ a # b
      /\ b \in 1 .. b
      /\ \A a \in 1 .. b : a # b => a \in 1 .. Len(bufs)
  BY <1>6
<1> HIDE DEF b, bufs2
<1>8. Holds(q, busy2, bufs2)
  <2>1. /\ busy \subseteq 1 .. Len(bufs)
        /\ InUse(p) = {bufs[a].node : a \in busy}
        /\ \A a \in busy : p.size[bufs[a].node] = bufs[a].size
        /\ \A a1, a2 \in busy : bufs[a1].node = bufs[a2].node => a1 = a2
    BY <1>2 DEF Holds
  <2>2. \A a \in busy : /\ a \in 1 .. Len(bufs) /\ bufs2[a] = bufs[a] /\ a # b
                        /\ bufs[a].node \in InUse(p) /\ bufs[a].node # n
    BY <1>6, <1>7, <2>1
  <2>3. busy2 \subseteq 1 .. Len(bufs2)
    BY <1>6, <1>7, <2>1
  <2>4. InUse(q) = {bufs2[a].node : a \in busy2}
    BY <1>5, <1>6, <2>1, <2>2
  <2>5. \A a \in busy2 : q.size[bufs2[a].node] = bufs2[a].size
    BY <1>5, <1>6, <2>1, <2>2, SMTT(30)
  <2>6. \A a1, a2 \in busy2 : bufs2[a1].node = bufs2[a2].node => a1 = a2
    BY <1>5, <1>6, <2>1, <2>2
  <2> HIDE DEF busy2
  <2> QED
    BY <2>3, <2>4, <2>5, <2>6 DEF Holds
<1>9. Spaced(q, at2, pos2, bufs2, pairs2)
  <2>1. /\ pairs \subseteq SUBSET (1 .. Len(bufs))
        /\ \A a \in 1 .. Len(bufs) :
             /\ bufs[a].node \in Nodes(q)
             /\ at2[bufs[a].node] + bufs[a].size <= EndOf(q, at2, Len(q.line))
        /\ \A a1, a2 \in 1 .. Len(bufs) : {a1, a2} \in pairs =>
             Before(at2, pos2, bufs[a1], bufs[a2]) \/ Before(at2, pos2, bufs[a2], bufs[a1])
    BY <1>3 DEF Spaced
  <2>2. busy \subseteq 1 .. Len(bufs)
    BY <1>2 DEF Holds
  <2>3. pairs2 \subseteq SUBSET (1 .. Len(bufs2))
    <3>1. 1 .. Len(bufs) \subseteq 1 .. b
      BY <1>7
    <3>2. \A a \in busy : {a, b} \subseteq 1 .. b
      BY <1>7, <2>2
    <3>3. pairs \subseteq SUBSET (1 .. b)
      BY <2>1, <3>1
    <3>4. pairs2 \subseteq SUBSET (1 .. b)
      <4> SUFFICES ASSUME NEW e \in pairs2 PROVE e \subseteq 1 .. b
        OBVIOUS
      <4>1. CASE e \in pairs
        BY <3>3, <4>1
      <4>2. CASE \E a \in busy : e = {a, b}
        BY <3>2, <4>2
      <4> QED
        BY <4>1, <4>2
    <3> HIDE DEF pairs2
    <3> QED
      BY <1>6, <3>4
  \* On the line: a buffer in use, and where it ends.
  <2>4. ASSUME NEW a \in busy2
        PROVE  /\ bufs2[a].node \in Line(q) /\ pos2[bufs2[a].node] \in 1 .. Len(q.line)
               /\ q.line[pos2[bufs2[a].node]] = bufs2[a].node
               /\ EndOf(q, at2, pos2[bufs2[a].node]) = at2[bufs2[a].node] + bufs2[a].size
    <3>1. bufs2[a].node \in InUse(q) /\ q.size[bufs2[a].node] = bufs2[a].size
      BY <1>8 DEF Holds
    <3>2. bufs2[a].node \in Line(q)
      BY <3>1 DEF InUse
    <3>3. /\ pos2[bufs2[a].node] \in 1 .. Len(q.line)
          /\ q.line[pos2[bufs2[a].node]] = bufs2[a].node
      BY <1>1, <3>2, LineFacts
    <3> QED
      BY <3>1, <3>2, <3>3 DEF EndOf
  <2>5. ASSUME NEW a \in 1 .. Len(bufs2)
        PROVE  /\ bufs2[a].node \in Nodes(q)
               /\ at2[bufs2[a].node] + bufs2[a].size <= EndOf(q, at2, Len(q.line))
    <3>1. CASE a = b
      <4>1. /\ pos2[n] \in 1 .. Len(q.line) /\ EndOf(q, at2, pos2[n]) = at2[n] + s
        BY <1>5, <1>6, <2>4
      <4>2. Len(q.line) \in 1 .. Len(q.line) /\ pos2[n] <= Len(q.line)
        BY <1>1, <4>1, LaidFacts
      <4>3. EndOf(q, at2, pos2[n]) <= EndOf(q, at2, Len(q.line))
        BY <1>1, <4>1, <4>2, InOrder
      <4> QED
        BY <1>4, <1>5, <1>6, <3>1, <4>1, <4>3
    <3>2. CASE a # b
      BY <1>6, <1>7, <2>1, <3>2
    <3> QED
      BY <3>1, <3>2
  <2>6. ASSUME NEW a \in busy
        PROVE  Before(at2, pos2, bufs2[a], bufs2[b]) \/ Before(at2, pos2, bufs2[b], bufs2[a])
    <3> DEFINE m == bufs2[a].node
    <3>1. /\ m \in Line(q) /\ pos2[m] \in 1 .. Len(q.line) /\ q.line[pos2[m]] = m
          /\ EndOf(q, at2, pos2[m]) = at2[m] + bufs2[a].size
      BY <2>4
    <3>2. /\ bufs2[b].node = n /\ bufs2[b].size = s
          /\ pos2[n] \in 1 .. Len(q.line) /\ q.line[pos2[n]] = n
          /\ EndOf(q, at2, pos2[n]) = at2[n] + s
      BY <1>5, <1>6, <2>4
    <3>3. m # n
      BY <1>7, <1>8, <2>2, <3>2 DEF Holds
    <3>4. pos2[m] # pos2[n]
      BY <3>1, <3>2, <3>3
    <3> HIDE DEF m
    <3>5. CASE pos2[m] < pos2[n]
      <4>1. EndOf(q, at2, pos2[m]) <= at2[q.line[pos2[n]]]
        BY <1>1, <3>1, <3>2, <3>5, InOrder
      <4>2. at2[m] + bufs2[a].size <= at2[n] /\ pos2[m] <= pos2[n]
        BY <1>1, <3>1, <3>2, <3>5, <4>1
      <4> QED
        BY <3>2, <4>2 DEF Before, m
    <3>6. CASE pos2[n] < pos2[m]
      <4>1. EndOf(q, at2, pos2[n]) <= at2[q.line[pos2[m]]]
        BY <1>1, <3>1, <3>2, <3>6, InOrder
      <4>2. at2[n] + s <= at2[m] /\ pos2[n] <= pos2[m]
        BY <1>1, <3>1, <3>2, <3>6, <4>1
      <4> QED
        BY <3>2, <4>2 DEF Before, m
    <3>7. pos2[m] < pos2[n] \/ pos2[n] < pos2[m]
      BY <1>1, <3>1, <3>2, <3>4, LaidFacts, SMTT(30)
    <3> QED
      BY <3>5, <3>6, <3>7
  <2>7. ASSUME NEW a1 \in 1 .. Len(bufs2), NEW a2 \in 1 .. Len(bufs2), {a1, a2} \in pairs2
        PROVE  Before(at2, pos2, bufs2[a1], bufs2[a2]) \/ Before(at2, pos2, bufs2[a2], bufs2[a1])
    <3>1. CASE {a1, a2} \in pairs
      <4>1. a1 \in 1 .. Len(bufs) /\ a2 \in 1 .. Len(bufs)
        BY <2>1, <3>1
      <4> QED
        BY <1>6, <2>1, <3>1, <4>1
    <3>2. CASE \E a \in busy : {a1, a2} = {a, b}
      <4>1. PICK a \in busy : {a1, a2} = {a, b}
        BY <3>2
      <4>2. \/ a1 = a /\ a2 = b
            \/ a1 = b /\ a2 = a
        BY <1>7, <2>2, <4>1
      <4> QED
        BY <2>6, <4>2
    <3> QED
      BY <2>7, <3>1, <3>2
  <2> HIDE DEF pairs2
  <2> QED
    BY <1>6, <2>3, <2>5, <2>7 DEF Spaced
<1> HIDE DEF busy2, pairs2
<1>10. Kept(q, at2, pos2, depth2, busy2, bufs2, pairs2)
  BY <1>1, <1>8, <1>9 DEF Kept
<1>11. Planned(q, busy2, bufs2, pairs2)
  BY <1>10 DEF Planned
<1> QED
  BY <1>11 DEF NewBuffer, busy2, bufs2, pairs2, b, c

\* The node of buffer b is not in use any more.
LEMMA FreedKeeps ==
  ASSUME NEW p, NEW at, NEW pos, NEW depth, NEW busy, NEW bufs, NEW pairs,
         Kept(p, at, pos, depth, busy, bufs, pairs), NEW b \in busy,
         NEW q, Relaid(p, at, pos, q), Sorted(q),
         InUse(q) = InUse(p) \ {bufs[b].node},
         \A m \in InUse(q) : q.size[m] = p.size[m]
  PROVE  Planned(q, busy \ {b}, bufs, pairs)
<1>1. PICK at2, pos2, depth2 : Laid(q, at2, pos2, depth2) /\ Spread(p, at, pos, q, at2, pos2)
  BY DEF Relaid
<1>2. Laid(p, at, pos, depth) /\ Holds(p, busy, bufs) /\ Spaced(p, at, pos, bufs, pairs)
  BY DEF Kept
<1>3. Spaced(q, at2, pos2, bufs, pairs)
  BY <1>1, <1>2, SpacedStill
<1>4. Holds(q, busy \ {b}, bufs)
  <2>1. /\ busy \subseteq 1 .. Len(bufs)
        /\ InUse(p) = {bufs[a].node : a \in busy}
        /\ \A a \in busy : p.size[bufs[a].node] = bufs[a].size
        /\ \A a1, a2 \in busy : bufs[a1].node = bufs[a2].node => a1 = a2
    BY <1>2 DEF Holds
  <2>2. InUse(q) = {bufs[a].node : a \in busy \ {b}}
    BY <2>1
  <2>3. \A a \in busy \ {b} : q.size[bufs[a].node] = bufs[a].size
    BY <2>1, <2>2
  <2> QED
    BY <2>1, <2>2, <2>3 DEF Holds
<1> QED
  BY <1>1, <1>3, <1>4 DEF Planned, Kept

------------------------------------------------------------------------------
(* alloc.                                                                   *)

LEMMA InsertFacts ==
  ASSUME NEW p, NEW at, NEW pos, NEW depth, Laid(p, at, pos, depth),
         NEW i \in 1 .. Len(p.line) + 1, NEW s \in Nat \ {0}
  PROVE  LET q == Insert(p, i, s)
         IN  /\ NodeAdded(p, q, i, s) /\ q \in PlanType /\ q.free = p.free
             /\ \A n \in Nodes(p) : q.size[n] = p.size[n] /\ (q.usage[n] <=> p.usage[n])
             /\ q.usage[NewNode(p)]
<1> DEFINE q == Insert(p, i, s)
           N == NewNode(p)
<1>1. /\ p \in PlanType /\ Len(p.usage) = Len(p.size) /\ Len(p.parent) = Len(p.size)
      /\ Len(p.offset) = Len(p.size) /\ Len(p.size) \in Nat /\ N = Len(p.size) + 1
  BY LaidFacts DEF Laid, Typed, NewNode
<1>2. /\ p.line \in Seq(Nat) /\ p.size \in Seq(Nat \ {0}) /\ p.usage \in Seq(BOOLEAN)
      /\ p.parent \in Seq(Nat) /\ p.offset \in Seq(Nat) /\ p.free \in SUBSET Nat
  BY LaidFacts
<1> HIDE DEF N
<1>3. q = [line |-> InsertAt(p.line, i, N), size |-> Append(p.size, s),
           usage |-> Append(p.usage, TRUE), parent |-> Append(p.parent, None),
           offset |-> Append(p.offset, 0), free |-> p.free]
  <2>1. p = [line |-> p.line, size |-> p.size, usage |-> p.usage, parent |-> p.parent,
             offset |-> p.offset, free |-> p.free]
    BY <1>1 DEF PlanType
  <2> DEFINE line == InsertAt(p.line, i, N)
             size == Append(p.size, s)
             usage == Append(p.usage, TRUE)
             parent == Append(p.parent, None)
             offset == Append(p.offset, 0)
  <2>2. q = [p EXCEPT !.line = line, !.size = size, !.usage = usage, !.parent = parent,
                      !.offset = offset]
    BY DEF Insert, N
  <2> HIDE DEF line, size, usage, parent, offset, q
  <2>3. q = [line |-> line, size |-> size, usage |-> usage, parent |-> parent,
             offset |-> offset, free |-> p.free]
    BY <2>1, <2>2
  <2> QED
    BY <2>3 DEF line, size, usage, parent, offset
<1> HIDE DEF q
<1>4. /\ q.line = InsertAt(p.line, i, N) /\ q.size = Append(p.size, s)
      /\ q.usage = Append(p.usage, TRUE) /\ q.parent = Append(p.parent, None)
      /\ q.offset = Append(p.offset, 0) /\ q.free = p.free
  BY <1>3
<1>5. N \in Nat /\ None \in Nat /\ 0 \in Nat /\ TRUE \in BOOLEAN
  BY <1>1 DEF None
<1>6. q.line \in Seq(Nat) /\ PutIn(q.line, p.line, i, N)
  <2>1. p.line \in Seq(Nat) /\ N \in Nat /\ i \in 1 .. Len(p.line) + 1
    BY <1>2, <1>5
  <2>2. InsertAt(p.line, i, N) \in Seq(Nat) /\ PutIn(InsertAt(p.line, i, N), p.line, i, N)
    BY <2>1, InsertAtFacts
  <2> QED
    BY <1>4, <2>2
<1>7. /\ q.size \in Seq(Nat \ {0}) /\ Len(q.size) = Len(p.size) + 1
      /\ \A n \in 1 .. Len(p.size) : q.size[n] = p.size[n]
      /\ q.size[Len(p.size) + 1] = s
  BY <1>2, <1>4, AppendProperties
<1>8. /\ q.parent \in Seq(Nat) /\ Len(q.parent) = Len(p.parent) + 1
      /\ \A n \in 1 .. Len(p.parent) : q.parent[n] = p.parent[n]
      /\ q.parent[Len(p.parent) + 1] = None
  BY <1>2, <1>4, <1>5, AppendProperties
<1>9. /\ q.offset \in Seq(Nat) /\ Len(q.offset) = Len(p.offset) + 1
      /\ \A n \in 1 .. Len(p.offset) : q.offset[n] = p.offset[n]
  BY <1>2, <1>4, <1>5, AppendProperties
<1>10. /\ q.usage \in Seq(BOOLEAN) /\ Len(q.usage) = Len(p.usage) + 1
       /\ \A n \in 1 .. Len(p.usage) : q.usage[n] = p.usage[n]
       /\ q.usage[Len(p.usage) + 1] = TRUE
  <2>1. /\ Append(p.usage, TRUE) \in Seq(BOOLEAN) /\ Len(Append(p.usage, TRUE)) = Len(p.usage) + 1
        /\ \A n \in 1 .. Len(p.usage) : Append(p.usage, TRUE)[n] = p.usage[n]
        /\ Append(p.usage, TRUE)[Len(p.usage) + 1] = TRUE
    BY <1>2, <1>5, AppendProperties, ZenonT(30)
  <2> QED
    BY <1>4, <2>1, Zenon
<1>11. q \in PlanType
  BY <1>2, <1>3, <1>4, <1>6, <1>7, <1>8, <1>9, <1>10, Zenon DEF PlanType
<1>12. Typed(q)
  BY <1>1, <1>7, <1>8, <1>9, <1>10, <1>11 DEF Typed
<1>13. NodeAdded(p, q, i, s)
  BY <1>1, <1>6, <1>7, <1>8, <1>9, <1>12 DEF NodeAdded, Nodes, N
<1>14. q.usage[N] /\ \A n \in Nodes(p) : q.usage[n] <=> p.usage[n]
  BY <1>1, <1>10, Zenon DEF Nodes
<1> QED
  BY <1>4, <1>7, <1>11, <1>13, <1>14 DEF Nodes, q, N

LEMMA AllocAtEnd ==
  ASSUME NEW p, NEW at, NEW pos, NEW depth, NEW busy, NEW bufs, NEW pairs,
         Kept(p, at, pos, depth, busy, bufs, pairs), NEW s \in Nat \ {0}
  PROVE  NewBuffer(Insert(p, Len(p.line) + 1, s), busy, bufs, pairs, NewNode(p), s)
<1> DEFINE L == Len(p.line)
           N == NewNode(p)
           q == Insert(p, L + 1, s)
<1>1. Laid(p, at, pos, depth) /\ Sorted(p)
  BY DEF Kept
<1>2. L \in Nat /\ L + 1 \in 1 .. Len(p.line) + 1 /\ N \notin Nodes(p) /\ InUse(p) \subseteq Line(p)
      /\ Line(p) \subseteq Nodes(p)
  <2>1. L \in Nat
    BY <1>1, LaidFacts
  <2>2. N \notin Nodes(p)
    BY <1>1, <2>1, LaidFacts DEF Nodes, NewNode
  <2> QED
    BY <1>1, <2>1, <2>2, LineFacts
<1>3. /\ NodeAdded(p, q, L + 1, s) /\ q.free = p.free
      /\ \A n \in Nodes(p) : q.size[n] = p.size[n] /\ (q.usage[n] <=> p.usage[n])
      /\ q.usage[N]
  BY <1>1, <1>2, InsertFacts
<1> HIDE DEF q, N
<1>4. Relaid(p, at, pos, q)
  BY <1>1, <1>3, AddAtEnd
<1>5. /\ Len(q.line) = L + 1 /\ q.line[L + 1] = N /\ q.size[N] = s
      /\ \A j \in 1 .. L : q.line[j] = p.line[j]
  <2>1. /\ Len(q.line) = L + 1 /\ q.size[N] = s
        /\ \A j \in 1 .. L + 1 :
             q.line[j] = IF j < L + 1 THEN p.line[j] ELSE IF j = L + 1 THEN N ELSE p.line[j - 1]
    BY <1>3 DEF NodeAdded, PutIn, N
  <2>2. \A j \in 1 .. L : j \in 1 .. L + 1 /\ j < L + 1
    BY <1>2
  <2>3. L + 1 \in 1 .. L + 1 /\ ~ (L + 1 < L + 1)
    BY <1>2
  <2> QED
    BY <2>1, <2>2, <2>3
<1> HIDE DEF L
<1>6. Line(q) = Line(p) \cup {N}
  <2>1. \A j \in 1 .. L + 1 : j \in 1 .. L \/ j = L + 1
    BY <1>2
  <2>2. \A j \in 1 .. L : j \in 1 .. L + 1
    BY <1>2
  <2>3. L + 1 \in 1 .. L + 1
    BY <1>2
  <2> QED
    BY <1>5, <2>1, <2>2, <2>3 DEF Line, L
<1>7. InUse(q) = InUse(p) \cup {N}
  BY <1>2, <1>3, <1>6, Zenon DEF InUse
<1>8. Sorted(q)
  <2>1. q.free = Line(q) \ InUse(q)
    BY <1>1, <1>2, <1>3, <1>6, <1>7 DEF Sorted
  <2>2. ASSUME NEW j \in 1 .. (L + 1) - 1
        PROVE  q.line[j] \in InUse(q) \/ q.line[j + 1] \in InUse(q)
    <3>1. CASE j = L
      BY <1>5, <1>7, <3>1
    <3>2. CASE j # L
      <4>1. j \in 1 .. L - 1 /\ j \in 1 .. L /\ j + 1 \in 1 .. L
        BY <1>2, <3>2
      <4>2. p.line[j] \in InUse(p) \/ p.line[j + 1] \in InUse(p)
        BY <1>1, <4>1 DEF Sorted, L
      <4> QED
        BY <1>5, <1>7, <4>1, <4>2
    <3> QED
      BY <3>1, <3>2
  <2> QED
    BY <1>5, <2>1, <2>2 DEF Sorted
<1>9. N \notin InUse(p) /\ \A m \in InUse(p) : q.size[m] = p.size[m]
  BY <1>2, <1>3
<1>10. NewBuffer(q, busy, bufs, pairs, N, s)
  BY <1>4, <1>5, <1>7, <1>8, <1>9, TakenKeeps
<1> QED
  BY <1>10 DEF q, N, L

\* What is done to the free node n itself.
Taken(r, n, s) == [r EXCEPT !.free = @ \ {n}, !.usage[n] = TRUE, !.size[n] = s]

LEMMA TakenFacts ==
  ASSUME NEW r, Typed(r), NEW n \in Nodes(r), NEW s \in Nat \ {0}
  PROVE  LET q == Taken(r, n, s)
         IN  /\ Typed(q) /\ q.line = r.line /\ q.parent = r.parent /\ q.offset = r.offset
             /\ Len(q.size) = Len(r.size) /\ q.free = r.free \ {n}
             /\ \A m \in Nodes(r) : q.size[m] = IF m = n THEN s ELSE r.size[m]
             /\ q.usage[n] /\ \A m \in Nodes(r) \ {n} : q.usage[m] <=> r.usage[m]
<1> DEFINE q == Taken(r, n, s)
           size == [r.size EXCEPT ![n] = s]
           usage == [r.usage EXCEPT ![n] = TRUE]
<1>1. /\ r \in PlanType /\ Len(r.usage) = Len(r.size) /\ Len(r.parent) = Len(r.size)
      /\ Len(r.offset) = Len(r.size)
  BY DEF Typed
<1>2. /\ r = [line |-> r.line, size |-> r.size, usage |-> r.usage, parent |-> r.parent,
              offset |-> r.offset, free |-> r.free]
      /\ r.line \in Seq(Nat) /\ r.size \in Seq(Nat \ {0}) /\ r.usage \in Seq(BOOLEAN)
      /\ r.parent \in Seq(Nat) /\ r.offset \in Seq(Nat) /\ r.free \in SUBSET Nat
  BY <1>1 DEF PlanType
<1>3. q = [r EXCEPT !.free = r.free \ {n}, !.usage = usage, !.size = size]
  BY <1>2 DEF Taken
<1>4. n \in 1 .. Len(r.size) /\ n \in 1 .. Len(r.usage)
  BY <1>1 DEF Nodes
<1>5. /\ size \in Seq(Nat \ {0}) /\ Len(size) = Len(r.size)
      /\ \A m \in 1 .. Len(r.size) : size[m] = IF m = n THEN s ELSE r.size[m]
  BY <1>2, <1>4, ExceptSeq
<1>6. usage \in Seq(BOOLEAN) /\ Len(usage) = Len(r.usage)
  BY <1>2, <1>4, ExceptSeq
<1>7. usage[n] /\ \A m \in Nodes(r) \ {n} : usage[m] <=> r.usage[m]
  <2>1. DOMAIN r.usage = Nodes(r)
    BY <1>1, <1>2, LenProperties DEF Nodes
  <2> QED
    BY <2>1, Zenon
<1> HIDE DEF q, size, usage
<1>8. q = [line |-> r.line, size |-> size, usage |-> usage, parent |-> r.parent,
           offset |-> r.offset, free |-> r.free \ {n}]
  BY <1>2, <1>3
<1>9. /\ q.line = r.line /\ q.size = size /\ q.usage = usage /\ q.parent = r.parent
      /\ q.offset = r.offset /\ q.free = r.free \ {n}
  BY <1>8
<1>10. q \in PlanType
  <2>1. r.free \ {n} \in SUBSET Nat
    BY <1>2
  <2> QED
    BY <1>2, <1>5, <1>6, <1>8, <2>1, Zenon DEF PlanType
<1>11. Typed(q)
  BY <1>1, <1>5, <1>6, <1>9, <1>10 DEF Typed
<1>12. \A m \in Nodes(r) : q.size[m] = IF m = n THEN s ELSE r.size[m]
  BY <1>5, <1>9 DEF Nodes
<1>13. q.usage[n] /\ \A m \in Nodes(r) \ {n} : q.usage[m] <=> r.usage[m]
  BY <1>7, <1>9, Zenon
<1>14. Len(q.size) = Len(r.size)
  BY <1>5, <1>9
<1> QED
  BY <1>9, <1>11, <1>12, <1>13, <1>14, Zenon DEF q

\* The node that a split makes is free.
Spare(r, n) == [r EXCEPT !.usage[n] = FALSE, !.free = @ \cup {n}]

LEMMA SpareFacts ==
  ASSUME NEW r, Typed(r), NEW n \in Nodes(r), n \in Nat
  PROVE  LET q == Spare(r, n)
         IN  /\ Typed(q) /\ q.line = r.line /\ q.parent = r.parent /\ q.offset = r.offset
             /\ q.size = r.size /\ q.free = r.free \cup {n}
             /\ ~ q.usage[n] /\ \A m \in Nodes(r) \ {n} : q.usage[m] <=> r.usage[m]
<1> DEFINE q == Spare(r, n)
           usage == [r.usage EXCEPT ![n] = FALSE]
<1>1. /\ r \in PlanType /\ Len(r.usage) = Len(r.size) /\ Len(r.parent) = Len(r.size)
      /\ Len(r.offset) = Len(r.size)
  BY DEF Typed
<1>2. /\ r = [line |-> r.line, size |-> r.size, usage |-> r.usage, parent |-> r.parent,
              offset |-> r.offset, free |-> r.free]
      /\ r.line \in Seq(Nat) /\ r.size \in Seq(Nat \ {0}) /\ r.usage \in Seq(BOOLEAN)
      /\ r.parent \in Seq(Nat) /\ r.offset \in Seq(Nat) /\ r.free \in SUBSET Nat
  BY <1>1 DEF PlanType
<1>3. q = [r EXCEPT !.usage = usage, !.free = r.free \cup {n}]
  BY <1>2 DEF Spare
<1>4. n \in 1 .. Len(r.usage)
  BY <1>1 DEF Nodes
<1>6. usage \in Seq(BOOLEAN) /\ Len(usage) = Len(r.usage)
  BY <1>2, <1>4, ExceptSeq
<1>7. ~ usage[n] /\ \A m \in Nodes(r) \ {n} : usage[m] <=> r.usage[m]
  <2>1. DOMAIN r.usage = Nodes(r)
    BY <1>1, <1>2, LenProperties DEF Nodes
  <2> QED
    BY <2>1, Zenon
<1> HIDE DEF q, usage
<1>8. q = [line |-> r.line, size |-> r.size, usage |-> usage, parent |-> r.parent,
           offset |-> r.offset, free |-> r.free \cup {n}]
  BY <1>2, <1>3
<1>9. /\ q.line = r.line /\ q.size = r.size /\ q.usage = usage /\ q.parent = r.parent
      /\ q.offset = r.offset /\ q.free = r.free \cup {n}
  BY <1>8
<1>10. q \in PlanType
  <2>1. r.free \cup {n} \in SUBSET Nat
    BY <1>2
  <2> QED
    BY <1>2, <1>6, <1>8, <2>1, Zenon DEF PlanType
<1>11. Typed(q)
  BY <1>1, <1>6, <1>9, <1>10 DEF Typed
<1>13. ~ q.usage[n] /\ \A m \in Nodes(r) \ {n} : q.usage[m] <=> r.usage[m]
  BY <1>7, <1>9, Zenon
<1> QED
  BY <1>9, <1>11, <1>13, Zenon DEF q

LEMMA TakeWide ==
  ASSUME NEW p, NEW at, NEW pos, NEW depth, NEW busy, NEW bufs, NEW pairs,
         Kept(p, at, pos, depth, busy, bufs, pairs),
         NEW n \in p.free, NEW s \in Nat \ {0}, p.size[n] <= s
  PROVE  NewBuffer(Taken(p, n, s), busy, bufs, pairs, n, s)
<1> DEFINE q == Taken(p, n, s)
           i == pos[n]
<1>1. Laid(p, at, pos, depth) /\ Sorted(p) /\ Typed(p)
  BY DEF Kept, Laid
<1>2. n \in Line(p) /\ n \notin InUse(p) /\ Line(p) \subseteq Nodes(p) /\ n \in Nodes(p)
      /\ InUse(p) \subseteq Line(p)
  BY <1>1, LineFacts DEF Sorted
<1>3. i \in 1 .. Len(p.line) /\ p.line[i] = n
  BY <1>1, <1>2, LineFacts
<1>4. /\ Typed(q) /\ q.line = p.line /\ q.parent = p.parent /\ q.offset = p.offset
      /\ Len(q.size) = Len(p.size) /\ q.free = p.free \ {n}
      /\ \A m \in Nodes(p) : q.size[m] = IF m = n THEN s ELSE p.size[m]
      /\ q.usage[n] /\ \A m \in Nodes(p) \ {n} : q.usage[m] <=> p.usage[m]
  BY <1>1, <1>2, TakenFacts
<1> HIDE DEF q, i
<1>5. Relaid(p, at, pos, q)
  <2>1. Widened(p, q, i, s)
    BY <1>3, <1>4 DEF Widened
  <2>2. s \in Nat /\ s >= p.size[p.line[i]]
    BY <1>1, <1>2, <1>3, LaidFacts
  <2> QED
    BY <1>1, <1>3, <2>1, <2>2, Widen
<1>6. Line(q) = Line(p)
  BY <1>4 DEF Line
<1>7. InUse(q) = InUse(p) \cup {n}
  BY <1>2, <1>4, <1>6, Zenon DEF InUse
<1>8. Sorted(q)
  <2>1. q.free = Line(q) \ InUse(q)
    BY <1>1, <1>4, <1>6, <1>7 DEF Sorted
  <2> QED
    BY <1>1, <1>4, <1>7, <2>1 DEF Sorted
<1>9. q.size[n] = s /\ \A m \in InUse(p) : q.size[m] = p.size[m]
  BY <1>2, <1>4
<1>10. NewBuffer(q, busy, bufs, pairs, n, s)
  BY <1>2, <1>5, <1>7, <1>8, <1>9, TakenKeeps
<1> QED
  BY <1>10 DEF q

LEMMA TakeSplit ==
  ASSUME NEW p, NEW at, NEW pos, NEW depth, NEW busy, NEW bufs, NEW pairs,
         Kept(p, at, pos, depth, busy, bufs, pairs),
         NEW n \in p.free, NEW s \in Nat \ {0}, p.size[n] > s
  PROVE  LET t == Insert(p, IndexOf(p, n) + 1, p.size[n] - s)
         IN  NewBuffer(Taken(Spare(t, NewNode(p)), n, s), busy, bufs, pairs, n, s)
<1> DEFINE i == pos[n]
           L == Len(p.line)
           N == NewNode(p)
           x == p.size[n] - s
           t == Insert(p, i + 1, x)
           u == Spare(t, N)
           q == Taken(u, n, s)
<1>1. Laid(p, at, pos, depth) /\ Sorted(p)
  BY DEF Kept
<1>2. n \in Line(p) /\ n \notin InUse(p) /\ Line(p) \subseteq Nodes(p) /\ n \in Nodes(p)
      /\ InUse(p) \subseteq Line(p)
  BY <1>1, LineFacts DEF Sorted
<1>3. i \in 1 .. L /\ p.line[i] = n /\ IndexOf(p, n) = i /\ L \in Nat
  BY <1>1, <1>2, LineFacts, LaidFacts
<1>4. x \in Nat \ {0} /\ s + x = p.size[n]
  <2>1. p.size[n] \in Nat
    BY <1>1, <1>2, LaidFacts
  <2> QED
    BY <2>1
<1>5. i + 1 \in 1 .. Len(p.line) + 1
  BY <1>3
<1> HIDE DEF i, x
<1>6. /\ NodeAdded(p, t, i + 1, x) /\ t.free = p.free
      /\ \A m \in Nodes(p) : t.size[m] = p.size[m] /\ (t.usage[m] <=> p.usage[m])
  BY <1>1, <1>4, <1>5, InsertFacts
<1> HIDE DEF t
<1>7. /\ Nodes(t) = Nodes(p) \cup {N} /\ N \notin Nodes(p) /\ N \in Nat /\ Typed(t)
      /\ N \in Nodes(t) /\ n \in Nodes(t) /\ n # N
  <2>1. Nodes(t) = Nodes(p) \cup {N} /\ N \notin Nodes(p) /\ N \in Nat
    BY <1>1, <1>6, NewNodeFacts DEF NodeAdded
  <2> QED
    BY <1>2, <1>6, <2>1 DEF NodeAdded
<1> HIDE DEF N
<1>8. /\ Typed(u) /\ u.line = t.line /\ u.parent = t.parent /\ u.offset = t.offset
      /\ u.size = t.size /\ u.free = t.free \cup {N}
      /\ ~ u.usage[N] /\ \A m \in Nodes(t) \ {N} : u.usage[m] <=> t.usage[m]
  BY <1>7, SpareFacts
<1> HIDE DEF u
<1>9. Nodes(u) = Nodes(t)
  BY <1>8 DEF Nodes
<1>10. /\ Typed(q) /\ q.line = u.line /\ q.parent = u.parent /\ q.offset = u.offset
       /\ Len(q.size) = Len(u.size) /\ q.free = u.free \ {n}
       /\ \A m \in Nodes(u) : q.size[m] = IF m = n THEN s ELSE u.size[m]
       /\ q.usage[n] /\ \A m \in Nodes(u) \ {n} : q.usage[m] <=> u.usage[m]
  BY <1>7, <1>8, <1>9, TakenFacts
<1> HIDE DEF q
<1>11. NodeAdded(p, q, i + 1, x)
  <2>1. q.size[N] = t.size[N]
    BY <1>7, <1>8, <1>9, <1>10
  <2> QED
    BY <1>6, <1>8, <1>10, <2>1 DEF NodeAdded, N
<1>12. \A m \in Nodes(p) : q.size[m] = IF m = n THEN s ELSE p.size[m]
  BY <1>6, <1>7, <1>8, <1>9, <1>10
<1>13. Relaid(p, at, pos, q)
  BY <1>1, <1>3, <1>4, <1>11, <1>12, AddBySplit, ZenonT(30)
<1>14. /\ Len(q.line) = L + 1
       /\ \A j \in 1 .. L + 1 :
            q.line[j] = IF j < i + 1 THEN p.line[j] ELSE IF j = i + 1 THEN N ELSE p.line[j - 1]
  BY <1>11 DEF NodeAdded, PutIn, N
<1>15. /\ \A j \in 1 .. i : j \in 1 .. L /\ j \in 1 .. L + 1 /\ q.line[j] = p.line[j]
       /\ i + 1 \in 1 .. L + 1 /\ q.line[i + 1] = N
       /\ \A j \in i + 1 .. L : j \in 1 .. L /\ j + 1 \in 1 .. L + 1 /\ q.line[j + 1] = p.line[j]
  <2>1. \A j \in 1 .. i : j \in 1 .. L /\ j \in 1 .. L + 1 /\ j < i + 1
    BY <1>3
  <2>2. i + 1 \in 1 .. L + 1 /\ ~ (i + 1 < i + 1)
    BY <1>3
  <2>3. \A j \in i + 1 .. L : /\ j \in 1 .. L /\ j + 1 \in 1 .. L + 1
                              /\ ~ (j + 1 < i + 1) /\ j + 1 # i + 1 /\ (j + 1) - 1 = j
    BY <1>3
  <2> QED
    BY <1>14, <2>1, <2>2, <2>3
<1>16. Line(q) = Line(p) \cup {N}
  <2>1. \A j \in 1 .. L + 1 : \/ j \in 1 .. i \/ j = i + 1
                              \/ j - 1 \in i + 1 .. L /\ j = (j - 1) + 1
    BY <1>3
  <2>2. \A j \in 1 .. L : j \in 1 .. i \/ j \in i + 1 .. L
    BY <1>3
  <2>3. Line(q) = {q.line[j] : j \in 1 .. L + 1} /\ Line(p) = {p.line[j] : j \in 1 .. L}
    BY <1>14 DEF Line
  <2>4. \A j \in 1 .. L + 1 : q.line[j] \in Line(p) \cup {N}
    <3> TAKE j \in 1 .. L + 1
    <3>1. CASE j \in 1 .. i
      BY <1>15, <2>3, <3>1
    <3>2. CASE j = i + 1
      BY <1>15, <3>2
    <3>3. CASE j - 1 \in i + 1 .. L /\ j = (j - 1) + 1
      <4>1. j - 1 \in 1 .. L /\ q.line[j] = p.line[j - 1]
        BY <1>15, <3>3
      <4> QED
        BY <2>3, <4>1
    <3> QED
      BY <2>1, <3>1, <3>2, <3>3
  <2>5. \A j \in 1 .. L : p.line[j] \in Line(q)
    BY <1>15, <2>2, <2>3
  <2>6. N \in Line(q)
    BY <1>15, <2>3
  <2> QED
    BY <2>3, <2>4, <2>5, <2>6
<1>17. InUse(q) = InUse(p) \cup {n}
  <2>1. q.usage[n] /\ ~ q.usage[N]
    BY <1>7, <1>8, <1>9, <1>10, Zenon
  <2>2. \A m \in Nodes(p) \ {n} : q.usage[m] <=> p.usage[m]
    BY <1>6, <1>7, <1>8, <1>9, <1>10, Zenon
  <2> QED
    BY <1>2, <1>16, <2>1, <2>2, Zenon DEF InUse
<1>18. Sorted(q)
  <2>1. q.free = Line(q) \ InUse(q)
    <3>1. q.free = (p.free \cup {N}) \ {n}
      BY <1>6, <1>8, <1>10
    <3>2. p.free = Line(p) \ InUse(p) /\ N \notin InUse(p)
      BY <1>1, <1>2, <1>7 DEF Sorted
    <3> QED
      BY <1>7, <1>16, <1>17, <3>1, <3>2
  <2>2. ASSUME NEW j \in 1 .. L - 1
        PROVE  p.line[j] \in InUse(p) \/ p.line[j + 1] \in InUse(p)
    BY <1>1 DEF Sorted
  <2>3. ASSUME NEW j \in 1 .. (L + 1) - 1
        PROVE  q.line[j] \in InUse(q) \/ q.line[j + 1] \in InUse(q)
    <3>1. j \in Nat /\ j >= 1 /\ j <= L /\ (j < i \/ j = i \/ j = i + 1 \/ j > i + 1)
      BY <1>3
    <3>2. CASE j < i
      <4>1. j \in 1 .. L - 1 /\ j \in 1 .. i /\ j + 1 \in 1 .. i
        BY <1>3, <3>1, <3>2
      <4> QED
        BY <1>15, <1>17, <2>2, <4>1
    <3>3. CASE j = i
      <4>1. i \in 1 .. i
        BY <1>3
      <4> QED
        BY <1>3, <1>15, <1>17, <3>3, <4>1
    <3>4. CASE j = i + 1
      <4>1. i \in 1 .. L - 1 /\ i + 1 \in i + 1 .. L
        BY <1>3, <3>1, <3>4
      <4>2. p.line[i + 1] \in InUse(p)
        BY <1>2, <1>3, <2>2, <4>1
      <4>3. q.line[j + 1] = p.line[i + 1]
        BY <1>15, <3>4, <4>1
      <4> QED
        BY <1>17, <4>2, <4>3
    <3>5. CASE j > i + 1
      <4>1. /\ j - 1 \in 1 .. L - 1 /\ (j - 1) + 1 = j /\ j \in i + 1 .. L
            /\ j - 1 \in i + 1 .. L
        BY <1>3, <3>1, <3>5
      <4>2. q.line[j + 1] = p.line[j] /\ q.line[j] = p.line[j - 1]
        BY <1>15, <4>1
      <4>3. p.line[j - 1] \in InUse(p) \/ p.line[j] \in InUse(p)
        BY <2>2, <4>1
      <4> QED
        BY <1>17, <4>2, <4>3
    <3> QED
      BY <3>1, <3>2, <3>3, <3>4, <3>5
  <2> QED
    BY <1>14, <2>1, <2>3 DEF Sorted
<1>19. q.size[n] = s /\ \A m \in InUse(p) : q.size[m] = p.size[m]
  BY <1>2, <1>12
<1>20. NewBuffer(q, busy, bufs, pairs, n, s)
  BY <1>2, <1>13, <1>17, <1>18, <1>19, TakenKeeps
<1> QED
  BY <1>3, <1>20 DEF q, u, t, x, N

LEMMA TakeNodeKeeps ==
  ASSUME NEW p, NEW at, NEW pos, NEW depth, NEW busy, NEW bufs, NEW pairs,
         Kept(p, at, pos, depth, busy, bufs, pairs),
         NEW n \in p.free, NEW s \in Nat \ {0}
  PROVE  NewBuffer(TakeNode(p, n, s), busy, bufs, pairs, n, s)
<1> DEFINE t == Insert(p, IndexOf(p, n) + 1, p.size[n] - s)
<1>1. CASE p.size[n] > s
  <2>1. TakeNode(p, n, s) = Taken(Spare(t, NewNode(p)), n, s)
    BY <1>1 DEF TakeNode, Taken, Spare
  <2>2. NewBuffer(Taken(Spare(t, NewNode(p)), n, s), busy, bufs, pairs, n, s)
    BY <1>1, TakeSplit
  <2> QED
    BY <2>1, <2>2
<1>2. CASE ~ (p.size[n] > s)
  <2>1. TakeNode(p, n, s) = Taken(p, n, s)
    BY <1>2 DEF TakeNode, Taken
  <2>2. p.size[n] <= s
    <3>1. Laid(p, at, pos, depth) /\ Sorted(p)
      BY DEF Kept
    <3>2. n \in Nodes(p)
      BY <3>1, LineFacts DEF Sorted
    <3>3. p.size[n] \in Nat
      BY <3>1, <3>2, LaidFacts
    <3> QED
      BY <1>2, <3>3
  <2> QED
    BY <2>1, <2>2, TakeWide
<1> QED
  BY <1>1, <1>2

------------------------------------------------------------------------------
(* free.                                                                    *)

LEMMA RelaidAgain ==
  ASSUME NEW p, NEW at, NEW pos, NEW depth, Laid(p, at, pos, depth),
         NEW q, NEW at2, NEW pos2, NEW depth2, Laid(q, at2, pos2, depth2),
         Spread(p, at, pos, q, at2, pos2), NEW r, Relaid(q, at2, pos2, r)
  PROVE  Relaid(p, at, pos, r)
<1>1. PICK at3, pos3, depth3 : Laid(r, at3, pos3, depth3) /\ Spread(q, at2, pos2, r, at3, pos3)
  BY DEF Relaid
<1>2. Spread(p, at, pos, r, at3, pos3)
  BY <1>1, SpreadAgain
<1> QED
  BY <1>1, <1>2 DEF Relaid

LEMMA FuseFacts ==
  ASSUME NEW p, NEW at, NEW pos, NEW depth, Laid(p, at, pos, depth),
         NEW i \in 1 .. Len(p.line) - 1
  PROVE  LET l == p.line[i]
             r == p.line[i + 1]
             q == FuseToLeft(p, l, r)
         IN  /\ Fused(p, q, i) /\ q.usage = p.usage /\ q.free = p.free \ {l, r}
             /\ q \in PlanType
<1> DEFINE l == p.line[i]
           r == p.line[i + 1]
           k == IndexOf(p, r)
           q == FuseToLeft(p, l, r)
           line == RemoveAt(p.line, k)
           size == [p.size EXCEPT ![l] = p.size[l] + p.size[r]]
           parent == [p.parent EXCEPT ![r] = l]
           offset == [p.offset EXCEPT ![r] = p.size[l]]
<1>1. /\ p \in PlanType /\ Len(p.usage) = Len(p.size) /\ Len(p.parent) = Len(p.size)
      /\ Len(p.offset) = Len(p.size)
  BY DEF Laid, Typed
<1>2. /\ p = [line |-> p.line, size |-> p.size, usage |-> p.usage, parent |-> p.parent,
              offset |-> p.offset, free |-> p.free]
      /\ p.line \in Seq(Nat) /\ p.size \in Seq(Nat \ {0}) /\ p.usage \in Seq(BOOLEAN)
      /\ p.parent \in Seq(Nat) /\ p.offset \in Seq(Nat) /\ p.free \in SUBSET Nat
  BY <1>1 DEF PlanType
<1>3. Len(p.line) \in Nat /\ i \in 1 .. Len(p.line) /\ i + 1 \in 1 .. Len(p.line)
  <2>1. Len(p.line) \in Nat
    BY LaidFacts
  <2> QED
    BY <2>1
<1>4. l \in Nodes(p) /\ r \in Nodes(p) /\ k = i + 1 /\ l \in Nat
  <2>1. l \in Nodes(p) /\ r \in Nodes(p) /\ k = i + 1
    BY <1>3, LaidFacts
  <2> QED
    BY <2>1, LaidFacts
<1>5. p.size[l] \in Nat \ {0} /\ p.size[r] \in Nat \ {0}
  BY <1>4, LaidFacts
<1> HIDE DEF l, r
<1>6. q = [p EXCEPT !.offset = offset, !.parent = parent, !.size = size,
                    !.line = line, !.free = p.free \ {l, r}]
  BY <1>2 DEF FuseToLeft, k
<1> HIDE DEF k
<1>7. line \in Seq(Nat) /\ TakenOut(line, p.line, i + 1)
  <2>1. RemoveAt(p.line, i + 1) \in Seq(Nat) /\ TakenOut(RemoveAt(p.line, i + 1), p.line, i + 1)
    BY <1>2, <1>3, RemoveAtFacts
  <2> QED
    BY <1>4, <2>1
<1>8. /\ size \in Seq(Nat \ {0}) /\ Len(size) = Len(p.size)
      /\ \A m \in 1 .. Len(p.size) : size[m] = IF m = l THEN p.size[l] + p.size[r] ELSE p.size[m]
  <2>1. l \in 1 .. Len(p.size)
    BY <1>4 DEF Nodes
  <2>2. p.size[l] + p.size[r] \in Nat \ {0}
    BY <1>5
  <2> QED
    BY <1>2, <2>1, <2>2, ExceptSeq, SMTT(30)
<1>9. /\ parent \in Seq(Nat) /\ Len(parent) = Len(p.size)
      /\ \A m \in 1 .. Len(p.size) : parent[m] = IF m = r THEN l ELSE p.parent[m]
  <2>1. r \in 1 .. Len(p.parent)
    BY <1>1, <1>4 DEF Nodes
  <2>2. /\ parent \in Seq(Nat) /\ Len(parent) = Len(p.parent)
        /\ \A m \in 1 .. Len(p.parent) : parent[m] = IF m = r THEN l ELSE p.parent[m]
    <3>1. p.parent \in Seq(Nat) /\ l \in Nat
      BY <1>2, <1>4
    <3> HIDE DEF size, offset, line, q
    <3> QED
      BY <2>1, <3>1, ExceptSeq
  <2> HIDE DEF parent
  <2> QED
    BY <1>1, <2>2
<1>10. /\ offset \in Seq(Nat) /\ Len(offset) = Len(p.size)
       /\ \A m \in 1 .. Len(p.size) : offset[m] = IF m = r THEN p.size[l] ELSE p.offset[m]
  <2>1. r \in 1 .. Len(p.offset) /\ p.size[l] \in Nat
    BY <1>1, <1>4, <1>5 DEF Nodes
  <2>2. /\ offset \in Seq(Nat) /\ Len(offset) = Len(p.offset)
        /\ \A m \in 1 .. Len(p.offset) : offset[m] = IF m = r THEN p.size[l] ELSE p.offset[m]
    <3>1. p.offset \in Seq(Nat) /\ p.size[l] \in Nat
      BY <1>2, <2>1
    <3> HIDE DEF size, parent, line, q
    <3> QED
      BY <2>1, <3>1, ExceptSeq
  <2> HIDE DEF offset
  <2> QED
    BY <1>1, <2>2
<1> HIDE DEF q, line, size, parent, offset
<1>11. q = [line |-> line, size |-> size, usage |-> p.usage, parent |-> parent,
            offset |-> offset, free |-> p.free \ {l, r}]
  BY <1>2, <1>6
<1>12. /\ q.line = line /\ q.size = size /\ q.usage = p.usage /\ q.parent = parent
       /\ q.offset = offset /\ q.free = p.free \ {l, r}
  BY <1>11
<1>13. q \in PlanType
  <2>1. p.free \ {l, r} \in SUBSET Nat
    BY <1>2
  <2> QED
    BY <1>2, <1>7, <1>8, <1>9, <1>10, <1>11, <2>1, Zenon DEF PlanType
<1>14. Typed(q)
  BY <1>1, <1>8, <1>9, <1>10, <1>12, <1>13 DEF Typed
<1>15. Fused(p, q, i)
  <2>1. /\ Len(q.size) = Len(p.size) /\ TakenOut(q.line, p.line, i + 1)
        /\ \A m \in Nodes(p) :
             /\ q.size[m] = IF m = l THEN p.size[l] + p.size[r] ELSE p.size[m]
             /\ q.parent[m] = IF m = r THEN l ELSE p.parent[m]
             /\ q.offset[m] = IF m = r THEN p.size[l] ELSE p.offset[m]
    BY <1>7, <1>8, <1>9, <1>10, <1>12 DEF Nodes
  <2> QED
    BY <1>14, <2>1 DEF Fused, l, r
<1> QED
  BY <1>12, <1>13, <1>15 DEF q, l, r

\* The line is sorted but for what is at place k.
Half(p, k) ==
  /\ k \in 1 .. Len(p.line)
  /\ p.free \ {p.line[k]} = (Line(p) \ InUse(p)) \ {p.line[k]}
  /\ \A j \in 1 .. Len(p.line) - 1 :
       j # k /\ j + 1 # k => p.line[j] \in InUse(p) \/ p.line[j + 1] \in InUse(p)

\* q is p with the places i and i + 1 fused.
HalfFused(p, at, pos, q, i) ==
  /\ Relaid(p, at, pos, q) /\ Half(q, i)
  /\ q.usage = p.usage
  /\ InUse(q) = InUse(p) \ {p.line[i + 1]}
  /\ Len(q.line) = Len(p.line) - 1
  /\ \A j \in 1 .. i : q.line[j] = p.line[j]
  /\ \A j \in i + 1 .. Len(p.line) - 1 : q.line[j] = p.line[j + 1]
  /\ \A m \in Nodes(p) \ {p.line[i]} : q.size[m] = p.size[m]

LEMMA FuseHalf ==
  ASSUME NEW p, NEW at, NEW pos, NEW depth, Laid(p, at, pos, depth),
         NEW i \in 1 .. Len(p.line) - 1, NEW k \in {i, i + 1}, Half(p, k)
  PROVE  HalfFused(p, at, pos, FuseToLeft(p, p.line[i], p.line[i + 1]), i)
<1> DEFINE q == FuseToLeft(p, p.line[i], p.line[i + 1])
<1> DEFINE L == Len(p.line)
           l == p.line[i]
           r == p.line[i + 1]
<1>1. /\ Fused(p, q, i) /\ q.usage = p.usage /\ q.free = p.free \ {l, r}
  BY FuseFacts
<1> HIDE DEF q
<1>2. Relaid(p, at, pos, q)
  BY <1>1, Fuse
<1>3. L \in Nat /\ i \in Nat \ {0} /\ i + 1 <= L /\ i \in 1 .. L /\ i + 1 \in 1 .. L
  <2>1. L \in Nat
    BY LaidFacts
  <2> QED
    BY <2>1
<1>4. /\ Len(q.line) = L - 1
      /\ \A j \in 1 .. L - 1 : q.line[j] = IF j < i + 1 THEN p.line[j] ELSE p.line[j + 1]
      /\ \A m \in Nodes(p) \ {l} : q.size[m] = p.size[m]
  BY <1>1 DEF Fused, TakenOut
<1>5. /\ \A j \in 1 .. i : j \in 1 .. L - 1 /\ j \in 1 .. L /\ q.line[j] = p.line[j]
      /\ \A j \in i + 1 .. L - 1 : /\ j \in 1 .. L - 1 /\ j + 1 \in 1 .. L
                                   /\ q.line[j] = p.line[j + 1]
  <2>1. \A j \in 1 .. i : j \in 1 .. L - 1 /\ j \in 1 .. L /\ j < i + 1
    BY <1>3
  <2>2. \A j \in i + 1 .. L - 1 : j \in 1 .. L - 1 /\ j + 1 \in 1 .. L /\ ~ (j < i + 1)
    BY <1>3
  <2> QED
    BY <1>4, <2>1, <2>2
<1>6. \A j \in 1 .. L : /\ p.line[j] \in Nodes(p) /\ pos[p.line[j]] = j
  BY DEF Laid, OnLine
<1> HIDE DEF L, l, r
<1>7. Line(q) = Line(p) \ {r}
  <2>1. Line(q) = {q.line[j] : j \in 1 .. L - 1} /\ Line(p) = {p.line[j] : j \in 1 .. L}
    BY <1>4 DEF Line, L
  <2>2. \A j \in 1 .. L : p.line[j] = r => j = i + 1
    BY <1>3, <1>6 DEF r
  <2>3. ASSUME NEW j \in 1 .. L - 1
        PROVE  q.line[j] \in Line(p) \ {r}
    <3>1. j \in 1 .. i \/ j \in i + 1 .. L - 1
      BY <1>3
    <3>2. CASE j \in 1 .. i
      <4>1. j # i + 1
        BY <1>3, <3>2
      <4> QED
        BY <1>5, <2>1, <2>2, <3>2, <4>1
    <3>3. CASE j \in i + 1 .. L - 1
      <4>1. j + 1 # i + 1
        BY <1>3, <3>3
      <4> QED
        BY <1>5, <2>1, <2>2, <3>3, <4>1
    <3> QED
      BY <3>1, <3>2, <3>3
  <2>4. ASSUME NEW j \in 1 .. L, p.line[j] # r
        PROVE  p.line[j] \in Line(q)
    <3>1. j # i + 1
      BY <2>4 DEF r
    <3>2. j \in 1 .. i \/ (j - 1 \in i + 1 .. L - 1 /\ (j - 1) + 1 = j)
      BY <1>3, <3>1
    <3> QED
      BY <1>5, <2>1, <3>2
  <2> QED
    BY <2>1, <2>3, <2>4
<1>8. InUse(q) = InUse(p) \ {r}
  BY <1>1, <1>7, Zenon DEF InUse
<1>9. Half(q, i)
  <2>1. i \in 1 .. Len(q.line) /\ q.line[i] = l
    BY <1>3, <1>4, <1>5 DEF l
  <2>2. q.free \ {l} = (Line(q) \ InUse(q)) \ {l}
    <3>1. p.line[k] \in {l, r}
      BY DEF l, r
    <3>2. p.free \ {p.line[k]} = (Line(p) \ InUse(p)) \ {p.line[k]}
      BY DEF Half
    <3> QED
      BY <1>1, <1>7, <1>8, <3>1, <3>2
  <2>3. ASSUME NEW j \in 1 .. (L - 1) - 1, j # i, j + 1 # i
        PROVE  q.line[j] \in InUse(q) \/ q.line[j + 1] \in InUse(q)
    <3>1. \A m \in 1 .. L : m # i + 1 => p.line[m] # r
      BY <1>3, <1>6 DEF r
    <3>2. CASE j < i
      <4>1. /\ j \in 1 .. L - 1 /\ j # k /\ j + 1 # k /\ j \in 1 .. i /\ j + 1 \in 1 .. i
            /\ j \in 1 .. L /\ j + 1 \in 1 .. L /\ j # i + 1 /\ j + 1 # i + 1
        BY <1>3, <2>3, <3>2
      <4>2. p.line[j] \in InUse(p) \/ p.line[j + 1] \in InUse(p)
        BY <4>1 DEF Half, L
      <4> QED
        BY <1>5, <1>8, <3>1, <4>1, <4>2
    <3>3. CASE ~ (j < i)
      <4>1. /\ j + 1 \in 1 .. L - 1 /\ j + 1 # k /\ (j + 1) + 1 # k
            /\ j \in i + 1 .. L - 1 /\ j + 1 \in i + 1 .. L - 1
            /\ j + 1 \in 1 .. L /\ (j + 1) + 1 \in 1 .. L
            /\ j + 1 # i + 1 /\ (j + 1) + 1 # i + 1
        BY <1>3, <2>3, <3>3
      <4>2. p.line[j + 1] \in InUse(p) \/ p.line[(j + 1) + 1] \in InUse(p)
        BY <4>1 DEF Half, L
      <4> QED
        BY <1>5, <1>8, <3>1, <4>1, <4>2
    <3> QED
      BY <3>2, <3>3
  <2> QED
    BY <1>4, <2>1, <2>2, <2>3 DEF Half
<1> QED
  <2>1. HalfFused(p, at, pos, q, i)
    BY <1>1, <1>2, <1>4, <1>5, <1>8, <1>9 DEF HalfFused, L, l, r
  <2> QED
    BY <2>1 DEF q

\* Usage and the free list are no part of the layout.
LEMMA SpareLaid ==
  ASSUME NEW p, NEW at, NEW pos, NEW depth, Laid(p, at, pos, depth), NEW n \in Line(p)
  PROVE  Laid(Spare(p, n), at, pos, depth) /\ Spread(p, at, pos, Spare(p, n), at, pos)
<1> DEFINE q == Spare(p, n)
<1>1. Typed(p) /\ n \in Nodes(p) /\ n \in Nat
  <2>1. n \in Nodes(p)
    BY LineFacts
  <2> QED
    BY <2>1, LaidFacts DEF Laid
<1>2. /\ Typed(q) /\ q.line = p.line /\ q.parent = p.parent /\ q.offset = p.offset
      /\ q.size = p.size
  BY <1>1, SpareFacts
<1> HIDE DEF q
<1>3. Nodes(q) = Nodes(p)
  BY <1>2 DEF Nodes
<1>4. q.line # <<>>
  <2>1. Len(p.line) > 0
    BY <1>1, LaidFacts
  <2> QED
    BY <1>2, <2>1
<1>5. Laid(q, at, pos, depth)
  BY <1>2, <1>3, <1>4 DEF Laid, OnLine, Rooted, Packed, EndOf
<1>6. Spread(p, at, pos, q, at, pos)
  <2>1. \A i : EndOf(q, at, i) = EndOf(p, at, i)
    BY <1>2 DEF EndOf
  <2>2. Len(p.line) \in 1 .. Len(p.line)
    <3>1. Len(p.line) \in Nat /\ Len(p.line) > 0
      BY <1>1, LaidFacts
    <3> QED
      BY <3>1
  <2>3. EndOf(p, at, Len(p.line)) \in Nat
    BY <2>2, LaidFacts
  <2>4. \A m \in Nodes(p) : at[m] \in Nat
    BY LaidFacts
  <2> QED
    BY <1>2, <1>3, <2>1, <2>3, <2>4 DEF Spread
<1> QED
  BY <1>5, <1>6 DEF q

\* p is about to become free of node n, which is at place k of q by now.
Freeing(p, q, n, k) ==
  /\ Half(q, k)
  /\ InUse(q) \ {q.line[k]} = InUse(p) \ {n}
  /\ \A m \in InUse(p) \ {n} : q.size[m] = p.size[m]
  /\ k > 1 => q.line[k - 1] \in InUse(q)

LEMMA FreeLeft ==
  ASSUME NEW p, NEW at, NEW pos, NEW depth, Laid(p, at, pos, depth), Sorted(p),
         NEW n \in InUse(p)
  PROVE  LET i == pos[n]
             node == IF Unused(p, i - 1) THEN p.line[i - 1] ELSE n
             q == IF node # n THEN FuseToLeft(p, node, n) ELSE p
             k == IF node # n THEN i - 1 ELSE i
         IN  /\ Relaid(p, at, pos, q) /\ Freeing(p, q, n, k) /\ q.line[k] = node
             /\ q.usage = p.usage /\ k \in Nat /\ Len(q.line) - k = Len(p.line) - i
             /\ i + 1 <= Len(p.line) => q.line[k + 1] = p.line[i + 1]
<1> DEFINE i == pos[n]
           L == Len(p.line)
           node == IF Unused(p, i - 1) THEN p.line[i - 1] ELSE n
           q == IF node # n THEN FuseToLeft(p, node, n) ELSE p
           k == IF node # n THEN i - 1 ELSE i
           Goal == /\ Relaid(p, at, pos, q) /\ Freeing(p, q, n, k) /\ q.line[k] = node
                   /\ q.usage = p.usage /\ k \in Nat /\ Len(q.line) - k = Len(p.line) - i
                   /\ i + 1 <= Len(p.line) => q.line[k + 1] = p.line[i + 1]
<1>1. n \in Line(p) /\ i \in 1 .. L /\ p.line[i] = n /\ L \in Nat /\ Line(p) \subseteq Nodes(p)
      /\ InUse(p) \subseteq Line(p)
  BY LineFacts, LaidFacts
<1>2. \A j \in 1 .. L : /\ p.line[j] \in Line(p) /\ pos[p.line[j]] = j
                        /\ (p.line[j] \in InUse(p) <=> p.usage[p.line[j]])
  <2>1. \A j \in 1 .. L : p.line[j] \in Line(p) /\ pos[p.line[j]] = j
    BY DEF Line, Laid, OnLine
  <2> QED
    BY <2>1, Zenon DEF InUse
<1> HIDE DEF i
<1>3. CASE Unused(p, i - 1)
  <2> DEFINE l == p.line[i - 1]
  <2>1. i - 1 \in 1 .. L /\ ~ p.usage[l]
    BY <1>3 DEF Unused
  <2>2. l \notin InUse(p) /\ pos[l] = i - 1
    BY <1>2, <2>1
  <2>3. l # n
    BY <2>2
  <2>4. node = l /\ q = FuseToLeft(p, l, n) /\ k = i - 1
    BY <1>3, <2>3
  <2> HIDE DEF node, q, k
  <2>5. i - 1 \in 1 .. L - 1 /\ (i - 1) + 1 = i /\ i \in {i - 1, (i - 1) + 1}
    BY <1>1, <2>1
  <2>6. Half(p, i)
    BY <1>1 DEF Half, Sorted
  <2>7. q = FuseToLeft(p, p.line[i - 1], p.line[(i - 1) + 1])
    BY <1>1, <2>4, <2>5
  <2>8. /\ Relaid(p, at, pos, q) /\ Half(q, i - 1)
        /\ q.usage = p.usage
        /\ InUse(q) = InUse(p) \ {p.line[(i - 1) + 1]}
        /\ Len(q.line) = Len(p.line) - 1
        /\ \A j \in 1 .. i - 1 : q.line[j] = p.line[j]
        /\ \A j \in (i - 1) + 1 .. Len(p.line) - 1 : q.line[j] = p.line[j + 1]
        /\ \A m \in Nodes(p) \ {p.line[i - 1]} : q.size[m] = p.size[m]
    <3> DEFINE m == i - 1
    <3>1. /\ m \in 1 .. Len(p.line) - 1 /\ i \in {m, m + 1} /\ m = i - 1
          /\ q = FuseToLeft(p, p.line[m], p.line[m + 1])
      BY <2>5, <2>7
    <3> HIDE DEF m
    <3>2. HalfFused(p, at, pos, q, m)
      BY <2>6, <3>1, FuseHalf
    <3> QED
      BY <3>1, <3>2 DEF HalfFused
  <2>9. q.line[k] = node
    <3>1. i - 1 \in 1 .. i - 1
      BY <2>1
    <3> QED
      BY <2>4, <2>8, <3>1
  <2>10. InUse(q) = InUse(p) \ {n}
    BY <1>1, <2>5, <2>8
  <2>11. \A m \in InUse(p) \ {n} : q.size[m] = p.size[m]
    BY <1>1, <2>2, <2>8
  <2>12. k > 1 => q.line[k - 1] \in InUse(q)
    <3> SUFFICES ASSUME i - 1 > 1 PROVE q.line[(i - 1) - 1] \in InUse(q)
      BY <2>4
    <3>1. /\ (i - 1) - 1 \in 1 .. L - 1 /\ (i - 1) - 1 \in 1 .. i - 1
          /\ ((i - 1) - 1) + 1 = i - 1 /\ (i - 1) - 1 \in 1 .. L /\ (i - 1) - 1 # i
      BY <1>1, <2>1
    <3>2. p.line[(i - 1) - 1] \in InUse(p) \/ p.line[((i - 1) - 1) + 1] \in InUse(p)
      BY <3>1 DEF Sorted
    <3>3. p.line[(i - 1) - 1] \in InUse(p)
      BY <2>2, <3>1, <3>2
    <3>4. p.line[(i - 1) - 1] # n
      BY <1>1, <1>2, <3>1
    <3> QED
      BY <2>8, <2>10, <3>1, <3>3, <3>4
  <2>13. Freeing(p, q, n, k)
    BY <2>2, <2>4, <2>8, <2>9, <2>10, <2>11, <2>12 DEF Freeing
  <2>14. k \in Nat /\ Len(q.line) - k = Len(p.line) - i
    BY <1>1, <2>1, <2>4, <2>8
  <2>15. i + 1 <= Len(p.line) => q.line[k + 1] = p.line[i + 1]
    <3> SUFFICES ASSUME i + 1 <= Len(p.line) PROVE q.line[i] = p.line[i + 1]
      BY <2>4, <2>5
    <3>1. i \in (i - 1) + 1 .. Len(p.line) - 1
      BY <1>1
    <3> QED
      BY <2>8, <3>1
  <2>16. Goal
    BY <2>8, <2>9, <2>13, <2>14, <2>15
  <2> QED
    BY <2>16 DEF i, node, q, k
<1>4. CASE ~ Unused(p, i - 1)
  <2>1. node = n /\ q = p /\ k = i
    BY <1>4
  <2> HIDE DEF node, q, k
  <2>2. Relaid(p, at, pos, p)
    <3>1. Spread(p, at, pos, p, at, pos)
      <4>1. \A m \in Nodes(p) : at[m] \in Nat
        BY LaidFacts
      <4>2. L \in 1 .. L
        BY <1>1
      <4>3. EndOf(p, at, L) \in Nat
        BY <4>2, LaidFacts
      <4> QED
        BY <4>1, <4>3 DEF Spread
    <3> QED
      BY <3>1 DEF Relaid
  <2>3. Half(p, i)
    BY <1>1 DEF Half, Sorted
  <2>4. i > 1 => p.line[i - 1] \in InUse(p)
    <3> SUFFICES ASSUME i > 1 PROVE p.line[i - 1] \in InUse(p)
      OBVIOUS
    <3>1. i - 1 \in 1 .. L
      BY <1>1
    <3>2. p.usage[p.line[i - 1]]
      BY <1>4, <3>1, Zenon DEF Unused
    <3> QED
      BY <1>2, <3>1, <3>2
  <2>5. Freeing(p, p, n, i)
    BY <1>1, <2>3, <2>4 DEF Freeing
  <2>6. i \in Nat
    BY <1>1
  <2>7. Goal
    BY <1>1, <2>1, <2>2, <2>5, <2>6
  <2> QED
    BY <2>7 DEF i, node, q, k
<1> QED
  BY <1>3, <1>4

LEMMA FreeRight ==
  ASSUME NEW p, NEW at, NEW pos, NEW depth, Laid(p, at, pos, depth),
         NEW o, NEW n, NEW k \in Nat, Freeing(o, p, n, k), p.line[k] \in Nat
  PROVE  LET q == IF Unused(p, k + 1) THEN FuseToLeft(p, p.line[k], p.line[k + 1]) ELSE p
         IN  /\ Relaid(p, at, pos, q) /\ Freeing(o, q, n, k) /\ q.line[k] = p.line[k]
             /\ k + 1 <= Len(q.line) => q.line[k + 1] \in InUse(q)
<1> DEFINE L == Len(p.line)
           q == IF Unused(p, k + 1) THEN FuseToLeft(p, p.line[k], p.line[k + 1]) ELSE p
           Goal == /\ Relaid(p, at, pos, q) /\ Freeing(o, q, n, k) /\ q.line[k] = p.line[k]
                   /\ k + 1 <= Len(q.line) => q.line[k + 1] \in InUse(q)
<1>1. L \in Nat /\ k \in 1 .. L /\ Half(p, k) /\ InUse(p) \subseteq Line(p)
      /\ Line(p) \subseteq Nodes(p)
  <2>1. L \in Nat /\ InUse(p) \subseteq Line(p) /\ Line(p) \subseteq Nodes(p)
    BY LineFacts, LaidFacts
  <2>2. Half(p, k)
    BY DEF Freeing
  <2> QED
    BY <2>1, <2>2 DEF Half
<1>2. \A j \in 1 .. L : /\ p.line[j] \in Line(p) /\ pos[p.line[j]] = j
                        /\ (p.line[j] \in InUse(p) <=> p.usage[p.line[j]])
  <2>1. \A j \in 1 .. L : p.line[j] \in Line(p) /\ pos[p.line[j]] = j
    BY DEF Line, Laid, OnLine
  <2> QED
    BY <2>1, Zenon DEF InUse
<1>3. CASE Unused(p, k + 1)
  <2> DEFINE r == p.line[k + 1]
  <2>1. k + 1 \in 1 .. L /\ ~ p.usage[r]
    BY <1>3 DEF Unused
  <2>2. r \notin InUse(p) /\ k \in 1 .. L - 1 /\ k \in {k, k + 1}
    BY <1>1, <1>2, <2>1
  <2>3. q = FuseToLeft(p, p.line[k], p.line[k + 1])
    BY <1>3
  <2> HIDE DEF q
  <2>4. /\ Relaid(p, at, pos, q) /\ Half(q, k)
        /\ q.usage = p.usage
        /\ InUse(q) = InUse(p) \ {p.line[k + 1]}
        /\ Len(q.line) = Len(p.line) - 1
        /\ \A j \in 1 .. k : q.line[j] = p.line[j]
        /\ \A j \in k + 1 .. Len(p.line) - 1 : q.line[j] = p.line[j + 1]
        /\ \A m \in Nodes(p) \ {p.line[k]} : q.size[m] = p.size[m]
    <3>1. HalfFused(p, at, pos, q, k)
      BY <1>1, <2>2, <2>3, FuseHalf
    <3> QED
      BY <3>1 DEF HalfFused
  <2>5. InUse(q) = InUse(p)
    BY <2>2, <2>4
  <2>6. q.line[k] = p.line[k]
    <3>1. k \in 1 .. k
      BY <1>1
    <3> QED
      BY <2>4, <3>1
  <2>7. Freeing(o, q, n, k)
    <3>1. InUse(q) \ {q.line[k]} = InUse(o) \ {n}
      BY <2>5, <2>6 DEF Freeing
    <3>2. \A m \in InUse(o) \ {n} : q.size[m] = o.size[m]
      <4>1. \A m \in InUse(o) \ {n} : m \in InUse(p) /\ m # p.line[k] /\ p.size[m] = o.size[m]
        BY DEF Freeing
      <4> QED
        BY <1>1, <2>4, <4>1
    <3>3. k > 1 => q.line[k - 1] \in InUse(q)
      <4> SUFFICES ASSUME k > 1 PROVE q.line[k - 1] \in InUse(q)
        OBVIOUS
      <4>1. k - 1 \in 1 .. k
        BY <1>1
      <4> QED
        BY <2>4, <2>5, <4>1 DEF Freeing
    <3> QED
      BY <2>4, <3>1, <3>2, <3>3 DEF Freeing
  <2>8. k + 1 <= Len(q.line) => q.line[k + 1] \in InUse(q)
    <3> SUFFICES ASSUME k + 1 <= L - 1 PROVE q.line[k + 1] \in InUse(q)
      BY <2>4
    <3>1. /\ k + 1 \in k + 1 .. Len(p.line) - 1 /\ k + 1 \in 1 .. L - 1
          /\ k + 1 # k /\ (k + 1) + 1 # k
      BY <1>1
    <3>2. p.line[k + 1] \in InUse(p) \/ p.line[(k + 1) + 1] \in InUse(p)
      BY <1>1, <3>1 DEF Half
    <3> QED
      BY <2>2, <2>4, <2>5, <3>1, <3>2
  <2>9. Goal
    BY <2>4, <2>6, <2>7, <2>8
  <2> QED
    BY <2>9 DEF q
<1>4. CASE ~ Unused(p, k + 1)
  <2>1. q = p
    BY <1>4
  <2>2. Relaid(p, at, pos, p)
    <3>1. Spread(p, at, pos, p, at, pos)
      <4>1. \A m \in Nodes(p) : at[m] \in Nat
        BY LaidFacts
      <4>2. L \in 1 .. L
        BY <1>1
      <4>3. EndOf(p, at, L) \in Nat
        BY <4>2, LaidFacts
      <4> QED
        BY <4>1, <4>3 DEF Spread
    <3> QED
      BY <3>1 DEF Relaid
  <2>3. k + 1 <= L => p.line[k + 1] \in InUse(p)
    <3> SUFFICES ASSUME k + 1 <= L PROVE p.line[k + 1] \in InUse(p)
      OBVIOUS
    <3>1. k + 1 \in 1 .. L
      BY <1>1
    <3>2. p.usage[p.line[k + 1]]
      BY <1>4, <3>1, Zenon DEF Unused
    <3> QED
      BY <1>2, <3>1, <3>2
  <2> HIDE DEF q
  <2>4. Goal
    BY <2>1, <2>2, <2>3
  <2> QED
    BY <2>4 DEF q
<1> QED
  BY <1>3, <1>4

\* What is sorted but for place k is sorted with a free node there.
LEMMA SpareSorts ==
  ASSUME NEW p, NEW at, NEW pos, NEW depth, Laid(p, at, pos, depth),
         NEW k, Half(p, k), k > 1 => p.line[k - 1] \in InUse(p),
         k + 1 <= Len(p.line) => p.line[k + 1] \in InUse(p)
  PROVE  LET q == Spare(p, p.line[k])
         IN  Sorted(q) /\ InUse(q) = InUse(p) \ {p.line[k]} /\ q.size = p.size
<1> DEFINE n == p.line[k]
           q == Spare(p, n)
           L == Len(p.line)
<1>1. L \in Nat /\ k \in 1 .. L /\ n \in Line(p) /\ n \in Nodes(p) /\ n \in Nat /\ Typed(p)
      /\ Line(p) \subseteq Nodes(p)
  <2>1. L \in Nat /\ k \in 1 .. L /\ Line(p) \subseteq Nodes(p)
    BY LaidFacts, LineFacts DEF Half
  <2>2. n \in Line(p)
    BY <2>1 DEF Line
  <2>3. n \in Nodes(p)
    BY <2>1, <2>2
  <2> QED
    BY <2>1, <2>2, <2>3, LaidFacts DEF Laid
<1>2. \A j \in 1 .. L : p.line[j] \in Line(p) /\ pos[p.line[j]] = j
  BY DEF Line, Laid, OnLine
<1>3. p.free \ {n} = (Line(p) \ InUse(p)) \ {n}
      /\ \A j \in 1 .. L - 1 :
           j # k /\ j + 1 # k => p.line[j] \in InUse(p) \/ p.line[j + 1] \in InUse(p)
  BY DEF Half
<1>4. k > 1 => p.line[k - 1] \in InUse(p)
  OBVIOUS
<1>5. k + 1 <= L => p.line[k + 1] \in InUse(p)
  OBVIOUS
<1>6. pos[n] = k
  BY <1>1, <1>2
<1> HIDE DEF n
<1>7. /\ q.line = p.line /\ q.size = p.size /\ q.free = p.free \cup {n}
      /\ ~ q.usage[n] /\ \A m \in Nodes(p) \ {n} : q.usage[m] <=> p.usage[m]
  BY <1>1, SpareFacts
<1> HIDE DEF q
<1>8. Line(q) = Line(p)
  BY <1>7 DEF Line
<1>9. InUse(q) = InUse(p) \ {n}
  <2>1. ~ q.usage[n] /\ \A m \in Line(p) \ {n} : q.usage[m] <=> p.usage[m]
    BY <1>1, <1>7, Zenon
  <2> QED
    BY <1>8, <2>1, Zenon DEF InUse
<1>10. q.free = Line(q) \ InUse(q)
  BY <1>1, <1>3, <1>7, <1>8, <1>9
<1>11. ASSUME NEW j \in 1 .. L - 1
       PROVE  p.line[j] \in InUse(q) \/ p.line[j + 1] \in InUse(q)
  <2>0. j \in Nat /\ j \in 1 .. L /\ j + 1 \in 1 .. L /\ j \in Int
    BY <1>1
  <2>1. CASE j = k
    <3>1. p.line[j + 1] \in InUse(p) /\ p.line[j + 1] # n
      BY <1>1, <1>2, <1>5, <1>6, <2>0, <2>1
    <3> QED
      BY <1>9, <3>1
  <2>2. CASE j + 1 = k
    <3>1. k - 1 = j /\ k > 1
      BY <1>1, <2>0, <2>2
    <3>2. p.line[j] \in InUse(p)
      BY <1>4, <3>1
    <3>3. p.line[j] # n
      BY <1>2, <1>6, <2>0, <3>1, <1>1
    <3> QED
      BY <1>9, <3>2, <3>3
  <2>3. CASE j # k /\ j + 1 # k
    <3>1. p.line[j] # n /\ p.line[j + 1] # n
      BY <1>2, <1>6, <2>0, <2>3
    <3>2. p.line[j] \in InUse(p) \/ p.line[j + 1] \in InUse(p)
      BY <1>3, <2>3
    <3> QED
      BY <1>9, <3>1, <3>2
  <2> QED
    BY <2>1, <2>2, <2>3
<1> HIDE DEF L
<1>12. Sorted(q)
  <2>1. \A j \in 1 .. Len(q.line) - 1 : q.line[j] \in InUse(q) \/ q.line[j + 1] \in InUse(q)
    BY <1>7, <1>11 DEF L
  <2> QED
    BY <1>10, <2>1 DEF Sorted
<1> QED
  BY <1>7, <1>9, <1>12 DEF q, n

LEMMA FreeNodeKeeps ==
  ASSUME NEW p, NEW at, NEW pos, NEW depth, NEW busy, NEW bufs, NEW pairs,
         Kept(p, at, pos, depth, busy, bufs, pairs), NEW b \in busy
  PROVE  Planned(FreeNode(p, bufs[b].node), busy \ {b}, bufs, pairs)
<1> DEFINE n == bufs[b].node
           i == pos[n]
           node == IF Unused(p, i - 1) THEN p.line[i - 1] ELSE n
           left == IF node # n THEN FuseToLeft(p, node, n) ELSE p
           k == IF node # n THEN i - 1 ELSE i
           both == IF Unused(left, k + 1) THEN FuseToLeft(left, left.line[k], left.line[k + 1])
                   ELSE left
           q == Spare(both, node)
<1>1. Laid(p, at, pos, depth) /\ Sorted(p) /\ Holds(p, busy, bufs)
  BY DEF Kept
<1>2. n \in InUse(p)
  BY <1>1 DEF Holds
<1> HIDE DEF n
<1>3. i \in 1 .. Len(p.line) /\ IndexOf(p, n) = i /\ Len(p.line) \in Nat
  BY <1>1, <1>2, LineFacts, LaidFacts
<1>4. /\ Relaid(p, at, pos, left) /\ Freeing(p, left, n, k) /\ left.line[k] = node
      /\ left.usage = p.usage /\ k \in Nat /\ Len(left.line) - k = Len(p.line) - i
      /\ i + 1 <= Len(p.line) => left.line[k + 1] = p.line[i + 1]
  BY <1>1, <1>2, FreeLeft
<1>5. FreeNode(p, n) = Spare(IF Unused(p, i + 1) THEN FuseToLeft(left, node, p.line[i + 1]) ELSE left, node)
  BY <1>3 DEF FreeNode, Spare
<1> HIDE DEF i, node, left, k
<1>6. PICK at1, pos1, depth1 : Laid(left, at1, pos1, depth1) /\ Spread(p, at, pos, left, at1, pos1)
  BY <1>4 DEF Relaid
<1>7. k \in 1 .. Len(left.line) /\ Len(left.line) \in Nat
  BY <1>4, <1>6, LaidFacts DEF Freeing, Half
<1>8. left.line[k] \in Nat
  BY <1>6, <1>7, LaidFacts
<1>9. Unused(p, i + 1) <=> Unused(left, k + 1)
  <2>1. i + 1 \in 1 .. Len(p.line) <=> k + 1 \in 1 .. Len(left.line)
    BY <1>3, <1>4, <1>7
  <2>2. i + 1 \in 1 .. Len(p.line) => left.line[k + 1] = p.line[i + 1]
    BY <1>3, <1>4
  <2> QED
    BY <1>4, <2>1, <2>2, Zenon DEF Unused
<1>10. Unused(p, i + 1) => left.line[k + 1] = p.line[i + 1]
  BY <1>3, <1>4 DEF Unused
<1>11. FreeNode(p, n) = q
  BY <1>4, <1>5, <1>9, <1>10
<1>12. /\ Relaid(left, at1, pos1, both) /\ Freeing(p, both, n, k) /\ both.line[k] = left.line[k]
       /\ k + 1 <= Len(both.line) => both.line[k + 1] \in InUse(both)
  BY <1>4, <1>6, <1>8, FreeRight
<1> HIDE DEF both
<1>13. PICK at2, pos2, depth2 : /\ Laid(both, at2, pos2, depth2)
                                /\ Spread(left, at1, pos1, both, at2, pos2)
  BY <1>12 DEF Relaid
<1>14. k \in 1 .. Len(both.line) /\ both.line[k] = node /\ node \in Line(both)
  <2>1. k \in 1 .. Len(both.line) /\ both.line[k] = node
    BY <1>4, <1>12 DEF Freeing, Half
  <2> QED
    BY <2>1 DEF Line
<1>15. Relaid(both, at2, pos2, q)
  BY <1>13, <1>14, SpareLaid DEF Relaid
<1>16. Sorted(q) /\ InUse(q) = InUse(both) \ {node} /\ q.size = both.size
  <2>1. Half(both, k) /\ (k > 1 => both.line[k - 1] \in InUse(both))
    BY <1>12 DEF Freeing
  <2> QED
    BY <1>12, <1>13, <1>14, <2>1, SpareSorts
<1> HIDE DEF q
<1>17. Relaid(p, at, pos, q)
  <2>1. Relaid(left, at1, pos1, q)
    BY <1>6, <1>13, <1>15, RelaidAgain
  <2> QED
    BY <1>1, <1>6, <2>1, RelaidAgain
<1>18. InUse(q) = InUse(p) \ {n} /\ \A m \in InUse(q) : q.size[m] = p.size[m]
  BY <1>12, <1>14, <1>16 DEF Freeing
<1>19. Planned(q, busy \ {b}, bufs, pairs)
  BY <1>16, <1>17, <1>18, FreedKeeps DEF n
<1> QED
  BY <1>11, <1>19 DEF n

------------------------------------------------------------------------------
(* barrierEnd.                                                              *)

LEMMA GreatestIsIn ==
  ASSUME NEW n \in Nat, NEW T \in SUBSET (1 .. n), T # {}
  PROVE  Max(T) \in T
<1> DEFINE Left == {n - x : x \in T}
<1>1. PICK m \in Left : \A k \in Left : m <= k
  <2>1. Left \in SUBSET Nat /\ Left # {}
    <3>1. \A x \in T : n - x \in Nat
      <4> TAKE x \in T
      <4>1. x \in 1 .. n
        OBVIOUS
      <4> QED
        BY <4>1
    <3> QED
      BY <3>1
  <2> HIDE DEF Left
  <2> QED
    BY <2>1, LeastNumber
<1>2. PICK x \in T : m = n - x
  OBVIOUS
<1>3. \A y \in T : x >= y
  <2> TAKE y \in T
  <2>1. n - x <= n - y
    BY <1>1, <1>2
  <2>2. x \in Int /\ y \in Int
    OBVIOUS
  <2> HIDE DEF Left
  <2> QED
    BY <2>1, <2>2
<1> QED
  BY <1>3, Zenon DEF Max

\* cs has the nodes of the buffers in gone, each once.
Postponed(cs, gone, bufs) ==
  /\ cs \in Seq(Nat)
  /\ \E who : /\ \A i \in 1 .. Len(cs) : who[i] \in gone /\ cs[i] = bufs[who[i]].node
              /\ \A b \in gone : \E i \in 1 .. Len(cs) : who[i] = b
              /\ \A i, j \in 1 .. Len(cs) : who[i] = who[j] => i = j

LEMMA BarrierKeeps ==
  ASSUME NEW p, NEW busy, NEW bufs, NEW pairs, Planned(p, busy, bufs, pairs),
         NEW gone \in SUBSET busy, NEW cs, Postponed(cs, gone, bufs)
  PROVE  Planned(FoldLeft(FreeNode, p, cs), busy \ gone, bufs, pairs)
<1>1. cs \in Seq(Nat) /\ Len(cs) \in Nat /\ DOMAIN cs = 1 .. Len(cs)
  BY LenProperties DEF Postponed
<1>2. PICK who : /\ \A i \in 1 .. Len(cs) : who[i] \in gone /\ cs[i] = bufs[who[i]].node
                 /\ \A b \in gone : \E i \in 1 .. Len(cs) : who[i] = b
                 /\ \A i, j \in 1 .. Len(cs) : who[i] = who[j] => i = j
  BY DEF Postponed
<1> DEFINE D == 1 .. Len(cs)
           W(T) == {who[i] : i \in T}
           Next1(i, x) == FreeNode(x, cs[i])
           step == [y \in D \X PlanType |->
                      IF Next1(y[1], y[2]) \in PlanType THEN Next1(y[1], y[2]) ELSE y[2]]
           pick == [T \in SUBSET D |-> Max(T)]
<1>3. \A x, b : Planned(x, b, bufs, pairs) => x \in PlanType
  BY DEF Planned, Kept, Laid, Typed
<1>4. \A T \in SUBSET D : T # {} => Max(T) \in T /\ Max(T) \in D /\ T \ {Max(T)} \in SUBSET D
  BY <1>1, GreatestIsIn
<1>5. IsFiniteSet(D)
  <2>1. 1 \in Int /\ Len(cs) \in Int
    BY <1>1
  <2> QED
    BY <2>1, FS_Interval
<1>6. /\ step \in [D \X PlanType -> PlanType]
      /\ \A i \in D, x \in PlanType : Next1(i, x) \in PlanType => step[<<i, x>>] = Next1(i, x)
  <2> HIDE DEF D
  <2>1. \A y \in D \X PlanType : y[2] \in PlanType
    OBVIOUS
  <2> HIDE DEF Next1
  <2> QED
    BY <2>1
<1>7. \A T \in SUBSET D : pick[T] = Max(T) /\ (T # {} => pick[T] \in T)
  BY <1>4
<1> HIDE DEF D, step, pick
<1>8. PICK f \in [SUBSET D -> PlanType] : FoldEqn(f, D, p, step, pick)
  <2>1. p \in PlanType
    BY <1>3
  <2>2. \A T \in SUBSET D : T # {} => pick[T] \in T
    BY <1>7
  <2> QED
    BY <1>5, <1>6, <2>1, <2>2, FoldExists, Zenon
<1>9. \A T \in SUBSET D :
        f[T] = IF T = {} THEN p ELSE step[<<Max(T), f[T \ {Max(T)}]>>]
  BY <1>7, <1>8 DEF FoldEqn
<1> DEFINE Good(T) == /\ Planned(f[T], busy \ W(T), bufs, pairs)
                      /\ T # {} => f[T] = FreeNode(f[T \ {Max(T)}], cs[Max(T)])
           Bad == {T \in SUBSET D : ~ Good(T)}
<1>10. Bad = {}
  <2> SUFFICES ASSUME Bad # {} PROVE FALSE
    OBVIOUS
  <2>1. PICK T \in Bad : \A U \in SUBSET T : U # T => U \notin Bad
    <3>1. Bad \in SUBSET (SUBSET D)
      OBVIOUS
    <3> HIDE DEF Bad
    <3> QED
      BY <1>5, <3>1, LeastSet
  <2>2. T \in SUBSET D /\ ~ Good(T)
    OBVIOUS
  <2>3. CASE T = {}
    <3>1. f[T] = p /\ busy \ W(T) = busy
      BY <1>9, <2>2, <2>3
    <3> QED
      BY <2>2, <2>3, <3>1
  <2>4. CASE T # {}
    <3> DEFINE m == Max(T)
               U == T \ {m}
               b == who[m]
    <3>1. m \in T /\ m \in D /\ U \in SUBSET D /\ U \in SUBSET T /\ U # T
      BY <1>4, <2>2, <2>4
    <3>2. Planned(f[U], busy \ W(U), bufs, pairs)
      <4>1. U \notin Bad
        BY <2>1, <3>1
      <4> QED
        BY <3>1, <4>1
    <3>3. b \in busy \ W(U) /\ cs[m] = bufs[b].node
      <4>1. b \in gone /\ cs[m] = bufs[b].node
        BY <1>2, <3>1 DEF D
      <4>2. b \notin W(U)
        BY <1>2, <2>2, <3>1 DEF D
      <4> QED
        BY <4>1, <4>2
    <3>4. W(T) = W(U) \cup {b}
      BY <3>1
    <3>5. f[T] = step[<<m, f[U]>>]
      BY <1>9, <2>2, <2>4
    <3>6. f[U] \in PlanType
      BY <1>8, <3>1
    <3> HIDE DEF m, U, b
    <3> HIDE DEF W
    <3>7. Planned(FreeNode(f[U], bufs[b].node), (busy \ W(U)) \ {b}, bufs, pairs)
      <4>1. PICK at, pos, depth : Kept(f[U], at, pos, depth, busy \ W(U), bufs, pairs)
        BY <3>2 DEF Planned
      <4> QED
        BY <3>3, <4>1, FreeNodeKeeps
    <3>8. (busy \ W(U)) \ {b} = busy \ W(T)
      BY <3>4
    <3>9. Planned(Next1(m, f[U]), busy \ W(T), bufs, pairs)
      BY <3>3, <3>7, <3>8
    <3>10. f[T] = Next1(m, f[U])
      <4>1. Next1(m, f[U]) \in PlanType
        BY <1>3, <3>9
      <4> HIDE DEF Next1
      <4> QED
        BY <1>6, <3>1, <3>5, <3>6, <4>1
    <3>11. Planned(f[T], busy \ W(T), bufs, pairs)
      BY <3>9, <3>10
    <3>12. f[T] = FreeNode(f[T \ {Max(T)}], cs[Max(T)])
      BY <3>10 DEF m, U
    <3> QED
      BY <2>2, <3>11, <3>12
  <2> QED
    BY <2>3, <2>4
<1>11. \A T \in SUBSET D : Good(T)
  BY <1>10
<1> DEFINE Eqn(g) == g = [T \in SUBSET (DOMAIN cs) |->
                            IF T = {} THEN p
                            ELSE FreeNode(g[T \ {Max(T)}], cs[Max(T)])]
           g == CHOOSE g : Eqn(g)
<1>12. SUBSET (DOMAIN cs) = SUBSET D
  BY <1>1 DEF D
<1>13. Eqn(f)
  <2>1. \A T \in SUBSET D :
          f[T] = IF T = {} THEN p ELSE FreeNode(f[T \ {Max(T)}], cs[Max(T)])
    <3> TAKE T \in SUBSET D
    <3>1. CASE T = {}
      BY <1>9, <3>1
    <3>2. CASE T # {}
      BY <1>11, <3>2
    <3> QED
      BY <3>1, <3>2
  <2> QED
    BY <1>8, <1>12, <2>1
<1>14. Eqn(g)
  BY <1>13, Zenon
<1>15. FoldLeft(FreeNode, p, cs) = g[D]
  <2>1. FoldLeft(FreeNode, p, cs) = g[DOMAIN cs]
    BY DEF FoldLeft, MapThenFoldSet
  <2> QED
    BY <1>1, <2>1 DEF D
<1> HIDE DEF g
<1>16. \A T \in SUBSET D :
         g[T] = IF T = {} THEN p ELSE FreeNode(g[T \ {Max(T)}], cs[Max(T)])
  <2> HIDE DEF D
  <2> QED
    BY <1>12, <1>14
<1> DEFINE Off == {T \in SUBSET D : g[T] # f[T]}
<1>17. Off = {}
  <2> SUFFICES ASSUME Off # {} PROVE FALSE
    OBVIOUS
  <2>1. PICK T \in Off : \A U \in SUBSET T : U # T => U \notin Off
    <3>1. Off \in SUBSET (SUBSET D)
      OBVIOUS
    <3> HIDE DEF Off
    <3> QED
      BY <1>5, <3>1, LeastSet
  <2>2. T \in SUBSET D /\ g[T] # f[T]
    OBVIOUS
  <2>3. T # {}
    BY <1>9, <1>16, <2>2
  <2>4. g[T \ {Max(T)}] = f[T \ {Max(T)}]
    <3>1. Max(T) \in T /\ T \ {Max(T)} \in SUBSET D
      BY <1>4, <2>2, <2>3
    <3>2. T \ {Max(T)} \notin Off
      BY <2>1, <3>1
    <3> QED
      BY <3>1, <3>2
  <2>5. f[T] = FreeNode(f[T \ {Max(T)}], cs[Max(T)])
    BY <1>11, <2>2, <2>3
  <2>6. g[T] = FreeNode(g[T \ {Max(T)}], cs[Max(T)])
    BY <1>16, <2>2, <2>3
  <2> QED
    BY <2>2, <2>4, <2>5, <2>6
<1>18. FoldLeft(FreeNode, p, cs) = f[D]
  <2>1. D \in SUBSET D
    OBVIOUS
  <2> QED
    BY <1>15, <1>17, <2>1
<1>19. Planned(f[D], busy \ W(D), bufs, pairs)
  BY <1>11
<1>20. W(D) = gone
  BY <1>2 DEF D
<1> QED
  BY <1>18, <1>19, <1>20

------------------------------------------------------------------------------
(* The invariant: compute freezes the offsets that the plan had.            *)

LaidOut ==
  \E p, at, pos, depth :
    /\ Kept(p, at, pos, depth, live \cup retired, buffer, together)
    /\ plan = IF mTotalSize > 0 THEN [p EXCEPT !.offset = at] ELSE p

PlannerType ==
  /\ plan \in PlanType
  /\ mBarrrier \in BOOLEAN /\ mBarrrierFreeChunks \in Seq(Nat)
  /\ mTotalSize \in Nat
  /\ root \in [current : Blocks \cup {Null}, currentSize : Nat]
  /\ mPtr \in Blocks \cup {Null}
  /\ stage \in {"idle", "resizing", "prepared"}
  /\ status \in {"NO_ERROR", "OUT_OF_MEMORY", "INVALID_VALUE"}
  /\ buffer \in Seq(Chunk)

Waiting ==
  /\ live \cap retired = {}
  /\ ~ mBarrrier => retired = {}
  /\ Postponed(mBarrrierFreeChunks, retired, buffer)

Inv ==
  /\ PlannerType /\ LaidOut /\ Waiting
  /\ stage = "resizing" => mTotalSize = 0
  /\ mTotalSize > 0 => plan.free # {}

LEMMA EmptyPlan == Planned(NoPlan, {}, <<>>, {}) /\ NoPlan \in PlanType
<1> DEFINE f == [n \in Nodes(NoPlan) |-> 0]
<1>1. /\ NoPlan.line = <<>> /\ NoPlan.size = <<>> /\ NoPlan.usage = <<>> /\ NoPlan.parent = <<>>
      /\ NoPlan.offset = <<>> /\ NoPlan.free = {}
  BY DEF NoPlan
<1>2. NoPlan \in PlanType
  BY DEF NoPlan, PlanType
<1>3. Nodes(NoPlan) = {} /\ Len(NoPlan.line) = 0 /\ Line(NoPlan) = {} /\ InUse(NoPlan) = {}
  BY <1>1 DEF Nodes, Line, InUse
<1>4. f \in [Nodes(NoPlan) -> Nat]
  OBVIOUS
<1> HIDE DEF f
<1>5. Laid(NoPlan, f, f, f)
  BY <1>1, <1>2, <1>3, <1>4 DEF Laid, Typed, OnLine, Rooted, Packed
<1>6. Sorted(NoPlan)
  BY <1>1, <1>3 DEF Sorted
<1>7. Holds(NoPlan, {}, <<>>)
  BY <1>3 DEF Holds
<1>8. Spaced(NoPlan, f, f, <<>>, {})
  BY DEF Spaced
<1> QED
  BY <1>2, <1>5, <1>6, <1>7, <1>8 DEF Planned, Kept

LEMMA PostponedNone == \A bufs : Postponed(<<>>, {}, bufs)
BY DEF Postponed

LEMMA PostponedStill ==
  ASSUME NEW bufs \in Seq(Chunk), NEW gone \in SUBSET (1 .. Len(bufs)), NEW cs,
         Postponed(cs, gone, bufs), NEW c \in Chunk
  PROVE  Postponed(cs, gone, Append(bufs, c))
<1>1. \A b \in gone : Append(bufs, c)[b] = bufs[b]
  BY AppendProperties
<1> DEFINE bufs2 == Append(bufs, c)
<1> HIDE DEF bufs2
<1>2. \A b \in gone : bufs2[b] = bufs[b]
  BY <1>1 DEF bufs2
<1>3. PICK who : /\ \A i \in 1 .. Len(cs) : who[i] \in gone /\ cs[i] = bufs[who[i]].node
                 /\ \A a \in gone : \E i \in 1 .. Len(cs) : who[i] = a
                 /\ \A i, j \in 1 .. Len(cs) : who[i] = who[j] => i = j
  BY DEF Postponed
<1>4. \A i \in 1 .. Len(cs) : who[i] \in gone /\ cs[i] = bufs2[who[i]].node
  BY <1>2, <1>3
<1>5. Postponed(cs, gone, bufs2)
  BY <1>3, <1>4 DEF Postponed
<1> QED
  BY <1>5 DEF bufs2

LEMMA PostponedMore ==
  ASSUME NEW bufs, NEW gone, NEW cs, Postponed(cs, gone, bufs),
         NEW b, b \notin gone, bufs[b].node \in Nat
  PROVE  Postponed(Append(cs, bufs[b].node), gone \cup {b}, bufs)
<1>1. PICK who : /\ \A i \in 1 .. Len(cs) : who[i] \in gone /\ cs[i] = bufs[who[i]].node
                 /\ \A a \in gone : \E i \in 1 .. Len(cs) : who[i] = a
                 /\ \A i, j \in 1 .. Len(cs) : who[i] = who[j] => i = j
  BY DEF Postponed
<1> DEFINE n == bufs[b].node
           cs2 == Append(cs, n)
           L == Len(cs)
           who2 == [i \in 1 .. L + 1 |-> IF i = L + 1 THEN b ELSE who[i]]
<1>2. cs \in Seq(Nat) /\ L \in Nat
  BY LenProperties DEF Postponed
<1>3. /\ cs2 \in Seq(Nat) /\ Len(cs2) = L + 1
      /\ \A i \in 1 .. L : cs2[i] = cs[i]
      /\ cs2[L + 1] = n
  BY <1>2, AppendProperties
<1>4. /\ \A i \in 1 .. L : who2[i] = who[i] /\ i # L + 1 /\ i \in 1 .. L + 1
      /\ who2[L + 1] = b /\ L + 1 \in 1 .. L + 1
      /\ \A i \in 1 .. L + 1 : i \in 1 .. L \/ i = L + 1
  BY <1>2
<1> HIDE DEF cs2, L, who2
<1>5. \A i \in 1 .. L + 1 : who2[i] \in gone \cup {b} /\ cs2[i] = bufs[who2[i]].node
  BY <1>1, <1>3, <1>4 DEF L
<1>6. \A a \in gone \cup {b} : \E i \in 1 .. L + 1 : who2[i] = a
  BY <1>1, <1>4 DEF L
<1>7. \A i, j \in 1 .. L + 1 : who2[i] = who2[j] => i = j
  BY <1>1, <1>4 DEF L
<1>8. Postponed(cs2, gone \cup {b}, bufs)
  BY <1>3, <1>5, <1>6, <1>7 DEF Postponed
<1> QED
  BY <1>8 DEF cs2

LEMMA KeptFacts ==
  ASSUME NEW p, NEW at, NEW pos, NEW depth, NEW busy, NEW bufs, NEW pairs,
         Kept(p, at, pos, depth, busy, bufs, pairs)
  PROVE  /\ p \in PlanType /\ bufs \in Seq(Chunk) /\ busy \subseteq 1 .. Len(bufs)
BY DEF Kept, Laid, Typed, Holds, Spaced

\* While the session is resized the offsets are not frozen.
LEMMA Open ==
  LaidOut /\ mTotalSize = 0 => Planned(plan, live \cup retired, buffer, together)
BY DEF LaidOut, Planned

LEMMA OpenInv ==
  Planned(plan, live \cup retired, buffer, together) /\ mTotalSize = 0 =>
    LaidOut /\ plan \in PlanType /\ buffer \in Seq(Chunk)
BY KeptFacts DEF LaidOut, Planned

LEMMA OpenNext ==
  Planned(plan', live' \cup retired', buffer', together') /\ mTotalSize' = 0 =>
    LaidOut' /\ plan' \in PlanType /\ buffer' \in Seq(Chunk)
BY KeptFacts DEF LaidOut, Planned

LEMMA Start == Init => Inv
<1> SUFFICES ASSUME Init PROVE Inv
  OBVIOUS
<1>1. Planned(plan, live \cup retired, buffer, together) /\ mTotalSize = 0
  BY EmptyPlan DEF Init
<1>2. LaidOut /\ plan \in PlanType /\ buffer \in Seq(Chunk)
  BY <1>1, OpenInv
<1>3. PlannerType
  <2>1. root \in [current : Blocks \cup {Null}, currentSize : Nat]
    BY DEF Init
  <2>2. mBarrrierFreeChunks \in Seq(Nat)
    BY EmptySeq DEF Init
  <2>4. mTotalSize \in Nat /\ mBarrrier \in BOOLEAN
    <3>1. mTotalSize = 0 /\ mBarrrier = FALSE
      BY Zenon DEF Init
    <3> QED
      BY <3>1
  <2>3. mPtr \in Blocks \cup {Null} /\ stage = "idle" /\ status = "NO_ERROR"
    BY DEF Init
  <2> QED
    BY <1>2, <2>1, <2>2, <2>3, <2>4 DEF PlannerType
<1>4. Waiting
  BY PostponedNone DEF Init, Waiting
<1> QED
  BY <1>1, <1>2, <1>3, <1>4 DEF Inv

\* A new buffer on plan': what alloc leaves is laid out and remembered.
LEMMA AllocStep ==
  ASSUME NEW s \in 1 .. MaxSize, NEW separate \in BOOLEAN, Inv, Alloc(s, separate)
  PROVE  Inv'
<1>1. /\ stage = "resizing" /\ mTotalSize = 0 /\ PlannerType /\ Waiting /\ LaidOut
      /\ mBarrrier' = mBarrrier /\ mBarrrierFreeChunks' = mBarrrierFreeChunks
      /\ mTotalSize' = mTotalSize /\ root' = root /\ mPtr' = mPtr /\ stage' = stage
      /\ status' = status
  BY DEF Inv, Alloc, shared
<1>2. s \in Nat \ {0}
  BY MaxSizeAssumption
<1>3. PICK at, pos, depth : Kept(plan, at, pos, depth, live \cup retired, buffer, together)
  BY <1>1, Open DEF Planned
<1>4. PICK n : /\ NewBuffer(plan', live \cup retired, buffer, together, n, s)
               /\ Remember(n, s)
  <2>1. CASE plan' = Insert(plan, Len(plan.line) + 1, s) /\ Remember(NewNode(plan), s)
    BY <1>2, <1>3, <2>1, AllocAtEnd
  <2>2. CASE \E n \in Fits(plan, s) : plan' = TakeNode(plan, n, s) /\ Remember(n, s)
    <3>1. PICK n \in Fits(plan, s) : plan' = TakeNode(plan, n, s) /\ Remember(n, s)
      BY <2>2
    <3>2. n \in plan.free
      BY DEF Fits
    <3> QED
      BY <1>2, <1>3, <3>1, <3>2, TakeNodeKeeps
  <2> QED
    BY <2>1, <2>2 DEF Alloc
<1> DEFINE b == Len(buffer) + 1
           c == [node |-> n, size |-> s]
<1>5. /\ buffer' = Append(buffer, c) /\ live' = live \cup {b} /\ retired' = retired
      /\ together' = together \cup {{a, b} : a \in live \cup retired}
  BY <1>4 DEF Remember
<1>6. live' \cup retired' = (live \cup retired) \cup {b}
  BY <1>5
<1>7. Planned(plan', live' \cup retired', buffer', together')
  BY <1>4, <1>5, <1>6 DEF NewBuffer
<1>8. LaidOut' /\ plan' \in PlanType /\ buffer' \in Seq(Chunk)
  BY <1>1, <1>7, OpenNext
<1>9. buffer \in Seq(Chunk) /\ live \cup retired \subseteq 1 .. Len(buffer) /\ Len(buffer) \in Nat
  BY <1>3, KeptFacts, LenProperties
<1>10. b \notin live \cup retired
  BY <1>9
<1>11. c \in Chunk
  <2>1. /\ b \in 1 .. Len(Append(buffer, c)) /\ Append(buffer, c)[b] = c
    BY <1>9, AppendProperties
  <2>2. c = buffer'[b] /\ b \in 1 .. Len(buffer')
    BY <1>5, <2>1
  <2> HIDE DEF c, b
  <2> QED
    BY <1>8, <2>2, ElementOfSeq
<1> HIDE DEF b, c
<1>12. Waiting'
  <2>1. Postponed(mBarrrierFreeChunks, retired, Append(buffer, c))
    BY <1>1, <1>9, <1>11, PostponedStill DEF Waiting
  <2> QED
    BY <1>1, <1>5, <1>10, <2>1 DEF Waiting
<1>13. PlannerType'
  BY <1>1, <1>8 DEF PlannerType
<1> QED
  BY <1>1, <1>8, <1>12, <1>13 DEF Inv

LEMMA FreeStep ==
  ASSUME NEW b \in 1 .. Len(buffer), Inv, Free(b)
  PROVE  Inv'
<1>1. /\ stage = "resizing" /\ mTotalSize = 0 /\ PlannerType /\ Waiting /\ LaidOut /\ b \in live
      /\ mBarrrier' = mBarrrier /\ live' = live \ {b} /\ buffer' = buffer /\ together' = together
      /\ mTotalSize' = mTotalSize /\ root' = root /\ mPtr' = mPtr /\ stage' = stage
      /\ status' = status
      /\ retired' = IF mBarrrier THEN retired \cup {b} ELSE retired
  BY DEF Inv, Free, shared
<1>2. PICK at, pos, depth : Kept(plan, at, pos, depth, live \cup retired, buffer, together)
  BY <1>1, Open DEF Planned
<1>3. CASE mBarrrier
  <2>1. /\ plan' = plan /\ retired' = retired \cup {b}
        /\ mBarrrierFreeChunks' = Append(mBarrrierFreeChunks, buffer[b].node)
    BY <1>1, <1>3 DEF Free, Deferred
  <2>2. live' \cup retired' = live \cup retired
    BY <1>1, <2>1
  <2>3. Planned(plan', live' \cup retired', buffer', together')
    BY <1>1, <1>2, <2>1, <2>2 DEF Planned
  <2>4. LaidOut' /\ plan' \in PlanType /\ buffer' \in Seq(Chunk)
    BY <1>1, <2>3, OpenNext
  <2>5. Waiting'
    <3>1. b \notin retired /\ Postponed(mBarrrierFreeChunks, retired, buffer)
      BY <1>1 DEF Waiting
    <3>2. buffer[b].node \in Nat
      BY <1>2, KeptFacts, ChunkFacts
    <3>3. Postponed(Append(mBarrrierFreeChunks, buffer[b].node), retired \cup {b}, buffer)
      BY <3>1, <3>2, PostponedMore
    <3> QED
      BY <1>1, <1>3, <2>1, <3>3 DEF Waiting
  <2>6. PlannerType'
    <3>1. mBarrrierFreeChunks' \in Seq(Nat)
      BY <2>5 DEF Waiting, Postponed
    <3> QED
      BY <1>1, <2>4, <3>1 DEF PlannerType
  <2> QED
    BY <1>1, <2>4, <2>5, <2>6 DEF Inv
<1>4. CASE ~ mBarrrier
  <2>1. /\ plan' = FreeNode(plan, buffer[b].node) /\ retired' = retired
        /\ mBarrrierFreeChunks' = mBarrrierFreeChunks
    BY <1>1, <1>4 DEF Free, Deferred
  <2>2. live' \cup retired' = (live \cup retired) \ {b}
    BY <1>1, <2>1 DEF Waiting
  <2>3. b \in live \cup retired
    BY <1>1
  <2>4. Planned(plan', live' \cup retired', buffer', together')
    <3>1. Planned(FreeNode(plan, buffer[b].node), (live \cup retired) \ {b}, buffer, together)
      BY <1>2, <2>3, FreeNodeKeeps
    <3> QED
      BY <1>1, <2>1, <2>2, <3>1
  <2>5. LaidOut' /\ plan' \in PlanType /\ buffer' \in Seq(Chunk)
    BY <1>1, <2>4, OpenNext
  <2>6. Waiting'
    BY <1>1, <2>1 DEF Waiting
  <2>7. PlannerType'
    BY <1>1, <2>1, <2>5 DEF PlannerType
  <2> QED
    BY <1>1, <2>5, <2>6, <2>7 DEF Inv
<1> QED
  BY <1>3, <1>4

LEMMA BarrierEndStep ==
  ASSUME Inv, BarrierEnd
  PROVE  Inv'
<1>1. /\ stage = "resizing" /\ mTotalSize = 0 /\ PlannerType /\ Waiting /\ LaidOut
      /\ mBarrrier' = FALSE /\ mBarrrierFreeChunks' = <<>> /\ retired' = {}
      /\ plan' = FoldLeft(FreeNode, plan, mBarrrierFreeChunks)
      /\ mTotalSize' = mTotalSize /\ root' = root /\ mPtr' = mPtr /\ stage' = stage
      /\ status' = status /\ buffer' = buffer /\ live' = live /\ together' = together
  BY DEF Inv, BarrierEnd, shared
<1>2. Planned(plan, live \cup retired, buffer, together)
  BY <1>1, Open
<1>3. retired \in SUBSET (live \cup retired) /\ Postponed(mBarrrierFreeChunks, retired, buffer)
  BY <1>1 DEF Waiting
<1>4. Planned(plan', (live \cup retired) \ retired, buffer, together)
  BY <1>1, <1>2, <1>3, BarrierKeeps
<1>5. live' \cup retired' = (live \cup retired) \ retired
  BY <1>1 DEF Waiting
<1>6. Planned(plan', live' \cup retired', buffer', together')
  BY <1>1, <1>4, <1>5
<1>7. LaidOut' /\ plan' \in PlanType /\ buffer' \in Seq(Chunk)
  BY <1>1, <1>6, OpenNext
<1>8. Waiting'
  BY <1>1, PostponedNone DEF Waiting
<1>9. PlannerType'
  <2>1. mBarrrierFreeChunks' \in Seq(Nat)
    BY <1>8 DEF Waiting, Postponed
  <2>2. mBarrrier' \in BOOLEAN
    BY <1>1
  <2> QED
    BY <1>1, <1>7, <2>1, <2>2 DEF PlannerType
<1> QED
  BY <1>1, <1>7, <1>8, <1>9 DEF Inv

LEMMA ResetStep ==
  ASSUME NEW to \in {"resizing", "idle"}, Inv, Reset(to)
  PROVE  Inv'
<1>1. /\ PlannerType /\ stage' = to /\ plan' = NoPlan
      /\ mBarrrier' = FALSE /\ mBarrrierFreeChunks' = <<>> /\ mTotalSize' = 0 /\ mPtr' = Null
      /\ buffer' = <<>> /\ live' = {} /\ retired' = {} /\ together' = {}
      /\ root' = root /\ status' = status
  BY DEF Inv, Reset
<1>2. Planned(plan', live' \cup retired', buffer', together')
  <2>1. live' \cup retired' = {}
    BY <1>1
  <2> QED
    BY <1>1, <2>1, EmptyPlan
<1>3. LaidOut' /\ plan' \in PlanType /\ buffer' \in Seq(Chunk)
  BY <1>1, <1>2, OpenNext
<1>4. Waiting'
  BY <1>1, PostponedNone DEF Waiting
<1>5. PlannerType'
  <2>1. mBarrrierFreeChunks' \in Seq(Nat)
    BY <1>4 DEF Waiting, Postponed
  <2>2. mBarrrier' \in BOOLEAN /\ mTotalSize' \in Nat /\ mPtr' \in Blocks \cup {Null}
    BY <1>1
  <2> QED
    BY <1>1, <1>3, <2>1, <2>2 DEF PlannerType
<1> QED
  BY <1>1, <1>3, <1>4, <1>5 DEF Inv

RootType == [current : Blocks \cup {Null}, currentSize : Nat]

LEMMA ReallocFacts ==
  ASSUME NEW s \in Nat, root \in RootType, Realloc(s)
  PROVE  /\ root' \in RootType
         /\ root'.current # Null => root'.current \in Blocks /\ root'.currentSize = s
<1>1. /\ root = [current |-> root.current, currentSize |-> root.currentSize]
      /\ root.currentSize \in Nat
  BY DEF RootType
<1>2. CASE \E a \in Blocks : root' = [current |-> a, currentSize |-> s]
  BY <1>2 DEF RootType
<1>3. CASE root' = [root EXCEPT !.current = Null]
  <2>1. root' = [current |-> Null, currentSize |-> root.currentSize]
    BY <1>1, <1>3
  <2> QED
    BY <1>1, <2>1 DEF RootType
<1> QED
  BY <1>2, <1>3 DEF Realloc

LEMMA ApplyFacts ==
  ASSUME NEW p, NEW total \in Nat, root \in RootType, mPtr \in Blocks \cup {Null},
         Apply(p, total)
  PROVE  /\ root' \in RootType /\ mPtr' \in Blocks \cup {Null}
         /\ status' \in {"NO_ERROR", "OUT_OF_MEMORY", "INVALID_VALUE"}
         /\ status' = "NO_ERROR" /\ p.free # {} =>
              /\ mPtr' = root'.current
              /\ root'.current # Null => root'.currentSize >= total
<1>1. root.current \in Blocks \cup {Null} /\ root.currentSize \in Nat
  BY DEF RootType
<1>2. CASE p.free = {} /\ UNCHANGED shared /\ status' = "NO_ERROR"
  BY <1>2 DEF shared
<1>3. CASE p.free # {} /\ root.currentSize >= total /\ mPtr' = root.current
           /\ UNCHANGED root /\ status' = "NO_ERROR"
  BY <1>1, <1>3
<1>4. CASE /\ p.free # {} /\ Realloc(total)
           /\ IF root'.current = Null
              THEN status' = "OUT_OF_MEMORY" /\ UNCHANGED mPtr
              ELSE status' = "NO_ERROR" /\ mPtr' = root'.current
  <2>1. /\ root' \in RootType
        /\ root'.current # Null => root'.current \in Blocks /\ root'.currentSize = total
    BY <1>4, ReallocFacts
  <2> QED
    BY <1>4, <2>1
<1> QED
  BY <1>2, <1>3, <1>4 DEF Apply

LEMMA ComputeStep ==
  ASSUME Inv, Compute
  PROVE  Inv'
<1>1. /\ stage = "resizing" /\ mTotalSize = 0 /\ PlannerType /\ Waiting /\ LaidOut
      /\ stage' = IF status' = "NO_ERROR" THEN "prepared" ELSE "idle"
      /\ mBarrrier' = mBarrrier /\ mBarrrierFreeChunks' = mBarrrierFreeChunks
      /\ buffer' = buffer /\ live' = live /\ retired' = retired /\ together' = together
  BY DEF Inv, Compute, history
<1>2. Waiting' /\ live' \cup retired' = live \cup retired
  BY <1>1 DEF Waiting
<1>3. CASE /\ plan' = plan /\ mTotalSize' = mTotalSize /\ root' = root /\ mPtr' = mPtr
           /\ status' \in {"NO_ERROR", "INVALID_VALUE"}
  <2>1. LaidOut'
    BY <1>1, <1>2, <1>3 DEF LaidOut
  <2>2. PlannerType'
    BY <1>1, <1>3 DEF PlannerType
  <2> QED
    BY <1>1, <1>2, <1>3, <2>1, <2>2 DEF Inv
<1>4. CASE /\ Single(plan) /\ plan' = [plan EXCEPT !.offset = Offsets(plan)]
           /\ mTotalSize' = plan.size[Head(plan.line)] /\ Apply(plan, mTotalSize')
  <2>1. PICK at, pos, depth : Kept(plan, at, pos, depth, live \cup retired, buffer, together)
    BY <1>1, Open DEF Planned
  <2>2. Laid(plan, at, pos, depth) /\ plan \in PlanType
    BY <2>1, KeptFacts DEF Kept
  <2>3. mTotalSize' \in Nat /\ mTotalSize' > 0
    <3>1. plan.line \in Seq(Nat) /\ Len(plan.line) = 1 /\ 1 \in 1 .. Len(plan.line)
      BY <1>4, <2>2, LaidFacts DEF Single
    <3>2. Head(plan.line) = plan.line[1]
      BY <3>1
    <3>3. plan.size[plan.line[1]] \in Nat \ {0}
      BY <2>2, <3>1, LaidFacts
    <3>4. mTotalSize' \in Nat \ {0}
      BY <1>4, <3>2, <3>3
    <3> QED
      BY <3>4
  <2>4. plan' = [plan EXCEPT !.offset = at]
    BY <1>4, <2>2, OffsetsAre
  <2>5. LaidOut'
    <3>1. plan' = IF mTotalSize' > 0 THEN [plan EXCEPT !.offset = at] ELSE plan
      BY <2>3, <2>4
    <3>2. Kept(plan, at, pos, depth, live' \cup retired', buffer', together')
      BY <1>1, <1>2, <2>1
    <3> QED
      BY <3>1, <3>2 DEF LaidOut
  <2>6. plan' \in PlanType /\ plan'.free = plan.free
    <3>1. at \in Seq(Nat)
      <4>1. at \in [1 .. Len(plan.size) -> Nat] /\ Len(plan.size) \in Nat
        BY <2>2, LaidFacts DEF Laid, Nodes
      <4> QED
        BY <4>1
    <3>2. plan' = [line |-> plan.line, size |-> plan.size, usage |-> plan.usage,
                   parent |-> plan.parent, offset |-> at, free |-> plan.free]
      BY <2>2, <2>4 DEF PlanType
    <3> QED
      BY <2>2, <3>1, <3>2 DEF PlanType
  <2>7. plan.free # {}
    <3>1. Cardinality(plan.free) = 1
      BY <1>4 DEF Single
    <3> QED
      BY <3>1, FS_EmptySet
  <2>8. /\ root' \in RootType /\ mPtr' \in Blocks \cup {Null}
        /\ status' \in {"NO_ERROR", "OUT_OF_MEMORY", "INVALID_VALUE"}
    <3>1. root \in RootType /\ mPtr \in Blocks \cup {Null}
      BY <1>1 DEF PlannerType, RootType
    <3> QED
      BY <1>4, <2>3, <3>1, ApplyFacts
  <2>9. PlannerType'
    BY <1>1, <2>3, <2>6, <2>8 DEF PlannerType, RootType
  <2> QED
    BY <1>1, <1>2, <2>5, <2>6, <2>7, <2>9 DEF Inv
<1> QED
  BY <1>3, <1>4 DEF Compute, shared

\* What changes neither the plan nor the buffers.
LEMMA OtherStep ==
  ASSUME Inv, root' \in RootType, mPtr' \in Blocks \cup {Null},
         status' \in {"NO_ERROR", "OUT_OF_MEMORY", "INVALID_VALUE"},
         plan' = plan, mBarrrierFreeChunks' = mBarrrierFreeChunks, mTotalSize' = mTotalSize,
         stage' = stage, buffer' = buffer, live' = live, retired' = retired,
         together' = together,
         mBarrrier' = mBarrrier \/ (~ mBarrrier /\ mBarrrier' = TRUE)
  PROVE  Inv'
<1>1. LaidOut'
  BY DEF Inv, LaidOut
<1>2. mBarrrier' \in BOOLEAN /\ (~ mBarrrier' => ~ mBarrrier)
  BY DEF Inv, PlannerType
<1>3. Waiting'
  BY <1>2 DEF Inv, Waiting
<1>4. PlannerType'
  BY <1>2 DEF Inv, PlannerType, RootType
<1> QED
  BY <1>1, <1>3, <1>4 DEF Inv

LEMMA Invariance == Spec => []Inv
<1>1. Inv /\ [Next]_vars => Inv'
  <2> SUFFICES ASSUME Inv, [Next]_vars PROVE Inv'
    OBVIOUS
  <2>0. /\ root \in RootType /\ mPtr \in Blocks \cup {Null} /\ mTotalSize \in Nat
        /\ status \in {"NO_ERROR", "OUT_OF_MEMORY", "INVALID_VALUE"}
    BY DEF Inv, PlannerType, RootType
  <2>1. ASSUME NEW s \in 1 .. MaxSize, NEW separate \in BOOLEAN, Alloc(s, separate)
        PROVE  Inv'
    BY <2>1, AllocStep
  <2>2. ASSUME NEW b \in 1 .. Len(buffer), Free(b)
        PROVE  Inv'
    BY <2>2, FreeStep
  <2>3. CASE BarrierBegin
    <3>1. /\ plan' = plan /\ mBarrrierFreeChunks' = mBarrrierFreeChunks
          /\ mTotalSize' = mTotalSize /\ stage' = stage /\ status' = status
          /\ root' = root /\ mPtr' = mPtr
          /\ buffer' = buffer /\ live' = live /\ retired' = retired /\ together' = together
          /\ ~ mBarrrier /\ mBarrrier' = TRUE
      BY <2>3 DEF BarrierBegin, shared, history
    <3> QED
      BY <2>0, <3>1, OtherStep
  <2>4. CASE BarrierEnd
    BY <2>4, BarrierEndStep
  <2>5. CASE Reset("resizing") \/ Reset("idle")
    BY <2>5, ResetStep
  <2>6. CASE Compute
    BY <2>6, ComputeStep
  <2>7. CASE ExecuteBegin
    <3>1. /\ plan' = plan /\ mBarrrierFreeChunks' = mBarrrierFreeChunks
          /\ mTotalSize' = mTotalSize /\ stage' = stage /\ mBarrrier' = mBarrrier
          /\ buffer' = buffer /\ live' = live /\ retired' = retired /\ together' = together
      BY <2>7 DEF ExecuteBegin, history
    <3>2. Apply(plan, mTotalSize)
      BY <2>7 DEF ExecuteBegin
    <3>3. /\ root' \in RootType /\ mPtr' \in Blocks \cup {Null}
          /\ status' \in {"NO_ERROR", "OUT_OF_MEMORY", "INVALID_VALUE"}
      BY <2>0, <3>2, ApplyFacts
    <3> QED
      BY <3>1, <3>3, OtherStep
  <2>8. ASSUME NEW s \in OtherSizes, OthersRealloc(s)
        PROVE  Inv'
    <3>1. /\ plan' = plan /\ mBarrrierFreeChunks' = mBarrrierFreeChunks
          /\ mTotalSize' = mTotalSize /\ stage' = stage /\ mBarrrier' = mBarrrier
          /\ status' = status /\ mPtr' = mPtr
          /\ buffer' = buffer /\ live' = live /\ retired' = retired /\ together' = together
      BY <2>8 DEF OthersRealloc, history
    <3>2. root' \in RootType
      <4>1. Realloc(s) /\ s \in Nat
        BY <2>8, OtherSizesAssumption DEF OthersRealloc
      <4> QED
        BY <2>0, <4>1, ReallocFacts
    <3> QED
      BY <2>0, <3>1, <3>2, OtherStep
  <2>9. CASE OthersRelease
    <3>1. /\ plan' = plan /\ mBarrrierFreeChunks' = mBarrrierFreeChunks
          /\ mTotalSize' = mTotalSize /\ stage' = stage /\ mBarrrier' = mBarrrier
          /\ status' = status /\ mPtr' = mPtr
          /\ buffer' = buffer /\ live' = live /\ retired' = retired /\ together' = together
          /\ root' = [current |-> Null, currentSize |-> 0]
      BY <2>9 DEF OthersRelease, history
    <3>2. root' \in RootType
      BY <3>1 DEF RootType
    <3> QED
      BY <2>0, <3>1, <3>2, OtherStep
  <2>10. CASE UNCHANGED vars
    <3>1. /\ plan' = plan /\ mBarrrierFreeChunks' = mBarrrierFreeChunks
          /\ mTotalSize' = mTotalSize /\ stage' = stage /\ mBarrrier' = mBarrrier
          /\ status' = status /\ mPtr' = mPtr /\ root' = root
          /\ buffer' = buffer /\ live' = live /\ retired' = retired /\ together' = together
      BY <2>10 DEF vars, shared, history
    <3> QED
      BY <2>0, <3>1, OtherStep
  <2> QED
    BY <2>1, <2>2, <2>3, <2>4, <2>5, <2>6, <2>7, <2>8, <2>9, <2>10 DEF Next
<1> QED
  BY <1>1, Start, PTL DEF Spec

------------------------------------------------------------------------------
(* What follows.                                                            *)

LEMMA Apart == Inv => PlanDisjoint
<1> SUFFICES ASSUME Inv PROVE PlanDisjoint
  OBVIOUS
<1>1. PICK p, at, pos, depth :
        /\ Kept(p, at, pos, depth, live \cup retired, buffer, together)
        /\ plan = IF mTotalSize > 0 THEN [p EXCEPT !.offset = at] ELSE p
  BY DEF Inv, LaidOut
<1>2. /\ Laid(p, at, pos, depth) /\ Spaced(p, at, pos, buffer, together) /\ p \in PlanType
      /\ buffer \in Seq(Chunk)
  BY <1>1, KeptFacts DEF Kept
<1>3. plan.line = p.line /\ plan.size = p.size /\ Layout(plan) = at
  <2>1. CASE mTotalSize > 0
    <3>1. plan = [line |-> p.line, size |-> p.size, usage |-> p.usage, parent |-> p.parent,
                  offset |-> at, free |-> p.free]
      BY <1>1, <1>2, <2>1 DEF PlanType
    <3> QED
      BY <2>1, <3>1 DEF Layout
  <2>2. CASE ~ (mTotalSize > 0)
    <3>1. plan = p
      BY <1>1, <2>2
    <3> QED
      BY <1>2, <2>2, <3>1, OffsetsAre DEF Layout
  <2> QED
    BY <2>1, <2>2
<1>4. Extent(plan) = Extent(p)
  BY <1>3 DEF Extent
<1>5. \A b \in 1 .. Len(buffer) :
        /\ buffer[b].size \in Nat \ {0} /\ at[buffer[b].node] \in Nat
        /\ buffer[b].node \in Nodes(p)
        /\ at[buffer[b].node] + buffer[b].size <= EndOf(p, at, Len(p.line))
  <2> TAKE b \in 1 .. Len(buffer)
  <2>1. /\ buffer[b].node \in Nodes(p)
        /\ at[buffer[b].node] + buffer[b].size <= EndOf(p, at, Len(p.line))
    BY <1>2 DEF Spaced
  <2>2. buffer[b].size \in Nat \ {0}
    BY <1>2, ChunkFacts
  <2> QED
    BY <1>2, <2>1, <2>2, LaidFacts
<1>6. ASSUME NEW a \in 1 .. Len(buffer), NEW b \in 1 .. Len(buffer), {a, b} \in together,
             at[buffer[a].node] <= at[buffer[b].node]
      PROVE  at[buffer[a].node] + buffer[a].size <= at[buffer[b].node]
  <2>1. \/ at[buffer[a].node] + buffer[a].size <= at[buffer[b].node]
        \/ at[buffer[b].node] + buffer[b].size <= at[buffer[a].node]
    BY <1>2, <1>6 DEF Spaced, Before
  <2> QED
    BY <1>5, <1>6, <2>1
<1>7. ASSUME NEW b \in 1 .. Len(buffer)
      PROVE  at[buffer[b].node] + buffer[b].size <= Extent(plan)
  <2>1. p.line # <<>>
    <3>1. Nodes(p) # {}
      BY <1>5
    <3>2. Len(p.line) > 0
      BY <1>2, <3>1, LaidFacts
    <3> QED
      BY <3>2
  <2>2. Extent(p) = EndOf(p, at, Len(p.line))
    BY <1>2, <2>1, ExtentIsEnd
  <2> QED
    BY <1>4, <1>5, <2>2
<1> HIDE DEF Layout, Extent
<1> QED
  BY <1>3, <1>6, <1>7 DEF PlanDisjoint

LEMMA Gaps == Inv => Coalesced
<1> SUFFICES ASSUME Inv PROVE Coalesced
  OBVIOUS
<1>1. PICK p, at, pos, depth :
        /\ Kept(p, at, pos, depth, live \cup retired, buffer, together)
        /\ plan = IF mTotalSize > 0 THEN [p EXCEPT !.offset = at] ELSE p
  BY DEF Inv, LaidOut
<1>2. /\ Laid(p, at, pos, depth) /\ Sorted(p) /\ Holds(p, live \cup retired, buffer)
      /\ p \in PlanType
  BY <1>1, KeptFacts DEF Kept
<1>3. plan.line = p.line /\ plan.usage = p.usage /\ plan.free = p.free
  <2>1. CASE mTotalSize > 0
    <3>1. plan = [line |-> p.line, size |-> p.size, usage |-> p.usage, parent |-> p.parent,
                  offset |-> at, free |-> p.free]
      BY <1>1, <1>2, <2>1 DEF PlanType
    <3> QED
      BY <3>1
  <2>2. CASE ~ (mTotalSize > 0)
    BY <1>1, <2>2
  <2> QED
    BY <2>1, <2>2
<1>4. ToSet(p.line) = Line(p) /\ Len(p.line) \in Nat
  BY <1>2, LineFacts, LaidFacts
<1>5. plan.free = {n \in ToSet(plan.line) : ~ plan.usage[n]}
  <2>1. p.free = Line(p) \ {n \in Line(p) : p.usage[n]}
    BY <1>2 DEF Sorted, InUse
  <2>2. p.free = {n \in Line(p) : ~ p.usage[n]}
    BY <2>1, Zenon
  <2> QED
    BY <1>3, <1>4, <2>2, Zenon
<1>6. ASSUME NEW i \in 1 .. Len(plan.line), Unused(plan, i), Unused(plan, i + 1)
      PROVE  FALSE
  <2>1. /\ i \in 1 .. Len(p.line) /\ i + 1 \in 1 .. Len(p.line)
        /\ ~ p.usage[p.line[i]] /\ ~ p.usage[p.line[i + 1]]
    BY <1>3, <1>6, Zenon DEF Unused
  <2>2. i \in 1 .. Len(p.line) - 1
    BY <1>4, <2>1
  <2>3. p.line[i] \in InUse(p) \/ p.line[i + 1] \in InUse(p)
    BY <1>2, <2>2 DEF Sorted
  <2> QED
    BY <2>1, <2>3, Zenon DEF InUse
<1>7. ASSUME live = {}, retired = {}, plan # NoPlan
      PROVE  Single(plan)
  <2>1. InUse(p) = {}
    BY <1>2, <1>7 DEF Holds
  <2>2. Len(p.line) # 0
    <3> SUFFICES ASSUME Len(p.line) = 0 PROVE FALSE
      OBVIOUS
    <3>1. p.line = <<>> /\ Line(p) = {}
      BY <1>2, LaidFacts, EmptySeq DEF Line
    <3>2. p = NoPlan /\ p.free = {}
      BY <1>2, <3>1 DEF Laid, Sorted
    <3>3. ~ (mTotalSize > 0)
      BY <1>3, <3>2 DEF Inv
    <3> QED
      BY <1>1, <1>7, <3>2, <3>3
  <2>3. Len(p.line) = 1
    <3> SUFFICES ASSUME Len(p.line) # 1 PROVE FALSE
      OBVIOUS
    <3> DEFINE L == Len(p.line)
    <3>1. L \in Nat /\ L # 0 /\ L # 1
      BY <1>4, <2>2
    <3> HIDE DEF L
    <3>2. 1 \in 1 .. L - 1
      BY <3>1
    <3> QED
      BY <1>2, <2>1, <3>2 DEF Sorted, L
  <2>4. p.free = {p.line[1]}
    <3>1. Line(p) = {p.line[1]}
      BY <2>3 DEF Line
    <3> QED
      BY <1>2, <2>1, <3>1 DEF Sorted
  <2>5. Cardinality(p.free) = 1
    BY <2>4, FS_Singleton
  <2> QED
    BY <1>3, <2>3, <2>5 DEF Single
<1> QED
  BY <1>5, <1>6, <1>7 DEF Coalesced

LEMMA CurrentBlock ==
  Inv /\ [Next]_vars =>
    [ExecuteBegin /\ status' = "NO_ERROR" /\ mTotalSize > 0 =>
       /\ mPtr' = root'.current
       /\ root'.current # Null => root'.currentSize >= mTotalSize]_vars
<1> SUFFICES ASSUME Inv, ExecuteBegin, status' = "NO_ERROR", mTotalSize > 0
             PROVE  /\ mPtr' = root'.current
                    /\ root'.current # Null => root'.currentSize >= mTotalSize
  OBVIOUS
<1>1. /\ root \in RootType /\ mPtr \in Blocks \cup {Null} /\ mTotalSize \in Nat
      /\ plan.free # {}
  BY DEF Inv, PlannerType, RootType
<1>2. Apply(plan, mTotalSize)
  BY DEF ExecuteBegin
<1> QED
  BY <1>1, <1>2, ApplyFacts

\* The state is of the kinds that the code's declarations say, whatever the
\* session's layers alloc, free and put between barriers.
THEOREM Kinds == Spec => []PlannerType
<1>1. Inv => PlannerType
  BY DEF Inv
<1> QED
  BY <1>1, Invariance, PTL

\* The layout that compute makes of a line of nodes that were split, fused and
\* widened keeps all buffers that may hold data together apart, those of two
\* threads in a barrier too, and none reaches beyond what compute asks for.
THEOREM Disjointness == Spec => []PlanDisjoint
BY Invariance, Apart, PTL

\* alloc, free and barrierEnd leave mFreeList to be what is unused on the line, no
\* two of it neighbours, and one single node once all is freed, as compute asserts.
THEOREM Coalescing == Spec => []Coalesced
BY Invariance, Gaps, PTL

\* After onExecuteBegin without an error the tensors point into the block that
\* the runtime has, large enough for the plan, whatever other planners did to it.
THEOREM CurrentBlocks == Spec => RunsInCurrentBlock
<1>1. Spec => []Inv
  BY Invariance
<1>2. Inv /\ [Next]_vars =>
        [ExecuteBegin /\ status' = "NO_ERROR" /\ mTotalSize > 0 =>
           /\ mPtr' = root'.current
           /\ root'.current # Null => root'.currentSize >= mTotalSize]_vars
  BY CurrentBlock
<1> QED
  BY <1>1, <1>2, PTL DEF Spec, RunsInCurrentBlock

=============================================================================

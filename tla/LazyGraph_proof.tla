---------------------------- MODULE LazyGraph_proof ----------------------------
(***************************************************************************)
(* The lazy evaluation of expressions: the flags, shapes, contents and     *)
(* sessions of every graph, for every order of calls.                      *)
(***************************************************************************)
EXTENDS LazyGraph, FoldLemmas, FiniteSetTheorems, TLAPS

(***************************************************************************)
(* Reached.                                                                *)
(***************************************************************************)
LEMMA ReachedIn ==
  ASSUME NEW S, NEW from, NEW next
  PROVE  Reached(S, from, next) \subseteq S
BY DEF Reached

LEMMA ReachedHas ==
  ASSUME NEW S, NEW from, from \subseteq S, NEW next
  PROVE  from \subseteq Reached(S, from, next)
BY DEF Reached

LEMMA ReachedOn ==
  ASSUME NEW S, NEW from, NEW next, NEW x \in Reached(S, from, next),
         NEW y \in next[x], y \in S
  PROVE  y \in Reached(S, from, next)
BY DEF Reached

LEMMA ReachedLeast ==
  ASSUME NEW S, NEW from, NEW next, NEW T \in SUBSET S, from \subseteq T,
         \A x \in T : next[x] \subseteq T
  PROVE  Reached(S, from, next) \subseteq T
BY DEF Reached

(***************************************************************************)
(* The graph computed anew.                                                *)
(***************************************************************************)
NodesOf(g) == 1 .. g.leaves \cup DOMAIN g.in

LEMMA GraphFacts ==
  ASSUME NEW g, Consistent(g)
  PROVE  /\ g.leaves \in Nat
         /\ DOMAIN g.in \subseteq Nat /\ (1 .. g.leaves) \cap DOMAIN g.in = {}
         /\ \A n \in NodesOf(g) : n \in Nat /\ n > 0
         /\ \E top \in Nat : \A n \in NodesOf(g) : n <= top
         /\ \A e \in DOMAIN g.in :
              /\ g.content[e] \subseteq DOMAIN g.in[e] /\ g.shape[e] \subseteq DOMAIN g.in[e]
              /\ DOMAIN g.in[e] \subseteq Nat
              /\ \A i \in DOMAIN g.in[e] : g.in[e][i] \in NodesOf(g) /\ g.in[e][i] < e
<1> DEFINE k == Cardinality(DOMAIN g.in)
<1>1. g.leaves \in Nat /\ k \in Nat /\ DOMAIN g.in = g.leaves + 1 .. g.leaves + k
  BY FS_CardinalityType DEF Consistent
<1>2. ASSUME NEW e \in DOMAIN g.in
      PROVE  /\ g.content[e] \subseteq DOMAIN g.in[e] /\ g.shape[e] \subseteq DOMAIN g.in[e]
             /\ DOMAIN g.in[e] \subseteq Nat
             /\ \A i \in DOMAIN g.in[e] : g.in[e][i] \in NodesOf(g) /\ g.in[e][i] < e
  <2> DEFINE Before == {n \in NodesOf(g) : n < e}
  <2>1. g.in[e] \in Seq(Before)
    BY DEF Consistent, NodesOf
  <2>2. DOMAIN g.in[e] \subseteq Nat /\ \A i \in DOMAIN g.in[e] : g.in[e][i] \in Before
    <3> HIDE DEF Before
    <3> QED
      BY <2>1
  <2> QED
    BY <2>2 DEF Consistent
<1>3. \A n \in NodesOf(g) : n \in Nat /\ n > 0 /\ n <= g.leaves + k
  BY <1>1 DEF NodesOf
<1>4. g.leaves + k \in Nat
  BY <1>1
<1> HIDE DEF k
<1> QED
  BY <1>1, <1>2, <1>3, <1>4

Rule(g, sizes, contents, constants, v, n) ==
  IF n \in 1 .. g.leaves THEN [info |-> <<sizes[n]>>, content |-> contents[n]]
  ELSE IF n \in constants THEN [info |-> Atom(n), content |-> Atom(n)]
  ELSE [info |-> Shape(g, v, n), content |-> Content(g, v, n, Shape(g, v, n))]

LEMMA RuleLooksBack ==
  ASSUME NEW g, Consistent(g), NEW sizes, NEW contents, NEW constants,
         NEW n \in NodesOf(g), NEW v, NEW w, \A m \in NodesOf(g) : m < n => v[m] = w[m]
  PROVE  Rule(g, sizes, contents, constants, v, n) = Rule(g, sizes, contents, constants, w, n)
<1>1. CASE n \in 1 .. g.leaves
  BY <1>1 DEF Rule
<1>2. CASE n \notin 1 .. g.leaves
  <2>1. n \in DOMAIN g.in
    BY <1>2 DEF NodesOf
  <2>2. \A i \in DOMAIN g.in[n] : v[g.in[n][i]] = w[g.in[n][i]]
    BY <2>1, GraphFacts
  <2>3. g.content[n] \subseteq DOMAIN g.in[n] /\ g.shape[n] \subseteq DOMAIN g.in[n]
    BY <2>1, GraphFacts
  <2>4. Shape(g, v, n) = Shape(g, w, n)
    BY <2>2, <2>3 DEF Shape
  <2>5. Content(g, v, n, Shape(g, v, n)) = Content(g, w, n, Shape(g, v, n))
    BY <2>2, <2>3 DEF Content
  <2> QED
    BY <2>4, <2>5, Zenon DEF Rule
<1> QED
  BY <1>1, <1>2

AnewEqn(g, sizes, contents, constants, v, S) ==
  v = [n \in S |-> Rule(g, sizes, contents, constants, v, n)]

\* There is a graph computed anew: there is one of the nodes before k, for every k.
LEMMA AnewExists ==
  ASSUME NEW g, Consistent(g), NEW sizes, NEW contents, NEW constants
  PROVE  \E v : AnewEqn(g, sizes, contents, constants, v, NodesOf(g))
<1> DEFINE N == NodesOf(g)
           Before(k) == {n \in N : n < k}
           Good(v, S) == v = [n \in S |-> Rule(g, sizes, contents, constants, v, n)]
           Missing == {k \in Nat : ~ \E v : Good(v, Before(k))}
<1>1. PICK top \in Nat : \A n \in N : n \in Nat /\ n <= top
  BY GraphFacts
<1>2. Missing = {}
  <2> SUFFICES ASSUME Missing # {} PROVE FALSE
    OBVIOUS
  <2>1. PICK k \in Missing : \A n \in Missing : k <= n
    BY LeastNumber
  <2>2. k \in Nat /\ ~ \E v : Good(v, Before(k))
    OBVIOUS
  <2>3. \E f : \A n \in Before(k) : \A m \in N : m < n => f[m] = Rule(g, sizes, contents, constants, f, m)
    <3>1. CASE k = 0
      <4>1. Before(k) = {}
        BY <3>1, <1>1
      <4> QED
        BY <4>1
    <3>2. CASE k # 0
      <4>1. k - 1 \in Nat /\ k - 1 \notin Missing
        <5>1. k - 1 \in Nat /\ ~ (k <= k - 1)
          BY <2>2, <3>2
        <5> HIDE DEF Missing
        <5> QED
          BY <2>1, <5>1
      <4>2. PICK f : Good(f, Before(k - 1))
        BY <4>1
      <4>3. \A n \in Before(k) : \A m \in N : m < n => m \in Before(k - 1)
        BY <1>1, <2>2, <4>1
      <4>4. \A m \in Before(k - 1) : f[m] = Rule(g, sizes, contents, constants, f, m)
        BY <4>2, Zenon
      <4> QED
        BY <4>3, <4>4
    <3> QED
      BY <3>1, <3>2
  <2>4. PICK f : \A n \in Before(k) : \A m \in N : m < n => f[m] = Rule(g, sizes, contents, constants, f, m)
    BY <2>3
  <2> DEFINE h == [n \in Before(k) |-> Rule(g, sizes, contents, constants, f, n)]
  <2>5. \A n \in Before(k) : \A m \in N : m < n => h[m] = f[m]
    <3>1. \A n \in Before(k) : \A m \in N : m < n => m \in Before(k)
      BY <1>1, <2>2
    <3> QED
      BY <2>4, <3>1
  <2>6. \A n \in Before(k) : Rule(g, sizes, contents, constants, h, n) = Rule(g, sizes, contents, constants, f, n)
    <3> TAKE n \in Before(k)
    <3>1. n \in NodesOf(g) /\ \A m \in NodesOf(g) : m < n => h[m] = f[m]
      BY <2>5
    <3> HIDE DEF h
    <3> QED
      BY <3>1, RuleLooksBack
  <2>7. Good(h, Before(k))
    BY <2>6
  <2> QED
    BY <2>2, <2>7
<1>3. top + 1 \notin Missing /\ top + 1 \in Nat /\ Before(top + 1) = N
  <2>1. top + 1 \in Nat /\ Before(top + 1) = N
    BY <1>1
  <2> HIDE DEF Missing
  <2> QED
    BY <1>2, <2>1
<1>4. \E v : Good(v, Before(top + 1))
  BY <1>3
<1>5. \E v : Good(v, N)
  BY <1>3, <1>4, Zenon
<1> QED
  BY <1>5 DEF AnewEqn

LEMMA AnewIs ==
  ASSUME NEW g, Consistent(g), NEW sizes, NEW contents, NEW constants
  PROVE  \A n \in NodesOf(g) :
           Anew(g, sizes, contents, constants)[n]
             = Rule(g, sizes, contents, constants, Anew(g, sizes, contents, constants), n)
<1> DEFINE A == Anew(g, sizes, contents, constants)
<1>1. AnewEqn(g, sizes, contents, constants, A, NodesOf(g))
  <2>1. A = CHOOSE v : AnewEqn(g, sizes, contents, constants, v, NodesOf(g))
    BY Zenon DEF Anew, AnewEqn, Rule, NodesOf
  <2> QED
    BY <2>1, AnewExists, Zenon
<1>2. \A n \in NodesOf(g) : A[n] = Rule(g, sizes, contents, constants, A, n)
  BY <1>1, Zenon DEF AnewEqn
<1> QED
  BY <1>2

(***************************************************************************)
(* What sessions compute.                                                  *)
(***************************************************************************)
OwnerIn(m, k) == IF m \in DOMAIN caches[k].from THEN caches[k].from[m] ELSE k

SessionRule(ran, over, content, m) ==
  [k \in DOMAIN caches |->
     IF m \in Leaves THEN data[m]
     ELSE IF m \in fixed THEN Constant(m, m \in overwritten \/ <<m, k>> \in over)
     ELSE IF OwnerIn(m, k) \notin ran THEN caches[OwnerIn(m, k)].held[m]
     ELSE <<caches[OwnerIn(m, k)].shapes[m], [i \in DOMAIN graph.in[m] |->
             IF i \in graph.content[m] THEN content[graph.in[m][i]][OwnerIn(m, k)] ELSE Null]>>]

LEMMA SessionRuleLooksBack ==
  ASSUME Consistent(graph), NEW ran, NEW over, NEW n \in Nodes, NEW v, NEW w,
         \A m \in Nodes : m < n => v[m] = w[m]
  PROVE  SessionRule(ran, over, v, n) = SessionRule(ran, over, w, n)
<1>1. CASE n \in Leaves
  BY <1>1 DEF SessionRule
<1>2. CASE n \notin Leaves
  <2>1. n \in DOMAIN graph.in
    BY <1>2 DEF Nodes, Ops
  <2>2. \A i \in DOMAIN graph.in[n] : v[graph.in[n][i]] = w[graph.in[n][i]]
    BY <2>1, GraphFacts DEF Nodes, Ops, Leaves, NodesOf
  <2> QED
    BY <1>2, <2>2 DEF SessionRule
<1> QED
  BY <1>1, <1>2

ContentsEqn(ran, over, v, S) == v = [m \in S |-> SessionRule(ran, over, v, m)]

LEMMA ContentsExist ==
  ASSUME Consistent(graph), NEW ran, NEW over
  PROVE  \E v : ContentsEqn(ran, over, v, Nodes)
<1> DEFINE N == Nodes
           Before(k) == {n \in N : n < k}
           Good(v, S) == v = [n \in S |-> SessionRule(ran, over, v, n)]
           Missing == {k \in Nat : ~ \E v : Good(v, Before(k))}
<1>1. PICK top \in Nat : \A n \in N : n \in Nat /\ n <= top
  <2>1. N = NodesOf(graph)
    BY DEF Nodes, Ops, Leaves, NodesOf
  <2> QED
    BY <2>1, GraphFacts
<1>2. Missing = {}
  <2> SUFFICES ASSUME Missing # {} PROVE FALSE
    OBVIOUS
  <2>1. PICK k \in Missing : \A n \in Missing : k <= n
    BY LeastNumber
  <2>2. k \in Nat /\ ~ \E v : Good(v, Before(k))
    OBVIOUS
  <2>3. \E f : \A n \in Before(k) : \A m \in N : m < n => f[m] = SessionRule(ran, over, f, m)
    <3>1. CASE k = 0
      <4>1. Before(k) = {}
        BY <3>1, <1>1
      <4> QED
        BY <4>1
    <3>2. CASE k # 0
      <4>1. k - 1 \in Nat /\ k - 1 \notin Missing
        <5>1. k - 1 \in Nat /\ ~ (k <= k - 1)
          BY <2>2, <3>2
        <5> HIDE DEF Missing
        <5> QED
          BY <2>1, <5>1
      <4>2. PICK f : Good(f, Before(k - 1))
        BY <4>1
      <4>3. \A n \in Before(k) : \A m \in N : m < n => m \in Before(k - 1)
        BY <1>1, <2>2, <4>1
      <4>4. \A m \in Before(k - 1) : f[m] = SessionRule(ran, over, f, m)
        BY <4>2, Zenon
      <4> QED
        BY <4>3, <4>4
    <3> QED
      BY <3>1, <3>2
  <2>4. PICK f : \A n \in Before(k) : \A m \in N : m < n => f[m] = SessionRule(ran, over, f, m)
    BY <2>3
  <2> DEFINE h == [n \in Before(k) |-> SessionRule(ran, over, f, n)]
  <2>5. \A n \in Before(k) : \A m \in N : m < n => h[m] = f[m]
    <3>1. \A n \in Before(k) : \A m \in N : m < n => m \in Before(k)
      BY <1>1, <2>2
    <3> QED
      BY <2>4, <3>1
  <2>6. \A n \in Before(k) : SessionRule(ran, over, h, n) = SessionRule(ran, over, f, n)
    <3> TAKE n \in Before(k)
    <3>1. n \in Nodes /\ \A m \in Nodes : m < n => h[m] = f[m]
      BY <2>5
    <3> HIDE DEF h
    <3> QED
      BY <3>1, SessionRuleLooksBack
  <2>7. Good(h, Before(k))
    BY <2>6
  <2> QED
    BY <2>2, <2>7
<1>3. top + 1 \notin Missing /\ top + 1 \in Nat /\ Before(top + 1) = N
  <2>1. top + 1 \in Nat /\ Before(top + 1) = N
    BY <1>1
  <2> HIDE DEF Missing
  <2> QED
    BY <1>2, <2>1
<1>4. \E v : Good(v, Before(top + 1))
  BY <1>3
<1>5. \E v : Good(v, N)
  BY <1>3, <1>4, Zenon
<1> QED
  BY <1>5 DEF ContentsEqn

\* What a session computes of an operator, and what it takes from another session.
LEMMA ContentsAre ==
  ASSUME Consistent(graph), NEW ran, NEW over
  PROVE  \A m \in Nodes : Contents(ran, over)[m] = SessionRule(ran, over, Contents(ran, over), m)
<1> DEFINE C == Contents(ran, over)
<1>1. ContentsEqn(ran, over, C, Nodes)
  <2>1. C = CHOOSE v : ContentsEqn(ran, over, v, Nodes)
    BY Zenon DEF Contents, ContentsEqn, SessionRule, OwnerIn
  <2> QED
    BY <2>1, ContentsExist, Zenon
<1> QED
  BY <1>1, Zenon DEF ContentsEqn

(***************************************************************************)
(* The invariant, part by part: types.                                     *)
(***************************************************************************)
Typed ==
  /\ graph \in Graphs
  /\ fixed \subseteq Ops
  /\ infoDirty \in [Ops -> BOOLEAN] /\ valid \in [Ops -> BOOLEAN] /\ cache \in [Ops -> Nat]
  /\ info = [e \in Ops |-> info[e]]
  /\ dim = [l \in Leaves |-> dim[l]] /\ data = [l \in Leaves |-> data[l]]

CacheTyped(k) ==
  /\ DOMAIN k = {"shapeDirty", "contentDirty", "needResize", "shapes", "held", "from", "leaves"}
  /\ k.shapeDirty \in BOOLEAN /\ k.contentDirty \in BOOLEAN /\ k.needResize \in BOOLEAN
  /\ DOMAIN k.held \subseteq Ops /\ k.leaves \subseteq Leaves
  /\ DOMAIN k.from \subseteq Ops /\ DOMAIN k.from \cap DOMAIN k.held = {}

CachesTyped ==
  /\ IsFiniteSet(DOMAIN caches) /\ DOMAIN caches \subseteq Nat \ {NoCache}
  /\ \A c \in DOMAIN caches : CacheTyped(caches[c]) /\ Range(caches[c].from) \subseteq DOMAIN caches

\* A shape that is known is computed from known ones; only what was not computed
\* is refused; what has a cache has a shape.
ShapesTyped ==
  \A e \in Ops :
    /\ ~ infoDirty[e] => \A m \in Range(InputsOf(e)) : Known(m)
    /\ ~ valid[e] => infoDirty[e]
    /\ e \in fixed => ~ infoDirty[e] /\ cache[e] = NoCache /\ info[e] = Atom(e)
    /\ cache[e] # NoCache => cache[e] \in DOMAIN caches /\ ~ infoDirty[e]

CallTyped ==
  /\ call.do = "ask" => HasOp(call.of)
  /\ call.do = "have" => HasOp(call.of) /\ cache[call.of] # NoCache
  /\ call.do = "compute" => \A e \in call.es : HasOp(e) /\ cache[e] # NoCache
  /\ call.do = "inform" => call.of \in Leaves

WellFormed == Typed /\ CachesTyped /\ ShapesTyped /\ CallTyped

LEMMA Links ==
  ASSUME Typed
  PROVE  /\ Consistent(graph) /\ Nodes = NodesOf(graph)
         /\ \A n \in Nodes : n \in Nat /\ n > 0
         /\ \A n \in Leaves : n \notin Ops
         /\ \A e \in Ops :
              /\ DOMAIN InputsOf(e) \subseteq Nat
              /\ \A i \in DOMAIN InputsOf(e) :
                   /\ InputsOf(e)[i] \in Nodes /\ InputsOf(e)[i] < e
                   /\ e \notin fixed /\ InputsOf(e) = graph.in[e]
              /\ \A m \in Range(InputsOf(e)) : m \in Nodes /\ m < e /\ e \in Consumers(m) /\ HasOp(e)
              /\ ContentInputs(e) \subseteq Range(InputsOf(e))
              /\ ShapeInputs(e) \subseteq Range(InputsOf(e))
<1>1. Consistent(graph) /\ Nodes = NodesOf(graph)
  BY GraphsAssumption DEF Typed, Nodes, Ops, Leaves, NodesOf
<1>2. \A n \in Nodes : n \in Nat /\ n > 0
  BY <1>1, GraphFacts
<1>3. \A n \in Leaves : n \notin Ops
  BY <1>1, GraphFacts DEF Leaves, Ops
<1>4. ASSUME NEW e \in Ops
      PROVE  /\ DOMAIN InputsOf(e) \subseteq Nat
             /\ \A i \in DOMAIN InputsOf(e) :
                  /\ InputsOf(e)[i] \in Nodes /\ InputsOf(e)[i] < e
                  /\ e \notin fixed /\ InputsOf(e) = graph.in[e]
             /\ \A m \in Range(InputsOf(e)) : m \in Nodes /\ m < e /\ e \in Consumers(m) /\ HasOp(e)
             /\ ContentInputs(e) \subseteq Range(InputsOf(e))
             /\ ShapeInputs(e) \subseteq Range(InputsOf(e))
  <2>1. /\ DOMAIN graph.in[e] \subseteq Nat
        /\ \A i \in DOMAIN graph.in[e] : graph.in[e][i] \in Nodes /\ graph.in[e][i] < e
    BY <1>1, GraphFacts DEF Ops
  <2>2. /\ DOMAIN InputsOf(e) \subseteq Nat
        /\ \A i \in DOMAIN InputsOf(e) :
             /\ InputsOf(e)[i] \in Nodes /\ InputsOf(e)[i] < e
             /\ e \notin fixed /\ InputsOf(e) = graph.in[e]
    BY <2>1 DEF InputsOf
  <2>3. \A m \in Range(InputsOf(e)) : m \in Nodes /\ m < e /\ e \in Consumers(m) /\ HasOp(e)
    BY <2>2 DEF Range, Consumers, HasOp
  <2>4. ContentInputs(e) \subseteq Range(InputsOf(e)) /\ ShapeInputs(e) \subseteq Range(InputsOf(e))
    BY DEF ContentInputs, ShapeInputs, Range
  <2> QED
    BY <2>2, <2>3, <2>4
<1> QED
  BY <1>1, <1>2, <1>3, <1>4

\* What is left of the caches holds all that a reference leads to.
LEMMA UsedKeeps ==
  ASSUME CachesTyped, NEW refs, Range(refs) \ {NoCache} \subseteq DOMAIN caches
  PROVE  /\ DOMAIN Used(refs) \subseteq DOMAIN caches
         /\ \A c \in DOMAIN Used(refs) : Used(refs)[c] = caches[c] /\ Range(caches[c].from) \subseteq DOMAIN Used(refs)
         /\ \A x \in DOMAIN refs : refs[x] # NoCache => refs[x] \in DOMAIN Used(refs)
<1> DEFINE R == Reached(DOMAIN caches, Range(refs) \ {NoCache}, Below)
<1>1. DOMAIN Used(refs) = R /\ \A c \in R : Used(refs)[c] = caches[c]
  BY DEF Used, Restrict
<1>2. R \subseteq DOMAIN caches
  BY ReachedIn
<1>3. \A c \in R : Range(caches[c].from) \subseteq R
  <2> TAKE c \in R
  <2>1. c \in DOMAIN caches /\ Below[c] = Range(caches[c].from)
    BY <1>2 DEF Below
  <2>2. Range(caches[c].from) \subseteq DOMAIN caches
    BY <2>1 DEF CachesTyped
  <2> QED
    BY <2>1, <2>2, ReachedOn
<1>4. Range(refs) \ {NoCache} \subseteq R
  BY ReachedHas
<1>5. \A x \in DOMAIN refs : refs[x] # NoCache => refs[x] \in R
  BY <1>4 DEF Range
<1> HIDE DEF R
<1> QED
  BY <1>1, <1>2, <1>3, <1>5

(***************************************************************************)
(* What invalidation does: es start anew, and f are fixed.                 *)
(***************************************************************************)
Restarts(es, f) ==
  /\ graph' = graph /\ fixed' = fixed \cup f
  /\ infoDirty' = [m \in Ops |-> m \in es \/ infoDirty[m]]
  /\ valid' = [m \in Ops |-> m \in es \/ valid[m]]
  /\ info' = [m \in Ops |-> IF m \in f THEN Atom(m) ELSE IF m \in es THEN Null ELSE info[m]]
  /\ cache' = [m \in Ops |-> IF m \in es \cup f THEN NoCache ELSE cache[m]]
  /\ caches' = Used([m \in Ops |-> IF m \in es \cup f THEN NoCache ELSE cache[m]])

\* What uses an operator that starts anew, or is fixed, starts anew if it is not dirty.
CanRestart(es, f) ==
  /\ es \subseteq Ops \ fixed /\ f \subseteq Ops \ fixed /\ es \cap f = {}
  /\ \A m \in f : ~ infoDirty[m]
  /\ \A x \in es \cup f : \A m \in Consumers(x) : m \in es \/ infoDirty[m]

LEMMA RestartCaches ==
  ASSUME Typed, CachesTyped, ShapesTyped, NEW es, NEW f, CanRestart(es, f), Restarts(es, f)
  PROVE  /\ CachesTyped'
         /\ \A c \in DOMAIN caches' : c \in DOMAIN caches /\ caches'[c] = caches[c]
         /\ \A e \in Ops : cache'[e] # NoCache =>
              e \notin es \cup f /\ cache'[e] = cache[e] /\ cache[e] \in DOMAIN caches'
<1> DEFINE refs == [m \in Ops |-> IF m \in es \cup f THEN NoCache ELSE cache[m]]
<1>1. Range(refs) \ {NoCache} \subseteq DOMAIN caches /\ DOMAIN refs = Ops
  BY DEF Range, ShapesTyped
<1>2. caches' = Used(refs) /\ cache' = refs /\ Ops' = Ops /\ Leaves' = Leaves
  BY DEF Restarts, Ops, Leaves
<1>3. \A e \in Ops : refs[e] # NoCache => e \notin es \cup f /\ refs[e] = cache[e]
  OBVIOUS
<1> HIDE DEF refs
<1>4. /\ DOMAIN caches' \subseteq DOMAIN caches
      /\ \A c \in DOMAIN caches' : caches'[c] = caches[c] /\ Range(caches[c].from) \subseteq DOMAIN caches'
      /\ \A x \in Ops : refs[x] # NoCache => refs[x] \in DOMAIN caches'
  BY <1>1, <1>2, UsedKeeps
<1>5. CachesTyped'
  <2>1. IsFiniteSet(DOMAIN caches') /\ DOMAIN caches' \subseteq Nat \ {NoCache}
    BY <1>4, FS_Subset DEF CachesTyped
  <2>2. ASSUME NEW c \in DOMAIN caches'
        PROVE  CacheTyped(caches[c])' /\ Range(caches[c].from)' \subseteq DOMAIN caches'
    <3>1. caches'[c] = caches[c] /\ CacheTyped(caches[c]) /\ Range(caches[c].from) \subseteq DOMAIN caches'
      BY <1>4 DEF CachesTyped
    <3> QED
      BY <1>2, <3>1, Zenon DEF CacheTyped, Range
  <2> QED
    BY <2>1, <2>2 DEF CachesTyped
<1> QED
  BY <1>2, <1>3, <1>4, <1>5

LEMMA RestartKeeps ==
  ASSUME Typed, CachesTyped, ShapesTyped, NEW es, NEW f, CanRestart(es, f), Restarts(es, f)
  PROVE  ShapesTyped' /\ CachesTyped'
<1>1. Ops' = Ops
  BY DEF Restarts, Ops
<1>2. SUFFICES ASSUME NEW e \in Ops
               PROVE  /\ ~ infoDirty'[e] => \A m \in Range(InputsOf(e)') : m \in Ops => ~ infoDirty'[m]
                      /\ ~ valid'[e] => infoDirty'[e]
                      /\ e \in fixed' => ~ infoDirty'[e] /\ cache'[e] = NoCache /\ info'[e] = Atom(e)
                      /\ cache'[e] # NoCache => cache'[e] \in DOMAIN caches' /\ ~ infoDirty'[e]
  BY <1>1, RestartCaches DEF ShapesTyped, Known
<1>3. infoDirty'[e] = (e \in es \/ infoDirty[e]) /\ valid'[e] = (e \in es \/ valid[e])
  BY DEF Restarts
<1>4. ASSUME ~ infoDirty'[e], NEW m \in Range(InputsOf(e)'), m \in Ops PROVE ~ infoDirty'[m]
  <2>1. m \in Range(InputsOf(e)) \/ e \in fixed'
    BY DEF InputsOf, Restarts
  <2>2. e \notin fixed'
    BY DEF InputsOf, Range
  <2>3. m \in Range(InputsOf(e)) /\ e \in Consumers(m)
    BY <2>1, <2>2, Links
  <2>4. ~ infoDirty[m]
    BY <1>3, <1>4, <2>3 DEF ShapesTyped, Known
  <2>5. m \notin es
    BY <1>3, <1>4, <2>3 DEF CanRestart
  <2>6. infoDirty'[m] = (m \in es \/ infoDirty[m])
    BY <1>4 DEF Restarts
  <2> QED
    BY <2>4, <2>5, <2>6
<1>5. ~ valid'[e] => infoDirty'[e]
  BY <1>3 DEF ShapesTyped
<1>6. e \in fixed' => ~ infoDirty'[e] /\ cache'[e] = NoCache /\ info'[e] = Atom(e)
  BY <1>3 DEF ShapesTyped, CanRestart, Restarts
<1>7. cache'[e] # NoCache => cache'[e] \in DOMAIN caches' /\ ~ infoDirty'[e]
  BY <1>3, RestartCaches DEF ShapesTyped
<1> QED
  BY <1>4, <1>5, <1>6, <1>7

\* Outputs, which visitOutputs reaches.
LEMMA OutputsClosed ==
  ASSUME Typed, NEW n, NEW through
  PROVE  /\ Outputs(n, through) \subseteq Ops \ fixed
         /\ Consumers(n) \subseteq Outputs(n, through)
         /\ \A x \in Outputs(n, through) : x \in through => Consumers(x) \subseteq Outputs(n, through)
<1> DEFINE next == [e \in Ops |-> IF e \in through THEN Consumers(e) ELSE {}]
           R == Reached(Ops, Consumers(n), next)
<1>1. \A m : Consumers(m) \subseteq Ops \ fixed
  BY DEF Consumers, InputsOf, Range
<1>2. R \subseteq Ops
  BY ReachedIn
<1>3. R \subseteq Ops \ fixed
  <2>1. \A x \in Ops \ fixed : next[x] \subseteq Ops \ fixed
    BY <1>1
  <2>2. Ops \ fixed \in SUBSET Ops /\ Consumers(n) \subseteq Ops \ fixed
    BY <1>1
  <2> HIDE DEF next
  <2> QED
    BY <2>1, <2>2, ReachedLeast
<1>4. Consumers(n) \subseteq R
  BY <1>1, ReachedHas
<1>5. \A x \in R : x \in through => Consumers(x) \subseteq R
  <2> TAKE x \in R
  <2> HAVE x \in through
  <2>1. next[x] = Consumers(x) /\ Consumers(x) \subseteq Ops
    BY <1>1, <1>2
  <2> HIDE DEF next
  <2> QED
    BY <2>1, ReachedOn
<1> HIDE DEF next
<1> QED
  BY <1>3, <1>4, <1>5 DEF Outputs, next

LEMMA DirtyOutputsRestart ==
  ASSUME Typed, NEW n
  PROVE  /\ CanRestart(DirtyOutputs(n), {})
         /\ \A m \in Consumers(n) : m \in DirtyOutputs(n) \/ infoDirty[m]
<1> DEFINE R == Outputs(n, Clean(Ops))
<1>1. DirtyOutputs(n) \subseteq R /\ \A m \in R : m \in DirtyOutputs(n) \/ infoDirty[m]
  BY DEF DirtyOutputs, Clean, InfoIsDirty
<1>2. DirtyOutputs(n) \subseteq Clean(Ops)
  BY OutputsClosed DEF DirtyOutputs, Clean
<1>3. R \subseteq Ops \ fixed /\ Consumers(n) \subseteq R
  BY OutputsClosed
<1>4. \A x \in DirtyOutputs(n) : Consumers(x) \subseteq R
  BY <1>1, <1>2, OutputsClosed
<1> QED
  BY <1>1, <1>3, <1>4 DEF CanRestart

LEMMA VisitRestart ==
  ASSUME Typed, NEW e \in Ops \ fixed
  PROVE  CanRestart(Clean({e}) \cup DirtyOutputs(e), {})
<1>1. Clean({e}) \subseteq {e}
  BY DEF Clean
<1> QED
  BY <1>1, DirtyOutputsRestart DEF CanRestart

\* What fix makes start anew comes after the operator that is fixed.
LEMMA FixRestart ==
  ASSUME Typed, NEW e \in Ops \ fixed, ~ infoDirty[e]
  PROVE  CanRestart(Outputs(e, Ops), {e})
<1> DEFINE R == Outputs(e, Ops)
<1>1. R \subseteq Ops \ fixed /\ Consumers(e) \subseteq R /\ \A x \in R : Consumers(x) \subseteq R
  BY OutputsClosed
<1>2. e \notin R
  <2> DEFINE next == [x \in Ops |-> IF x \in Ops THEN Consumers(x) ELSE {}]
             T == {x \in Ops : x > e}
  <2>1. \A x \in Ops : \A m \in Consumers(x) : m \in Ops /\ m > x /\ m \in Nat /\ x \in Nat
    BY Links DEF Consumers, Nodes
  <2>2. Consumers(e) \subseteq T /\ \A x \in T : next[x] \subseteq T
    <3>1. \A x \in T : \A m \in Consumers(x) : m > e
      <4> TAKE x \in T
      <4> TAKE m \in Consumers(x)
      <4> QED
        BY <2>1, Links DEF Nodes
    <3> QED
      BY <2>1, <3>1
  <2> HIDE DEF next
  <2>3. Reached(Ops, Consumers(e), next) \subseteq T
    BY <2>2, ReachedLeast
  <2>4. e \notin T
    BY Links DEF Nodes
  <2> HIDE DEF T
  <2> QED
    BY <2>3, <2>4 DEF Outputs, next
<1> HIDE DEF R
<1> QED
  BY <1>1, <1>2 DEF CanRestart, R

(***************************************************************************)
(* What making a cache does.                                               *)
(***************************************************************************)
LEMMA NewIdIsNew ==
  ASSUME CachesTyped
  PROVE  NewId \in Nat \ {NoCache} /\ NewId \notin DOMAIN caches
<1> DEFINE D == DOMAIN caches
           k == Cardinality(D)
<1>1. IsFiniteSet(D) /\ k \in Nat
  BY FS_CardinalityType DEF CachesTyped
<1>2. \E c \in 1 .. k + 1 : c \notin D
  <2> SUFFICES ASSUME 1 .. k + 1 \subseteq D PROVE FALSE
    OBVIOUS
  <2>1. Cardinality(1 .. k + 1) = k + 1
    <3>1. k + 1 \in Int /\ 1 \in Int /\ ~ (1 > k + 1) /\ k + 1 - 1 + 1 = k + 1
      BY <1>1
    <3> HIDE DEF k
    <3> QED
      BY <3>1, FS_Interval
  <2>2. Cardinality(1 .. k + 1) <= k
    BY <1>1, FS_Subset
  <2> HIDE DEF k
  <2> QED
    BY <1>1, <2>1, <2>2
<1> QED
  BY <1>1, <1>2 DEF NewId, NoCache

CanMake(targets) ==
  targets \subseteq Ops /\ \A m \in targets : HasNoCache(m) /\ ~ infoDirty[m]

LEMMA NodesForFacts ==
  ASSUME Typed, ShapesTyped, NEW targets, CanMake(targets)
  PROVE  /\ targets \subseteq NodesFor(targets) /\ NodesFor(targets) \subseteq Ops
         /\ \A m \in NodesFor(targets) :
              /\ HasNoCache(m) /\ ~ infoDirty[m]
              /\ \A x \in ContentInputs(m) : HasNoCache(x) => x \in NodesFor(targets)
<1> DEFINE next == [e \in Ops |-> {m \in ContentInputs(e) : HasNoCache(m)}]
           R == Reached(Ops, targets, next)
           T == {m \in Ops : HasNoCache(m) /\ ~ infoDirty[m]}
<1>1. targets \subseteq R
  BY ReachedHas DEF CanMake
<1>2. R \subseteq Ops
  BY ReachedIn
<1>3. R \subseteq T
  <2>1. \A x \in T : next[x] \subseteq T
    <3> SUFFICES ASSUME NEW x \in T, NEW m \in ContentInputs(x), HasNoCache(m)
                 PROVE  m \in Ops /\ ~ infoDirty[m]
      OBVIOUS
    <3>1. m \in Ops /\ m \in Range(InputsOf(x)) /\ ~ infoDirty[x]
      BY Links DEF HasNoCache, HasOp
    <3> QED
      BY <3>1 DEF ShapesTyped, Known
  <2>2. targets \subseteq T /\ T \in SUBSET Ops
    BY DEF CanMake
  <2> HIDE DEF next, T
  <2> QED
    BY <2>1, <2>2, ReachedLeast
<1>4. \A m \in R : \A x \in ContentInputs(m) : HasNoCache(x) => x \in R
  <2> TAKE m \in R
  <2> TAKE x \in ContentInputs(m)
  <2> HAVE HasNoCache(x)
  <2>1. x \in next[m] /\ x \in Ops
    BY <1>2 DEF HasNoCache, HasOp
  <2> HIDE DEF next
  <2> QED
    BY <2>1, ReachedOn
<1> HIDE DEF next
<1> QED
  BY <1>1, <1>2, <1>3, <1>4 DEF NodesFor, next

LEMMA NewCacheTyped ==
  ASSUME Typed, CachesTyped, ShapesTyped, NEW targets, CanMake(targets)
  PROVE  /\ CacheTyped(NewCache(NodesFor(targets)))
         /\ Range(NewCache(NodesFor(targets)).from) \subseteq DOMAIN caches
<1> DEFINE N == NodesFor(targets)
           needed == UNION {ContentInputs(e) : e \in N}
           F == {m \in needed : HasOp(m) /\ ~ HasNoCache(m)}
           k == NewCache(N)
<1>1. /\ DOMAIN k = {"shapeDirty", "contentDirty", "needResize", "shapes", "held", "from", "leaves"}
      /\ k.shapeDirty = TRUE /\ k.contentDirty = TRUE /\ k.needResize = TRUE
      /\ k.held = [e \in N |-> Null] /\ k.from = [m \in F |-> cache[m]]
      /\ k.leaves = needed \cap Leaves
  BY DEF NewCache
<1>2. N \subseteq Ops /\ \A m \in N : HasNoCache(m)
  BY NodesForFacts
<1>3. F \subseteq Ops /\ \A m \in F : cache[m] # NoCache /\ ~ HasNoCache(m)
  BY DEF HasOp, HasNoCache
<1>4. Range(k.from) \subseteq DOMAIN caches
  BY <1>1, <1>3 DEF Range, ShapesTyped
<1> HIDE DEF k, F, N, needed
<1>5. CacheTyped(k)
  BY <1>1, <1>2, <1>3 DEF CacheTyped
<1> QED
  BY <1>4, <1>5 DEF k, N

LEMMA MakeCacheIs ==
  ASSUME Typed, CachesTyped, ShapesTyped, NEW targets, CanMake(targets), MakeCache(targets)
  PROVE  /\ DOMAIN caches' = DOMAIN caches \cup {NewId} /\ NewId \notin DOMAIN caches
         /\ NewId \in Nat \ {NoCache}
         /\ \A c \in DOMAIN caches : caches'[c] = caches[c]
         /\ caches'[NewId] = NewCache(NodesFor(targets))
         /\ \A e \in Ops : cache'[e] = IF e \in targets THEN NewId ELSE cache[e]
         /\ Ops' = Ops /\ Leaves' = Leaves
<1>1. Ops' = Ops /\ Leaves' = Leaves
  BY DEF MakeCache, outside, Ops, Leaves
<1> QED
  BY <1>1, NewIdIsNew DEF MakeCache

LEMMA MakeCacheKeeps ==
  ASSUME Typed, CachesTyped, ShapesTyped, NEW targets, CanMake(targets), MakeCache(targets)
  PROVE  Typed' /\ CachesTyped' /\ ShapesTyped'
<1>1. Ops' = Ops /\ Leaves' = Leaves /\ graph' = graph /\ fixed' = fixed /\ info' = info
      /\ infoDirty' = infoDirty /\ valid' = valid /\ dim' = dim /\ data' = data
  BY DEF MakeCache, outside, Ops, Leaves
<1>2. \A e \in Ops : InputsOf(e)' = InputsOf(e)
  BY <1>1 DEF InputsOf
<1>3. cache' \in [Ops -> Nat]
  BY MakeCacheIs DEF Typed, MakeCache
<1>4. Typed'
  BY <1>1, <1>3 DEF Typed
<1>5. CachesTyped'
  <2>1. IsFiniteSet(DOMAIN caches') /\ DOMAIN caches' \subseteq Nat \ {NoCache}
    <3>1. IsFiniteSet(DOMAIN caches \cup {NewId})
      BY FS_AddElement DEF CachesTyped
    <3>2. DOMAIN caches' = DOMAIN caches \cup {NewId} /\ NewId \in Nat \ {NoCache}
      BY MakeCacheIs
    <3>3. DOMAIN caches \subseteq Nat \ {NoCache}
      BY DEF CachesTyped
    <3> QED
      BY <3>1, <3>2, <3>3
  <2>2. ASSUME NEW c \in DOMAIN caches'
        PROVE  CacheTyped(caches[c])' /\ Range(caches[c].from)' \subseteq DOMAIN caches'
    <3>1. \E k : caches'[c] = k /\ CacheTyped(k) /\ Range(k.from) \subseteq DOMAIN caches
      <4>1. CASE c = NewId
        BY <4>1, MakeCacheIs, NewCacheTyped
      <4>2. CASE c # NewId
        <5>1. c \in DOMAIN caches /\ caches'[c] = caches[c]
          BY <4>2, MakeCacheIs
        <5> QED
          BY <5>1 DEF CachesTyped
      <4> QED
        BY <4>1, <4>2
    <3>2. CacheTyped(caches'[c]) /\ Range(caches'[c].from) \subseteq DOMAIN caches
      BY <3>1
    <3>3. DOMAIN caches \subseteq DOMAIN caches'
      BY MakeCacheIs
    <3>4. CacheTyped(caches[c])'
      BY <1>1, <3>2, Zenon DEF CacheTyped
    <3>5. Range(caches[c].from)' = Range(caches'[c].from)
      BY Zenon DEF Range
    <3> QED
      BY <3>2, <3>3, <3>4, <3>5
  <2> QED
    BY <2>1, <2>2 DEF CachesTyped
<1>6. ShapesTyped'
  <2> SUFFICES ASSUME NEW e \in Ops
               PROVE  /\ ~ infoDirty[e] => \A m \in Range(InputsOf(e)) : m \in Ops => ~ infoDirty[m]
                      /\ ~ valid[e] => infoDirty[e]
                      /\ e \in fixed => ~ infoDirty[e] /\ cache'[e] = NoCache /\ info[e] = Atom(e)
                      /\ cache'[e] # NoCache => cache'[e] \in DOMAIN caches' /\ ~ infoDirty[e]
    BY <1>1, <1>2 DEF ShapesTyped, Known
  <2>1. cache'[e] = (IF e \in targets THEN NewId ELSE cache[e]) /\ DOMAIN caches' = DOMAIN caches \cup {NewId}
    BY MakeCacheIs
  <2>2. e \in targets => e \notin fixed /\ ~ infoDirty[e]
    BY DEF CanMake, HasNoCache, HasOp
  <2> QED
    BY <2>1, <2>2 DEF ShapesTyped, Known
<1> QED
  BY <1>4, <1>5, <1>6

(***************************************************************************)
(* What running sessions, and marking them dirty, does not change.         *)
(***************************************************************************)
SameLinks ==
  /\ DOMAIN caches' = DOMAIN caches
  /\ \A c \in DOMAIN caches :
       /\ DOMAIN caches'[c] = DOMAIN caches[c]
       /\ caches'[c].from = caches[c].from /\ caches'[c].leaves = caches[c].leaves
       /\ caches'[c].shapes = caches[c].shapes /\ DOMAIN caches'[c].held = DOMAIN caches[c].held
       /\ caches'[c].shapeDirty \in BOOLEAN /\ caches'[c].contentDirty \in BOOLEAN
       /\ caches'[c].needResize \in BOOLEAN

LEMMA SameCaches ==
  ASSUME CachesTyped, caches' = caches
  PROVE  SameLinks
BY DEF SameLinks, CachesTyped, CacheTyped

LEMMA ResizedIs ==
  ASSUME CachesTyped, NEW c \in DOMAIN caches
  PROVE  /\ DOMAIN Resized(c) = DOMAIN caches[c]
         /\ Resized(c).from = caches[c].from /\ Resized(c).leaves = caches[c].leaves
         /\ Resized(c).shapes = caches[c].shapes /\ Resized(c).held = caches[c].held
         /\ Resized(c).contentDirty = caches[c].contentDirty
         /\ Resized(c).shapeDirty = FALSE
         /\ Resized(c).needResize = IF caches[c].shapeDirty THEN memory = "short" ELSE caches[c].needResize
         /\ Resized(c).needResize \in BOOLEAN
<1>1. CacheTyped(caches[c])
  BY DEF CachesTyped
<1>2. CASE caches[c].shapeDirty
  BY <1>1, <1>2 DEF Resized, CacheTyped
<1>3. CASE ~ caches[c].shapeDirty
  BY <1>1, <1>3 DEF Resized, CacheTyped
<1> QED
  BY <1>2, <1>3

LEMMA RanHeld ==
  ASSUME CachesTyped, NEW c, NEW ran, NEW over, caches' = Ran(c, ran, over), NEW j \in DOMAIN caches, j \in ran
  PROVE  caches'[j].held = [m \in DOMAIN caches[j].held |-> Contents(ran, over)[m][j]]
<1> DEFINE r == Resized(j)
           new == [m \in DOMAIN r.held |-> Contents(ran, over)[m][j]]
<1>1. caches'[j] = [r EXCEPT !.contentDirty = FALSE, !.held = new]
  BY Zenon DEF Ran
<1>2. CacheTyped(caches[j])
  BY DEF CachesTyped
<1>3. r.held = caches[j].held /\ DOMAIN r = DOMAIN caches[j]
  BY ResizedIs
<1>4. "held" \in DOMAIN r
  BY <1>2, <1>3 DEF CacheTyped
<1>5. new = [m \in DOMAIN caches[j].held |-> Contents(ran, over)[m][j]]
  BY <1>3
<1> HIDE DEF r, new
<1>6. caches'[j].held = new
  BY <1>1, <1>4
<1> QED
  BY <1>5, <1>6

LEMMA RanIs ==
  ASSUME CachesTyped, NEW c, NEW ran, NEW over, caches' = Ran(c, ran, over)
  PROVE  /\ SameLinks
         /\ \A k \in DOMAIN caches :
              /\ k \in ran => ~ caches'[k].contentDirty
                              /\ \A m \in DOMAIN caches[k].held : caches'[k].held[m] = Contents(ran, over)[m][k]
              /\ k \notin ran => caches'[k].contentDirty = caches[k].contentDirty /\ caches'[k].held = caches[k].held
              /\ k \in ran \cup Stale(c) => caches'[k].shapeDirty = FALSE /\ caches'[k].needResize = Resized(k).needResize
              /\ k \notin ran \cup Stale(c) => caches'[k] = caches[k]
<1>1. DOMAIN caches' = DOMAIN caches
  BY DEF Ran
<1>2. ASSUME NEW k \in DOMAIN caches
      PROVE  /\ DOMAIN caches'[k] = DOMAIN caches[k]
             /\ caches'[k].from = caches[k].from /\ caches'[k].leaves = caches[k].leaves
             /\ caches'[k].shapes = caches[k].shapes /\ DOMAIN caches'[k].held = DOMAIN caches[k].held
             /\ caches'[k].shapeDirty \in BOOLEAN /\ caches'[k].contentDirty \in BOOLEAN
             /\ caches'[k].needResize \in BOOLEAN
             /\ k \in ran => ~ caches'[k].contentDirty
                             /\ \A m \in DOMAIN caches[k].held : caches'[k].held[m] = Contents(ran, over)[m][k]
             /\ k \notin ran => caches'[k].contentDirty = caches[k].contentDirty /\ caches'[k].held = caches[k].held
             /\ k \in ran \cup Stale(c) => caches'[k].shapeDirty = FALSE /\ caches'[k].needResize = Resized(k).needResize
             /\ k \notin ran \cup Stale(c) => caches'[k] = caches[k]
  <2>1. CacheTyped(caches[k])
    BY DEF CachesTyped
  <2>2. CASE k \in ran
    <3>1. caches'[k] = [Resized(k) EXCEPT !.contentDirty = FALSE,
                          !.held = [m \in DOMAIN Resized(k).held |-> Contents(ran, over)[m][k]]]
      BY <2>2 DEF Ran
    <3> DEFINE r == Resized(k)
               new == [m \in DOMAIN r.held |-> Contents(ran, over)[m][k]]
               j == [r EXCEPT !.contentDirty = FALSE, !.held = new]
    <3>2. /\ DOMAIN r = DOMAIN caches[k] /\ r.held = caches[k].held /\ r.from = caches[k].from
          /\ r.leaves = caches[k].leaves /\ r.shapes = caches[k].shapes
          /\ r.shapeDirty = FALSE /\ r.needResize \in BOOLEAN
          /\ DOMAIN r = {"shapeDirty", "contentDirty", "needResize", "shapes", "held", "from", "leaves"}
      BY <2>1, ResizedIs DEF CacheTyped
    <3>3. DOMAIN new = DOMAIN caches[k].held /\ \A m \in DOMAIN caches[k].held : new[m] = Contents(ran, over)[m][k]
      BY <3>2
    <3> HIDE DEF r, new
    <3>4. /\ DOMAIN j = DOMAIN r /\ j.from = r.from /\ j.leaves = r.leaves /\ j.shapes = r.shapes
          /\ j.shapeDirty = r.shapeDirty /\ j.needResize = r.needResize
          /\ j.contentDirty = FALSE /\ j.held = new
      BY <3>2
    <3>5. caches'[k] = j
      BY <3>1 DEF r, new
    <3> HIDE DEF j
    <3>6. /\ DOMAIN caches'[k] = DOMAIN caches[k] /\ caches'[k].from = caches[k].from
          /\ caches'[k].leaves = caches[k].leaves /\ caches'[k].shapes = caches[k].shapes
          /\ caches'[k].shapeDirty = FALSE /\ caches'[k].needResize = r.needResize
          /\ caches'[k].contentDirty = FALSE /\ caches'[k].held = new
      BY <3>2, <3>4, <3>5
    <3> QED
      BY <2>2, <3>2, <3>3, <3>6 DEF r
  <2>3. CASE k \notin ran /\ k \in Stale(c)
    <3>1. caches'[k] = Resized(k)
      BY <2>3 DEF Ran
    <3> QED
      BY <2>1, <2>3, <3>1, ResizedIs DEF CacheTyped
  <2>4. CASE k \notin ran /\ k \notin Stale(c)
    <3>1. caches'[k] = caches[k]
      BY <2>4 DEF Ran
    <3> QED
      BY <2>1, <2>4, <3>1 DEF CacheTyped
  <2> QED
    BY <2>2, <2>3, <2>4
<1> QED
  BY <1>1, <1>2 DEF SameLinks

LEMMA RunsSame ==
  ASSUME CachesTyped, NEW c, NEW ran, Runs(c, ran)
  PROVE  SameLinks
BY RanIs, Zenon DEF Runs

LEMMA ComputeSame ==
  ASSUME CachesTyped, NEW c, Computes(c) \/ Stops(c)
  PROVE  SameLinks
BY RunsSame, SameCaches DEF Computes, Stops

LEMMA SameLinksKeep ==
  ASSUME Typed, CachesTyped, ShapesTyped, SameLinks, UNCHANGED <<graph, fixed, kept>>
  PROVE  CachesTyped' /\ ShapesTyped'
<1>1. Ops' = Ops /\ Leaves' = Leaves /\ fixed' = fixed /\ graph' = graph /\ infoDirty' = infoDirty
      /\ valid' = valid /\ info' = info /\ cache' = cache
  BY DEF kept, Ops, Leaves
<1>2. \A e \in Ops : InputsOf(e)' = InputsOf(e)
  BY <1>1 DEF InputsOf
<1>3. DOMAIN caches' = DOMAIN caches
  BY DEF SameLinks
<1>4. ASSUME NEW c \in DOMAIN caches
      PROVE  CacheTyped(caches[c])' /\ Range(caches[c].from)' \subseteq DOMAIN caches
  <2>1. /\ CacheTyped(caches[c]) /\ Range(caches[c].from) \subseteq DOMAIN caches
        /\ DOMAIN caches'[c] = DOMAIN caches[c]
        /\ caches'[c].from = caches[c].from /\ caches'[c].leaves = caches[c].leaves
        /\ DOMAIN caches'[c].held = DOMAIN caches[c].held
        /\ caches'[c].shapeDirty \in BOOLEAN /\ caches'[c].contentDirty \in BOOLEAN
        /\ caches'[c].needResize \in BOOLEAN
    BY DEF SameLinks, CachesTyped
  <2>2. CacheTyped(caches[c])'
    BY <1>1, <2>1 DEF CacheTyped
  <2>3. Range(caches[c].from)' = Range(caches[c].from)
    BY <2>1 DEF Range
  <2> QED
    BY <2>1, <2>2, <2>3
<1>5. CachesTyped'
  BY <1>3, <1>4 DEF CachesTyped
<1>6. ShapesTyped'
  BY <1>1, <1>2, <1>3 DEF ShapesTyped, Known
<1> QED
  BY <1>5, <1>6

LEMMA RestartTyped ==
  ASSUME Typed, NEW es, NEW f, CanRestart(es, f), Restarts(es, f),
         dim' = [l \in Leaves |-> dim'[l]], data' = [l \in Leaves |-> data'[l]]
  PROVE  Typed'
<1>1. Ops' = Ops /\ Leaves' = Leaves /\ graph' = graph
  BY DEF Restarts, Ops, Leaves
<1>2. infoDirty' \in [Ops -> BOOLEAN] /\ valid' \in [Ops -> BOOLEAN] /\ info' = [e \in Ops |-> info'[e]]
  BY DEF Restarts, Typed
<1>3. cache' \in [Ops -> Nat]
  BY DEF Restarts, Typed, NoCache
<1>4. fixed' \subseteq Ops
  BY DEF Restarts, CanRestart, Typed
<1> QED
  BY <1>1, <1>2, <1>3, <1>4 DEF Typed

LEMMA SetInfoDirtyRestarts ==
  ASSUME NEW es, SetInfoDirty(es), graph' = graph, fixed' = fixed
  PROVE  Restarts(es, {})
<1>1. es \cup {} = es /\ fixed \cup {} = fixed
  OBVIOUS
<1>2. info' = [m \in Ops |-> IF m \in {} THEN Atom(m) ELSE IF m \in es THEN Null ELSE info[m]]
  BY DEF SetInfoDirty
<1> QED
  BY <1>1, <1>2, Zenon DEF SetInfoDirty, Restarts

LEMMA FixRestarts ==
  ASSUME Fix
  PROVE  Restarts(Outputs(call.of, Ops), {call.of})
<1> DEFINE e == call.of
           es == Outputs(e, Ops)
<1>1. graph' = graph /\ fixed' = fixed \cup {e}
      /\ infoDirty' = [m \in Ops |-> m \in es \/ infoDirty[m]]
      /\ valid' = [m \in Ops |-> m \in es \/ valid[m]]
      /\ info' = [m \in Ops |-> IF m = e THEN Atom(e) ELSE IF m \in es THEN Null ELSE info[m]]
      /\ cache' = [m \in Ops |-> IF m \in es \cup {e} THEN NoCache ELSE cache[m]]
      /\ caches' = Used([m \in Ops |-> IF m \in es \cup {e} THEN NoCache ELSE cache[m]])
  BY Zenon DEF Fix
<1>2. [m \in Ops |-> IF m = e THEN Atom(e) ELSE IF m \in es THEN Null ELSE info[m]]
        = [m \in Ops |-> IF m \in {e} THEN Atom(m) ELSE IF m \in es THEN Null ELSE info[m]]
  OBVIOUS
<1> QED
  BY <1>1, <1>2, Zenon DEF Restarts

(***************************************************************************)
(* Asking for a shape.                                                     *)
(***************************************************************************)
LEMMA AskedDirty ==
  ASSUME Typed, HasOp(call.of), ~ Known(call.of)
  PROVE  \A x \in Asked : x \in Ops /\ infoDirty[x]
<1> DEFINE next == [e \in Ops |-> Asks(e)]
           T == {x \in Ops : infoDirty[x]}
<1>1. call.of \in T
  BY DEF HasOp, Known
<1>2. \A x \in T : next[x] \subseteq T
  <2> SUFFICES ASSUME NEW x \in T, NEW m \in Asks(x) PROVE m \in T
    OBVIOUS
  <2>1. m \in Range(InputsOf(x)) /\ ~ Known(m)
    BY DEF Asks, Pending, Range
  <2> QED
    BY <2>1 DEF Known
<1>3. Reached(Ops, {call.of}, next) \subseteq T
  <2>1. T \in SUBSET Ops /\ {call.of} \subseteq T
    BY <1>1
  <2> HIDE DEF T, next
  <2> QED
    BY <1>2, <2>1, ReachedLeast
<1> QED
  BY <1>3 DEF Asked

LEMMA AllKnown ==
  ASSUME Typed, NEW e \in Ops, valid[e], Asks(e) = {}
  PROVE  \A m \in Range(InputsOf(e)) : Known(m)
<1>1. Pending(e) \in SUBSET Nat
  BY Links DEF Pending
<1>2. Pending(e) = {}
  <2> SUFFICES ASSUME Pending(e) # {} PROVE FALSE
    OBVIOUS
  <2>1. PICK i \in Pending(e) : \A j \in Pending(e) : i <= j
    BY <1>1, LeastNumber
  <2>2. InputsOf(e)[i] \in Asks(e)
    BY <2>1 DEF Asks
  <2> QED
    BY <2>2
<1> QED
  BY <1>2 DEF Pending, Range

LEMMA AskedFacts ==
  ASSUME WellFormed, NEW e, IsAsked(e)
  PROVE  /\ call.do = "ask" /\ HasOp(call.of) /\ e \in Ops /\ infoDirty[e] /\ e \notin fixed
         /\ \A x \in Asked : x \in Ops /\ infoDirty[x]
         /\ valid[e] => \A m \in Range(InputsOf(e)) : Known(m)
<1>1. call.do = "ask" /\ HasOp(call.of) /\ ~ Known(call.of) /\ e \in Asked /\ Asks(e) = {}
  BY DEF IsAsked, WellFormed, CallTyped
<1>2. \A x \in Asked : x \in Ops /\ infoDirty[x]
  BY <1>1, AskedDirty DEF WellFormed
<1>3. e \notin fixed
  BY <1>1, <1>2 DEF WellFormed, ShapesTyped
<1> QED
  BY <1>1, <1>2, <1>3, AllKnown DEF WellFormed

(***************************************************************************)
(* Every step keeps the graph well-formed.                                 *)
(***************************************************************************)
LEMMA FailKeeps ==
  ASSUME Typed, CachesTyped, ShapesTyped, SameLinks, NEW es, \A x \in es : x \in Ops => infoDirty[x],
         Fail(es)
  PROVE  Typed' /\ CachesTyped' /\ ShapesTyped' /\ CallTyped'
<1>1. /\ Ops' = Ops /\ Leaves' = Leaves /\ fixed' = fixed /\ graph' = graph /\ dim' = dim /\ data' = data
      /\ infoDirty' = infoDirty /\ info' = info /\ cache' = cache
      /\ valid' = [e \in Ops |-> valid[e] /\ e \notin es]
  BY DEF Fail, outside, Ops, Leaves
<1>2. \A e \in Ops : InputsOf(e)' = InputsOf(e)
  BY <1>1 DEF InputsOf
<1>3. DOMAIN caches' = DOMAIN caches
  BY DEF SameLinks
<1>4. valid' \in [Ops -> BOOLEAN]
  BY <1>1
<1>5. Typed'
  BY <1>1, <1>4 DEF Typed
<1>6. ASSUME NEW c \in DOMAIN caches
      PROVE  CacheTyped(caches[c])' /\ Range(caches[c].from)' \subseteq DOMAIN caches
  <2>1. /\ CacheTyped(caches[c]) /\ Range(caches[c].from) \subseteq DOMAIN caches
        /\ DOMAIN caches'[c] = DOMAIN caches[c]
        /\ caches'[c].from = caches[c].from /\ caches'[c].leaves = caches[c].leaves
        /\ DOMAIN caches'[c].held = DOMAIN caches[c].held
        /\ caches'[c].shapeDirty \in BOOLEAN /\ caches'[c].contentDirty \in BOOLEAN
        /\ caches'[c].needResize \in BOOLEAN
    BY DEF SameLinks, CachesTyped
  <2>2. CacheTyped(caches[c])'
    BY <1>1, <2>1 DEF CacheTyped
  <2>3. Range(caches[c].from)' = Range(caches[c].from)
    BY <2>1 DEF Range
  <2> QED
    BY <2>1, <2>2, <2>3
<1>7. CachesTyped'
  BY <1>3, <1>6 DEF CachesTyped
<1>8. ShapesTyped'
  <2> SUFFICES ASSUME NEW e \in Ops
               PROVE  /\ ~ infoDirty[e] => \A m \in Range(InputsOf(e)) : m \in Ops => ~ infoDirty[m]
                      /\ ~ valid'[e] => infoDirty[e]
                      /\ e \in fixed => ~ infoDirty[e] /\ cache[e] = NoCache /\ info[e] = Atom(e)
                      /\ cache[e] # NoCache => cache[e] \in DOMAIN caches /\ ~ infoDirty[e]
    BY <1>1, <1>2, <1>3 DEF ShapesTyped, Known
  <2>1. valid'[e] = (valid[e] /\ e \notin es)
    BY <1>1
  <2> QED
    BY <2>1 DEF ShapesTyped, Known
<1>9. CallTyped'
  BY DEF Fail, Failed, CallTyped
<1> QED
  BY <1>5, <1>7, <1>8, <1>9

LEMMA ComputeInfoKeeps ==
  ASSUME WellFormed, NEW e, IsAsked(e), valid[e],
         infoDirty' = [infoDirty EXCEPT ![e] = FALSE], NEW shape, info' = [info EXCEPT ![e] = shape],
         UNCHANGED <<outside, valid, cache, caches>>
  PROVE  Typed' /\ CachesTyped' /\ ShapesTyped'
<1>1. /\ Ops' = Ops /\ Leaves' = Leaves /\ fixed' = fixed /\ graph' = graph /\ dim' = dim /\ data' = data
      /\ valid' = valid /\ cache' = cache /\ caches' = caches
  BY DEF outside, Ops, Leaves
<1>2. e \in Ops /\ e \notin fixed /\ \A m \in Range(InputsOf(e)) : Known(m)
  BY AskedFacts
<1>3. /\ \A m \in Ops : infoDirty'[m] = (m # e /\ infoDirty[m])
      /\ infoDirty' \in [Ops -> BOOLEAN]
      /\ info' = [m \in Ops |-> info'[m]] /\ \A m \in Ops : m # e => info'[m] = info[m]
  BY <1>2 DEF WellFormed, Typed
<1>4. \A m \in Ops : InputsOf(m)' = InputsOf(m)
  BY <1>1 DEF InputsOf
<1>5. Typed'
  BY <1>1, <1>3 DEF WellFormed, Typed
<1>6. CachesTyped'
  BY <1>1, Zenon DEF WellFormed, CachesTyped, CacheTyped
<1>7. ShapesTyped'
  <2> SUFFICES ASSUME NEW x \in Ops
               PROVE  /\ ~ infoDirty'[x] => \A m \in Range(InputsOf(x)) : m \in Ops => ~ infoDirty'[m]
                      /\ ~ valid[x] => infoDirty'[x]
                      /\ x \in fixed => ~ infoDirty'[x] /\ cache[x] = NoCache /\ info'[x] = Atom(x)
                      /\ cache[x] # NoCache => cache[x] \in DOMAIN caches /\ ~ infoDirty'[x]
    BY <1>1, <1>4 DEF ShapesTyped, Known
  <2> QED
    BY <1>2, <1>3 DEF WellFormed, ShapesTyped, Known
<1> QED
  BY <1>5, <1>6, <1>7

LEMMA SameStays ==
  ASSUME WellFormed, UNCHANGED <<graph, fixed, kept, caches>>,
         dim' = [l \in Leaves |-> dim'[l]], data' = [l \in Leaves |-> data'[l]]
  PROVE  Typed' /\ CachesTyped' /\ ShapesTyped'
<1>1. SameLinks
  BY SameCaches DEF WellFormed
<1>2. CachesTyped' /\ ShapesTyped'
  BY <1>1, SameLinksKeep DEF WellFormed
<1>3. Typed'
  BY DEF WellFormed, Typed, kept, Ops, Leaves
<1> QED
  BY <1>2, <1>3

LEMMA SameLinksStay ==
  ASSUME WellFormed, UNCHANGED <<outside, kept>>, SameLinks
  PROVE  Typed' /\ CachesTyped' /\ ShapesTyped'
<1>1. CachesTyped' /\ ShapesTyped'
  BY SameLinksKeep DEF WellFormed, outside
<1>2. Typed'
  BY DEF WellFormed, Typed, kept, outside, Ops, Leaves
<1> QED
  BY <1>1, <1>2

LEMMA WellFormedInit ==
  ASSUME Init
  PROVE  WellFormed
<1>1. Typed
  BY DEF Init, Typed, NoCache
<1>2. CachesTyped
  <2>1. DOMAIN caches = {}
    BY DEF Init
  <2> QED
    BY <2>1, FS_EmptySet DEF CachesTyped
<1>3. ShapesTyped
  BY DEF Init, ShapesTyped
<1>4. CallTyped
  BY DEF Init, CallTyped, Nothing
<1> QED
  BY <1>1, <1>2, <1>3, <1>4 DEF WellFormed

\* What an application's change of a leaf, or a fix, makes start anew.
LEMMA LeafStep ==
  ASSUME WellFormed, NEW l \in Leaves, graph' = graph, fixed' = fixed, SetInfoDirty(DirtyOutputs(l)),
         dim' = [k \in Leaves |-> dim'[k]], data' = [k \in Leaves |-> data'[k]]
  PROVE  Typed' /\ CachesTyped' /\ ShapesTyped'
<1>1. CanRestart(DirtyOutputs(l), {}) /\ Restarts(DirtyOutputs(l), {})
  BY DirtyOutputsRestart, SetInfoDirtyRestarts DEF WellFormed
<1> QED
  BY <1>1, RestartKeeps, RestartTyped DEF WellFormed

LEMMA VisitStep ==
  ASSUME WellFormed, NEW e \in Ops, NEW i, VisitForShape(e, i)
  PROVE  /\ CanRestart(Clean({e}) \cup DirtyOutputs(e), {})
         /\ Restarts(Clean({e}) \cup DirtyOutputs(e), {})
         /\ Typed' /\ CachesTyped' /\ ShapesTyped'
<1>1. e \in Ops \ fixed
  BY Links DEF VisitForShape, IsVisited, WellFormed
<1>2. graph' = graph /\ fixed' = fixed /\ dim' = dim /\ data' = data
      /\ SetInfoDirty(Clean({e}) \cup DirtyOutputs(e))
  BY DEF VisitForShape, outside
<1>3. CanRestart(Clean({e}) \cup DirtyOutputs(e), {}) /\ Restarts(Clean({e}) \cup DirtyOutputs(e), {})
  BY <1>1, <1>2, VisitRestart, SetInfoDirtyRestarts DEF WellFormed
<1>4. dim' = [l \in Leaves |-> dim'[l]] /\ data' = [l \in Leaves |-> data'[l]]
  BY <1>2 DEF WellFormed, Typed
<1> QED
  BY <1>3, <1>4, RestartKeeps, RestartTyped DEF WellFormed

LEMMA FixStep ==
  ASSUME WellFormed, Fix
  PROVE  /\ CanRestart(Outputs(call.of, Ops), {call.of}) /\ Restarts(Outputs(call.of, Ops), {call.of})
         /\ Typed' /\ CachesTyped' /\ ShapesTyped'
<1>1. call.do = "have" /\ HasOp(call.of) /\ cache[call.of] # NoCache
  BY DEF Fix, WellFormed, CallTyped
<1>2. call.of \in Ops \ fixed /\ ~ infoDirty[call.of]
  BY <1>1 DEF HasOp, WellFormed, ShapesTyped
<1>3. CanRestart(Outputs(call.of, Ops), {call.of}) /\ Restarts(Outputs(call.of, Ops), {call.of})
  BY <1>2, FixRestart, FixRestarts DEF WellFormed
<1>4. dim' = [l \in Leaves |-> dim'[l]] /\ data' = [l \in Leaves |-> data'[l]]
  BY DEF WellFormed, Typed, Fix
<1> QED
  BY <1>3, <1>4, RestartKeeps, RestartTyped DEF WellFormed

LEMMA ContentVisitSame ==
  ASSUME WellFormed, NEW e \in Ops, NEW i, VisitForContent(e, i)
  PROVE  /\ SameLinks
         /\ \A c \in DOMAIN caches :
              IF c = cache[e] THEN caches'[c].contentDirty = TRUE ELSE caches'[c] = caches[c]
<1>1. caches' = [c \in DOMAIN caches |->
        IF c # cache[e] THEN caches[c]
        ELSE [caches[c] EXCEPT !.contentDirty = TRUE, !.held = [m \in DOMAIN caches[c].held |-> Null]]]
  BY DEF VisitForContent
<1>2. DOMAIN caches' = DOMAIN caches
  BY <1>1
<1>3. ASSUME NEW c \in DOMAIN caches
      PROVE  /\ DOMAIN caches'[c] = DOMAIN caches[c]
             /\ caches'[c].from = caches[c].from /\ caches'[c].leaves = caches[c].leaves
             /\ caches'[c].shapes = caches[c].shapes /\ DOMAIN caches'[c].held = DOMAIN caches[c].held
             /\ caches'[c].shapeDirty \in BOOLEAN /\ caches'[c].contentDirty \in BOOLEAN
             /\ caches'[c].needResize \in BOOLEAN
             /\ IF c = cache[e] THEN caches'[c].contentDirty = TRUE ELSE caches'[c] = caches[c]
  <2>1. CacheTyped(caches[c])
    BY DEF WellFormed, CachesTyped
  <2>2. CASE c = cache[e]
    <3> DEFINE r == caches[c]
               new == [m \in DOMAIN r.held |-> Null]
               j == [r EXCEPT !.contentDirty = TRUE, !.held = new]
    <3>1. caches'[c] = j
      BY <1>1, <2>2
    <3>2. DOMAIN new = DOMAIN r.held
      OBVIOUS
    <3>3. DOMAIN r = {"shapeDirty", "contentDirty", "needResize", "shapes", "held", "from", "leaves"}
          /\ r.shapeDirty \in BOOLEAN /\ r.needResize \in BOOLEAN
      BY <2>1 DEF CacheTyped
    <3> HIDE DEF r, new
    <3>4. /\ DOMAIN j = DOMAIN r /\ j.from = r.from /\ j.leaves = r.leaves /\ j.shapes = r.shapes
          /\ j.shapeDirty = r.shapeDirty /\ j.needResize = r.needResize
          /\ j.contentDirty = TRUE /\ j.held = new
      BY <3>3
    <3> HIDE DEF j
    <3> QED
      BY <2>2, <3>1, <3>2, <3>3, <3>4 DEF r
  <2>3. CASE c # cache[e]
    BY <1>1, <2>1, <2>3 DEF CacheTyped
  <2> QED
    BY <2>2, <2>3
<1> QED
  BY <1>2, <1>3 DEF SameLinks

LEMMA MakeForShape ==
  ASSUME WellFormed, NEW e, NEW i, MakeCacheForShape(e, i)
  PROVE  CanMake({InputsOf(e)[i]}) /\ MakeCache({InputsOf(e)[i]})
<1> DEFINE m == InputsOf(e)[i]
<1>1. IsAsked(e) /\ valid[e] /\ i \in DOMAIN InputsOf(e) /\ HasNoCache(m) /\ MakeCache({m})
  BY DEF MakeCacheForShape, IsRead, Wanted, HasNoCache
<1>2. m \in Range(InputsOf(e))
  BY <1>1 DEF Range
<1>3. Known(m) /\ m \in Ops
  BY <1>1, <1>2, AskedFacts DEF HasNoCache, HasOp
<1> QED
  BY <1>1, <1>3 DEF CanMake, Known

LEMMA MakeToRead ==
  ASSUME WellFormed, MakeCacheToRead
  PROVE  CanMake({call.of}) /\ MakeCache({call.of})
BY DEF MakeCacheToRead, WellFormed, CallTyped, CanMake, HasNoCache, HasOp, Known

LEMMA PrepareStep ==
  ASSUME WellFormed, NEW es, \A e \in es : HasOp(e), Prepare(es)
  PROVE  LET new == {e \in es : cache[e] = NoCache}
         IN  CanMake(new) /\ (new # {} => MakeCache(new))
BY DEF Prepare, CanMake, HasNoCache, HasOp, Known

LEMMA WellFormedNext ==
  ASSUME WellFormed, Next
  PROVE  WellFormed'
<1> USE DEF WellFormed
<1>1. ASSUME NEW l \in Leaves, NEW d \in Dims[l], Resize(l, d) PROVE WellFormed'
  <2>1. /\ graph' = graph /\ fixed' = fixed /\ SetInfoDirty(DirtyOutputs(l)) /\ call = Nothing /\ call' = call
        /\ dim' = [k \in Leaves |-> dim'[k]] /\ data' = [k \in Leaves |-> data'[k]]
    BY <1>1 DEF Resize, Typed
  <2> QED
    BY <2>1, LeafStep DEF CallTyped, Nothing
<1>2. ASSUME NEW l \in Leaves, NEW d \in Dims[l], NEW v \in Values, Input(l, d, v) PROVE WellFormed'
  <2>1. /\ graph' = graph /\ fixed' = fixed /\ SetInfoDirty(DirtyOutputs(l)) /\ call = Nothing /\ call' = call
        /\ dim' = [k \in Leaves |-> dim'[k]] /\ data' = [k \in Leaves |-> data'[k]]
    BY <1>2 DEF Input, Typed
  <2> QED
    BY <2>1, LeafStep DEF CallTyped, Nothing
<1>3. ASSUME NEW l \in Leaves, WriteMap(l) PROVE WellFormed'
  <2>1. Typed' /\ CachesTyped' /\ ShapesTyped'
    BY <1>3, SameStays DEF WriteMap, outside, Typed
  <2>2. CallTyped'
    BY <1>3 DEF WriteMap, CallTyped, Informing, outside, Leaves
  <2> QED
    BY <2>1, <2>2
<1>4. ASSUME NEW e \in Ops, NEW i \in DOMAIN graph.in[e], VisitForShape(e, i) PROVE WellFormed'
  <2>1. Typed' /\ CachesTyped' /\ ShapesTyped'
    BY <1>4, VisitStep
  <2>2. CallTyped'
    BY <1>4 DEF VisitForShape, IsVisited, CallTyped, Informing, outside, Leaves
  <2> QED
    BY <2>1, <2>2
<1>5. ASSUME NEW e \in Ops, NEW i \in DOMAIN graph.in[e], VisitForContent(e, i) PROVE WellFormed'
  <2>1. Typed' /\ CachesTyped' /\ ShapesTyped'
    BY <1>5, ContentVisitSame, SameLinksStay DEF VisitForContent
  <2>2. CallTyped'
    BY <1>5 DEF VisitForContent, IsVisited, CallTyped, Informing, outside, Leaves
  <2> QED
    BY <2>1, <2>2
<1>6. ASSUME NEW e \in Ops, NEW i \in DOMAIN graph.in[e], VisitForNothing(e, i) PROVE WellFormed'
  <2>1. Typed' /\ CachesTyped' /\ ShapesTyped'
    BY <1>6, SameStays DEF VisitForNothing, outside, Typed
  <2>2. CallTyped'
    BY <1>6 DEF VisitForNothing, IsVisited, CallTyped, Informing, outside, Leaves
  <2> QED
    BY <2>1, <2>2
<1>7. ASSUME NEW v \in Values, Write(v) PROVE WellFormed'
  <2>1. dim' = [k \in Leaves |-> dim'[k]] /\ data' = [k \in Leaves |-> data'[k]]
    BY <1>7 DEF Write, Typed
  <2>2. Typed' /\ CachesTyped' /\ ShapesTyped'
    BY <1>7, <2>1, SameStays DEF Write
  <2>3. CallTyped'
    BY <1>7 DEF Write, CallTyped, Nothing
  <2> QED
    BY <2>2, <2>3
<1>8. ASSUME NEW e \in Ops, HasOp(e) /\ Ask(e) PROVE WellFormed'
  <2>1. Typed' /\ CachesTyped' /\ ShapesTyped'
    BY <1>8, SameStays DEF Ask, outside, Typed
  <2>2. CallTyped'
    BY <1>8 DEF Ask, CallTyped, Asking, HasOp, outside, Ops
  <2> QED
    BY <2>1, <2>2
<1>9. ASSUME NEW e \in Ops, Refuse(e) PROVE WellFormed'
  <2>1. Fail(Asked) /\ SameLinks /\ \A x \in Asked : infoDirty[x]
    BY <1>9, AskedFacts, SameCaches DEF Refuse
  <2> QED
    BY <2>1, FailKeeps
<1>10. ASSUME NEW e \in Ops, ComputeInfo(e) PROVE WellFormed'
  <2>1. CASE \E m \in Range(InputsOf(e)) : InfoOf(m) = << 0 >>
    <3>1. Fail(Asked) /\ SameLinks /\ \A x \in Asked : infoDirty[x]
      BY <1>10, <2>1, AskedFacts, SameCaches DEF ComputeInfo
    <3> QED
      BY <3>1, FailKeeps
  <2>2. CASE ~ \E m \in Range(InputsOf(e)) : InfoOf(m) = << 0 >>
    <3>1. Typed' /\ CachesTyped' /\ ShapesTyped'
      BY <1>10, <2>2, ComputeInfoKeeps DEF ComputeInfo
    <3>2. CallTyped'
      BY <1>10, <2>2, AskedFacts DEF ComputeInfo, CallTyped, Asking, HasOp, outside, Ops
    <3> QED
      BY <3>1, <3>2
  <2> QED
    BY <2>1, <2>2
<1>11. ASSUME NEW e \in Ops, ComputeOne(e) PROVE WellFormed'
  <2>1. Typed' /\ CachesTyped' /\ ShapesTyped'
    BY <1>11, ComputeSame, SameLinksStay DEF ComputeOne
  <2>2. CallTyped'
    BY <1>11 DEF ComputeOne, CallTyped, Computing, Nothing, HasOp, outside, kept, Ops
  <2> QED
    BY <2>1, <2>2
<1>12. ASSUME NEW e \in Ops, NEW i \in DOMAIN graph.in[e], ReadConstant(e, i) PROVE WellFormed'
  <2> DEFINE m == InputsOf(e)[i]
             content == IF m \in Leaves THEN data[m] ELSE Constant(m, m \in overwritten)
  <2>1. IsAsked(e) /\ caches' = caches
        /\ IF content = Null THEN Fail(Asked \ {e}) ELSE Got(m, content) /\ UNCHANGED <<outside, kept>>
    BY <1>12 DEF ReadConstant, IsRead
  <2>2. SameLinks
    BY <2>1, SameCaches
  <2>3. CASE content = Null
    <3>1. Fail(Asked \ {e}) /\ \A x \in Asked \ {e} : infoDirty[x]
      BY <2>1, <2>3, AskedFacts
    <3> QED
      BY <2>2, <3>1, FailKeeps
  <2>4. CASE content # Null
    <3>1. Got(m, content) /\ UNCHANGED <<outside, kept>>
      BY <2>1, <2>4
    <3>2. Typed' /\ CachesTyped' /\ ShapesTyped'
      BY <2>2, <3>1, SameLinksStay
    <3>3. CallTyped'
      BY <2>1, <3>1, AskedFacts DEF Got, CallTyped, Asking, HasOp, outside, Ops
    <3> QED
      BY <3>2, <3>3
  <2> QED
    BY <2>3, <2>4
<1>13. ASSUME NEW e \in Ops, NEW i \in DOMAIN graph.in[e], MakeCacheForShape(e, i) PROVE WellFormed'
  <2>1. Typed' /\ CachesTyped' /\ ShapesTyped'
    BY <1>13, MakeForShape, MakeCacheKeeps
  <2>2. CallTyped'
    <3>1. call' = call /\ fixed' = fixed /\ graph' = graph /\ call.do = "ask" /\ HasOp(call.of)
      BY <1>13, AskedFacts DEF MakeCacheForShape, MakeCache, outside, IsRead
    <3> QED
      BY <3>1 DEF CallTyped, HasOp, Ops
  <2> QED
    BY <2>1, <2>2
<1>14. ASSUME NEW e \in Ops, NEW i \in DOMAIN graph.in[e], ReadForShape(e, i) PROVE WellFormed'
  <2> DEFINE m == InputsOf(e)[i]
  <2>1. /\ IsAsked(e)
        /\ \/ Computes(cache[m]) /\ Got(m, caches'[cache[m]].held[m]) /\ UNCHANGED <<outside, kept>>
           \/ Stops(cache[m]) /\ Fail(Asked \ {e})
    BY <1>14 DEF ReadForShape, IsRead
  <2>2. SameLinks
    BY <2>1, ComputeSame
  <2>3. CASE Got(m, caches'[cache[m]].held[m]) /\ UNCHANGED <<outside, kept>>
    <3>1. Typed' /\ CachesTyped' /\ ShapesTyped'
      BY <2>2, <2>3, SameLinksStay
    <3>2. CallTyped'
      BY <2>1, <2>3, AskedFacts DEF Got, CallTyped, Asking, HasOp, outside, Ops
    <3> QED
      BY <3>1, <3>2
  <2>4. CASE Fail(Asked \ {e})
    <3>1. \A x \in Asked \ {e} : infoDirty[x]
      BY <2>1, AskedFacts
    <3> QED
      BY <2>2, <2>4, <3>1, FailKeeps
  <2> QED
    BY <2>1, <2>3, <2>4
<1>15. ASSUME MakeCacheToRead PROVE WellFormed'
  <2>1. Typed' /\ CachesTyped' /\ ShapesTyped'
    BY <1>15, MakeToRead, MakeCacheKeeps
  <2>2. CallTyped'
    <3>1. call' = call /\ fixed' = fixed /\ graph' = graph /\ call.do = "ask"
      BY <1>15 DEF MakeCacheToRead, MakeCache, outside
    <3> QED
      BY <3>1 DEF CallTyped, HasOp, Ops
  <2> QED
    BY <2>1, <2>2
<1>16. ASSUME Read PROVE WellFormed'
  <2>1. Typed' /\ CachesTyped' /\ ShapesTyped'
    BY <1>16, ComputeSame, SameLinksStay DEF Read
  <2>2. CallTyped'
    BY <1>16 DEF Read, CallTyped, Having, Failed, HasOp, outside, kept, Ops
  <2> QED
    BY <2>1, <2>2
<1>17. ASSUME Return PROVE WellFormed'
  <2>1. Typed' /\ CachesTyped' /\ ShapesTyped'
    BY <1>17, SameStays DEF Return, outside, Typed
  <2>2. CallTyped'
    BY <1>17 DEF Return, CallTyped, Nothing
  <2> QED
    BY <2>1, <2>2
<1>18. ASSUME Fix PROVE WellFormed'
  <2>1. CallTyped'
    BY <1>18 DEF Fix, CallTyped, Nothing
  <2> QED
    BY <1>18, <2>1, FixStep
<1>19. ASSUME NEW es \in SUBSET {e \in Ops : HasOp(e)}, es # {} /\ Prepare(es) PROVE WellFormed'
  <2> DEFINE new == {e \in es : cache[e] = NoCache}
  <2>1. CanMake(new) /\ (new # {} => MakeCache(new))
    BY <1>19, PrepareStep
  <2>2. CASE new = {}
    <3>1. Typed' /\ CachesTyped' /\ ShapesTyped'
      BY <1>19, <2>2, SameStays DEF Prepare, outside, Typed
    <3>2. CallTyped'
      BY <1>19, <2>2 DEF Prepare, CallTyped, Computing, HasOp, outside, kept, Ops
    <3> QED
      BY <3>1, <3>2
  <2>3. CASE new # {}
    <3>1. MakeCache(new)
      BY <2>1, <2>3
    <3>2. Typed' /\ CachesTyped' /\ ShapesTyped'
      BY <2>1, <3>1, MakeCacheKeeps
    <3>3. call' = Computing(es) /\ fixed' = fixed /\ graph' = graph
      BY <1>19, <3>1 DEF Prepare, MakeCache, outside
    <3>4. \A e \in es : cache'[e] # NoCache
      BY <2>1, <3>1, MakeCacheIs
    <3>5. CallTyped'
      BY <1>19, <3>3, <3>4 DEF CallTyped, Computing, HasOp, Ops
    <3> QED
      BY <3>2, <3>5
  <2> QED
    BY <2>2, <2>3
<1>20. ASSUME LoseMemory \/ RegainMemory PROVE WellFormed'
  <2>1. UNCHANGED <<graph, dim, data, fixed, kept, caches, call>> /\ call = Nothing
    BY <1>20 DEF LoseMemory, RegainMemory
  <2>2. Typed' /\ CachesTyped' /\ ShapesTyped'
    BY <2>1, SameStays DEF Typed
  <2>3. CallTyped'
    BY <2>1 DEF CallTyped, Nothing
  <2> QED
    BY <2>2, <2>3
<1> HIDE DEF WellFormed
<1> QED
  BY <1>1, <1>2, <1>3, <1>4, <1>5, <1>6, <1>7, <1>8, <1>9, <1>10, <1>11, <1>12, <1>13, <1>14,
     <1>15, <1>16, <1>17, <1>18, <1>19, <1>20 DEF Next

LEMMA WellFormedStays ==
  ASSUME WellFormed, UNCHANGED vars
  PROVE  WellFormed'
<1>1. UNCHANGED <<graph, dim, data, fixed, kept, caches, call>>
  BY DEF vars, outside
<1>2. Typed' /\ CachesTyped' /\ ShapesTyped'
  BY <1>1, SameStays DEF WellFormed, Typed
<1>3. CallTyped'
  BY <1>1 DEF WellFormed, CallTyped, HasOp, Ops, Leaves, kept
<1> QED
  BY <1>2, <1>3 DEF WellFormed

\* Every variable keeps its type; a shape is only known where those of the inputs
\* are, requireInfo having asked for them; what was refused has no shape; and a
\* cache that an operator refers to exists, as do those it was built on.
THEOREM WellFormedAlways == Spec => []WellFormed
<1>1. Init => WellFormed
  BY WellFormedInit
<1>2. WellFormed /\ [Next]_vars => WellFormed'
  BY WellFormedNext, WellFormedStays
<1> QED
  BY <1>1, <1>2, PTL DEF Spec

\* Expr::setInfoDirty may stop at an operator that is dirty: what uses it is dirty
\* as well, and none of that has a cache.
THEOREM DirtIsAlwaysClosed == Spec => []DirtIsClosed
<1>1. WellFormed => DirtIsClosed
  <2> SUFFICES ASSUME WellFormed, NEW e \in Ops, InfoIsDirty(e)
               PROVE  cache[e] = NoCache /\ \A f \in Consumers(e) : infoDirty[f] /\ cache[f] = NoCache
    BY DEF DirtIsClosed
  <2>1. infoDirty[e]
    BY DEF InfoIsDirty
  <2>2. \A f \in Consumers(e) : f \in Ops /\ e \in Range(InputsOf(f))
    BY DEF Consumers
  <2>3. \A f \in Consumers(e) : f \in Ops /\ infoDirty[f]
    BY <2>1, <2>2 DEF WellFormed, ShapesTyped, Known
  <2> QED
    BY <2>1, <2>3 DEF WellFormed, ShapesTyped
<1> QED
  BY <1>1, WellFormedAlways, PTL

(***************************************************************************)
(* The graph computed anew, before and after a change.                     *)
(***************************************************************************)
LEMMA AnewParts ==
  ASSUME NEW g, Consistent(g), NEW sizes, NEW contents, NEW constants, NEW A,
         A = Anew(g, sizes, contents, constants), NEW n \in NodesOf(g)
  PROVE  /\ n \in 1 .. g.leaves => A[n].info = <<sizes[n]>> /\ A[n].content = contents[n]
         /\ n \notin 1 .. g.leaves /\ n \in constants => A[n].info = Atom(n) /\ A[n].content = Atom(n)
         /\ n \notin 1 .. g.leaves /\ n \notin constants =>
              A[n].info = Shape(g, A, n) /\ A[n].content = Content(g, A, n, A[n].info)
<1>1. A[n] = Rule(g, sizes, contents, constants, A, n)
  BY AnewIs
<1> HIDE DEF Shape, Content
<1>2. CASE n \in 1 .. g.leaves
  <2>1. A[n] = [info |-> <<sizes[n]>>, content |-> contents[n]]
    BY <1>1, <1>2 DEF Rule
  <2> QED
    BY <1>2, <2>1
<1>3. CASE n \notin 1 .. g.leaves /\ n \in constants
  <2>1. A[n] = [info |-> Atom(n), content |-> Atom(n)]
    BY <1>1, <1>3 DEF Rule
  <2> QED
    BY <1>3, <2>1
<1>4. CASE n \notin 1 .. g.leaves /\ n \notin constants
  <2>1. A[n] = [info |-> Shape(g, A, n), content |-> Content(g, A, n, Shape(g, A, n))]
    BY <1>1, <1>4 DEF Rule
  <2> QED
    BY <1>4, <2>1
<1> QED
  BY <1>2, <1>3, <1>4

\* The shapes of DI and the contents of DC do not change when nothing they are
\* computed from does.
SameBase(g, s, t, c, d, k, m, DI, DC) ==
  /\ DI \subseteq NodesOf(g) /\ DC \subseteq DI
  /\ \A n \in DI : n \in 1 .. g.leaves => s[n] = t[n]
  /\ \A n \in DC : n \in 1 .. g.leaves => c[n] = d[n]
  /\ \A n \in DI : n \in DOMAIN g.in => (n \in k <=> n \in m)
  /\ \A n \in DI : n \in DOMAIN g.in /\ n \notin k =>
       /\ \A i \in DOMAIN g.in[n] : g.in[n][i] \in DI
       /\ \A i \in g.shape[n] : g.in[n][i] \in DC
  /\ \A n \in DC : n \in DOMAIN g.in /\ n \notin k => \A i \in g.content[n] : g.in[n][i] \in DC

LEMMA SameParts ==
  ASSUME NEW g, Consistent(g), NEW s, NEW t, NEW c, NEW d, NEW k, NEW m, NEW DI, NEW DC,
         SameBase(g, s, t, c, d, k, m, DI, DC)
  PROVE  /\ \A n \in DI : Anew(g, s, c, k)[n].info = Anew(g, t, d, m)[n].info
         /\ \A n \in DC : Anew(g, s, c, k)[n].content = Anew(g, t, d, m)[n].content
<1> DEFINE A == Anew(g, s, c, k)
           B == Anew(g, t, d, m)
           Bad == {n \in DI : A[n].info # B[n].info \/ (n \in DC /\ A[n].content # B[n].content)}
<1> USE DEF SameBase
<1>1. SUFFICES ASSUME Bad # {} PROVE FALSE
  OBVIOUS
<1>2. Bad \in SUBSET Nat
  BY GraphFacts
<1>3. PICK n \in Bad : \A x \in Bad : n <= x
  BY <1>1, <1>2, LeastNumber
<1>4. n \in DI /\ n \in NodesOf(g) /\ (A[n].info # B[n].info \/ (n \in DC /\ A[n].content # B[n].content))
  OBVIOUS
<1>5. /\ n \in 1 .. g.leaves => A[n].info = <<s[n]>> /\ A[n].content = c[n]
      /\ n \notin 1 .. g.leaves /\ n \in k => A[n].info = Atom(n) /\ A[n].content = Atom(n)
      /\ n \notin 1 .. g.leaves /\ n \notin k =>
           A[n].info = Shape(g, A, n) /\ A[n].content = Content(g, A, n, A[n].info)
  BY <1>4, AnewParts
<1>6. /\ n \in 1 .. g.leaves => B[n].info = <<t[n]>> /\ B[n].content = d[n]
      /\ n \notin 1 .. g.leaves /\ n \in m => B[n].info = Atom(n) /\ B[n].content = Atom(n)
      /\ n \notin 1 .. g.leaves /\ n \notin m =>
           B[n].info = Shape(g, B, n) /\ B[n].content = Content(g, B, n, B[n].info)
  BY <1>4, AnewParts
<1>7. CASE n \in 1 .. g.leaves
  BY <1>4, <1>5, <1>6, <1>7
<1>8. CASE n \notin 1 .. g.leaves
  <2>1. n \in DOMAIN g.in /\ (n \in k <=> n \in m)
    BY <1>4, <1>8 DEF NodesOf
  <2>2. CASE n \in k
    BY <1>4, <1>5, <1>6, <1>8, <2>1, <2>2
  <2>3. CASE n \notin k
    <3>1. /\ \A i \in DOMAIN g.in[n] : g.in[n][i] \in DI /\ g.in[n][i] < n
          /\ \A i \in g.shape[n] : g.in[n][i] \in DC
          /\ n \in DC => \A i \in g.content[n] : g.in[n][i] \in DC
          /\ g.content[n] \subseteq DOMAIN g.in[n] /\ g.shape[n] \subseteq DOMAIN g.in[n]
      BY <1>4, <2>1, <2>3, GraphFacts
    <3>2. \A x \in DI : x < n => x \notin Bad
      <4>1. \A x \in DI : x \in Nat
        BY GraphFacts
      <4>2. n \in Nat /\ n \in DI
        BY <1>4, <4>1
      <4> HIDE DEF Bad
      <4> QED
        BY <1>3, <4>1, <4>2
    <3>3. \A i \in DOMAIN g.in[n] :
            /\ A[g.in[n][i]].info = B[g.in[n][i]].info
            /\ g.in[n][i] \in DC => A[g.in[n][i]].content = B[g.in[n][i]].content
      BY <3>1, <3>2
    <3> HIDE DEF A, B, Bad, SameBase
    <3>4. Shape(g, A, n) = Shape(g, B, n)
      BY <3>1, <3>3 DEF Shape
    <3>5. A[n].info = B[n].info
      BY <1>5, <1>6, <1>8, <2>1, <2>3, <3>4
    <3>6. n \in DC => Content(g, A, n, A[n].info) = Content(g, B, n, A[n].info)
      BY <3>1, <3>3 DEF Content
    <3> QED
      BY <1>4, <1>5, <1>6, <1>8, <2>1, <2>3, <3>5, <3>6
  <2> QED
    BY <2>2, <2>3
<1> QED
  BY <1>7, <1>8

LEMMA ValueParts ==
  ASSUME Typed
  PROVE  /\ \A l \in Leaves : Value[l].info = <<dim[l]>> /\ Value[l].content = data[l]
         /\ \A e \in Ops : e \in fixed => Value[e].info = Atom(e) /\ Value[e].content = Atom(e)
         /\ \A e \in Ops : e \notin fixed => /\ Value[e].info = Shape(graph, Value, e)
                                             /\ Value[e].content = Content(graph, Value, e, Value[e].info)
<1>1. Consistent(graph) /\ Nodes = NodesOf(graph) /\ \A l \in Leaves : l \notin Ops
  BY Links
<1>2. \A n \in Nodes :
        /\ n \in Leaves => Value[n].info = <<dim[n]>> /\ Value[n].content = data[n]
        /\ n \notin Leaves /\ n \in fixed => Value[n].info = Atom(n) /\ Value[n].content = Atom(n)
        /\ n \notin Leaves /\ n \notin fixed =>
             Value[n].info = Shape(graph, Value, n) /\ Value[n].content = Content(graph, Value, n, Value[n].info)
  BY <1>1, AnewParts DEF Value, Leaves
<1> QED
  BY <1>1, <1>2 DEF Nodes

\* A value is what it was where neither a leaf nor what starts anew is behind it.
LEMMA RestartValues ==
  ASSUME WellFormed, NEW es, NEW f, CanRestart(es, f), Restarts(es, f), NEW L \in SUBSET Leaves,
         \A l \in Leaves \ L : dim'[l] = dim[l] /\ data'[l] = data[l],
         \A l \in L : \A m \in Consumers(l) : m \in es \/ infoDirty[m]
  PROVE  \A e \in Ops : ~ infoDirty'[e] /\ e \notin f =>
           Value'[e].info = Value[e].info /\ Value'[e].content = Value[e].content
<1> DEFINE D == {n \in Nodes : IF n \in Leaves THEN n \notin L ELSE ~ infoDirty'[n] /\ n \notin f}
<1>1. /\ Consistent(graph) /\ Nodes = NodesOf(graph) /\ \A l \in Leaves : l \notin Ops
      /\ Leaves = 1 .. graph.leaves /\ Ops = DOMAIN graph.in /\ graph' = graph /\ fixed' = fixed \cup f
  BY Links DEF WellFormed, Leaves, Ops, Restarts
<1>2. \A n \in D : n \in Leaves => dim[n] = dim'[n] /\ data[n] = data'[n]
  OBVIOUS
<1>3. \A n \in D : n \in Ops => (n \in fixed <=> n \in fixed')
  BY <1>1
<1>4. ASSUME NEW n \in D, n \in Ops, n \notin fixed
      PROVE  \A i \in DOMAIN graph.in[n] : graph.in[n][i] \in D
  <2>1. ~ infoDirty'[n] /\ n \notin es /\ ~ infoDirty[n]
    BY <1>1, <1>4 DEF Restarts
  <2>2. InputsOf(n) = graph.in[n]
    BY <1>4 DEF InputsOf
  <2> TAKE i \in DOMAIN graph.in[n]
  <2> DEFINE x == graph.in[n][i]
  <2>3. x \in Nodes /\ x \in Range(InputsOf(n)) /\ n \in Consumers(x)
    BY <1>4, <2>2, Links DEF WellFormed, Range
  <2>4. CASE x \in Leaves
    BY <2>1, <2>3, <2>4
  <2>5. CASE x \notin Leaves
    <3>1. x \in Ops /\ ~ infoDirty[x]
      BY <1>4, <2>1, <2>3, <2>5 DEF Nodes, WellFormed, ShapesTyped, Known
    <3>2. x \notin es /\ x \notin f
      BY <2>1, <2>3 DEF CanRestart
    <3>3. infoDirty'[x] = (x \in es \/ infoDirty[x])
      BY <3>1 DEF Restarts
    <3> QED
      BY <2>3, <2>5, <3>1, <3>2, <3>3
  <2> QED
    BY <2>4, <2>5
<1>5. D \in SUBSET NodesOf(graph) /\ D \in SUBSET D
  BY <1>1
<1>6. \A n \in Ops : graph.content[n] \subseteq DOMAIN graph.in[n] /\ graph.shape[n] \subseteq DOMAIN graph.in[n]
  BY <1>1, GraphFacts
<1>7. /\ \A n \in D : n \in DOMAIN graph.in /\ n \notin fixed =>
           /\ \A i \in DOMAIN graph.in[n] : graph.in[n][i] \in D
           /\ \A i \in graph.shape[n] : graph.in[n][i] \in D
      /\ \A n \in D : n \in DOMAIN graph.in /\ n \notin fixed => \A i \in graph.content[n] : graph.in[n][i] \in D
  BY <1>1, <1>4, <1>6
<1>8. \A n \in Ops : ~ infoDirty'[n] /\ n \notin f => n \in D
  BY <1>1 DEF Nodes
<1> HIDE DEF D
<1>10. Consistent(graph) /\ D \in SUBSET NodesOf(graph) /\ D \in SUBSET D
  BY <1>1, <1>5
<1>11. \A n \in D : n \in 1 .. graph.leaves => dim[n] = dim'[n]
  BY <1>1, <1>2
<1>12. \A n \in D : n \in 1 .. graph.leaves => data[n] = data'[n]
  BY <1>1, <1>2
<1>13. \A n \in D : n \in DOMAIN graph.in => (n \in fixed <=> n \in fixed')
  BY <1>1, <1>3
<1>9. /\ \A n \in D : Anew(graph, dim, data, fixed)[n].info = Anew(graph, dim', data', fixed')[n].info
      /\ \A n \in D : Anew(graph, dim, data, fixed)[n].content = Anew(graph, dim', data', fixed')[n].content
  <2>1. SameBase(graph, dim, dim', data, data', fixed, fixed', D, D)
    BY <1>7, <1>10, <1>11, <1>12, <1>13 DEF SameBase
  <2> QED
    BY <1>10, <2>1, SameParts
<1> QED
  BY <1>1, <1>8, <1>9 DEF Value

(***************************************************************************)
(* The invariant, part by part: what is not dirty is fresh.                *)
(***************************************************************************)
ShapesFresh ==
  \A e \in Ops : ~ infoDirty[e] => info[e] = Value[e].info /\ info[e] \notin {Null, <<0>>}

ContentsFresh ==
  \A e \in Ops : cache[e] # NoCache /\ ~ caches[cache[e]].contentDirty =>
    caches[cache[e]].held[e] = Value[e].content

\* The operators S of session k compute from their inputs of now: from leaves and
\* fixed operators, from one another, and from what the cache of an input holds.
GoodFor(S, k) ==
  /\ S \subseteq DOMAIN k.held
  /\ \A m \in S :
       /\ m \in Ops /\ ~ infoDirty[m] /\ m \notin fixed /\ k.shapes[m] = info[m]
       /\ \A x \in ContentInputs(m) :
            \/ x \in k.leaves \/ x \in fixed \/ x \in S
            \/ (x \in DOMAIN k.from /\ k.from[x] = cache[x] /\ cache[x] # NoCache)

SessionsGood ==
  \A t \in Ops : cache[t] # NoCache => \E S \in SUBSET Ops : t \in S /\ GoodFor(S, caches[cache[t]])

LEMMA SameContentInputs ==
  ASSUME NEW m, graph' = graph, InputsOf(m)' = InputsOf(m)
  PROVE  ContentInputs(m)' = ContentInputs(m)
BY DEF ContentInputs

LEMMA RestartFresh ==
  ASSUME WellFormed, NEW es, NEW f, CanRestart(es, f), Restarts(es, f), NEW L \in SUBSET Leaves,
         \A l \in Leaves \ L : dim'[l] = dim[l] /\ data'[l] = data[l],
         dim' = [l \in Leaves |-> dim'[l]], data' = [l \in Leaves |-> data'[l]],
         \A l \in L : \A m \in Consumers(l) : m \in es \/ infoDirty[m],
         ShapesFresh, ContentsFresh, SessionsGood
  PROVE  ShapesFresh' /\ ContentsFresh' /\ SessionsGood'
<1>1. Ops' = Ops /\ Leaves' = Leaves /\ graph' = graph /\ fixed' = fixed \cup f /\ Typed'
  BY RestartTyped DEF Restarts, Ops, Leaves, WellFormed
<1>2. \A e \in Ops : ~ infoDirty'[e] /\ e \notin f =>
        Value'[e].info = Value[e].info /\ Value'[e].content = Value[e].content
  BY RestartValues
<1>3. \A e \in Ops : infoDirty'[e] = (e \in es \/ infoDirty[e])
  BY DEF Restarts
<1>4. \A e \in Ops : e \notin es /\ e \notin f => info'[e] = info[e]
  BY DEF Restarts
<1>5. ShapesFresh'
  <2> SUFFICES ASSUME NEW e \in Ops, ~ infoDirty'[e]
               PROVE  info'[e] = Value'[e].info /\ info'[e] \notin {Null, <<0>>}
    BY <1>1 DEF ShapesFresh
  <2>1. CASE e \notin f
    BY <1>2, <1>3, <1>4, <2>1 DEF ShapesFresh
  <2>2. CASE e \in f
    <3>1. info'[e] = Atom(e)
      BY <2>2 DEF Restarts
    <3>2. Value'[e].info = Atom(e)
      <4>1. e \in NodesOf(graph) /\ e \notin 1 .. graph.leaves /\ e \in fixed' /\ Consistent(graph)
        BY <1>1, <2>2, Links DEF WellFormed, Nodes, Leaves
      <4>2. Value' = Anew(graph, dim', data', fixed')
        BY <1>1 DEF Value
      <4> QED
        BY <4>1, <4>2, AnewParts
    <3>3. e \in Nat /\ e > 0
      BY Links DEF Nodes, WellFormed
    <3>4. Atom(e) # Null /\ Atom(e) # << 0 >>
      BY <3>3 DEF Atom, Null
    <3> QED
      BY <3>1, <3>2, <3>4
  <2> QED
    BY <2>1, <2>2
<1>6. \A e \in Ops : cache'[e] # NoCache =>
        /\ e \notin es \cup f /\ cache'[e] = cache[e] /\ cache[e] \in DOMAIN caches
        /\ caches'[cache[e]] = caches[cache[e]] /\ ~ infoDirty'[e]
  <2>1. /\ \A c \in DOMAIN caches' : c \in DOMAIN caches /\ caches'[c] = caches[c]
        /\ \A e \in Ops : cache'[e] # NoCache =>
             e \notin es \cup f /\ cache'[e] = cache[e] /\ cache[e] \in DOMAIN caches'
    BY RestartCaches DEF WellFormed
  <2>2. \A e \in Ops : cache[e] # NoCache => ~ infoDirty[e]
    BY DEF WellFormed, ShapesTyped
  <2> QED
    BY <1>3, <2>1, <2>2
<1>7. ContentsFresh'
  BY <1>1, <1>2, <1>6 DEF ContentsFresh
<1>8. SessionsGood'
  <2> SUFFICES ASSUME NEW t \in Ops, cache'[t] # NoCache
               PROVE  \E S \in SUBSET Ops : t \in S /\ GoodFor(S, caches[cache[t]])'
    BY <1>1, Zenon DEF SessionsGood
  <2>1. PICK S \in SUBSET Ops : t \in S /\ GoodFor(S, caches[cache[t]])
    BY <1>6 DEF SessionsGood
  <2> DEFINE k == caches[cache[t]]
             T == S \ (es \cup f)
  <2>2. t \in T /\ T \in SUBSET Ops
    BY <1>6, <2>1
  <2>3. caches'[cache'[t]] = k
    BY <1>6
  <2>4. T \subseteq DOMAIN k.held
    BY <2>1 DEF GoodFor
  <2>5. ASSUME NEW m \in T
        PROVE  /\ m \in Ops /\ ~ infoDirty'[m] /\ m \notin fixed' /\ k.shapes[m] = info'[m]
               /\ \A x \in ContentInputs(m)' :
                    \/ x \in k.leaves \/ x \in fixed' \/ x \in T
                    \/ (x \in DOMAIN k.from /\ k.from[x] = cache'[x] /\ cache'[x] # NoCache)
    <3>1. m \in Ops /\ ~ infoDirty[m] /\ m \notin fixed /\ k.shapes[m] = info[m]
      BY <2>1 DEF GoodFor
    <3>2. ~ infoDirty'[m] /\ m \notin fixed' /\ k.shapes[m] = info'[m]
      <4>1. m \notin es /\ m \notin f
        OBVIOUS
      <4> HIDE DEF T, k
      <4>2. ~ infoDirty'[m] /\ info'[m] = info[m]
        BY <1>3, <1>4, <3>1, <4>1
      <4>3. m \notin fixed'
        BY <1>1, <3>1, <4>1
      <4> QED
        BY <3>1, <4>2, <4>3
    <3>3. InputsOf(m)' = InputsOf(m)
      BY <1>1, <3>1, <3>2 DEF InputsOf
    <3>4. ContentInputs(m)' = ContentInputs(m)
      <4>1. graph' = graph
        BY <1>1
      <4> QED
        BY <3>3, <4>1, SameContentInputs
    <3>5. ASSUME NEW x \in ContentInputs(m)
          PROVE  \/ x \in k.leaves \/ x \in fixed' \/ x \in T
                 \/ (x \in DOMAIN k.from /\ k.from[x] = cache'[x] /\ cache'[x] # NoCache)
      <4>1. x \in Range(InputsOf(m)) /\ m \in Consumers(x)
        BY <3>1, Links DEF WellFormed
      <4>2. x \notin es /\ x \notin f
        BY <3>1, <4>1 DEF CanRestart
      <4>3. x \in Ops => cache'[x] = cache[x]
        BY <4>2 DEF Restarts
      <4>4. \/ x \in k.leaves \/ x \in fixed \/ x \in S
            \/ (x \in DOMAIN k.from /\ k.from[x] = cache[x] /\ cache[x] # NoCache)
        BY <2>1 DEF GoodFor
      <4>5. DOMAIN k.from \subseteq Ops
        BY <1>6 DEF WellFormed, CachesTyped, CacheTyped
      <4> QED
        BY <1>1, <4>2, <4>3, <4>4, <4>5
    <3> QED
      BY <3>1, <3>2, <3>4, <3>5
  <2>6. GoodFor(T, caches[cache[t]])'
    <3> HIDE DEF k, T
    <3> QED
      BY <1>1, <2>3, <2>4, <2>5 DEF GoodFor
  <2> QED
    BY <2>2, <2>6
<1> QED
  BY <1>5, <1>7, <1>8

(***************************************************************************)
(* What a run of sessions gives is fresh.                                  *)
(***************************************************************************)
LEMMA BehindFacts ==
  ASSUME CachesTyped, NEW c \in DOMAIN caches
  PROVE  /\ c \in Behind(c) /\ Behind(c) \subseteq DOMAIN caches
         /\ \A k \in Behind(c) : Range(caches[k].from) \subseteq Behind(c)
<1>1. c \in Behind(c)
  BY ReachedHas DEF Behind
<1>2. Behind(c) \subseteq DOMAIN caches
  BY ReachedIn DEF Behind
<1>3. \A k \in Behind(c) : Range(caches[k].from) \subseteq Behind(c)
  <2> TAKE k \in Behind(c)
  <2>1. Below[k] = Range(caches[k].from) /\ Below[k] \subseteq DOMAIN caches
    BY <1>2 DEF Below, CachesTyped
  <2> QED
    BY <2>1, ReachedOn DEF Behind
<1> QED
  BY <1>1, <1>2, <1>3

LEMMA StaleFacts ==
  ASSUME CachesTyped, NEW c \in DOMAIN caches
  PROVE  /\ Stale(c) \subseteq Behind(c) /\ \A k \in Stale(c) : caches[k].contentDirty
         /\ caches[c].contentDirty => c \in Stale(c)
         /\ \A k \in Stale(c) : \A j \in Range(caches[k].from) : j \in Stale(c) \/ ~ caches[j].contentDirty
<1> DEFINE next == [k \in DOMAIN caches |-> IF caches[k].contentDirty THEN Below[k] ELSE {}]
           R == Reached(DOMAIN caches, {c}, next)
<1>1. Stale(c) = {k \in R : caches[k].contentDirty}
  BY DEF Stale
<1>2. c \in R /\ R \subseteq DOMAIN caches
  BY ReachedHas, ReachedIn
<1>3. R \subseteq Behind(c)
  <2>1. \A k \in Behind(c) : next[k] \subseteq Behind(c)
    BY BehindFacts DEF Below
  <2> HIDE DEF next
  <2> QED
    BY <2>1, BehindFacts, ReachedLeast
<1>4. ASSUME NEW k \in Stale(c), NEW j \in Range(caches[k].from) PROVE j \in Stale(c) \/ ~ caches[j].contentDirty
  <2>1. k \in R /\ j \in next[k] /\ j \in DOMAIN caches
    BY <1>1, <1>2 DEF Below, CachesTyped
  <2> HIDE DEF next
  <2>2. j \in R
    BY <2>1, ReachedOn
  <2> QED
    BY <1>1, <2>2
<1> HIDE DEF R
<1> QED
  BY <1>1, <1>2, <1>3, <1>4

\* The sessions that have run ran after those they take contents from.
RunsInOrder(c, ran) == ran \subseteq Stale(c) /\ \A k \in ran : Below[k] \cap Stale(c) \subseteq ran

Answered(c, ran, m, k) ==
  Value[m].content # Null /\ (k \in ran => Contents(ran, {})[m][k] = Value[m].content)

\* An input of a session gives what it should if the nodes before m do.
LEMMA InputAnswered ==
  ASSUME WellFormed, ShapesFresh, ContentsFresh, SessionsGood, overwritten = {},
         NEW c \in DOMAIN caches, ~ LacksInput(c), NEW ran, RunsInOrder(c, ran),
         NEW k \in Behind(c), NEW S \in SUBSET Ops, GoodFor(S, caches[k]), NEW m \in S,
         NEW x \in ContentInputs(m),
         \A j \in Behind(c) : \A T \in SUBSET Ops : GoodFor(T, caches[j]) /\ x \in T => Answered(c, ran, x, j)
  PROVE  Answered(c, ran, x, k)
<1>1. k \in DOMAIN caches /\ Range(caches[k].from) \subseteq Behind(c) /\ CacheTyped(caches[k])
  BY BehindFacts DEF WellFormed, CachesTyped
<1>2. Typed /\ CachesTyped /\ Consistent(graph) /\ x \in Nodes /\ \A l \in Leaves : l \notin Ops
  BY Links DEF WellFormed
<1>3. Contents(ran, {})[x] = SessionRule(ran, {}, Contents(ran, {}), x)
  BY <1>2, ContentsAre
<1>4. \/ x \in caches[k].leaves \/ x \in fixed \/ x \in S
      \/ (x \in DOMAIN caches[k].from /\ caches[k].from[x] = cache[x] /\ cache[x] # NoCache)
  BY DEF GoodFor
<1>5. CASE x \in caches[k].leaves
  <2>1. x \in Leaves /\ data[x] # Null
    BY <1>1, <1>5 DEF CacheTyped, LacksInput
  <2>2. Contents(ran, {})[x][k] = data[x]
    BY <1>1, <1>3, <2>1 DEF SessionRule
  <2> QED
    BY <1>2, <2>1, <2>2, ValueParts DEF Answered
<1>6. CASE x \in fixed
  <2>1. x \in Ops /\ x \notin Leaves
    BY <1>2, <1>6 DEF Typed
  <2>2. Contents(ran, {})[x][k] = Atom(x)
    BY <1>1, <1>3, <1>6, <2>1 DEF SessionRule, Constant
  <2>3. Atom(x) # Null
    BY DEF Atom, Null
  <2> QED
    BY <1>2, <1>6, <2>1, <2>2, <2>3, ValueParts DEF Answered
<1>7. CASE x \in S
  BY <1>7
<1>8. CASE x \in DOMAIN caches[k].from /\ caches[k].from[x] = cache[x] /\ cache[x] # NoCache
  <2> DEFINE j == cache[x]
  <2>1. x \in Ops /\ j \in Range(caches[k].from) /\ j \in Behind(c) /\ x \notin Leaves
    BY <1>1, <1>2, <1>8 DEF CacheTyped, Range
  <2>2. PICK T \in SUBSET Ops : x \in T /\ GoodFor(T, caches[j])
    BY <1>8, <2>1 DEF SessionsGood
  <2>3. Value[x].content # Null /\ (j \in ran => Contents(ran, {})[x][j] = Value[x].content)
    BY <2>1, <2>2 DEF Answered
  <2>4. ASSUME k \in ran PROVE Contents(ran, {})[x][k] = Value[x].content
    <3>1. OwnerIn(x, k) = j /\ x \notin fixed
      BY <1>8, <2>2 DEF OwnerIn, GoodFor
    <3>2. j \in DOMAIN caches /\ CacheTyped(caches[j])
      BY <1>2, <2>1, BehindFacts DEF CachesTyped
    <3>3. OwnerIn(x, j) = j
      BY <2>2, <3>2 DEF OwnerIn, GoodFor, CacheTyped
    <3>4. CASE j \in ran
      <4>1. Contents(ran, {})[x][k] = Contents(ran, {})[x][j]
        <5> DEFINE C == Contents(ran, {})
        <5> HIDE DEF C
        <5>1. C[x] = SessionRule(ran, {}, C, x)
          BY <1>3 DEF C
        <5>2. SessionRule(ran, {}, C, x)[k] = SessionRule(ran, {}, C, x)[j]
          BY <1>1, <3>1, <3>2, <3>3 DEF SessionRule
        <5>3. C[x][k] = C[x][j]
          BY <5>1, <5>2
        <5> QED
          BY <5>3 DEF C
      <4> QED
        BY <2>3, <3>4, <4>1
    <3>5. CASE j \notin ran
      <4>1. Contents(ran, {})[x][k] = caches[j].held[x]
        <5> DEFINE C == Contents(ran, {})
        <5> HIDE DEF C
        <5>1. C[x] = SessionRule(ran, {}, C, x)
          BY <1>3 DEF C
        <5>2. SessionRule(ran, {}, C, x)[k] = caches[j].held[x]
          BY <1>1, <2>1, <3>1, <3>5 DEF SessionRule
        <5>3. C[x][k] = caches[j].held[x]
          BY <5>1, <5>2
        <5> QED
          BY <5>3 DEF C
      <4>2. ~ caches[j].contentDirty
        <5>1. k \in Stale(c) /\ j \notin Stale(c)
          BY <1>1, <2>1, <2>4, <3>5 DEF RunsInOrder, Below
        <5> QED
          BY <1>2, <2>1, <5>1, StaleFacts
      <4> QED
        BY <1>8, <2>1, <4>1, <4>2 DEF ContentsFresh
    <3> QED
      BY <3>4, <3>5
  <2> QED
    BY <2>3, <2>4 DEF Answered
<1> QED
  BY <1>4, <1>5, <1>6, <1>7, <1>8

LEMMA SessionsAnswer ==
  ASSUME WellFormed, ShapesFresh, ContentsFresh, SessionsGood, overwritten = {},
         NEW c \in DOMAIN caches, ~ LacksInput(c), NEW ran, RunsInOrder(c, ran)
  PROVE  \A k \in Behind(c) : \A S \in SUBSET Ops : GoodFor(S, caches[k]) =>
           \A m \in S : Answered(c, ran, m, k)
<1> DEFINE Bad == {m \in Ops : \E k \in Behind(c) : \E S \in SUBSET Ops :
                     GoodFor(S, caches[k]) /\ m \in S /\ ~ Answered(c, ran, m, k)}
<1>1. SUFFICES ASSUME Bad # {} PROVE FALSE
  OBVIOUS
<1>2. Typed /\ CachesTyped /\ Consistent(graph) /\ Ops \subseteq Nat
  BY Links DEF WellFormed, Nodes
<1>3. PICK m \in Bad : \A x \in Bad : m <= x
  BY <1>1, <1>2, LeastNumber
<1>4. PICK k \in Behind(c), S \in SUBSET Ops : GoodFor(S, caches[k]) /\ m \in S /\ ~ Answered(c, ran, m, k)
  OBVIOUS
<1>5. m \in Ops /\ ~ infoDirty[m] /\ m \notin fixed /\ caches[k].shapes[m] = info[m]
      /\ m \in DOMAIN caches[k].held /\ m \notin Leaves
  BY <1>2, <1>4, Links DEF GoodFor
<1>6. k \in DOMAIN caches /\ CacheTyped(caches[k])
  BY <1>2, BehindFacts DEF CachesTyped
<1>7. ASSUME NEW x \in ContentInputs(m) PROVE Answered(c, ran, x, k)
  <2>1. x < m /\ x \in Nat /\ m \in Nat /\ ~ (m <= x)
    BY <1>2, <1>5, Links
  <2>2. x \notin Bad
    BY <1>3, <2>1
  <2>3. \A j \in Behind(c) : \A T \in SUBSET Ops : GoodFor(T, caches[j]) /\ x \in T => Answered(c, ran, x, j)
    BY <2>2
  <2> HIDE DEF Bad
  <2> QED
    BY <1>4, <2>3, InputAnswered
<1> HIDE DEF Bad
<1>8. info[m] = Value[m].info /\ info[m] # Null
  BY <1>5 DEF ShapesFresh
<1>9. \A i \in graph.content[m] : i \in DOMAIN graph.in[m] /\ graph.in[m][i] \in ContentInputs(m)
  BY <1>2, <1>5, GraphFacts DEF ContentInputs, InputsOf, Ops
<1> DEFINE C == Contents(ran, {})
<1>10. \A i \in graph.content[m] :
         /\ Value[graph.in[m][i]].content # Null
         /\ k \in ran => C[graph.in[m][i]][k] = Value[graph.in[m][i]].content
  BY <1>7, <1>9 DEF Answered
<1>11. Value[m].content = <<info[m], [i \in DOMAIN graph.in[m] |->
          IF i \in graph.content[m] THEN Value[graph.in[m][i]].content ELSE Null]>>
  <2>1. Value[m].content = Content(graph, Value, m, info[m])
    BY <1>2, <1>5, <1>8, ValueParts
  <2> QED
    BY <1>8, <1>10, <2>1 DEF Content
<1>12. Value[m].content # Null
  BY <1>11 DEF Null
<1>13. k \in ran => C[m][k] = Value[m].content
  <2> HAVE k \in ran
  <2> HIDE DEF C
  <2>1. C[m] = SessionRule(ran, {}, C, m)
    BY <1>2, <1>5, ContentsAre DEF C, Nodes
  <2>2. OwnerIn(m, k) = k
    BY <1>5, <1>6 DEF OwnerIn, CacheTyped
  <2>3. SessionRule(ran, {}, C, m)[k] = <<caches[k].shapes[m], [i \in DOMAIN graph.in[m] |->
          IF i \in graph.content[m] THEN C[graph.in[m][i]][k] ELSE Null]>>
    BY <1>5, <1>6, <2>2 DEF SessionRule
  <2>4. [i \in DOMAIN graph.in[m] |-> IF i \in graph.content[m] THEN C[graph.in[m][i]][k] ELSE Null]
          = [i \in DOMAIN graph.in[m] |-> IF i \in graph.content[m] THEN Value[graph.in[m][i]].content ELSE Null]
    BY <1>10
  <2> QED
    BY <1>5, <1>11, <2>1, <2>3, <2>4
<1> QED
  BY <1>4, <1>12, <1>13 DEF Answered

\* What the links of the sessions and the shapes say stays where they stay.
SameShapes == UNCHANGED <<graph, dim, data, fixed, infoDirty, info, cache>>

LEMMA SessionsStay ==
  ASSUME WellFormed, SessionsGood, UNCHANGED <<graph, fixed, infoDirty, info, cache>>, SameLinks
  PROVE  SessionsGood'
<1>1. Ops' = Ops /\ fixed' = fixed /\ graph' = graph
      /\ infoDirty' = infoDirty /\ info' = info /\ cache' = cache
  BY DEF Ops
<1>4. \A m \in Ops : ContentInputs(m)' = ContentInputs(m)
  BY <1>1 DEF ContentInputs, InputsOf
<1>5. SessionsGood'
  <2> SUFFICES ASSUME NEW t \in Ops, cache[t] # NoCache
               PROVE  \E S \in SUBSET Ops : t \in S /\ GoodFor(S, caches[cache[t]])'
    BY <1>1, Zenon DEF SessionsGood
  <2>1. PICK S \in SUBSET Ops : t \in S /\ GoodFor(S, caches[cache[t]])
    BY DEF SessionsGood
  <2> DEFINE k == caches[cache[t]]
             j == caches'[cache[t]]
  <2>2. j.from = k.from /\ j.leaves = k.leaves /\ j.shapes = k.shapes /\ DOMAIN j.held = DOMAIN k.held
    BY DEF SameLinks, WellFormed, ShapesTyped
  <2>3. GoodFor(S, k)
    BY <2>1
  <2> HIDE DEF k, j
  <2>4. S \subseteq DOMAIN j.held
    BY <2>2, <2>3 DEF GoodFor
  <2>5. \A m \in S :
          /\ m \in Ops /\ ~ infoDirty'[m] /\ m \notin fixed' /\ j.shapes[m] = info'[m]
          /\ \A x \in ContentInputs(m)' :
               \/ x \in j.leaves \/ x \in fixed' \/ x \in S
               \/ (x \in DOMAIN j.from /\ j.from[x] = cache'[x] /\ cache'[x] # NoCache)
    BY <1>1, <1>4, <2>2, <2>3 DEF GoodFor
  <2>6. GoodFor(S, caches[cache[t]])'
    BY <1>1, <2>4, <2>5, Zenon DEF GoodFor, j
  <2> QED
    BY <2>1, <2>6
<1> QED
  BY <1>5

LEMMA SameLinksFresh ==
  ASSUME WellFormed, ShapesFresh, SessionsGood, SameShapes, SameLinks
  PROVE  ShapesFresh' /\ SessionsGood' /\ Value' = Value
<1>1. Ops' = Ops /\ Leaves' = Leaves /\ fixed' = fixed /\ graph' = graph
      /\ infoDirty' = infoDirty /\ info' = info /\ cache' = cache
  BY DEF SameShapes, Ops, Leaves
<1>2. Value' = Value
  BY DEF SameShapes, Value
<1>3. ShapesFresh'
  BY <1>1, <1>2 DEF ShapesFresh
<1>4. SessionsGood'
  BY SessionsStay DEF SameShapes
<1> QED
  BY <1>2, <1>3, <1>4

\* A session that writes over no constant finds none written over.
LEMMA RunsRegular ==
  ASSUME NEW c, NEW ran, Runs(c, ran), overwritten' = {}
  PROVE  caches' = Ran(c, ran, {})
<1>1. Overwritten(ran) = {}
  BY DEF Runs
<1>2. PICK over \in SUBSET (Overwritten(ran) \X ran) : caches' = Ran(c, ran, over)
  BY Zenon DEF Runs
<1>3. over = {}
  BY <1>1
<1> QED
  BY <1>2, <1>3

LEMMA RunsFresh ==
  ASSUME WellFormed, ShapesFresh, ContentsFresh, SessionsGood, SameShapes,
         overwritten = {}, overwritten' = {},
         NEW c \in DOMAIN caches, ~ LacksInput(c), NEW ran, RunsInOrder(c, ran), Runs(c, ran)
  PROVE  ShapesFresh' /\ ContentsFresh' /\ SessionsGood' /\ Value' = Value
<1>1. SameLinks
  BY RunsSame DEF WellFormed
<1>5. caches' = Ran(c, ran, {})
  BY RunsRegular
<1>4. ASSUME NEW j \in DOMAIN caches, j \in ran, NEW m \in DOMAIN caches[j].held
      PROVE  caches'[j].held[m] = Contents(ran, {})[m][j]
  <2>1. CachesTyped
    BY DEF WellFormed
  <2>2. caches'[j].held = [x \in DOMAIN caches[j].held |-> Contents(ran, {})[x][j]]
    BY <1>4, <1>5, <2>1, RanHeld
  <2> QED
    BY <2>2
<1>2. ShapesFresh' /\ SessionsGood' /\ Value' = Value
  BY <1>1, SameLinksFresh
<1>3. ContentsFresh'
  <2>1. Ops' = Ops /\ cache' = cache
    BY DEF SameShapes, Ops
  <2> SUFFICES ASSUME NEW e \in Ops, cache[e] # NoCache, ~ caches'[cache[e]].contentDirty
               PROVE  caches'[cache[e]].held[e] = Value[e].content
    BY <1>2, <2>1 DEF ContentsFresh
  <2> DEFINE k == cache[e]
  <2>2. k \in DOMAIN caches
    BY DEF WellFormed, ShapesTyped
  <2>3. CASE k \in ran
    <3>1. k \in Behind(c)
      BY <2>3, StaleFacts DEF RunsInOrder, WellFormed
    <3>2. PICK S \in SUBSET Ops : e \in S /\ GoodFor(S, caches[k])
      BY DEF SessionsGood
    <3>3. Contents(ran, {})[e][k] = Value[e].content
      BY <2>3, <3>1, <3>2, SessionsAnswer DEF Answered
    <3>4. e \in DOMAIN caches[k].held
      BY <3>2 DEF GoodFor
    <3>5. caches'[k].held[e] = Contents(ran, {})[e][k]
      BY <1>4, <2>2, <2>3, <3>4
    <3> QED
      BY <3>3, <3>5
  <2>4. CASE k \notin ran
    <3>1. caches'[k].contentDirty = caches[k].contentDirty /\ caches'[k].held = caches[k].held
      BY <1>5, <2>2, <2>4, RanIs DEF WellFormed
    <3> QED
      BY <3>1 DEF ContentsFresh
  <2> QED
    BY <2>3, <2>4
<1> QED
  BY <1>2, <1>3

\* compute gives the content of what it was asked for.
LEMMA ComputesFresh ==
  ASSUME WellFormed, ShapesFresh, ContentsFresh, SessionsGood, SameShapes,
         overwritten = {}, overwritten' = {},
         NEW t \in Ops, cache[t] # NoCache, Computes(cache[t])
  PROVE  /\ ShapesFresh' /\ ContentsFresh' /\ SessionsGood' /\ Value' = Value
         /\ caches'[cache[t]].held[t] = Value[t].content /\ Value[t].content # Null
<1> DEFINE c == cache[t]
<1>1. c \in DOMAIN caches /\ ~ LacksInput(c) /\ Runs(c, Stale(c)) /\ RunsInOrder(c, Stale(c))
  BY DEF Computes, RunsInOrder, WellFormed, ShapesTyped
<1>2. ShapesFresh' /\ ContentsFresh' /\ SessionsGood' /\ Value' = Value
  BY <1>1, RunsFresh
<1>3. PICK S \in SUBSET Ops : t \in S /\ GoodFor(S, caches[c])
  BY DEF SessionsGood
<1>4. Value[t].content # Null
  BY <1>1, <1>3, BehindFacts, SessionsAnswer DEF Answered, WellFormed
<1>7. caches' = Ran(c, Stale(c), {})
  BY <1>1, RunsRegular
<1>5. ~ caches'[c].contentDirty
  <2>1. CASE c \in Stale(c)
    BY <1>1, <1>7, <2>1, RanIs DEF WellFormed
  <2>2. CASE c \notin Stale(c)
    <3>1. ~ caches[c].contentDirty
      BY <1>1, <2>2, StaleFacts DEF WellFormed
    <3> QED
      BY <1>1, <1>7, <2>2, <3>1, RanIs DEF WellFormed
  <2> QED
    BY <2>1, <2>2
<1>6. caches'[c].held[t] = Value'[t].content
  <2>1. t \in Ops' /\ cache' = cache
    BY DEF SameShapes, Ops
  <2> QED
    BY <1>2, <1>5, <2>1 DEF ContentsFresh
<1> QED
  BY <1>2, <1>4, <1>6

LEMMA StopsFresh ==
  ASSUME WellFormed, ShapesFresh, ContentsFresh, SessionsGood, SameShapes,
         overwritten = {}, overwritten' = {},
         NEW t \in Ops, cache[t] # NoCache, Stops(cache[t])
  PROVE  ShapesFresh' /\ ContentsFresh' /\ SessionsGood' /\ Value' = Value
<1> DEFINE c == cache[t]
<1>1. c \in DOMAIN caches
  BY DEF WellFormed, ShapesTyped
<1>2. CASE caches' = caches
  <2>1. ShapesFresh' /\ SessionsGood' /\ Value' = Value
    BY <1>2, SameCaches, SameLinksFresh DEF WellFormed
  <2>2. ContentsFresh'
    BY <1>2, <2>1 DEF ContentsFresh, SameShapes, Ops
  <2> QED
    BY <2>1, <2>2
<1>3. CASE ~ LacksInput(c) /\ \E ran : RunsInOrder(c, ran) /\ Runs(c, ran)
  BY <1>1, <1>3, RunsFresh
<1>4. UNCHANGED caches \/ (~ LacksInput(c) /\ \E ran : RunsInOrder(c, ran) /\ Runs(c, ran))
  BY DEF Stops, RunsInOrder
<1> QED
  BY <1>2, <1>3, <1>4

LEMMA MakeCacheFresh ==
  ASSUME WellFormed, ShapesFresh, ContentsFresh, SessionsGood, NEW targets, CanMake(targets), MakeCache(targets)
  PROVE  ShapesFresh' /\ ContentsFresh' /\ SessionsGood' /\ Value' = Value
<1>1. Ops' = Ops /\ Leaves' = Leaves /\ fixed' = fixed /\ graph' = graph /\ dim' = dim /\ data' = data
      /\ infoDirty' = infoDirty /\ info' = info
  BY DEF MakeCache, outside, Ops, Leaves
<1>2. Value' = Value
  BY <1>1 DEF Value
<1>3. ShapesFresh'
  BY <1>1, <1>2 DEF ShapesFresh
<1> DEFINE N == NodesFor(targets)
<1>4. /\ \A c \in DOMAIN caches : caches'[c] = caches[c] /\ c # NewId
      /\ caches'[NewId] = NewCache(N) /\ NewId # NoCache
      /\ \A e \in Ops : cache'[e] = IF e \in targets THEN NewId ELSE cache[e]
  BY MakeCacheIs DEF WellFormed
<1>5. /\ targets \subseteq N /\ N \subseteq Ops
      /\ \A m \in N : /\ HasNoCache(m) /\ ~ infoDirty[m]
                      /\ \A x \in ContentInputs(m) : HasNoCache(x) => x \in N
  BY NodesForFacts DEF WellFormed
<1>6. \A e \in Ops : cache[e] # NoCache =>
        cache[e] \in DOMAIN caches /\ e \notin targets /\ cache'[e] = cache[e] /\ caches'[cache[e]] = caches[cache[e]]
  BY <1>4 DEF WellFormed, ShapesTyped, CanMake, HasNoCache
<1>7. ContentsFresh'
  <2> SUFFICES ASSUME NEW e \in Ops, cache'[e] # NoCache, ~ caches'[cache'[e]].contentDirty
               PROVE  caches'[cache'[e]].held[e] = Value[e].content
    BY <1>1, <1>2 DEF ContentsFresh
  <2>1. CASE e \in targets
    BY <1>4, <2>1 DEF NewCache
  <2>2. CASE e \notin targets
    BY <1>4, <1>6, <2>2 DEF ContentsFresh
  <2> QED
    BY <2>1, <2>2
<1>8. \A m \in Ops : ContentInputs(m)' = ContentInputs(m)
  BY <1>1 DEF ContentInputs, InputsOf
<1>9. ASSUME NEW t \in Ops, cache'[t] # NoCache
      PROVE  \E S \in SUBSET Ops : t \in S /\ GoodFor(S, caches[cache[t]])'
  <2>1. CASE t \in targets
    <3> DEFINE needed == UNION {ContentInputs(e) : e \in N}
               F == {m \in needed : HasOp(m) /\ ~ HasNoCache(m)}
               j == NewCache(N)
    <3>1. caches'[cache'[t]] = j
      BY <1>4, <2>1
    <3>2. /\ DOMAIN j.held = N /\ j.shapes = [e \in N |-> info[e]]
          /\ j.from = [m \in F |-> cache[m]] /\ j.leaves = needed \cap Leaves
      BY DEF NewCache
    <3>3. \A m \in N : \A x \in ContentInputs(m) :
            /\ x \in needed
            /\ \/ x \in Leaves \/ x \in fixed \/ x \in N \/ x \in F
      <4> TAKE m \in N
      <4> TAKE x \in ContentInputs(m)
      <4>1. x \in Nodes
        BY <1>5, Links DEF WellFormed
      <4>2. x \in needed
        OBVIOUS
      <4> QED
        BY <1>5, <4>1, <4>2 DEF Nodes, HasOp
    <3>4. \A x \in F : cache[x] # NoCache /\ cache'[x] = cache[x]
      BY <1>6 DEF HasOp, HasNoCache
    <3> HIDE DEF needed, F, j
    <3>5. \A m \in N :
            /\ m \in Ops /\ ~ infoDirty'[m] /\ m \notin fixed' /\ j.shapes[m] = info'[m]
            /\ \A x \in ContentInputs(m)' :
                 \/ x \in j.leaves \/ x \in fixed' \/ x \in N
                 \/ (x \in DOMAIN j.from /\ j.from[x] = cache'[x] /\ cache'[x] # NoCache)
      <4> TAKE m \in N
      <4>1. m \in Ops /\ ~ infoDirty'[m] /\ m \notin fixed' /\ j.shapes[m] = info'[m]
        BY <1>1, <1>5, <3>2 DEF HasNoCache, HasOp
      <4>2. \A x \in ContentInputs(m) :
                 \/ x \in j.leaves \/ x \in fixed' \/ x \in N
                 \/ (x \in DOMAIN j.from /\ j.from[x] = cache'[x] /\ cache'[x] # NoCache)
        BY <1>1, <3>2, <3>3, <3>4
      <4> QED
        BY <1>8, <4>1, <4>2
    <3>6. t \in N /\ N \in SUBSET Ops
      BY <1>5, <2>1
    <3> HIDE DEF N
    <3>7. PICK S \in SUBSET Ops : S = N
      BY <3>6
    <3>8. GoodFor(S, caches[cache[t]])'
      BY <1>1, <3>1, <3>2, <3>5, <3>7 DEF GoodFor
    <3> QED
      BY <3>6, <3>7, <3>8
  <2>2. CASE t \notin targets
    <3>1. cache'[t] = cache[t] /\ cache[t] # NoCache /\ caches'[cache'[t]] = caches[cache[t]]
          /\ CacheTyped(caches[cache[t]])
      <4>1. cache'[t] = cache[t] /\ cache[t] # NoCache
        BY <1>4, <1>9, <2>2
      <4>2. cache[t] \in DOMAIN caches /\ caches'[cache[t]] = caches[cache[t]]
        BY <1>6, <4>1
      <4> QED
        BY <4>1, <4>2 DEF WellFormed, CachesTyped
    <3>2. PICK S \in SUBSET Ops : t \in S /\ GoodFor(S, caches[cache[t]])
      BY <3>1 DEF SessionsGood
    <3> DEFINE k == caches[cache[t]]
    <3>3. \A m \in S :
            /\ m \in Ops /\ ~ infoDirty'[m] /\ m \notin fixed' /\ k.shapes[m] = info'[m]
            /\ \A x \in ContentInputs(m)' :
                 \/ x \in k.leaves \/ x \in fixed' \/ x \in S
                 \/ (x \in DOMAIN k.from /\ k.from[x] = cache'[x] /\ cache'[x] # NoCache)
      <4> TAKE m \in S
      <4>1. m \in Ops /\ ~ infoDirty'[m] /\ m \notin fixed' /\ k.shapes[m] = info'[m]
        BY <1>1, <3>2 DEF GoodFor
      <4>2. ASSUME NEW x \in ContentInputs(m)
            PROVE  \/ x \in k.leaves \/ x \in fixed' \/ x \in S
                   \/ (x \in DOMAIN k.from /\ k.from[x] = cache'[x] /\ cache'[x] # NoCache)
        <5>1. \/ x \in k.leaves \/ x \in fixed \/ x \in S
              \/ (x \in DOMAIN k.from /\ k.from[x] = cache[x] /\ cache[x] # NoCache)
          BY <3>2 DEF GoodFor
        <5>2. x \in DOMAIN k.from => x \in Ops
          BY <3>1 DEF CacheTyped
        <5> QED
          BY <1>1, <1>6, <5>1, <5>2
      <4> QED
        BY <1>8, <4>1, <4>2
    <3>4. S \subseteq DOMAIN k.held
      BY <3>2 DEF GoodFor
    <3> HIDE DEF k
    <3>5. caches'[cache'[t]] = k
      BY <3>1 DEF k
    <3>6. GoodFor(S, caches[cache[t]])'
      BY <1>1, <3>3, <3>4, <3>5, Zenon DEF GoodFor
    <3> QED
      BY <3>2, <3>6
  <2> QED
    BY <2>1, <2>2
<1>10. SessionsGood'
  BY <1>1, <1>9, Zenon DEF SessionsGood
<1> QED
  BY <1>2, <1>3, <1>7, <1>10

(***************************************************************************)
(* The invariant, part by part: what the call under way knows.             *)
(***************************************************************************)
AskFresh ==
  call.do = "ask" => \A m \in DOMAIN call.got :
    m \in Nodes /\ call.got[m] = Value[m].content /\ call.got[m] # Null

HaveFresh ==
  call.do = "have" =>
    caches[cache[call.of]].held[call.of] = Value[call.of].content /\ Value[call.of].content # Null

\* Through which input informDirty came to e, and what it has done there.
Visited(e) ==
  \E i \in DOMAIN InputsOf(e) :
    /\ InputsOf(e)[i] \in call.through
    /\ i \in graph.shape[e] => infoDirty[e]
    /\ i \in graph.content[e] \ graph.shape[e] => e \in call.through

InformFresh ==
  call.do = "inform" =>
    /\ OneNeed(call.of)
    /\ call.of \in call.through /\ call.through \subseteq Flow(call.of)
    /\ \A e \in call.seen : e \in Ops /\ Visited(e)
    /\ \A e \in call.through \cap Ops : cache[e] # NoCache => caches[cache[e]].contentDirty

LEMMA FlowFacts ==
  ASSUME Typed, NEW l \in Leaves
  PROVE  /\ l \in Flow(l) /\ Flow(l) \subseteq Nodes
         /\ \A e \in Ops : \A i \in graph.content[e] \cup graph.shape[e] :
              graph.in[e][i] \in Flow(l) => e \in Flow(l)
<1> DEFINE next == [n \in Nodes |->
             {e \in Ops : \E i \in graph.content[e] \cup graph.shape[e] : graph.in[e][i] = n}]
<1>1. l \in Flow(l) /\ Flow(l) \subseteq Nodes
  BY ReachedHas, ReachedIn DEF Flow, Nodes
<1>2. ASSUME NEW e \in Ops, NEW i \in graph.content[e] \cup graph.shape[e], graph.in[e][i] \in Flow(l)
      PROVE  e \in Flow(l)
  <2>1. graph.in[e][i] \in Nodes /\ e \in next[graph.in[e][i]] /\ e \in Nodes
    BY <1>1, <1>2 DEF Nodes
  <2> HIDE DEF next
  <2>2. graph.in[e][i] \in Reached(Nodes, {l}, next)
    BY <1>2 DEF Flow, next
  <2>3. e \in Reached(Nodes, {l}, next)
    BY <2>1, <2>2, ReachedOn
  <2> QED
    BY <2>3 DEF Flow, next
<1> QED
  BY <1>1, <1>2

\* What writing a leaf changes: nothing that is known but the contents that
\* informDirty came through.
LEMMA WriteValues ==
  ASSUME WellFormed, InformFresh, NEW v, Write(v)
  PROVE  /\ \A e \in Ops : ~ infoDirty[e] => Value'[e].info = Value[e].info
         /\ \A e \in Ops : ~ infoDirty[e] /\ e \notin call.through => Value'[e].content = Value[e].content
<1> DEFINE l == call.of
           DI == {n \in Nodes : n \in Ops => ~ infoDirty[n]}
           DC == {n \in DI : n \notin call.through}
<1>1. /\ call.do = "inform" /\ l \in Leaves /\ l \in call.through /\ call.through \subseteq Flow(l)
      /\ OneNeed(l) /\ \A e \in call.seen : e \in Ops /\ Visited(e)
      /\ \A n \in call.through : Consumers(n) \subseteq call.seen
      /\ graph' = graph /\ fixed' = fixed /\ dim' = dim /\ data' = [data EXCEPT ![l] = <<v>>]
  BY DEF Write, InformFresh, WellFormed, CallTyped, Unseen
<1>2. /\ Typed /\ Consistent(graph) /\ Nodes = NodesOf(graph) /\ \A k \in Leaves : k \notin Ops
      /\ Leaves = 1 .. graph.leaves /\ Ops = DOMAIN graph.in
  BY Links DEF WellFormed, Leaves, Ops
<1>3. \A n \in DC : n \in 1 .. graph.leaves => data[n] = data'[n]
  BY <1>1, <1>2 DEF Typed
<1>4. ASSUME NEW n \in DI, n \in Ops, n \notin fixed
      PROVE  /\ \A i \in DOMAIN graph.in[n] : graph.in[n][i] \in DI
             /\ \A i \in graph.shape[n] : graph.in[n][i] \notin call.through
             /\ n \notin call.through => \A i \in graph.content[n] : graph.in[n][i] \notin call.through
  <2>1. /\ InputsOf(n) = graph.in[n] /\ ~ infoDirty[n]
        /\ graph.content[n] \subseteq DOMAIN graph.in[n] /\ graph.shape[n] \subseteq DOMAIN graph.in[n]
    BY <1>2, <1>4, GraphFacts DEF InputsOf
  <2>2. \A i \in DOMAIN graph.in[n] :
          graph.in[n][i] \in Nodes /\ graph.in[n][i] \in Range(InputsOf(n)) /\ n \in Consumers(graph.in[n][i])
    BY <1>2, <1>4, <2>1, Links DEF Range
  <2>3. \A i \in DOMAIN graph.in[n] : graph.in[n][i] \in DI
    BY <1>4, <2>1, <2>2 DEF WellFormed, ShapesTyped, Known
  <2>4. ASSUME NEW i \in DOMAIN graph.in[n], graph.in[n][i] \in call.through
        PROVE  i \notin graph.shape[n] /\ (i \in graph.content[n] => n \in call.through)
    <3>1. n \in call.seen
      BY <1>1, <2>2, <2>4
    <3>2. PICK j \in DOMAIN graph.in[n] :
            /\ graph.in[n][j] \in call.through
            /\ j \in graph.shape[n] => infoDirty[n]
            /\ j \in graph.content[n] \ graph.shape[n] => n \in call.through
      BY <1>1, <2>1, <3>1 DEF Visited
    <3>3. graph.in[n][i] \in Flow(l) /\ graph.in[n][j] \in Flow(l)
      BY <1>1, <2>4, <3>2
    <3>4. (i \in graph.content[n] <=> j \in graph.content[n]) /\ (i \in graph.shape[n] <=> j \in graph.shape[n])
      BY <1>1, <1>4, <3>3 DEF OneNeed
    <3> QED
      BY <2>1, <3>2, <3>4
  <2> QED
    BY <2>1, <2>3, <2>4
<1>5. SameBase(graph, dim, dim', data, data', fixed, fixed', DI, DC)
  <2>1. DI \subseteq NodesOf(graph) /\ DC \subseteq DI
    BY <1>2
  <2>2. \A n \in DI : n \in DOMAIN graph.in /\ n \notin fixed =>
          /\ \A i \in DOMAIN graph.in[n] : graph.in[n][i] \in DI
          /\ \A i \in graph.shape[n] : graph.in[n][i] \in DC
    BY <1>2, <1>4, GraphFacts
  <2>3. \A n \in DC : n \in DOMAIN graph.in /\ n \notin fixed => \A i \in graph.content[n] : graph.in[n][i] \in DC
    BY <1>2, <1>4, GraphFacts
  <2> HIDE DEF DI, DC
  <2> QED
    BY <1>1, <1>3, <2>1, <2>2, <2>3 DEF SameBase
<1>6. \A e \in Ops : ~ infoDirty[e] => e \in DI /\ (e \notin call.through => e \in DC)
  BY DEF Nodes
<1> HIDE DEF DI, DC
<1>7. /\ \A n \in DI : Anew(graph, dim, data, fixed)[n].info = Anew(graph, dim', data', fixed')[n].info
      /\ \A n \in DC : Anew(graph, dim, data, fixed)[n].content = Anew(graph, dim', data', fixed')[n].content
  BY <1>2, <1>5, SameParts
<1>8. Value = Anew(graph, dim, data, fixed) /\ Value' = Anew(graph, dim', data', fixed')
  BY <1>1 DEF Value
<1> QED
  BY <1>6, <1>7, <1>8

LEMMA WriteFresh ==
  ASSUME WellFormed, InformFresh, ShapesFresh, ContentsFresh, SessionsGood, NEW v, Write(v)
  PROVE  ShapesFresh' /\ ContentsFresh' /\ SessionsGood'
<1>1. /\ graph' = graph /\ fixed' = fixed /\ infoDirty' = infoDirty /\ info' = info /\ cache' = cache
      /\ caches' = caches /\ Ops' = Ops /\ call.do = "inform"
  BY DEF Write, kept, Ops
<1>2. ShapesFresh'
  BY <1>1, WriteValues DEF ShapesFresh
<1>3. ContentsFresh'
  <2> SUFFICES ASSUME NEW e \in Ops, cache[e] # NoCache, ~ caches[cache[e]].contentDirty
               PROVE  caches[cache[e]].held[e] = Value'[e].content
    BY <1>1 DEF ContentsFresh
  <2>1. ~ infoDirty[e]
    BY DEF WellFormed, ShapesTyped
  <2>2. e \notin call.through
    BY <1>1 DEF InformFresh
  <2> QED
    BY <2>1, <2>2, WriteValues DEF ContentsFresh
<1>4. SessionsGood'
  BY <1>1, SameCaches, SessionsStay DEF WellFormed
<1> QED
  BY <1>2, <1>3, <1>4

LEMMA ComputeInfoFresh ==
  ASSUME WellFormed, ShapesFresh, ContentsFresh, SessionsGood, AskFresh, NEW e, ComputeInfo(e),
         ~ \E m \in Range(InputsOf(e)) : InfoOf(m) = << 0 >>
  PROVE  ShapesFresh' /\ ContentsFresh' /\ SessionsGood' /\ Value' = Value
<1> DEFINE in == graph.in[e]
           shape == <<[i \in DOMAIN InputsOf(e) |-> InfoOf(InputsOf(e)[i])],
                      [i \in DOMAIN InputsOf(e) |->
                         IF i \in graph.shape[e] THEN call.got[InputsOf(e)[i]] ELSE Null]>>
<1>1. /\ IsAsked(e) /\ valid[e] /\ Wanted(e) = {}
      /\ infoDirty' = [infoDirty EXCEPT ![e] = FALSE] /\ info' = [info EXCEPT ![e] = shape]
      /\ graph' = graph /\ dim' = dim /\ data' = data /\ fixed' = fixed /\ cache' = cache /\ caches' = caches
      /\ Ops' = Ops
  BY DEF ComputeInfo, outside, Ops
<1>2. /\ call.do = "ask" /\ e \in Ops /\ infoDirty[e] /\ e \notin fixed
      /\ \A m \in Range(InputsOf(e)) : Known(m)
  BY <1>1, AskedFacts
<1>3. Typed /\ InputsOf(e) = in /\ Value' = Value
  BY <1>1, <1>2 DEF WellFormed, InputsOf, Value
<1>4. ASSUME NEW i \in DOMAIN in
      PROVE  /\ InfoOf(in[i]) = Value[in[i]].info /\ InfoOf(in[i]) \notin {Null, <<0>>}
             /\ i \in graph.shape[e] => call.got[in[i]] = Value[in[i]].content /\ Value[in[i]].content # Null
  <2>1. in[i] \in Nodes /\ in[i] \in Range(InputsOf(e))
    BY <1>2, <1>3, <1>4, Links DEF Range
  <2>2. InfoOf(in[i]) # <<0>> /\ Known(in[i])
    BY <1>2, <2>1
  <2>3. InfoOf(in[i]) = Value[in[i]].info /\ InfoOf(in[i]) # Null
    <3>1. CASE in[i] \in Leaves
      <4>1. <<dim[in[i]]>> # Null
        BY DEF Null
      <4> QED
        BY <1>3, <3>1, <4>1, ValueParts DEF InfoOf
    <3>2. CASE in[i] \notin Leaves
      <4>1. in[i] \in Ops /\ ~ infoDirty[in[i]]
        BY <2>1, <2>2, <3>2 DEF Nodes, Known
      <4> QED
        BY <3>2, <4>1 DEF InfoOf, ShapesFresh
    <3> QED
      BY <3>1, <3>2
  <2>4. i \in graph.shape[e] => in[i] \in DOMAIN call.got
    BY <1>1, <1>3, <2>2 DEF Wanted
  <2>5. i \in graph.shape[e] => call.got[in[i]] = Value[in[i]].content /\ Value[in[i]].content # Null
    BY <1>2, <2>4 DEF AskFresh
  <2> QED
    BY <2>2, <2>3, <2>5
<1>5. Value[e].info = shape
  <2>1. Value[e].info = Shape(graph, Value, e)
    BY <1>2, <1>3, ValueParts
  <2>2. graph.shape[e] \subseteq DOMAIN in
    BY <1>2, <1>3, Links, GraphFacts DEF Ops
  <2>3. Shape(graph, Value, e) = <<[i \in DOMAIN in |-> Value[in[i]].info],
           [i \in DOMAIN in |-> IF i \in graph.shape[e] THEN Value[in[i]].content ELSE Null]>>
    BY <1>4, <2>2 DEF Shape
  <2>4. [i \in DOMAIN in |-> Value[in[i]].info] = [i \in DOMAIN in |-> InfoOf(in[i])]
    BY <1>4
  <2>5. [i \in DOMAIN in |-> IF i \in graph.shape[e] THEN Value[in[i]].content ELSE Null]
          = [i \in DOMAIN in |-> IF i \in graph.shape[e] THEN call.got[in[i]] ELSE Null]
    BY <1>4
  <2> QED
    BY <1>3, <2>1, <2>3, <2>4, <2>5
<1>6. shape \notin {Null, <<0>>}
  BY DEF Null
<1> HIDE DEF shape
<1>7. /\ \A m \in Ops : infoDirty'[m] = (m # e /\ infoDirty[m])
      /\ \A m \in Ops : m # e => info'[m] = info[m]
      /\ info'[e] = shape
  BY <1>1, <1>2 DEF WellFormed, Typed
<1>8. ShapesFresh'
  BY <1>1, <1>3, <1>5, <1>6, <1>7 DEF ShapesFresh
<1>9. ContentsFresh'
  BY <1>1, <1>3 DEF ContentsFresh
<1>10. SessionsGood'
  <2> SUFFICES ASSUME NEW t \in Ops, cache[t] # NoCache
               PROVE  \E S \in SUBSET Ops : t \in S /\ GoodFor(S, caches[cache[t]])'
    BY <1>1, Zenon DEF SessionsGood
  <2>1. PICK S \in SUBSET Ops : t \in S /\ GoodFor(S, caches[cache[t]])
    BY DEF SessionsGood
  <2>2. \A m \in S : m \in Ops /\ ~ infoDirty'[m] /\ info'[m] = info[m] /\ ContentInputs(m)' = ContentInputs(m)
    BY <1>1, <1>2, <1>7, <2>1 DEF GoodFor, ContentInputs, InputsOf
  <2>3. GoodFor(S, caches[cache[t]])'
    BY <1>1, <2>1, <2>2 DEF GoodFor
  <2> QED
    BY <2>1, <2>3
<1> QED
  BY <1>3, <1>8, <1>9, <1>10

(***************************************************************************)
(* Every step keeps what is not dirty fresh.                               *)
(***************************************************************************)
Fresh ==
  /\ ShapesFresh /\ ContentsFresh /\ SessionsGood
  /\ AskFresh /\ HaveFresh /\ InformFresh

LEMMA GraphStays ==
  ASSUME Next
  PROVE  graph' = graph
<1> USE DEF outside, Fail
<1>1. ASSUME NEW l \in Leaves, NEW d \in Dims[l], Resize(l, d) \/ \E v \in Values : Input(l, d, v)
      PROVE  graph' = graph
  BY <1>1 DEF Resize, Input
<1>2. ASSUME NEW e \in Ops, NEW i \in DOMAIN graph.in[e],
             VisitForShape(e, i) \/ VisitForContent(e, i) \/ VisitForNothing(e, i)
      PROVE  graph' = graph
  BY <1>2 DEF VisitForShape, VisitForContent, VisitForNothing
<1>3. ASSUME NEW e \in Ops, (HasOp(e) /\ Ask(e)) \/ Refuse(e) \/ ComputeInfo(e) \/ ComputeOne(e)
      PROVE  graph' = graph
  BY <1>3 DEF Ask, Refuse, ComputeInfo, ComputeOne
<1>4. ASSUME NEW e \in Ops, NEW i \in DOMAIN graph.in[e],
             ReadConstant(e, i) \/ MakeCacheForShape(e, i) \/ ReadForShape(e, i)
      PROVE  graph' = graph
  BY <1>4 DEF ReadConstant, MakeCacheForShape, ReadForShape, MakeCache
<1>5. MakeCacheToRead \/ Read \/ Return \/ Fix => graph' = graph
  BY DEF MakeCacheToRead, MakeCache, Read, Return, Fix
<1>6. ASSUME NEW es, Prepare(es) PROVE graph' = graph
  BY <1>6 DEF Prepare, MakeCache
<1>7. (\E l \in Leaves : WriteMap(l)) \/ (\E v \in Values : Write(v)) \/ LoseMemory \/ RegainMemory => graph' = graph
  BY DEF WriteMap, Write, LoseMemory, RegainMemory
<1> QED
  BY <1>1, <1>2, <1>3, <1>4, <1>5, <1>6, <1>7 DEF Next

LEMMA FreshInit ==
  ASSUME Init
  PROVE  Fresh
BY DEF Init, Fresh, ShapesFresh, ContentsFresh, SessionsGood, AskFresh, HaveFresh, InformFresh, Nothing, NoCache

LEMMA IdleFresh ==
  ASSUME call' = Nothing \/ call' = Failed
  PROVE  AskFresh' /\ HaveFresh' /\ InformFresh'
BY DEF AskFresh, HaveFresh, InformFresh, Nothing, Failed

LEMMA AskingFresh ==
  ASSUME NEW n, NEW got, call' = Asking(n, got),
         \A m \in DOMAIN got : m \in Nodes' /\ got[m] = Value'[m].content /\ got[m] # Null
  PROVE  AskFresh' /\ HaveFresh' /\ InformFresh'
BY DEF AskFresh, HaveFresh, InformFresh, Asking

\* Where only what the call knows has changed.
LEMMA StillFresh ==
  ASSUME WellFormed, Fresh, SameShapes, UNCHANGED caches
  PROVE  ShapesFresh' /\ ContentsFresh' /\ SessionsGood' /\ Value' = Value /\ Nodes' = Nodes
<1>1. ShapesFresh' /\ SessionsGood' /\ Value' = Value
  BY SameCaches, SameLinksFresh DEF WellFormed, Fresh
<1>2. ContentsFresh'
  BY <1>1 DEF ContentsFresh, Fresh, SameShapes, Ops
<1> QED
  BY <1>1, <1>2 DEF SameShapes, Nodes, Leaves, Ops

LEMMA VisitForShapeFresh ==
  ASSUME WellFormed, Fresh, NEW e \in Ops, NEW i, VisitForShape(e, i)
  PROVE  Fresh'
<1> DEFINE es == Clean({e}) \cup DirtyOutputs(e)
<1>1. CanRestart(es, {}) /\ Restarts(es, {})
  BY VisitStep
<1>2. /\ graph' = graph /\ dim' = dim /\ data' = data /\ fixed' = fixed /\ Ops' = Ops /\ Leaves' = Leaves
      /\ call.do = "inform" /\ call' = Informing(call.of, call.through, call.seen \cup {e})
      /\ i \in DOMAIN InputsOf(e) /\ InputsOf(e)[i] \in call.through /\ i \in graph.shape[e]
  BY DEF VisitForShape, IsVisited, outside, Ops, Leaves
<1>3. ShapesFresh' /\ ContentsFresh' /\ SessionsGood'
  <2>1. /\ {} \in SUBSET Leaves /\ \A l \in Leaves \ {} : dim'[l] = dim[l] /\ data'[l] = data[l]
        /\ dim' = [l \in Leaves |-> dim'[l]] /\ data' = [l \in Leaves |-> data'[l]]
        /\ \A l \in {} : \A m \in Consumers(l) : m \in es \/ infoDirty[m]
    BY <1>2 DEF WellFormed, Typed
  <2> HIDE DEF es
  <2> QED
    BY <1>1, <2>1, RestartFresh DEF Fresh
<1>4. infoDirty'[e] /\ \A m \in Ops : infoDirty[m] => infoDirty'[m]
  BY <1>1 DEF Restarts, Clean, InfoIsDirty, WellFormed, Typed
<1>5. \A m \in Ops : cache'[m] # NoCache => cache'[m] = cache[m] /\ caches'[cache[m]] = caches[cache[m]]
  BY <1>1, RestartCaches DEF WellFormed
<1>6. \A m \in Ops : InputsOf(m)' = InputsOf(m)
  BY <1>2 DEF InputsOf
<1>7. /\ OneNeed(call.of) /\ call.of \in call.through /\ call.through \subseteq Flow(call.of)
      /\ \A m \in call.seen : m \in Ops /\ Visited(m)
      /\ \A m \in call.through \cap Ops : cache[m] # NoCache => caches[cache[m]].contentDirty
  BY <1>2 DEF Fresh, InformFresh
<1>8. call'.do = "inform" /\ call'.of = call.of /\ call'.through = call.through /\ call'.seen = call.seen \cup {e}
  BY <1>2 DEF Informing
<1>9. Flow(call.of)' = Flow(call.of)
  BY <1>2, <1>8 DEF Flow, Nodes
<1>10. \A m \in call.seen \cup {e} : m \in Ops /\ Visited(m)'
  <2>1. Visited(e)'
    BY <1>2, <1>4, <1>6, <1>8 DEF Visited
  <2>2. \A m \in call.seen : m \in Ops /\ Visited(m)'
    BY <1>2, <1>4, <1>6, <1>7, <1>8 DEF Visited
  <2> QED
    BY <2>1, <2>2
<1>13. OneNeed(call.of)'
  BY <1>2, <1>7, <1>8, <1>9 DEF OneNeed
<1>11. InformFresh'
  BY <1>2, <1>5, <1>7, <1>8, <1>9, <1>10, <1>13 DEF InformFresh
<1>12. AskFresh' /\ HaveFresh'
  BY <1>8 DEF AskFresh, HaveFresh
<1> QED
  BY <1>2, <1>3, <1>11, <1>12 DEF Fresh

LEMMA VisitOnFresh ==
  ASSUME WellFormed, Fresh, NEW e \in Ops, NEW i, VisitForContent(e, i) \/ VisitForNothing(e, i)
  PROVE  Fresh'
<1>1. /\ UNCHANGED <<outside, kept>> /\ call.do = "inform"
      /\ i \in DOMAIN InputsOf(e) /\ InputsOf(e)[i] \in call.through
      /\ call'.do = "inform" /\ call'.of = call.of /\ call'.seen = call.seen \cup {e}
      /\ call.through \subseteq call'.through /\ call'.through \subseteq call.through \cup {e}
      /\ e \in call'.through => e \in call.through \/ i \in graph.content[e]
      /\ i \in graph.shape[e] => infoDirty[e]
      /\ i \in graph.content[e] \ graph.shape[e] => e \in call'.through
  <2>1. CASE VisitForContent(e, i)
    <3>1. /\ UNCHANGED <<outside, kept>> /\ IsVisited(e, i) /\ i \in graph.content[e] \ graph.shape[e]
          /\ call' = Informing(call.of, call.through \cup {e}, call.seen \cup {e})
      BY <2>1 DEF VisitForContent
    <3>2. call.do = "inform" /\ i \in DOMAIN InputsOf(e) /\ InputsOf(e)[i] \in call.through
      BY <3>1 DEF IsVisited
    <3>3. /\ call'.do = "inform" /\ call'.of = call.of /\ call'.seen = call.seen \cup {e}
          /\ call'.through = call.through \cup {e}
      BY <3>1 DEF Informing
    <3> QED
      BY <3>1, <3>2, <3>3
  <2>2. CASE VisitForNothing(e, i)
    <3>1. /\ UNCHANGED <<outside, kept>> /\ IsVisited(e, i) /\ i \notin graph.content[e] \cup graph.shape[e]
          /\ call' = Informing(call.of, call.through, call.seen \cup {e})
      BY <2>2 DEF VisitForNothing
    <3>2. call.do = "inform" /\ i \in DOMAIN InputsOf(e) /\ InputsOf(e)[i] \in call.through
      BY <3>1 DEF IsVisited
    <3>3. /\ call'.do = "inform" /\ call'.of = call.of /\ call'.seen = call.seen \cup {e}
          /\ call'.through = call.through
      BY <3>1 DEF Informing
    <3> QED
      BY <3>1, <3>2, <3>3
  <2> QED
    BY <2>1, <2>2
<1>2. /\ graph' = graph /\ fixed' = fixed /\ Ops' = Ops /\ Leaves' = Leaves /\ Nodes' = Nodes
      /\ infoDirty' = infoDirty /\ cache' = cache /\ SameShapes
  BY <1>1 DEF outside, kept, Ops, Leaves, Nodes, SameShapes
<1>3. SameLinks /\ \A c \in DOMAIN caches :
        \/ caches'[c].contentDirty = TRUE
        \/ caches'[c] = caches[c]
  BY ContentVisitSame, SameCaches DEF VisitForNothing, WellFormed
<1>4. ShapesFresh' /\ SessionsGood' /\ Value' = Value
  BY <1>2, <1>3, SameLinksFresh DEF Fresh
<1>5. ContentsFresh'
  BY <1>2, <1>3, <1>4 DEF ContentsFresh, Fresh, WellFormed, ShapesTyped
<1>6. \A m \in Ops : InputsOf(m)' = InputsOf(m)
  BY <1>2 DEF InputsOf
<1>7. /\ OneNeed(call.of) /\ call.of \in call.through /\ call.through \subseteq Flow(call.of)
      /\ \A m \in call.seen : m \in Ops /\ Visited(m)
      /\ \A m \in call.through \cap Ops : cache[m] # NoCache => caches[cache[m]].contentDirty
  BY <1>1 DEF Fresh, InformFresh
<1>8. Flow(call.of)' = Flow(call.of)
  BY <1>1, <1>2 DEF Flow
<1>9. call'.through \subseteq Flow(call.of)
  <2>1. CASE e \in call'.through /\ e \notin call.through
    <3>1. i \in graph.content[e] /\ graph.in[e][i] \in Flow(call.of) /\ call.of \in Leaves
      BY <1>1, <1>7, <2>1, Links DEF WellFormed, CallTyped
    <3> QED
      BY <1>1, <1>7, <3>1, FlowFacts DEF WellFormed
  <2> QED
    BY <1>1, <1>7, <2>1
<1>10. \A m \in call.seen \cup {e} : m \in Ops /\ Visited(m)'
  <2>1. Visited(e)'
    BY <1>1, <1>2, <1>6 DEF Visited
  <2>2. \A m \in call.seen : m \in Ops /\ Visited(m)'
    BY <1>1, <1>2, <1>6, <1>7 DEF Visited
  <2> QED
    BY <2>1, <2>2
<1>11. \A m \in call'.through \cap Ops : cache[m] # NoCache => caches'[cache[m]].contentDirty
  <2> TAKE m \in call'.through \cap Ops
  <2> HAVE cache[m] # NoCache
  <2>1. cache[m] \in DOMAIN caches
    BY DEF WellFormed, ShapesTyped
  <2>2. CASE m \in call.through
    BY <1>3, <1>7, <2>1, <2>2
  <2>3. CASE m \notin call.through
    <3>1. m = e /\ VisitForContent(e, i)
      BY <1>1, <2>3 DEF VisitForNothing, Informing
    <3> QED
      BY <2>1, <3>1, ContentVisitSame
  <2> QED
    BY <2>2, <2>3
<1>14. OneNeed(call.of)'
  BY <1>1, <1>2, <1>7, <1>8 DEF OneNeed
<1>12. InformFresh'
  BY <1>1, <1>2, <1>7, <1>8, <1>9, <1>10, <1>11, <1>14 DEF InformFresh
<1>13. AskFresh' /\ HaveFresh'
  BY <1>1 DEF AskFresh, HaveFresh
<1> QED
  BY <1>2, <1>4, <1>5, <1>12, <1>13 DEF Fresh

LEMMA ReadForShapeFresh ==
  ASSUME WellFormed, Regular, Regular', Fresh, NEW e, NEW i, ReadForShape(e, i)
  PROVE  Fresh'
<1> DEFINE m == InputsOf(e)[i]
<1>1. /\ IsAsked(e) /\ HasOp(m) /\ cache[m] # NoCache
      /\ \/ Computes(cache[m]) /\ Got(m, caches'[cache[m]].held[m]) /\ UNCHANGED <<outside, kept>>
         \/ Stops(cache[m]) /\ Fail(Asked \ {e})
  BY DEF ReadForShape, IsRead
<1>2. SameShapes /\ m \in Ops /\ graph' = graph
  BY <1>1 DEF SameShapes, outside, kept, Fail, HasOp
<1>3. CASE Computes(cache[m]) /\ Got(m, caches'[cache[m]].held[m])
  <2> DEFINE answer == caches'[cache[m]].held[m]
             got == [n \in DOMAIN call.got \cup {m} |-> IF n = m THEN answer ELSE call.got[n]]
  <2>1. /\ ShapesFresh' /\ ContentsFresh' /\ SessionsGood' /\ Value' = Value
        /\ answer = Value[m].content /\ Value[m].content # Null
    BY <1>1, <1>2, <1>3, ComputesFresh DEF Fresh, Regular
  <2>2. call' = Asking(call.of, got)
    BY <1>3 DEF Got
  <2>3. \A n \in DOMAIN call.got : n \in Nodes /\ call.got[n] = Value[n].content /\ call.got[n] # Null
    BY <1>1 DEF Fresh, AskFresh, IsAsked
  <2>4. Nodes' = Nodes /\ m \in Nodes
    BY <1>2 DEF Nodes, Leaves, Ops
  <2> HIDE DEF answer, m
  <2>5. \A n \in DOMAIN got : n \in Nodes' /\ got[n] = Value'[n].content /\ got[n] # Null
    BY <2>1, <2>3, <2>4
  <2> HIDE DEF got
  <2>6. AskFresh' /\ HaveFresh' /\ InformFresh'
    BY <2>2, <2>5, AskingFresh
  <2> QED
    BY <1>2, <2>1, <2>6 DEF Fresh
<1>4. CASE Stops(cache[m]) /\ Fail(Asked \ {e})
  <2>1. ShapesFresh' /\ ContentsFresh' /\ SessionsGood'
    BY <1>1, <1>2, <1>4, StopsFresh DEF Fresh, Regular
  <2> QED
    BY <1>2, <1>4, <2>1, IdleFresh DEF Fresh, Fail
<1> QED
  BY <1>1, <1>3, <1>4

LEMMA ReadConstantFresh ==
  ASSUME WellFormed, Regular, Fresh, NEW e, NEW i, ReadConstant(e, i)
  PROVE  Fresh'
<1> DEFINE m == InputsOf(e)[i]
           content == IF m \in Leaves THEN data[m] ELSE Atom(m)
<1>1. /\ IsAsked(e) /\ i \in DOMAIN InputsOf(e) /\ ~ HasOp(m) /\ caches' = caches
      /\ IF content = Null THEN Fail(Asked \ {e}) ELSE Got(m, content) /\ UNCHANGED <<outside, kept>>
  <2>1. content = IF m \in Leaves THEN data[m] ELSE Constant(m, m \in overwritten)
    BY DEF Constant, Regular
  <2> QED
    BY <2>1 DEF ReadConstant, IsRead, Wanted
<1>2. SameShapes /\ graph' = graph
  BY <1>1 DEF SameShapes, outside, kept, Fail
<1>3. ShapesFresh' /\ ContentsFresh' /\ SessionsGood' /\ Value' = Value /\ Nodes' = Nodes
  BY <1>1, <1>2, StillFresh
<1>4. CASE content = Null
  BY <1>1, <1>2, <1>3, <1>4, IdleFresh DEF Fresh, Fail
<1>5. CASE content # Null
  <2> DEFINE got == [n \in DOMAIN call.got \cup {m} |-> IF n = m THEN content ELSE call.got[n]]
  <2>1. call' = Asking(call.of, got)
    BY <1>1, <1>5 DEF Got
  <2>2. m \in Nodes /\ content = Value[m].content
    <3>1. e \in Ops /\ m \in Nodes
      BY <1>1, AskedFacts, Links DEF WellFormed
    <3>2. CASE m \in Leaves
      BY <3>1, <3>2, ValueParts DEF WellFormed
    <3>3. CASE m \notin Leaves
      BY <1>1, <3>1, <3>3, ValueParts DEF WellFormed, Nodes, HasOp
    <3> QED
      BY <3>2, <3>3
  <2>3. \A n \in DOMAIN call.got : n \in Nodes /\ call.got[n] = Value[n].content /\ call.got[n] # Null
    BY <1>1 DEF Fresh, AskFresh, IsAsked
  <2> HIDE DEF content, m
  <2>4. \A n \in DOMAIN got : n \in Nodes' /\ got[n] = Value'[n].content /\ got[n] # Null
    BY <1>3, <1>5, <2>2, <2>3
  <2> HIDE DEF got
  <2>5. AskFresh' /\ HaveFresh' /\ InformFresh'
    BY <2>1, <2>4, AskingFresh
  <2> QED
    BY <1>2, <1>3, <2>5 DEF Fresh
<1> QED
  BY <1>4, <1>5

LEMMA MakeFresh ==
  ASSUME WellFormed, Fresh, NEW targets, CanMake(targets), MakeCache(targets)
  PROVE  ShapesFresh' /\ ContentsFresh' /\ SessionsGood' /\ Value' = Value /\ Nodes' = Nodes
<1>1. graph' = graph
  BY DEF MakeCache, outside
<1>2. Nodes' = Nodes
  BY <1>1 DEF Nodes, Leaves, Ops
<1> QED
  BY <1>2, MakeCacheFresh DEF Fresh

LEMMA StillAsking ==
  ASSUME WellFormed, Fresh, call' = call, call.do = "ask", Value' = Value, Nodes' = Nodes
  PROVE  AskFresh' /\ HaveFresh' /\ InformFresh'
<1>1. AskFresh'
  BY DEF Fresh, AskFresh
<1>2. HaveFresh' /\ InformFresh'
  BY DEF HaveFresh, InformFresh
<1> QED
  BY <1>1, <1>2

LEMMA FixFresh ==
  ASSUME WellFormed, Fresh, Fix
  PROVE  Fresh'
<1> DEFINE es == Outputs(call.of, Ops)
<1>1. CanRestart(es, {call.of}) /\ Restarts(es, {call.of})
  BY FixStep
<1>2. graph' = graph /\ dim' = dim /\ data' = data /\ call' = Nothing
  BY DEF Fix
<1>3. /\ {} \in SUBSET Leaves /\ \A l \in Leaves \ {} : dim'[l] = dim[l] /\ data'[l] = data[l]
      /\ dim' = [l \in Leaves |-> dim'[l]] /\ data' = [l \in Leaves |-> data'[l]]
      /\ \A l \in {} : \A m \in Consumers(l) : m \in es \/ infoDirty[m]
  BY <1>2 DEF WellFormed, Typed
<1> HIDE DEF es
<1>4. ShapesFresh' /\ ContentsFresh' /\ SessionsGood'
  BY <1>1, <1>3, RestartFresh DEF Fresh
<1> QED
  BY <1>2, <1>4, IdleFresh DEF Fresh

\* Resize and input: one leaf changes, and what uses it starts anew.
LEMMA LeafFresh ==
  ASSUME WellFormed, Fresh, NEW l \in Leaves, graph' = graph, fixed' = fixed, SetInfoDirty(DirtyOutputs(l)),
         \A k \in Leaves : k # l => dim'[k] = dim[k] /\ data'[k] = data[k],
         dim' = [k \in Leaves |-> dim'[k]], data' = [k \in Leaves |-> data'[k]], call' = Nothing
  PROVE  Fresh'
<1> DEFINE es == DirtyOutputs(l)
<1>1. CanRestart(es, {}) /\ Restarts(es, {}) /\ \A m \in Consumers(l) : m \in es \/ infoDirty[m]
  BY DirtyOutputsRestart, SetInfoDirtyRestarts DEF WellFormed
<1>2. /\ {l} \in SUBSET Leaves /\ \A k \in Leaves \ {l} : dim'[k] = dim[k] /\ data'[k] = data[k]
      /\ \A k \in {l} : \A m \in Consumers(k) : m \in es \/ infoDirty[m]
  BY <1>1
<1> HIDE DEF es
<1>3. ShapesFresh' /\ ContentsFresh' /\ SessionsGood'
  BY <1>1, <1>2, RestartFresh DEF Fresh
<1> QED
  BY <1>3, IdleFresh DEF Fresh

LEMMA FreshNext ==
  ASSUME WellFormed, Regular, Regular', Fresh, Next
  PROVE  Fresh'
<1> USE DEF SameShapes
<1>1. ASSUME NEW l \in Leaves, NEW d \in Dims[l], Resize(l, d) PROVE Fresh'
  <2>1. /\ graph' = graph /\ fixed' = fixed /\ SetInfoDirty(DirtyOutputs(l)) /\ call' = Nothing
        /\ \A k \in Leaves : k # l => dim'[k] = dim[k] /\ data'[k] = data[k]
        /\ dim' = [k \in Leaves |-> dim'[k]] /\ data' = [k \in Leaves |-> data'[k]]
    BY <1>1 DEF Resize, WellFormed, Typed
  <2> QED
    BY <2>1, LeafFresh
<1>2. ASSUME NEW l \in Leaves, NEW d \in Dims[l], NEW v \in Values, Input(l, d, v) PROVE Fresh'
  <2>1. /\ graph' = graph /\ fixed' = fixed /\ SetInfoDirty(DirtyOutputs(l)) /\ call' = Nothing
        /\ \A k \in Leaves : k # l => dim'[k] = dim[k] /\ data'[k] = data[k]
        /\ dim' = [k \in Leaves |-> dim'[k]] /\ data' = [k \in Leaves |-> data'[k]]
    BY <1>2 DEF Input, WellFormed, Typed
  <2> QED
    BY <2>1, LeafFresh
<1>3. ASSUME NEW l \in Leaves, WriteMap(l) PROVE Fresh'
  <2>1. UNCHANGED <<outside, kept, caches>> /\ call' = Informing(l, {l}, {})
    BY <1>3 DEF WriteMap
  <2>2. ShapesFresh' /\ ContentsFresh' /\ SessionsGood' /\ graph' = graph
    BY <2>1, StillFresh DEF outside, kept
  <2>3. call'.do = "inform" /\ call'.of = l /\ call'.through = {l} /\ call'.seen = {}
    BY <2>1 DEF Informing
  <2>4. Flow(l)' = Flow(l) /\ Leaves' = Leaves /\ Ops' = Ops
    BY <2>2, Zenon DEF Flow, Nodes, Leaves, Ops
  <2>5. l \in Flow(l) /\ l \notin Ops
    BY FlowFacts, Links DEF WellFormed
  <2>7. OneNeed(l)
    BY <1>3, Zenon DEF WriteMap, Regular
  <2>8. OneNeed(call.of)'
    BY <2>2, <2>3, <2>4, <2>7 DEF OneNeed
  <2>6. InformFresh' /\ AskFresh' /\ HaveFresh'
    BY <2>3, <2>4, <2>5, <2>8 DEF InformFresh, AskFresh, HaveFresh
  <2> QED
    BY <2>2, <2>6 DEF Fresh
<1>4. ASSUME NEW e \in Ops, NEW i \in DOMAIN graph.in[e],
             VisitForShape(e, i) \/ VisitForContent(e, i) \/ VisitForNothing(e, i)
      PROVE  Fresh'
  BY <1>4, VisitForShapeFresh, VisitOnFresh
<1>5. ASSUME NEW v \in Values, Write(v) PROVE Fresh'
  <2>1. ShapesFresh' /\ ContentsFresh' /\ SessionsGood' /\ call' = Nothing /\ graph' = graph
    BY <1>5, WriteFresh DEF Fresh, Write
  <2> QED
    BY <2>1, IdleFresh DEF Fresh
<1>6. ASSUME NEW e \in Ops, Ask(e) PROVE Fresh'
  <2>1. UNCHANGED <<outside, kept, caches>> /\ call' = Asking(e, <<>>)
    BY <1>6 DEF Ask
  <2>2. ShapesFresh' /\ ContentsFresh' /\ SessionsGood' /\ graph' = graph
    BY <2>1, StillFresh DEF outside, kept
  <2>3. AskFresh' /\ HaveFresh' /\ InformFresh'
    BY <2>1, AskingFresh
  <2> QED
    BY <2>2, <2>3 DEF Fresh
<1>7. ASSUME NEW e \in Ops, Refuse(e) PROVE Fresh'
  <2>1. UNCHANGED <<outside, infoDirty, info, cache, caches>> /\ call' = Failed
    BY <1>7 DEF Refuse, Fail
  <2>2. ShapesFresh' /\ ContentsFresh' /\ SessionsGood' /\ graph' = graph
    BY <2>1, StillFresh DEF outside
  <2> QED
    BY <2>1, <2>2, IdleFresh DEF Fresh
<1>8. ASSUME NEW e \in Ops, ComputeInfo(e) PROVE Fresh'
  <2>1. CASE \E m \in Range(InputsOf(e)) : InfoOf(m) = << 0 >>
    <3>1. UNCHANGED <<outside, infoDirty, info, cache, caches>> /\ call' = Failed
      BY <1>8, <2>1 DEF ComputeInfo, Fail
    <3>2. ShapesFresh' /\ ContentsFresh' /\ SessionsGood' /\ graph' = graph
      BY <3>1, StillFresh DEF outside
    <3> QED
      BY <3>1, <3>2, IdleFresh DEF Fresh
  <2>2. CASE ~ \E m \in Range(InputsOf(e)) : InfoOf(m) = << 0 >>
    <3>1. ShapesFresh' /\ ContentsFresh' /\ SessionsGood'
      BY <1>8, <2>2, ComputeInfoFresh DEF Fresh
    <3>2. call' = Asking(call.of, <<>>) /\ graph' = graph
      BY <1>8, <2>2 DEF ComputeInfo, outside
    <3>3. AskFresh' /\ HaveFresh' /\ InformFresh'
      BY <3>2, AskingFresh
    <3> QED
      BY <3>1, <3>2, <3>3 DEF Fresh
  <2> QED
    BY <2>1, <2>2
<1>9. ASSUME NEW e \in Ops, ComputeOne(e) PROVE Fresh'
  <2>1. /\ UNCHANGED <<outside, kept>> /\ call.do = "compute" /\ e \in call.es
        /\ Computes(cache[e]) \/ Stops(cache[e])
        /\ call' = Nothing \/ call' = Computing(call.es \ {e})
    BY <1>9 DEF ComputeOne
  <2>2. cache[e] # NoCache /\ UNCHANGED <<graph, dim, data, fixed, infoDirty, info, cache>>
    BY <2>1 DEF WellFormed, CallTyped, outside, kept
  <2>3. ShapesFresh' /\ ContentsFresh' /\ SessionsGood'
    BY <2>1, <2>2, ComputesFresh, StopsFresh DEF Fresh, Regular
  <2>4. AskFresh' /\ HaveFresh' /\ InformFresh'
    BY <2>1 DEF AskFresh, HaveFresh, InformFresh, Nothing, Computing
  <2> QED
    BY <2>2, <2>3, <2>4 DEF Fresh
<1>10. ASSUME NEW e \in Ops, NEW i \in DOMAIN graph.in[e], ReadConstant(e, i) \/ ReadForShape(e, i)
       PROVE  Fresh'
  BY <1>10, ReadConstantFresh, ReadForShapeFresh
<1>11. ASSUME NEW e \in Ops, NEW i \in DOMAIN graph.in[e], MakeCacheForShape(e, i) PROVE Fresh'
  <2>1. CanMake({InputsOf(e)[i]}) /\ MakeCache({InputsOf(e)[i]}) /\ call' = call /\ call.do = "ask"
    BY <1>11, MakeForShape DEF MakeCacheForShape, IsRead, IsAsked
  <2>2. ShapesFresh' /\ ContentsFresh' /\ SessionsGood' /\ Value' = Value /\ Nodes' = Nodes
    BY <2>1, MakeFresh
  <2> QED
    BY <2>1, <2>2, StillAsking DEF Fresh
<1>12. ASSUME MakeCacheToRead PROVE Fresh'
  <2>1. CanMake({call.of}) /\ MakeCache({call.of}) /\ call' = call /\ call.do = "ask"
    BY <1>12, MakeToRead DEF MakeCacheToRead
  <2>2. ShapesFresh' /\ ContentsFresh' /\ SessionsGood' /\ Value' = Value /\ Nodes' = Nodes
    BY <2>1, MakeFresh
  <2> QED
    BY <2>1, <2>2, StillAsking DEF Fresh
<1>13. ASSUME Read PROVE Fresh'
  <2>1. /\ UNCHANGED <<graph, dim, data, fixed, infoDirty, info, cache>>
        /\ call.do = "ask" /\ cache[call.of] # NoCache /\ call.of \in Ops
        /\ \/ Computes(cache[call.of]) /\ call' = Having(call.of)
           \/ Stops(cache[call.of]) /\ call' = Failed
    BY <1>13 DEF Read, outside, kept, WellFormed, CallTyped, HasOp
  <2>2. CASE Computes(cache[call.of]) /\ call' = Having(call.of)
    <3>1. /\ ShapesFresh' /\ ContentsFresh' /\ SessionsGood' /\ Value' = Value
          /\ caches'[cache[call.of]].held[call.of] = Value[call.of].content /\ Value[call.of].content # Null
      BY <2>1, <2>2, ComputesFresh DEF Fresh, Regular
    <3>2. call'.do = "have" /\ call'.of = call.of
      BY <2>2 DEF Having
    <3>3. AskFresh' /\ HaveFresh' /\ InformFresh'
      BY <2>1, <3>1, <3>2 DEF AskFresh, HaveFresh, InformFresh
    <3> QED
      BY <2>1, <3>1, <3>3 DEF Fresh
  <2>3. CASE Stops(cache[call.of]) /\ call' = Failed
    <3>1. ShapesFresh' /\ ContentsFresh' /\ SessionsGood'
      BY <2>1, <2>3, StopsFresh DEF Fresh, Regular
    <3> QED
      BY <2>1, <2>3, <3>1, IdleFresh DEF Fresh
  <2> QED
    BY <2>1, <2>2, <2>3
<1>14. ASSUME Return PROVE Fresh'
  <2>1. UNCHANGED <<outside, kept, caches>> /\ call' = Nothing
    BY <1>14 DEF Return
  <2>2. ShapesFresh' /\ ContentsFresh' /\ SessionsGood' /\ graph' = graph
    BY <2>1, StillFresh DEF outside, kept
  <2> QED
    BY <2>1, <2>2, IdleFresh DEF Fresh
<1>15. ASSUME Fix PROVE Fresh'
  BY <1>15, FixFresh
<1>16. ASSUME NEW es \in SUBSET {e \in Ops : HasOp(e)}, es # {} /\ Prepare(es) PROVE Fresh'
  <2> DEFINE new == {e \in es : cache[e] = NoCache}
  <2>1. CanMake(new) /\ (new # {} => MakeCache(new))
    BY <1>16, PrepareStep
  <2>2. call' = Computing(es)
    BY <1>16 DEF Prepare
  <2>3. AskFresh' /\ HaveFresh' /\ InformFresh'
    BY <2>2 DEF AskFresh, HaveFresh, InformFresh, Computing
  <2>4. CASE new = {}
    <3>1. UNCHANGED <<outside, kept, caches>>
      BY <1>16, <2>4 DEF Prepare
    <3>2. ShapesFresh' /\ ContentsFresh' /\ SessionsGood' /\ graph' = graph
      BY <3>1, StillFresh DEF outside, kept
    <3> QED
      BY <2>3, <3>2 DEF Fresh
  <2>5. CASE new # {}
    <3> HIDE DEF new
    <3>1. ShapesFresh' /\ ContentsFresh' /\ SessionsGood'
      BY <2>1, <2>5, MakeFresh
    <3> QED
      BY <2>3, <3>1 DEF Fresh
  <2> QED
    BY <2>4, <2>5
<1>17. ASSUME LoseMemory \/ RegainMemory PROVE Fresh'
  <2>1. UNCHANGED <<graph, dim, data, fixed, kept, caches>> /\ call' = Nothing
    BY <1>17 DEF LoseMemory, RegainMemory
  <2>2. ShapesFresh' /\ ContentsFresh' /\ SessionsGood' /\ graph' = graph
    BY <2>1, StillFresh DEF kept
  <2> QED
    BY <2>1, <2>2, IdleFresh DEF Fresh
<1> QED
  BY <1>1, <1>2, <1>3, <1>4, <1>5, <1>6, <1>7, <1>8, <1>9, <1>10, <1>11, <1>12, <1>13, <1>14,
     <1>15, <1>16, <1>17 DEF Next

LEMMA FreshStays ==
  ASSUME WellFormed, Fresh, UNCHANGED vars
  PROVE  Fresh'
<1>1. UNCHANGED <<outside, kept, caches, call>>
  BY DEF vars
<1>2. ShapesFresh' /\ ContentsFresh' /\ SessionsGood' /\ Value' = Value /\ Nodes' = Nodes /\ graph' = graph
  BY <1>1, StillFresh DEF SameShapes, outside, kept
<1>3. Ops' = Ops /\ Leaves' = Leaves /\ fixed' = fixed /\ infoDirty' = infoDirty /\ cache' = cache
      /\ caches' = caches /\ call' = call
  BY <1>1 DEF outside, kept, Ops, Leaves
<1>4. AskFresh' /\ HaveFresh'
  BY <1>2, <1>3 DEF Fresh, AskFresh, HaveFresh
<1>5. \A l : OneNeed(l)' <=> OneNeed(l)
  <2>1. \A l : Flow(l)' = Flow(l)
    BY <1>2, <1>3, Zenon DEF Flow
  <2> QED
    BY <1>2, <1>3, <2>1 DEF OneNeed
<1>6. InformFresh'
  <2>1. \A e : Visited(e)' <=> Visited(e)
    BY <1>2, <1>3 DEF Visited, InputsOf
  <2>2. \A l : Flow(l)' = Flow(l)
    BY <1>2, <1>3, Zenon DEF Flow
  <2> QED
    BY <1>3, <1>5, <2>1, <2>2 DEF Fresh, InformFresh
<1> QED
  BY <1>2, <1>4, <1>6 DEF Fresh

\* What was irregular or hasty before remains so.
LEMMA HistoryGrows ==
  ASSUME [Next]_vars
  PROVE  overwritten \subseteq overwritten' /\ (mixed => mixed') /\ (hasty => hasty')
<1> DEFINE Grows == overwritten \subseteq overwritten' /\ (mixed => mixed') /\ (hasty => hasty')
<1> USE DEF history
<1>1. UNCHANGED history => Grows
  OBVIOUS
<1>2. ASSUME NEW c, Computes(c) \/ Stops(c) PROVE Grows
  <2>1. ASSUME NEW ran, Runs(c, ran) PROVE Grows
    BY <2>1 DEF Runs
  <2> QED
    BY <1>1, <1>2, <2>1 DEF Computes, Stops
<1>3. ASSUME NEW targets, MakeCache(targets) PROVE UNCHANGED <<overwritten, mixed>>
  BY <1>3 DEF MakeCache
<1> HIDE DEF history
<1>4. ASSUME NEW l \in Leaves, NEW d \in Dims[l], Resize(l, d) \/ \E v \in Values : Input(l, d, v)
      PROVE  Grows
  <2>1. CASE Resize(l, d)
    BY <1>1, <2>1 DEF Resize
  <2>2. ASSUME NEW v \in Values, Input(l, d, v) PROVE Grows
    <3>1. overwritten' = overwritten /\ mixed' = mixed
      BY <2>2 DEF Input
    <3>2. hasty => hasty'
      BY <2>2, Zenon DEF Input
    <3> QED
      BY <3>1, <3>2
  <2> QED
    BY <1>4, <2>1, <2>2
<1>5. ASSUME NEW l \in Leaves, WriteMap(l) PROVE Grows
  <2>1. overwritten' = overwritten /\ hasty' = hasty
    BY <1>5 DEF WriteMap
  <2>2. mixed => mixed'
    BY <1>5, Zenon DEF WriteMap
  <2> QED
    BY <2>1, <2>2
<1>6. ASSUME NEW e \in Ops, NEW i \in DOMAIN graph.in[e],
             VisitForShape(e, i) \/ VisitForContent(e, i) \/ VisitForNothing(e, i)
      PROVE  Grows
  BY <1>1, <1>6 DEF VisitForShape, VisitForContent, VisitForNothing
<1>7. ASSUME NEW v \in Values, Write(v) PROVE Grows
  BY <1>1, <1>7 DEF Write
<1>8. ASSUME NEW e \in Ops, (HasOp(e) /\ Ask(e)) \/ Refuse(e) \/ ComputeInfo(e) \/ ComputeOne(e) PROVE Grows
  BY <1>1, <1>2, <1>8 DEF Ask, Refuse, ComputeInfo, ComputeOne
<1>9. ASSUME NEW e \in Ops, NEW i \in DOMAIN graph.in[e],
             ReadConstant(e, i) \/ MakeCacheForShape(e, i) \/ ReadForShape(e, i)
      PROVE  Grows
  BY <1>1, <1>2, <1>3, <1>9 DEF ReadConstant, MakeCacheForShape, ReadForShape
<1>10. MakeCacheToRead \/ Read \/ Return \/ Fix => Grows
  BY <1>1, <1>2, <1>3 DEF MakeCacheToRead, Read, Return, Fix
<1>11. ASSUME NEW es, Prepare(es) PROVE Grows
  <2>1. overwritten' = overwritten /\ mixed' = mixed
    BY <1>3, <1>11 DEF Prepare
  <2>2. hasty => hasty'
    BY <1>11, Zenon DEF Prepare
  <2> QED
    BY <2>1, <2>2
<1>12. LoseMemory \/ RegainMemory => Grows
  BY <1>1 DEF LoseMemory, RegainMemory
<1>13. UNCHANGED vars => Grows
  BY <1>1 DEF vars
<1> HIDE DEF Grows
<1>14. Next => Grows
  BY <1>4, <1>5, <1>6, <1>7, <1>8, <1>9, <1>10, <1>11, <1>12 DEF Next
<1> QED
  BY <1>13, <1>14 DEF Grows

\* A shape that is not dirty and the content of a cache that is not dirty are what
\* computing the whole graph anew gives, whatever was written, resized, read,
\* prepared and fixed, and however memory ran out, until a session writes over a
\* constant or a content is written that an operator needs in two ways.
THEOREM CleanIsAlwaysFresh == Spec => []CleanIsFresh
<1> DEFINE Inv == WellFormed /\ (Regular => Fresh)
<1>1. Init => Inv
  BY WellFormedInit, FreshInit
<1>2. Inv /\ [Next]_vars => Inv'
  <2> SUFFICES ASSUME Inv, [Next]_vars PROVE Inv'
    OBVIOUS
  <2>1. Regular' => Regular
    BY HistoryGrows DEF Regular
  <2>2. WellFormed'
    BY WellFormedNext, WellFormedStays
  <2>3. Regular' => Fresh'
    BY <2>1, FreshNext, FreshStays
  <2> QED
    BY <2>2, <2>3
<1>3. Inv => CleanIsFresh
  BY DEF Fresh, ShapesFresh, ContentsFresh, CleanIsFresh
<1> QED
  BY <1>1, <1>2, <1>3, PTL DEF Spec

(***************************************************************************)
(* What is reached, from where and by which ways.                          *)
(***************************************************************************)
\* What is reached from several is reached from one of them.
LEMMA ReachedOne ==
  ASSUME NEW S, NEW from \in SUBSET S, NEW next, \A x \in S : next[x] \subseteq S,
         NEW x \in Reached(S, from, next)
  PROVE  \E z \in from : x \in Reached(S, {z}, next)
<1> DEFINE T == {y \in S : \E z \in from : y \in Reached(S, {z}, next)}
<1>1. from \subseteq T
  <2>1. \A z \in from : {z} \subseteq S /\ z \in S
    OBVIOUS
  <2>2. \A z \in from : z \in Reached(S, {z}, next)
    BY <2>1, ReachedHas
  <2> QED
    BY <2>1, <2>2
<1>2. \A y \in T : next[y] \subseteq T
  <2> TAKE y \in T
  <2>1. PICK z \in from : y \in Reached(S, {z}, next)
    OBVIOUS
  <2>2. \A u \in next[y] : u \in S /\ u \in Reached(S, {z}, next)
    BY <2>1, ReachedOn
  <2> QED
    BY <2>2
<1>3. Reached(S, from, next) \subseteq T
  <2>1. T \in SUBSET S
    OBVIOUS
  <2> HIDE DEF T
  <2> QED
    BY <1>1, <1>2, <2>1, ReachedLeast
<1> QED
  BY <1>3

\* The nodes that z leads to are z, and what the next ones lead to.
LEMMA ReachedFirst ==
  ASSUME NEW S, NEW z \in S, NEW next, \A x \in S : next[x] \subseteq S,
         NEW x \in Reached(S, {z}, next)
  PROVE  x = z \/ \E y \in next[z] : x \in Reached(S, {y}, next)
<1> DEFINE T == {u \in S : u = z \/ \E y \in next[z] : u \in Reached(S, {y}, next)}
<1>1. {z} \subseteq T
  OBVIOUS
<1>2. \A u \in T : next[u] \subseteq T
  <2> TAKE u \in T
  <2>1. CASE u = z
    <3>1. \A y \in next[z] : y \in S /\ y \in Reached(S, {y}, next)
      <4> TAKE y \in next[z]
      <4>1. {y} \subseteq S
        OBVIOUS
      <4> QED
        BY <4>1, ReachedHas
    <3> QED
      BY <2>1, <3>1
  <2>2. CASE \E y \in next[z] : u \in Reached(S, {y}, next)
    <3>1. PICK y \in next[z] : u \in Reached(S, {y}, next)
      BY <2>2
    <3>2. \A v \in next[u] : v \in S /\ v \in Reached(S, {y}, next)
      BY <3>1, ReachedOn
    <3> QED
      BY <3>2
  <2> QED
    BY <2>1, <2>2
<1>3. Reached(S, {z}, next) \subseteq T
  <2>1. T \in SUBSET S
    OBVIOUS
  <2> HIDE DEF T
  <2> QED
    BY <1>1, <1>2, <2>1, ReachedLeast
<1> QED
  BY <1>3

\* What is reached from there is reached.
LEMMA ReachedThere ==
  ASSUME NEW S, NEW from, NEW next, \A x \in S : next[x] \subseteq S,
         NEW to, to \subseteq Reached(S, from, next)
  PROVE  Reached(S, to, next) \subseteq Reached(S, from, next)
<1>1. Reached(S, from, next) \in SUBSET S
  BY ReachedIn
<1>2. \A x \in Reached(S, from, next) : next[x] \subseteq Reached(S, from, next)
  BY <1>1, ReachedOn
<1> QED
  BY <1>1, <1>2, ReachedLeast

\* Fewer ways lead to no more.
LEMMA ReachedLess ==
  ASSUME NEW S1, NEW S2, NEW from, from \subseteq S1, from \subseteq S2, NEW next1, NEW next2,
         \A x \in S1 : next1[x] \subseteq S1,
         \A x \in S1 : x \in Reached(S2, from, next2) => next1[x] \subseteq next2[x] /\ next1[x] \subseteq S2
  PROVE  Reached(S1, from, next1) \subseteq Reached(S2, from, next2)
<1> DEFINE T == {x \in S1 : x \in Reached(S2, from, next2)}
<1>1. from \subseteq T
  BY ReachedHas
<1>2. \A x \in T : next1[x] \subseteq T
  <2> TAKE x \in T
  <2>1. \A y \in next1[x] : y \in next2[x] /\ y \in S2 /\ y \in S1
    OBVIOUS
  <2> QED
    BY <2>1, ReachedOn
<1>3. T \in SUBSET S1
  OBVIOUS
<1> HIDE DEF T
<1>4. Reached(S1, from, next1) \subseteq T
  BY <1>1, <1>2, <1>3, ReachedLeast
<1> QED
  BY <1>4 DEF T

\* From what a content is computed.
ContentBack == [m \in Nodes |-> IF HasOp(m) THEN ContentInputs(m) ELSE {}]

LEMMA ContentBackIs ==
  ASSUME Typed
  PROVE  /\ \A m \in Nodes : ContentBack[m] \subseteq Nodes
         /\ \A m \in Nodes : ContentBack[m] = ContentInputs(m) \/ (m \in Leaves /\ ContentBack[m] = {})
         /\ \A m \in Ops : ContentBack[m] = ContentInputs(m)
         /\ \A ns : ContentBehind(ns) = Reached(Nodes, ns, ContentBack)
<1>1. \A m \in Ops : ContentInputs(m) \subseteq Nodes /\ (~ HasOp(m) => ContentInputs(m) = {})
  BY Links DEF ContentInputs, InputsOf, HasOp
<1>2. \A m \in Nodes : ContentBack[m] = IF HasOp(m) THEN ContentInputs(m) ELSE {}
  BY DEF ContentBack
<1>3. \A m \in Nodes : (HasOp(m) => m \in Ops) /\ (m \in Leaves \/ m \in Ops)
  BY DEF HasOp, Nodes
<1>4. \A m \in Ops : m \in Nodes
  BY DEF Nodes
<1>5. \A ns : ContentBehind(ns) = Reached(Nodes, ns, ContentBack)
  BY DEF ContentBehind, ContentBack
<1> QED
  BY <1>1, <1>2, <1>3, <1>4, <1>5

LEMMA ContentBehindFacts ==
  ASSUME Typed, NEW ns \in SUBSET Nodes
  PROVE  /\ ns \subseteq ContentBehind(ns) /\ ContentBehind(ns) \subseteq Nodes
         /\ \A m \in ContentBehind(ns) : m \in Ops => ContentInputs(m) \subseteq ContentBehind(ns)
         /\ \A ms \in SUBSET ContentBehind(ns) : ContentBehind(ms) \subseteq ContentBehind(ns)
<1>1. /\ \A m \in Nodes : ContentBack[m] \subseteq Nodes
      /\ \A m \in Ops : ContentBack[m] = ContentInputs(m)
      /\ \A ms : ContentBehind(ms) = Reached(Nodes, ms, ContentBack)
  BY ContentBackIs
<1>2. ns \subseteq ContentBehind(ns) /\ ContentBehind(ns) \subseteq Nodes
  BY <1>1, ReachedHas, ReachedIn
<1>3. \A m \in ContentBehind(ns) : \A x \in ContentBack[m] : x \in ContentBehind(ns)
  BY <1>1, <1>2, ReachedOn
<1>4. \A ms \in SUBSET ContentBehind(ns) : ContentBehind(ms) \subseteq ContentBehind(ns)
  BY <1>1, ReachedThere
<1> QED
  BY <1>1, <1>2, <1>3, <1>4

\* What a shape depends on is computed from what the shape depends on.
LEMMA ForShapeBack ==
  ASSUME Typed, NEW t \in Ops, ForShape(t), NEW x \in Ops, x \in ContentBehind({t})
  PROVE  ForShape(x)
<1>1. PICK f \in Ops : t \in ContentBehind(ShapeInputs(f))
  BY DEF ForShape
<1>2. ShapeInputs(f) \in SUBSET Nodes
  BY Links
<1>3. ContentBehind({t}) \subseteq ContentBehind(ShapeInputs(f))
  BY <1>1, <1>2, ContentBehindFacts
<1> QED
  BY <1>3 DEF ForShape

\* The sessions that f has behind its session c.
BehindIn(f, c) == Reached(DOMAIN f, {c}, [k \in DOMAIN f |-> Range(f[k].from)])

LEMMA BehindLess ==
  ASSUME NEW f, NEW g, NEW c \in DOMAIN f, c \in DOMAIN g,
         \A k \in DOMAIN f : Range(f[k].from) \subseteq DOMAIN f,
         \A k \in DOMAIN g : Range(g[k].from) \subseteq DOMAIN g,
         \A k \in BehindIn(g, c) : k \in DOMAIN f => f[k].from = g[k].from
  PROVE  BehindIn(f, c) \subseteq BehindIn(g, c)
<1> DEFINE next1 == [k \in DOMAIN f |-> Range(f[k].from)]
           next2 == [k \in DOMAIN g |-> Range(g[k].from)]
<1>1. \A x \in DOMAIN f : next1[x] \subseteq DOMAIN f
  OBVIOUS
<1>2. \A x \in DOMAIN f : x \in Reached(DOMAIN g, {c}, next2) =>
        next1[x] \subseteq next2[x] /\ next1[x] \subseteq DOMAIN g
  <2> TAKE x \in DOMAIN f
  <2> HAVE x \in Reached(DOMAIN g, {c}, next2)
  <2>1. x \in DOMAIN g
    BY ReachedIn
  <2>2. f[x].from = g[x].from
    BY DEF BehindIn
  <2> QED
    BY <2>1, <2>2
<1>3. {c} \subseteq DOMAIN f /\ {c} \subseteq DOMAIN g
  OBVIOUS
<1> HIDE DEF next1, next2
<1>4. Reached(DOMAIN f, {c}, next1) \subseteq Reached(DOMAIN g, {c}, next2)
  BY <1>1, <1>2, <1>3, ReachedLess
<1> QED
  BY <1>4 DEF BehindIn, next1, next2

(***************************************************************************)
(* The invariant, part by part: memory.  As long as it was enough no       *)
(* session is refused for want of it; a leaf without a size has no content.*)
(***************************************************************************)
NoResizeOwed == \A c \in DOMAIN caches : caches[c].needResize => caches[c].shapeDirty

MemoryKept ==
  /\ memory = "enough" => NoResizeOwed
  /\ \A l \in Leaves : dim[l] = 0 => data[l] = Null
  /\ call.do = "inform" => dim[call.of] # 0

LEMMA SessionsGetMemory ==
  ASSUME CachesTyped, NEW c, Computes(c) \/ Stops(c), memory = "enough", NoResizeOwed
  PROVE  NoResizeOwed' /\ (Stops(c) => LacksInput(c))
<1>1. \A k \in DOMAIN caches : ~ Resized(k).needResize
  <2> TAKE k \in DOMAIN caches
  <2>1. Resized(k).needResize = IF caches[k].shapeDirty THEN memory = "short" ELSE caches[k].needResize
    BY ResizedIs
  <2>2. memory # "short" /\ (caches[k].needResize => caches[k].shapeDirty)
    BY DEF NoResizeOwed
  <2> QED
    BY <2>1, <2>2
<1>2. Stale(c) \subseteq DOMAIN caches
  BY ReachedIn DEF Stale
<1>3. Stops(c) => LacksInput(c)
  BY <1>1, <1>2 DEF Stops
<1>4. ASSUME NEW ran, Runs(c, ran) PROVE NoResizeOwed'
  <2>1. DOMAIN caches' = DOMAIN caches
    BY <1>4, RunsSame DEF SameLinks
  <2>3. PICK over : caches' = Ran(c, ran, over)
    BY <1>4, Zenon DEF Runs
  <2>2. ASSUME NEW k \in DOMAIN caches PROVE caches'[k].needResize => caches'[k].shapeDirty
    <3>1. /\ k \in ran \cup Stale(c) => caches'[k].shapeDirty = FALSE /\ caches'[k].needResize = Resized(k).needResize
          /\ k \notin ran \cup Stale(c) => caches'[k] = caches[k]
      BY <2>3, RanIs
    <3> QED
      BY <1>1, <3>1 DEF NoResizeOwed
  <2> QED
    BY <2>1, <2>2 DEF NoResizeOwed
<1>5. caches' = caches => NoResizeOwed'
  BY DEF NoResizeOwed
<1>6. caches' = caches \/ \E ran : Runs(c, ran)
  BY DEF Computes, Stops
<1> QED
  BY <1>3, <1>4, <1>5, <1>6

LEMMA MemoryIdle ==
  ASSUME MemoryKept, UNCHANGED <<graph, dim, data>>, call'.do # "inform", memory' = memory,
         memory = "enough" /\ NoResizeOwed => NoResizeOwed'
  PROVE  MemoryKept'
BY DEF MemoryKept, Leaves

LEMMA MemoryRestart ==
  ASSUME WellFormed, NEW es, NEW f, CanRestart(es, f), Restarts(es, f), NoResizeOwed
  PROVE  NoResizeOwed'
<1>1. \A c \in DOMAIN caches' : c \in DOMAIN caches /\ caches'[c] = caches[c]
  BY RestartCaches DEF WellFormed
<1> QED
  BY <1>1 DEF NoResizeOwed

LEMMA MemoryMake ==
  ASSUME WellFormed, NEW targets, CanMake(targets), MakeCache(targets), NoResizeOwed
  PROVE  NoResizeOwed'
<1>1. /\ DOMAIN caches' = DOMAIN caches \cup {NewId}
      /\ \A c \in DOMAIN caches : caches'[c] = caches[c]
      /\ caches'[NewId] = NewCache(NodesFor(targets))
  BY MakeCacheIs DEF WellFormed
<1>2. NewCache(NodesFor(targets)).shapeDirty = TRUE
  BY DEF NewCache
<1> QED
  BY <1>1, <1>2 DEF NoResizeOwed

LEMMA MemoryLeaf ==
  ASSUME WellFormed, MemoryKept, NEW l \in Leaves, graph' = graph, fixed' = fixed, memory' = memory,
         SetInfoDirty(DirtyOutputs(l)), dim'[l] # 0,
         \A k \in Leaves : k # l => dim'[k] = dim[k] /\ data'[k] = data[k], call' = Nothing
  PROVE  MemoryKept'
<1>1. memory = "enough" => NoResizeOwed'
  BY DirtyOutputsRestart, SetInfoDirtyRestarts, MemoryRestart DEF WellFormed, MemoryKept
<1>2. Leaves' = Leaves /\ call'.do # "inform"
  BY DEF Leaves, Nothing
<1> QED
  BY <1>1, <1>2 DEF MemoryKept

LEMMA MemoryVisit ==
  ASSUME WellFormed, MemoryKept, NEW e \in Ops, NEW i,
         VisitForShape(e, i) \/ VisitForContent(e, i) \/ VisitForNothing(e, i)
  PROVE  MemoryKept'
<1>1. /\ UNCHANGED <<graph, dim, data, memory>> /\ call.do = "inform"
      /\ \E through, seen : call' = Informing(call.of, through, seen)
  BY DEF VisitForShape, VisitForContent, VisitForNothing, IsVisited, outside
<1>2. graph' = graph /\ dim' = dim /\ data' = data /\ memory' = memory /\ Leaves' = Leaves /\ call'.of = call.of
  BY <1>1 DEF Leaves, Informing
<1>3. NoResizeOwed => NoResizeOwed'
  <2>1. CASE VisitForShape(e, i)
    BY <2>1, VisitStep, MemoryRestart
  <2>2. CASE VisitForContent(e, i)
    <3>1. DOMAIN caches' = DOMAIN caches
      BY <2>2, ContentVisitSame DEF SameLinks
    <3>2. \A c \in DOMAIN caches : caches'[c].needResize = caches[c].needResize /\ caches'[c].shapeDirty = caches[c].shapeDirty
      <4> SUFFICES ASSUME NEW c \in DOMAIN caches
                   PROVE  caches'[c].needResize = caches[c].needResize /\ caches'[c].shapeDirty = caches[c].shapeDirty
        OBVIOUS
      <4> DEFINE r == caches[c]
                 new == [m \in DOMAIN r.held |-> Null]
      <4>1. caches'[c] = IF c # cache[e] THEN r ELSE [r EXCEPT !.contentDirty = TRUE, !.held = new]
        BY <2>2 DEF VisitForContent
      <4>2. DOMAIN r = {"shapeDirty", "contentDirty", "needResize", "shapes", "held", "from", "leaves"}
        BY DEF WellFormed, CachesTyped, CacheTyped
      <4> HIDE DEF r, new
      <4>3. caches'[c].needResize = r.needResize /\ caches'[c].shapeDirty = r.shapeDirty
        BY <4>1, <4>2
      <4> QED
        BY <4>3 DEF r
    <3> QED
      BY <3>1, <3>2 DEF NoResizeOwed
  <2>3. CASE VisitForNothing(e, i)
    BY <2>3 DEF VisitForNothing, NoResizeOwed
  <2> QED
    BY <2>1, <2>2, <2>3
<1> QED
  BY <1>1, <1>2, <1>3 DEF MemoryKept

LEMMA MemoryNext ==
  ASSUME WellFormed, MemoryKept, Next
  PROVE  MemoryKept'
<1>1. ASSUME NEW l \in Leaves, NEW d \in Dims[l], Resize(l, d) PROVE MemoryKept'
  <2>1. /\ graph' = graph /\ fixed' = fixed /\ memory' = memory /\ SetInfoDirty(DirtyOutputs(l)) /\ call' = Nothing
        /\ \A k \in Leaves : k # l => dim'[k] = dim[k] /\ data'[k] = data[k]
        /\ dim'[l] # 0
    BY <1>1 DEF Resize, WellFormed, Typed
  <2> QED
    BY <2>1, MemoryLeaf
<1>2. ASSUME NEW l \in Leaves, NEW d \in Dims[l], NEW v \in Values, Input(l, d, v) PROVE MemoryKept'
  <2>1. /\ graph' = graph /\ fixed' = fixed /\ memory' = memory /\ SetInfoDirty(DirtyOutputs(l)) /\ call' = Nothing
        /\ \A k \in Leaves : k # l => dim'[k] = dim[k] /\ data'[k] = data[k]
        /\ dim'[l] # 0
    BY <1>2 DEF Input, WellFormed, Typed
  <2> QED
    BY <2>1, MemoryLeaf
<1>3. ASSUME NEW l \in Leaves, WriteMap(l) PROVE MemoryKept'
  <2>1. UNCHANGED <<graph, dim, data, memory, caches>> /\ call'.of = l /\ dim[l] # 0
    BY <1>3 DEF WriteMap, outside, Informing
  <2> QED
    BY <2>1 DEF MemoryKept, NoResizeOwed, Leaves
<1>4. ASSUME NEW e \in Ops, NEW i \in DOMAIN graph.in[e],
             VisitForShape(e, i) \/ VisitForContent(e, i) \/ VisitForNothing(e, i)
      PROVE  MemoryKept'
  BY <1>4, MemoryVisit
<1>5. ASSUME NEW v \in Values, Write(v) PROVE MemoryKept'
  <2>1. /\ UNCHANGED <<graph, dim, memory, caches>> /\ call' = Nothing /\ call.do = "inform"
        /\ \A k \in Leaves : k # call.of => data'[k] = data[k]
    BY <1>5 DEF Write, WellFormed, Typed
  <2>2. call'.do # "inform" /\ dim[call.of] # 0 /\ Leaves' = Leaves
    BY <2>1 DEF MemoryKept, Nothing, Leaves
  <2> QED
    BY <2>1, <2>2 DEF MemoryKept, NoResizeOwed
<1>6. ASSUME NEW e \in Ops, Ask(e) \/ Refuse(e) \/ ComputeInfo(e) \/ ComputeOne(e) PROVE MemoryKept'
  <2>1. ASSUME Ask(e) \/ Refuse(e) \/ ComputeInfo(e) PROVE MemoryKept'
    <3>1. UNCHANGED <<graph, dim, data, memory, caches>> /\ call'.do # "inform"
      BY <2>1 DEF Ask, Refuse, ComputeInfo, Fail, outside, Asking, Failed
    <3> QED
      BY <3>1, MemoryIdle DEF NoResizeOwed
  <2>2. ASSUME ComputeOne(e) PROVE MemoryKept'
    <3>1. /\ UNCHANGED <<graph, dim, data, memory>> /\ call'.do # "inform"
          /\ Computes(cache[e]) \/ Stops(cache[e])
      BY <2>2 DEF ComputeOne, outside, Computing, Nothing
    <3> QED
      BY <3>1, MemoryIdle, SessionsGetMemory DEF WellFormed
  <2> QED
    BY <1>6, <2>1, <2>2
<1>7. ASSUME NEW e \in Ops, NEW i \in DOMAIN graph.in[e], ReadConstant(e, i) \/ ReadForShape(e, i)
      PROVE  MemoryKept'
  <2>1. /\ UNCHANGED <<graph, dim, data, memory>> /\ call'.do # "inform"
        /\ UNCHANGED caches \/ Computes(cache[InputsOf(e)[i]]) \/ Stops(cache[InputsOf(e)[i]])
    BY <1>7 DEF ReadConstant, ReadForShape, Got, Fail, outside, Asking, Failed
  <2> QED
    BY <2>1, MemoryIdle, SessionsGetMemory DEF NoResizeOwed, WellFormed
<1>8. ASSUME NEW e \in Ops, NEW i \in DOMAIN graph.in[e], MakeCacheForShape(e, i) PROVE MemoryKept'
  <2>1. /\ UNCHANGED <<graph, dim, data, memory>> /\ call'.do # "inform"
        /\ CanMake({InputsOf(e)[i]}) /\ MakeCache({InputsOf(e)[i]})
    BY <1>8, MakeForShape DEF MakeCacheForShape, MakeCache, outside, IsRead, IsAsked
  <2> QED
    BY <2>1, MemoryIdle, MemoryMake
<1>9. ASSUME MakeCacheToRead PROVE MemoryKept'
  <2>1. /\ UNCHANGED <<graph, dim, data, memory>> /\ call'.do # "inform"
        /\ CanMake({call.of}) /\ MakeCache({call.of})
    BY <1>9, MakeToRead DEF MakeCacheToRead, MakeCache, outside
  <2> QED
    BY <2>1, MemoryIdle, MemoryMake
<1>10. ASSUME Read PROVE MemoryKept'
  <2>1. /\ UNCHANGED <<graph, dim, data, memory>> /\ call'.do # "inform"
        /\ Computes(cache[call.of]) \/ Stops(cache[call.of])
    BY <1>10 DEF Read, outside, Having, Failed
  <2> QED
    BY <2>1, MemoryIdle, SessionsGetMemory DEF WellFormed
<1>11. ASSUME Return PROVE MemoryKept'
  <2>1. UNCHANGED <<graph, dim, data, memory, caches>> /\ call'.do # "inform"
    BY <1>11 DEF Return, outside, Nothing
  <2> QED
    BY <2>1, MemoryIdle DEF NoResizeOwed
<1>12. ASSUME Fix PROVE MemoryKept'
  <2>1. UNCHANGED <<graph, dim, data, memory>> /\ call'.do # "inform"
    BY <1>12 DEF Fix, Nothing
  <2> QED
    BY <1>12, <2>1, MemoryIdle, FixStep, MemoryRestart
<1>13. ASSUME NEW es \in SUBSET {e \in Ops : HasOp(e)}, es # {} /\ Prepare(es) PROVE MemoryKept'
  <2> DEFINE new == {e \in es : cache[e] = NoCache}
  <2>1. CanMake(new) /\ (new # {} => MakeCache(new))
    BY <1>13, PrepareStep
  <2>2. UNCHANGED <<graph, dim, data, memory>> /\ call'.do # "inform" /\ (new = {} => UNCHANGED caches)
    BY <1>13 DEF Prepare, Computing, outside, MakeCache
  <2> HIDE DEF new
  <2> QED
    BY <2>1, <2>2, MemoryIdle, MemoryMake DEF NoResizeOwed
<1>14. ASSUME LoseMemory \/ RegainMemory PROVE MemoryKept'
  <2>1. UNCHANGED <<graph, dim, data, call>> /\ memory' # "enough"
    BY <1>14 DEF LoseMemory, RegainMemory
  <2> QED
    BY <2>1 DEF MemoryKept, Leaves
<1> QED
  BY <1>1, <1>2, <1>3, <1>4, <1>5, <1>6, <1>7, <1>8, <1>9, <1>10, <1>11, <1>12, <1>13, <1>14 DEF Next

(***************************************************************************)
(* The invariant, part by part: what a shape depends on is computed from   *)
(* the leaves behind it and no others.                                     *)
(***************************************************************************)
LeavesFit ==
  \A t \in Ops : cache[t] # NoCache /\ ForShape(t) =>
    \A k \in Behind(cache[t]) : caches[k].leaves \subseteq ContentBehind({t})

LEMMA BehindIs == \A c : Behind(c) = BehindIn(caches, c)
BY DEF Behind, BehindIn, Below

LEMMA SameBehind ==
  ASSUME graph' = graph, fixed' = fixed
  PROVE  /\ Ops' = Ops /\ Leaves' = Leaves /\ Nodes' = Nodes
         /\ \A n : InputsOf(n)' = InputsOf(n) /\ HasOp(n)' = HasOp(n)
         /\ \A n : ContentInputs(n)' = ContentInputs(n) /\ ShapeInputs(n)' = ShapeInputs(n)
         /\ \A ns : ContentBehind(ns)' = ContentBehind(ns)
         /\ \A n : ForShape(n)' = ForShape(n)
<1>1. Ops' = Ops /\ Leaves' = Leaves /\ Nodes' = Nodes
  BY DEF Ops, Leaves, Nodes
<1>2. \A n : InputsOf(n)' = InputsOf(n) /\ HasOp(n)' = HasOp(n)
  BY <1>1, Zenon DEF InputsOf, HasOp
<1>3. \A n : ContentInputs(n)' = ContentInputs(n) /\ ShapeInputs(n)' = ShapeInputs(n)
  BY <1>1, <1>2, Zenon DEF ContentInputs, ShapeInputs
<1>4. \A ns : ContentBehind(ns)' = ContentBehind(ns)
  BY <1>1, <1>2, <1>3, Zenon DEF ContentBehind
<1>5. \A n : ForShape(n)' = ForShape(n)
  BY <1>1, <1>3, <1>4, Zenon DEF ForShape
<1> QED
  BY <1>1, <1>2, <1>3, <1>4, <1>5

\* What is fixed is computed from nothing any more, and less is computed from it.
LEMMA FixedBehind ==
  ASSUME Typed, NEW f \in SUBSET Ops, graph' = graph, fixed' = fixed \cup f
  PROVE  /\ Ops' = Ops /\ Leaves' = Leaves /\ Nodes' = Nodes
         /\ \A n \in Ops \ f : /\ InputsOf(n)' = InputsOf(n) /\ HasOp(n)' = HasOp(n)
                               /\ ContentInputs(n)' = ContentInputs(n) /\ ShapeInputs(n)' = ShapeInputs(n)
         /\ \A n \in f : InputsOf(n)' = <<>> /\ ContentInputs(n)' = {} /\ ShapeInputs(n)' = {} /\ ~ HasOp(n)'
<1>1. Ops' = Ops /\ Leaves' = Leaves /\ Nodes' = Nodes
  BY DEF Ops, Leaves, Nodes
<1>2. \A n \in Ops \ f : InputsOf(n)' = InputsOf(n) /\ HasOp(n)' = HasOp(n)
  BY <1>1 DEF InputsOf, HasOp
<1>3. \A n \in Ops \ f : ContentInputs(n)' = ContentInputs(n) /\ ShapeInputs(n)' = ShapeInputs(n)
  BY <1>1, <1>2, Zenon DEF ContentInputs, ShapeInputs
<1>4. \A n \in f : InputsOf(n)' = <<>> /\ ~ HasOp(n)'
  BY DEF InputsOf, HasOp
<1>5. \A n \in f : ContentInputs(n)' = {} /\ ShapeInputs(n)' = {}
  BY <1>4 DEF ContentInputs, ShapeInputs
<1> QED
  BY <1>1, <1>2, <1>3, <1>4, <1>5

LEMMA FixedBehindLess ==
  ASSUME Typed, NEW f \in SUBSET Ops, graph' = graph, fixed' = fixed \cup f
  PROVE  /\ \A ns \in SUBSET Nodes : ContentBehind(ns)' \subseteq ContentBehind(ns)
         /\ \A n \in Ops : ForShape(n)' => ForShape(n)
<1> DEFINE back == [m \in Nodes |-> IF HasOp(m)' THEN ContentInputs(m)' ELSE {}]
<1>1. /\ Ops' = Ops /\ Leaves' = Leaves /\ Nodes' = Nodes
      /\ \A n \in Ops \ f : ContentInputs(n)' = ContentInputs(n) /\ ShapeInputs(n)' = ShapeInputs(n)
      /\ \A n \in f : ContentInputs(n)' = {} /\ ShapeInputs(n)' = {}
  BY FixedBehind
<1>2. /\ \A m \in Nodes : ContentBack[m] \subseteq Nodes
      /\ \A m \in Ops : ContentBack[m] = ContentInputs(m)
      /\ \A ns : ContentBehind(ns) = Reached(Nodes, ns, ContentBack)
  BY ContentBackIs
<1>3. \A m \in Nodes : back[m] \subseteq ContentBack[m]
  <2> TAKE m \in Nodes
  <2>1. CASE m \in Ops
    BY <1>1, <1>2, <2>1
  <2>2. CASE m \notin Ops
    BY <1>1, <2>2 DEF HasOp
  <2> QED
    BY <2>1, <2>2
<1>4. \A ns : ContentBehind(ns)' = Reached(Nodes, ns, back)
  BY <1>1, Zenon DEF ContentBehind
<1> HIDE DEF back
<1>5. \A ns \in SUBSET Nodes : Reached(Nodes, ns, back) \subseteq ContentBehind(ns)
  <2> TAKE ns \in SUBSET Nodes
  <2>1. /\ \A x \in Nodes : back[x] \subseteq Nodes
        /\ \A x \in Nodes : x \in Reached(Nodes, ns, ContentBack) => back[x] \subseteq ContentBack[x] /\ back[x] \subseteq Nodes
    BY <1>2, <1>3
  <2>2. Reached(Nodes, ns, back) \subseteq Reached(Nodes, ns, ContentBack)
    BY <2>1, ReachedLess
  <2> QED
    BY <1>2, <2>2
<1>6. ASSUME NEW n \in Ops, ForShape(n)' PROVE ForShape(n)
  <2>1. PICK g \in Ops : n \in Reached(Nodes, ShapeInputs(g)', back)
    BY <1>1, <1>6, Zenon DEF ForShape, ContentBehind, back
  <2> DEFINE ms == ShapeInputs(g)'
             ns == ShapeInputs(g)
  <2>2. ns \subseteq Nodes /\ ms \subseteq ns
    BY <1>1, Links
  <2> HIDE DEF ms
  <2>3. n \in ContentBehind(ms)
    BY <1>5, <2>1, <2>2 DEF ms
  <2>4. ms \subseteq ns /\ ns \in SUBSET Nodes
    BY <2>2
  <2> HIDE DEF ns
  <2>5. n \in ContentBehind(ns)
    BY <2>3, <2>4, ContentBehindFacts
  <2> QED
    BY <2>5 DEF ns, ForShape
<1> QED
  BY <1>4, <1>5, <1>6

LEMMA ContentBehindStays ==
  ASSUME Typed, NEW f \in SUBSET Ops, graph' = graph, fixed' = fixed \cup f,
         NEW T \in SUBSET Nodes, T \cap f = {}, \A m \in T \cap Ops : ContentInputs(m) \subseteq T,
         NEW t \in T
  PROVE  ContentBehind({t}) \subseteq ContentBehind({t})'
<1> DEFINE back == [m \in Nodes |-> IF HasOp(m)' THEN ContentInputs(m)' ELSE {}]
           R == {x \in Nodes : x \in T /\ x \in Reached(Nodes, {t}, back)}
<1>1. /\ Ops' = Ops /\ Leaves' = Leaves /\ Nodes' = Nodes
      /\ \A n \in Ops \ f : ContentInputs(n)' = ContentInputs(n) /\ HasOp(n)' = HasOp(n)
  BY FixedBehind
<1>2. /\ \A m \in Nodes : ContentBack[m] \subseteq Nodes
      /\ \A m \in Ops : ContentBack[m] = ContentInputs(m)
      /\ \A ns : ContentBehind(ns) = Reached(Nodes, ns, ContentBack)
  BY ContentBackIs
<1>3. \A m \in T : ContentBack[m] \subseteq T /\ back[m] = ContentBack[m]
  <2> TAKE m \in T
  <2>1. CASE m \in Ops
    <3>1. m \in Ops \ f /\ ContentBack[m] = ContentInputs(m)
      BY <1>2, <2>1
    <3>2. back[m] = IF HasOp(m) THEN ContentInputs(m) ELSE {}
      BY <1>1, <3>1
    <3>3. ContentBack[m] = IF HasOp(m) THEN ContentInputs(m) ELSE {}
      BY DEF ContentBack
    <3> QED
      BY <2>1, <3>1, <3>2, <3>3
  <2>2. CASE m \notin Ops
    <3>1. ~ HasOp(m) /\ ~ HasOp(m)'
      BY <1>1, <2>2 DEF HasOp
    <3> QED
      BY <3>1 DEF ContentBack
  <2> QED
    BY <2>1, <2>2
<1>4. ContentBehind({t})' = Reached(Nodes, {t}, back)
  BY <1>1, Zenon DEF ContentBehind
<1> HIDE DEF back
<1>5. {t} \subseteq R
  <2>1. {t} \subseteq Nodes
    OBVIOUS
  <2>2. t \in Reached(Nodes, {t}, back)
    BY <2>1, ReachedHas
  <2> QED
    BY <2>2
<1>6. \A x \in R : ContentBack[x] \subseteq R
  <2> SUFFICES ASSUME NEW x \in R, NEW y \in ContentBack[x] PROVE y \in R
    OBVIOUS
  <2>1. x \in T /\ x \in Reached(Nodes, {t}, back) /\ y \in T /\ y \in back[x] /\ y \in Nodes
    BY <1>3
  <2>2. y \in Reached(Nodes, {t}, back)
    BY <2>1, ReachedOn
  <2> QED
    BY <2>1, <2>2
<1>7. R \in SUBSET Nodes
  OBVIOUS
<1> HIDE DEF R
<1>8. Reached(Nodes, {t}, ContentBack) \subseteq R
  BY <1>5, <1>6, <1>7, ReachedLeast
<1> QED
  BY <1>2, <1>4, <1>8 DEF R

\* What starts anew takes what is computed from it along, if it takes any of it.
LEMMA LeavesRestart ==
  ASSUME WellFormed, LeavesFit, NEW es, NEW f, CanRestart(es, f), Restarts(es, f),
         f = {} \/ \A x \in es \cup f : Consumers(x) \subseteq es
  PROVE  LeavesFit'
<1>1. /\ graph' = graph /\ fixed' = fixed \cup f /\ f \in SUBSET Ops /\ es \subseteq Ops /\ Typed /\ Ops' = Ops
      /\ CachesTyped
  BY DEF Restarts, CanRestart, WellFormed, Ops
<1>2. /\ CachesTyped'
      /\ \A c \in DOMAIN caches' : c \in DOMAIN caches /\ caches'[c] = caches[c]
      /\ \A e \in Ops : cache'[e] # NoCache =>
           e \notin es \cup f /\ cache'[e] = cache[e] /\ cache[e] \in DOMAIN caches'
  BY RestartCaches DEF WellFormed
<1>3. SUFFICES ASSUME NEW t \in Ops, cache'[t] # NoCache, ForShape(t)', NEW k \in Behind(cache[t])'
               PROVE  caches'[k].leaves \subseteq ContentBehind({t})'
  BY <1>1 DEF LeavesFit
<1> DEFINE c == cache[t]
<1>4. c # NoCache /\ c \in DOMAIN caches /\ c \in DOMAIN caches' /\ cache'[t] = c /\ t \notin es \cup f
  BY <1>2, <1>3
<1>5. k \in BehindIn(caches', c)
  BY <1>3, <1>4 DEF Behind, BehindIn, Below
<1>6. BehindIn(caches', c) \subseteq BehindIn(caches, c)
  <2>1. \A j \in DOMAIN caches' : Range(caches'[j].from) \subseteq DOMAIN caches'
    BY <1>2 DEF CachesTyped
  <2>2. \A j \in DOMAIN caches : Range(caches[j].from) \subseteq DOMAIN caches
    BY <1>1 DEF CachesTyped
  <2>3. \A j \in BehindIn(caches, c) : j \in DOMAIN caches' => caches'[j].from = caches[j].from
    BY <1>2
  <2> HIDE DEF c
  <2> QED
    BY <1>4, <2>1, <2>2, <2>3, BehindLess
<1>7. k \in Behind(c) /\ k \in DOMAIN caches' /\ caches'[k] = caches[k]
  <2>1. k \in DOMAIN caches'
    BY <1>5, ReachedIn DEF BehindIn
  <2> QED
    BY <1>2, <1>5, <1>6, <2>1, BehindIs
<1>8. ForShape(t)
  BY <1>1, <1>3, FixedBehindLess
<1>9. caches[k].leaves \subseteq ContentBehind({t})
  BY <1>4, <1>7, <1>8 DEF LeavesFit
<1>10. ContentBehind({t}) \subseteq ContentBehind({t})'
  <2> DEFINE T == IF f = {} THEN Nodes ELSE Nodes \ (es \cup f)
  <2>1. T \in SUBSET Nodes /\ T \cap f = {} /\ t \in T
    BY <1>4 DEF Nodes
  <2>2. \A m \in T \cap Ops : ContentInputs(m) \subseteq T
    <3> SUFFICES ASSUME NEW m \in T \cap Ops, NEW x \in ContentInputs(m) PROVE x \in T
      OBVIOUS
    <3>1. x \in Nodes /\ m \in Consumers(x)
      BY <1>1, Links
    <3> QED
      BY <3>1
  <2> HIDE DEF T
  <2> QED
    BY <1>1, <2>1, <2>2, ContentBehindStays
<1> QED
  BY <1>7, <1>9, <1>10

LEMMA LeavesSame ==
  ASSUME WellFormed, LeavesFit, SameLinks, graph' = graph, fixed' = fixed, cache' = cache
  PROVE  LeavesFit'
<1>1. /\ DOMAIN caches' = DOMAIN caches
      /\ \A k \in DOMAIN caches : caches'[k].from = caches[k].from /\ caches'[k].leaves = caches[k].leaves
  BY DEF SameLinks
<1>2. /\ Ops' = Ops /\ \A ns : ContentBehind(ns)' = ContentBehind(ns)
      /\ \A n : ForShape(n)' = ForShape(n)
  BY SameBehind
<1>3. ASSUME NEW c PROVE Behind(c)' = Behind(c)
  <2>1. Below' = Below
    BY <1>1 DEF Below
  <2> QED
    BY <1>1, <2>1, Zenon DEF Behind
<1>4. SUFFICES ASSUME NEW t \in Ops, cache[t] # NoCache, ForShape(t), NEW k \in Behind(cache[t])
               PROVE  caches'[k].leaves \subseteq ContentBehind({t})
  BY <1>2, <1>3 DEF LeavesFit
<1>5. k \in DOMAIN caches
  BY <1>4, ReachedIn DEF Behind
<1> QED
  BY <1>1, <1>4, <1>5 DEF LeavesFit

LEMMA LeavesForOne ==
  ASSUME WellFormed, LeavesFit, NEW t \in Ops, ForShape(t)
  PROVE  LeavesFor({t}) \subseteq ContentBehind({t})
<1> DEFINE behind == ContentBehind({t})
           refs == {cache[m] : m \in behind \cap Ops} \ {NoCache}
<1>1. Typed /\ {t} \in SUBSET Nodes
  BY DEF WellFormed, Nodes
<1>2. \A ms \in SUBSET behind : ContentBehind(ms) \subseteq behind
  BY <1>1, ContentBehindFacts
<1>3. refs \in SUBSET (DOMAIN caches)
  BY DEF WellFormed, ShapesTyped
<1>4. \A c \in DOMAIN caches : Below[c] \subseteq DOMAIN caches
  BY DEF WellFormed, CachesTyped, Below
<1>5. ASSUME NEW c \in Reached(DOMAIN caches, refs, Below) PROVE caches[c].leaves \subseteq behind
  <2> HIDE DEF refs
  <2>1. PICK r \in refs : c \in Reached(DOMAIN caches, {r}, Below)
    BY <1>3, <1>4, <1>5, ReachedOne
  <2>2. PICK x \in behind \cap Ops : r = cache[x] /\ cache[x] # NoCache
    BY <2>1 DEF refs
  <2>3. ForShape(x)
    BY <1>1, <2>2, ForShapeBack
  <2>4. caches[c].leaves \subseteq ContentBehind({x})
    BY <2>1, <2>2, <2>3, Zenon DEF LeavesFit, Behind
  <2>5. ContentBehind({x}) \subseteq behind
    BY <1>2, <2>2
  <2> QED
    BY <2>4, <2>5
<1>6. LeavesFor({t}) = (behind \cap Leaves) \cup UNION {caches[c].leaves : c \in Reached(DOMAIN caches, refs, Below)}
  BY DEF LeavesFor
<1> HIDE DEF behind, refs
<1> QED
  BY <1>5, <1>6 DEF behind

\* What is computed by the session for targets comes from the leaves of them.
LEMMA LeavesOfNew ==
  ASSUME WellFormed, NEW targets, CanMake(targets), MakeCache(targets), NEW k \in BehindIn(caches', NewId)
  PROVE  caches'[k].leaves \subseteq LeavesFor(targets)
<1> DEFINE behind == ContentBehind(targets)
           refs == {cache[m] : m \in behind \cap Ops} \ {NoCache}
           used == Reached(DOMAIN caches, refs, Below)
           new == NewCache(NodesFor(targets))
           needed == UNION {ContentInputs(e) : e \in NodesFor(targets)}
<1>1. /\ DOMAIN caches' = DOMAIN caches \cup {NewId} /\ NewId \notin DOMAIN caches
      /\ \A c \in DOMAIN caches : caches'[c] = caches[c]
      /\ caches'[NewId] = new
  BY MakeCacheIs DEF WellFormed
<1>2. Typed /\ targets \in SUBSET Nodes /\ targets \subseteq Ops /\ CachesTyped /\ CachesTyped'
  BY MakeCacheKeeps DEF WellFormed, Nodes, CanMake
<1>3. /\ targets \subseteq behind /\ behind \subseteq Nodes
      /\ \A m \in behind : m \in Ops => ContentInputs(m) \subseteq behind
  BY <1>2, ContentBehindFacts
<1>4. NodesFor(targets) \subseteq behind /\ NodesFor(targets) \subseteq Ops
  <2> DEFINE next == [e \in Ops |-> {m \in ContentInputs(e) : HasNoCache(m)}]
             T == {x \in Ops : x \in behind}
  <2>1. targets \subseteq T /\ T \in SUBSET Ops
    BY <1>2, <1>3
  <2>2. \A x \in T : next[x] \subseteq T
    <3> SUFFICES ASSUME NEW x \in T, NEW m \in ContentInputs(x), HasNoCache(m) PROVE m \in T
      OBVIOUS
    <3>1. m \in behind /\ m \in Ops
      BY <1>3 DEF HasNoCache, HasOp
    <3> QED
      BY <3>1
  <2>3. NodesFor(targets) = Reached(Ops, targets, next)
    BY DEF NodesFor
  <2> HIDE DEF next, T
  <2>4. NodesFor(targets) \subseteq T
    BY <2>1, <2>2, <2>3, ReachedLeast
  <2> QED
    BY <2>4 DEF T
<1>5. needed \subseteq behind
  BY <1>3, <1>4
<1>6. new.leaves = needed \cap Leaves
      /\ new.from = [m \in {m \in needed : HasOp(m) /\ ~ HasNoCache(m)} |-> cache[m]]
  BY DEF NewCache
<1>7. Range(new.from) \subseteq refs
  <2>1. \A m \in DOMAIN new.from : m \in needed /\ HasOp(m) /\ ~ HasNoCache(m) /\ new.from[m] = cache[m]
    BY <1>6
  <2>2. \A m \in DOMAIN new.from : m \in behind \cap Ops /\ cache[m] # NoCache
    BY <1>5, <2>1 DEF HasNoCache, HasOp
  <2> QED
    BY <2>1, <2>2 DEF Range
<1>8. LeavesFor(targets) = (behind \cap Leaves) \cup UNION {caches[c].leaves : c \in used}
  BY DEF LeavesFor
<1>9. /\ refs \subseteq DOMAIN caches
      /\ \A c \in DOMAIN caches : Range(caches[c].from) \subseteq DOMAIN caches
      /\ \A c \in DOMAIN caches' : Range(caches'[c].from) \subseteq DOMAIN caches'
  BY <1>2 DEF WellFormed, ShapesTyped, CachesTyped
<1> HIDE DEF new, needed, refs, behind
<1>10. CASE k = NewId
  BY <1>1, <1>5, <1>6, <1>8, <1>10
<1>11. CASE k # NewId
  <2> DEFINE next == [c \in DOMAIN caches' |-> Range(caches'[c].from)]
  <2>1. k \in Reached(DOMAIN caches', {NewId}, next)
    BY DEF BehindIn
  <2>2. \A x \in DOMAIN caches' : next[x] \subseteq DOMAIN caches'
    BY <1>9
  <2>3. next[NewId] = Range(new.from) /\ NewId \in DOMAIN caches'
    BY <1>1
  <2> HIDE DEF next
  <2>4. PICK y \in Range(new.from) : k \in Reached(DOMAIN caches', {y}, next)
    BY <1>11, <2>1, <2>2, <2>3, ReachedFirst
  <2>5. y \in refs /\ y \in DOMAIN caches /\ y \in DOMAIN caches'
    BY <1>1, <1>7, <1>9
  <2>6. k \in BehindIn(caches', y)
    BY <2>4 DEF next, BehindIn
  <2>7. BehindIn(caches', y) \subseteq BehindIn(caches, y)
    <3>1. BehindIn(caches, y) \subseteq DOMAIN caches
      BY ReachedIn DEF BehindIn
    <3>2. \A j \in BehindIn(caches, y) : j \in DOMAIN caches' => caches'[j].from = caches[j].from
      BY <1>1, <3>1
    <3> QED
      BY <1>9, <2>5, <3>2, BehindLess
  <2>8. BehindIn(caches, y) \subseteq used
    <3>1. \A c \in DOMAIN caches : Below[c] \subseteq DOMAIN caches
      BY <1>9 DEF Below
    <3>2. {y} \subseteq used
      BY <1>9, <2>5, ReachedHas
    <3>3. Reached(DOMAIN caches, {y}, Below) \subseteq used
      BY <3>1, <3>2, ReachedThere
    <3> QED
      BY <3>3 DEF BehindIn, Below
  <2>9. k \in used /\ k \in DOMAIN caches
    BY <2>6, <2>7, <2>8, ReachedIn
  <2> HIDE DEF used
  <2>10. caches'[k] = caches[k] /\ caches[k].leaves \subseteq LeavesFor(targets)
    BY <1>1, <1>8, <2>9
  <2> QED
    BY <2>10
<1> QED
  BY <1>10, <1>11

LEMMA LeavesMake ==
  ASSUME WellFormed, LeavesFit, NEW targets, CanMake(targets), MakeCache(targets),
         \A e \in targets : ForShape(e) => LeavesFor(targets) \subseteq ContentBehind({e})
  PROVE  LeavesFit'
<1>1. /\ DOMAIN caches' = DOMAIN caches \cup {NewId} /\ NewId \notin DOMAIN caches
      /\ \A c \in DOMAIN caches : caches'[c] = caches[c]
      /\ \A e \in Ops : cache'[e] = IF e \in targets THEN NewId ELSE cache[e]
      /\ CachesTyped'
  BY MakeCacheIs, MakeCacheKeeps DEF WellFormed
<1>2. /\ Ops' = Ops /\ \A ns : ContentBehind(ns)' = ContentBehind(ns)
      /\ \A n : ForShape(n)' = ForShape(n)
  BY SameBehind DEF MakeCache, outside
<1>3. SUFFICES ASSUME NEW t \in Ops, cache'[t] # NoCache, ForShape(t), NEW k \in Behind(cache[t])'
               PROVE  caches'[k].leaves \subseteq ContentBehind({t})
  BY <1>2 DEF LeavesFit
<1>4. CASE t \in targets
  <2>1. cache'[t] = NewId
    BY <1>1, <1>4
  <2>2. k \in BehindIn(caches', NewId)
    BY <1>3, <2>1 DEF Behind, BehindIn, Below
  <2> QED
    BY <1>3, <1>4, <2>2, LeavesOfNew
<1>5. CASE t \notin targets
  <2> DEFINE c == cache[t]
  <2>1. cache'[t] = c /\ c # NoCache
    BY <1>1, <1>3, <1>5
  <2>2. c \in DOMAIN caches
    BY <2>1 DEF WellFormed, ShapesTyped
  <2> HIDE DEF c
  <2>3. k \in BehindIn(caches', c)
    BY <1>3, <2>1 DEF Behind, BehindIn, Below
  <2>4. BehindIn(caches, c) \subseteq DOMAIN caches
    BY ReachedIn DEF BehindIn
  <2>5. BehindIn(caches', c) \subseteq BehindIn(caches, c)
    <3>1. \A j \in BehindIn(caches, c) : j \in DOMAIN caches' => caches'[j].from = caches[j].from
      BY <1>1, <2>4
    <3>2. /\ \A j \in DOMAIN caches : Range(caches[j].from) \subseteq DOMAIN caches
          /\ \A j \in DOMAIN caches' : Range(caches'[j].from) \subseteq DOMAIN caches'
      BY <1>1 DEF WellFormed, CachesTyped
    <3> QED
      BY <1>1, <2>2, <3>1, <3>2, BehindLess
  <2>6. k \in Behind(c) /\ caches'[k] = caches[k]
    BY <1>1, <2>3, <2>4, <2>5, BehindIs
  <2>7. caches[k].leaves \subseteq ContentBehind({t})
    BY <1>3, <2>1, <2>6 DEF c, LeavesFit
  <2> QED
    BY <2>6, <2>7
<1> QED
  BY <1>4, <1>5

LEMMA LeavesMakeOne ==
  ASSUME WellFormed, LeavesFit, NEW t, CanMake({t}), MakeCache({t})
  PROVE  LeavesFit'
<1>1. t \in Ops
  BY DEF CanMake
<1> QED
  BY <1>1, LeavesForOne, LeavesMake

LEMMA LeavesDirtied ==
  ASSUME WellFormed, LeavesFit, NEW es, CanRestart(es, {}), Restarts(es, {})
  PROVE  LeavesFit'
BY LeavesRestart

LEMMA LeavesNext ==
  ASSUME ~ hasty', WellFormed, LeavesFit, Next
  PROVE  LeavesFit'
<1>1. ASSUME NEW l \in Leaves, NEW d \in Dims[l], Resize(l, d) \/ \E v \in Values : Input(l, d, v)
      PROVE  LeavesFit'
  <2>1. graph' = graph /\ fixed' = fixed /\ SetInfoDirty(DirtyOutputs(l))
    BY <1>1 DEF Resize, Input
  <2> QED
    BY <2>1, DirtyOutputsRestart, SetInfoDirtyRestarts, LeavesDirtied DEF WellFormed
<1>2. ASSUME UNCHANGED <<graph, fixed, cache, caches>> PROVE LeavesFit'
  BY <1>2, SameCaches, LeavesSame DEF WellFormed
<1>3. ASSUME NEW l \in Leaves, WriteMap(l) PROVE LeavesFit'
  BY <1>2, <1>3 DEF WriteMap, outside, kept
<1>4. ASSUME NEW e \in Ops, NEW i \in DOMAIN graph.in[e],
             VisitForShape(e, i) \/ VisitForContent(e, i) \/ VisitForNothing(e, i)
      PROVE  LeavesFit'
  <2>1. CASE VisitForShape(e, i)
    BY <2>1, VisitStep, LeavesDirtied
  <2>2. CASE VisitForContent(e, i)
    <3>1. SameLinks /\ graph' = graph /\ fixed' = fixed /\ cache' = cache
      BY <2>2, ContentVisitSame DEF VisitForContent, outside, kept
    <3> QED
      BY <3>1, LeavesSame
  <2>3. CASE VisitForNothing(e, i)
    BY <1>2, <2>3 DEF VisitForNothing, outside, kept
  <2> QED
    BY <1>4, <2>1, <2>2, <2>3
<1>5. ASSUME NEW v \in Values, Write(v) PROVE LeavesFit'
  BY <1>2, <1>5 DEF Write, kept
<1>6. ASSUME NEW c, Computes(c) \/ Stops(c), graph' = graph, fixed' = fixed, cache' = cache PROVE LeavesFit'
  BY <1>6, ComputeSame, LeavesSame DEF WellFormed
<1>7. ASSUME NEW e \in Ops, Ask(e) \/ Refuse(e) \/ ComputeInfo(e) PROVE LeavesFit'
  BY <1>2, <1>7 DEF Ask, Refuse, ComputeInfo, Fail, outside, kept
<1>8. ASSUME NEW e \in Ops, ComputeOne(e) PROVE LeavesFit'
  BY <1>6, <1>8 DEF ComputeOne, outside, kept
<1>9. ASSUME NEW e \in Ops, NEW i \in DOMAIN graph.in[e], ReadConstant(e, i) \/ ReadForShape(e, i)
      PROVE  LeavesFit'
  <2>1. CASE ReadConstant(e, i)
    BY <1>2, <2>1 DEF ReadConstant, Got, Fail, outside, kept
  <2>2. CASE ReadForShape(e, i)
    <3>1. /\ Computes(cache[InputsOf(e)[i]]) \/ Stops(cache[InputsOf(e)[i]])
          /\ graph' = graph /\ fixed' = fixed /\ cache' = cache
      BY <2>2 DEF ReadForShape, Got, Fail, outside, kept
    <3> QED
      BY <1>6, <3>1
  <2> QED
    BY <1>9, <2>1, <2>2
<1>10. ASSUME NEW e \in Ops, NEW i \in DOMAIN graph.in[e], MakeCacheForShape(e, i) PROVE LeavesFit'
  BY <1>10, MakeForShape, LeavesMakeOne
<1>11. ASSUME MakeCacheToRead PROVE LeavesFit'
  BY <1>11, MakeToRead, LeavesMakeOne
<1>12. ASSUME Read PROVE LeavesFit'
  BY <1>6, <1>12 DEF Read, outside, kept
<1>13. ASSUME Return PROVE LeavesFit'
  BY <1>2, <1>13 DEF Return, outside, kept
<1>14. ASSUME Fix PROVE LeavesFit'
  <2> DEFINE es == Outputs(call.of, Ops)
  <2>1. CanRestart(es, {call.of}) /\ Restarts(es, {call.of})
    BY <1>14, FixStep
  <2>2. \A x \in es \cup {call.of} : Consumers(x) \subseteq es
    BY OutputsClosed DEF WellFormed
  <2> HIDE DEF es
  <2> QED
    BY <2>1, <2>2, LeavesRestart
<1>15. ASSUME NEW es \in SUBSET {e \in Ops : HasOp(e)}, es # {} /\ Prepare(es) PROVE LeavesFit'
  <2> DEFINE new == {e \in es : cache[e] = NoCache}
  <2>1. CanMake(new) /\ (new # {} => MakeCache(new))
    BY <1>15, PrepareStep
  <2>3. \A e \in new : ForShape(e) => LeavesFor(new) \subseteq ContentBehind({e})
    BY <1>15, Zenon DEF Prepare
  <2>2. new = {} => UNCHANGED <<graph, fixed, cache, caches>>
    BY <1>15 DEF Prepare, outside, kept
  <2> HIDE DEF new
  <2> QED
    BY <1>2, <2>1, <2>2, <2>3, LeavesMake
<1>16. ASSUME LoseMemory \/ RegainMemory PROVE LeavesFit'
  BY <1>2, <1>16 DEF LoseMemory, RegainMemory, kept
<1> QED
  BY <1>1, <1>3, <1>4, <1>5, <1>7, <1>8, <1>9, <1>10, <1>11, <1>12, <1>13, <1>14, <1>15, <1>16 DEF Next

(***************************************************************************)
(* The invariant, part by part: why an operator is not valid.  Fed(l) are  *)
(* the nodes that get no content while l has none although their shapes do *)
(* not need it: informDirty goes through these.                            *)
(***************************************************************************)
Feeds(n) ==
  {y \in Ops : \E i \in graph.content[y] \ graph.shape[y] : i \in DOMAIN InputsOf(y) /\ InputsOf(y)[i] = n}
Fed(l) == Reached(Nodes, {l}, [n \in Nodes |-> Feeds(n)])

\* The shape of m has to wait for a leaf that has a size but no content.
Lacks(m) ==
  /\ HasOp(m)
  /\ \E l \in Leaves : \E z \in ShapeInputs(m) : data[l] = Null /\ dim[l] # 0 /\ z \in Fed(l)

Reason(e) ==
  \E m \in Range(InputsOf(e)) : (m \in Leaves /\ dim[m] = 0) \/ (m \in Ops /\ (~ valid[m] \/ Lacks(m)))

Reasoned == memory = "enough" => \A e \in Ops : ~ valid[e] => Reason(e)

LEMMA FedFacts ==
  ASSUME Typed, NEW l \in Leaves
  PROVE  /\ l \in Fed(l) /\ Fed(l) \subseteq Nodes
         /\ \A y \in Ops : \A i \in graph.content[y] \ graph.shape[y] :
              i \in DOMAIN InputsOf(y) /\ InputsOf(y)[i] \in Fed(l) => y \in Fed(l)
<1> DEFINE next == [n \in Nodes |-> Feeds(n)]
<1>1. Fed(l) = Reached(Nodes, {l}, next)
  BY DEF Fed
<1>2. l \in Fed(l) /\ Fed(l) \subseteq Nodes
  <2>1. {l} \subseteq Nodes
    BY DEF Nodes
  <2> HIDE DEF next
  <2> QED
    BY <1>1, <2>1, ReachedHas, ReachedIn
<1>3. ASSUME NEW y \in Ops, NEW i \in graph.content[y] \ graph.shape[y],
             i \in DOMAIN InputsOf(y), InputsOf(y)[i] \in Fed(l)
      PROVE  y \in Fed(l)
  <2>1. InputsOf(y)[i] \in Nodes /\ y \in Feeds(InputsOf(y)[i]) /\ y \in Nodes
    BY <1>2, <1>3 DEF Feeds, Nodes
  <2>2. y \in next[InputsOf(y)[i]]
    BY <2>1
  <2> HIDE DEF next
  <2> QED
    BY <1>1, <1>3, <2>1, <2>2, ReachedOn
<1> QED
  BY <1>2, <1>3

\* A node has no content while a leaf it is fed from has none.
LEMMA FedNull ==
  ASSUME WellFormed, NEW l \in Leaves, data[l] = Null
  PROVE  \A y \in Fed(l) : Value[y].content = Null
<1> DEFINE next == [n \in Nodes |-> Feeds(n)]
           T == {n \in Nodes : Value[n].content = Null}
<1>1. l \in T
  BY ValueParts DEF WellFormed, Nodes
<1>2. \A n \in T : next[n] \subseteq T
  <2> SUFFICES ASSUME NEW n \in T, NEW y \in Feeds(n) PROVE y \in T
    OBVIOUS
  <2>1. PICK i \in graph.content[y] \ graph.shape[y] : i \in DOMAIN InputsOf(y) /\ InputsOf(y)[i] = n
    BY DEF Feeds
  <2>2. y \in Ops /\ y \in Nodes /\ y \notin fixed /\ graph.in[y][i] = n
    BY <2>1, Links DEF Feeds, WellFormed, Nodes
  <2>3. Value[y].content = Content(graph, Value, y, Value[y].info)
    BY <2>2, ValueParts DEF WellFormed
  <2>4. Value[graph.in[y][i]].content = Null
    BY <2>2
  <2>5. Content(graph, Value, y, Value[y].info) = Null
    BY <2>1, <2>4 DEF Content
  <2> QED
    BY <2>2, <2>3, <2>5
<1>3. T \in SUBSET Nodes /\ {l} \subseteq T
  BY <1>1
<1> HIDE DEF T
<1>4. Fed(l) \subseteq T
  <2>1. Fed(l) = Reached(Nodes, {l}, next)
    BY DEF Fed
  <2> HIDE DEF next
  <2> QED
    BY <1>2, <1>3, <2>1, ReachedLeast
<1> QED
  BY <1>4 DEF T

\* If a shape is known, the leaf behind its content has a size, and feeds it.
LEMMA BackFedStep ==
  ASSUME WellFormed, ShapesFresh, NEW l \in Leaves, data[l] = Null,
         NEW n \in Ops, ~ infoDirty[n], l \in ContentBehind({n}),
         \A m \in Ops : m < n /\ ~ infoDirty[m] /\ l \in ContentBehind({m}) => m \in Fed(l) /\ dim[l] # 0
  PROVE  n \in Fed(l) /\ dim[l] # 0
<1>1. /\ \A m \in Nodes : ContentBack[m] \subseteq Nodes
      /\ \A m \in Nodes : ContentBack[m] = ContentInputs(m) \/ (m \in Leaves /\ ContentBack[m] = {})
      /\ \A m \in Ops : ContentBack[m] = ContentInputs(m)
      /\ \A ns : ContentBehind(ns) = Reached(Nodes, ns, ContentBack)
  BY ContentBackIs DEF WellFormed
<1>2. l # n /\ n \in Nodes
  BY Links DEF WellFormed, Nodes
<1>3. PICK x \in ContentInputs(n) : l \in Reached(Nodes, {x}, ContentBack)
  <2>1. l \in Reached(Nodes, {n}, ContentBack)
    BY <1>1
  <2>2. l = n \/ \E y \in ContentBack[n] : l \in Reached(Nodes, {y}, ContentBack)
    BY <1>1, <1>2, <2>1, ReachedFirst
  <2>3. ContentBack[n] = ContentInputs(n)
    BY <1>1
  <2> QED
    BY <1>2, <2>2, <2>3
<1>4. PICK i \in graph.content[n] \cap DOMAIN InputsOf(n) : InputsOf(n)[i] = x
  BY DEF ContentInputs
<1>5. x \in Nodes /\ x < n /\ n \notin fixed /\ graph.in[n][i] = x /\ i \in DOMAIN graph.in[n]
      /\ x \in Range(InputsOf(n))
  BY <1>4, Links DEF WellFormed, Range
<1>6. Value[n].info # Null /\ Value[n].info = Shape(graph, Value, n)
  BY <1>5, ValueParts DEF ShapesFresh, WellFormed
<1>7. x \in Fed(l) /\ dim[l] # 0
  <2>1. CASE x \in Leaves
    <3>1. x \notin Ops /\ ContentBack[x] = {}
      BY <2>1, Links DEF WellFormed, ContentBack, HasOp
    <3>2. x = l
      BY <1>1, <1>3, <1>5, <3>1, ReachedFirst
    <3>3. Value[x].info = <<dim[x]>>
      BY <2>1, ValueParts DEF WellFormed
    <3>4. Value[graph.in[n][i]].info # << 0 >>
      BY <1>5, <1>6 DEF Shape
    <3> QED
      BY <1>5, <3>2, <3>3, <3>4, FedFacts DEF WellFormed
  <2>2. CASE x \notin Leaves
    <3>1. x \in Ops /\ ~ infoDirty[x]
      BY <1>5, <2>2 DEF Nodes, WellFormed, ShapesTyped, Known
    <3>2. l \in ContentBehind({x})
      BY <1>1, <1>3
    <3> QED
      BY <1>5, <3>1, <3>2
  <2> QED
    BY <2>1, <2>2
<1>8. i \notin graph.shape[n]
  <2>1. Value[x].content = Null
    BY <1>7, FedNull
  <2> QED
    BY <1>5, <1>6, <2>1 DEF Shape
<1> QED
  BY <1>4, <1>7, <1>8, FedFacts DEF WellFormed

LEMMA BackFed ==
  ASSUME WellFormed, ShapesFresh, NEW l \in Leaves, data[l] = Null,
         NEW n \in Ops, ~ infoDirty[n], l \in ContentBehind({n})
  PROVE  n \in Fed(l) /\ dim[l] # 0
<1> DEFINE Bad == {m \in Ops : ~ infoDirty[m] /\ l \in ContentBehind({m}) /\ ~ (m \in Fed(l) /\ dim[l] # 0)}
<1>1. \A m \in Bad : m \in Ops /\ ~ infoDirty[m] /\ l \in ContentBehind({m}) /\ ~ (m \in Fed(l) /\ dim[l] # 0)
  OBVIOUS
<1>2. \A m \in Ops : ~ infoDirty[m] /\ l \in ContentBehind({m}) /\ m \notin Bad => m \in Fed(l) /\ dim[l] # 0
  OBVIOUS
<1>3. Bad \in SUBSET Nat /\ \A m \in Ops : m \in Nat
  BY Links DEF WellFormed, Nodes
<1> HIDE DEF Bad
<1>4. SUFFICES ASSUME Bad # {} PROVE FALSE
  BY <1>2
<1>5. PICK m \in Bad : \A x \in Bad : m <= x
  BY <1>3, <1>4, LeastNumber
<1>6. \A x \in Ops : x < m => x \notin Bad
  BY <1>1, <1>3, <1>5
<1>7. \A x \in Ops : x < m /\ ~ infoDirty[x] /\ l \in ContentBehind({x}) => x \in Fed(l) /\ dim[l] # 0
  BY <1>2, <1>6
<1>8. m \in Fed(l) /\ dim[l] # 0
  BY <1>1, <1>5, <1>7, BackFedStep
<1> QED
  BY <1>1, <1>5, <1>8

LEMMA SameFed ==
  ASSUME graph' = graph, fixed' = fixed
  PROVE  \A l : Fed(l)' = Fed(l)
<1>1. Ops' = Ops /\ Nodes' = Nodes /\ \A n : InputsOf(n)' = InputsOf(n)
  BY SameBehind
<1>2. \A n : Feeds(n)' = Feeds(n)
  BY <1>1, Zenon DEF Feeds
<1> QED
  BY <1>1, <1>2, Zenon DEF Fed

LEMMA LacksStill ==
  ASSUME graph' = graph, fixed' = fixed,
         \A l \in Leaves : data[l] = Null /\ dim[l] # 0 => data'[l] = Null /\ dim'[l] # 0
  PROVE  \A m : Lacks(m) => Lacks(m)'
<1>1. Leaves' = Leaves /\ \A n : HasOp(n)' = HasOp(n) /\ ShapeInputs(n)' = ShapeInputs(n)
  BY SameBehind
<1>2. \A l : Fed(l)' = Fed(l)
  BY SameFed
<1> QED
  BY <1>1, <1>2 DEF Lacks

LEMMA ReasonedSame ==
  ASSUME Reasoned, graph' = graph, fixed' = fixed, dim' = dim, data' = data, valid' = valid,
         memory' = "enough" => memory = "enough"
  PROVE  Reasoned'
<1>1. Ops' = Ops /\ Leaves' = Leaves /\ \A n : InputsOf(n)' = InputsOf(n)
  BY SameBehind
<1>2. \A m : Lacks(m) => Lacks(m)'
  BY LacksStill
<1>3. \A e \in Ops : Reason(e) => Reason(e)'
  BY <1>1, <1>2 DEF Reason
<1> QED
  BY <1>1, <1>3 DEF Reasoned

\* Every operator that asks waits for one of its inputs, up to the last one.
LEMMA AskedOn ==
  ASSUME WellFormed, NEW e, IsAsked(e), NEW x \in Asked, x # e
  PROVE  \E y \in Range(InputsOf(x)) : y \in Ops /\ y \in Asked
<1> DEFINE next == [m \in Ops |-> Asks(m)]
           T == {m \in Ops : m \in Asked /\ e \in Reached(Ops, {m}, next)}
<1>1. \A m \in Ops : \A y \in Asks(m) : y \in Ops /\ y \in Range(InputsOf(m))
  BY DEF Asks, Pending, Known, Range
<1>2. ASSUME NEW m \in Ops, NEW y \in Asks(m), NEW z \in Asks(m) PROVE y = z
  <2>1. Pending(m) \subseteq Nat
    BY Links DEF Pending, WellFormed
  <2>2. PICK i \in Pending(m) : y = InputsOf(m)[i] /\ \A k \in Pending(m) : i <= k
    BY DEF Asks
  <2>3. PICK j \in Pending(m) : z = InputsOf(m)[j] /\ \A k \in Pending(m) : j <= k
    BY DEF Asks
  <2>4. i <= j /\ j <= i /\ i \in Nat /\ j \in Nat
    BY <2>1, <2>2, <2>3
  <2>5. i = j
    BY <2>4
  <2> QED
    BY <2>2, <2>3, <2>5
<1>3. Asked = Reached(Ops, {call.of}, next) /\ e \in Asked /\ Asks(e) = {} /\ call.of \in Ops
  BY DEF Asked, IsAsked, WellFormed, CallTyped, HasOp
<1>4. \A m \in Ops : next[m] = Asks(m)
  OBVIOUS
<1> HIDE DEF next
<1>5. \A m \in Ops : next[m] \subseteq Ops
  BY <1>1, <1>4
<1>6. call.of \in T
  <2>1. {call.of} \subseteq Ops
    BY <1>3
  <2> QED
    BY <1>3, <2>1, ReachedHas
<1>7. \A m \in T : next[m] \subseteq T
  <2> SUFFICES ASSUME NEW m \in T, NEW y \in next[m] PROVE y \in T
    OBVIOUS
  <2>1. m \in Ops /\ m \in Asked /\ e \in Reached(Ops, {m}, next) /\ y \in Ops /\ y \in Asks(m)
    BY <1>4, <1>5
  <2>2. y \in Asked
    BY <1>3, <2>1, ReachedOn
  <2>3. e = m \/ \E z \in next[m] : e \in Reached(Ops, {z}, next)
    BY <1>5, <2>1, ReachedFirst
  <2>4. e # m
    BY <1>3, <2>1
  <2>5. PICK z \in next[m] : e \in Reached(Ops, {z}, next)
    BY <2>3, <2>4
  <2>6. z = y
    BY <1>2, <1>4, <2>1
  <2> QED
    BY <2>1, <2>2, <2>5, <2>6
<1>8. Asked \subseteq T
  <2>1. T \in SUBSET Ops /\ {call.of} \subseteq T
    BY <1>6
  <2> HIDE DEF T
  <2> QED
    BY <1>3, <1>7, <2>1, ReachedLeast
<1>9. x \in Ops /\ e \in Reached(Ops, {x}, next)
  BY <1>8
<1>10. PICK y \in next[x] : TRUE
  BY <1>5, <1>9, ReachedFirst
<1>11. y \in Ops /\ y \in Range(InputsOf(x))
  BY <1>1, <1>4, <1>9, <1>10
<1>12. y \in Asked
  BY <1>3, <1>9, <1>10, <1>11, ReachedOn
<1> QED
  BY <1>11, <1>12

\* A call that fails leaves a reason at all that asked in vain.
LEMMA FailReasoned ==
  ASSUME WellFormed, Reasoned, NEW e, IsAsked(e), NEW es, Fail(es),
         \/ es = Asked /\ (memory = "enough" => Reason(e))
         \/ es = Asked \ {e} /\ (memory = "enough" => Lacks(e))
  PROVE  Reasoned'
<1>1. /\ graph' = graph /\ fixed' = fixed /\ dim' = dim /\ data' = data /\ memory' = memory
      /\ valid' = [m \in Ops |-> valid[m] /\ m \notin es]
  BY DEF Fail, outside
<1>2. Ops' = Ops /\ Leaves' = Leaves /\ \A n : InputsOf(n)' = InputsOf(n)
  BY <1>1, SameBehind
<1>3. \A m : Lacks(m) => Lacks(m)'
  BY <1>1, LacksStill
<1>4. \A x \in Ops : Reason(x) => Reason(x)'
  <2>1. \A m \in Ops : ~ valid[m] => ~ valid'[m]
    BY <1>1
  <2> QED
    BY <1>1, <1>2, <1>3, <2>1 DEF Reason
<1>5. SUFFICES ASSUME memory = "enough", NEW x \in Ops, ~ valid'[x] PROVE Reason(x)'
  BY <1>1, <1>2 DEF Reasoned
<1>6. CASE ~ valid[x]
  BY <1>4, <1>5, <1>6 DEF Reasoned
<1>7. CASE x = e /\ x \in es
  BY <1>4, <1>5, <1>7
<1>8. CASE valid[x] /\ x # e
  <2>1. x \in es /\ x \in Asked
    BY <1>1, <1>5, <1>8
  <2>2. PICK y \in Range(InputsOf(x)) : y \in Ops /\ y \in Asked
    BY <1>8, <2>1, AskedOn
  <2>3. CASE y \in es
    BY <1>1, <1>2, <2>2, <2>3 DEF Reason
  <2>4. CASE y \notin es
    <3>1. y = e /\ Lacks(y)
      BY <1>5, <2>2, <2>4
    <3>2. Lacks(y)'
      BY <1>3, <3>1
    <3> QED
      BY <1>2, <2>2, <3>2 DEF Reason
  <2> QED
    BY <2>3, <2>4
<1> QED
  BY <1>1, <1>5, <1>6, <1>7, <1>8

\* What starts anew is valid again, and what is not keeps its reason.
LEMMA FedStays ==
  ASSUME Typed, NEW f \in SUBSET Ops, graph' = graph, fixed' = fixed \cup f,
         NEW l \in Leaves, f \cap Fed(l) = {}
  PROVE  Fed(l) \subseteq Fed(l)'
<1> DEFINE next == [n \in Nodes |-> Feeds(n)]
           then == [n \in Nodes |-> Feeds(n)']
           T == {y \in Nodes : y \in Fed(l) /\ y \in Reached(Nodes, {l}, then)}
<1>1. /\ Ops' = Ops /\ Nodes' = Nodes
      /\ \A n \in Ops \ f : InputsOf(n)' = InputsOf(n)
  BY FixedBehind
<1>2. Fed(l)' = Reached(Nodes, {l}, then)
  BY <1>1, Zenon DEF Fed
<1>3. Fed(l) = Reached(Nodes, {l}, next) /\ l \in Fed(l) /\ Fed(l) \subseteq Nodes
  BY FedFacts DEF Fed
<1>4. \A n \in T : next[n] \subseteq T
  <2> SUFFICES ASSUME NEW n \in T, NEW y \in Feeds(n) PROVE y \in T
    OBVIOUS
  <2>1. PICK i \in graph.content[y] \ graph.shape[y] : i \in DOMAIN InputsOf(y) /\ InputsOf(y)[i] = n
    BY DEF Feeds
  <2>2. y \in Ops /\ y \in Nodes /\ y \in Fed(l)
    BY <2>1, FedFacts DEF Feeds, Nodes
  <2>3. y \in Ops \ f
    BY <2>2
  <2>4. y \in Feeds(n)'
    BY <1>1, <2>1, <2>3 DEF Feeds
  <2>5. y \in then[n] /\ n \in Reached(Nodes, {l}, then)
    BY <2>4
  <2> HIDE DEF then
  <2>6. y \in Reached(Nodes, {l}, then)
    BY <2>2, <2>5, ReachedOn
  <2> QED
    BY <2>2, <2>6
<1>5. {l} \subseteq T /\ T \in SUBSET Nodes
  <2>1. {l} \subseteq Nodes
    BY DEF Nodes
  <2> HIDE DEF then, next
  <2>2. l \in Reached(Nodes, {l}, then)
    BY <2>1, ReachedHas
  <2> QED
    BY <1>3, <2>1, <2>2
<1> HIDE DEF next, then, T
<1>6. Fed(l) \subseteq T
  BY <1>3, <1>4, <1>5, ReachedLeast
<1> QED
  BY <1>2, <1>6 DEF T

LEMMA RestartReasoned ==
  ASSUME WellFormed, Reasoned, NEW es, NEW f, CanRestart(es, f), Restarts(es, f), memory' = memory,
         \A m \in es : \A x \in Consumers(m) : x \in es \/ valid[x],
         \A m \in f : Consumers(m) \subseteq es,
         \A l \in Leaves : dim[l] = 0 /\ dim'[l] # 0 => \A x \in Consumers(l) : x \in es \/ valid[x],
         \A l \in Leaves : data[l] = Null /\ dim[l] # 0 => data'[l] = Null /\ dim'[l] # 0,
         \A l \in Leaves : data[l] = Null => f \cap Fed(l) = {}
  PROVE  Reasoned'
<1>1. /\ graph' = graph /\ fixed' = fixed \cup f /\ f \in SUBSET Ops
      /\ valid' = [m \in Ops |-> m \in es \/ valid[m]] /\ Typed
  BY DEF Restarts, CanRestart, WellFormed
<1>2. /\ Ops' = Ops /\ Leaves' = Leaves
      /\ \A n \in Ops \ f : /\ InputsOf(n)' = InputsOf(n) /\ HasOp(n)' = HasOp(n)
                            /\ ShapeInputs(n)' = ShapeInputs(n)
  BY <1>1, FixedBehind
<1>3. SUFFICES ASSUME memory = "enough", NEW x \in Ops, ~ valid'[x] PROVE Reason(x)'
  BY <1>2 DEF Reasoned
<1>4. ~ valid[x] /\ x \notin es /\ x \notin f
  <2>1. ~ valid[x] /\ x \notin es
    BY <1>1, <1>3
  <2>2. infoDirty[x]
    BY <2>1 DEF WellFormed, ShapesTyped
  <2> QED
    BY <2>1, <2>2 DEF CanRestart
<1>5. PICK m \in Range(InputsOf(x)) : (m \in Leaves /\ dim[m] = 0) \/ (m \in Ops /\ (~ valid[m] \/ Lacks(m)))
  BY <1>3, <1>4 DEF Reasoned, Reason
<1>6. x \in Consumers(m) /\ m \in Range(InputsOf(x)') /\ m \notin es /\ m \notin f
  BY <1>1, <1>2, <1>4 DEF Consumers
<1>7. CASE m \in Leaves /\ dim[m] = 0
  <2>1. dim'[m] = 0
    BY <1>4, <1>6, <1>7
  <2> QED
    BY <1>2, <1>6, <1>7, <2>1 DEF Reason
<1>8. CASE m \in Ops /\ ~ valid[m]
  <2>1. ~ valid'[m]
    BY <1>1, <1>6, <1>8
  <2> QED
    BY <1>2, <1>6, <1>8, <2>1 DEF Reason
<1>9. CASE m \in Ops /\ Lacks(m)
  <2>1. PICK l \in Leaves, z \in ShapeInputs(m) : data[l] = Null /\ dim[l] # 0 /\ z \in Fed(l)
    BY <1>9 DEF Lacks
  <2>2. z \in Fed(l)'
    BY <1>1, <2>1, FedStays
  <2>3. HasOp(m)' /\ ShapeInputs(m)' = ShapeInputs(m) /\ data'[l] = Null /\ dim'[l] # 0
    BY <1>2, <1>6, <1>9, <2>1 DEF Lacks
  <2>4. Lacks(m)'
    BY <1>2, <2>1, <2>2, <2>3 DEF Lacks
  <2> QED
    BY <1>2, <1>6, <1>9, <2>4 DEF Reason
<1> QED
  BY <1>5, <1>7, <1>8, <1>9

LEMMA DirtyOutputsValid ==
  ASSUME Typed, NEW n
  PROVE  /\ \A x \in Consumers(n) : x \in DirtyOutputs(n) \/ valid[x]
         /\ \A m \in DirtyOutputs(n) : \A x \in Consumers(m) : x \in DirtyOutputs(n) \/ valid[x]
<1>1. /\ Consumers(n) \subseteq Outputs(n, Clean(Ops)) /\ Outputs(n, Clean(Ops)) \subseteq Ops
      /\ \A x \in Outputs(n, Clean(Ops)) : x \in Clean(Ops) => Consumers(x) \subseteq Outputs(n, Clean(Ops))
  BY OutputsClosed
<1>2. \A x \in Outputs(n, Clean(Ops)) : x \in DirtyOutputs(n) \/ valid[x]
  BY DEF DirtyOutputs, Clean, InfoIsDirty
<1>3. \A m \in DirtyOutputs(n) : m \in Clean(Ops) /\ m \in Outputs(n, Clean(Ops))
  BY <1>1 DEF DirtyOutputs, Clean
<1> QED
  BY <1>1, <1>2, <1>3

LEMMA LeafReasoned ==
  ASSUME WellFormed, Reasoned, NEW l \in Leaves, graph' = graph, fixed' = fixed, memory' = memory,
         SetInfoDirty(DirtyOutputs(l)), dim'[l] # 0,
         \A k \in Leaves : k # l => dim'[k] = dim[k] /\ data'[k] = data[k],
         data[l] = Null /\ dim[l] # 0 => data'[l] = Null
  PROVE  Reasoned'
<1> DEFINE es == DirtyOutputs(l)
<1>1. CanRestart(es, {}) /\ Restarts(es, {})
  BY DirtyOutputsRestart, SetInfoDirtyRestarts DEF WellFormed
<1>2. /\ \A x \in Consumers(l) : x \in es \/ valid[x]
      /\ \A m \in es : \A x \in Consumers(m) : x \in es \/ valid[x]
  BY DirtyOutputsValid DEF WellFormed
<1>3. /\ \A k \in Leaves : dim[k] = 0 /\ dim'[k] # 0 => \A x \in Consumers(k) : x \in es \/ valid[x]
      /\ \A k \in Leaves : data[k] = Null /\ dim[k] # 0 => data'[k] = Null /\ dim'[k] # 0
      /\ \A k \in Leaves : data[k] = Null => {} \cap Fed(k) = {}
      /\ \A m \in {} : Consumers(m) \subseteq es
  BY <1>2
<1> HIDE DEF es
<1> QED
  BY <1>1, <1>2, <1>3, RestartReasoned

LEMMA VisitReasoned ==
  ASSUME WellFormed, Reasoned, NEW e \in Ops, NEW i, VisitForShape(e, i)
  PROVE  Reasoned' /\ (\A f \in Consumers(e) : valid'[f]) /\ (\A f \in Ops : valid[f] => valid'[f])
<1> DEFINE es == Clean({e}) \cup DirtyOutputs(e)
<1>1. CanRestart(es, {}) /\ Restarts(es, {})
  BY VisitStep
<1>2. /\ \A x \in Consumers(e) : x \in es \/ valid[x]
      /\ \A m \in es : \A x \in Consumers(m) : x \in es \/ valid[x]
  BY DirtyOutputsValid DEF WellFormed, Clean
<1>3. memory' = memory /\ dim' = dim /\ data' = data
  BY DEF VisitForShape, outside
<1>4. /\ \A k \in Leaves : dim[k] = 0 /\ dim'[k] # 0 => \A x \in Consumers(k) : x \in es \/ valid[x]
      /\ \A k \in Leaves : data[k] = Null /\ dim[k] # 0 => data'[k] = Null /\ dim'[k] # 0
      /\ \A k \in Leaves : data[k] = Null => {} \cap Fed(k) = {}
      /\ \A m \in {} : Consumers(m) \subseteq es
  BY <1>3
<1>5. \A f \in Consumers(e) : f \in Ops
  BY DEF Consumers
<1> HIDE DEF es
<1>6. Reasoned'
  BY <1>1, <1>2, <1>3, <1>4, RestartReasoned
<1>7. valid' = [m \in Ops |-> m \in es \/ valid[m]]
  BY <1>1 DEF Restarts
<1> QED
  BY <1>2, <1>5, <1>6, <1>7

LEMMA FixReasoned ==
  ASSUME WellFormed, Fresh, Reasoned, Fix
  PROVE  Reasoned'
<1> DEFINE es == Outputs(call.of, Ops)
<1>1. CanRestart(es, {call.of}) /\ Restarts(es, {call.of})
  BY FixStep
<1>2. Consumers(call.of) \subseteq es /\ \A x \in es : Consumers(x) \subseteq es
  BY OutputsClosed DEF WellFormed
<1>3. memory' = memory /\ dim' = dim /\ data' = data /\ call.do = "have"
  BY DEF Fix
<1>4. \A l \in Leaves : data[l] = Null => {call.of} \cap Fed(l) = {}
  BY <1>3, FedNull DEF Fresh, HaveFresh
<1>5. /\ \A k \in Leaves : dim[k] = 0 /\ dim'[k] # 0 => \A x \in Consumers(k) : x \in es \/ valid[x]
      /\ \A k \in Leaves : data[k] = Null /\ dim[k] # 0 => data'[k] = Null /\ dim'[k] # 0
      /\ \A m \in {call.of} : Consumers(m) \subseteq es
      /\ \A m \in es : \A x \in Consumers(m) : x \in es \/ valid[x]
  BY <1>2, <1>3
<1> HIDE DEF es
<1> QED
  BY <1>1, <1>3, <1>4, <1>5, RestartReasoned

(***************************************************************************)
(* The invariant, part by part: what informDirty has visited is valid      *)
(* again, or it has gone on from there.                                    *)
(***************************************************************************)
VisitedWell(e) ==
  \E i \in DOMAIN InputsOf(e) :
    /\ InputsOf(e)[i] \in call.through
    /\ i \in graph.shape[e] => \A f \in Consumers(e) : valid[f]
    /\ i \in graph.content[e] \ graph.shape[e] => e \in call.through

Informed == call.do = "inform" => \A e \in call.seen : VisitedWell(e)

LEMMA InformedIdle ==
  ASSUME call'.do # "inform"
  PROVE  Informed'
BY DEF Informed

LEMMA InformedVisit ==
  ASSUME WellFormed, Reasoned, Informed, NEW e \in Ops, NEW i,
         VisitForShape(e, i) \/ VisitForContent(e, i) \/ VisitForNothing(e, i)
  PROVE  Informed'
<1>1. /\ UNCHANGED <<graph, fixed>> /\ call'.seen = call.seen \cup {e} /\ call.through \subseteq call'.through
      /\ i \in graph.content[e] \ graph.shape[e] => e \in call'.through
  <2>1. ASSUME NEW through, call' = Informing(call.of, through, call.seen \cup {e})
        PROVE  call'.seen = call.seen \cup {e} /\ call'.through = through
    BY <2>1 DEF Informing
  <2>2. CASE VisitForShape(e, i)
    <3>1. /\ call' = Informing(call.of, call.through, call.seen \cup {e})
          /\ i \in graph.shape[e] /\ UNCHANGED <<graph, fixed>>
      BY <2>2 DEF VisitForShape
    <3> QED
      BY <2>1, <3>1
  <2>3. CASE VisitForContent(e, i)
    <3>1. call' = Informing(call.of, call.through \cup {e}, call.seen \cup {e}) /\ UNCHANGED <<graph, fixed>>
      BY <2>3 DEF VisitForContent, outside
    <3> QED
      BY <2>1, <3>1
  <2>4. CASE VisitForNothing(e, i)
    <3>1. /\ call' = Informing(call.of, call.through, call.seen \cup {e})
          /\ i \notin graph.content[e] /\ UNCHANGED <<graph, fixed>>
      BY <2>4 DEF VisitForNothing, outside
    <3> QED
      BY <2>1, <3>1
  <2> QED
    BY <2>2, <2>3, <2>4
<1>2. call.do = "inform" /\ i \in DOMAIN InputsOf(e) /\ InputsOf(e)[i] \in call.through
  BY DEF VisitForShape, VisitForContent, VisitForNothing, IsVisited
<1>3. graph' = graph /\ \A n : InputsOf(n)' = InputsOf(n)
  BY <1>1, SameBehind
<1>4. \A n : Consumers(n)' = Consumers(n)
  BY <1>3 DEF Consumers, Ops
<1>5. \A f \in Ops : valid[f] => valid'[f]
  BY VisitReasoned DEF VisitForContent, VisitForNothing, kept
<1>6. VisitedWell(e)'
  <2>1. i \in graph.shape[e] => \A f \in Consumers(e) : valid'[f]
    BY VisitReasoned DEF VisitForContent, VisitForNothing
  <2>2. i \in graph.content[e] \ graph.shape[e] => e \in call'.through
    BY <1>1
  <2> QED
    BY <1>1, <1>3, <1>4, <1>2, <2>1, <2>2 DEF VisitedWell
<1>7. \A m \in call.seen : VisitedWell(m)'
  <2> TAKE m \in call.seen
  <2>1. VisitedWell(m)
    BY <1>2 DEF Informed
  <2>2. \A f \in Consumers(m) : valid[f] => valid'[f]
    BY <1>5 DEF Consumers
  <2> QED
    BY <1>1, <1>3, <1>4, <2>1, <2>2 DEF VisitedWell
<1> QED
  BY <1>1, <1>6, <1>7 DEF Informed

\* Where informDirty has come to an end it has been wherever the leaf feeds.
LEMMA InformedAll ==
  ASSUME WellFormed, InformFresh, Informed, NEW v, Write(v)
  PROVE  /\ Fed(call.of) \subseteq call.through
         /\ \A m \in Ops : \A j \in graph.shape[m] \cap DOMAIN InputsOf(m) :
              InputsOf(m)[j] \in call.through => \A x \in Consumers(m) : valid[x]
<1> DEFINE l == call.of
           next == [n \in Nodes |-> Feeds(n)]
           T == {n \in Nodes : n \in call.through}
<1>1. /\ call.do = "inform" /\ \A n \in call.through : Unseen(n) = {}
      /\ OneNeed(l) /\ l \in Leaves /\ l \in call.through /\ call.through \subseteq Flow(l)
      /\ \A e \in call.seen : VisitedWell(e)
  BY DEF Write, WellFormed, CallTyped, InformFresh, Informed
<1>2. ASSUME NEW e \in Ops, NEW j \in DOMAIN InputsOf(e), InputsOf(e)[j] \in call.through
      PROVE  /\ j \in graph.shape[e] => \A f \in Consumers(e) : valid[f]
             /\ j \in graph.content[e] \ graph.shape[e] => e \in call.through
  <2>1. e \in Consumers(InputsOf(e)[j])
    BY <1>2 DEF Consumers, Range
  <2>2. e \in call.seen
    BY <1>1, <1>2, <2>1 DEF Unseen
  <2>3. PICK i \in DOMAIN InputsOf(e) :
          /\ InputsOf(e)[i] \in call.through
          /\ i \in graph.shape[e] => \A f \in Consumers(e) : valid[f]
          /\ i \in graph.content[e] \ graph.shape[e] => e \in call.through
    BY <1>1, <2>2 DEF VisitedWell
  <2>4. InputsOf(e) = graph.in[e]
    BY <1>2, Links DEF WellFormed
  <2>5. (i \in graph.content[e] <=> j \in graph.content[e]) /\ (i \in graph.shape[e] <=> j \in graph.shape[e])
    BY <1>1, <1>2, <2>3, <2>4 DEF OneNeed
  <2> QED
    BY <2>3, <2>5
<1>3. l \in T
  BY <1>1 DEF Nodes
<1>4. \A n \in T : next[n] \subseteq T
  <2> SUFFICES ASSUME NEW n \in T, NEW y \in Feeds(n) PROVE y \in T
    OBVIOUS
  <2>1. PICK i \in graph.content[y] \ graph.shape[y] : i \in DOMAIN InputsOf(y) /\ InputsOf(y)[i] = n
    BY DEF Feeds
  <2>2. y \in Ops /\ y \in Nodes
    BY DEF Feeds, Nodes
  <2> QED
    BY <1>2, <2>1, <2>2
<1>5. Fed(l) \subseteq T
  <2>1. Fed(l) = Reached(Nodes, {l}, next) /\ T \in SUBSET Nodes /\ {l} \subseteq T
    BY <1>3 DEF Fed
  <2> HIDE DEF next, T, l
  <2> QED
    BY <1>4, <2>1, ReachedLeast
<1> QED
  BY <1>2, <1>5

LEMMA WriteReasoned ==
  ASSUME WellFormed, InformFresh, Informed, Reasoned, NEW v, Write(v)
  PROVE  Reasoned'
<1>1. /\ UNCHANGED <<graph, dim, fixed, memory, valid>> /\ call.of \in Leaves
      /\ \A k \in Leaves : k # call.of => data'[k] = data[k]
  BY DEF Write, kept, WellFormed, CallTyped
<1>2. /\ Ops' = Ops /\ Leaves' = Leaves
      /\ \A n : InputsOf(n)' = InputsOf(n) /\ HasOp(n)' = HasOp(n) /\ ShapeInputs(n)' = ShapeInputs(n)
      /\ \A l : Fed(l)' = Fed(l)
  BY <1>1, SameBehind, SameFed
<1>3. SUFFICES ASSUME memory = "enough", NEW x \in Ops, ~ valid[x] PROVE Reason(x)'
  BY <1>1, <1>2 DEF Reasoned
<1>4. PICK m \in Range(InputsOf(x)) : (m \in Leaves /\ dim[m] = 0) \/ (m \in Ops /\ (~ valid[m] \/ Lacks(m)))
  BY <1>3 DEF Reasoned, Reason
<1>5. CASE (m \in Leaves /\ dim[m] = 0) \/ (m \in Ops /\ ~ valid[m])
  BY <1>1, <1>2, <1>4, <1>5 DEF Reason
<1>6. CASE m \in Ops /\ Lacks(m)
  <2>1. PICK l \in Leaves, z \in ShapeInputs(m) : data[l] = Null /\ dim[l] # 0 /\ z \in Fed(l)
    BY <1>6 DEF Lacks
  <2>2. l # call.of
    <3> SUFFICES ASSUME l = call.of PROVE FALSE
      OBVIOUS
    <3>1. PICK j \in graph.shape[m] \cap DOMAIN InputsOf(m) : InputsOf(m)[j] = z
      BY <2>1 DEF ShapeInputs
    <3>2. z \in call.through
      BY <2>1, InformedAll
    <3>3. x \in Consumers(m)
      BY <1>4 DEF Consumers
    <3> QED
      BY <1>3, <1>6, <3>1, <3>2, <3>3, InformedAll
  <2>3. Lacks(m)'
    BY <1>1, <1>2, <1>6, <2>1, <2>2 DEF Lacks
  <2> QED
    BY <1>2, <1>4, <1>6, <2>3 DEF Reason
<1> QED
  BY <1>4, <1>5, <1>6

(***************************************************************************)
(* Null is returned only while an input has no content, or after memory    *)
(* has run out.                                                            *)
(***************************************************************************)
FailedWell == call.do = "failed" => Incomplete

Answerable == MemoryKept /\ LeavesFit /\ Reasoned /\ Informed /\ FailedWell

\* The first operator that is not valid has a leaf without content for a reason.
LEMMA InvalidMissing ==
  ASSUME WellFormed, MemoryKept, Reasoned, memory = "enough", NEW e \in Ops, ~ valid[e]
  PROVE  \E l \in Leaves : data[l] = Null
<1> DEFINE Bad == {x \in Ops : ~ valid[x]}
<1>1. Bad \in SUBSET Nat /\ Bad # {}
  BY Links DEF WellFormed, Nodes
<1>2. \A x \in Ops : x \in Bad <=> ~ valid[x]
  OBVIOUS
<1>3. Bad \subseteq Ops
  OBVIOUS
<1> HIDE DEF Bad
<1>4. PICK m \in Bad : \A x \in Bad : m <= x
  BY <1>1, LeastNumber
<1>5. m \in Ops /\ ~ valid[m]
  BY <1>2, <1>3
<1>6. PICK y \in Range(InputsOf(m)) : (y \in Leaves /\ dim[y] = 0) \/ (y \in Ops /\ (~ valid[y] \/ Lacks(y)))
  BY <1>5 DEF Reasoned, Reason
<1>7. y \notin Bad
  <2>1. y \in Nat /\ m \in Nat /\ y < m
    <3>1. y \in Nodes /\ m \in Nodes /\ y < m
      BY <1>5, Links DEF WellFormed, Nodes
    <3> QED
      BY <3>1, Links DEF WellFormed
  <2>2. y \in Bad => m <= y
    BY <1>4
  <2> QED
    BY <2>1, <2>2
<1>8. (y \in Leaves /\ dim[y] = 0) \/ Lacks(y)
  BY <1>2, <1>6, <1>7
<1> QED
  BY <1>8 DEF MemoryKept, Lacks

LEMMA RefuseWell ==
  ASSUME WellFormed, MemoryKept, Reasoned, NEW e \in Ops, Refuse(e)
  PROVE  Reasoned' /\ FailedWell'
<1>1. IsAsked(e) /\ ~ valid[e] /\ Fail(Asked)
  BY DEF Refuse
<1>2. Reasoned'
  <2>1. memory = "enough" => Reason(e)
    BY <1>1 DEF Reasoned
  <2> QED
    BY <1>1, <2>1, FailReasoned
<1>3. memory # "enough" \/ \E l \in Leaves : data[l] = Null
  BY <1>1, InvalidMissing
<1>4. memory' = memory /\ data' = data /\ Leaves' = Leaves
  BY <1>1 DEF Fail, outside, Leaves
<1> QED
  BY <1>2, <1>3, <1>4 DEF FailedWell, Incomplete

LEMMA ComputeInfoWell ==
  ASSUME WellFormed, ShapesFresh, MemoryKept, Reasoned, NEW e \in Ops, ComputeInfo(e)
  PROVE  Reasoned' /\ FailedWell'
<1>1. CASE ~ \E m \in Range(InputsOf(e)) : InfoOf(m) = << 0 >>
  <2>1. UNCHANGED <<outside, valid>> /\ call' = Asking(call.of, <<>>)
    BY <1>1 DEF ComputeInfo
  <2>2. UNCHANGED <<graph, dim, data, fixed, memory, valid>> /\ call'.do # "failed"
    BY <2>1 DEF outside, Asking
  <2> QED
    BY <2>2, ReasonedSame DEF FailedWell
<1>2. CASE \E m \in Range(InputsOf(e)) : InfoOf(m) = << 0 >>
  <2>1. IsAsked(e) /\ Fail(Asked) /\ valid[e]
    BY <1>2 DEF ComputeInfo
  <2>2. PICK m \in Range(InputsOf(e)) : InfoOf(m) = << 0 >>
    BY <1>2
  <2>3. m \in Leaves /\ dim[m] = 0
    <3>1. m \in Nodes /\ Known(m)
      BY <2>1, AskedFacts, Links DEF WellFormed
    <3>2. m \in Leaves
      <4>1. m \in Ops => ~ infoDirty[m] /\ info[m] # << 0 >>
        BY <3>1 DEF Known, ShapesFresh
      <4>2. m \notin Leaves => info[m] = << 0 >>
        BY <2>2 DEF InfoOf
      <4> QED
        BY <3>1, <4>1, <4>2 DEF Nodes
    <3>3. <<dim[m]>> = << 0 >>
      BY <2>2, <3>2 DEF InfoOf
    <3> QED
      BY <3>2, <3>3
  <2>4. Reason(e)
    BY <2>3 DEF Reason
  <2>5. Reasoned'
    BY <2>1, <2>4, FailReasoned
  <2>6. data[m] = Null
    BY <2>3 DEF MemoryKept
  <2>7. memory' = memory /\ data' = data /\ Leaves' = Leaves
    BY <2>1 DEF Fail, outside, Leaves
  <2> QED
    BY <2>3, <2>5, <2>6, <2>7 DEF FailedWell, Incomplete
<1> QED
  BY <1>1, <1>2

LEMMA ReadConstantWell ==
  ASSUME WellFormed, Reasoned, NEW e, NEW i, ReadConstant(e, i)
  PROVE  Reasoned' /\ FailedWell'
<1> DEFINE m == InputsOf(e)[i]
           content == IF m \in Leaves THEN data[m] ELSE Constant(m, m \in overwritten)
<1>1. /\ IsAsked(e) /\ i \in graph.shape[e] /\ i \in DOMAIN InputsOf(e) /\ ~ HasOp(m) /\ InfoOf(m) # << 0 >>
      /\ IF content = Null THEN Fail(Asked \ {e}) ELSE Got(m, content) /\ UNCHANGED <<outside, kept>>
  BY DEF ReadConstant, IsRead, Wanted
<1>2. CASE content # Null
  <2>1. UNCHANGED <<graph, dim, data, fixed, memory, valid>> /\ call'.do # "failed"
    BY <1>1, <1>2 DEF outside, kept, Got, Asking
  <2> QED
    BY <2>1, ReasonedSame DEF FailedWell
<1>3. CASE content = Null
  <2>1. Fail(Asked \ {e})
    BY <1>1, <1>3
  <2>2. m \in Leaves /\ data[m] = Null
    <3>1. Constant(m, m \in overwritten) # Null
      BY DEF Constant, Atom, Null
    <3> QED
      BY <1>3, <3>1
  <2>3. dim[m] # 0
    BY <1>1, <2>2 DEF InfoOf
  <2>4. m \in ShapeInputs(e)
    BY <1>1 DEF ShapeInputs
  <2>5. HasOp(e) /\ m \in Fed(m)
    BY <1>1, <2>2, AskedFacts, FedFacts DEF HasOp, WellFormed
  <2>6. Lacks(e)
    BY <2>2, <2>3, <2>4, <2>5 DEF Lacks
  <2>7. Reasoned'
    BY <1>1, <2>1, <2>6, FailReasoned
  <2>8. data' = data /\ Leaves' = Leaves
    BY <2>1 DEF Fail, outside, Leaves
  <2> QED
    BY <2>2, <2>7, <2>8 DEF FailedWell, Incomplete
<1> QED
  BY <1>2, <1>3

\* What the session of an input of a shape lacks, the shape lacks.
LEMMA ReadForShapeWell ==
  ASSUME WellFormed, ShapesFresh, MemoryKept, LeavesFit, Reasoned, NEW e, NEW i, ReadForShape(e, i)
  PROVE  Reasoned' /\ FailedWell'
<1> DEFINE m == InputsOf(e)[i]
<1>1. /\ IsAsked(e) /\ i \in graph.shape[e] /\ i \in DOMAIN InputsOf(e) /\ HasOp(m) /\ cache[m] # NoCache
      /\ \/ Computes(cache[m]) /\ Got(m, caches'[cache[m]].held[m]) /\ UNCHANGED <<outside, kept>>
         \/ Stops(cache[m]) /\ Fail(Asked \ {e})
  BY DEF ReadForShape, IsRead, Wanted
<1>2. CASE Got(m, caches'[cache[m]].held[m]) /\ UNCHANGED <<outside, kept>>
  <2>1. UNCHANGED <<graph, dim, data, fixed, memory, valid>> /\ call'.do # "failed"
    BY <1>2 DEF outside, kept, Got, Asking
  <2> QED
    BY <2>1, ReasonedSame DEF FailedWell
<1>3. CASE Stops(cache[m]) /\ Fail(Asked \ {e})
  <2>1. memory' = memory /\ data' = data /\ Leaves' = Leaves
    BY <1>3 DEF Fail, outside, Leaves
  <2>2. m \in Ops /\ e \in Ops /\ HasOp(e) /\ m \in ShapeInputs(e)
    BY <1>1, AskedFacts DEF HasOp, ShapeInputs
  <2>3. ASSUME memory = "enough"
        PROVE  Lacks(e) /\ \E l \in Leaves : data[l] = Null
    <3>1. LacksInput(cache[m])
      BY <1>3, <2>3, SessionsGetMemory DEF WellFormed, MemoryKept
    <3>2. PICK k \in Behind(cache[m]) : \E l \in caches[k].leaves : data[l] = Null
      BY <3>1 DEF LacksInput
    <3>3. PICK l \in caches[k].leaves : data[l] = Null
      BY <3>2
    <3>4. ForShape(m)
      <4>1. ShapeInputs(e) \subseteq Nodes
        BY <2>2, Links DEF WellFormed
      <4>2. m \in ContentBehind(ShapeInputs(e))
        BY <2>2, <4>1, ContentBehindFacts DEF WellFormed
      <4> QED
        BY <2>2, <4>2 DEF ForShape
    <3>5. l \in ContentBehind({m})
      BY <1>1, <2>2, <3>3, <3>4 DEF LeavesFit
    <3>6. l \in Leaves
      <4>1. k \in DOMAIN caches
        BY ReachedIn DEF Behind
      <4> QED
        BY <3>3, <4>1 DEF WellFormed, CachesTyped, CacheTyped
    <3>7. ~ infoDirty[m]
      BY <1>1, <2>2 DEF WellFormed, ShapesTyped
    <3>8. m \in Fed(l) /\ dim[l] # 0
      BY <2>2, <3>3, <3>5, <3>6, <3>7, BackFed
    <3> QED
      BY <2>2, <3>3, <3>6, <3>8 DEF Lacks
  <2>4. Reasoned'
    BY <1>1, <1>3, <2>3, FailReasoned
  <2> QED
    BY <2>1, <2>3, <2>4 DEF FailedWell, Incomplete
<1> QED
  BY <1>1, <1>2, <1>3

LEMMA ReadWell ==
  ASSUME WellFormed, MemoryKept, Reasoned, Read
  PROVE  Reasoned' /\ FailedWell'
<1>1. UNCHANGED <<graph, dim, data, fixed, memory, valid>>
  BY DEF Read, outside, kept
<1>2. Leaves' = Leaves
  BY <1>1 DEF Leaves
<1>3. ASSUME call'.do = "failed", memory = "enough"
      PROVE  \E l \in Leaves : data[l] = Null
  <2>1. Stops(cache[call.of])
    BY <1>3 DEF Read, Having
  <2>2. LacksInput(cache[call.of])
    BY <1>3, <2>1, SessionsGetMemory DEF WellFormed, MemoryKept
  <2>3. \A k \in Behind(cache[call.of]) : caches[k].leaves \subseteq Leaves
    BY ReachedIn DEF Behind, WellFormed, CachesTyped, CacheTyped
  <2> QED
    BY <2>2, <2>3 DEF LacksInput
<1> QED
  BY <1>1, <1>2, <1>3, ReasonedSame DEF FailedWell, Incomplete

LEMMA OtherWell ==
  ASSUME Reasoned, UNCHANGED <<graph, dim, data, fixed, valid>>, memory' = "enough" => memory = "enough",
         call'.do \notin {"inform", "failed"}
  PROVE  Reasoned' /\ Informed' /\ FailedWell'
BY ReasonedSame, InformedIdle DEF FailedWell

LEMMA AnswerableNext ==
  ASSUME ~ hasty', WellFormed, Fresh, Answerable, Next
  PROVE  Answerable'
<1> SUFFICES Reasoned' /\ Informed' /\ FailedWell'
  BY MemoryNext, LeavesNext DEF Answerable
<1> USE DEF Answerable
<1>1. ASSUME NEW l \in Leaves, NEW d \in Dims[l], Resize(l, d) PROVE Reasoned' /\ Informed' /\ FailedWell'
  <2>1. /\ graph' = graph /\ fixed' = fixed /\ memory' = memory /\ SetInfoDirty(DirtyOutputs(l)) /\ call' = call
        /\ \A k \in Leaves : k # l => dim'[k] = dim[k] /\ data'[k] = data[k]
        /\ dim'[l] # 0 /\ data'[l] = Null /\ call = Nothing
    BY <1>1 DEF Resize, WellFormed, Typed
  <2>2. Reasoned'
    BY <2>1, LeafReasoned
  <2> QED
    BY <2>1, <2>2, InformedIdle DEF FailedWell, Nothing
<1>2. ASSUME NEW l \in Leaves, NEW d \in Dims[l], NEW v \in Values, Input(l, d, v)
      PROVE  Reasoned' /\ Informed' /\ FailedWell'
  <2>1. /\ graph' = graph /\ fixed' = fixed /\ memory' = memory /\ SetInfoDirty(DirtyOutputs(l)) /\ call' = call
        /\ \A k \in Leaves : k # l => dim'[k] = dim[k] /\ data'[k] = data[k]
        /\ dim'[l] # 0 /\ call = Nothing
    BY <1>2 DEF Input, WellFormed, Typed
  <2>3. dim[l] = 0 \/ data[l] # Null
    BY <1>2, Zenon DEF Input
  <2>2. Reasoned'
    BY <2>1, <2>3, LeafReasoned
  <2> QED
    BY <2>1, <2>2, InformedIdle DEF FailedWell, Nothing
<1>3. ASSUME NEW l \in Leaves, WriteMap(l) PROVE Reasoned' /\ Informed' /\ FailedWell'
  <2>1. UNCHANGED <<graph, dim, data, fixed, valid, memory>> /\ call' = Informing(l, {l}, {})
    BY <1>3 DEF WriteMap, outside, kept
  <2>2. call'.seen = {} /\ call'.do # "failed"
    BY <2>1 DEF Informing
  <2> QED
    BY <2>1, <2>2, ReasonedSame DEF Informed, FailedWell
<1>4. ASSUME NEW e \in Ops, NEW i \in DOMAIN graph.in[e],
             VisitForShape(e, i) \/ VisitForContent(e, i) \/ VisitForNothing(e, i)
      PROVE  Reasoned' /\ Informed' /\ FailedWell'
  <2>1. Informed'
    BY <1>4, InformedVisit
  <2>2. call'.do # "failed"
    <3>1. \A through, seen : Informing(call.of, through, seen).do # "failed"
      BY DEF Informing
    <3>2. \E through, seen : call' = Informing(call.of, through, seen)
      BY <1>4 DEF VisitForShape, VisitForContent, VisitForNothing
    <3> QED
      BY <3>1, <3>2
  <2>3. Reasoned'
    <3>1. CASE VisitForShape(e, i)
      BY <3>1, VisitReasoned
    <3>2. CASE VisitForContent(e, i) \/ VisitForNothing(e, i)
      <4>1. UNCHANGED <<graph, dim, data, fixed, valid, memory>>
        BY <3>2 DEF VisitForContent, VisitForNothing, outside, kept
      <4> QED
        BY <4>1, ReasonedSame
    <3> QED
      BY <1>4, <3>1, <3>2
  <2> QED
    BY <2>1, <2>2, <2>3 DEF FailedWell
<1>5. ASSUME NEW v \in Values, Write(v) PROVE Reasoned' /\ Informed' /\ FailedWell'
  <2>1. call'.do \notin {"inform", "failed"}
    BY <1>5 DEF Write, Nothing
  <2> QED
    BY <1>5, <2>1, WriteReasoned, InformedIdle DEF FailedWell, Fresh
<1>6. ASSUME NEW e \in Ops, Ask(e) \/ ComputeOne(e) PROVE Reasoned' /\ Informed' /\ FailedWell'
  <2>1. UNCHANGED <<graph, dim, data, fixed, valid, memory>> /\ call'.do \notin {"inform", "failed"}
    BY <1>6 DEF Ask, ComputeOne, outside, kept, Asking, Computing, Nothing
  <2> QED
    BY <2>1, OtherWell
<1>7. ASSUME NEW e \in Ops, Refuse(e) \/ ComputeInfo(e) PROVE Reasoned' /\ Informed' /\ FailedWell'
  <2>1. call'.do # "inform"
    BY <1>7 DEF Refuse, ComputeInfo, Fail, Failed, Asking
  <2> QED
    BY <1>7, <2>1, RefuseWell, ComputeInfoWell, InformedIdle DEF Fresh
<1>8. ASSUME NEW e \in Ops, NEW i \in DOMAIN graph.in[e], ReadConstant(e, i) \/ ReadForShape(e, i)
      PROVE  Reasoned' /\ Informed' /\ FailedWell'
  <2>1. call'.do # "inform"
    BY <1>8 DEF ReadConstant, ReadForShape, Got, Fail, Failed, Asking
  <2> QED
    BY <1>8, <2>1, ReadConstantWell, ReadForShapeWell, InformedIdle DEF Fresh
<1>9. ASSUME NEW e \in Ops, NEW i \in DOMAIN graph.in[e], MakeCacheForShape(e, i)
      PROVE  Reasoned' /\ Informed' /\ FailedWell'
  <2>1. UNCHANGED <<graph, dim, data, fixed, valid, memory>> /\ call'.do \notin {"inform", "failed"}
    BY <1>9 DEF MakeCacheForShape, MakeCache, outside, IsRead, IsAsked
  <2> QED
    BY <2>1, OtherWell
<1>10. ASSUME MakeCacheToRead PROVE Reasoned' /\ Informed' /\ FailedWell'
  <2>1. UNCHANGED <<graph, dim, data, fixed, valid, memory>> /\ call'.do \notin {"inform", "failed"}
    BY <1>10 DEF MakeCacheToRead, MakeCache, outside
  <2> QED
    BY <2>1, OtherWell
<1>11. ASSUME Read PROVE Reasoned' /\ Informed' /\ FailedWell'
  <2>1. call'.do # "inform"
    BY <1>11 DEF Read, Having, Failed
  <2> QED
    BY <1>11, <2>1, ReadWell, InformedIdle
<1>12. ASSUME Return PROVE Reasoned' /\ Informed' /\ FailedWell'
  <2>1. UNCHANGED <<graph, dim, data, fixed, valid, memory>> /\ call'.do \notin {"inform", "failed"}
    BY <1>12 DEF Return, outside, kept, Nothing
  <2> QED
    BY <2>1, OtherWell
<1>13. ASSUME Fix PROVE Reasoned' /\ Informed' /\ FailedWell'
  <2>1. call'.do \notin {"inform", "failed"}
    BY <1>13 DEF Fix, Nothing
  <2> QED
    BY <1>13, <2>1, FixReasoned, InformedIdle DEF FailedWell
<1>14. ASSUME NEW es \in SUBSET {e \in Ops : HasOp(e)}, es # {} /\ Prepare(es)
       PROVE  Reasoned' /\ Informed' /\ FailedWell'
  <2>1. UNCHANGED <<graph, dim, data, fixed, valid, memory>> /\ call'.do \notin {"inform", "failed"}
    BY <1>14 DEF Prepare, MakeCache, outside, kept, Computing
  <2> QED
    BY <2>1, OtherWell
<1>15. ASSUME LoseMemory \/ RegainMemory PROVE Reasoned' /\ Informed' /\ FailedWell'
  <2>1. UNCHANGED <<graph, dim, data, fixed, valid>> /\ call'.do \notin {"inform", "failed"} /\ memory' # "enough"
    BY <1>15 DEF LoseMemory, RegainMemory, kept, Nothing
  <2> QED
    BY <2>1, OtherWell
<1> QED
  BY <1>1, <1>2, <1>3, <1>4, <1>5, <1>6, <1>7, <1>8, <1>9, <1>10, <1>11, <1>12, <1>13, <1>14, <1>15 DEF Next

LEMMA AnswerableInit ==
  ASSUME Init
  PROVE  Answerable
<1>1. memory = "enough" /\ call.do = "nothing" /\ caches = <<>> /\ DOMAIN caches = {}
  BY DEF Init, Nothing
<1>2. (\A e \in Ops : valid[e] /\ cache[e] = NoCache) /\ \A l \in Leaves : data[l] = Null
  BY DEF Init
<1> QED
  BY <1>1, <1>2 DEF Answerable, MemoryKept, NoResizeOwed, LeavesFit, Reasoned, Informed, FailedWell

LEMMA AnswerableStays ==
  ASSUME WellFormed, Answerable, UNCHANGED vars
  PROVE  Answerable'
<1>1. UNCHANGED <<graph, dim, data, fixed, memory, valid, cache, caches, call>>
  BY DEF vars, outside, kept
<1>2. Leaves' = Leaves /\ \A n : InputsOf(n)' = InputsOf(n)
  BY <1>1, SameBehind
<1>3. Ops' = Ops /\ \A n : Consumers(n)' = Consumers(n)
  BY <1>1, <1>2 DEF Consumers, Ops
<1>4. Reasoned'
  BY <1>1, ReasonedSame DEF Answerable
<1>5. LeavesFit'
  BY <1>1, SameCaches, LeavesSame DEF Answerable, WellFormed
<1>6. MemoryKept' /\ FailedWell'
  BY <1>1, <1>2 DEF Answerable, MemoryKept, NoResizeOwed, FailedWell, Incomplete
<1>7. Informed'
  BY <1>1, <1>2, <1>3 DEF Answerable, Informed, VisitedWell
<1> QED
  BY <1>4, <1>5, <1>6, <1>7 DEF Answerable

\* Until a session writes over a constant or a content is written that an operator
\* needs in two ways, getInfo and readMap answer what computing the graph anew
\* answers, whatever was written, resized, read, prepared and fixed before.  Until a
\* call is hasty either, they answer null only while an input has no content or after
\* memory has run out: no operator stays invalid that its inputs of now make valid.
THEOREM AlwaysAnswersAnew == Spec => []AnswersAnew
<1> DEFINE Inv == WellFormed /\ (Regular => Fresh /\ (~ hasty => Answerable))
<1>1. Init => Inv
  BY WellFormedInit, FreshInit, AnswerableInit
<1>2. Inv /\ [Next]_vars => Inv'
  <2> SUFFICES ASSUME Inv, [Next]_vars PROVE Inv'
    OBVIOUS
  <2>1. (Regular' => Regular) /\ (hasty => hasty')
    BY HistoryGrows DEF Regular
  <2>2. WellFormed'
    BY WellFormedNext, WellFormedStays
  <2>3. Regular' => Fresh'
    BY <2>1, FreshNext, FreshStays
  <2>4. Regular' /\ ~ hasty' => Answerable'
    BY <2>1, AnswerableNext, AnswerableStays
  <2> QED
    BY <2>2, <2>3, <2>4
<1>3. Inv => AnswersAnew
  <2> SUFFICES ASSUME Inv, Regular PROVE AnswersAnew
    BY DEF AnswersAnew
  <2>1. call.do = "ask" /\ Known(call.of) => info[call.of] = Value[call.of].info
    BY DEF WellFormed, CallTyped, HasOp, Known, Fresh, ShapesFresh
  <2>2. call.do = "have" => caches[cache[call.of]].held[call.of] = Value[call.of].content
    BY DEF Fresh, HaveFresh
  <2>3. call.do = "failed" /\ ~ hasty => Incomplete
    BY DEF Answerable, FailedWell
  <2> QED
    BY <2>1, <2>2, <2>3 DEF AnswersAnew
<1> QED
  BY <1>1, <1>2, <1>3, PTL DEF Spec

==============================================================================

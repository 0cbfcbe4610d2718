------------------------------- MODULE LazyGraph -------------------------------
(***************************************************************************)
(* The lazy evaluation of MNN Express: express/Expr.cpp (Expr, Variable),  *)
(* express/Executor.cpp (_makeCache) and express/Utils.cpp (ComputeCache). *)
(* A shape is computed when it is asked for and kept until mInfoDirty is   *)
(* set again; a content is computed by the session of a ComputeCache,      *)
(* which covers several operators and builds on the caches of others.      *)
(*                                                                         *)
(* A graph is a record of its number of leaves, which are nodes 1, 2, ...  *)
(* of VARP::INPUT, and for every operator after them its inputs (in), and  *)
(* the inputs whose content it needs for its content and for its shape     *)
(* (Requirement).  Nodes are numbered in the order they were created in,   *)
(* which is the order of mTo.  Every operator has one output.              *)
(*                                                                         *)
(* The calls of an application are one at a time.  A call that goes through *)
(* the graph takes a step for each operator it works on, and `call` says   *)
(* how far it has come.                                                    *)
(***************************************************************************)
EXTENDS Integers, Sequences, FiniteSets, Functions

CONSTANTS Graphs, Dims, Values

Consistent(g) ==
  /\ g.leaves \in Nat /\ IsFiniteSet(DOMAIN g.in)
  /\ DOMAIN g.in = g.leaves + 1 .. g.leaves + Cardinality(DOMAIN g.in)
  /\ \A e \in DOMAIN g.in :
       /\ g.in[e] \in Seq({n \in 1 .. g.leaves \cup DOMAIN g.in : n < e})
       /\ g.content[e] \subseteq DOMAIN g.in[e]
       /\ g.shape[e] \subseteq DOMAIN g.in[e]

ASSUME GraphsAssumption == \A g \in Graphs : Consistent(g)

VARIABLES graph,
          dim,        \* the size of every leaf, 0 if it is not known
          data,       \* its content, Null if mContentDirty
          fixed,      \* the operators that VARP::fix made constants
          shared,     \* pairs of such an operator and a cache that is still in use
                      \* and whose session has the memory of the constant
          memory,     \* whether a session can be given its memory
          infoDirty,  \* of every operator: mInfoDirty,
          valid,      \*   mValid,
          info,       \*   mOutputInfos, Null if they are dirty,
          cache,      \*   and mCache
          caches,     \* the caches that are in use, by a number each
          call,       \* the call of the application that is under way
          overwritten, \* history: the constants that a session wrote over,
          mixed,      \*   whether a content was written that an operator needs in
                      \*   two ways,
          hasty       \*   and whether a shape was prepared together with what needs
                      \*   more leaves, or a leaf got a new size before its content

kept == <<infoDirty, valid, info, cache>>
outside == <<graph, dim, data, fixed, shared, memory>>
history == <<overwritten, mixed, hasty>>
vars == <<outside, kept, caches, call, history>>

Null == <<>>
NoCache == 0
Leaves == 1 .. graph.leaves
Ops == DOMAIN graph.in
Nodes == Leaves \cup Ops

\* The least set that holds `from` and what `next` leads to from there.
Reached(S, from, next) ==
  {x \in S : \A T \in SUBSET S : from \subseteq T /\ (\A y \in T : next[y] \subseteq T) => x \in T}

------------------------------------------------------------------------------
\* The graph as the links mInputs and mTo have it: a fixed operator has no inputs.

InputsOf(e) == IF e \in fixed THEN <<>> ELSE graph.in[e]
Consumers(n) == {e \in Ops : n \in Range(InputsOf(e))}
ContentInputs(e) == {InputsOf(e)[i] : i \in graph.content[e] \cap DOMAIN InputsOf(e)}
ShapeInputs(e) == {InputsOf(e)[i] : i \in graph.shape[e] \cap DOMAIN InputsOf(e)}
HasOp(n) == n \in Ops \ fixed

\* What an operator was fixed with, and what is found in its memory.
Atom(e) == <<e>>
Constant(e, over) == IF over THEN <<e, e, e>> ELSE Atom(e)

InfoOf(n) == IF n \in Leaves THEN <<dim[n]>> ELSE info[n]

\* The nodes that the contents of ns are computed from.
ContentBehind(ns) ==
  Reached(Nodes, ns, [m \in Nodes |-> IF HasOp(m) THEN ContentInputs(m) ELSE {}])

\* Whether every operator that l reaches through several inputs needs the same of
\* all of them.
Flow(l) ==
  Reached(Nodes, {l}, [n \in Nodes |->
    {e \in Ops : \E i \in graph.content[e] \cup graph.shape[e] : graph.in[e][i] = n}])
OneNeed(l) ==
  \A e \in Ops : \A i, j \in DOMAIN graph.in[e] :
    graph.in[e][i] \in Flow(l) /\ graph.in[e][j] \in Flow(l) =>
      /\ i \in graph.content[e] <=> j \in graph.content[e]
      /\ i \in graph.shape[e] <=> j \in graph.shape[e]

\* What a call does at the moment.  got: the contents that a shape depends on, as
\* far as they are read; through: where informDirty goes on from, seen: what it
\* has visited; es: what compute has left to do.
Nothing == [do |-> "nothing"]
Asking(n, got) == [do |-> "ask", of |-> n, got |-> got]
Having(n) == [do |-> "have", of |-> n]
Failed == [do |-> "failed"]
Informing(l, through, seen) == [do |-> "inform", of |-> l, through |-> through, seen |-> seen]
Computing(es) == [do |-> "compute", es |-> es]

Init ==
  /\ graph \in Graphs
  /\ dim = [l \in Leaves |-> 0] /\ data = [l \in Leaves |-> Null]
  /\ fixed = {} /\ shared = {}
  /\ memory = "enough"
  /\ infoDirty = [e \in Ops |-> TRUE] /\ valid = [e \in Ops |-> TRUE]
  /\ info = [e \in Ops |-> Null] /\ cache = [e \in Ops |-> NoCache]
  /\ caches = <<>>
  /\ call = Nothing
  /\ overwritten = {} /\ mixed = FALSE /\ hasty = FALSE

------------------------------------------------------------------------------
\* Invalidation.

InfoIsDirty(e) == infoDirty[e] /\ valid[e]

\* The operators that visitOutputs reaches from n when it goes on from `through`.
Outputs(n, through) ==
  Reached(Ops, Consumers(n), [e \in Ops |-> IF e \in through THEN Consumers(e) ELSE {}])

\* A cache lives while an expression or another cache refers to it.
Below == [c \in DOMAIN caches |-> Range(caches[c].from)]
Used(refs) == Restrict(caches, Reached(DOMAIN caches, Range(refs) \ {NoCache}, Below))
StillShared(pairs) == {p \in pairs : p[2] \in DOMAIN caches'}

SetInfoDirtyKeepsValid(es) ==                                    \* seeded fault
  LET dirtied == [e \in Ops |-> IF e \in es THEN NoCache ELSE cache[e]]
  IN  /\ infoDirty' = [e \in Ops |-> e \in es \/ infoDirty[e]]
      /\ info' = [e \in Ops |-> IF e \in es THEN Null ELSE info[e]]
      /\ cache' = dirtied /\ caches' = Used(dirtied) /\ shared' = StillShared(shared)
      /\ UNCHANGED valid
\* Expr::setInfoDirty.
SetInfoDirty(es) ==
  LET dirtied == [e \in Ops |-> IF e \in es THEN NoCache ELSE cache[e]]
  IN  /\ infoDirty' = [e \in Ops |-> e \in es \/ infoDirty[e]]
      /\ valid' = [e \in Ops |-> e \in es \/ valid[e]]
      /\ info' = [e \in Ops |-> IF e \in es THEN Null ELSE info[e]]
      /\ cache' = dirtied
      /\ caches' = Used(dirtied)
      /\ shared' = StillShared(shared)

\* Nothing is done again where it was done before.
Clean(es) == {e \in es : ~ InfoIsDirty(e)}

DirtyOutputsNearest(n) == Clean(Consumers(n))                    \* seeded fault
\* visitOutputs with setInfoDirty.
DirtyOutputs(n) == Clean(Outputs(n, Clean(Ops)))

\* Variable::resize of an input.
Resize(l, d) ==
  /\ call = Nothing
  /\ d # dim[l] /\ d # 0
  /\ dim' = [dim EXCEPT ![l] = d] /\ data' = [data EXCEPT ![l] = Null]
  /\ SetInfoDirty(DirtyOutputs(l))
  /\ UNCHANGED <<graph, fixed, memory, call, history>>

\* Variable::input with another size: size and content at once.
Input(l, d, v) ==
  /\ call = Nothing
  /\ d # 0 /\ d # dim[l]
  /\ dim' = [dim EXCEPT ![l] = d] /\ data' = [data EXCEPT ![l] = <<v>>]
  /\ SetInfoDirty(DirtyOutputs(l))
  /\ hasty' = (hasty \/ (dim[l] # 0 /\ data[l] = Null))
  /\ UNCHANGED <<graph, fixed, memory, call, overwritten, mixed>>

\* Variable::writeMap, which informs the operators behind the leaf.
WriteMap(l) ==
  /\ call = Nothing /\ dim[l] # 0
  /\ call' = Informing(l, {l}, {})
  /\ mixed' = (mixed \/ ~ OneNeed(l))
  /\ UNCHANGED <<outside, kept, caches, overwritten, hasty>>

\* Variable::informDirty: depth first in the order of mTo.  An operator is
\* visited once, for the first of its inputs that leads to it; what it needs of
\* this input decides.
Unseen(n) == Consumers(n) \ call.seen
IsVisited(e, i) ==
  /\ call.do = "inform"
  /\ i \in DOMAIN InputsOf(e)
  /\ LET n == InputsOf(e)[i]
     IN  /\ n \in call.through /\ e \in Unseen(n)
         /\ \A m \in call.through : m > n => Unseen(m) = {}
         /\ \A f \in Unseen(n) : e <= f
         /\ \A j \in DOMAIN InputsOf(e) : InputsOf(e)[j] = n => i <= j

VisitForShape(e, i) ==
  /\ IsVisited(e, i) /\ i \in graph.shape[e]
  /\ SetInfoDirty(Clean({e}) \cup DirtyOutputs(e))
  /\ call' = Informing(call.of, call.through, call.seen \cup {e})
  /\ UNCHANGED <<graph, dim, data, fixed, memory, history>>

VisitForContentStays(e, i) ==                                    \* seeded fault
  /\ IsVisited(e, i) /\ i \in graph.content[e] \ graph.shape[e]
  /\ caches' = [c \in DOMAIN caches |->
       IF c # cache[e] THEN caches[c]
       ELSE [caches[c] EXCEPT !.contentDirty = TRUE, !.held = [m \in DOMAIN @ |-> Null]]]
  /\ call' = Informing(call.of, call.through, call.seen \cup {e})
  /\ UNCHANGED <<outside, kept, history>>
VisitForContent(e, i) ==
  /\ IsVisited(e, i) /\ i \in graph.content[e] \ graph.shape[e]
  /\ caches' = [c \in DOMAIN caches |->
       IF c # cache[e] THEN caches[c]
       ELSE [caches[c] EXCEPT !.contentDirty = TRUE, !.held = [m \in DOMAIN @ |-> Null]]]
  /\ call' = Informing(call.of, call.through \cup {e}, call.seen \cup {e})
  /\ UNCHANGED <<outside, kept, history>>

VisitForNothing(e, i) ==
  /\ IsVisited(e, i) /\ i \notin graph.content[e] \cup graph.shape[e]
  /\ call' = Informing(call.of, call.through, call.seen \cup {e})
  /\ UNCHANGED <<outside, kept, caches, history>>

\* The content that is then written through the pointer writeMap returned.
Write(v) ==
  /\ call.do = "inform" /\ \A n \in call.through : Unseen(n) = {}
  /\ data' = [data EXCEPT ![call.of] = <<v>>]
  /\ call' = Nothing
  /\ UNCHANGED <<graph, dim, fixed, shared, memory, kept, caches, history>>

------------------------------------------------------------------------------
\* Sessions.

\* Executor::_makeCache: the operators the targets need that have no cache yet
\* go into one session; those that have one keep it.
HasNoCache(m) == HasOp(m) /\ cache[m] = NoCache
NodesFor(targets) ==
  Reached(Ops, targets, [e \in Ops |-> {m \in ContentInputs(e) : HasNoCache(m)}])
NewCache(nodes) ==
  LET needed == UNION {ContentInputs(e) : e \in nodes}
  IN  [shapeDirty |-> TRUE, contentDirty |-> TRUE, needResize |-> TRUE,
       shapes |-> [e \in nodes |-> info[e]], held |-> [e \in nodes |-> Null],
       from |-> [m \in {m \in needed : HasOp(m) /\ ~ HasNoCache(m)} |-> cache[m]],
       leaves |-> needed \cap Leaves]
NewId == CHOOSE c \in 1 .. Cardinality(DOMAIN caches) + 1 : c \notin DOMAIN caches

MakeCache(targets) ==
  /\ caches' = [c \in DOMAIN caches \cup {NewId} |->
                  IF c = NewId THEN NewCache(NodesFor(targets)) ELSE caches[c]]
  /\ cache' = [e \in Ops |-> IF e \in targets THEN NewId ELSE cache[e]]
  /\ UNCHANGED <<outside, infoDirty, valid, info, overwritten, mixed>>

\* ComputeCache::compute stops if an input below has no content.
Behind(c) == Reached(DOMAIN caches, {c}, Below)
LacksInput(c) == \E k \in Behind(c) : \E l \in caches[k].leaves : data[l] = Null

\* The caches it comes to: one that is not dirty is not looked behind.
Stale(c) ==
  {k \in Reached(DOMAIN caches, {c},
           [k \in DOMAIN caches |-> IF caches[k].contentDirty THEN Below[k] ELSE {}]) :
     caches[k].contentDirty}

\* ComputeCache::resizeImpl does not look at the result of Session::resize: a
\* session that got no memory keeps mNeedResize.
Resized(k) ==
  IF caches[k].shapeDirty
  THEN [caches[k] EXCEPT !.shapeDirty = FALSE, !.needResize = (memory = "short")]
  ELSE caches[k]

\* What the sessions `ran` compute: the operators of each in their order, from the
\* tensors that were its inputs when the session was made.  Which constants a
\* session finds written over by another of ran depends on the same order: `over`.
Contents(ran, over) ==
  LET content[m \in Nodes] == [k \in DOMAIN caches |->
        LET own == IF m \in DOMAIN caches[k].from THEN caches[k].from[m] ELSE k
        IN  IF m \in Leaves THEN data[m]
            ELSE IF m \in fixed THEN Constant(m, m \in overwritten \/ <<m, k>> \in over)
            ELSE IF own \notin ran THEN caches[own].held[m]
            ELSE <<caches[own].shapes[m], [i \in DOMAIN graph.in[m] |->
                    IF i \in graph.content[m] THEN content[graph.in[m][i]][own] ELSE Null]>>]
  IN  content

\* A session that computes an operator anew writes over the constant that has its
\* memory: VARP::fix clones the tensor, and Tensor::clone copies no content.
Overwritten(ran) == {p[1] : p \in {p \in shared : p[2] \in ran}}
Ran(c, ran, over) ==
  [k \in DOMAIN caches |->
     IF k \in ran THEN [Resized(k) EXCEPT !.contentDirty = FALSE,
                          !.held = [m \in DOMAIN @ |-> Contents(ran, over)[m][k]]]
     ELSE IF k \in Stale(c) THEN Resized(k) ELSE caches[k]]
Runs(c, ran) ==
  /\ \E over \in SUBSET (Overwritten(ran) \X ran) : caches' = Ran(c, ran, over)
  /\ overwritten' = overwritten \cup Overwritten(ran)
  /\ UNCHANGED <<mixed, hasty>>

\* ComputeCache::compute.  Session::run refuses a session that needs a resize;
\* which others have run by then depends on the order of a std::set of pointers.
Computes(c) ==
  /\ ~ LacksInput(c)
  /\ \A k \in Stale(c) : ~ Resized(k).needResize
  /\ Runs(c, Stale(c))

Stops(c) ==
  \/ LacksInput(c) /\ UNCHANGED <<caches, history>>
  \/ /\ ~ LacksInput(c)
     /\ \E k \in Stale(c) : Resized(k).needResize
     /\ \E ran \in SUBSET {k \in Stale(c) : ~ Resized(k).needResize} :
          /\ \A k \in ran : Below[k] \cap Stale(c) \subseteq ran
          /\ Runs(c, ran)

------------------------------------------------------------------------------
\* Asking for shapes and contents.

Known(n) == n \in Ops => ~ infoDirty[n]

\* Variable::getInfo, which readMap begins with.
Ask(n) ==
  /\ call = Nothing
  /\ call' = Asking(n, <<>>)
  /\ UNCHANGED <<outside, kept, caches, history>>

\* Expr::requireInfo asks for the inputs in their order, before anything else.
Pending(e) == {i \in DOMAIN InputsOf(e) : ~ Known(InputsOf(e)[i])}
Asks(e) == IF valid[e]
           THEN {InputsOf(e)[i] : i \in {i \in Pending(e) : \A j \in Pending(e) : i <= j}}
           ELSE {}
\* Those whose requireInfo is under way, and the last of them.
Asked == Reached(Ops, {call.of}, [e \in Ops |-> Asks(e)])
IsAsked(e) ==
  /\ call.do = "ask" /\ ~ Known(call.of)
  /\ e \in Asked /\ Asks(e) = {}

\* What has asked an operator in vain is not valid any more.
Fail(es) ==
  /\ valid' = [e \in Ops |-> valid[e] /\ e \notin es]
  /\ call' = Failed
  /\ UNCHANGED <<outside, infoDirty, info, cache>>

Refuse(e) ==
  /\ IsAsked(e) /\ ~ valid[e]
  /\ Fail(Asked)
  /\ UNCHANGED <<caches, history>>

\* The contents that the shape of e depends on; an input without a size has none.
Wanted(e) ==
  {i \in graph.shape[e] \cap DOMAIN InputsOf(e) :
     InfoOf(InputsOf(e)[i]) # <<0>> /\ InputsOf(e)[i] \notin DOMAIN call.got}
IsRead(e, i) ==
  /\ IsAsked(e) /\ valid[e]
  /\ i \in Wanted(e) /\ \A j \in Wanted(e) : i <= j
Got(m, content) ==
  call' = Asking(call.of, [n \in DOMAIN call.got \cup {m} |-> IF n = m THEN content ELSE call.got[n]])

ReadConstant(e, i) ==
  LET m == InputsOf(e)[i]
      content == IF m \in Leaves THEN data[m] ELSE Constant(m, m \in overwritten)
  IN  /\ IsRead(e, i) /\ ~ HasOp(m)
      /\ UNCHANGED <<caches, history>>
      /\ IF content = Null THEN Fail(Asked \ {e})
         ELSE Got(m, content) /\ UNCHANGED <<outside, kept>>

ReadForShape(e, i) ==
  LET m == InputsOf(e)[i]
  IN  /\ IsRead(e, i) /\ HasOp(m) /\ cache[m] # NoCache
      /\ \/ /\ Computes(cache[m])
            /\ Got(m, caches'[cache[m]].held[m])
            /\ UNCHANGED <<outside, kept>>
         \/ Stops(cache[m]) /\ Fail(Asked \ {e})

MakeCacheForShape(e, i) ==
  LET m == InputsOf(e)[i]
  IN  /\ IsRead(e, i) /\ HasOp(m) /\ cache[m] = NoCache
      /\ MakeCache({m})
      /\ UNCHANGED <<call, hasty>>

\* Executor::computeInfo, once the contents are there.
ComputeInfo(e) ==
  /\ IsAsked(e) /\ valid[e] /\ Wanted(e) = {}
  /\ UNCHANGED <<caches, history>>
  /\ IF \E m \in Range(InputsOf(e)) : InfoOf(m) = <<0>> THEN Fail(Asked)
     ELSE /\ infoDirty' = [infoDirty EXCEPT ![e] = FALSE]
          /\ info' = [info EXCEPT ![e] =
               <<[i \in DOMAIN InputsOf(e) |-> InfoOf(InputsOf(e)[i])],
                 [i \in DOMAIN InputsOf(e) |->
                   IF i \in graph.shape[e] THEN call.got[InputsOf(e)[i]] ELSE Null]>>]
          /\ call' = Asking(call.of, <<>>)
          /\ UNCHANGED <<outside, valid, cache>>

\* Variable::readInternal, once the shape is known, and mapOutput.
MakeCacheToRead ==
  /\ call.do = "ask" /\ Known(call.of) /\ cache[call.of] = NoCache
  /\ MakeCache({call.of})
  /\ UNCHANGED <<call, hasty>>

Read ==
  /\ call.do = "ask" /\ Known(call.of) /\ cache[call.of] # NoCache
  /\ \/ Computes(cache[call.of]) /\ call' = Having(call.of)
     \/ Stops(cache[call.of]) /\ call' = Failed
  /\ UNCHANGED <<outside, kept>>

\* The call returns: getInfo with a shape, readMap with a content, or null.
Return ==
  /\ call.do \in {"have", "failed"} \/ (call.do = "ask" /\ Known(call.of))
  /\ call' = Nothing
  /\ UNCHANGED <<outside, kept, caches, history>>

\* VARP::fix, and Expr::replace when there is a content to keep: the operators
\* that use e start anew.  The session stays if it computes another target.
Fix ==
  LET e == call.of
      es == Outputs(e, Ops)
      dirtied == [m \in Ops |-> IF m \in es \cup {e} THEN NoCache ELSE cache[m]]
  IN  /\ call.do = "have"
      /\ infoDirty' = [m \in Ops |-> m \in es \/ infoDirty[m]]
      /\ valid' = [m \in Ops |-> m \in es \/ valid[m]]
      /\ info' = [m \in Ops |-> IF m = e THEN Atom(e) ELSE IF m \in es THEN Null ELSE info[m]]
      /\ cache' = dirtied
      /\ caches' = Used(dirtied)
      /\ fixed' = fixed \cup {e}
      /\ shared' = StillShared(shared \cup {<<e, cache[e]>>})
      /\ call' = Nothing
      /\ UNCHANGED <<graph, dim, data, memory, history>>

\* What a shape depends on, and the leaves a session of es would be computed from.
ForShape(e) == \E f \in Ops : e \in ContentBehind(ShapeInputs(f))
LeavesFor(es) ==
  LET behind == ContentBehind(es)
      used == Reached(DOMAIN caches, {cache[m] : m \in behind \cap Ops} \ {NoCache}, Below)
  IN  (behind \cap Leaves) \cup UNION {caches[c].leaves : c \in used}

\* Variable::compute: one session for all of es that have none.  Their shapes are
\* known, as StaticModule::onForward makes sure of.
Prepare(es) ==
  LET new == {e \in es : cache[e] = NoCache}
  IN  /\ call = Nothing
      /\ \A e \in es : Known(e)
      /\ hasty' = (hasty \/ ~ \A e \in new :
                     ForShape(e) => LeavesFor(new) \subseteq ContentBehind({e}))
      /\ call' = Computing(es)
      /\ IF new = {} THEN UNCHANGED <<outside, kept, caches, overwritten, mixed>> ELSE MakeCache(new)

ComputeOne(e) ==
  /\ call.do = "compute" /\ e \in call.es
  /\ Computes(cache[e]) \/ Stops(cache[e])
  /\ call' = IF call.es = {e} THEN Nothing ELSE Computing(call.es \ {e})
  /\ UNCHANGED <<outside, kept>>

\* Memory runs out once for a while.
LoseMemory ==
  /\ call = Nothing /\ memory = "enough" /\ memory' = "short"
  /\ UNCHANGED <<graph, dim, data, fixed, shared, kept, caches, call, history>>
RegainMemory ==
  /\ call = Nothing /\ memory = "short" /\ memory' = "regained"
  /\ UNCHANGED <<graph, dim, data, fixed, shared, kept, caches, call, history>>

Next ==
  \/ \E l \in Leaves : \E d \in Dims[l] : Resize(l, d) \/ \E v \in Values : Input(l, d, v)
  \/ \E l \in Leaves : WriteMap(l)
  \/ \E e \in Ops : \E i \in DOMAIN graph.in[e] :
       VisitForShape(e, i) \/ VisitForContent(e, i) \/ VisitForNothing(e, i)
  \/ \E v \in Values : Write(v)
  \/ \E e \in Ops : (HasOp(e) /\ Ask(e)) \/ Refuse(e) \/ ComputeInfo(e) \/ ComputeOne(e)
  \/ \E e \in Ops : \E i \in DOMAIN graph.in[e] :
       ReadConstant(e, i) \/ MakeCacheForShape(e, i) \/ ReadForShape(e, i)
  \/ MakeCacheToRead \/ Read \/ Return \/ Fix
  \/ \E es \in SUBSET {e \in Ops : HasOp(e)} : es # {} /\ Prepare(es)
  \/ LoseMemory \/ RegainMemory

Spec == Init /\ [][Next]_vars

------------------------------------------------------------------------------
\* What computing the whole graph anew gives: the shape and the content of every
\* node, Null if there is none.  v has them for the nodes before n.
Shape(g, v, n) ==
  IF \/ \E i \in DOMAIN g.in[n] : v[g.in[n][i]].info \in {Null, <<0>>}
     \/ \E i \in g.shape[n] : v[g.in[n][i]].content = Null
  THEN Null
  ELSE <<[i \in DOMAIN g.in[n] |-> v[g.in[n][i]].info],
         [i \in DOMAIN g.in[n] |-> IF i \in g.shape[n] THEN v[g.in[n][i]].content ELSE Null]>>
Content(g, v, n, shape) ==
  IF shape = Null \/ \E i \in g.content[n] : v[g.in[n][i]].content = Null
  THEN Null
  ELSE <<shape,
         [i \in DOMAIN g.in[n] |-> IF i \in g.content[n] THEN v[g.in[n][i]].content ELSE Null]>>

Anew(g, sizes, contents, constants) ==
  LET v[n \in 1 .. g.leaves \cup DOMAIN g.in] ==
        IF n \in 1 .. g.leaves THEN [info |-> <<sizes[n]>>, content |-> contents[n]]
        ELSE IF n \in constants THEN [info |-> Atom(n), content |-> Atom(n)]
        ELSE LET shape == Shape(g, v, n)
             IN  [info |-> shape, content |-> Content(g, v, n, shape)]
  IN  v
Value == Anew(graph, dim, data, fixed)

Incomplete == memory # "enough" \/ \E l \in Leaves : data[l] = Null

\* No session wrote over a constant, and no content was written that an operator
\* needs in two ways.
Regular == overwritten = {} /\ ~ mixed

\* Whatever was written, resized, read, fixed and prepared before, a shape or a
\* content that is asked for is the one that computing the graph anew gives; it is
\* null only while an input has no content or after memory has run out.  The first
\* holds while calls are regular, the second while they are not hasty either.
AnswersAnew ==
  Regular =>
    /\ call.do = "ask" /\ Known(call.of) => info[call.of] = Value[call.of].info
    /\ call.do = "have" => caches[cache[call.of]].held[call.of] = Value[call.of].content
    /\ call.do = "failed" /\ ~ hasty => Incomplete

\* A shape that is not dirty, and the content of a cache that is not dirty, are
\* what the inputs of now give, in every order of writes, resizes, reads and fixes
\* that are regular.
CleanIsFresh ==
  Regular =>
    \A e \in Ops :
      /\ ~ infoDirty[e] => info[e] = Value[e].info
      /\ cache[e] # NoCache =>
           LET k == caches[cache[e]] IN ~ k.contentDirty => k.held[e] = Value[e].content

\* What lets setInfoDirty stop at an operator that is dirty: so is everything
\* that uses it, and none of that has a cache.
DirtIsClosed ==
  \A e \in Ops : InfoIsDirty(e) =>
    /\ cache[e] = NoCache
    /\ \A f \in Consumers(e) : infoDirty[f] /\ cache[f] = NoCache
==============================================================================

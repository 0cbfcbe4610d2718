----------------------------- MODULE Session_proof -----------------------------
(***************************************************************************)
(* The memory of a session, the sizes its commands were made for, and the   *)
(* room of its tensors, through every resize, failure, check and fix: for   *)
(* every number of operations, every graph of them, and all sizes, when     *)
(* callers avoid the situations the code does not support.                 *)
(***************************************************************************)
EXTENDS Session, FiniteSetTheorems, SequenceTheorems, WellFoundedInduction, TLAPS

Careful == Situations = {}

Places == {"none", "static", "main", "backup"}
Steps == {"idle", "failed", "shape", "constant", "alloc", "end"}

CacheType == [can : BOOLEAN, pass : BOOLEAN, seen : Seq(Nat)]
CommandType == [made : Seq(Nat), exe : BOOLEAN, group : {0, 1}]

TypeInv ==
  /\ setup \in Setups
  /\ shape \in [Tensors -> Nat]
  /\ cache \in [DOMAIN ops -> CacheType]
  /\ compute \in [DOMAIN ops -> BOOLEAN]
  /\ command \in [DOMAIN ops -> CommandType]
  /\ mem \in [Tensors -> Places] /\ group \in [Tensors -> {-1, 0, 1}]
  /\ useCount \in [Tensors -> Int]
  /\ pc \in Steps /\ at \in Nat \ {0} /\ index \in {0, 1}
  /\ dangling = FALSE

\* Chunks are out while a plan is made, and after a failure within it.
Chunks == \A t \in Tensors :
  /\ mem[t] = "main" => (pc \in {"alloc", "end"} /\ index = 0) \/ pc = "failed"
  /\ mem[t] = "backup" => pc \in {"alloc", "end"} /\ index = 1
  /\ mem[t] = PlanOf[index] /\ pc \in {"alloc", "end"} =>
       group[t] = index /\ usage[t] # "constant"

\* The constant operations before the step of a resize have been folded.
Folded(o) == mem[ops[o].out] = "static"
FoldedBefore(n) == \A o \in DOMAIN ops : IsConst(o) /\ o < n => Folded(o)
Constants ==
  /\ \A t \in Tensors : usage[t] = "constant" =>
       \/ mem[t] = "static"
       \/ mem[t] = "none" /\ \E o \in DOMAIN ops : ops[o].out = t
  /\ pc = "shape" => FoldedBefore(at)
  /\ pc = "constant" => at - 1 \in DOMAIN ops /\ IsConst(at - 1) /\ FoldedBefore(at - 1)
  /\ pc \in {"alloc", "end"} \/ (\E o \in DOMAIN ops : ~IsConst(o) /\ command[o].exe) =>
       FoldedBefore(Len(ops) + 1)
\* A constant operation is passed over only when its result is there; one that
\* failed to be folded keeps the check open.
Passed == \A o \in DOMAIN ops :
  /\ cache[o].seen # <<>> => cache[o].can
  /\ IsConst(o) /\ (cache[o].pass \/ cache[o].seen # <<>>) =>
       \/ Folded(o)
       \/ /\ cache[o].can /\ ~cache[o].pass
          /\ pc = "failed" \/ (pc = "constant" /\ at = o + 1)

TensorsOf(o) == ToSet(ops[o].in) \cup {ops[o].out}
\* A command of the backup plan has no tensor of the main plan, and while the
\* backup plan is made every tensor of it belongs to such a command.
Groups ==
  /\ index = 1 => pc \in {"alloc", "end"}
  /\ \A o \in DOMAIN ops : command[o].group = 1 => \A t \in TensorsOf(o) : group[t] # 0
  /\ index = 1 /\ pc \in {"alloc", "end"} => \A t \in Tensors : group[t] = 1 =>
       \E o \in DOMAIN ops : command[o].group = 1 /\ command[o].made # <<>> /\ t \in TensorsOf(o)

\* The reads of a tensor that are left.
Remaining(t) == {r \in Readers(t) : r[1] >= at}
Counted == pc = "alloc" => \A t \in Tensors : usage[t] # "constant" /\ Readers(t) # {} =>
  useCount[t] = Cardinality(Remaining(t))

\* What will give each chunk back: an input its last reader, the others the end.
Returnable == pc = "alloc" => \A t \in Tensors : mem[t] = PlanOf[index] =>
  /\ usage[t] = "input" => AllocInput /\ Remaining(t) # {}
  /\ usage[t] # "input" => t \in Recycled

IInv == TypeInv /\ Chunks /\ Constants /\ Passed /\ Groups /\ Counted /\ Returnable
          /\ PlanAllReturned

------------------------------------------------------------------------------
\* What the assumption on the sessions says of the one that was chosen.
LEMMA SetupFacts ==
  ASSUME setup \in Setups
  PROVE  /\ DOMAIN ops = 1 .. Len(ops) /\ Len(ops) \in Nat
         /\ \E o \in DOMAIN ops : ~ IsConst(o)
         /\ setup.allocInput \in BOOLEAN /\ setup.outputStatic \in BOOLEAN
         /\ \A t \in Tensors : usage[t] \in {"input", "normal", "output", "constant"}
         /\ \A o \in DOMAIN ops :
              /\ ops[o].in \in Seq(Tensors) /\ ops[o].in # <<>> /\ ops[o].out \in Tensors
              /\ DOMAIN ops[o].in = 1 .. Len(ops[o].in) /\ Len(ops[o].in) \in Nat \ {0}
              /\ TensorsOf(o) \subseteq Tensors
              /\ usage[ops[o].out] # "input" /\ IsConst(o) \in BOOLEAN
              /\ IsConst(o) <=> usage[ops[o].out] = "constant"
              /\ \A p \in DOMAIN ops : ops[p].out = ops[o].out => p = o
              /\ \A p \in DOMAIN ops, i \in DOMAIN ops[o].in : ops[p].out = ops[o].in[i] => p < o
<1>1. /\ ops \in Seq([in : Seq(Tensors) \ {<<>>}, out : Tensors, reduce : BOOLEAN, const : BOOLEAN])
      /\ \E o \in DOMAIN ops : ~ IsConst(o)
      /\ setup.allocInput \in BOOLEAN /\ setup.outputStatic \in BOOLEAN
      /\ \A t \in Tensors : usage[t] \in {"input", "normal", "output", "constant"}
  BY SetupsAssumption DEF ops, usage, Tensors, IsConst
<1>2. \A o \in DOMAIN ops :
        /\ usage[ops[o].out] # "input"
        /\ IsConst(o) <=> usage[ops[o].out] = "constant"
        /\ \A p \in DOMAIN ops : ops[p].out = ops[o].out => p = o
        /\ \A p \in DOMAIN ops, i \in DOMAIN ops[o].in : ops[p].out = ops[o].in[i] => p < o
  BY SetupsAssumption DEF ops, usage, IsConst
<1>3. DOMAIN ops = 1 .. Len(ops) /\ Len(ops) \in Nat
  BY <1>1
<1>4. ASSUME NEW o \in DOMAIN ops
      PROVE  /\ ops[o].in \in Seq(Tensors) /\ ops[o].in # <<>> /\ ops[o].out \in Tensors
             /\ DOMAIN ops[o].in = 1 .. Len(ops[o].in) /\ Len(ops[o].in) \in Nat \ {0}
             /\ IsConst(o) \in BOOLEAN
  <2>1. ops[o] \in [in : Seq(Tensors) \ {<<>>}, out : Tensors, reduce : BOOLEAN, const : BOOLEAN]
    <3> DEFINE Kind == [in : Seq(Tensors) \ {<<>>}, out : Tensors, reduce : BOOLEAN, const : BOOLEAN]
    <3>1. ops \in Seq(Kind) /\ o \in 1 .. Len(ops)
      BY <1>1, <1>3
    <3> HIDE DEF Kind
    <3>2. ops[o] \in Kind
      BY <3>1, ElementOfSeq
    <3> QED
      BY <3>2 DEF Kind
  <2>2. ops[o].in \in Seq(Tensors) /\ ops[o].in # <<>> /\ ops[o].out \in Tensors
        /\ IsConst(o) \in BOOLEAN
    BY <2>1 DEF IsConst
  <2>3. /\ DOMAIN ops[o].in = 1 .. Len(ops[o].in) /\ Len(ops[o].in) \in Nat
        /\ Len(ops[o].in) # 0
    BY <2>2, EmptySeq, LenProperties
  <2> QED
    BY <2>2, <2>3
<1>5. ASSUME NEW o \in DOMAIN ops PROVE TensorsOf(o) \subseteq Tensors
  BY <1>4 DEF TensorsOf, ToSet
<1> QED
  BY <1>1, <1>2, <1>3, <1>4, <1>5

\* A set of numbers that is not empty has a least one.
LEMMA Least ==
  ASSUME NEW S \in SUBSET Nat, S # {}
  PROVE  Min(S) \in S /\ \A n \in S : Min(S) <= n
<1>1. \E m \in S : \A n \in S : ~ (<<n, m>> \in OpToRel(<, Nat))
  BY NatLessThanWellFounded, WFMin
<1>2. PICK m \in S : \A n \in S : ~ (<<n, m>> \in OpToRel(<, Nat))
  BY <1>1
<1>3. \A n \in S : ~ (n < m)
  <2> TAKE n \in S
  <2>1. <<n, m>> \in Nat \X Nat /\ <<n, m>>[1] = n /\ <<n, m>>[2] = m
    OBVIOUS
  <2>2. ~ (<<n, m>> \in OpToRel(<, Nat))
    BY <1>2
  <2> QED
    BY <2>1, <2>2, Zenon DEF OpToRel
<1>4. \A n \in S : m <= n
  BY <1>3
<1> QED
  BY <1>4 DEF Min

LEMMA DueFacts ==
  ASSUME TypeInv, Due # {}
  PROVE  /\ Current \in DOMAIN ops /\ Current >= at /\ ~ IsConst(Current)
         /\ command[Current].made # <<>> /\ Current \in Nat \ {0}
         /\ \A o \in Due : Current <= o
<1>1. Due \in SUBSET Nat
  BY SetupFacts DEF TypeInv, Due
<1>2. Current \in Due /\ \A o \in Due : Current <= o
  BY <1>1, Least DEF Current
<1> QED
  BY <1>2, SetupFacts DEF TypeInv, Due

\* The tensor that is acquired next is one of the command, and an input only if
\* the session allocates inputs.
Wanted == Asked[Min(Lacking)]
LEMMA LackingFacts ==
  ASSUME TypeInv, Due # {}, Lacking # {}
  PROVE  /\ Wanted \in TensorsOf(Current) /\ Wanted \in Tensors
         /\ group[Wanted] = index /\ mem[Wanted] = "none"
         /\ usage[Wanted] = "input" => AllocInput /\ Wanted \in ToSet(ops[Current].in)
<1> DEFINE in == IF AllocInput THEN ops[Current].in ELSE <<>>
           out == ops[Current].out
<1>1. /\ Current \in DOMAIN ops /\ ops[Current].in \in Seq(Tensors) /\ out \in Tensors
      /\ usage[out] # "input"
  BY DueFacts, SetupFacts DEF TypeInv
<1>2. in \in Seq(Tensors) /\ Len(in) \in Nat /\ DOMAIN in = 1 .. Len(in)
  BY <1>1, EmptySeq, LenProperties
<1>3. /\ DOMAIN Asked = 1 .. Len(in) + 1 /\ Asked[Len(in) + 1] = out
      /\ \A i \in 1 .. Len(in) : Asked[i] = in[i]
  BY <1>1, <1>2 DEF Asked
<1>4. Min(Lacking) \in Lacking
  <2>1. Lacking \in SUBSET Nat
    BY <1>2, <1>3 DEF Lacking
  <2> QED
    BY <2>1, Least
<1>5. /\ Min(Lacking) \in 1 .. Len(in) + 1
      /\ group[Wanted] = index /\ mem[Wanted] = "none"
  BY <1>3, <1>4 DEF Lacking, Wanted
<1>6. CASE Min(Lacking) = Len(in) + 1
  BY <1>1, <1>3, <1>5, <1>6 DEF Wanted, TensorsOf
<1>7. CASE Min(Lacking) \in 1 .. Len(in)
  <2>1. in # <<>>
    BY <1>7, EmptySeq
  <2>2. AllocInput /\ in = ops[Current].in
    BY <2>1
  <2>3. Wanted = ops[Current].in[Min(Lacking)] /\ Min(Lacking) \in DOMAIN ops[Current].in
    BY <1>2, <1>3, <1>7, <2>2 DEF Wanted
  <2> QED
    BY <1>1, <1>5, <2>2, <2>3, SetupFacts, SMTT(30) DEF TensorsOf, ToSet, TypeInv
<1> QED
  BY <1>2, <1>5, <1>6, <1>7

\* Nothing of a plan that was reset is given back as long as nobody holds it.
LEMMA DropFacts ==
  ASSUME TypeInv, NEW ts \in SUBSET Tensors, Drop(ts)
  PROVE  /\ mem' \in [Tensors -> Places] /\ dangling' = FALSE
         /\ \A t \in Tensors : mem'[t] = IF t \in ts THEN "none" ELSE mem[t]
<1>1. mem \in [Tensors -> Places] /\ dangling = FALSE /\ mem' = Without(mem, ts)
  BY DEF TypeInv, Drop
<1>2. /\ mem' = [t \in Tensors |-> IF t \in ts THEN "none" ELSE mem[t]]
      /\ \A t \in Tensors : mem[t] \in Places
      /\ "none" \in Places
  BY <1>1 DEF Without, Places
<1>3. mem' \in [Tensors -> Places] /\ \A t \in Tensors : mem'[t] = IF t \in ts THEN "none" ELSE mem[t]
  BY <1>2
<1>4. ASSUME NEW t \in ts PROVE mem[t] # "gone"
  BY <1>1 DEF Places
<1> QED
  BY <1>1, <1>3, <1>4, Zenon DEF Drop

LEMMA SizesKnown ==
  ASSUME TypeInv, NEW o \in DOMAIN ops
  PROVE  InSizes(o, shape) \in Seq(Nat) /\ InSizes(o, shape) # <<>>
<1>1. /\ ops[o].in \in Seq(Tensors) /\ DOMAIN ops[o].in = 1 .. Len(ops[o].in)
      /\ Len(ops[o].in) \in Nat \ {0}
  BY SetupFacts DEF TypeInv
<1>2. InSizes(o, shape) \in [1 .. Len(ops[o].in) -> Nat]
  BY <1>1 DEF InSizes, TypeInv
<1>3. InSizes(o, shape) \in Seq(Nat) /\ Len(InSizes(o, shape)) = Len(ops[o].in)
  BY <1>1, <1>2
<1> QED
  BY <1>1, <1>3

LEMMA Stable ==
  ASSUME setup' = setup
  PROVE  ops' = ops /\ usage' = usage /\ Tensors' = Tensors
BY DEF ops, usage, Tensors

\* Outside the making of a plan nobody holds a chunk, unless it failed.
LEMMA NoChunks ==
  ASSUME TypeInv, Chunks, pc \in {"idle", "shape", "constant"}
  PROVE  \A t \in Tensors : mem[t] \in {"none", "static"}
BY DEF TypeInv, Chunks, Places

LEMMA ForgetNothing ==
  ASSUME mem \in [Tensors -> Places], NEW p, \A t \in Tensors : mem[t] # p
  PROVE  Forget(mem, p) = mem
BY DEF Forget

\* What a step does to constants decides what is folded after it.
LEMMA FoldedKept ==
  ASSUME TypeInv, setup' = setup, \A t \in Tensors : usage[t] = "constant" => mem'[t] = mem[t]
  PROVE  /\ \A o \in DOMAIN ops : IsConst(o) => (Folded(o)' <=> Folded(o))
         /\ \A n : FoldedBefore(n)' <=> FoldedBefore(n)
<1>1. ops' = ops /\ usage' = usage /\ Tensors' = Tensors
  BY Stable
<1>2. \A o \in DOMAIN ops : IsConst(o) => ops[o].out \in Tensors /\ usage[ops[o].out] = "constant"
  BY SetupFacts DEF TypeInv
<1>3. \A o \in DOMAIN ops : IsConst(o) => (Folded(o)' <=> Folded(o))
  BY <1>1, <1>2 DEF Folded
<1>4. \A o : IsConst(o)' <=> IsConst(o)
  BY <1>1 DEF IsConst
<1> QED
  BY <1>1, <1>3, <1>4, Zenon DEF FoldedBefore

\* Where all constants before a late step are folded, all are.
LEMMA AllFolded ==
  ASSUME TypeInv, NEW n \in Nat, n > Len(ops), FoldedBefore(n), NEW m
  PROVE  FoldedBefore(m)
BY SetupFacts DEF TypeInv, FoldedBefore

LEMMA ReadersFinite ==
  ASSUME setup \in Setups, NEW t
  PROVE  IsFiniteSet(Readers(t)) /\ Cardinality(Readers(t)) \in Nat
<1> DEFINE All == {{o} \X DOMAIN ops[o].in : o \in DOMAIN ops}
           f == [o \in DOMAIN ops |-> {o} \X DOMAIN ops[o].in]
<1>1. IsFiniteSet(DOMAIN ops)
  BY SetupFacts, FS_Interval
<1>2. f \in Surjection(DOMAIN ops, All)
  BY DEF Surjection
<1>3. IsFiniteSet(All)
  BY <1>1, <1>2, FS_Surjection
<1>4. \A T \in All : IsFiniteSet(T)
  <2> TAKE T \in All
  <2>1. PICK o \in DOMAIN ops : T = {o} \X DOMAIN ops[o].in
    OBVIOUS
  <2>2. IsFiniteSet({o}) /\ IsFiniteSet(DOMAIN ops[o].in)
    <3>1. IsFiniteSet({o})
      BY FS_Singleton
    <3>2. DOMAIN ops[o].in = 1 .. Len(ops[o].in) /\ Len(ops[o].in) \in Int
      BY SetupFacts
    <3>3. IsFiniteSet(1 .. Len(ops[o].in))
      BY <3>2, FS_Interval
    <3> QED
      BY <3>1, <3>2, <3>3
  <2>3. IsFiniteSet({o} \X DOMAIN ops[o].in)
    BY <2>2, FS_Product
  <2> QED
    BY <2>1, <2>3
<1>5. IsFiniteSet(UNION All)
  BY <1>3, <1>4, FS_UNION
<1>6. Readers(t) \in SUBSET UNION All
  BY DEF Readers
<1>7. IsFiniteSet(Readers(t))
  BY <1>5, <1>6, FS_Subset
<1> QED
  BY <1>7, FS_CardinalityType

------------------------------------------------------------------------------
\* The steps.
LEMMA InitInv ==
  ASSUME Init PROVE IInv
<1>1. setup \in Setups /\ pc = "idle" /\ at = 1 /\ index = 0 /\ dangling = FALSE
  BY DEF Init
<1>2. \A t \in Tensors : shape[t] \in Nat
  BY SizesAssumption DEF Init
<1>3. /\ \A t \in Tensors : mem[t] \in {"none", "static"}
      /\ mem \in [Tensors -> Places] /\ group \in [Tensors -> {-1, 0, 1}]
      /\ useCount \in [Tensors -> Int]
  BY SMTT(30) DEF Init, Places
<1>4. /\ shape \in [Tensors -> Nat]
      /\ cache \in [DOMAIN ops -> CacheType] /\ compute \in [DOMAIN ops -> BOOLEAN]
      /\ command \in [DOMAIN ops -> CommandType]
  <2>1. shape = [t \in Tensors |-> shape[t]]
    BY DEF Init
  <2>2. <<>> \in Seq(Nat)
    OBVIOUS
  <2> QED
    BY <1>2, <2>1, <2>2 DEF Init, CacheType, CommandType
<1>5. TypeInv
  BY <1>1, <1>3, <1>4 DEF TypeInv, Steps
<1>6. \A o \in DOMAIN ops : /\ ~ cache[o].pass /\ cache[o].seen = <<>>
                            /\ ~ command[o].exe /\ command[o].group = 0
  BY DEF Init
<1>7. Chunks /\ PlanAllReturned /\ Counted /\ Returnable
  BY <1>1, <1>3 DEF Chunks, PlanAllReturned, Counted, Returnable
<1>8. Groups /\ Passed
  BY <1>1, <1>6 DEF Groups, Passed
<1>9. Constants
  <2>1. ASSUME NEW t \in Tensors, usage[t] = "constant"
        PROVE  mem[t] = "static" \/ (mem[t] = "none" /\ \E o \in DOMAIN ops : ops[o].out = t)
    BY <2>1 DEF Init
  <2> QED
    BY <1>1, <1>6, <2>1 DEF Constants
<1> QED
  BY <1>5, <1>7, <1>8, <1>9 DEF IInv

LEMMA ResizeTensorInv ==
  ASSUME IInv, NEW t \in Tensors, NEW n \in Sizes, ResizeTensor(t, n) PROVE IInv'
<1>1. /\ UNCHANGED <<setup, cache, compute, command, mem, where, plan, dangling, group,
                     useCount, pc, at, index>>
      /\ ops' = ops /\ usage' = usage /\ Tensors' = Tensors
      /\ pc \in {"idle", "failed"}
      /\ shape' = [shape EXCEPT ![t] = n] /\ n \in Nat
  BY Stable, SizesAssumption DEF ResizeTensor, Quiet
<1>2. TypeInv'
  BY <1>1 DEF IInv, TypeInv
<1>3. Chunks' /\ PlanAllReturned' /\ Counted' /\ Returnable'
  BY <1>1 DEF IInv, Chunks, PlanAllReturned, Counted, Returnable
<1>4. (\A o : Folded(o)' = Folded(o)) /\ (\A m : FoldedBefore(m)' = FoldedBefore(m))
  BY <1>1 DEF Folded, FoldedBefore, IsConst
<1>5. Constants' /\ Passed' /\ Groups'
  BY <1>1, <1>4 DEF IInv, Constants, Passed, Groups, IsConst, TensorsOf
<1> QED
  BY <1>2, <1>3, <1>5 DEF IInv

LEMMA OpenResizeCheckInv ==
  ASSUME IInv, OpenResizeCheck PROVE IInv'
<1>1. /\ UNCHANGED <<setup, shape, compute, command, group, useCount, pc, at, index, mem, dangling>>
      /\ ops' = ops /\ usage' = usage /\ Tensors' = Tensors
      /\ cache' = [o \in DOMAIN ops |-> [cache[o] EXCEPT !.can = TRUE]]
  BY Stable DEF OpenResizeCheck, memory
<1>2. \A o \in DOMAIN ops : /\ cache'[o] \in CacheType /\ cache'[o].can
                            /\ cache'[o].pass <=> cache[o].pass
                            /\ cache'[o].seen = cache[o].seen
  <2> TAKE o \in DOMAIN ops
  <2>1. cache[o] \in CacheType /\ cache'[o] = [cache[o] EXCEPT !.can = TRUE]
    BY <1>1 DEF IInv, TypeInv
  <2>2. cache'[o] = [can |-> TRUE, pass |-> cache[o].pass, seen |-> cache[o].seen]
    BY <2>1 DEF CacheType
  <2>3. cache[o].pass \in BOOLEAN /\ cache[o].seen \in Seq(Nat)
    BY <2>1 DEF CacheType
  <2> QED
    BY <2>2, <2>3 DEF CacheType
<1>3. TypeInv'
  <2>1. cache' \in [DOMAIN ops -> CacheType]
    BY <1>1, <1>2
  <2> QED
    BY <1>1, <2>1 DEF IInv, TypeInv
<1>4. Chunks' /\ PlanAllReturned' /\ Counted' /\ Returnable'
  <2>1. pc' \notin {"alloc", "end"}
    BY <1>1 DEF OpenResizeCheck, Quiet
  <2> QED
    BY <1>1, <2>1 DEF IInv, Chunks, PlanAllReturned, Counted, Returnable
<1>5. (\A o : Folded(o)' = Folded(o)) /\ (\A m : FoldedBefore(m)' = FoldedBefore(m))
  BY <1>1 DEF Folded, FoldedBefore, IsConst
<1>6. Constants' /\ Groups'
  BY <1>1, <1>5 DEF IInv, Constants, Groups, IsConst, TensorsOf
<1>7. Passed'
  BY <1>1, <1>2, <1>5 DEF IInv, Passed, IsConst
<1> QED
  BY <1>3, <1>4, <1>6, <1>7 DEF IInv

\* An operation the cache passes over has its result when it is a constant, except
\* behind a failure.
LEMMA PassedFolded ==
  ASSUME IInv, pc \notin {"failed", "constant"}, NEW o \in DOMAIN ops,
         IsConst(o), cache[o].pass \/ cache[o].seen # <<>>
  PROVE  Folded(o)
BY DEF IInv, Passed

LEMMA ResizeInv ==
  ASSUME IInv, Careful, Resize PROVE IInv'
<1>1. /\ UNCHANGED <<setup, shape, cache, compute, command, group, useCount, dangling>>
      /\ ops' = ops /\ usage' = usage /\ Tensors' = Tensors
      /\ pc \in {"idle", "failed"} /\ pc' = "shape" /\ at' = 1 /\ index' = 0
      /\ mem' = Forget(mem, "main")
      /\ pc = "failed" => /\ \A t \in Tensors : mem[t] # "main"
                          /\ \A o \in DOMAIN ops : ~ cache[o].can
  BY Stable DEF Resize, Reset, Continue, structure, Quiet, Careful, Careless
<1>2. \A t \in Tensors : mem[t] # "main"
  BY <1>1 DEF IInv, Chunks
<1>3. mem' = mem
  BY <1>1, <1>2, ForgetNothing DEF IInv, TypeInv
<1>4. TypeInv'
  BY <1>1, <1>3 DEF IInv, TypeInv, Steps
<1>5. \A t \in Tensors : mem[t] # "backup"
  BY <1>1 DEF IInv, Chunks
<1>6. Chunks' /\ PlanAllReturned' /\ Counted' /\ Returnable'
  BY <1>1, <1>2, <1>3, <1>5 DEF IInv, Chunks, PlanAllReturned, Counted, Returnable
<1>7. (\A o : Folded(o)' = Folded(o)) /\ (\A m : FoldedBefore(m)' = FoldedBefore(m))
  BY <1>1, <1>3 DEF Folded, FoldedBefore, IsConst
<1>8. FoldedBefore(1)
  BY SetupFacts DEF IInv, TypeInv, FoldedBefore
<1>9. Constants' /\ Groups'
  BY <1>1, <1>3, <1>7, <1>8 DEF IInv, Constants, Groups, IsConst, TensorsOf
<1>10. Passed'
  BY <1>1, <1>7 DEF IInv, Passed, IsConst
<1> QED
  BY <1>4, <1>6, <1>9, <1>10 DEF IInv

LEMMA ComputeShapeInv ==
  ASSUME IInv, ComputeShape PROVE IInv'
<1>0. PICK o \in DOMAIN ops : o = at
  BY SetupFacts DEF ComputeShape, IInv, TypeInv
<1>1. /\ UNCHANGED <<setup, command, group, useCount, index>>
      /\ ops' = ops /\ usage' = usage /\ Tensors' = Tensors
      /\ pc = "shape" /\ Drop(Cleared(o)) /\ o = at
  BY <1>0, Stable DEF ComputeShape
<1>2. /\ \A t \in Cleared(o) : t = ops[o].out /\ usage[t] # "constant"
      /\ Cleared(o) \in SUBSET Tensors
  BY <1>1, SetupFacts, ZenonT(30) DEF Cleared, IInv, TypeInv
<1>3. /\ mem' \in [Tensors -> Places] /\ dangling' = FALSE
      /\ \A t \in Tensors : mem'[t] = IF t \in Cleared(o) THEN "none" ELSE mem[t]
  BY <1>1, <1>2, DropFacts DEF IInv
<1>4. \A t \in Tensors : mem'[t] \in {"none", "static"}
  BY <1>1, <1>3, NoChunks DEF IInv
<1>5. \A t \in Tensors : usage[t] = "constant" => mem'[t] = mem[t]
  BY <1>2, <1>3
<1>6. /\ \A p \in DOMAIN ops : IsConst(p) => (Folded(p)' <=> Folded(p))
      /\ \A n : FoldedBefore(n)' <=> FoldedBefore(n)
  BY <1>1, <1>5, FoldedKept DEF IInv
<1>7. \/ /\ Match(o) /\ pc' = "shape" /\ at' = o + 1
         /\ compute' = [compute EXCEPT ![o] = FALSE] /\ UNCHANGED <<cache, shape>>
      \/ /\ pc' = (IF IsConst(o) THEN "constant" ELSE "shape") /\ at' = o + 1
         /\ shape' = [shape EXCEPT ![ops[o].out] = OutSize(o, shape)]
         /\ cache' = [cache EXCEPT ![o] = Inserted(o)]
         /\ compute' = [compute EXCEPT ![o] = TRUE]
      \/ /\ pc' = "failed" /\ at' = at
         /\ cache' = [cache EXCEPT ![o] = Compared(o)] /\ UNCHANGED <<shape, compute>>
  BY <1>1, Zenon DEF ComputeShape, Continue, Fail
<1>8. cache[o] \in CacheType /\ InSizes(o, shape) \in Seq(Nat) /\ InSizes(o, shape) # <<>>
  BY <1>1, SizesKnown DEF IInv, TypeInv
<1>9. OutSize(o, shape) \in Nat /\ ops[o].out \in Tensors
  <2>1. ops[o].out \in Tensors /\ ops[o].in[1] \in Tensors
    <3>1. ops[o].out \in Tensors /\ ops[o].in \in Seq(Tensors) /\ 1 \in 1 .. Len(ops[o].in)
      BY SetupFacts DEF IInv, TypeInv
    <3> QED
      BY <3>1, ElementOfSeq
  <2> QED
    BY <2>1 DEF OutSize, IInv, TypeInv
<1>10. Compared(o) \in CacheType /\ Inserted(o) \in CacheType
  <2>1. Closed(o, FALSE) \in CacheType
    BY DEF Closed, CacheType
  <2>2. Compared(o) \in CacheType
    BY <1>8, <2>1 DEF Compared
  <2>3. ASSUME NEW c \in CacheType PROVE [c EXCEPT !.seen = InSizes(o, shape)] \in CacheType
    BY <1>8 DEF CacheType
  <2> QED
    BY <2>2, <2>3 DEF Inserted
<1>11. TypeInv'
  <2>1. shape' \in [Tensors -> Nat]
    BY <1>7, <1>9 DEF IInv, TypeInv
  <2>2. cache' \in [DOMAIN ops -> CacheType]
    BY <1>7, <1>10 DEF IInv, TypeInv
  <2>3. compute' \in [DOMAIN ops -> BOOLEAN]
    BY <1>7 DEF IInv, TypeInv
  <2>4. at' \in Nat \ {0} /\ pc' \in Steps
    BY <1>1, <1>7 DEF IInv, TypeInv, Steps
  <2> QED
    BY <1>1, <1>3, <2>1, <2>2, <2>3, <2>4 DEF IInv, TypeInv
<1>12. Chunks' /\ PlanAllReturned' /\ Counted' /\ Returnable'
  BY <1>1, <1>4, <1>7 DEF IInv, Chunks, PlanAllReturned, Counted, Returnable
<1>13. FoldedBefore(o)
  BY <1>1 DEF IInv, Constants
<1>14. Match(o) /\ IsConst(o) => Folded(o)
  BY <1>1, <1>8, PassedFolded DEF Match
<1>15. Constants'
  <2>1. pc' = "shape" => FoldedBefore(at')
    <3>1. ASSUME NEW p \in DOMAIN ops, IsConst(p), p < o + 1, IsConst(o) => Folded(o) PROVE Folded(p)
      <4>1. p < o \/ p = o
        BY <3>1, SetupFacts DEF IInv, TypeInv
      <4> QED
        BY <1>13, <3>1, <4>1 DEF FoldedBefore
    <3>2. pc' = "shape" => at' = o + 1 /\ (IsConst(o) => Folded(o))
      BY <1>1, <1>7, <1>14
    <3> QED
      BY <3>1, <3>2, Zenon DEF FoldedBefore
  <2>2. pc' = "constant" => at' - 1 \in DOMAIN ops /\ IsConst(at' - 1) /\ FoldedBefore(at' - 1)
    <3>1. pc' = "constant" => IsConst(o) /\ at' = o + 1
      BY <1>1, <1>7
    <3>2. o \in Int
      BY SetupFacts DEF IInv, TypeInv
    <3>3. pc' = "constant" => at' - 1 = o
      BY <3>1, <3>2
    <3> QED
      BY <1>13, <3>1, <3>3, Zenon
  <2> QED
    BY <1>1, <1>3, <1>5, <1>6, <1>7, <2>1, <2>2 DEF Constants, IInv, IsConst
<1>16. Groups'
  BY <1>1, <1>7 DEF IInv, Groups, TensorsOf
<1>17. Passed'
  <2>1. ASSUME NEW p \in DOMAIN ops, cache'[p] = cache[p]
        PROVE  /\ cache'[p].seen # <<>> => cache'[p].can
               /\ IsConst(p) /\ (cache'[p].pass \/ cache'[p].seen # <<>>) => Folded(p)'
    BY <1>1, <1>6, <2>1, PassedFolded DEF IInv, Passed
  <2>2. CASE cache' = cache
    BY <1>1, <2>1, <2>2 DEF Passed, IsConst
  <2>3. CASE cache' # cache
    <3>1. /\ \A p \in DOMAIN ops : p # o => cache'[p] = cache[p]
          /\ \/ cache'[o] = Inserted(o) /\ (IsConst(o) => pc' = "constant" /\ at' = o + 1)
             \/ cache'[o] = Compared(o)
      BY <1>1, <1>7, <2>3 DEF IInv, TypeInv
    <3>2. CASE cache'[o] = cache[o]
      BY <1>1, <2>1, <3>1, <3>2 DEF Passed, IsConst
    <3>3. CASE cache'[o] # cache[o]
      <4>1. CASE Compared(o) # cache[o]
        <5>1. cache'[o] = Closed(o, FALSE)
          BY <3>1, <4>1 DEF Compared, Inserted, Closed
        <5> QED
          BY <1>1, <2>1, <3>1, <5>1 DEF Passed, IsConst, Closed
      <4>2. CASE Compared(o) = cache[o]
        <5>1. /\ cache[o].can /\ cache'[o] = [cache[o] EXCEPT !.seen = InSizes(o, shape)]
              /\ IsConst(o) => pc' = "constant" /\ at' = o + 1
          BY <3>1, <3>3, <4>2 DEF Inserted
        <5>2. cache'[o].can /\ (cache'[o].pass <=> cache[o].pass)
          <6>1. cache'[o] = [can |-> cache[o].can, pass |-> cache[o].pass, seen |-> InSizes(o, shape)]
            BY <1>8, <5>1 DEF CacheType
          <6> QED
            BY <1>8, <5>1, <6>1 DEF CacheType
        <5>3. ASSUME IsConst(o), cache[o].pass PROVE Folded(o)'
          <6>1. Folded(o)
            BY <1>1, <5>3, PassedFolded
          <6> QED
            BY <1>1, <1>6, <5>3, <6>1
        <5>4. ASSUME NEW p \in DOMAIN ops
              PROVE  /\ cache'[p].seen # <<>> => cache'[p].can
                     /\ IsConst(p) /\ (cache'[p].pass \/ cache'[p].seen # <<>>) =>
                          \/ Folded(p)'
                          \/ cache'[p].can /\ ~ cache'[p].pass /\ pc' = "constant" /\ at' = p + 1
          <6>1. CASE p = o
            BY <5>1, <5>2, <5>3, <6>1
          <6>2. CASE p # o
            BY <2>1, <3>1, <6>2
          <6> QED
            BY <6>1, <6>2
        <5> QED
          BY <1>1, <5>4 DEF Passed, IsConst
      <4> QED
        BY <4>1, <4>2
    <3> QED
      BY <3>2, <3>3
  <2> QED
    BY <2>2, <2>3
<1> QED
  BY <1>11, <1>12, <1>15, <1>16, <1>17 DEF IInv

LEMMA FoldConstantInv ==
  ASSUME IInv, FoldConstant PROVE IInv'
<1>0. /\ pc = "constant" /\ at - 1 \in DOMAIN ops /\ FoldedBefore(at - 1)
  BY DEF FoldConstant, IInv, Constants
<1>1. PICK o \in DOMAIN ops : o = at - 1
  BY <1>0
<1>2. /\ UNCHANGED <<setup, shape, cache, compute, command, group, useCount, index, at>>
      /\ ops' = ops /\ usage' = usage /\ Tensors' = Tensors /\ dangling' = FALSE
      /\ \/ mem' = [mem EXCEPT ![ops[o].out] = "static"] /\ pc' \in {"shape", "failed"}
         \/ mem' = mem /\ pc' = "failed"
      /\ ops[o].out \in Tensors
  BY <1>1, Stable, SetupFacts
  DEF FoldConstant, IInv, TypeInv, Acquired, Continue, Fail, memory, structure
<1>3. /\ mem' \in [Tensors -> Places]
      /\ \A t \in Tensors : mem'[t] \in {"none", "static"} /\ (mem[t] = "static" => mem'[t] = "static")
      /\ \A t \in Tensors : mem'[t] = mem[t] \/ mem'[t] = "static"
  BY <1>0, <1>2, NoChunks DEF IInv, TypeInv, Places
<1>4. \A p \in DOMAIN ops : Folded(p) => Folded(p)'
  BY <1>2, <1>3, SetupFacts DEF Folded, IInv, TypeInv
<1>5. pc' = "shape" => Folded(o)'
  BY <1>2 DEF Folded, IInv, TypeInv
<1>6. TypeInv'
  BY <1>2, <1>3 DEF IInv, TypeInv, Steps
<1>7. Chunks' /\ PlanAllReturned' /\ Counted' /\ Returnable'
  BY <1>2, <1>3 DEF IInv, Chunks, PlanAllReturned, Counted, Returnable
<1>8. Groups'
  BY <1>0, <1>2 DEF IInv, Groups, TensorsOf
<1>9. Constants'
  <2>1. \A n : FoldedBefore(n) => FoldedBefore(n)'
    BY <1>2, <1>4 DEF FoldedBefore, IsConst
  <2>2. ASSUME pc' = "shape" PROVE FoldedBefore(at)'
    <3>1. ASSUME NEW p \in DOMAIN ops, IsConst(p), p < at PROVE Folded(p)'
      <4>1. p < o \/ p = o
        BY <1>1, <3>1, SetupFacts DEF IInv, TypeInv
      <4>2. CASE p < o
        BY <1>0, <1>1, <1>4, <3>1, <4>2 DEF FoldedBefore
      <4> QED
        BY <1>5, <2>2, <4>1, <4>2
    <3> QED
      BY <1>2, <3>1 DEF FoldedBefore, IsConst
  <2> QED
    BY <1>2, <1>3, <2>1, <2>2 DEF Constants, IInv, IsConst
<1>10. Passed'
  <2>1. ASSUME NEW p \in DOMAIN ops, IsConst(p), cache[p].pass \/ cache[p].seen # <<>>
        PROVE  Folded(p)' \/ (cache[p].can /\ ~ cache[p].pass /\ pc' = "failed")
    BY <1>0, <1>1, <1>2, <1>4, <1>5, <2>1, SetupFacts DEF Passed, IInv, TypeInv
  <2> QED
    BY <1>2, <2>1 DEF Passed, IInv, IsConst
<1> QED
  BY <1>6, <1>7, <1>8, <1>9, <1>10 DEF IInv

\* A command with one field changed.
LEMMA Changed ==
  ASSUME NEW c \in CommandType, NEW v
  PROVE  /\ [c EXCEPT !.made = v] = [made |-> v, exe |-> c.exe, group |-> c.group]
         /\ [c EXCEPT !.exe = v] = [made |-> c.made, exe |-> v, group |-> c.group]
         /\ [c EXCEPT !.group = v] = [made |-> c.made, exe |-> c.exe, group |-> v]
         /\ c.made \in Seq(Nat) /\ c.exe \in BOOLEAN /\ c.group \in {0, 1}
BY DEF CommandType

LEMMA TransformInv ==
  ASSUME IInv, Transform PROVE IInv'
<1>1. PICK o \in DOMAIN ops : o = at - Len(ops) /\ pc = "shape"
  BY DEF Transform
<1>2. /\ UNCHANGED <<setup, shape, cache, compute, mem, dangling, group, useCount, index>>
      /\ ops' = ops /\ usage' = usage /\ Tensors' = Tensors
      /\ \/ at' = at + 1 /\ pc' = "shape"
         \/ at' = at /\ pc' = "failed"
  BY Stable DEF Transform, Continue, Fail, memory
<1>3. \/ command' = command
      \/ command' = [command EXCEPT ![o] = [made |-> InSizes(o, shape), exe |-> FALSE, group |-> 0]]
      \/ command' = [command EXCEPT ![o].made = <<>>]
  BY <1>1 DEF Transform
<1>4. \A p \in DOMAIN ops : /\ command'[p] \in CommandType
                            /\ command'[p].group = 1 => command[p].group = 1
                            /\ command'[p].exe => command[p].exe
  <2> TAKE p \in DOMAIN ops
  <2>1. command[o] \in CommandType /\ command[p] \in CommandType /\ InSizes(o, shape) \in Seq(Nat)
    BY SizesKnown DEF IInv, TypeInv
  <2>2. [command[o] EXCEPT !.made = <<>>] = [made |-> <<>>, exe |-> command[o].exe, group |-> command[o].group]
    BY <2>1, Changed
  <2>3. CASE command'[p] = command[p]
    BY <2>1, <2>3
  <2>4. CASE command'[p] = [made |-> InSizes(o, shape), exe |-> FALSE, group |-> 0]
    BY <2>1, <2>4 DEF CommandType
  <2>5. CASE p = o /\ command'[p] = [made |-> <<>>, exe |-> command[o].exe, group |-> command[o].group]
    <3>1. <<>> \in Seq(Nat) /\ command[o].exe \in BOOLEAN /\ command[o].group \in {0, 1}
      BY <2>1 DEF CommandType
    <3> QED
      BY <2>5, <3>1 DEF CommandType
  <2>6. command \in [DOMAIN ops -> CommandType]
    BY DEF IInv, TypeInv
  <2>7. CASE p = o
    BY <1>3, <2>2, <2>3, <2>4, <2>5, <2>6, <2>7
  <2>8. CASE p # o
    BY <1>3, <2>3, <2>6, <2>8
  <2> QED
    BY <2>7, <2>8
<1>5. TypeInv'
  <2>1. command' \in [DOMAIN ops -> CommandType]
    BY <1>3, <1>4 DEF IInv, TypeInv
  <2> QED
    BY <1>2, <2>1 DEF IInv, TypeInv, Steps
<1>6. \A t \in Tensors : mem[t] \in {"none", "static"}
  BY <1>1, NoChunks DEF IInv
<1>7. Chunks' /\ PlanAllReturned' /\ Counted' /\ Returnable'
  BY <1>2, <1>6 DEF Chunks, PlanAllReturned, Counted, Returnable
<1>8. Groups'
  BY <1>1, <1>2, <1>4 DEF IInv, Groups, TensorsOf
<1>9. (\A p : Folded(p)' = Folded(p)) /\ (\A m : FoldedBefore(m)' = FoldedBefore(m))
  BY <1>2 DEF Folded, FoldedBefore, IsConst
<1>10. \A m : FoldedBefore(m)
  <2>1. FoldedBefore(at) /\ at \in Nat /\ at > Len(ops)
    BY <1>1, SetupFacts DEF IInv, Constants, TypeInv
  <2> QED
    BY <2>1, AllFolded DEF IInv
<1>11. Constants'
  BY <1>2, <1>9, <1>10 DEF IInv, Constants
<1>12. Passed'
  BY <1>1, <1>2, <1>9, PassedFolded DEF IInv, Passed, IsConst
<1> QED
  BY <1>5, <1>7, <1>8, <1>11, <1>12 DEF IInv

LEMMA CreateExecutionInv ==
  ASSUME IInv, CreateExecution PROVE IInv'
<1>1. PICK o \in DOMAIN ops : o = at - 2 * Len(ops) /\ pc = "shape"
  BY DEF CreateExecution
<1>2. /\ UNCHANGED <<setup, shape, cache, compute, mem, dangling, group, useCount, index>>
      /\ ops' = ops /\ usage' = usage /\ Tensors' = Tensors
      /\ \/ at' = at + 1 /\ pc' = "shape"
         \/ at' = at /\ pc' = "failed"
  BY Stable DEF CreateExecution, Continue, Fail, memory
<1>3. command' = command \/ command' = [command EXCEPT ![o].exe = TRUE]
  BY <1>1 DEF CreateExecution
<1>4. \A p \in DOMAIN ops : /\ command'[p] \in CommandType
                            /\ command'[p].group = 1 => command[p].group = 1
  <2> TAKE p \in DOMAIN ops
  <2>1. command \in [DOMAIN ops -> CommandType] /\ command[o] \in CommandType
    BY DEF IInv, TypeInv
  <2>2. CASE command'[p] = command[p]
    BY <2>1, <2>2
  <2>3. CASE p = o /\ command'[p] = [command[o] EXCEPT !.exe = TRUE]
    <3>1. command'[p] = [made |-> command[o].made, exe |-> TRUE, group |-> command[o].group]
      BY <2>1, <2>3, Changed
    <3> QED
      BY <2>1, <2>3, <3>1, Changed DEF CommandType
  <2> QED
    BY <1>3, <2>1, <2>2, <2>3
<1>5. TypeInv'
  <2>1. command' \in [DOMAIN ops -> CommandType]
    BY <1>3, <1>4 DEF IInv, TypeInv
  <2> QED
    BY <1>2, <2>1 DEF IInv, TypeInv, Steps
<1>6. \A t \in Tensors : mem[t] \in {"none", "static"}
  BY <1>1, NoChunks DEF IInv
<1>7. Chunks' /\ PlanAllReturned' /\ Counted' /\ Returnable'
  BY <1>2, <1>6 DEF Chunks, PlanAllReturned, Counted, Returnable
<1>8. Groups'
  BY <1>1, <1>2, <1>4 DEF IInv, Groups, TensorsOf
<1>9. (\A p : Folded(p)' = Folded(p)) /\ (\A m : FoldedBefore(m)' = FoldedBefore(m))
  BY <1>2 DEF Folded, FoldedBefore, IsConst
<1>10. \A m : FoldedBefore(m)
  <2>1. FoldedBefore(at) /\ at \in Nat /\ at > Len(ops)
    BY <1>1, SetupFacts DEF IInv, Constants, TypeInv
  <2> QED
    BY <2>1, AllFolded DEF IInv
<1>11. Constants'
  BY <1>2, <1>9, <1>10 DEF IInv, Constants
<1>12. Passed'
  BY <1>1, <1>2, <1>9, PassedFolded DEF IInv, Passed, IsConst
<1> QED
  BY <1>5, <1>7, <1>8, <1>11, <1>12 DEF IInv

\* Both ways in which a plan is begun start with every read ahead.
LEMMA CountedFromStart ==
  ASSUME TypeInv, setup' = setup, useCount' = CountReaders, at' = 1,
         \A t : Readers(t)' = Readers(t)
  PROVE  Counted' /\ useCount' \in [Tensors -> Int]
<1>1. Tensors' = Tensors /\ usage' = usage
  BY Stable
<1>2. \A t \in Tensors : useCount'[t] \in Int
  BY ReadersFinite DEF TypeInv, CountReaders
<1>3. \A t : \A r \in Readers(t) : r[1] \in Nat \ {0}
  BY SetupFacts DEF TypeInv, Readers
<1>4. \A t : Remaining(t)' = Readers(t)
  BY <1>3 DEF Remaining
<1>5. \A t \in Tensors : usage[t] # "constant" /\ Readers(t) # {} =>
        useCount'[t] = Cardinality(Readers(t))
  BY DEF CountReaders
<1>6. useCount' = [t \in Tensors |-> useCount'[t]]
  BY DEF CountReaders
<1> QED
  BY <1>1, <1>2, <1>4, <1>5, <1>6 DEF Counted

LEMMA BeginAllocInv ==
  ASSUME IInv, BeginAlloc PROVE IInv'
<1>1. /\ UNCHANGED <<setup, shape, cache, compute, command, dangling, group, index>>
      /\ ops' = ops /\ usage' = usage /\ Tensors' = Tensors
      /\ pc = "shape" /\ at > 3 * Len(ops) /\ pc' = "alloc" /\ at' = 1
      /\ useCount' = CountReaders /\ mem' = Forget(mem, "main")
  BY Stable DEF BeginAlloc, Reset, Continue, structure
<1>2. \A t \in Tensors : mem[t] \in {"none", "static"}
  BY <1>1, NoChunks DEF IInv
<1>3. mem' = mem
  BY <1>1, <1>2, ForgetNothing DEF IInv, TypeInv
<1>4. \A t : Readers(t)' = Readers(t)
  BY <1>1 DEF Readers, IsConst
<1>5. Counted' /\ useCount' \in [Tensors -> Int]
  BY <1>1, <1>4, CountedFromStart DEF IInv
<1>6. TypeInv'
  BY <1>1, <1>3, <1>5 DEF IInv, TypeInv, Steps
<1>7. \A g \in {0, 1} : PlanOf[g] \notin {"none", "static"}
  BY DEF PlanOf
<1>8. Chunks' /\ PlanAllReturned' /\ Returnable'
  BY <1>1, <1>2, <1>3, <1>6, <1>7 DEF TypeInv, Chunks, PlanAllReturned, Returnable
<1>9. Groups'
  BY <1>1 DEF IInv, Groups, TensorsOf
<1>10. \A m : FoldedBefore(m)
  <2>1. FoldedBefore(at) /\ at \in Nat /\ at > Len(ops)
    BY <1>1, SetupFacts DEF IInv, Constants, TypeInv
  <2> QED
    BY <2>1, AllFolded DEF IInv
<1>11. (\A p : Folded(p)' = Folded(p)) /\ (\A m : FoldedBefore(m)' = FoldedBefore(m))
  BY <1>1, <1>3 DEF Folded, FoldedBefore, IsConst
<1>12. Constants'
  BY <1>1, <1>3, <1>10, <1>11 DEF IInv, Constants
<1>13. Passed'
  BY <1>1, <1>11, PassedFolded DEF IInv, Passed, IsConst
<1> QED
  BY <1>5, <1>6, <1>8, <1>9, <1>12, <1>13 DEF IInv

\* While a plan is made and after it nothing is left to fold.
LEMMA AllocFolded ==
  ASSUME IInv, pc \in {"alloc", "end"}
  PROVE  /\ \A m : FoldedBefore(m)
         /\ \A o \in DOMAIN ops : IsConst(o) => Folded(o)
         /\ \A t \in Tensors : usage[t] = "constant" => mem[t] = "static"
<1>1. FoldedBefore(Len(ops) + 1) /\ Len(ops) + 1 \in Nat /\ Len(ops) + 1 > Len(ops)
  BY SetupFacts DEF IInv, TypeInv, Constants
<1>2. \A m : FoldedBefore(m)
  BY <1>1, AllFolded DEF IInv
<1>3. \A o \in DOMAIN ops : IsConst(o) => Folded(o)
  BY <1>1, SetupFacts DEF FoldedBefore, IInv, TypeInv
<1>4. ASSUME NEW o \in DOMAIN ops, usage[ops[o].out] = "constant" PROVE mem[ops[o].out] = "static"
  BY <1>3, <1>4, SetupFacts DEF IInv, TypeInv, Folded
<1>5. ASSUME NEW t \in Tensors, usage[t] = "constant" PROVE mem[t] = "static"
  BY <1>4, <1>5 DEF IInv, Constants
<1> QED
  BY <1>2, <1>3, <1>5

\* A step of making a plan that leaves constants alone leaves them folded.
LEMMA ConstantsKept ==
  ASSUME IInv, pc \in {"alloc", "end"}, pc' # "constant",
         UNCHANGED <<setup, cache, command>>,
         \A t \in Tensors : usage[t] = "constant" => mem'[t] = mem[t]
  PROVE  Constants' /\ Passed'
<1>1. ops' = ops /\ usage' = usage /\ Tensors' = Tensors
  BY Stable
<1>2. /\ \A o \in DOMAIN ops : IsConst(o) => Folded(o)'
      /\ \A n : FoldedBefore(n)'
  BY FoldedKept, AllocFolded DEF IInv
<1>3. \A t \in Tensors : usage[t] = "constant" => mem'[t] = "static"
  BY AllocFolded
<1>4. Constants'
  BY <1>1, <1>2, <1>3 DEF Constants
<1>5. Passed'
  BY <1>1, <1>2 DEF IInv, Passed, IsConst
<1> QED
  BY <1>4, <1>5

LEMMA FailureInv ==
  ASSUME IInv, Careful, pc \in {"alloc", "end"}, AllocFails,
         UNCHANGED <<setup, structure, group, mem, dangling, useCount>>
  PROVE  IInv'
<1>1. /\ UNCHANGED <<shape, cache, compute, command>>
      /\ ops' = ops /\ usage' = usage /\ Tensors' = Tensors
      /\ index = 0 /\ pc' = "failed" /\ index' = 0 /\ at' = 1
  BY Stable DEF AllocFails, Careful, Careless, structure, IInv, TypeInv
<1>2. TypeInv'
  BY <1>1 DEF IInv, TypeInv, Steps
<1>3. Chunks' /\ PlanAllReturned' /\ Counted' /\ Returnable'
  BY <1>1 DEF IInv, Chunks, PlanAllReturned, Counted, Returnable
<1>4. Groups'
  BY <1>1 DEF IInv, Groups, TensorsOf
<1>5. Constants' /\ Passed'
  BY <1>1, ConstantsKept
<1> QED
  BY <1>2, <1>3, <1>4, <1>5 DEF IInv

LEMMA AcquireInv ==
  ASSUME IInv, Careful, Acquire PROVE IInv'
<1>1. /\ UNCHANGED <<setup, shape, cache, compute, command, group, useCount>>
      /\ ops' = ops /\ usage' = usage /\ Tensors' = Tensors
      /\ pc = "alloc" /\ Due # {} /\ Lacking # {}
  BY Stable DEF Acquire, structure
<1>2. CASE AllocFails /\ UNCHANGED memory
  BY <1>1, <1>2, FailureInv DEF memory, structure
<1> DEFINE place == IF StorageOf(Wanted) = "static" THEN "static" ELSE PlanOf[index]
<1>3. CASE Acquired(Wanted, place) /\ UNCHANGED <<pc, at, index>>
  <2>1. /\ Wanted \in TensorsOf(Current) /\ Wanted \in Tensors
        /\ group[Wanted] = index /\ mem[Wanted] = "none"
        /\ usage[Wanted] = "input" => AllocInput /\ Wanted \in ToSet(ops[Current].in)
    BY <1>1, LackingFacts DEF IInv
  <2>2. PICK t \in Tensors : t = Wanted
    BY <2>1
  <2>3. /\ usage[t] # "constant"
        /\ usage[t] \in {"input", "normal", "output"}
    BY <1>1, <2>1, <2>2, AllocFolded, SetupFacts DEF IInv, TypeInv
  <2>4. PICK p : p = place
    OBVIOUS
  <2>5. /\ p \in {"static", PlanOf[index]} /\ PlanOf[index] \in {"main", "backup"}
        /\ PlanOf[index] = "main" <=> index = 0
        /\ index \in {0, 1}
    BY <2>4 DEF PlanOf, IInv, TypeInv
  <2>6. /\ mem' = [mem EXCEPT ![t] = p] /\ dangling' = dangling /\ mem \in [Tensors -> Places]
    BY <1>3, <2>2, <2>4 DEF Acquired, IInv, TypeInv
  <2>7. TypeInv'
    <3>1. mem' \in [Tensors -> Places]
      BY <2>5, <2>6 DEF Places
    <3> QED
      BY <1>1, <1>3, <2>6, <3>1 DEF IInv, TypeInv
  <2>8. Chunks' /\ PlanAllReturned'
    BY <1>1, <1>3, <2>1, <2>2, <2>3, <2>5, <2>6 DEF IInv, Chunks, PlanAllReturned
  <2>9. Groups'
    BY <1>1, <1>3 DEF IInv, Groups, TensorsOf
  <2>10. Constants' /\ Passed'
    BY <1>1, <1>3, <2>3, <2>6, ConstantsKept
  <2>11. Counted' /\ (\A u : Remaining(u)' = Remaining(u)) /\ Recycled' = Recycled /\ AllocInput' = AllocInput
    BY <1>1, <1>3 DEF IInv, Counted, Remaining, Readers, IsConst, Recycled, StorageOf, AllocInput
  <2>12. ASSUME usage[t] = "input" PROVE AllocInput /\ Remaining(t) # {}
    <3>1. AllocInput /\ t \in ToSet(ops[Current].in)
      BY <2>1, <2>2, <2>12
    <3>2. PICK i \in DOMAIN ops[Current].in : ops[Current].in[i] = t
      BY <3>1 DEF ToSet
    <3>3. Current \in DOMAIN ops /\ Current >= at /\ ~ IsConst(Current) /\ command[Current].made # <<>>
      BY <1>1, DueFacts DEF IInv
    <3>4. <<Current, i>> \in {Current} \X DOMAIN ops[Current].in
      OBVIOUS
    <3>5. <<Current, i>> \in Remaining(t)
      BY <3>2, <3>3, <3>4 DEF Remaining, Readers
    <3> QED
      BY <3>1, <3>5
  <2>13. ASSUME usage[t] # "input", p = PlanOf[index] PROVE t \in Recycled
    <3>1. StorageOf(t) = "dynamic"
      BY <2>3, <2>4, <2>2, <2>5, <2>13 DEF StorageOf
    <3>2. \E o \in DOMAIN ops : command[o].group = index /\ command[o].made # <<>> /\ t \in TensorsOf(o)
      <4>1. CASE index = 1
        BY <1>1, <2>1, <2>2, <4>1 DEF IInv, Groups
      <4>2. CASE index = 0
        <5>1. /\ Current \in DOMAIN ops /\ command[Current].made # <<>>
              /\ command[Current].group \in {0, 1}
          BY <1>1, DueFacts, Changed DEF IInv, TypeInv
        <5>2. command[Current].group # 1
          BY <2>1, <4>2, <5>1 DEF IInv, Groups
        <5> QED
          BY <2>1, <2>2, <4>2, <5>1, <5>2
      <4> QED
        BY <2>5, <4>1, <4>2
    <3> QED
      BY <3>1, <3>2 DEF Recycled, TensorsOf
  <2>14. Returnable'
    BY <1>1, <1>3, <2>5, <2>6, <2>11, <2>12, <2>13 DEF IInv, Returnable
  <2> QED
    BY <2>7, <2>8, <2>9, <2>10, <2>11, <2>14 DEF IInv
<1> QED
  BY <1>2, <1>3 DEF Acquire, Wanted

\* A command that has been resized takes its reads off what remains.
LEMMA CountsDown ==
  ASSUME TypeInv, Due # {}, NEW o, o = Current, setup' = setup, command' = command, at' = o + 1,
         NEW t
  PROVE  /\ Remaining(t)' \in SUBSET Remaining(t) /\ IsFiniteSet(Remaining(t)')
         /\ Cardinality(Remaining(t)') = Cardinality(Remaining(t)) - Reads(o, t)
         /\ t \notin ToSet(ops[o].in) => Remaining(t)' = Remaining(t)
<1> DEFINE at_o == {i \in DOMAIN ops[o].in : ops[o].in[i] = t}
           D == {o} \X at_o
<1>1. /\ o \in DOMAIN ops /\ o >= at /\ ~ IsConst(o) /\ command[o].made # <<>>
      /\ o \in Nat \ {0} /\ \A p \in Due : o <= p
  BY DueFacts
<1>2. ops' = ops
  BY Stable
<1>3. \A r \in Readers(t) : r[1] \in DOMAIN ops /\ r[1] \in Nat /\ r[2] \in DOMAIN ops[r[1]].in
                            /\ r = <<r[1], r[2]>> /\ (r[1] >= at => r[1] >= o)
  <2> TAKE r \in Readers(t)
  <2>1. PICK p \in DOMAIN ops : r \in {p} \X DOMAIN ops[p].in
    BY DEF Readers
  <2>2. r[1] = p /\ r[2] \in DOMAIN ops[p].in /\ r = <<r[1], r[2]>> /\ p \in Nat
    BY <2>1, SetupFacts DEF TypeInv
  <2>3. r[1] >= at => r[1] \in Due
    BY <2>2 DEF Readers, Due
  <2> QED
    BY <1>1, <2>2, <2>3
<1>4. Readers(t)' = Readers(t)
  BY <1>2 DEF Readers, IsConst
<1>5. \A r \in Readers(t) : (r[1] >= o + 1) <=> (r[1] >= at /\ r[1] # o)
  BY <1>1, <1>3 DEF TypeInv
<1>6. Remaining(t)' = {r \in Remaining(t) : r[1] # o}
  BY <1>4, <1>5 DEF Remaining
<1>7. D \subseteq Remaining(t)
  <2> SUFFICES ASSUME NEW i \in at_o PROVE <<o, i>> \in Remaining(t)
    OBVIOUS
  <2>1. <<o, i>> \in {o} \X DOMAIN ops[o].in
    OBVIOUS
  <2> QED
    BY <1>1, <2>1 DEF Remaining, Readers
<1>8. \A r \in Remaining(t) : r[1] = o <=> r \in D
  BY <1>3 DEF Remaining, Readers
<1>9. Remaining(t)' = Remaining(t) \ D
  BY <1>6, <1>8
<1>10. IsFiniteSet(Remaining(t)) /\ IsFiniteSet(at_o) /\ IsFiniteSet({o}) /\ Cardinality({o}) = 1
  <2>1. Remaining(t) \in SUBSET Readers(t) /\ IsFiniteSet(Readers(t))
    BY ReadersFinite DEF Remaining, TypeInv
  <2>2. DOMAIN ops[o].in = 1 .. Len(ops[o].in) /\ Len(ops[o].in) \in Int
    BY <1>1, SetupFacts DEF TypeInv
  <2>3. IsFiniteSet(DOMAIN ops[o].in) /\ at_o \in SUBSET DOMAIN ops[o].in
    BY <2>2, FS_Interval
  <2> QED
    BY <2>1, <2>3, FS_Subset, FS_Singleton
<1>11. IsFiniteSet(D) /\ Cardinality(D) = Reads(o, t)
  <2>1. Cardinality(D) = 1 * Cardinality(at_o) /\ IsFiniteSet(D) /\ Cardinality(at_o) \in Nat
    BY <1>10, FS_Product, FS_CardinalityType
  <2> QED
    BY <2>1 DEF Reads
<1>12. Cardinality(Remaining(t) \ D) = Cardinality(Remaining(t)) - Cardinality(D)
       /\ IsFiniteSet(Remaining(t) \ D)
  <2>1. Remaining(t) \cap D = D
    BY <1>7
  <2>2. /\ IsFiniteSet(Remaining(t) \ D)
        /\ Cardinality(Remaining(t) \ D) = Cardinality(Remaining(t)) - Cardinality(Remaining(t) \cap D)
    BY <1>10, FS_Difference
  <2> QED
    BY <2>1, <2>2
<1>13. t \notin ToSet(ops[o].in) => D = {}
  BY DEF ToSet
<1> QED
  BY <1>9, <1>11, <1>12, <1>13

LEMMA ResizeCommandInv ==
  ASSUME IInv, Careful, ResizeCommand PROVE IInv'
<1>1. /\ UNCHANGED <<setup, shape, cache, compute, command, group>>
      /\ ops' = ops /\ usage' = usage /\ Tensors' = Tensors
      /\ pc = "alloc" /\ Due # {} /\ Lacking = {}
  BY Stable DEF ResizeCommand, structure
<1>2. PICK o : o = Current
  OBVIOUS
<1>3. CASE AllocFails /\ UNCHANGED <<useCount, memory>>
  BY <1>1, <1>3, FailureInv DEF memory, structure
<1>4. CASE /\ useCount' = CountDown(o) /\ Drop(Released(o)) /\ pc' = "alloc" /\ at' = o + 1
           /\ UNCHANGED <<room, plan, index>>
  <2>1. /\ o \in DOMAIN ops /\ o \in Nat \ {0} /\ ~ IsConst(o) /\ ops[o].in \in Seq(Tensors)
        /\ DOMAIN ops[o].in = 1 .. Len(ops[o].in) /\ Len(ops[o].in) \in Int
        /\ TensorsOf(o) \subseteq Tensors
    <3>1. o \in DOMAIN ops /\ o \in Nat \ {0} /\ ~ IsConst(o)
      BY <1>1, <1>2, DueFacts DEF IInv
    <3> QED
      BY <3>1, SetupFacts DEF IInv, TypeInv
  <2>2. Released(o) \in SUBSET Tensors /\ \A t \in Released(o) : usage[t] \in {"normal", "input"}
    BY <2>1 DEF Released, TensorsOf
  <2>3. /\ mem' \in [Tensors -> Places] /\ dangling' = FALSE
        /\ \A t \in Tensors : mem'[t] = IF t \in Released(o) THEN "none" ELSE mem[t]
    BY <1>4, <2>2, DropFacts DEF IInv
  <2>4. \A t \in Tensors : /\ Remaining(t)' \in SUBSET Remaining(t) /\ IsFiniteSet(Remaining(t)')
                           /\ Cardinality(Remaining(t)') = Cardinality(Remaining(t)) - Reads(o, t)
                           /\ t \notin ToSet(ops[o].in) => Remaining(t)' = Remaining(t)
    BY <1>1, <1>2, <1>4, CountsDown DEF IInv
  <2>5. \A t : Reads(o, t) \in Nat
    <3> TAKE t
    <3>1. IsFiniteSet(DOMAIN ops[o].in)
      BY <2>1, FS_Interval
    <3>2. {i \in DOMAIN ops[o].in : ops[o].in[i] = t} \in SUBSET DOMAIN ops[o].in
      OBVIOUS
    <3> QED
      BY <3>1, <3>2, FS_Subset, FS_CardinalityType DEF Reads
  <2>6. /\ useCount' = [t \in Tensors |-> useCount'[t]]
        /\ \A t \in Tensors : useCount'[t] = IF usage[t] = "constant" THEN useCount[t]
                                               ELSE useCount[t] - Reads(o, t)
        /\ \A t \in Tensors : useCount[t] \in Int
    BY <1>4 DEF CountDown, IInv, TypeInv
  <2>7. TypeInv'
    <3>1. useCount' \in [Tensors -> Int]
      BY <2>5, <2>6
    <3>2. at' \in Nat \ {0} /\ pc' \in Steps
      BY <1>4, <2>1 DEF Steps
    <3> QED
      BY <1>1, <1>4, <2>3, <3>1, <3>2 DEF IInv, TypeInv
  <2>8. \A t : Readers(t)' = Readers(t)
    BY <1>1 DEF Readers, IsConst
  <2>9. ASSUME NEW t \in Tensors, usage[t] # "constant", Readers(t) # {}
        PROVE  useCount'[t] = Cardinality(Remaining(t)')
    BY <1>1, <2>4, <2>6, <2>9 DEF IInv, Counted
  <2>10. Counted'
    BY <1>1, <2>8, <2>9 DEF Counted
  <2>11. PlanOf[index] # "none" /\ "main" # "none" /\ "backup" # "none"
    BY DEF PlanOf, IInv, TypeInv
  <2>12. Chunks' /\ PlanAllReturned'
    BY <1>1, <1>4, <2>3, <2>11 DEF IInv, Chunks, PlanAllReturned
  <2>13. Groups'
    BY <1>1, <1>4 DEF IInv, Groups, TensorsOf
  <2>14. Constants' /\ Passed'
    BY <1>1, <1>4, <2>2, <2>3, ConstantsKept
  <2>15. Recycled' = Recycled /\ AllocInput' = AllocInput
    BY <1>1, <1>4 DEF Recycled, StorageOf, AllocInput
  <2>16. ASSUME NEW t \in Tensors, mem'[t] = PlanOf[index], usage[t] = "input"
         PROVE  AllocInput /\ Remaining(t)' # {}
    <3>1. mem[t] = PlanOf[index] /\ t \notin Released(o)
      BY <2>3, <2>11, <2>16
    <3>2. AllocInput /\ Remaining(t) # {} /\ group[t] = index
      BY <1>1, <2>16, <3>1 DEF IInv, Returnable, Chunks
    <3>3. CASE t \notin ToSet(ops[o].in)
      BY <2>4, <3>2, <3>3
    <3>4. CASE t \in ToSet(ops[o].in)
      <4>1. CountDown(o)[t] # 0
        BY <2>16, <3>1, <3>2, <3>4 DEF Released
      <4>2. useCount'[t] # 0
        BY <1>4, <4>1
      <4>3. Readers(t) # {}
        BY <3>2 DEF Remaining
      <4>4. Cardinality(Remaining(t)') # 0
        BY <2>9, <2>16, <4>2, <4>3
      <4> QED
        BY <3>2, <4>4, FS_EmptySet
    <3> QED
      BY <3>3, <3>4
  <2>17. ASSUME NEW t \in Tensors, mem'[t] = PlanOf[index], usage[t] # "input" PROVE t \in Recycled
    BY <1>1, <2>3, <2>11, <2>17 DEF IInv, Returnable
  <2>18. Returnable'
    BY <1>1, <1>4, <2>15, <2>16, <2>17 DEF Returnable
  <2> QED
    BY <2>7, <2>10, <2>12, <2>13, <2>14, <2>18 DEF IInv
<1> QED
  BY <1>2, <1>3, <1>4, Zenon DEF ResizeCommand, Continue

LEMMA RecycleInv ==
  ASSUME IInv, Recycle PROVE IInv'
<1>1. /\ UNCHANGED <<setup, shape, cache, compute, command, group, useCount, index, at>>
      /\ ops' = ops /\ usage' = usage /\ Tensors' = Tensors
      /\ pc = "alloc" /\ Due = {} /\ pc' = "end" /\ Drop(Recycled)
  BY Stable DEF Recycle, structure, Continue
<1>2. Recycled \in SUBSET Tensors
  BY DEF Recycled
<1>3. /\ mem' \in [Tensors -> Places] /\ dangling' = FALSE
      /\ \A t \in Tensors : mem'[t] = IF t \in Recycled THEN "none" ELSE mem[t]
  BY <1>1, <1>2, DropFacts DEF IInv
<1>4. \A t \in Recycled : usage[t] # "constant"
  BY DEF Recycled, StorageOf
<1>5. PlanOf[index] # "none" /\ "main" # "none" /\ "backup" # "none"
  BY DEF PlanOf, IInv, TypeInv
<1>6. \A t \in Tensors : Remaining(t) = {}
  <2> SUFFICES ASSUME NEW t \in Tensors, NEW r \in Remaining(t) PROVE FALSE
    OBVIOUS
  <2>1. PICK p \in DOMAIN ops : r \in {p} \X DOMAIN ops[p].in
    BY DEF Remaining, Readers
  <2>2. r[1] = p /\ r[1] >= at /\ ~ IsConst(r[1]) /\ command[r[1]].made # <<>>
    BY <2>1 DEF Remaining, Readers
  <2>3. p \in Due
    BY <2>2 DEF Due
  <2> QED
    BY <1>1, <2>3
<1>7. PlanAllReturned'
  <2>1. \A t \in Tensors : mem[t] = PlanOf[index] => t \in Recycled
    BY <1>1, <1>6 DEF IInv, Returnable
  <2> QED
    BY <1>1, <1>3, <1>5, <2>1 DEF PlanAllReturned
<1>8. TypeInv'
  BY <1>1, <1>3 DEF IInv, TypeInv, Steps
<1>9. Chunks' /\ Counted' /\ Returnable'
  BY <1>1, <1>3, <1>5 DEF IInv, Chunks, Counted, Returnable
<1>10. Groups'
  BY <1>1 DEF IInv, Groups, TensorsOf
<1>11. Constants' /\ Passed'
  BY <1>1, <1>3, <1>4, ConstantsKept
<1> QED
  BY <1>7, <1>8, <1>9, <1>10, <1>11 DEF IInv

LEMMA EndAllocInv ==
  ASSUME IInv, Careful, EndAlloc PROVE IInv'
<1>1. /\ UNCHANGED <<setup, shape, cache, compute, command, mem, group, useCount, dangling>>
      /\ ops' = ops /\ usage' = usage /\ Tensors' = Tensors
      /\ pc = "end"
  BY Stable DEF EndAlloc, structure
<1>2. CASE AllocFails
  BY <1>1, <1>2, FailureInv DEF structure
<1>3. CASE pc' = "idle" /\ at' = 1 /\ index' = 0
  <2>1. \A t \in Tensors : mem[t] # "main" /\ mem[t] # "backup"
    <3>1. PlanOf[0] = "main" /\ PlanOf[1] = "backup"
      BY DEF PlanOf
    <3>2. \A t \in Tensors : mem[t] # PlanOf[index]
      BY <1>1 DEF IInv, PlanAllReturned
    <3>3. \A t \in Tensors : (mem[t] = "main" => index = 0) /\ (mem[t] = "backup" => index = 1)
      BY <1>1 DEF IInv, Chunks
    <3> QED
      BY <3>1, <3>2, <3>3
  <2>2. TypeInv'
    BY <1>1, <1>3 DEF IInv, TypeInv, Steps
  <2>3. Chunks' /\ PlanAllReturned' /\ Counted' /\ Returnable'
    BY <1>1, <1>3, <2>1 DEF Chunks, PlanAllReturned, Counted, Returnable
  <2>4. Groups'
    BY <1>1, <1>3 DEF IInv, Groups, TensorsOf
  <2>5. Constants' /\ Passed'
    BY <1>1, <1>3, ConstantsKept
  <2> QED
    BY <2>2, <2>3, <2>4, <2>5 DEF IInv
<1> QED
  BY <1>2, <1>3, Zenon DEF EndAlloc, Continue

LEMMA FixResizeCacheInv ==
  ASSUME IInv, Careful, FixResizeCache PROVE IInv'
<1>1. /\ UNCHANGED <<setup, shape, compute, dangling>>
      /\ ops' = ops /\ usage' = usage /\ Tensors' = Tensors
      /\ pc = "idle" /\ \A t \in Tensors : group[t] # 1
      /\ \A o \in DOMAIN ops : IsConst(o) \/ command[o].exe
      /\ pc' = "alloc" /\ at' = 1 /\ index' = 1
      /\ cache' = FixedCache /\ group' = FixedGroup /\ useCount' = CountReaders
      /\ mem' = Forget(Forget(mem, "main"), "backup")
  BY Stable DEF FixResizeCache, Continue, Careful, Careless
<1>2. command' = [o \in DOMAIN ops |-> IF o \in FixedOps THEN [command[o] EXCEPT !.group = 1]
                                                        ELSE command[o]]
  BY DEF FixResizeCache
<1>3. \A t \in Tensors : mem[t] \in {"none", "static"}
  BY <1>1, NoChunks DEF IInv
<1>4. mem' = mem
  BY <1>1, <1>3, ForgetNothing DEF IInv, TypeInv
<1>5. \A o \in DOMAIN ops : /\ command'[o] \in CommandType
                            /\ command'[o].made = command[o].made
                            /\ command'[o].group = IF o \in FixedOps THEN 1 ELSE command[o].group
  <2> TAKE o \in DOMAIN ops
  <2>1. command[o] \in CommandType
    BY DEF IInv, TypeInv
  <2>2. CASE o \in FixedOps
    <3>1. command'[o] = [made |-> command[o].made, exe |-> command[o].exe, group |-> 1]
      BY <1>2, <2>1, <2>2, Changed
    <3> QED
      BY <2>1, <2>2, <3>1, Changed DEF CommandType
  <2>3. CASE o \notin FixedOps
    BY <1>2, <2>1, <2>3
  <2> QED
    BY <2>2, <2>3
<1>6. \A o \in DOMAIN ops : /\ cache'[o] \in CacheType /\ cache'[o].seen = <<>>
  BY <1>1 DEF FixedCache, Closed, CacheType
<1>7. \A t : Readers(t)' = Readers(t)
  BY <1>1, <1>5 DEF Readers, IsConst
<1>8. Counted' /\ useCount' \in [Tensors -> Int]
  BY <1>1, <1>7, CountedFromStart DEF IInv
<1>9. TypeInv'
  <2>1. cache' \in [DOMAIN ops -> CacheType]
    BY <1>1, <1>6 DEF FixedCache
  <2>2. command' \in [DOMAIN ops -> CommandType]
    BY <1>2, <1>5
  <2>3. group' \in [Tensors -> {-1, 0, 1}]
    BY <1>1 DEF FixedGroup, IInv, TypeInv
  <2> QED
    BY <1>1, <1>4, <1>8, <2>1, <2>2, <2>3 DEF IInv, TypeInv, Steps
<1>10. Chunks' /\ PlanAllReturned' /\ Returnable'
  BY <1>1, <1>3, <1>4 DEF Chunks, PlanAllReturned, Returnable, PlanOf
<1>11. Groups'
  <2>1. ASSUME NEW o \in DOMAIN ops, command'[o].group = 1, NEW t \in TensorsOf(o)
        PROVE  group'[t] # 0
    <3>1. t \in Tensors
      BY SetupFacts DEF IInv, TypeInv
    <3>2. CASE o \in FixedOps
      BY <1>1, <3>1, <3>2 DEF FixedGroup, TensorsOf
    <3>3. CASE o \notin FixedOps
      BY <1>1, <1>5, <2>1, <3>1, <3>3 DEF FixedGroup, IInv, Groups
    <3> QED
      BY <3>2, <3>3
  <2>2. ASSUME NEW t \in Tensors, group'[t] = 1
        PROVE  \E o \in DOMAIN ops : command'[o].group = 1 /\ command'[o].made # <<>> /\ t \in TensorsOf(o)
    <3>1. PICK o \in FixedOps : t \in TensorsOf(o)
      BY <1>1, <2>2 DEF FixedGroup, TensorsOf
    <3>2. o \in DOMAIN ops /\ command[o].made # <<>>
      BY DEF FixedOps
    <3> QED
      BY <1>5, <3>1, <3>2
  <2> QED
    BY <1>1, <2>1, <2>2 DEF Groups, TensorsOf
<1>12. \A m : FoldedBefore(m)
  <2>1. FoldedBefore(Len(ops) + 1) /\ Len(ops) + 1 \in Nat /\ Len(ops) + 1 > Len(ops)
    BY <1>1, SetupFacts DEF IInv, TypeInv, Constants
  <2> QED
    BY <2>1, AllFolded DEF IInv
<1>13. (\A p : Folded(p)' = Folded(p)) /\ (\A m : FoldedBefore(m)' = FoldedBefore(m))
  BY <1>1, <1>4 DEF Folded, FoldedBefore, IsConst
<1>14. Constants'
  BY <1>1, <1>4, <1>12, <1>13 DEF IInv, Constants
<1>15. \A o \in DOMAIN ops : IsConst(o) => Folded(o)
  <2>1. FoldedBefore(Len(ops) + 1)
    BY <1>12
  <2> QED
    BY <2>1, SetupFacts DEF FoldedBefore, IInv, TypeInv
<1>16. Passed'
  BY <1>1, <1>6, <1>13, <1>15 DEF Passed, IsConst
<1> QED
  BY <1>8, <1>9, <1>10, <1>11, <1>14, <1>16 DEF IInv

------------------------------------------------------------------------------
LEMMA StepInv ==
  ASSUME Careful, IInv, [Next]_vars PROVE IInv'
<1>1. CASE UNCHANGED vars
  <2>1. /\ UNCHANGED <<setup, shape, cache, compute, command, mem, group, useCount, pc, at, index, dangling>>
        /\ ops' = ops /\ usage' = usage /\ Tensors' = Tensors
    BY <1>1, Stable DEF vars
  <2>2. TypeInv' /\ Chunks' /\ PlanAllReturned'
    BY <2>1 DEF IInv, TypeInv, Chunks, PlanAllReturned
  <2>3. (\A o : Folded(o)' = Folded(o)) /\ (\A m : FoldedBefore(m)' = FoldedBefore(m))
    BY <2>1 DEF Folded, FoldedBefore, IsConst
  <2>4. Constants' /\ Passed' /\ Groups'
    BY <2>1, <2>3 DEF IInv, Constants, Passed, Groups, IsConst, TensorsOf
  <2>5. /\ \A t : Remaining(t)' = Remaining(t) /\ Readers(t)' = Readers(t)
        /\ Recycled' = Recycled /\ AllocInput' = AllocInput
    BY <2>1 DEF Remaining, Readers, IsConst, Recycled, StorageOf, AllocInput
  <2>6. Counted' /\ Returnable'
    BY <2>1, <2>5 DEF IInv, Counted, Returnable
  <2> QED
    BY <2>2, <2>4, <2>6 DEF IInv
<1>2. CASE \E t \in Tensors, n \in Sizes : ResizeTensor(t, n)
  BY <1>2, ResizeTensorInv
<1>3. CASE OpenResizeCheck
  BY <1>3, OpenResizeCheckInv
<1>4. CASE Resize
  BY <1>4, ResizeInv
<1>5. CASE ComputeShape
  BY <1>5, ComputeShapeInv
<1>6. CASE FoldConstant
  BY <1>6, FoldConstantInv
<1>7. CASE Transform
  BY <1>7, TransformInv
<1>8. CASE CreateExecution
  BY <1>8, CreateExecutionInv
<1>9. CASE BeginAlloc
  BY <1>9, BeginAllocInv
<1>10. CASE Acquire
  BY <1>10, AcquireInv
<1>11. CASE ResizeCommand
  BY <1>11, ResizeCommandInv
<1>12. CASE Recycle
  BY <1>12, RecycleInv
<1>13. CASE EndAlloc
  BY <1>13, EndAllocInv
<1>14. CASE FixResizeCache
  BY <1>14, FixResizeCacheInv
<1> QED
  BY <1>1, <1>2, <1>3, <1>4, <1>5, <1>6, <1>7, <1>8, <1>9, <1>10, <1>11, <1>12, <1>13, <1>14
  DEF Next

LEMMA InvHolds == ASSUME Careful PROVE Spec => []IInv
<1>1. Init => IInv
  BY InitInv
<1>2. IInv /\ [Next]_vars => IInv'
  BY StepInv
<1> QED
  BY <1>1, <1>2, PTL DEF Spec

\* The MemNode of a chunk outlives the chunk: whatever resize fails, and whatever
\* check and fix come between, no tensor still holds a chunk of a plan that is
\* reset (CPUMemObj, DeferBufferAllocator::free and reset).
THEOREM ChunksOutlived == ASSUME Careful PROVE Spec => []FreesOwnChunks
<1>1. IInv => FreesOwnChunks
  BY DEF IInv, TypeInv, FreesOwnChunks
<1> QED
  BY <1>1, InvHolds, PTL

\* The use counts of _allocForTensor and the sweep of _recycleDynamicMemory give
\* back every chunk before DeferBufferAllocator::compute, for every graph: the
\* assertion mFreeList.size() == 1 there.
THEOREM PlanReturned == ASSUME Careful PROVE Spec => []PlanAllReturned
<1>1. IInv => PlanAllReturned
  BY DEF IInv
<1> QED
  BY <1>1, InvHolds, PTL

------------------------------------------------------------------------------
(***************************************************************************)
(* From its writer to its last reader a tensor has a place in memory that  *)
(* exists, in every session and through every resize, failure and fix that  *)
(* careful callers meet.                                                   *)
(***************************************************************************)

Sites == {"user", "none", "static", "main", "backup", "gone"}

\* The inputs of the caller never get memory of the session.
Callers ==
  /\ where \in [Tensors -> Sites]
  /\ \A t \in Tensors :
       /\ usage[t] = "input" /\ ~ setup.allocInput => group[t] = -1
       /\ group[t] = -1 => where[t] = "user" /\ mem[t] = "none" /\ usage[t] = "input"

\* The host pointer of a tensor with memory of its own leads there.
Addressed == \A t \in Tensors :
  /\ mem[t] = "static" => where[t] = "static" /\ StorageOf(t) # "dynamic" /\ usage[t] # "input"
  /\ mem[t] = "backup" => where[t] = "backup"

\* What a fix has put into the backup plan has an address there, or will get one
\* before the fix ends.
Backed == \A t \in Tensors : group[t] = 1 =>
  \/ where[t] \in {"backup", "static"}
  \/ index = 1 /\ pc = "alloc" /\ \E p \in Due : t \in TensorsOf(p)

Operators == {o \in DOMAIN ops : ~ IsConst(o)}
Made(o) == command[o].made # <<>>
\* A failure behind which the session stays: the resize cache is open.
Stuck == pc = "failed" /\ \E o \in DOMAIN ops : cache[o].can
Encoding == pc \in {"shape", "constant"}
\* Memory is only asked for when every operation has a command, for the cache
\* passes over none that has not been made.
MadeInv == \A o \in Operators :
  /\ cache[o].pass \/ cache[o].seen # <<>> =>
       Made(o) \/ Stuck \/ (Encoding /\ compute[o] /\ o < at /\ at <= Len(ops) + o)
  /\ Encoding /\ o < at /\ compute[o] /\ cache[o].pass => cache[o].can
  /\ Encoding /\ o < at /\ ~ compute[o] => Made(o)
  /\ pc = "shape" /\ at > Len(ops) + o => Made(o)
  /\ pc \in {"alloc", "end"} => Made(o)
  /\ pc = "idle" => Made(o) \/ \A p \in Operators : ~ command[p].exe

\* What was written in this plan and will be read is held.
HeldInv == pc = "alloc" => \A p \in Operators :
  p < at /\ group[ops[p].out] = index /\ Remaining(ops[p].out) # {} => mem[ops[p].out] # "none"

HInv == Callers /\ Addressed /\ Backed /\ MadeInv /\ HeldInv

------------------------------------------------------------------------------
LEMMA Produced ==
  ASSUME setup \in Setups, NEW o \in DOMAIN ops, NEW t \in ToSet(ops[o].in)
  PROVE  /\ t \in Tensors
         /\ usage[t] \in {"input", "constant"} \/ \E p \in DOMAIN ops : ops[p].out = t /\ p < o
<1>1. usage[t] \in {"input", "constant"} \/ \E p \in DOMAIN ops : ops[p].out = t
  <2>1. \A q \in DOMAIN ops : \A u \in ToSet(ops[q].in) :
          usage[u] \in {"input", "constant"} \/ \E p \in DOMAIN ops : ops[p].out = u
    BY SetupsAssumption DEF ops, usage
  <2> QED
    BY <2>1
<1>2. PICK i \in DOMAIN ops[o].in : ops[o].in[i] = t
  BY DEF ToSet
<1>3. t \in Tensors /\ \A p \in DOMAIN ops : ops[p].out = t => p < o
  BY <1>2, SetupFacts DEF TensorsOf
<1> QED
  BY <1>1, <1>3

LEMMA OperatorFacts ==
  ASSUME setup \in Setups
  PROVE  /\ Operators \subseteq DOMAIN ops /\ Operators # {}
         /\ \A o \in Operators : /\ o \in Nat \ {0} /\ o <= Len(ops) /\ ~ IsConst(o)
                                 /\ ops[o].out \in Tensors /\ usage[ops[o].out] # "constant"
                                 /\ usage[ops[o].out] # "input"
BY SetupFacts DEF Operators

LEMMA SitesKept ==
  ASSUME HInv, UNCHANGED <<setup, group, mem, where>>, pc # "alloc" \/ index # 1
  PROVE  Callers' /\ Addressed' /\ Backed'
<1>1. ops' = ops /\ usage' = usage /\ Tensors' = Tensors
  BY Stable
<1>2. Callers'
  BY <1>1 DEF HInv, Callers
<1>3. Addressed'
  BY <1>1 DEF HInv, Addressed, StorageOf
<1>4. Backed'
  BY <1>1 DEF HInv, Backed
<1> QED
  BY <1>2, <1>3, <1>4

LEMMA DropSites ==
  ASSUME TypeInv, HInv, UNCHANGED <<setup, group>>, NEW ts \in SUBSET Tensors, Drop(ts),
         \A t \in ts : mem[t] = "static" => group[t] # 1
  PROVE  /\ Callers' /\ Addressed'
         /\ \A t \in Tensors : group[t] = 1 => where'[t] = where[t]
<1>1. ops' = ops /\ usage' = usage /\ Tensors' = Tensors
  BY Stable
<1>2. \A t \in Tensors : mem'[t] = IF t \in ts THEN "none" ELSE mem[t]
  BY DropFacts
<1>3. /\ where' = [t \in Tensors |-> IF t \in ts /\ mem[t] = "static" THEN "none" ELSE where[t]]
      /\ \A t \in Tensors : where'[t] = IF t \in ts /\ mem[t] = "static" THEN "none" ELSE where[t]
  BY DEF Drop
<1>4. where' \in [Tensors -> Sites]
  BY <1>3 DEF HInv, Callers, Sites
<1>5. Callers'
  BY <1>1, <1>2, <1>3, <1>4 DEF HInv, Callers
<1>6. Addressed'
  BY <1>1, <1>2, <1>3 DEF HInv, Addressed, StorageOf
<1> QED
  BY <1>3, <1>5, <1>6

\* Forgetting the main plan touches no address of the backup plan.
LEMMA ForgetSites ==
  ASSUME HInv, UNCHANGED <<setup, group, mem>>, where' = Forget(where, "main"),
         pc # "alloc" \/ index # 1
  PROVE  Callers' /\ Addressed' /\ Backed'
<1>1. ops' = ops /\ usage' = usage /\ Tensors' = Tensors
  BY Stable
<1>2. /\ where' \in [Tensors -> Sites]
      /\ \A t \in Tensors : where[t] # "main" => where'[t] = where[t]
  BY DEF HInv, Callers, Sites, Forget
<1>3. Callers'
  BY <1>1, <1>2 DEF HInv, Callers
<1>4. Addressed'
  BY <1>1, <1>2 DEF HInv, Addressed, StorageOf
<1>5. Backed'
  BY <1>1, <1>2 DEF HInv, Backed
<1> QED
  BY <1>3, <1>4, <1>5

------------------------------------------------------------------------------
\* The steps.
LEMMA InitHeld ==
  ASSUME Init PROVE HInv
<1>1. TypeInv /\ pc = "idle" /\ index = 0 /\ setup \in Setups
  BY InitInv DEF Init, IInv
<1>2. /\ where \in [Tensors -> Sites]
      /\ \A t \in Tensors :
           /\ where[t] = "user" <=> usage[t] = "input" /\ ~ setup.allocInput
           /\ where[t] = "static" => usage[t] = "constant"
           /\ group[t] = IF where[t] = "user" THEN -1 ELSE 0
           /\ mem[t] = IF where[t] = "static" THEN "static" ELSE "none"
  BY DEF Init, Sites
<1>3. Callers
  BY <1>2 DEF Callers
<1>4. Addressed
  BY <1>2 DEF Addressed, StorageOf
<1>5. Backed
  BY <1>2 DEF Backed
<1>6. MadeInv
  <2>1. \A o \in DOMAIN ops : ~ cache[o].pass /\ cache[o].seen = <<>> /\ ~ command[o].exe
    BY DEF Init
  <2> QED
    BY <1>1, <2>1 DEF MadeInv, Operators, Encoding
<1>7. HeldInv
  BY <1>1 DEF HeldInv
<1> QED
  BY <1>3, <1>4, <1>5, <1>6, <1>7 DEF HInv

LEMMA ResizeTensorHeld ==
  ASSUME IInv, HInv, NEW t \in Tensors, NEW n \in Sizes, ResizeTensor(t, n) PROVE HInv'
<1>1. /\ UNCHANGED <<setup, cache, compute, command, mem, where, group, pc, at, index>>
      /\ ops' = ops /\ pc \in {"idle", "failed"}
  BY Stable DEF ResizeTensor, Quiet
<1>2. Callers' /\ Addressed' /\ Backed'
  BY <1>1, SitesKept
<1>3. Operators' = Operators
  BY <1>1 DEF Operators, IsConst
<1>4. MadeInv'
  BY <1>1, <1>3 DEF HInv, MadeInv, Made, Stuck, Encoding
<1>5. HeldInv'
  BY <1>1 DEF HeldInv
<1> QED
  BY <1>2, <1>4, <1>5 DEF HInv

LEMMA OpenResizeCheckHeld ==
  ASSUME IInv, HInv, OpenResizeCheck PROVE HInv'
<1>1. /\ UNCHANGED <<setup, compute, command, mem, where, group, pc, at, index>>
      /\ ops' = ops /\ pc \in {"idle", "failed"}
      /\ cache' = [o \in DOMAIN ops |-> [cache[o] EXCEPT !.can = TRUE]]
  BY Stable DEF OpenResizeCheck, Quiet, memory
<1>2. \A o \in DOMAIN ops : /\ cache'[o].can
                            /\ cache'[o].pass <=> cache[o].pass
                            /\ cache'[o].seen = cache[o].seen
  <2> TAKE o \in DOMAIN ops
  <2>1. cache[o] \in CacheType /\ cache'[o] = [cache[o] EXCEPT !.can = TRUE]
    BY <1>1 DEF IInv, TypeInv
  <2>2. cache'[o] = [can |-> TRUE, pass |-> cache[o].pass, seen |-> cache[o].seen]
    BY <2>1 DEF CacheType
  <2> QED
    BY <2>2
<1>3. Callers' /\ Addressed' /\ Backed'
  BY <1>1, SitesKept
<1>4. Operators' = Operators
  BY <1>1 DEF Operators, IsConst
<1>5. pc = "failed" => Stuck'
  BY <1>1, <1>2, SetupFacts DEF Stuck, IInv, TypeInv
<1>6. MadeInv'
  BY <1>1, <1>2, <1>4, <1>5 DEF HInv, MadeInv, Made, Stuck, Encoding, Operators
<1>7. HeldInv'
  BY <1>1 DEF HeldInv
<1> QED
  BY <1>3, <1>6, <1>7 DEF HInv

LEMMA ResizeHeld ==
  ASSUME IInv, Careful, HInv, Resize PROVE HInv'
<1>1. /\ UNCHANGED <<setup, cache, compute, command, group>>
      /\ ops' = ops /\ pc \in {"idle", "failed"} /\ pc' = "shape" /\ at' = 1
      /\ mem' = Forget(mem, "main") /\ where' = Forget(where, "main")
      /\ pc = "failed" => /\ \A t \in Tensors : mem[t] # "main"
                          /\ \A o \in DOMAIN ops : ~ cache[o].can
  BY Stable DEF Resize, Reset, Continue, structure, Quiet, Careful, Careless
<1>2. \A t \in Tensors : mem[t] # "main"
  BY <1>1 DEF IInv, Chunks
<1>3. mem' = mem
  BY <1>1, <1>2, ForgetNothing DEF IInv, TypeInv
<1>4. Callers' /\ Addressed' /\ Backed'
  BY <1>1, <1>3, ForgetSites
<1>5. Operators' = Operators
  BY <1>1 DEF Operators, IsConst
<1>6. ~ Stuck /\ ~ Encoding
  BY <1>1 DEF Stuck, Encoding
<1>7. \A o \in Operators : o \in Nat \ {0} /\ Len(ops) \in Nat
  BY OperatorFacts, SetupFacts DEF IInv, TypeInv
<1>8. \A o \in Operators : cache[o].pass \/ cache[o].seen # <<>> => Made(o)
  BY <1>6 DEF HInv, MadeInv
<1>9. MadeInv'
  BY <1>1, <1>5, <1>7, <1>8 DEF MadeInv, Made
<1>10. HeldInv'
  BY <1>1 DEF HeldInv
<1> QED
  BY <1>4, <1>9, <1>10 DEF HInv

LEMMA ComputeShapeHeld ==
  ASSUME IInv, HInv, ComputeShape PROVE HInv'
<1>0. PICK o \in DOMAIN ops : o = at
  BY SetupFacts DEF ComputeShape, IInv, TypeInv
<1>1. /\ UNCHANGED <<setup, command, group, index>>
      /\ ops' = ops /\ usage' = usage /\ Tensors' = Tensors
      /\ pc = "shape" /\ Drop(Cleared(o)) /\ o = at
  BY <1>0, Stable DEF ComputeShape
<1>2. Cleared(o) \in SUBSET Tensors /\ \A t \in Cleared(o) : group[t] = 0
  BY <1>1, SetupFacts DEF Cleared, IInv, TypeInv
<1>3. \/ /\ Match(o) /\ pc' = "shape" /\ at' = o + 1
         /\ compute' = [compute EXCEPT ![o] = FALSE] /\ cache' = cache
      \/ /\ ~ Match(o) /\ pc' \in {"constant", "shape"} /\ at' = o + 1
         /\ cache' = [cache EXCEPT ![o] = Inserted(o)]
         /\ compute' = [compute EXCEPT ![o] = TRUE]
      \/ /\ ~ Match(o) /\ pc' = "failed" /\ at' = at
         /\ cache' = [cache EXCEPT ![o] = Compared(o)] /\ UNCHANGED compute
  BY <1>1 DEF ComputeShape, Continue, Fail
<1>4. Callers' /\ Addressed' /\ \A t \in Tensors : group[t] = 1 => where'[t] = where[t]
  BY <1>1, <1>2, DropSites DEF IInv
<1>5. Backed'
  BY <1>1, <1>3, <1>4 DEF HInv, Backed
<1>6. cache[o] \in CacheType /\ InSizes(o, shape) # <<>>
  BY <1>1, SizesKnown DEF IInv, TypeInv
<1>7. \A p \in Operators : /\ p \in DOMAIN ops /\ p \in Nat \ {0} /\ p <= Len(ops) /\ Len(ops) \in Nat
                           /\ cache[p].seen # <<>> => cache[p].can
  BY OperatorFacts, SetupFacts DEF IInv, TypeInv, Passed
<1>8. o \in Nat \ {0} /\ o <= Len(ops)
  BY SetupFacts DEF IInv, TypeInv
<1>9. Operators' = Operators /\ \A p : Made(p)' = Made(p)
  BY <1>1 DEF Operators, IsConst, Made
<1>10. HeldInv'
  BY <1>3 DEF HeldInv
<1>11. \A p \in DOMAIN ops : p # o => cache'[p] = cache[p] /\ (compute'[p] <=> compute[p])
  BY <1>3 DEF IInv, TypeInv
<1>12. /\ compute \in [DOMAIN ops -> BOOLEAN] /\ cache \in [DOMAIN ops -> CacheType]
  BY DEF IInv, TypeInv
<1>13. Match(o) => cache[o].pass \/ cache[o].seen # <<>>
  BY <1>6 DEF Match
<1>14. /\ ~ Match(o) /\ Inserted(o).pass => Inserted(o).can
       /\ Compared(o).pass \/ Compared(o).seen # <<>> => Compared(o) = cache[o]
  <2>1. Closed(o, FALSE).pass = FALSE /\ Closed(o, FALSE).can = FALSE /\ Closed(o, FALSE).seen = <<>>
    BY DEF Closed
  <2>2. Compared(o) = cache[o] \/ Compared(o) = Closed(o, FALSE)
    BY DEF Compared
  <2>3. CASE Compared(o) = Closed(o, FALSE)
    BY <2>1, <2>3 DEF Inserted
  <2>4. CASE Compared(o) = cache[o] /\ cache[o].can
    <3>1. Inserted(o) = [can |-> cache[o].can, pass |-> cache[o].pass, seen |-> InSizes(o, shape)]
      BY <1>6, <2>4 DEF Inserted, CacheType
    <3> QED
      BY <2>4, <3>1
  <2>5. CASE Compared(o) = cache[o] /\ ~ cache[o].can
    BY <2>5 DEF Inserted, Match
  <2> QED
    BY <2>2, <2>3, <2>4, <2>5
<1>15. \A p \in Operators : p >= o => (cache[p].pass \/ cache[p].seen # <<>> => Made(p))
  BY <1>1, <1>7, <1>8 DEF HInv, MadeInv, Stuck, Encoding
<1>16. ASSUME NEW p \in Operators
       PROVE  /\ cache'[p].pass \/ cache'[p].seen # <<>> =>
                   Made(p) \/ Stuck' \/ (Encoding' /\ compute'[p] /\ p < at' /\ at' <= Len(ops) + p)
              /\ Encoding' /\ p < at' /\ compute'[p] /\ cache'[p].pass => cache'[p].can
              /\ Encoding' /\ p < at' /\ ~ compute'[p] => Made(p)
  <2>1. CASE p = o
    <3>1. CASE Match(o) /\ pc' = "shape" /\ at' = o + 1 /\ compute' = [compute EXCEPT ![o] = FALSE]
               /\ cache' = cache
      <4>1. ~ compute'[p] /\ Made(p)
        BY <1>12, <1>13, <1>15, <1>8, <2>1, <3>1
      <4> QED
        BY <4>1
    <3>2. CASE /\ ~ Match(o) /\ pc' \in {"constant", "shape"} /\ at' = o + 1
               /\ cache' = [cache EXCEPT ![o] = Inserted(o)]
               /\ compute' = [compute EXCEPT ![o] = TRUE]
      <4>1. compute'[p] /\ cache'[p] = Inserted(o)
        BY <1>12, <2>1, <3>2
      <4>2. Encoding' /\ p < at' /\ at' <= Len(ops) + p
        BY <1>7, <1>8, <2>1, <3>2 DEF Encoding
      <4> QED
        BY <1>14, <2>1, <3>2, <4>1, <4>2
    <3>3. CASE /\ ~ Match(o) /\ pc' = "failed" /\ at' = at
               /\ cache' = [cache EXCEPT ![o] = Compared(o)] /\ UNCHANGED compute
      <4>1. cache'[p] = Compared(o) /\ ~ Encoding'
        BY <1>12, <2>1, <3>3 DEF Encoding
      <4> QED
        BY <1>8, <1>14, <1>15, <2>1, <4>1
    <3> QED
      BY <1>3, <3>1, <3>2, <3>3
  <2>2. CASE p # o
    <3>1. cache'[p] = cache[p] /\ (compute'[p] <=> compute[p])
      BY <1>7, <1>11, <2>2
    <3>2. CASE p < o
      <4>1. /\ cache[p].pass \/ cache[p].seen # <<>> =>
                 Made(p) \/ (compute[p] /\ p < at /\ at <= Len(ops) + p)
            /\ compute[p] /\ cache[p].pass => cache[p].can
            /\ ~ compute[p] => Made(p)
        BY <1>1, <3>2 DEF HInv, MadeInv, Stuck, Encoding
      <4>2. CASE pc' = "failed"
        <5>1. cache'[p].pass \/ cache'[p].seen # <<>> => Made(p) \/ Stuck'
          BY <1>1, <1>7, <3>1, <4>1, <4>2 DEF Stuck
        <5> QED
          BY <4>2, <5>1 DEF Encoding
      <4>3. CASE pc' \in {"shape", "constant"} /\ at' = o + 1
        <5>1. p < at' /\ at' <= Len(ops) + p
          BY <1>7, <1>8, <3>2, <4>3
        <5> QED
          BY <3>1, <4>1, <4>3, <5>1 DEF Encoding
      <4> QED
        BY <1>3, <4>2, <4>3
    <3>3. CASE p > o
      <4>1. ~ (p < at')
        BY <1>1, <1>3, <1>7, <1>8, <3>3
      <4> QED
        BY <1>8, <1>7, <1>15, <3>1, <3>3, <4>1
    <3> QED
      BY <1>7, <1>8, <2>2, <3>2, <3>3
  <2> QED
    BY <2>1, <2>2
<1>17. MadeInv'
  <2>1. \A p \in Operators : pc' = "shape" => ~ (at' > Len(ops) + p)
    BY <1>3, <1>7, <1>8
  <2> QED
    BY <1>1, <1>3, <1>9, <1>16, <2>1 DEF MadeInv
<1> QED
  BY <1>4, <1>5, <1>10, <1>17 DEF HInv

\* What gets memory has its address, in the plan that is made or in static memory.
LEMMA AcquiredSites ==
  ASSUME TypeInv, HInv, UNCHANGED <<setup, group>>, NEW t \in Tensors, NEW p, Acquired(t, p),
         group[t] # -1, p \in {"static", "main", "backup"},
         p = "static" => StorageOf(t) # "dynamic" /\ usage[t] # "input"
  PROVE  /\ Callers' /\ Addressed' /\ where'[t] = p /\ mem'[t] = p
         /\ \A u \in Tensors : u # t => where'[u] = where[u] /\ mem'[u] = mem[u]
<1>1. ops' = ops /\ usage' = usage /\ Tensors' = Tensors
  BY Stable
<1>2. /\ where \in [Tensors -> Sites] /\ mem \in [Tensors -> Places]
      /\ where' = [where EXCEPT ![t] = p] /\ mem' = [mem EXCEPT ![t] = p]
  BY DEF HInv, Callers, TypeInv, Acquired
<1>3. where' \in [Tensors -> Sites]
  BY <1>2 DEF Sites
<1>4. /\ where'[t] = p /\ mem'[t] = p
      /\ \A u \in Tensors : u # t => where'[u] = where[u] /\ mem'[u] = mem[u]
  BY <1>2
<1>5. Callers'
  BY <1>1, <1>3, <1>4 DEF HInv, Callers
<1>6. Addressed'
  BY <1>1, <1>4 DEF HInv, Addressed, StorageOf
<1> QED
  BY <1>4, <1>5, <1>6

LEMMA FoldConstantHeld ==
  ASSUME IInv, HInv, FoldConstant PROVE HInv'
<1>0. /\ pc = "constant" /\ at - 1 \in DOMAIN ops
  BY DEF FoldConstant, IInv, Constants
<1>1. PICK t \in Tensors : t = ops[at - 1].out
  BY <1>0, SetupFacts DEF IInv, TypeInv
<1>2. /\ UNCHANGED <<setup, cache, compute, command, group, index, at>>
      /\ ops' = ops /\ usage' = usage /\ Tensors' = Tensors
      /\ \/ Acquired(t, "static") /\ pc' \in {"shape", "failed"}
         \/ UNCHANGED memory /\ pc' = "failed"
  BY <1>1, Stable DEF FoldConstant, Continue, Fail, structure
<1>3. Operators' = Operators /\ \A p : Made(p)' = Made(p)
  BY <1>2 DEF Operators, IsConst, Made
<1>4. \A p \in Operators : /\ p \in DOMAIN ops /\ p \in Nat \ {0} /\ Len(ops) \in Nat
                           /\ cache[p].seen # <<>> => cache[p].can
                           /\ at - 1 <= Len(ops) /\ at \in Nat
  BY <1>0, OperatorFacts, SetupFacts DEF IInv, TypeInv, Passed
<1>5. MadeInv'
  <2>1. ASSUME NEW p \in Operators
        PROVE  /\ cache[p].pass \/ cache[p].seen # <<>> =>
                    Made(p) \/ Stuck' \/ (Encoding' /\ compute[p] /\ p < at /\ at <= Len(ops) + p)
               /\ p < at /\ compute[p] /\ cache[p].pass => cache[p].can
               /\ p < at /\ ~ compute[p] => Made(p)
    <3>1. /\ cache[p].pass \/ cache[p].seen # <<>> =>
               Made(p) \/ (compute[p] /\ p < at /\ at <= Len(ops) + p)
          /\ p < at /\ compute[p] /\ cache[p].pass => cache[p].can
          /\ p < at /\ ~ compute[p] => Made(p)
      BY <1>0 DEF HInv, MadeInv, Stuck, Encoding
    <3>2. CASE pc' = "shape"
      BY <3>1, <3>2 DEF Encoding
    <3>3. CASE pc' = "failed"
      BY <1>2, <1>4, <3>1, <3>3 DEF Stuck
    <3> QED
      BY <1>2, <3>1, <3>2, <3>3
  <2>2. \A p \in Operators : ~ (at > Len(ops) + p)
    BY <1>4
  <2> QED
    BY <1>2, <1>3, <2>1, <2>2 DEF MadeInv
<1>6. Callers' /\ Addressed' /\ Backed'
  <2>1. CASE UNCHANGED memory
    BY <1>0, <1>2, <2>1, SitesKept DEF memory
  <2>2. CASE Acquired(t, "static")
    <3>1. usage[t] = "constant"
      <4>1. PICK o \in DOMAIN ops : o = at - 1
        BY <1>0
      <4>2. IsConst(o)
        BY <1>0, <4>1 DEF IInv, Constants
      <4> QED
        BY <1>1, <4>1, <4>2, SetupFacts DEF IInv, TypeInv
    <3>2. StorageOf(t) # "dynamic" /\ usage[t] # "input" /\ group[t] # -1
      BY <3>1 DEF StorageOf, HInv, Callers
    <3>3. /\ Callers' /\ Addressed' /\ where'[t] = "static"
          /\ \A u \in Tensors : u # t => where'[u] = where[u]
      BY <1>2, <2>2, <3>2, AcquiredSites DEF IInv
    <3>4. Backed'
      BY <1>0, <1>2, <3>3 DEF HInv, Backed
    <3> QED
      BY <3>3, <3>4
  <2> QED
    BY <1>2, <2>1, <2>2
<1>7. HeldInv'
  BY <1>2 DEF HeldInv
<1> QED
  BY <1>5, <1>6, <1>7 DEF HInv

LEMMA TransformHeld ==
  ASSUME IInv, HInv, Transform PROVE HInv'
<1>1. PICK o \in DOMAIN ops : o = at - Len(ops) /\ pc = "shape"
  BY DEF Transform
<1>2. /\ UNCHANGED <<setup, cache, compute, mem, where, group, index>> /\ ops' = ops
      /\ \/ /\ at' = at + 1 /\ pc' = "shape" /\ command' = command
            /\ IsConst(o) \/ ~ compute[o]
         \/ /\ at' = at + 1 /\ pc' = "shape" /\ compute[o]
            /\ command' = [command EXCEPT ![o] = [made |-> InSizes(o, shape), exe |-> FALSE, group |-> 0]]
         \/ /\ at' = at /\ pc' = "failed" /\ compute[o]
            /\ command' = [command EXCEPT ![o].made = <<>>]
  BY <1>1, Stable DEF Transform, Continue, Fail, memory
<1>3. Callers' /\ Addressed' /\ Backed' /\ HeldInv'
  BY <1>1, <1>2, SitesKept DEF HeldInv
<1>4. Operators' = Operators
  BY <1>2 DEF Operators, IsConst
<1>5. \A p \in Operators : /\ p \in DOMAIN ops /\ p \in Nat \ {0} /\ p <= Len(ops) /\ Len(ops) \in Nat
                           /\ cache[p].seen # <<>> => cache[p].can
                           /\ ~ IsConst(p) /\ at \in Nat
  BY OperatorFacts, SetupFacts DEF IInv, TypeInv, Passed
<1>6. o \in Nat \ {0} /\ at = Len(ops) + o /\ at \in Nat /\ Len(ops) \in Nat
  <2>1. DOMAIN ops = 1 .. Len(ops) /\ Len(ops) \in Nat /\ at \in Nat
    BY SetupFacts DEF IInv, TypeInv
  <2>2. o \in 1 .. Len(ops)
    BY <2>1
  <2>3. o = at - Len(ops)
    BY <1>1
  <2>4. o \in Nat /\ o # 0
    BY <2>1, <2>2
  <2>5. at = Len(ops) + o
    <3>1. PICK n \in Nat : n = Len(ops)
      BY <2>1
    <3>2. at \in Nat /\ o \in Nat /\ n \in Nat
      BY <2>1, <2>4, <3>1
    <3>3. o = at - n
      BY <2>3, <3>1
    <3>4. at = n + o
      BY <3>2, <3>3
    <3> QED
      BY <3>1, <3>4
  <2>6. o \in Nat \ {0}
    BY <2>4
  <2> QED
    BY <2>1, <2>5, <2>6
<1>7. \A p \in Operators :
        /\ p < at
        /\ cache[p].pass \/ cache[p].seen # <<>> => Made(p) \/ (compute[p] /\ p >= o)
        /\ compute[p] /\ cache[p].pass => cache[p].can
        /\ ~ compute[p] => Made(p)
        /\ p < o => Made(p)
  <2> SUFFICES ASSUME NEW p \in Operators
               PROVE  /\ p < at
                      /\ cache[p].pass \/ cache[p].seen # <<>> => Made(p) \/ (compute[p] /\ p >= o)
                      /\ compute[p] /\ cache[p].pass => cache[p].can
                      /\ ~ compute[p] => Made(p)
                      /\ p < o => Made(p)
    OBVIOUS
  <2>1. p < at /\ (at > Len(ops) + p <=> p < o) /\ (at <= Len(ops) + p <=> p >= o)
    BY <1>5, <1>6
  <2> QED
    BY <1>1, <2>1 DEF HInv, MadeInv, Stuck, Encoding
<1>8. MadeInv'
  <2>1. \A p \in DOMAIN ops : p # o => command'[p] = command[p]
    BY <1>2 DEF IInv, TypeInv
  <2>2. CASE pc' = "shape" /\ at' = at + 1
    <3>1. ASSUME NEW p \in Operators, p <= o PROVE Made(p)'
      <4>1. CASE p < o
        BY <1>5, <1>7, <2>1, <4>1 DEF Made
      <4>2. CASE p = o /\ command' = command /\ (IsConst(o) \/ ~ compute[o])
        <5>1. ~ IsConst(p) /\ (~ compute[p] => Made(p))
          BY <1>5, <1>7
        <5> QED
          BY <4>2, <5>1 DEF Made
      <4>3. CASE p = o /\ command' = [command EXCEPT ![o] = [made |-> InSizes(o, shape), exe |-> FALSE, group |-> 0]]
        <5>1. command'[o].made = InSizes(o, shape)
          BY <4>3 DEF IInv, TypeInv
        <5> QED
          BY <4>3, <5>1, SizesKnown DEF IInv, Made
      <4> QED
        BY <1>2, <1>5, <1>6, <2>2, <3>1, <4>1, <4>2, <4>3
    <3>2. ASSUME NEW p \in Operators, p > o PROVE Made(p)' <=> Made(p)
      BY <1>5, <1>6, <2>1, <3>2 DEF Made
    <3>3. ASSUME NEW p \in Operators
          PROVE  /\ cache[p].pass \/ cache[p].seen # <<>> =>
                      Made(p)' \/ (compute[p] /\ p < at' /\ at' <= Len(ops) + p)
                 /\ ~ compute[p] => Made(p)'
                 /\ at' > Len(ops) + p => Made(p)'
      <4>1. CASE p <= o
        BY <3>1, <4>1
      <4>2. CASE p > o
        <5>1. p < at' /\ at' <= Len(ops) + p /\ ~ (at' > Len(ops) + p)
          <6>1. PICK n \in Nat : n = Len(ops)
            BY <1>6
          <6>2. p \in Nat /\ p <= n /\ p > o
            BY <1>5, <4>2, <6>1
          <6>3. o \in Nat /\ at' = n + o + 1
            BY <1>6, <2>2, <6>1
          <6>4. p < at' /\ at' <= n + p /\ ~ (at' > n + p)
            BY <6>2, <6>3
          <6> QED
            BY <6>1, <6>4
        <5>2. /\ cache[p].pass \/ cache[p].seen # <<>> => Made(p) \/ compute[p]
              /\ ~ compute[p] => Made(p)
          BY <1>7
        <5>3. Made(p)' <=> Made(p)
          BY <3>2, <4>2
        <5> QED
          BY <5>1, <5>2, <5>3, Zenon
      <4> QED
        BY <1>5, <1>6, <4>1, <4>2
    <3> QED
      BY <1>2, <1>4, <1>7, <2>2, <3>3 DEF MadeInv, Encoding
  <2>3. CASE /\ at' = at /\ pc' = "failed" /\ compute[o]
    <3>1. ASSUME NEW p \in Operators, cache[p].pass \/ cache[p].seen # <<>> PROVE Made(p)' \/ Stuck'
      <4>1. CASE compute[p]
        BY <1>2, <1>5, <1>7, <2>3, <3>1, <4>1 DEF Stuck
      <4>2. CASE ~ compute[p]
        <5>1. p # o /\ Made(p)
          BY <1>7, <2>3, <4>2
        <5> QED
          BY <1>5, <2>1, <5>1 DEF Made
      <4> QED
        BY <4>1, <4>2
    <3> QED
      BY <1>2, <1>4, <2>3, <3>1 DEF MadeInv, Encoding
  <2> QED
    BY <1>2, <2>2, <2>3
<1> QED
  BY <1>3, <1>8 DEF HInv

\* Where every operation has a command the other parts of MadeInv are about
\* encoding only.
LEMMA AllMade ==
  ASSUME \A o \in Operators : Made(o), UNCHANGED setup,
         \A o \in DOMAIN ops : command'[o].made = command[o].made,
         ~ Encoding'
  PROVE  MadeInv'
<1>1. Operators' = Operators /\ \A o \in Operators : o \in DOMAIN ops
  BY Stable DEF Operators, IsConst
<1>2. \A o \in Operators : Made(o)'
  BY <1>1 DEF Made
<1> QED
  BY <1>1, <1>2 DEF MadeInv

LEMMA CreateExecutionHeld ==
  ASSUME IInv, HInv, CreateExecution PROVE HInv'
<1>1. PICK o \in DOMAIN ops : o = at - 2 * Len(ops) /\ pc = "shape"
  BY DEF CreateExecution
<1>2. /\ UNCHANGED <<setup, cache, compute, mem, where, group, index>> /\ ops' = ops
      /\ \/ at' = at + 1 /\ pc' = "shape"
         \/ at' = at /\ pc' = "failed"
      /\ command' = command \/ command' = [command EXCEPT ![o].exe = TRUE]
  BY <1>1, Stable DEF CreateExecution, Continue, Fail, memory
<1>3. Callers' /\ Addressed' /\ Backed' /\ HeldInv'
  BY <1>1, <1>2, SitesKept DEF HeldInv
<1>4. Operators' = Operators
  BY <1>2 DEF Operators, IsConst
<1>5. \A p \in Operators : p \in DOMAIN ops /\ p < at /\ at > Len(ops) + p
  BY <1>1, OperatorFacts, SetupFacts DEF IInv, TypeInv
<1>6. \A p \in Operators : Made(p) /\ (compute[p] /\ cache[p].pass => cache[p].can)
  BY <1>1, <1>5 DEF HInv, MadeInv, Encoding
<1>7. \A p \in DOMAIN ops : command'[p].made = command[p].made
  <2> TAKE p \in DOMAIN ops
  <2>1. command \in [DOMAIN ops -> CommandType] /\ command[o] \in CommandType
    BY DEF IInv, TypeInv
  <2>2. [command[o] EXCEPT !.exe = TRUE].made = command[o].made
    BY <2>1, Changed
  <2> QED
    BY <1>2, <2>1, <2>2
<1>8. MadeInv'
  BY <1>2, <1>4, <1>5, <1>6, <1>7 DEF MadeInv, Made
<1> QED
  BY <1>3, <1>8 DEF HInv

LEMMA BeginAllocHeld ==
  ASSUME IInv, HInv, BeginAlloc PROVE HInv'
<1>1. /\ UNCHANGED <<setup, cache, compute, command, group, index>> /\ ops' = ops
      /\ pc = "shape" /\ at > 3 * Len(ops) /\ pc' = "alloc" /\ at' = 1
      /\ mem' = Forget(mem, "main") /\ where' = Forget(where, "main")
  BY Stable DEF BeginAlloc, Reset, Continue, structure
<1>2. \A t \in Tensors : mem[t] \in {"none", "static"}
  BY <1>1, NoChunks DEF IInv
<1>3. mem' = mem
  BY <1>1, <1>2, ForgetNothing DEF IInv, TypeInv
<1>4. Callers' /\ Addressed' /\ Backed'
  BY <1>1, <1>3, ForgetSites
<1>5. \A p \in Operators : p \in DOMAIN ops /\ p \in Nat \ {0} /\ at > Len(ops) + p
  BY <1>1, OperatorFacts, SetupFacts DEF IInv, TypeInv
<1>6. \A p \in Operators : Made(p)
  BY <1>1, <1>5 DEF HInv, MadeInv
<1>7. MadeInv'
  BY <1>1, <1>6, AllMade DEF Encoding
<1>8. HeldInv'
  <2>1. Operators' = Operators
    BY <1>1 DEF Operators, IsConst
  <2> QED
    BY <1>1, <1>5, <2>1 DEF HeldInv
<1> QED
  BY <1>4, <1>7, <1>8 DEF HInv

LEMMA FailureHeld ==
  ASSUME IInv, HInv, Careful, pc \in {"alloc", "end"}, AllocFails,
         UNCHANGED <<setup, structure, group, mem, where>>
  PROVE  HInv'
<1>1. index = 0 /\ pc' = "failed" /\ UNCHANGED command
  BY DEF AllocFails, Careful, Careless, structure, IInv, TypeInv
<1>2. Callers' /\ Addressed' /\ Backed'
  BY <1>1, SitesKept
<1>3. MadeInv'
  <2>1. \A o \in Operators : Made(o)
    BY DEF HInv, MadeInv
  <2> QED
    BY <1>1, <2>1, AllMade DEF Encoding
<1>4. HeldInv'
  BY <1>1 DEF HeldInv
<1> QED
  BY <1>2, <1>3, <1>4 DEF HInv

\* When nothing is lacking, the tensors a command asks for have memory.
LEMMA AskedHeld ==
  ASSUME TypeInv, Due # {}, Lacking = {}, NEW t, group[t] = index,
         t = ops[Current].out \/ (AllocInput /\ t \in ToSet(ops[Current].in))
  PROVE  mem[t] # "none"
<1> DEFINE in == IF AllocInput THEN ops[Current].in ELSE <<>>
           out == ops[Current].out
<1>1. Current \in DOMAIN ops /\ ops[Current].in \in Seq(Tensors) /\ out \in Tensors
  BY DueFacts, SetupFacts DEF TypeInv
<1>2. in \in Seq(Tensors) /\ Len(in) \in Nat /\ DOMAIN in = 1 .. Len(in)
  BY <1>1, EmptySeq, LenProperties
<1>3. /\ DOMAIN Asked = 1 .. Len(in) + 1 /\ Asked[Len(in) + 1] = out
      /\ \A i \in 1 .. Len(in) : Asked[i] = in[i]
  BY <1>1, <1>2 DEF Asked
<1>4. \E i \in DOMAIN Asked : Asked[i] = t
  <2>1. CASE t = out
    BY <1>2, <1>3, <2>1
  <2>2. CASE AllocInput /\ t \in ToSet(ops[Current].in)
    <3>1. PICK i \in DOMAIN in : in[i] = t
      BY <2>2 DEF ToSet
    <3>2. i \in 1 .. Len(in) /\ i \in 1 .. Len(in) + 1
      BY <1>2, <3>1
    <3> QED
      BY <1>3, <3>1, <3>2
  <2> QED
    BY <2>1, <2>2
<1> QED
  BY <1>4 DEF Lacking

LEMMA AcquireHeld ==
  ASSUME IInv, HInv, Careful, Acquire PROVE HInv'
<1>1. /\ UNCHANGED <<setup, structure, group>>
      /\ UNCHANGED <<cache, compute, command>>
      /\ ops' = ops /\ usage' = usage /\ Tensors' = Tensors
      /\ pc = "alloc" /\ Due # {} /\ Lacking # {}
  BY Stable DEF Acquire, structure
<1> DEFINE place == IF StorageOf(Wanted) = "static" THEN "static" ELSE PlanOf[index]
<1>2. CASE AllocFails /\ UNCHANGED memory
  BY <1>1, <1>2, FailureHeld DEF memory
<1>3. CASE Acquired(Wanted, place) /\ UNCHANGED <<pc, at, index>>
  <2>1. PICK t \in Tensors : t = Wanted
    BY <1>1, LackingFacts DEF IInv
  <2>2. PICK p : p = place
    OBVIOUS
  <2>3. group[t] = index /\ mem[t] = "none" /\ index \in {0, 1}
    BY <1>1, <2>1, LackingFacts DEF IInv, TypeInv
  <2>4. /\ p \in {"static", "main", "backup"}
        /\ p = "static" => StorageOf(t) # "dynamic" /\ usage[t] # "input"
        /\ index = 1 => p \in {"static", "backup"}
    <3>1. p = "static" => StorageOf(t) = "static"
      BY <2>1, <2>2, <2>3 DEF PlanOf
    <3>2. StorageOf(t) = "static" => usage[t] = "output"
      BY DEF StorageOf
    <3>3. p \in {"static", PlanOf[index]} /\ PlanOf[0] = "main" /\ PlanOf[1] = "backup"
      BY <2>2 DEF PlanOf
    <3> QED
      BY <2>3, <3>1, <3>2, <3>3
  <2>5. /\ Callers' /\ Addressed' /\ where'[t] = p /\ mem'[t] = p
        /\ \A u \in Tensors : u # t => where'[u] = where[u] /\ mem'[u] = mem[u]
    BY <1>1, <1>3, <2>1, <2>2, <2>3, <2>4, AcquiredSites DEF IInv
  <2>6. Due' = Due /\ (\A o : TensorsOf(o)' = TensorsOf(o)) /\ Operators' = Operators
        /\ \A u : Remaining(u)' = Remaining(u)
    BY <1>1, <1>3 DEF Due, TensorsOf, Operators, Remaining, Readers, IsConst
  <2>7. Backed'
    <3> SUFFICES ASSUME NEW u \in Tensors, group[u] = 1
                 PROVE  \/ where'[u] \in {"backup", "static"}
                        \/ index' = 1 /\ pc' = "alloc" /\ \E q \in Due' : u \in TensorsOf(q)'
      BY <1>1 DEF Backed
    <3>1. CASE u = t
      BY <2>3, <2>4, <2>5, <3>1
    <3>2. CASE u # t
      BY <1>3, <2>5, <2>6, <3>2 DEF HInv, Backed
    <3> QED
      BY <3>1, <3>2
  <2>8. MadeInv'
    <3>1. \A o \in Operators : Made(o)
      BY <1>1 DEF HInv, MadeInv
    <3> QED
      BY <1>1, <1>3, <3>1, AllMade DEF Encoding
  <2>9. HeldInv'
    <3>1. \A u \in Tensors : mem[u] # "none" => mem'[u] # "none"
      BY <2>3, <2>5
    <3>2. \A o \in Operators : ops[o].out \in Tensors
      BY OperatorFacts DEF IInv, TypeInv
    <3> QED
      BY <1>1, <1>3, <2>6, <3>1, <3>2 DEF HInv, HeldInv
  <2> QED
    BY <2>5, <2>7, <2>8, <2>9 DEF HInv
<1> QED
  BY <1>2, <1>3 DEF Acquire, Wanted

\* A tensor that a later command reads is not given back: its use count is the
\* number of reads that are left.
LEMMA ResizeCommandHeld ==
  ASSUME IInv, IInv', HInv, Careful, ResizeCommand PROVE HInv'
<1>1. /\ UNCHANGED <<setup, structure, group>>
      /\ UNCHANGED <<cache, compute, command>>
      /\ ops' = ops /\ usage' = usage /\ Tensors' = Tensors
      /\ pc = "alloc" /\ Due # {} /\ Lacking = {}
  BY Stable DEF ResizeCommand, structure
<1>2. PICK o : o = Current
  OBVIOUS
<1>3. CASE AllocFails /\ UNCHANGED memory
  BY <1>1, <1>3, FailureHeld DEF memory
<1>5. TypeInv
  BY DEF IInv
<1>6. \A t : group[t] = index /\ (t = ops[Current].out \/ (AllocInput /\ t \in ToSet(ops[Current].in)))
              => mem[t] # "none"
  <2>1. Due # {} /\ Lacking = {}
    BY <1>1
  <2> QED
    BY <1>5, <2>1, AskedHeld
<1>4. CASE /\ useCount' = CountDown(o) /\ Drop(Released(o)) /\ pc' = "alloc" /\ at' = o + 1
           /\ UNCHANGED <<room, plan, index>>
  <2>1. /\ o \in DOMAIN ops /\ o \in Nat \ {0} /\ o >= at /\ ~ IsConst(o) /\ Made(o)
        /\ TensorsOf(o) \subseteq Tensors /\ ops[o].out \in Tensors /\ at \in Nat
        /\ \A q \in Due : o <= q
    <3>1. /\ o \in DOMAIN ops /\ o \in Nat \ {0} /\ o >= at /\ ~ IsConst(o) /\ Made(o)
          /\ \A q \in Due : o <= q
      BY <1>1, <1>2, DueFacts DEF IInv, Made
    <3> QED
      BY <3>1, SetupFacts DEF IInv, TypeInv
  <2>2. Released(o) \in SUBSET Tensors
    BY <2>1 DEF Released, TensorsOf
  <2>3. \A t \in Released(o) : mem[t] # "static" \/ group[t] # 1
    <3> SUFFICES ASSUME NEW t \in Released(o), mem[t] = "static", group[t] = 1 PROVE FALSE
      OBVIOUS
    <3>1. t \in Tensors /\ usage[t] \in {"normal", "input"}
      BY <2>2 DEF Released
    <3>2. usage[t] # "input" /\ StorageOf(t) # "dynamic"
      BY <3>1, <2>2 DEF HInv, Addressed
    <3> QED
      BY <3>1, <3>2 DEF StorageOf
  <2>4. /\ Callers' /\ Addressed'
        /\ \A t \in Tensors : group[t] = 1 => where'[t] = where[t]
    BY <1>1, <1>4, <2>2, <2>3, DropSites DEF IInv
  <2>5. \A t \in Tensors : mem'[t] = IF t \in Released(o) THEN "none" ELSE mem[t]
    BY <1>4, <2>2, DropFacts DEF IInv
  <2>6. \A q \in DOMAIN ops : q \in Due => q \in Nat /\ (q = o \/ q \in Due')
    <3> SUFFICES ASSUME NEW q \in DOMAIN ops, q \in Due PROVE q \in Nat /\ (q = o \/ q >= at')
      BY <1>1 DEF Due, IsConst
    <3>1. q \in Nat
      BY SetupFacts DEF IInv, TypeInv
    <3>2. o <= q /\ o \in Nat /\ at' = o + 1
      BY <1>4, <2>1
    <3> QED
      BY <3>1, <3>2
  <2>7. Backed'
    <3> SUFFICES ASSUME NEW t \in Tensors, group[t] = 1
                 PROVE  \/ where'[t] \in {"backup", "static"}
                        \/ index' = 1 /\ pc' = "alloc" /\ \E q \in Due' : t \in TensorsOf(q)'
      BY <1>1 DEF Backed
    <3>1. CASE where[t] \in {"backup", "static"}
      BY <2>4, <3>1
    <3>2. CASE index = 1 /\ where[t] \notin {"backup", "static"}
      <4>1. PICK q \in Due : t \in TensorsOf(q)
        BY <3>2 DEF HInv, Backed
      <4>2. q # o
        <5> SUFFICES ASSUME q = o PROVE FALSE
          OBVIOUS
        <5>1. AllocInput
          BY <3>2 DEF AllocInput
        <5>2. mem[t] # "none"
          <6>1. group[t] = index /\ t \in ToSet(ops[Current].in) \cup {ops[Current].out}
            BY <1>2, <3>2, <4>1 DEF TensorsOf
          <6> QED
            BY <1>6, <5>1, <6>1
        <5>3. mem[t] # "main" /\ mem[t] \in Places
          BY <1>1, <3>2 DEF IInv, Chunks, TypeInv
        <5>4. mem[t] \in {"static", "backup"}
          BY <5>2, <5>3 DEF Places
        <5> QED
          BY <3>2, <5>4 DEF HInv, Addressed
      <4>3. q \in Due' /\ TensorsOf(q)' = TensorsOf(q)
        BY <1>1, <2>6, <4>1, <4>2 DEF Due, TensorsOf
      <4> QED
        BY <1>4, <3>2, <4>1, <4>3
    <3> QED
      BY <1>1, <3>1, <3>2 DEF HInv, Backed
  <2>8. MadeInv'
    <3>1. \A q \in Operators : Made(q)
      BY <1>1 DEF HInv, MadeInv
    <3> QED
      BY <1>1, <1>4, <3>1, AllMade DEF Encoding
  <2>9. HeldInv'
    <3> SUFFICES ASSUME NEW q \in Operators, q < at', group[ops[q].out] = index,
                        Remaining(ops[q].out)' # {}
                 PROVE  mem'[ops[q].out] # "none"
      BY <1>1, <1>4 DEF HeldInv, Operators, IsConst
    <3>1. PICK t \in Tensors : t = ops[q].out
      BY OperatorFacts DEF IInv, TypeInv
    <3>2. /\ q \in DOMAIN ops /\ q \in Nat /\ ~ IsConst(q) /\ Made(q) /\ usage[t] # "constant"
      BY <1>1, <3>1, OperatorFacts DEF IInv, TypeInv, HInv, MadeInv
    <3>3. /\ Remaining(t)' \in SUBSET Remaining(t) /\ IsFiniteSet(Remaining(t)')
      BY <1>1, <1>2, <1>4, CountsDown DEF IInv
    <3>4. mem[t] # "none"
      <4>1. CASE q < at
        BY <1>1, <3>1, <3>3, <4>1 DEF HInv, HeldInv
      <4>2. CASE q >= at
        <5>1. q \in Due
          BY <3>2, <4>2 DEF Due, Made
        <5>2. q = o
          <6>1. q <= o
            BY <1>4, <2>1, <3>2
          <6> QED
            BY <2>1, <3>2, <5>1, <6>1
        <5> QED
          <6>1. group[t] = index /\ t = ops[Current].out
            BY <1>2, <3>1, <5>2
          <6> QED
            BY <1>6, <6>1
      <4> QED
        BY <2>1, <3>2, <4>1, <4>2
    <3>5. t \notin Released(o)
      <4>1. Remaining(t)' # {} /\ Readers(t)' # {}
        BY <1>1, <3>1 DEF Remaining, Readers, IsConst
      <4>2. useCount'[t] = Cardinality(Remaining(t)')
        <5>1. Counted' /\ pc' = "alloc" /\ t \in Tensors' /\ usage'[t] # "constant"
          BY <1>1, <1>4, <3>2 DEF IInv
        <5> QED
          BY <4>1, <5>1 DEF Counted
      <4>3. Cardinality(Remaining(t)') # 0
        BY <3>3, <4>1, FS_EmptySet
      <4> QED
        BY <1>4, <4>2, <4>3 DEF Released
    <3> QED
      BY <2>5, <3>1, <3>4, <3>5
  <2> QED
    BY <2>4, <2>7, <2>8, <2>9 DEF HInv
<1> QED
  BY <1>2, <1>3, <1>4, Zenon DEF ResizeCommand, Continue

LEMMA RecycleHeld ==
  ASSUME IInv, HInv, Recycle PROVE HInv'
<1>1. /\ UNCHANGED <<setup, command, group, index>> /\ ops' = ops /\ Tensors' = Tensors
      /\ pc = "alloc" /\ Due = {} /\ pc' = "end" /\ Drop(Recycled)
  BY Stable DEF Recycle, structure, Continue
<1>2. Recycled \in SUBSET Tensors /\ \A t \in Recycled : mem[t] # "static"
  BY DEF Recycled, HInv, Addressed
<1>3. /\ Callers' /\ Addressed'
      /\ \A t \in Tensors : group[t] = 1 => where'[t] = where[t]
  BY <1>1, <1>2, DropSites DEF IInv
<1>4. Backed'
  BY <1>1, <1>3 DEF HInv, Backed
<1>5. MadeInv'
  <2>1. \A o \in Operators : Made(o)
    BY <1>1 DEF HInv, MadeInv
  <2> QED
    BY <1>1, <2>1, AllMade DEF Encoding
<1>6. HeldInv'
  BY <1>1 DEF HeldInv
<1> QED
  BY <1>3, <1>4, <1>5, <1>6 DEF HInv

LEMMA EndAllocHeld ==
  ASSUME IInv, HInv, Careful, EndAlloc PROVE HInv'
<1>1. /\ UNCHANGED <<setup, structure, command, group, mem, where>> /\ pc = "end"
  BY DEF EndAlloc, structure
<1>2. CASE AllocFails
  BY <1>1, <1>2, FailureHeld
<1>3. CASE pc' = "idle"
  <2>1. Callers' /\ Addressed' /\ Backed'
    BY <1>1, SitesKept
  <2>2. MadeInv'
    <3>1. \A o \in Operators : Made(o)
      BY <1>1 DEF HInv, MadeInv
    <3> QED
      BY <1>1, <1>3, <3>1, AllMade DEF Encoding
  <2>3. HeldInv'
    BY <1>3 DEF HeldInv
  <2> QED
    BY <2>1, <2>2, <2>3 DEF HInv
<1> QED
  BY <1>2, <1>3, Zenon DEF EndAlloc, Continue

\* A fix forgets both plans and puts only tensors of commands that are due into
\* the one it begins.
LEMMA FixResizeCacheHeld ==
  ASSUME IInv, HInv, Careful, FixResizeCache PROVE HInv'
<1>1. /\ UNCHANGED setup
      /\ ops' = ops /\ usage' = usage /\ Tensors' = Tensors
      /\ pc = "idle" /\ \A t \in Tensors : group[t] # 1
      /\ \A o \in DOMAIN ops : IsConst(o) \/ command[o].exe
      /\ pc' = "alloc" /\ at' = 1 /\ index' = 1 /\ group' = FixedGroup
      /\ mem' = Forget(Forget(mem, "main"), "backup")
      /\ where' = Forget(Forget(where, "main"), "backup")
  BY Stable DEF FixResizeCache, Continue, Careful, Careless
<1>2. mem' = mem /\ \A t \in Tensors : mem[t] \in {"none", "static"}
  <2>1. \A t \in Tensors : mem[t] \in {"none", "static"}
    BY <1>1, NoChunks DEF IInv
  <2> QED
    BY <1>1, <2>1, ForgetNothing DEF IInv, TypeInv
<1>3. \A o \in DOMAIN ops : command'[o].made = command[o].made
  <2> TAKE o \in DOMAIN ops
  <2>1. command[o] \in CommandType
    BY DEF IInv, TypeInv
  <2>2. [command[o] EXCEPT !.group = 1].made = command[o].made
    BY <2>1, Changed
  <2>3. command'[o] = IF o \in FixedOps THEN [command[o] EXCEPT !.group = 1] ELSE command[o]
    BY DEF FixResizeCache
  <2> QED
    BY <2>2, <2>3
<1>4. /\ where' \in [Tensors -> Sites]
      /\ \A t \in Tensors : where[t] \in {"user", "static"} => where'[t] = where[t]
  BY <1>1 DEF HInv, Callers, Sites, Forget
<1>5. /\ \A t \in Tensors : group'[t] # 1 => group'[t] = group[t]
      /\ \A t \in Tensors : group'[t] = 1 =>
           \E o \in FixedOps : ops[o].out = t \/ (group[t] = 0 /\ t \in ToSet(ops[o].in))
  BY <1>1 DEF FixedGroup
<1>6. Callers'
  <2>1. ASSUME NEW t \in Tensors, usage[t] = "input", ~ setup.allocInput PROVE group'[t] = -1
    <3>1. group[t] = -1
      BY <2>1 DEF HInv, Callers
    <3>2. \A o \in FixedOps : ops[o].out # t
      BY <2>1, SetupFacts DEF FixedOps, IInv, TypeInv
    <3> QED
      BY <1>5, <3>1, <3>2
  <2>2. ASSUME NEW t \in Tensors, group'[t] = -1
        PROVE  where'[t] = "user" /\ mem'[t] = "none" /\ usage[t] = "input"
    <3>1. group[t] = -1
      BY <1>5, <2>2
    <3> QED
      BY <1>2, <1>4, <3>1 DEF HInv, Callers
  <2> QED
    BY <1>1, <1>4, <2>1, <2>2 DEF Callers
<1>7. Addressed'
  BY <1>1, <1>2, <1>4 DEF HInv, Addressed, StorageOf
<1>8. Backed'
  <2> SUFFICES ASSUME NEW t \in Tensors, group'[t] = 1
               PROVE  \E p \in Due' : t \in TensorsOf(p)'
    BY <1>1 DEF Backed
  <2>1. PICK o \in FixedOps : t \in TensorsOf(o)
    BY <1>5 DEF TensorsOf
  <2>2. o \in DOMAIN ops /\ ~ IsConst(o) /\ command[o].made # <<>>
    BY DEF FixedOps
  <2>3. o >= 1
    BY <2>2, SetupFacts DEF IInv, TypeInv
  <2>4. o \in Due'
    BY <1>1, <1>3, <2>2, <2>3 DEF Due, IsConst
  <2>5. TensorsOf(o)' = TensorsOf(o)
    BY <1>1 DEF TensorsOf
  <2> QED
    BY <2>1, <2>4, <2>5
<1>9. MadeInv'
  <2>1. \A o \in Operators : Made(o)
    <3>1. \A o \in Operators : command[o].exe
      BY <1>1 DEF Operators
    <3> QED
      BY <1>1, <3>1 DEF HInv, MadeInv
  <2> QED
    BY <1>1, <1>3, <2>1, AllMade DEF Encoding
<1>10. HeldInv'
  <2>1. Operators' = Operators
    BY <1>1 DEF Operators, IsConst
  <2>2. \A p \in Operators : ~ (p < 1)
    BY OperatorFacts DEF IInv, TypeInv
  <2> QED
    BY <1>1, <2>1, <2>2 DEF HeldInv
<1> QED
  BY <1>6, <1>7, <1>8, <1>9, <1>10 DEF HInv

LEMMA StepHeld ==
  ASSUME Careful, IInv, IInv', HInv, [Next]_vars PROVE HInv'
<1>1. CASE UNCHANGED vars
  <2>1. /\ UNCHANGED <<setup, cache, compute, command, mem, where, group, pc, at, index>>
        /\ ops' = ops /\ usage' = usage /\ Tensors' = Tensors
    BY <1>1, Stable DEF vars
  <2>2. Operators' = Operators /\ Due' = Due
    BY <2>1 DEF Operators, Due, IsConst
  <2>3. /\ \A o : Made(o)' = Made(o) /\ TensorsOf(o)' = TensorsOf(o)
        /\ \A t : Remaining(t)' = Remaining(t)
    BY <2>1 DEF Made, TensorsOf, Remaining, Readers, IsConst
  <2>4. Callers' /\ Addressed' /\ Backed'
    BY <2>1, <2>2, <2>3 DEF HInv, Callers, Addressed, StorageOf, Backed
  <2>5. MadeInv' /\ HeldInv'
    BY <2>1, <2>2, <2>3 DEF HInv, MadeInv, HeldInv, Stuck, Encoding
  <2> QED
    BY <2>4, <2>5 DEF HInv
<1>2. CASE \E t \in Tensors, n \in Sizes : ResizeTensor(t, n)
  BY <1>2, ResizeTensorHeld
<1>3. CASE OpenResizeCheck
  BY <1>3, OpenResizeCheckHeld
<1>4. CASE Resize
  BY <1>4, ResizeHeld
<1>5. CASE ComputeShape
  BY <1>5, ComputeShapeHeld
<1>6. CASE FoldConstant
  BY <1>6, FoldConstantHeld
<1>7. CASE Transform
  BY <1>7, TransformHeld
<1>8. CASE CreateExecution
  BY <1>8, CreateExecutionHeld
<1>9. CASE BeginAlloc
  BY <1>9, BeginAllocHeld
<1>10. CASE Acquire
  BY <1>10, AcquireHeld
<1>11. CASE ResizeCommand
  BY <1>11, ResizeCommandHeld
<1>12. CASE Recycle
  BY <1>12, RecycleHeld
<1>13. CASE EndAlloc
  BY <1>13, EndAllocHeld
<1>14. CASE FixResizeCache
  BY <1>14, FixResizeCacheHeld
<1> QED
  BY <1>1, <1>2, <1>3, <1>4, <1>5, <1>6, <1>7, <1>8, <1>9, <1>10, <1>11, <1>12, <1>13, <1>14
  DEF Next

------------------------------------------------------------------------------
\* What an earlier command wrote for the current one has memory.
LEMMA WrittenHeld ==
  ASSUME IInv, HInv, pc = "alloc", Due # {}, NEW t \in ToSet(ops[Current].in), group[t] = index,
         usage[t] # "constant", NEW p \in DOMAIN ops, ops[p].out = t, p < Current
  PROVE  mem[t] # "none"
<1>1. PICK c : c = Current
  OBVIOUS
<1>2. /\ c \in DOMAIN ops /\ c >= at /\ ~ IsConst(c) /\ command[c].made # <<>>
      /\ \A o \in Due : c <= o
  BY <1>1, DueFacts DEF IInv
<1>3. /\ p \in Nat /\ c \in Nat /\ at \in Nat /\ ~ IsConst(p)
  BY <1>2, SetupFacts DEF IInv, TypeInv
<1>4. p \in Operators /\ Made(p)
  BY <1>3 DEF Operators, HInv, MadeInv
<1>5. p < at
  <2>1. p >= at => p \in Due
    BY <1>3, <1>4 DEF Due, Made
  <2>2. p < c
    BY <1>1
  <2>3. p \notin Due
    BY <1>2, <1>3, <2>2
  <2> QED
    BY <1>3, <2>1, <2>3
<1>6. Remaining(t) # {}
  <2>1. PICK i \in DOMAIN ops[c].in : ops[c].in[i] = t
    BY <1>1 DEF ToSet
  <2>2. <<c, i>> \in {c} \X DOMAIN ops[c].in
    OBVIOUS
  <2>3. <<c, i>> \in Remaining(t)
    BY <1>2, <2>1, <2>2 DEF Remaining, Readers
  <2> QED
    BY <2>3
<1> QED
  BY <1>4, <1>5, <1>6 DEF HInv, HeldInv

\* The invariants leave no tensor of a command without a place.
LEMMA InvHeld ==
  ASSUME IInv, HInv PROVE HeldWhileResized
<1> SUFFICES ASSUME pc = "alloc", Due # {}, command[Current].group = index,
                    NEW t \in ToSet(ops[Current].in) \cup {ops[Current].out},
                    \/ Lacking = {}
                    \/ t \in ToSet(ops[Current].in) /\ \E p \in 1 .. Current - 1 : ops[p].out = t
             PROVE  (IF group[t] = index THEN mem[t] ELSE where[t]) \notin {"none", "gone"}
  BY DEF HeldWhileResized
<1>1. PICK c : c = Current
  OBVIOUS
<1>2. c \in DOMAIN ops /\ c \in Nat /\ TypeInv /\ setup \in Setups /\ DOMAIN ops = 1 .. Len(ops)
  BY <1>1, DueFacts, SetupFacts DEF IInv, TypeInv
<1>3. t \in Tensors /\ t \in TensorsOf(c)
  BY <1>1, <1>2, SetupFacts DEF TensorsOf
<1>4. CASE group[t] = index
  <2>1. mem[t] \in Places
    BY <1>2, <1>3 DEF TypeInv
  <2>2. CASE usage[t] = "constant"
    BY <1>3, <1>4, <2>2, AllocFolded
  <2>3. CASE usage[t] # "constant" /\ t \in ToSet(ops[c].in) /\ \E p \in DOMAIN ops : ops[p].out = t /\ p < c
    <3>1. mem[t] # "none"
      BY <1>1, <1>4, <2>3, WrittenHeld
    <3> QED
      BY <1>4, <2>1, <3>1 DEF Places
  <2>4. CASE Lacking = {} /\ (t = ops[c].out \/ (AllocInput /\ t \in ToSet(ops[c].in)))
    <3>1. mem[t] # "none"
      BY <1>1, <1>2, <1>4, <2>4, AskedHeld
    <3> QED
      BY <1>4, <2>1, <3>1 DEF Places
  <2>5. ~ AllocInput => usage[t] # "input"
    <3>1. group[t] # -1
      BY <1>2, <1>4 DEF TypeInv
    <3> QED
      BY <1>2, <1>3, <3>1, SetupFacts DEF HInv, Callers, AllocInput
  <2>6. t \in ToSet(ops[c].in) =>
          usage[t] \in {"input", "constant"} \/ \E p \in DOMAIN ops : ops[p].out = t /\ p < c
    BY <1>2, Produced
  <2>7. (\E p \in 1 .. Current - 1 : ops[p].out = t) => \E p \in DOMAIN ops : ops[p].out = t /\ p < c
    BY <1>1, <1>2, SetupFacts, SMTT(30)
  <2> QED
    BY <1>1, <2>2, <2>3, <2>4, <2>5, <2>6, <2>7
<1>5. CASE group[t] # index
  <2>1. group[t] \in {-1, 0, 1} /\ index \in {0, 1} /\ where[t] \in Sites
    BY <1>2, <1>3 DEF TypeInv, HInv, Callers
  <2>2. CASE group[t] = -1
    BY <1>3, <1>5, <2>2 DEF HInv, Callers
  <2>3. CASE group[t] = 0
    <3>1. index = 1
      BY <1>5, <2>1, <2>3
    <3>2. command[c].group = 1
      BY <1>1, <3>1
    <3> QED
      BY <1>2, <1>3, <2>3, <3>2 DEF IInv, Groups
  <2>4. CASE group[t] = 1
    <3>1. index # 1
      BY <1>5, <2>4
    <3> QED
      BY <1>3, <1>5, <2>4, <3>1 DEF HInv, Backed
  <2> QED
    BY <2>1, <2>2, <2>3, <2>4
<1> QED
  BY <1>4, <1>5

\* What a command reads is held from its writer on, and when a command is resized
\* everything it reads and writes has memory: _allocTensor, _releaseTensor and the
\* use counts of _allocForTensor, through encodes that fail, open checks and fixes.
THEOREM TensorsHeld == ASSUME Careful PROVE Spec => []HeldWhileResized
<1>1. Init => HInv
  BY InitHeld
<1>2. IInv /\ IInv' /\ HInv /\ [Next]_vars => HInv'
  BY StepHeld
<1>3. IInv /\ HInv => HeldWhileResized
  BY InvHeld
<1> QED
  BY <1>1, <1>2, <1>3, InvHolds, PTL DEF Spec

------------------------------------------------------------------------------
(***************************************************************************)
(* The sizes that follow from those of the inputs, by the order in which    *)
(* the operations run.                                                     *)
(***************************************************************************)

Inputless(t) == \A o \in DOMAIN ops : ops[o].out # t
Result(o, p) ==
  IF Compatible(o, p) /\ \A i \in DOMAIN ops[o].in : p[ops[o].in[i]] # 0 THEN OutSize(o, p) ELSE 0

\* What the sizes of an operation say depends on its inputs alone.
LEMMA SameInputs ==
  ASSUME setup \in Setups, NEW o \in DOMAIN ops, NEW p, NEW q,
         \A i \in DOMAIN ops[o].in : p[ops[o].in[i]] = q[ops[o].in[i]]
  PROVE  /\ Result(o, p) = Result(o, q) /\ OutSize(o, p) = OutSize(o, q)
         /\ Compatible(o, p) <=> Compatible(o, q)
         /\ InSizes(o, p) = InSizes(o, q)
<1>1. 1 \in DOMAIN ops[o].in
  BY SetupFacts
<1>2. OutSize(o, p) = OutSize(o, q)
  BY <1>1 DEF OutSize
<1>3. Compatible(o, p) <=> Compatible(o, q)
  <2>1. \A i, j \in DOMAIN ops[o].in :
          p[ops[o].in[i]] = p[ops[o].in[j]] <=> q[ops[o].in[i]] = q[ops[o].in[j]]
    OBVIOUS
  <2> QED
    BY <2>1, ZenonT(30) DEF Compatible
<1>4. InSizes(o, p) = InSizes(o, q)
  BY DEF InSizes
<1>5. (\A i \in DOMAIN ops[o].in : p[ops[o].in[i]] # 0) <=>
        \A i \in DOMAIN ops[o].in : q[ops[o].in[i]] # 0
  BY Zenon
<1> QED
  BY <1>2, <1>3, <1>4, <1>5 DEF Result

LEMMA ResultIsSize ==
  ASSUME setup \in Setups, NEW o \in DOMAIN ops, NEW p \in [Tensors -> Nat]
  PROVE  Result(o, p) \in Nat
<1>1. ops[o].in[1] \in Tensors
  BY SetupFacts
<1> QED
  BY <1>1 DEF Result, OutSize

LEMMA AnewFacts ==
  ASSUME setup \in Setups, NEW s \in [Tensors -> Nat]
  PROVE  /\ AnewFrom(s) \in [Tensors -> Nat]
         /\ \A t \in Tensors : Inputless(t) => AnewFrom(s)[t] = s[t]
         /\ \A o \in DOMAIN ops : AnewFrom(s)[ops[o].out] = Result(o, AnewFrom(s))
<1> DEFINE L == Len(ops)
           Begin == [t \in Tensors |-> IF \E o \in DOMAIN ops : ops[o].out = t THEN 0 ELSE s[t]]
           Value(f, n) == IF n = 0 THEN Begin
                          ELSE [f[n - 1] EXCEPT ![ops[n].out] = Result(n, f[n - 1])]
           Eqn(f, k) == f = [n \in 0 .. k |-> Value(f, n)]
           Missing == {k \in Nat : ~ \E f : Eqn(f, k)}
           After == CHOOSE f : Eqn(f, L)
<1>1. /\ L \in Nat /\ DOMAIN ops = 1 .. L
      /\ \A o \in DOMAIN ops : /\ o \in Nat /\ ops[o].out \in Tensors
                               /\ \A p \in DOMAIN ops : ops[p].out = ops[o].out => p = o
                               /\ \A i \in DOMAIN ops[o].in : ops[o].in[i] \in Tensors
  BY SetupFacts
<1>2. Missing = {}
  <2> SUFFICES ASSUME Missing # {} PROVE FALSE
    OBVIOUS
  <2>1. PICK k \in Missing : \A n \in Missing : k <= n
    BY Least
  <2>2. k \in Nat /\ ~ \E f : Eqn(f, k)
    OBVIOUS
  <2>3. k # 0
    <3> SUFFICES ASSUME k = 0 PROVE FALSE
      OBVIOUS
    <3> DEFINE f == [n \in 0 .. 0 |-> Begin]
    <3>1. \A n \in 0 .. 0 : n = 0
      OBVIOUS
    <3> HIDE DEF Begin
    <3>2. f = [n \in 0 .. 0 |-> Value(f, n)]
      BY <3>1
    <3> QED
      BY <2>2, <3>2
  <2>4. k - 1 \in Nat /\ k - 1 \notin Missing
    <3>1. k - 1 \in Nat /\ ~ (k <= k - 1)
      BY <2>2, <2>3
    <3> HIDE DEF Missing
    <3> QED
      BY <2>1, <3>1
  <2>5. PICK f : Eqn(f, k - 1)
    BY <2>4
  <2> DEFINE g == [n \in 0 .. k |-> Value(f, n)]
  <2>6. \A n \in 0 .. k : n # 0 => n - 1 \in 0 .. k - 1 /\ n - 1 \in 0 .. k
    BY <2>2
  <2> HIDE DEF Begin
  <2>7. \A n \in 0 .. k - 1 : f[n] = Value(f, n) /\ n \in 0 .. k
    <3>1. \A n \in 0 .. k - 1 : n \in 0 .. k
      BY <2>2
    <3> HIDE DEF Value
    <3>2. f = [n \in 0 .. k - 1 |-> Value(f, n)]
      BY <2>5
    <3>3. \A n \in 0 .. k - 1 : f[n] = Value(f, n)
      BY <3>2, Zenon
    <3> QED
      BY <3>1, <3>3
  <2>8. \A n \in 0 .. k - 1 : g[n] = f[n]
    <3> HIDE DEF Value
    <3> QED
      BY <2>7
  <2> HIDE DEF g
  <2>9. \A n \in 0 .. k : Value(g, n) = Value(f, n)
    BY <2>6, <2>8
  <2>10. Eqn(g, k)
    <3> HIDE DEF Value
    <3> QED
      BY <2>9 DEF g
  <2> QED
    BY <2>2, <2>10
<1>3. Eqn(After, L)
  <2>1. \E f : Eqn(f, L)
    BY <1>1, <1>2
  <2> HIDE DEF Eqn
  <2> QED
    BY <2>1, Zenon
<1>4. AnewFrom(s) = After[L]
  BY Zenon DEF AnewFrom, Result
<1> HIDE DEF After
<1>5. /\ After[0] = Begin
      /\ \A n \in 1 .. L : After[n] = [After[n - 1] EXCEPT ![ops[n].out] = Result(n, After[n - 1])]
  <2>1. \A n \in 0 .. L : After[n] = Value(After, n)
    <3> HIDE DEF Value
    <3> QED
      BY <1>3
  <2>2. 0 \in 0 .. L /\ \A n \in 1 .. L : n \in 0 .. L /\ n # 0
    BY <1>1
  <2> HIDE DEF Begin
  <2> QED
    BY <2>1, <2>2
<1>6. Begin \in [Tensors -> Nat] /\ \A t \in Tensors : Inputless(t) => Begin[t] = s[t]
  BY DEF Inputless
<1> HIDE DEF Begin, L
<1>7. \A n \in 0 .. L : After[n] \in [Tensors -> Nat]
  <2> DEFINE Wrong == {n \in 0 .. L : After[n] \notin [Tensors -> Nat]}
  <2> SUFFICES ASSUME Wrong # {} PROVE FALSE
    OBVIOUS
  <2>1. PICK n \in Wrong : \A m \in Wrong : n <= m
    <3>1. Wrong \in SUBSET Nat
      BY <1>1
    <3> HIDE DEF Wrong
    <3> QED
      BY <3>1, Least
  <2>2. n \in 0 .. L /\ After[n] \notin [Tensors -> Nat]
    OBVIOUS
  <2>3. n \in 1 .. L /\ n - 1 \in 0 .. L /\ ~ (n <= n - 1)
    BY <1>1, <1>5, <1>6, <2>2
  <2>4. After[n - 1] \in [Tensors -> Nat]
    <3>1. n - 1 \notin Wrong
      <4> HIDE DEF Wrong
      <4> QED
        BY <2>1, <2>3
    <3> QED
      BY <2>3, <3>1
  <2>5. Result(n, After[n - 1]) \in Nat /\ n \in DOMAIN ops
    BY <1>1, <2>3, <2>4, ResultIsSize
  <2> QED
    BY <1>5, <2>2, <2>3, <2>4, <2>5
<1>8. ASSUME NEW n \in 1 .. L
      PROVE  /\ After[n][ops[n].out] = Result(n, After[n - 1])
             /\ \A t \in Tensors : t # ops[n].out => After[n][t] = After[n - 1][t]
  <2>1. n \in DOMAIN ops /\ n - 1 \in 0 .. L
    BY <1>1
  <2>2. After[n - 1] \in [Tensors -> Nat] /\ ops[n].out \in Tensors
    BY <1>1, <1>7, <2>1
  <2> QED
    BY <1>5, <2>2
\* Nothing later changes a tensor that no later operation has as its output.
<1>9. ASSUME NEW t \in Tensors, NEW k \in 0 .. L,
             \A n \in 1 .. L : n > k => ops[n].out # t
      PROVE  \A n \in k .. L : After[n][t] = After[k][t]
  <2> DEFINE Wrong == {n \in k .. L : After[n][t] # After[k][t]}
  <2> SUFFICES ASSUME Wrong # {} PROVE FALSE
    OBVIOUS
  <2>1. PICK n \in Wrong : \A m \in Wrong : n <= m
    <3>1. Wrong \in SUBSET Nat
      BY <1>1
    <3> HIDE DEF Wrong
    <3> QED
      BY <3>1, Least
  <2>2. n \in k .. L /\ After[n][t] # After[k][t]
    OBVIOUS
  <2>3. n # k /\ n \in 1 .. L /\ n > k /\ n - 1 \in k .. L /\ ~ (n <= n - 1)
    BY <1>1, <2>2
  <2>4. After[n - 1][t] = After[k][t]
    <3>1. n - 1 \notin Wrong
      <4> HIDE DEF Wrong
      <4> QED
        BY <2>1, <2>3
    <3> QED
      BY <2>3, <3>1
  <2> QED
    BY <1>8, <1>9, <2>2, <2>3, <2>4
<1>10. L \in 0 .. L /\ \A n \in 0 .. L : L \in n .. L
  BY <1>1
<1>11. ASSUME NEW t \in Tensors, Inputless(t) PROVE After[L][t] = s[t]
  <2>1. \A n \in 1 .. L : ops[n].out # t
    BY <1>1, <1>11 DEF Inputless
  <2>2. 0 \in 0 .. L
    BY <1>1
  <2>3. After[L][t] = After[0][t]
    BY <1>9, <1>10, <2>1, <2>2
  <2> QED
    BY <1>5, <1>6, <1>11, <2>3
<1>12. ASSUME NEW o \in DOMAIN ops PROVE After[L][ops[o].out] = Result(o, After[L])
  <2>1. o \in 1 .. L /\ o \in 0 .. L /\ o - 1 \in 0 .. L /\ ops[o].out \in Tensors
    BY <1>1
  <2>2. After[L][ops[o].out] = After[o][ops[o].out]
    <3>1. \A n \in 1 .. L : n > o => ops[n].out # ops[o].out
      BY <1>1
    <3> QED
      BY <1>9, <1>10, <2>1, <3>1
  <2>3. ASSUME NEW i \in DOMAIN ops[o].in
        PROVE  After[o - 1][ops[o].in[i]] = After[L][ops[o].in[i]]
    <3>1. ops[o].in[i] \in Tensors /\ \A p \in DOMAIN ops : ops[p].out = ops[o].in[i] => p < o
      BY SetupFacts
    <3>2. \A n \in 1 .. L : n > o - 1 => ops[n].out # ops[o].in[i]
      BY <1>1, <3>1
    <3> QED
      BY <1>9, <1>10, <2>1, <3>1, <3>2
  <2>4. Result(o, After[o - 1]) = Result(o, After[L])
    BY <2>3, SameInputs
  <2> QED
    BY <1>8, <2>1, <2>2, <2>4
<1> QED
  BY <1>4, <1>7, <1>10, <1>11, <1>12

------------------------------------------------------------------------------
(***************************************************************************)
(* The sizes of a session that run accepts: whatever a resize skipped, every *)
(* command was made for what its inputs call for.                          *)
(***************************************************************************)
\* The recursion of the sizes with the session as a parameter, to compare the
\* sizes of two states.
Sizing(u, b) ==
    LET After[n \in 0 .. Len(u.ops)] ==
          IF n = 0 THEN b
          ELSE LET p == After[n - 1] IN
               [p EXCEPT ![u.ops[n].out] =
                  IF (\A i, j \in DOMAIN u.ops[n].in :
                        (u.usage[u.ops[n].in[i]] # "constant" /\ u.usage[u.ops[n].in[j]] # "constant")
                            => p[u.ops[n].in[i]] = p[u.ops[n].in[j]])
                     /\ \A i \in DOMAIN u.ops[n].in : p[u.ops[n].in[i]] # 0
                  THEN IF u.ops[n].reduce THEN 1 ELSE p[u.ops[n].in[1]] ELSE 0]
    IN After[Len(u.ops)]
Given(u, s) == [t \in DOMAIN u.usage |-> IF \E o \in DOMAIN u.ops : u.ops[o].out = t THEN 0 ELSE s[t]]

LEMMA AnewSized ==
  ASSUME NEW s
  PROVE  AnewFrom(s) = Sizing(setup, Given(setup, s))
BY Zenon DEF AnewFrom, Sizing, Given, Compatible, OutSize, ops, usage, Tensors

LEMMA AnewSizedNext ==
  Anew' = Sizing(setup', Given(setup', shape'))
BY Zenon DEF Anew, AnewFrom, Sizing, Given, Compatible, OutSize, ops, usage, Tensors

\* The sizes follow from those of the tensors that no operation computes.
LEMMA AnewKept ==
  ASSUME setup' = setup, NEW s, \A t \in Tensors : Inputless(t) => shape'[t] = s[t]
  PROVE  Anew' = AnewFrom(s)
<1>1. Given(setup, shape') = Given(setup, s)
  BY DEF Given, Inputless, ops, Tensors
<1> QED
  BY <1>1, AnewSized, AnewSizedNext

\* What is folded once rests on constants alone.
LEMMA ConstFacts ==
  ASSUME setup \in Setups, NEW o \in DOMAIN ops, IsConst(o), NEW t \in ToSet(ops[o].in)
  PROVE  usage[t] = "constant"
BY SetupsAssumption DEF ops, usage, IsConst

\* The sizes an execution was made for suit its operation and its output.
Fits(o, v) ==
  /\ \A i, j \in DOMAIN ops[o].in :
       (usage[ops[o].in[i]] # "constant" /\ usage[ops[o].in[j]] # "constant") => v[i] = v[j]
  /\ \A i \in DOMAIN ops[o].in : v[i] # 0
  /\ shape[ops[o].out] = IF ops[o].reduce THEN 1 ELSE v[1]
Ready(o) == command[o].exe /\ command[o].made # <<>> /\ Fits(o, command[o].made)
Right(o) == shape[ops[o].out] = Anew[ops[o].out] /\ shape[ops[o].out] # 0
\* The resize has been at the operation, or is past all of them.
Making == pc \in {"alloc", "end"}
Reached(o) == (Encoding /\ o < at) \/ Making

Roots == \A o \in DOMAIN ops : \A t \in ToSet(ops[o].in) : Inputless(t) => shape[t] # 0
ConstSizes == \A t \in Tensors : usage[t] = "constant" =>
  /\ shape[t] \in {0, 1}
  /\ mem[t] = "static" => shape[t] = 1
\* What the cache compares with are the sizes of this resize, or those the
\* execution was made for.
SeenInv == \A o \in Operators : cache[o].seen # <<>> =>
  /\ index = 0 /\ Fits(o, cache[o].seen)
  /\ Reached(o) => cache[o].seen = InSizes(o, shape)
  /\ pc # "failed" /\ ~ Reached(o) => command[o].made = cache[o].seen /\ Ready(o)
\* An exempt operation keeps an execution for the sizes that follow from the inputs.
ExemptInv == \A o \in Operators : Exempt(cache, o) =>
  /\ Ready(o) /\ command[o].made = InSizes(o, Anew)
  /\ Encoding /\ o < at => ~ compute[o]
\* Behind the point the resize has reached, nothing is left of earlier sizes.
PassInv == index = 0 => \A o \in DOMAIN ops : Reached(o) =>
  /\ Right(o)
  /\ ~ IsConst(o) => /\ ~ compute[o] => Ready(o) /\ command[o].made = InSizes(o, shape)
                     /\ Making \/ at > Len(ops) + o => command[o].made = InSizes(o, shape)
                     /\ Making \/ at > 2 * Len(ops) + o => command[o].exe
\* A session at rest knows the sizes its executions were made for.
RestInv ==
  /\ index = 1 => needResize
  /\ pc = "idle" \/ index = 1 => \A o \in Operators : command[o].exe =>
       /\ Ready(o)
       /\ \A i \in DOMAIN ops[o].in :
            usage[ops[o].in[i]] # "input" => command[o].made[i] = shape[ops[o].in[i]]
  /\ CommandsAnew

SizeInv == Roots /\ ConstSizes /\ SeenInv /\ ExemptInv /\ PassInv /\ RestInv

------------------------------------------------------------------------------
\* Sizes that fit an operation are those its result follows from.
LEMMA FitsResult ==
  ASSUME setup \in Setups, NEW o \in DOMAIN ops, NEW s
  PROVE  /\ Fits(o, InSizes(o, s)) => shape[ops[o].out] = Result(o, s) /\ shape[ops[o].out] # 0
         /\ shape[ops[o].out] = Result(o, s) /\ shape[ops[o].out] # 0 => Fits(o, InSizes(o, s))
<1>1. 1 \in DOMAIN ops[o].in
  BY SetupFacts
<1>2. \A i \in DOMAIN ops[o].in : InSizes(o, s)[i] = s[ops[o].in[i]]
  BY DEF InSizes
<1>3. Fits(o, InSizes(o, s)) <=>
        /\ Compatible(o, s) /\ \A i \in DOMAIN ops[o].in : s[ops[o].in[i]] # 0
        /\ shape[ops[o].out] = OutSize(o, s)
  BY <1>1, <1>2 DEF Fits, Compatible, OutSize
<1> QED
  BY <1>1, <1>3 DEF Result, OutSize

\* The inputs of an operation whose producers are right are right.
LEMMA InputsRight ==
  ASSUME TypeInv, Roots, NEW o \in DOMAIN ops, \A p \in DOMAIN ops : p < o => Right(p)
  PROVE  /\ \A i \in DOMAIN ops[o].in : /\ shape[ops[o].in[i]] = Anew[ops[o].in[i]]
                                        /\ shape[ops[o].in[i]] # 0
         /\ InSizes(o, shape) = InSizes(o, Anew)
         /\ Anew[ops[o].out] = Result(o, shape)
<1>1. setup \in Setups /\ shape \in [Tensors -> Nat]
  BY DEF TypeInv
<1>2. ASSUME NEW i \in DOMAIN ops[o].in
      PROVE  shape[ops[o].in[i]] = Anew[ops[o].in[i]] /\ shape[ops[o].in[i]] # 0
  <2> DEFINE t == ops[o].in[i]
  <2>1. t \in Tensors /\ t \in ToSet(ops[o].in) /\ \A p \in DOMAIN ops : ops[p].out = t => p < o
    <3>1. t \in ToSet(ops[o].in)
      BY DEF ToSet
    <3> QED
      BY <1>1, <3>1, SetupFacts DEF TensorsOf
  <2>2. CASE Inputless(t)
    BY <1>1, <2>1, <2>2, AnewFacts DEF Roots, Anew
  <2>3. CASE ~ Inputless(t)
    BY <2>1, <2>3 DEF Inputless, Right
  <2> QED
    BY <2>2, <2>3
<1>3. InSizes(o, shape) = InSizes(o, Anew) /\ Result(o, shape) = Result(o, Anew)
  BY <1>1, <1>2, SameInputs
<1>4. Anew[ops[o].out] = Result(o, Anew)
  BY <1>1, AnewFacts DEF Anew
<1> QED
  BY <1>2, <1>3, <1>4

\* Where everything reached is right, so is all an operation there was made for.
LEMMA RightFits ==
  ASSUME TypeInv, Roots, NEW o \in DOMAIN ops, \A p \in DOMAIN ops : p <= o => Right(p)
  PROVE  Fits(o, InSizes(o, shape)) /\ InSizes(o, shape) = InSizes(o, Anew)
<1>1. setup \in Setups /\ \A p \in DOMAIN ops : p \in Nat
  BY SetupFacts DEF TypeInv
<1>2. Right(o) /\ \A p \in DOMAIN ops : p < o => Right(p)
  BY <1>1
<1>3. Anew[ops[o].out] = Result(o, shape) /\ InSizes(o, shape) = InSizes(o, Anew)
  BY <1>2, InputsRight
<1> QED
  BY <1>1, <1>2, <1>3, FitsResult DEF Right

------------------------------------------------------------------------------
\* Steps that leave the sizes, the caches and the commands alone.
LEMMA Unsized ==
  ASSUME TypeInv, UNCHANGED setup, UNCHANGED structure
  PROVE  /\ ops' = ops /\ usage' = usage /\ Tensors' = Tensors /\ Operators' = Operators
         /\ Anew' = Anew
         /\ \A o, v : Fits(o, v)' <=> Fits(o, v)
         /\ \A o : Right(o)' <=> Right(o)
         /\ \A o : Ready(o)' <=> Ready(o)
         /\ \A o : IsConst(o)' <=> IsConst(o)
         /\ Roots' <=> Roots
<1>1. ops' = ops /\ usage' = usage /\ Tensors' = Tensors
  BY Stable
<1>2. shape' = shape /\ cache' = cache /\ compute' = compute /\ command' = command
  BY DEF structure
<1>3. Operators' = Operators
  BY <1>1 DEF Operators, IsConst
<1>4. Anew' = Anew
  BY <1>2, AnewKept DEF Anew
<1>5. /\ \A o, v : Fits(o, v)' <=> Fits(o, v)
      /\ \A o : IsConst(o)' <=> IsConst(o)
  BY <1>1, <1>2 DEF Fits, IsConst
<1>6. \A o : Ready(o)' <=> Ready(o)
  BY <1>2, <1>5 DEF Ready
<1>7. \A o : Right(o)' <=> Right(o)
  BY <1>1, <1>2, <1>4 DEF Right
<1>8. Roots' <=> Roots
  BY <1>1, <1>2 DEF Roots, Inputless
<1> QED
  BY <1>1, <1>3, <1>4, <1>5, <1>6, <1>7, <1>8

LEMMA InitSized ==
  ASSUME Init PROVE SizeInv
<1>1. /\ setup \in Setups /\ pc = "idle" /\ index = 0 /\ needResize
      /\ \A o \in DOMAIN ops : ~ cache[o].pass /\ cache[o].seen = <<>> /\ ~ command[o].exe
      /\ \A t \in Tensors : CASE usage[t] = "input" -> shape[t] \in Sizes
                              [] usage[t] = "constant" /\ ~ (\E o \in DOMAIN ops : ops[o].out = t) -> shape[t] = 1
                              [] OTHER -> shape[t] = 0
  BY DEF Init
<1>2. Roots
  <2> SUFFICES ASSUME NEW o \in DOMAIN ops, NEW t \in ToSet(ops[o].in), Inputless(t)
               PROVE  shape[t] # 0
    BY DEF Roots
  <2>1. t \in Tensors /\ (usage[t] = "input" \/ usage[t] = "constant")
    BY <1>1, Produced DEF Inputless
  <2> QED
    BY <1>1, <2>1, SizesAssumption DEF Inputless
<1>3. ConstSizes
  <2> SUFFICES ASSUME NEW t \in Tensors, usage[t] = "constant"
               PROVE  shape[t] \in {0, 1} /\ (mem[t] = "static" => shape[t] = 1)
    BY DEF ConstSizes
  <2>1. CASE \E o \in DOMAIN ops : ops[o].out = t
    <3>1. shape[t] = 0
      BY <1>1, <2>1
    <3>2. where[t] = "none" /\ mem[t] = "none"
      BY <2>1 DEF Init
    <3> QED
      BY <3>1, <3>2
  <2>2. CASE ~ \E o \in DOMAIN ops : ops[o].out = t
    BY <1>1, <2>2
  <2> QED
    BY <2>1, <2>2
<1>4. SeenInv /\ ExemptInv
  BY <1>1 DEF SeenInv, ExemptInv, Exempt, Operators
<1>5. PassInv
  BY <1>1 DEF PassInv, Reached, Encoding, Making
<1>6. RestInv
  BY <1>1 DEF RestInv, CommandsAnew, RunAccepts, Operators
<1> QED
  BY <1>2, <1>3, <1>4, <1>5, <1>6 DEF SizeInv

\* A failure leaves what the caches and the exempt operations rest on.
LEMMA FailureSized ==
  ASSUME TypeInv, SizeInv, ConstSizes', UNCHANGED setup, UNCHANGED structure,
         pc' = "failed", index' = 0
  PROVE  SizeInv'
<1>1. /\ ops' = ops /\ usage' = usage /\ Tensors' = Tensors /\ Operators' = Operators
      /\ Anew' = Anew /\ Roots'
      /\ \A o, v : Fits(o, v)' <=> Fits(o, v)
      /\ \A o : Ready(o)' <=> Ready(o)
      /\ shape' = shape /\ cache' = cache /\ command' = command
      /\ ~ Encoding' /\ ~ Making'
  BY Unsized DEF SizeInv, structure, Encoding, Making
<1>2. SeenInv'
  BY <1>1 DEF SizeInv, SeenInv, Reached
<1>3. ExemptInv'
  BY <1>1 DEF SizeInv, ExemptInv, Exempt, InSizes
<1>4. PassInv' /\ RestInv'
  BY <1>1 DEF PassInv, RestInv, Reached, CommandsAnew, RunAccepts
<1> QED
  BY <1>1, <1>2, <1>3, <1>4 DEF SizeInv

\* The making of a plan leaves them too.
LEMMA MakingSized ==
  ASSUME TypeInv, SizeInv, ConstSizes', UNCHANGED setup, UNCHANGED structure,
         Making, Making', UNCHANGED <<index, needResize>>
  PROVE  SizeInv'
<1>1. /\ ops' = ops /\ usage' = usage /\ Tensors' = Tensors /\ Operators' = Operators
      /\ Anew' = Anew /\ Roots'
      /\ \A o, v : Fits(o, v)' <=> Fits(o, v)
      /\ \A o : Ready(o)' <=> Ready(o)
      /\ \A o : Right(o)' <=> Right(o)
      /\ \A o : IsConst(o)' <=> IsConst(o)
      /\ shape' = shape /\ cache' = cache /\ command' = command /\ compute' = compute
      /\ ~ Encoding /\ ~ Encoding' /\ pc' # "idle" /\ pc # "failed"
  BY Unsized DEF SizeInv, structure, Encoding, Making
<1>2. \A o : Reached(o) /\ Reached(o)'
  BY DEF Reached
<1>3. SeenInv'
  BY <1>1, <1>2 DEF SizeInv, SeenInv, InSizes
<1>4. ExemptInv'
  BY <1>1 DEF SizeInv, ExemptInv, Exempt, InSizes
<1>5. PassInv'
  BY <1>1, <1>2 DEF SizeInv, PassInv, InSizes
<1>6. RestInv'
  BY <1>1 DEF SizeInv, RestInv, CommandsAnew, RunAccepts
<1> QED
  BY <1>1, <1>3, <1>4, <1>5, <1>6 DEF SizeInv

\* Constants that keep their memory keep their size.
LEMMA ConstSizesKept ==
  ASSUME ConstSizes, UNCHANGED <<setup, shape>>,
         \A t \in Tensors : usage[t] = "constant" /\ mem'[t] = "static" => mem[t] = "static"
  PROVE  ConstSizes'
BY Stable DEF ConstSizes

LEMMA OpenResizeCheckSized ==
  ASSUME IInv, SizeInv, OpenResizeCheck PROVE SizeInv'
<1>1. /\ UNCHANGED <<setup, shape, compute, command, pc, at, index, needResize, mem>>
      /\ pc \in {"idle", "failed"}
      /\ \A o \in DOMAIN ops : cache'[o].can /\ cache'[o].seen = cache[o].seen
  <2>1. ASSUME NEW o \in DOMAIN ops
        PROVE  cache'[o] \in CacheType /\ cache'[o].can /\ cache'[o].seen = cache[o].seen
    <3>1. cache[o] \in CacheType /\ cache'[o] = [cache[o] EXCEPT !.can = TRUE]
      BY DEF OpenResizeCheck, IInv, TypeInv
    <3>2. cache'[o] = [can |-> TRUE, pass |-> cache[o].pass, seen |-> cache[o].seen]
      BY <3>1 DEF CacheType
    <3>3. cache[o].pass \in BOOLEAN /\ cache[o].seen \in Seq(Nat)
      BY <3>1 DEF CacheType
    <3> QED
      BY <3>2, <3>3 DEF CacheType
  <2>3. /\ UNCHANGED <<setup, shape, compute, command, pc, at, index, needResize, mem>>
        /\ pc \in {"idle", "failed"}
    BY DEF OpenResizeCheck, memory, Quiet
  <2> QED
    BY <2>1, <2>3
<1>2. ops' = ops /\ usage' = usage /\ Tensors' = Tensors /\ Operators' = Operators
  BY <1>1, Stable DEF Operators, IsConst
<1>3. Anew' = Anew
  BY <1>1, AnewKept DEF Anew
<1>4. /\ \A o, v : Fits(o, v)' <=> Fits(o, v)
      /\ ~ Encoding' /\ ~ Making'
  BY <1>1, <1>2 DEF Fits, Encoding, Making
<1>5. \A o : Ready(o)' <=> Ready(o)
  BY <1>1, <1>4 DEF Ready
<1>6. Roots' /\ ConstSizes'
  BY <1>1, <1>2 DEF SizeInv, Roots, ConstSizes, Inputless
<1>7. SeenInv'
  <2>1. \A o \in Operators : o \in DOMAIN ops
    BY DEF Operators
  <2>2. pc # "failed" => \A o \in DOMAIN ops : ~ Reached(o)
    BY <1>1 DEF Reached, Encoding, Making
  <2> QED
    BY <1>1, <1>2, <1>4, <1>5, <2>1, <2>2 DEF SizeInv, SeenInv, Reached
<1>8. ExemptInv'
  BY <1>1, <1>2 DEF ExemptInv, Exempt, Operators
<1>9. PassInv'
  BY <1>4 DEF PassInv, Reached
<1>10. RestInv'
  <2>1. CommandsAnew'
    BY <1>1, <1>2, <1>3 DEF SizeInv, RestInv, CommandsAnew, RunAccepts, InSizes, IsConst
  <2> QED
    BY <1>1, <1>2, <1>5, <2>1 DEF SizeInv, RestInv
<1> QED
  BY <1>6, <1>7, <1>8, <1>9, <1>10 DEF SizeInv

\* A caller that gives an input another size lets the next resize begin anew.
LEMMA ResizeTensorSized ==
  ASSUME IInv, SizeInv, Careful, NEW t \in Tensors, NEW n \in Sizes, ResizeTensor(t, n) PROVE SizeInv'
<1> DEFINE s == [shape EXCEPT ![t] = n]
<1>1. /\ UNCHANGED <<setup, cache, compute, command, mem, pc, at, index>>
      /\ pc \in {"idle", "failed"} /\ usage[t] = "input" /\ shape' = s /\ n # 0 /\ needResize'
      /\ ExemptUnchanged(cache, s)
  BY SizesAssumption DEF ResizeTensor, Quiet, Inputs, Careful, Careless
<1>2. /\ setup \in Setups /\ shape \in [Tensors -> Nat]
      /\ ops' = ops /\ usage' = usage /\ Tensors' = Tensors /\ Operators' = Operators
      /\ \A u \in Tensors : shape'[u] = IF u = t THEN n ELSE shape[u]
  BY <1>1, Stable DEF IInv, TypeInv, Operators, IsConst
<1>3. Anew' = AnewFrom(s)
  <2>1. setup' = setup /\ \A u \in Tensors : shape'[u] = s[u]
    BY <1>1
  <2> HIDE DEF s
  <2> QED
    BY <2>1, AnewKept
<1> HIDE DEF s
<1>4. \A o \in DOMAIN ops :
        /\ ops[o].out \in Tensors /\ shape'[ops[o].out] = shape[ops[o].out]
        /\ \A i \in DOMAIN ops[o].in : ops[o].in[i] \in Tensors
  BY <1>1, <1>2, SetupFacts
<1>5. \A o \in DOMAIN ops : \A v : Fits(o, v)' <=> Fits(o, v)
  BY <1>2, <1>4 DEF Fits
<1>6. /\ \A o \in DOMAIN ops : Ready(o)' <=> Ready(o)
      /\ ~ Encoding' /\ ~ Making' /\ ~ Encoding /\ ~ Making
      /\ \A o \in Operators : o \in DOMAIN ops /\ ~ IsConst(o)
  BY <1>1, <1>5 DEF Ready, Encoding, Making, Operators
<1>7. Roots'
  <2> SUFFICES ASSUME NEW o \in DOMAIN ops, NEW u \in ToSet(ops[o].in), Inputless(u)
               PROVE  shape'[u] # 0
    BY <1>2 DEF Roots, Inputless
  <2>1. u \in Tensors
    BY <1>2, Produced
  <2> QED
    BY <1>1, <1>2, <2>1 DEF SizeInv, Roots
<1>8. ConstSizes'
  BY <1>1, <1>2 DEF SizeInv, ConstSizes
<1>9. SeenInv'
  BY <1>1, <1>2, <1>5, <1>6 DEF SizeInv, SeenInv, Reached
<1>10. ExemptInv'
  <2> SUFFICES ASSUME NEW o \in Operators, Exempt(cache, o) PROVE Ready(o)' /\ command[o].made = InSizes(o, Anew)'
    BY <1>1, <1>2, <1>6 DEF ExemptInv, Exempt
  <2>1. Ready(o)'
    BY <1>6 DEF SizeInv, ExemptInv
  <2>2. command[o].made = InSizes(o, AnewFrom(s))
    BY <1>1, <1>6 DEF ExemptUnchanged
  <2>3. InSizes(o, Anew)' = InSizes(o, AnewFrom(s))
    BY <1>2, <1>3 DEF InSizes
  <2> QED
    BY <2>1, <2>2, <2>3
<1>11. PassInv'
  BY <1>6 DEF PassInv, Reached
<1>12. RestInv'
  <2>1. CommandsAnew'
    BY <1>1 DEF CommandsAnew, RunAccepts
  <2>2. \A o \in DOMAIN ops : \A i \in DOMAIN ops[o].in :
          usage[ops[o].in[i]] # "input" => shape'[ops[o].in[i]] = shape[ops[o].in[i]]
    BY <1>1, <1>2, <1>4
  <2> QED
    BY <1>1, <1>2, <1>6, <2>1, <2>2 DEF SizeInv, RestInv
<1> QED
  BY <1>7, <1>8, <1>9, <1>10, <1>11, <1>12 DEF SizeInv

LEMMA ResizeSized ==
  ASSUME IInv, SizeInv, Careful, Resize PROVE SizeInv'
<1>1. /\ UNCHANGED setup /\ UNCHANGED structure /\ needResize' = needResize
      /\ pc \in {"idle", "failed"} /\ pc' = "shape" /\ at' = 1 /\ index' = 0
      /\ mem' = Forget(mem, "main")
      /\ pc = "failed" => ~ \E o \in DOMAIN ops : cache[o].can
  BY DEF Resize, Reset, Continue, Quiet, Careful, Careless
<1>2. /\ ops' = ops /\ usage' = usage /\ Tensors' = Tensors /\ Operators' = Operators
      /\ Anew' = Anew /\ Roots'
      /\ \A o, v : Fits(o, v)' <=> Fits(o, v)
      /\ \A o : Ready(o)' <=> Ready(o)
      /\ shape' = shape /\ cache' = cache /\ command' = command
  BY <1>1, Unsized DEF IInv, SizeInv, structure
<1>3. \A o \in DOMAIN ops : o \in Nat \ {0}
  BY SetupFacts DEF IInv, TypeInv
<1>4. \A o \in DOMAIN ops : ~ (o < at') /\ ~ Reached(o)' /\ ~ Reached(o)
  BY <1>1, <1>3 DEF Reached, Encoding, Making
<1>5. ConstSizes'
  BY <1>1, <1>2, ConstSizesKept DEF SizeInv, Forget
<1>6. SeenInv'
  BY <1>1, <1>2, <1>4 DEF IInv, SizeInv, SeenInv, Operators, Passed
<1>7. ExemptInv'
  BY <1>1, <1>2, <1>4 DEF SizeInv, ExemptInv, Exempt, InSizes, Operators
<1>8. PassInv'
  BY <1>2, <1>4 DEF PassInv
<1>9. RestInv'
  BY <1>1 DEF RestInv, CommandsAnew, RunAccepts
<1> QED
  BY <1>2, <1>5, <1>6, <1>7, <1>8, <1>9 DEF SizeInv

LEMMA FoldConstantSized ==
  ASSUME IInv, SizeInv, FoldConstant PROVE SizeInv'
<1>1. PICK o \in DOMAIN ops : o = at - 1 /\ pc = "constant" /\ IsConst(o)
  BY DEF FoldConstant, IInv, Constants
<1>2. /\ UNCHANGED setup /\ UNCHANGED structure /\ UNCHANGED <<index, needResize>>
      /\ \/ pc' = "shape" /\ at' = at
         \/ pc' = "failed"
      /\ \A t \in Tensors : mem'[t] = mem[t] \/ t = ops[o].out
  BY <1>1 DEF FoldConstant, IInv, TypeInv, Acquired, Continue, Fail, memory
<1>3. index = 0
  BY <1>1 DEF IInv, TypeInv, Groups
<1>4. shape[ops[o].out] # 0
  <2>1. o < at
    BY <1>1, SetupFacts DEF IInv, TypeInv
  <2> QED
    BY <1>1, <1>3, <2>1 DEF SizeInv, PassInv, Reached, Encoding, Right
<1>5. /\ ops' = ops /\ usage' = usage /\ Tensors' = Tensors /\ Operators' = Operators
      /\ Anew' = Anew /\ Roots'
      /\ \A p, v : Fits(p, v)' <=> Fits(p, v)
      /\ \A p : Ready(p)' <=> Ready(p)
      /\ \A p : Right(p)' <=> Right(p)
      /\ \A p : IsConst(p)' <=> IsConst(p)
      /\ shape' = shape /\ cache' = cache /\ command' = command /\ compute' = compute
  BY <1>2, Unsized DEF IInv, SizeInv, structure
<1>6. ConstSizes'
  <2>1. \A t \in Tensors : usage[t] = "constant" /\ mem'[t] = "static" => shape[t] = 1
    BY <1>2, <1>4 DEF SizeInv, ConstSizes
  <2> QED
    BY <1>5, <2>1 DEF SizeInv, ConstSizes
<1>7. CASE pc' = "failed"
  BY <1>2, <1>3, <1>6, <1>7, FailureSized DEF IInv
<1>8. CASE pc' = "shape" /\ at' = at
  <2>1. /\ \A p : Reached(p)' <=> Reached(p)
        /\ Encoding /\ Encoding' /\ ~ Making /\ ~ Making' /\ pc \notin {"failed", "idle"}
    BY <1>1, <1>8 DEF Reached, Encoding, Making
  <2>2. SeenInv'
    BY <1>2, <1>5, <1>8, <2>1 DEF SizeInv, SeenInv, InSizes
  <2>3. ExemptInv'
    BY <1>5, <1>8, <2>1 DEF SizeInv, ExemptInv, Exempt, InSizes
  <2>4. PassInv'
    BY <1>2, <1>5, <1>8, <2>1 DEF SizeInv, PassInv, InSizes
  <2>5. RestInv'
    BY <1>2, <1>3, <1>8 DEF RestInv, CommandsAnew, RunAccepts
  <2> QED
    BY <1>5, <1>6, <2>2, <2>3, <2>4, <2>5 DEF SizeInv
<1> QED
  BY <1>2, <1>7, <1>8

LEMMA BeginAllocSized ==
  ASSUME IInv, SizeInv, BeginAlloc PROVE SizeInv'
<1>1. /\ UNCHANGED setup /\ UNCHANGED structure /\ UNCHANGED <<index, needResize>>
      /\ pc = "shape" /\ at > 3 * Len(ops) /\ pc' = "alloc"
      /\ mem' = Forget(mem, "main")
  BY DEF BeginAlloc, Reset, Continue
<1>2. index = 0
  BY <1>1 DEF IInv, TypeInv, Groups
<1>3. /\ ops' = ops /\ usage' = usage /\ Tensors' = Tensors /\ Operators' = Operators
      /\ Anew' = Anew /\ Roots'
      /\ \A p, v : Fits(p, v)' <=> Fits(p, v)
      /\ \A p : Ready(p)' <=> Ready(p)
      /\ \A p : Right(p)' <=> Right(p)
      /\ \A p : IsConst(p)' <=> IsConst(p)
      /\ shape' = shape /\ cache' = cache /\ command' = command /\ compute' = compute
  BY <1>1, Unsized DEF IInv, SizeInv, structure
<1>4. ASSUME NEW o \in DOMAIN ops
      PROVE  o < at /\ at > Len(ops) + o /\ at > 2 * Len(ops) + o /\ Reached(o) /\ Reached(o)'
  <2>1. PICK n \in Nat : n = Len(ops)
    BY SetupFacts DEF IInv, TypeInv
  <2>2. o \in 1 .. n /\ at \in Nat
    BY <2>1, SetupFacts DEF IInv, TypeInv
  <2>3. at > 3 * n
    BY <1>1, <2>1
  <2>4. o < at /\ at > n + o /\ at > 2 * n + o
    BY <2>2, <2>3
  <2> QED
    BY <1>1, <2>1, <2>4 DEF Reached, Encoding, Making
<1>5. ConstSizes'
  BY <1>1, <1>3, ConstSizesKept DEF SizeInv, Forget
<1>6. \A o \in Operators : o \in DOMAIN ops
  BY DEF Operators
<1>7. ~ Encoding' /\ pc' \notin {"idle", "failed"}
  BY <1>1 DEF Encoding
<1>8. SeenInv'
  BY <1>1, <1>3, <1>4, <1>6 DEF SizeInv, SeenInv, InSizes
<1>9. ExemptInv'
  BY <1>3, <1>7 DEF SizeInv, ExemptInv, Exempt, InSizes
<1>10. PassInv'
  BY <1>1, <1>2, <1>3, <1>4 DEF SizeInv, PassInv, InSizes
<1>11. RestInv'
  BY <1>1, <1>2, <1>7 DEF RestInv, CommandsAnew, RunAccepts
<1> QED
  BY <1>3, <1>5, <1>8, <1>9, <1>10, <1>11 DEF SizeInv

\* While a plan is made every constant has its memory, and its size.
LEMMA MakingConstants ==
  ASSUME IInv, ConstSizes, Making, UNCHANGED <<setup, shape>>
  PROVE  ConstSizes'
<1>1. \A t \in Tensors : usage[t] = "constant" => mem[t] = "static"
  BY AllocFolded DEF Making
<1> QED
  BY <1>1, Stable DEF ConstSizes

LEMMA PlanSized ==
  ASSUME IInv, SizeInv, Careful, Acquire \/ ResizeCommand \/ Recycle PROVE SizeInv'
<1>1. UNCHANGED setup /\ UNCHANGED structure /\ UNCHANGED needResize /\ pc = "alloc"
  BY DEF Acquire, ResizeCommand, Recycle
<1>2. \/ pc' \in {"alloc", "end"} /\ index' = index
      \/ pc' = "failed" /\ index' = 0
  <2>1. AllocFails => pc' = "failed" /\ index' = 0
    BY DEF AllocFails, Careful, Careless
  <2> QED
    BY <1>1, <2>1 DEF Acquire, ResizeCommand, Recycle, Continue
<1>3. Making /\ ConstSizes'
  BY <1>1, MakingConstants DEF Making, SizeInv, structure
<1> QED
  BY <1>1, <1>2, <1>3, FailureSized, MakingSized DEF IInv, Making

LEMMA EndAllocSized ==
  ASSUME IInv, SizeInv, Careful, EndAlloc PROVE SizeInv'
<1>1. UNCHANGED setup /\ UNCHANGED structure /\ pc = "end" /\ Making
  BY DEF EndAlloc, Making
<1>2. ConstSizes'
  BY <1>1, MakingConstants DEF SizeInv, structure
<1>3. CASE AllocFails
  <2>1. pc' = "failed" /\ index' = 0
    BY <1>3 DEF AllocFails, Careful, Careless
  <2> QED
    BY <1>1, <1>2, <2>1, FailureSized DEF IInv
<1>4. CASE /\ pc' = "idle" /\ index' = 0
           /\ needResize' = (IF index = 0 THEN FALSE ELSE needResize)
  <2>1. /\ ops' = ops /\ usage' = usage /\ Tensors' = Tensors /\ Operators' = Operators
        /\ Anew' = Anew /\ Roots'
        /\ \A p, v : Fits(p, v)' <=> Fits(p, v)
        /\ \A p : Ready(p)' <=> Ready(p)
        /\ \A p : Right(p)' <=> Right(p)
        /\ \A p : IsConst(p)' <=> IsConst(p)
        /\ shape' = shape /\ cache' = cache /\ command' = command /\ compute' = compute
    BY <1>1, Unsized DEF IInv, SizeInv, structure
  <2>2. /\ \A p : Reached(p) /\ ~ Reached(p)'
        /\ ~ Encoding' /\ index \in {0, 1}
        /\ \A p \in Operators : p \in DOMAIN ops /\ ~ IsConst(p)
    BY <1>1, <1>4 DEF Reached, Encoding, Making, Operators, IInv, TypeInv
  <2>3. ASSUME index = 0, NEW p \in Operators
        PROVE  /\ Ready(p) /\ Right(p) /\ command[p].made = InSizes(p, Anew)
               /\ command[p].made = InSizes(p, shape)
    <3>1. \A q \in DOMAIN ops : Right(q)
      BY <2>2, <2>3 DEF SizeInv, PassInv
    <3>2. command[p].exe /\ command[p].made = InSizes(p, shape)
      BY <1>1, <2>2, <2>3 DEF SizeInv, PassInv
    <3>3. Fits(p, InSizes(p, shape)) /\ InSizes(p, shape) = InSizes(p, Anew)
      BY <2>2, <3>1, RightFits DEF IInv, SizeInv
    <3>4. InSizes(p, shape) # <<>>
      BY <2>2, SizesKnown DEF IInv
    <3> QED
      BY <2>2, <3>1, <3>2, <3>3, <3>4 DEF Ready
  <2>4. SeenInv'
    BY <1>4, <2>1, <2>2, <2>3 DEF SizeInv, SeenInv
  <2>5. ExemptInv'
    BY <2>1, <2>2 DEF SizeInv, ExemptInv, Exempt, InSizes
  <2>6. PassInv'
    BY <2>2 DEF PassInv
  <2>7. RestInv'
    <3>1. ASSUME index = 0, NEW p \in Operators, NEW i \in DOMAIN ops[p].in
          PROVE  command[p].made[i] = shape[ops[p].in[i]]
      <4>1. InSizes(p, shape)[i] = shape[ops[p].in[i]]
        BY <3>1 DEF InSizes
      <4> QED
        BY <2>3, <3>1, <4>1
    <3>2. CommandsAnew'
      <4> SUFFICES ASSUME ~ needResize', NEW p \in DOMAIN ops, ~ IsConst(p)
                   PROVE  /\ command[p].exe /\ command[p].made = InSizes(p, Anew)
                          /\ shape[ops[p].out] = Anew[ops[p].out]
        BY <2>1 DEF CommandsAnew, RunAccepts, InSizes
      <4>1. index = 0
        BY <1>4, <2>2 DEF SizeInv, RestInv
      <4>2. p \in Operators
        BY DEF Operators
      <4> QED
        BY <2>3, <4>1, <4>2 DEF Ready, Right
    <3>3. ASSUME NEW p \in Operators, command[p].exe
          PROVE  /\ Ready(p)
                 /\ \A i \in DOMAIN ops[p].in :
                      usage[ops[p].in[i]] # "input" => command[p].made[i] = shape[ops[p].in[i]]
      <4>1. CASE index = 0
        BY <2>3, <3>1, <4>1
      <4>2. CASE index = 1
        BY <3>3, <4>2 DEF SizeInv, RestInv
      <4> QED
        BY <2>2, <4>1, <4>2
    <3> QED
      BY <1>4, <2>1, <3>2, <3>3 DEF RestInv
  <2> QED
    BY <1>2, <2>1, <2>4, <2>5, <2>6, <2>7 DEF SizeInv
<1> QED
  BY <1>3, <1>4 DEF EndAlloc, Continue

\* What the cache passes over is right already; what it computes becomes right.
LEMMA ComputeShapeSized ==
  ASSUME IInv, SizeInv, ComputeShape PROVE SizeInv'
<1>0. PICK o \in DOMAIN ops : o = at
  BY SetupFacts DEF ComputeShape, IInv, TypeInv
<1> DEFINE r == ops[o].out
<1>1. /\ UNCHANGED <<setup, command, index, needResize>>
      /\ ops' = ops /\ usage' = usage /\ Tensors' = Tensors
      /\ pc = "shape" /\ Drop(Cleared(o)) /\ index = 0
      /\ setup \in Setups /\ shape \in [Tensors -> Nat] /\ TypeInv
  BY <1>0, Stable DEF ComputeShape, IInv, TypeInv, Groups
<1>2. \/ /\ Match(o) /\ pc' = "shape" /\ at' = o + 1
         /\ compute' = [compute EXCEPT ![o] = FALSE] /\ cache' = cache /\ shape' = shape
      \/ /\ ~ Match(o) /\ Compatible(o, shape)
         /\ pc' \in {"constant", "shape"} /\ at' = o + 1
         /\ shape' = [shape EXCEPT ![r] = OutSize(o, shape)]
         /\ cache' = [cache EXCEPT ![o] = Inserted(o)]
         /\ compute' = [compute EXCEPT ![o] = TRUE]
      \/ /\ ~ Match(o) /\ pc' = "failed" /\ at' = at
         /\ cache' = [cache EXCEPT ![o] = Compared(o)] /\ compute' = compute /\ shape' = shape
  BY <1>0, Zenon DEF ComputeShape, Continue, Fail
<1>3. /\ r \in Tensors /\ usage[r] # "input" /\ (IsConst(o) <=> usage[r] = "constant")
      /\ o \in Nat \ {0} /\ o <= Len(ops) /\ Len(ops) \in Nat
      /\ \A p \in DOMAIN ops : /\ p \in Nat \ {0} /\ p <= Len(ops) /\ ops[p].out \in Tensors
                               /\ ops[p].out = r => p = o
                               /\ \A i \in DOMAIN ops[p].in : ops[p].in[i] = r => o < p
  BY <1>1, SetupFacts
<1>4. /\ cache[o] \in CacheType /\ InSizes(o, shape) # <<>>
      /\ cache \in [DOMAIN ops -> CacheType] /\ compute \in [DOMAIN ops -> BOOLEAN]
  BY <1>1, SizesKnown DEF TypeInv
<1>5. \A t \in Tensors : t # r => shape'[t] = shape[t]
  BY <1>1, <1>2
<1>6. Operators' = Operators /\ \A p : IsConst(p)' <=> IsConst(p)
  BY <1>1 DEF Operators, IsConst
<1>7. Anew' = Anew
  <2>1. \A t \in Tensors : Inputless(t) => t # r
    BY DEF Inputless
  <2> QED
    BY <1>1, <1>5, <2>1, AnewKept DEF Anew
\* What is before the operation is right, and so are its inputs.
<1>8. \A p \in DOMAIN ops : p < o => Right(p) /\ Reached(p)
  BY <1>0, <1>1 DEF SizeInv, PassInv, Reached, Encoding
<1>9. /\ \A i \in DOMAIN ops[o].in : shape[ops[o].in[i]] # 0
      /\ InSizes(o, shape) = InSizes(o, Anew)
      /\ Anew[r] = Result(o, shape)
  BY <1>1, <1>8, InputsRight DEF SizeInv
<1>10. ~ Reached(o) /\ (o \in Operators \/ IsConst(o))
  BY <1>0, <1>1, <1>3 DEF Reached, Encoding, Making, Operators
<1>11. ASSUME NEW p \in DOMAIN ops, p # o
       PROVE  /\ shape'[ops[p].out] = shape[ops[p].out] /\ cache'[p] = cache[p]
              /\ compute'[p] <=> compute[p]
              /\ \A v : Fits(p, v)' <=> Fits(p, v)
              /\ Ready(p)' <=> Ready(p)
              /\ Right(p)' <=> Right(p)
              /\ p < o => InSizes(p, shape)' = InSizes(p, shape)
  <2>1. shape'[ops[p].out] = shape[ops[p].out]
    BY <1>3, <1>5, <1>11
  <2>2. cache'[p] = cache[p] /\ (compute'[p] <=> compute[p])
    BY <1>2, <1>4, <1>11
  <2>3. \A v : Fits(p, v)' <=> Fits(p, v)
    BY <1>1, <2>1 DEF Fits
  <2>4. (Ready(p)' <=> Ready(p)) /\ (Right(p)' <=> Right(p))
    BY <1>1, <1>7, <2>1, <2>3 DEF Ready, Right
  <2>5. ASSUME p < o PROVE InSizes(p, shape)' = InSizes(p, shape)
    <3>1. \A i \in DOMAIN ops[p].in : ops[p].in[i] \in Tensors /\ ops[p].in[i] # r
      BY <1>1, <1>3, <2>5, SetupFacts
    <3> QED
      BY <1>1, <1>5, <3>1 DEF InSizes
  <2> QED
    BY <2>1, <2>2, <2>3, <2>4, <2>5
<1>12. InSizes(o, shape)' = InSizes(o, shape)
  <2>1. \A i \in DOMAIN ops[o].in : ops[o].in[i] \in Tensors /\ ops[o].in[i] # r
    BY <1>1, <1>3, SetupFacts
  <2> QED
    BY <1>1, <1>5, <2>1 DEF InSizes
<1>13. InSizes(o, Anew)' = InSizes(o, Anew) /\ \A p : InSizes(p, Anew)' = InSizes(p, Anew)
  BY <1>1, <1>7 DEF InSizes
<1>14. CASE Match(o)
  <2>1. /\ pc' = "shape" /\ at' = o + 1 /\ cache' = cache /\ shape' = shape
        /\ compute' = [compute EXCEPT ![o] = FALSE]
    BY <1>2, <1>14
  <2>2. cache[o].seen # <<>> \/ Exempt(cache, o)
    BY <1>4, <1>14 DEF Match, Exempt
  <2>3. /\ Right(o)
        /\ ~ IsConst(o) => Ready(o) /\ command[o].made = InSizes(o, shape)
        /\ ~ IsConst(o) /\ cache[o].seen # <<>> => cache[o].seen = InSizes(o, shape)
    <3>1. CASE IsConst(o)
      <4>1. Folded(o)
        BY <1>1, <1>4, <1>14, <3>1, PassedFolded DEF Match
      <4>2. shape[r] = 1
        BY <1>3, <3>1, <4>1 DEF SizeInv, ConstSizes, Folded
      <4>3. \A i \in DOMAIN ops[o].in : /\ usage[ops[o].in[i]] = "constant"
                                        /\ shape[ops[o].in[i]] = 1
        <5> TAKE i \in DOMAIN ops[o].in
        <5>1. ops[o].in[i] \in ToSet(ops[o].in) /\ ops[o].in[i] \in Tensors
          BY <1>1, SetupFacts DEF ToSet
        <5>2. usage[ops[o].in[i]] = "constant"
          BY <1>1, <3>1, <5>1, ConstFacts
        <5> QED
          BY <1>9, <5>1, <5>2 DEF SizeInv, ConstSizes
      <4>4. Result(o, shape) = 1
        <5>1. 1 \in DOMAIN ops[o].in
          BY <1>1, SetupFacts
        <5> QED
          BY <1>9, <4>3, <5>1 DEF Result, Compatible, OutSize
      <4> QED
        BY <1>9, <3>1, <4>2, <4>4 DEF Right
    <3>2. CASE o \in Operators /\ cache[o].seen # <<>>
      <4>1. cache[o].seen = InSizes(o, shape)
        BY <1>14, <3>2 DEF Match, IInv, Passed
      <4>2. Fits(o, InSizes(o, shape)) /\ command[o].made = InSizes(o, shape) /\ Ready(o)
        BY <1>1, <1>10, <3>2, <4>1 DEF SizeInv, SeenInv
      <4> QED
        BY <1>1, <1>9, <4>1, <4>2, FitsResult DEF Right
    <3>3. CASE o \in Operators /\ Exempt(cache, o)
      <4>1. Ready(o) /\ command[o].made = InSizes(o, shape)
        BY <1>9, <3>3 DEF SizeInv, ExemptInv
      <4>2. Fits(o, InSizes(o, shape))
        BY <4>1 DEF Ready
      <4>3. cache[o].seen = <<>>
        BY <3>3 DEF Exempt, IInv, Passed
      <4> QED
        BY <1>1, <1>9, <4>1, <4>2, <4>3, FitsResult DEF Right
    <3> QED
      BY <1>10, <2>2, <3>1, <3>2, <3>3
  <2>4. /\ \A p : IsConst(p)' <=> IsConst(p)
        /\ Right(o)' <=> Right(o)
        /\ Ready(o)' <=> Ready(o)
        /\ \A v : Fits(o, v)' <=> Fits(o, v)
        /\ ~ compute'[o] /\ InSizes(o, shape)' = InSizes(o, shape)
    <3>1. \A v : Fits(o, v)' <=> Fits(o, v)
      BY <1>1, <2>1 DEF Fits
    <3> QED
      BY <1>1, <1>4, <1>6, <1>7, <1>12, <2>1, <3>1 DEF Right, Ready
  <2>5. \A p \in DOMAIN ops : Reached(p)' => p = o \/ (p # o /\ p < o /\ Reached(p))
    BY <1>0, <1>1, <1>3, <2>1 DEF Reached, Encoding, Making
  <2>6. \A p \in DOMAIN ops : ~ Reached(p)' => p # o /\ ~ Reached(p)
    BY <1>0, <1>1, <1>3, <2>1 DEF Reached, Encoding, Making
  <2>7. SeenInv'
    <3> SUFFICES ASSUME NEW p \in Operators, cache[p].seen # <<>>
                 PROVE  /\ Fits(p, cache[p].seen)'
                        /\ Reached(p)' => cache[p].seen = InSizes(p, shape)'
                        /\ ~ Reached(p)' => command[p].made = cache[p].seen /\ Ready(p)'
      BY <1>1, <1>6, <2>1 DEF SeenInv
    <3>1. p \in DOMAIN ops /\ ~ IsConst(p) /\ Fits(p, cache[p].seen)
      BY DEF Operators, SizeInv, SeenInv
    <3>2. CASE p = o
      BY <2>1, <2>3, <2>4, <2>6, <3>1, <3>2
    <3>3. CASE p # o
      <4>1. Fits(p, cache[p].seen)' /\ (Ready(p)' <=> Ready(p))
        BY <1>11, <2>1, <3>1, <3>3
      <4>2. ASSUME Reached(p)' PROVE cache[p].seen = InSizes(p, shape)'
        BY <1>11, <2>5, <3>1, <3>3, <4>2 DEF SizeInv, SeenInv
      <4>3. ASSUME ~ Reached(p)' PROVE command[p].made = cache[p].seen /\ Ready(p)'
        BY <1>1, <2>6, <3>1, <4>1, <4>3 DEF SizeInv, SeenInv
      <4> QED
        BY <4>1, <4>2, <4>3
    <3> QED
      BY <3>2, <3>3
  <2>8. ExemptInv'
    <3> SUFFICES ASSUME NEW p \in Operators, Exempt(cache, p)
                 PROVE  /\ Ready(p)' /\ command[p].made = InSizes(p, Anew)
                        /\ p < at' => ~ compute'[p]
      BY <1>1, <1>6, <1>13, <2>1 DEF ExemptInv, Exempt
    <3>1. p \in DOMAIN ops /\ Ready(p) /\ command[p].made = InSizes(p, Anew)
      BY DEF Operators, SizeInv, ExemptInv
    <3>2. CASE p = o
      BY <2>4, <3>1, <3>2
    <3>3. CASE p # o
      <4>1. p < at' => p < at
        BY <1>0, <1>3, <2>1, <3>1, <3>3
      <4>2. p < at => ~ compute[p]
        BY <1>1 DEF SizeInv, ExemptInv, Encoding
      <4> QED
        BY <1>11, <3>1, <3>3, <4>1, <4>2
    <3> QED
      BY <3>2, <3>3
  <2>9. PassInv'
    <3> SUFFICES ASSUME NEW p \in DOMAIN ops, Reached(p)'
                 PROVE  /\ Right(p)'
                        /\ ~ IsConst(p) /\ ~ compute'[p] => Ready(p)' /\ command[p].made = InSizes(p, shape)'
                        /\ ~ Making' /\ ~ (at' > Len(ops) + p) /\ ~ (at' > 2 * Len(ops) + p)
      BY <1>1, <1>6 DEF PassInv
    <3>1. ~ Making' /\ ~ (at' > Len(ops) + p) /\ ~ (at' > 2 * Len(ops) + p)
      BY <1>3, <2>1 DEF Making
    <3>2. CASE p = o
      BY <2>3, <2>4, <3>1, <3>2
    <3>3. CASE p # o
      <4>1. p < o /\ Reached(p)
        BY <2>5, <3>3
      <4> QED
        BY <1>1, <1>11, <3>1, <3>3, <4>1 DEF SizeInv, PassInv
    <3> QED
      BY <3>2, <3>3
  <2>10. Roots' /\ ConstSizes'
    <3>1. \A t \in Tensors : mem'[t] = "static" => mem[t] = "static"
      <4>1. Cleared(o) \in SUBSET Tensors
        BY <1>3 DEF Cleared
      <4> QED
        BY <1>1, <4>1, DropFacts
    <3> QED
      BY <1>1, <2>1, <3>1, ConstSizesKept DEF SizeInv, Roots, Inputless
  <2>11. RestInv'
    BY <1>1, <2>1 DEF RestInv, CommandsAnew, RunAccepts
  <2> QED
    BY <2>7, <2>8, <2>9, <2>10, <2>11 DEF SizeInv
<1>15. CASE ~ Match(o)
  <2>0. \A p : p \in Operators => p \in DOMAIN ops /\ ~ IsConst(p)
    BY DEF Operators
  <2>1. \/ Inserted(o).can
        \/ Inserted(o).seen = <<>> /\ ~ Inserted(o).pass
    <3>1. Closed(o, FALSE).pass = FALSE /\ Closed(o, FALSE).can = FALSE /\ Closed(o, FALSE).seen = <<>>
      BY DEF Closed
    <3>2. Compared(o) = cache[o] \/ Compared(o) = Closed(o, FALSE)
      BY DEF Compared
    <3>3. CASE Compared(o) = Closed(o, FALSE)
      BY <3>1, <3>3 DEF Inserted
    <3>4. CASE Compared(o) = cache[o] /\ cache[o].can
      <4>1. Inserted(o) = [can |-> cache[o].can, pass |-> cache[o].pass, seen |-> InSizes(o, shape)]
        BY <1>4, <3>4 DEF Inserted, CacheType
      <4> QED
        BY <3>4, <4>1
    <3>5. CASE Compared(o) = cache[o] /\ ~ cache[o].can
      BY <1>15, <3>5 DEF Inserted, Match, IInv, Passed
    <3> QED
      BY <3>2, <3>3, <3>4, <3>5
  <2>2. Inserted(o).seen \in {<<>>, InSizes(o, shape)}
    <3>1. Closed(o, FALSE).can = FALSE /\ Closed(o, FALSE).seen = <<>>
      BY DEF Closed
    <3>2. Compared(o) = cache[o] \/ Compared(o) = Closed(o, FALSE)
      BY DEF Compared
    <3>3. CASE Compared(o) = Closed(o, FALSE)
      BY <3>1, <3>3 DEF Inserted
    <3>4. CASE Compared(o) = cache[o] /\ cache[o].can
      <4>1. Inserted(o) = [can |-> cache[o].can, pass |-> cache[o].pass, seen |-> InSizes(o, shape)]
        BY <1>4, <3>4 DEF Inserted, CacheType
      <4> QED
        BY <4>1
    <3>5. CASE Compared(o) = cache[o] /\ ~ cache[o].can
      BY <3>5 DEF Inserted, IInv, Passed
    <3> QED
      BY <3>2, <3>3, <3>4, <3>5
  <2>3. Compared(o).seen \in {<<>>, cache[o].seen} /\ ~ Exempt([cache EXCEPT ![o] = Compared(o)], o)
    <3>1. Closed(o, FALSE).pass = FALSE /\ Closed(o, FALSE).seen = <<>>
      BY DEF Closed
    <3>2. Compared(o) = cache[o] \/ Compared(o) = Closed(o, FALSE)
      BY DEF Compared
    <3>3. ~ Exempt(cache, o)
      BY <1>15 DEF Match, Exempt
    <3>4. [cache EXCEPT ![o] = Compared(o)][o] = Compared(o)
      BY <1>4
    <3> QED
      BY <3>1, <3>2, <3>3, <3>4 DEF Exempt
  <2>4. CASE /\ pc' = "failed" /\ at' = at
             /\ cache' = [cache EXCEPT ![o] = Compared(o)] /\ compute' = compute /\ shape' = shape
    <3>1. cache'[o] = Compared(o) /\ ~ Exempt(cache', o) /\ ~ Encoding' /\ ~ Making'
      BY <1>4, <2>3, <2>4 DEF Encoding, Making
    <3>2. \A v : Fits(o, v)' <=> Fits(o, v)
      BY <1>1, <2>4 DEF Fits
    <3>3. SeenInv'
      <4> SUFFICES ASSUME NEW p \in Operators, cache'[p].seen # <<>>
                   PROVE  Fits(p, cache[p].seen)'
        BY <1>1, <1>6, <2>4, <3>1 DEF SeenInv, Reached
      <4>1. CASE p = o
        BY <2>3, <3>1, <3>2, <4>1 DEF SizeInv, SeenInv
      <4>2. CASE p # o
        BY <1>11, <2>0, <4>2 DEF SizeInv, SeenInv
      <4> QED
        BY <4>1, <4>2
    <3>4. ExemptInv'
      <4> SUFFICES ASSUME NEW p \in Operators, Exempt(cache', p)
                   PROVE  Ready(p)' /\ command[p].made = InSizes(p, Anew)
        BY <1>1, <1>6, <1>13, <3>1 DEF ExemptInv
      <4>1. p # o /\ Exempt(cache, p)
        BY <1>11, <2>0, <3>1 DEF Exempt
      <4> QED
        BY <1>11, <2>0, <4>1 DEF SizeInv, ExemptInv
    <3>5. PassInv' /\ RestInv'
      BY <1>1, <2>4, <3>1 DEF PassInv, Reached, RestInv, CommandsAnew, RunAccepts
    <3>6. Roots' /\ ConstSizes'
      <4>1. \A t \in Tensors : mem'[t] = "static" => mem[t] = "static"
        <5>1. Cleared(o) \in SUBSET Tensors
          BY <1>3 DEF Cleared
        <5> QED
          BY <1>1, <5>1, DropFacts
      <4> QED
        BY <1>1, <2>4, <4>1, ConstSizesKept DEF SizeInv, Roots, Inputless
    <3> QED
      BY <3>3, <3>4, <3>5, <3>6 DEF SizeInv
  <2>5. CASE /\ Compatible(o, shape) /\ pc' \in {"constant", "shape"} /\ at' = o + 1
             /\ shape' = [shape EXCEPT ![r] = OutSize(o, shape)]
             /\ cache' = [cache EXCEPT ![o] = Inserted(o)]
             /\ compute' = [compute EXCEPT ![o] = TRUE]
    <3>1. /\ cache'[o] = Inserted(o) /\ ~ Exempt(cache', o) /\ Encoding' /\ ~ Making'
          /\ compute'[o] /\ shape'[r] = OutSize(o, shape)
      BY <1>1, <1>3, <1>4, <2>1, <2>5 DEF Encoding, Making, Exempt
    <3>2. OutSize(o, shape) = Result(o, shape) /\ OutSize(o, shape) # 0
      <4>1. 1 \in DOMAIN ops[o].in
        BY <1>1, SetupFacts
      <4> QED
        BY <1>9, <2>5, <4>1 DEF Result, OutSize
    <3>3. Right(o)'
      BY <1>1, <1>7, <1>9, <3>1, <3>2 DEF Right
    <3>4. Fits(o, InSizes(o, shape))'
      <4>1. \A i \in DOMAIN ops[o].in : InSizes(o, shape)[i] = shape[ops[o].in[i]]
        BY DEF InSizes
      <4>2. 1 \in DOMAIN ops[o].in
        BY <1>1, SetupFacts
      <4> DEFINE v == InSizes(o, shape)
      <4>3. /\ \A i, j \in DOMAIN ops[o].in :
                 (usage[ops[o].in[i]] # "constant" /\ usage[ops[o].in[j]] # "constant") => v[i] = v[j]
            /\ \A i \in DOMAIN ops[o].in : v[i] # 0
            /\ shape'[r] = IF ops[o].reduce THEN 1 ELSE v[1]
        BY <1>9, <2>5, <3>1, <4>1, <4>2 DEF Compatible, OutSize
      <4>4. v' = v
        BY <1>12
      <4> HIDE DEF v
      <4>5. Fits(o, v)'
        BY <1>1, <4>3, <4>4 DEF Fits
      <4> QED
        BY <4>5 DEF v
    <3>5. \A p \in DOMAIN ops : Reached(p)' => p = o \/ (p # o /\ p < o /\ Reached(p))
      BY <1>0, <1>1, <1>3, <2>5, <3>1 DEF Reached, Encoding
    <3>6. \A p \in DOMAIN ops : ~ Reached(p)' => p # o /\ ~ Reached(p)
      BY <1>0, <1>1, <1>3, <2>5, <3>1 DEF Reached, Encoding, Making
    <3>7. SeenInv'
      <4> SUFFICES ASSUME NEW p \in Operators, cache'[p].seen # <<>>
                   PROVE  /\ Fits(p, cache[p].seen)'
                          /\ Reached(p)' => cache'[p].seen = InSizes(p, shape)'
                          /\ ~ Reached(p)' => command[p].made = cache'[p].seen /\ Ready(p)'
        BY <1>1, <1>6, <2>5 DEF SeenInv
      <4>1. CASE p = o
        <5>1. cache'[o].seen = InSizes(o, shape)'
          BY <1>12, <2>2, <3>1, <4>1
        <5> QED
          BY <2>0, <3>4, <3>6, <4>1, <5>1
      <4>2. CASE p # o
        <5>1. cache'[p] = cache[p] /\ (Ready(p)' <=> Ready(p)) /\ p \in DOMAIN ops
          BY <1>11, <2>0, <4>2 DEF SizeInv, SeenInv
        <5>2. ASSUME Reached(p)' PROVE cache[p].seen = InSizes(p, shape)'
          BY <1>11, <3>5, <4>2, <5>1, <5>2 DEF SizeInv, SeenInv
        <5>3. ASSUME ~ Reached(p)' PROVE command[p].made = cache[p].seen /\ Ready(p)'
          BY <1>1, <3>6, <5>1, <5>3 DEF SizeInv, SeenInv
        <5>4. Fits(p, cache[p].seen)'
          BY <1>11, <4>2, <5>1 DEF SizeInv, SeenInv
        <5> QED
          BY <5>1, <5>2, <5>3, <5>4
      <4> QED
        BY <4>1, <4>2
    <3>8. ExemptInv'
      <4> SUFFICES ASSUME NEW p \in Operators, Exempt(cache', p)
                   PROVE  /\ Ready(p)' /\ command[p].made = InSizes(p, Anew)
                          /\ p < at' => ~ compute'[p]
        BY <1>1, <1>6, <1>13 DEF ExemptInv
      <4>1. p # o /\ p \in DOMAIN ops /\ Exempt(cache, p)
        BY <1>11, <2>0, <3>1 DEF Exempt
      <4>2. p < at' => p < at
        BY <1>0, <1>3, <2>5, <4>1
      <4>3. Ready(p) /\ command[p].made = InSizes(p, Anew) /\ (p < at => ~ compute[p])
        BY <1>1, <4>1 DEF SizeInv, ExemptInv, Encoding
      <4> QED
        BY <1>11, <4>1, <4>2, <4>3
    <3>9. PassInv'
      <4> SUFFICES ASSUME NEW p \in DOMAIN ops, Reached(p)'
                   PROVE  /\ Right(p)'
                          /\ ~ IsConst(p) /\ ~ compute'[p] => Ready(p)' /\ command[p].made = InSizes(p, shape)'
                          /\ ~ Making' /\ ~ (at' > Len(ops) + p) /\ ~ (at' > 2 * Len(ops) + p)
        BY <1>1, <1>6 DEF PassInv
      <4>1. ~ Making' /\ ~ (at' > Len(ops) + p) /\ ~ (at' > 2 * Len(ops) + p)
        BY <1>3, <2>5, <3>1
      <4>2. CASE p = o
        BY <3>1, <3>3, <4>1, <4>2
      <4>3. CASE p # o
        <5>1. p < o /\ Reached(p)
          BY <3>5, <4>3
        <5> QED
          BY <1>1, <1>11, <4>1, <4>3, <5>1 DEF SizeInv, PassInv
      <4> QED
        BY <4>2, <4>3
    <3>10. Roots'
      <4> SUFFICES ASSUME NEW p \in DOMAIN ops, NEW u \in ToSet(ops[p].in), Inputless(u)
                   PROVE  shape'[u] # 0
        BY <1>1 DEF Roots, Inputless
      <4>1. u \in Tensors /\ u # r
        BY <1>1, Produced DEF Inputless
      <4> QED
        BY <1>5, <4>1 DEF SizeInv, Roots
    <3>11. ConstSizes'
      <4>1. \A t \in Tensors : mem'[t] = "static" => mem[t] = "static"
        <5>1. Cleared(o) \in SUBSET Tensors
          BY <1>3 DEF Cleared
        <5> QED
          BY <1>1, <5>1, DropFacts
      <4>2. ASSUME IsConst(o) PROVE OutSize(o, shape) = 1
        <5>1. 1 \in DOMAIN ops[o].in /\ ops[o].in[1] \in Tensors
          BY <1>1, SetupFacts
        <5>2. ops[o].in[1] \in ToSet(ops[o].in)
          BY <5>1 DEF ToSet
        <5>3. usage[ops[o].in[1]] = "constant"
          BY <1>1, <4>2, <5>2, ConstFacts
        <5> QED
          BY <1>9, <5>1, <5>3 DEF SizeInv, ConstSizes, OutSize
      <4> SUFFICES ASSUME NEW t \in Tensors, usage[t] = "constant"
                   PROVE  shape'[t] \in {0, 1} /\ (mem'[t] = "static" => shape'[t] = 1)
        BY <1>1 DEF ConstSizes
      <4>3. CASE t = r
        BY <1>3, <3>1, <4>2, <4>3
      <4>4. CASE t # r
        BY <1>5, <4>1, <4>4 DEF SizeInv, ConstSizes
      <4> QED
        BY <4>3, <4>4
    <3>12. RestInv'
      BY <1>1, <2>5 DEF RestInv, CommandsAnew, RunAccepts
    <3> QED
      BY <3>7, <3>8, <3>9, <3>10, <3>11, <3>12 DEF SizeInv
  <2> QED
    BY <1>2, <1>15, <2>4, <2>5
<1> QED
  BY <1>14, <1>15

\* While commands are made the sizes stand.
LEMMA CommandsOnly ==
  ASSUME TypeInv, UNCHANGED <<setup, shape, cache, compute>>
  PROVE  /\ ops' = ops /\ usage' = usage /\ Tensors' = Tensors /\ Operators' = Operators
         /\ Anew' = Anew
         /\ \A o, v : Fits(o, v)' <=> Fits(o, v)
         /\ \A o : Right(o)' <=> Right(o)
         /\ \A o : IsConst(o)' <=> IsConst(o)
         /\ \A o : InSizes(o, shape)' = InSizes(o, shape) /\ InSizes(o, Anew)' = InSizes(o, Anew)
         /\ Roots' <=> Roots
         /\ \A o \in Operators : o \in DOMAIN ops /\ ~ IsConst(o)
<1>1. ops' = ops /\ usage' = usage /\ Tensors' = Tensors /\ shape' = shape
  BY Stable
<1>2. Anew' = Anew
  BY <1>1, AnewKept DEF Anew
<1>3. /\ \A o, v : Fits(o, v)' <=> Fits(o, v)
      /\ \A o : IsConst(o)' <=> IsConst(o)
  BY <1>1 DEF Fits, IsConst
<1>4. \A o : Right(o)' <=> Right(o)
  BY <1>1, <1>2 DEF Right
<1>5. /\ \A o : InSizes(o, shape)' = InSizes(o, shape) /\ InSizes(o, Anew)' = InSizes(o, Anew)
      /\ Roots' <=> Roots
      /\ Operators' = Operators
  BY <1>1, <1>2 DEF InSizes, Roots, Inputless, Operators, IsConst
<1>6. \A o \in Operators : o \in DOMAIN ops /\ ~ IsConst(o)
  BY DEF Operators
<1> QED
  BY <1>1, <1>2, <1>3, <1>4, <1>5, <1>6

LEMMA TransformSized ==
  ASSUME IInv, SizeInv, Transform PROVE SizeInv'
<1>1. PICK o \in DOMAIN ops : o = at - Len(ops) /\ pc = "shape"
  BY DEF Transform
<1>2. /\ UNCHANGED <<setup, shape, cache, compute, mem, index, needResize>>
      /\ \/ /\ at' = at + 1 /\ pc' = "shape" /\ command' = command
            /\ IsConst(o) \/ ~ compute[o]
         \/ /\ at' = at + 1 /\ pc' = "shape" /\ compute[o]
            /\ command' = [command EXCEPT ![o] = [made |-> InSizes(o, shape), exe |-> FALSE, group |-> 0]]
         \/ /\ at' = at /\ pc' = "failed" /\ compute[o]
            /\ command' = [command EXCEPT ![o].made = <<>>]
  BY <1>1 DEF Transform, Continue, Fail, memory
<1>3. /\ ops' = ops /\ usage' = usage /\ Tensors' = Tensors /\ Operators' = Operators
      /\ Anew' = Anew /\ Roots'
      /\ \A p, v : Fits(p, v)' <=> Fits(p, v)
      /\ \A p : Right(p)' <=> Right(p)
      /\ \A p : IsConst(p)' <=> IsConst(p)
      /\ \A p : InSizes(p, shape)' = InSizes(p, shape) /\ InSizes(p, Anew)' = InSizes(p, Anew)
      /\ \A p \in Operators : p \in DOMAIN ops /\ ~ IsConst(p)
  BY <1>2, CommandsOnly DEF IInv, SizeInv
<1>4. index = 0 /\ command \in [DOMAIN ops -> CommandType] /\ compute \in [DOMAIN ops -> BOOLEAN]
  BY <1>1 DEF IInv, TypeInv, Groups
<1>5. ASSUME NEW p \in DOMAIN ops
      PROVE  /\ p < at /\ p < at + 1 /\ Reached(p)
             /\ at > Len(ops) + p <=> p < o
             /\ at + 1 > Len(ops) + p <=> (p < o \/ p = o)
             /\ ~ (at + 1 > 2 * Len(ops) + p)
  <2>1. PICK n \in Nat : n = Len(ops)
    BY SetupFacts DEF IInv, TypeInv
  <2>2. p \in 1 .. n /\ o \in 1 .. n /\ at \in Nat /\ o = at - n
    BY <1>1, <2>1, SetupFacts DEF IInv, TypeInv
  <2>3. at = n + o
    BY <2>2
  <2>4. /\ p < at /\ p < at + 1
        /\ at > n + p <=> p < o
        /\ at + 1 > n + p <=> (p < o \/ p = o)
        /\ ~ (at + 1 > 2 * n + p)
    BY <2>2, <2>3
  <2> QED
    BY <1>1, <2>1, <2>4 DEF Reached, Encoding
<1>6. \A p \in DOMAIN ops : p # o => command'[p] = command[p] /\ (Ready(p)' <=> Ready(p))
  BY <1>2, <1>3, <1>4 DEF Ready
<1>7. ConstSizes'
  BY <1>2, ConstSizesKept DEF SizeInv
<1>8. \A p \in Operators : Exempt(cache, p) => ~ compute[p]
  BY <1>1, <1>3, <1>5 DEF SizeInv, ExemptInv, Encoding
<1>9. ASSUME NEW p \in Operators, ~ compute[p] PROVE command'[p] = command[p] /\ (Ready(p)' <=> Ready(p))
  <2>1. CASE command' = command
    BY <1>3, <2>1 DEF Ready
  <2>2. CASE compute[o]
    BY <1>3, <1>6, <1>9, <2>2
  <2> QED
    BY <1>2, <2>1, <2>2
<1>10. SeenInv'
  <2>1. \A p \in DOMAIN ops : pc' # "failed" => Reached(p)'
    BY <1>2, <1>5 DEF Reached, Encoding
  <2> QED
    BY <1>2, <1>3, <1>5, <2>1 DEF SizeInv, SeenInv
<1>11. ExemptInv'
  BY <1>2, <1>3, <1>8, <1>9 DEF SizeInv, ExemptInv, Exempt
<1>12. RestInv'
  BY <1>2, <1>4 DEF RestInv, CommandsAnew, RunAccepts
<1>13. PassInv'
  <2>1. CASE pc' = "failed"
    BY <2>1 DEF PassInv, Reached, Encoding, Making
  <2>2. CASE pc' = "shape" /\ at' = at + 1
    <3> SUFFICES ASSUME NEW p \in DOMAIN ops
                 PROVE  /\ Right(p)
                        /\ ~ IsConst(p) =>
                             /\ ~ compute[p] => Ready(p)' /\ command'[p].made = InSizes(p, shape)
                             /\ at' > Len(ops) + p => command'[p].made = InSizes(p, shape)
                        /\ ~ Making' /\ ~ (at' > 2 * Len(ops) + p)
      BY <1>2, <1>3 DEF PassInv
    <3>1. Right(p) /\ ~ Making' /\ ~ (at' > 2 * Len(ops) + p)
      BY <1>4, <1>5, <2>2 DEF SizeInv, PassInv, Making
    <3>2. ASSUME ~ IsConst(p), ~ compute[p]
          PROVE Ready(p)' /\ command'[p].made = InSizes(p, shape)
      <4>1. p \in Operators
        BY <3>2 DEF Operators
      <4>2. Ready(p) /\ command[p].made = InSizes(p, shape)
        BY <1>4, <1>5, <3>2 DEF SizeInv, PassInv
      <4> QED
        BY <1>9, <3>2, <4>1, <4>2
    <3>3. ASSUME ~ IsConst(p), compute[p], at' > Len(ops) + p
          PROVE  command'[p].made = InSizes(p, shape)
      <4>1. p < o \/ p = o
        BY <1>5, <2>2, <3>3
      <4>2. CASE p = o
        <5>1. command' = [command EXCEPT ![o] = [made |-> InSizes(o, shape), exe |-> FALSE, group |-> 0]]
          BY <1>2, <2>2, <3>3, <4>2
        <5> QED
          BY <1>4, <4>2, <5>1
      <4>3. CASE p # o
        BY <1>4, <1>5, <1>6, <3>3, <4>1, <4>3 DEF SizeInv, PassInv
      <4> QED
        BY <4>2, <4>3
    <3> QED
      BY <3>1, <3>2, <3>3
  <2> QED
    BY <1>2, <2>1, <2>2
<1> QED
  BY <1>3, <1>7, <1>10, <1>11, <1>12, <1>13 DEF SizeInv

LEMMA CreateExecutionSized ==
  ASSUME IInv, SizeInv, CreateExecution PROVE SizeInv'
<1>1. PICK o \in DOMAIN ops : o = at - 2 * Len(ops) /\ pc = "shape"
  BY DEF CreateExecution
<1>2. /\ UNCHANGED <<setup, shape, cache, compute, mem, index, needResize>>
      /\ \/ /\ at' = at + 1 /\ pc' = "shape" /\ command' = command
            /\ IsConst(o) \/ ~ compute[o]
         \/ /\ at' = at + 1 /\ pc' = "shape"
            /\ command' = [command EXCEPT ![o].exe = TRUE]
         \/ /\ at' = at /\ pc' = "failed" /\ command' = command
  BY <1>1 DEF CreateExecution, Continue, Fail, memory
<1>3. /\ ops' = ops /\ usage' = usage /\ Tensors' = Tensors /\ Operators' = Operators
      /\ Anew' = Anew /\ Roots'
      /\ \A p, v : Fits(p, v)' <=> Fits(p, v)
      /\ \A p : Right(p)' <=> Right(p)
      /\ \A p : IsConst(p)' <=> IsConst(p)
      /\ \A p : InSizes(p, shape)' = InSizes(p, shape) /\ InSizes(p, Anew)' = InSizes(p, Anew)
      /\ \A p \in Operators : p \in DOMAIN ops /\ ~ IsConst(p)
  BY <1>2, CommandsOnly DEF IInv, SizeInv
<1>4. index = 0 /\ command \in [DOMAIN ops -> CommandType] /\ compute \in [DOMAIN ops -> BOOLEAN]
  BY <1>1 DEF IInv, TypeInv, Groups
<1>5. ASSUME NEW p \in DOMAIN ops
      PROVE  /\ p < at /\ p < at + 1 /\ Reached(p)
             /\ at > Len(ops) + p /\ at + 1 > Len(ops) + p
             /\ at > 2 * Len(ops) + p <=> p < o
             /\ at + 1 > 2 * Len(ops) + p <=> (p < o \/ p = o)
  <2>1. PICK n \in Nat : n = Len(ops)
    BY SetupFacts DEF IInv, TypeInv
  <2>2. p \in 1 .. n /\ o \in 1 .. n /\ at \in Nat /\ o = at - 2 * n
    BY <1>1, <2>1, SetupFacts DEF IInv, TypeInv
  <2>3. at = 2 * n + o
    BY <2>2
  <2>4. /\ p < at /\ p < at + 1
        /\ at > n + p /\ at + 1 > n + p
        /\ at > 2 * n + p <=> p < o
        /\ at + 1 > 2 * n + p <=> (p < o \/ p = o)
    BY <2>2, <2>3
  <2> QED
    BY <1>1, <2>1, <2>4 DEF Reached, Encoding
<1>6. \A p \in DOMAIN ops : p # o => command'[p] = command[p]
  BY <1>2, <1>4
<1>7. /\ \A p \in DOMAIN ops : command'[p].made = command[p].made
      /\ \A p \in DOMAIN ops : command[p].exe => command'[p].exe
      /\ pc' = "shape" /\ ~ IsConst(o) /\ compute[o] => command'[o].exe
  <2>1. CASE command' = [command EXCEPT ![o].exe = TRUE]
    <3>1. command'[o] = [command[o] EXCEPT !.exe = TRUE] /\ command[o] \in CommandType
      BY <1>4, <2>1
    <3>2. command'[o].made = command[o].made /\ command'[o].exe
      BY <3>1 DEF CommandType
    <3> QED
      BY <1>6, <3>2
  <2>2. CASE command' = command /\ (pc' = "failed" \/ IsConst(o) \/ ~ compute[o])
    BY <2>2
  <2> QED
    BY <1>2, <2>1, <2>2
<1>8. \A p \in DOMAIN ops : Ready(p) => Ready(p)'
  BY <1>3, <1>7 DEF Ready
<1>9. ConstSizes'
  BY <1>2, ConstSizesKept DEF SizeInv
<1>10. SeenInv'
  <2>1. \A p \in DOMAIN ops : pc' # "failed" => Reached(p)'
    BY <1>2, <1>5 DEF Reached, Encoding
  <2> QED
    BY <1>2, <1>3, <1>5, <2>1 DEF SizeInv, SeenInv
<1>11. ExemptInv'
  <2>1. \A p \in Operators : Exempt(cache, p) => ~ compute[p]
    BY <1>1, <1>3, <1>5 DEF SizeInv, ExemptInv, Encoding
  <2> QED
    BY <1>2, <1>3, <1>7, <1>8, <2>1 DEF SizeInv, ExemptInv, Exempt
<1>12. RestInv'
  BY <1>2, <1>4 DEF RestInv, CommandsAnew, RunAccepts
<1>13. PassInv'
  <2>1. CASE pc' = "failed"
    BY <2>1 DEF PassInv, Reached, Encoding, Making
  <2>2. CASE pc' = "shape" /\ at' = at + 1
    <3> SUFFICES ASSUME NEW p \in DOMAIN ops
                 PROVE  /\ Right(p)
                        /\ ~ IsConst(p) =>
                             /\ ~ compute[p] => Ready(p)'
                             /\ command'[p].made = InSizes(p, shape)
                             /\ at' > 2 * Len(ops) + p => command'[p].exe
                        /\ ~ Making'
      BY <1>2, <1>3 DEF PassInv
    <3>1. Right(p) /\ ~ Making'
      BY <1>4, <1>5, <2>2 DEF SizeInv, PassInv, Making
    <3>2. ASSUME ~ IsConst(p)
          PROVE  /\ command'[p].made = InSizes(p, shape)
                 /\ ~ compute[p] => Ready(p) /\ Ready(p)'
      BY <1>4, <1>5, <1>7, <1>8, <3>2 DEF SizeInv, PassInv
    <3>3. ASSUME ~ IsConst(p), compute[p], at' > 2 * Len(ops) + p PROVE command'[p].exe
      <4>1. p < o \/ p = o
        BY <1>5, <2>2, <3>3
      <4>2. CASE p = o
        BY <1>7, <2>2, <3>3, <4>2
      <4>3. CASE p # o
        BY <1>4, <1>5, <1>7, <3>3, <4>1, <4>3 DEF SizeInv, PassInv
      <4> QED
        BY <4>2, <4>3
    <3>4. ASSUME ~ IsConst(p), ~ compute[p] PROVE command'[p].exe
      BY <1>7, <3>2, <3>4 DEF Ready
    <3> QED
      BY <3>1, <3>2, <3>3, <3>4
  <2> QED
    BY <1>2, <2>1, <2>2
<1> QED
  BY <1>3, <1>9, <1>10, <1>11, <1>12, <1>13 DEF SizeInv

\* A fix exempts what was made for the sizes that follow from the inputs.
LEMMA FixResizeCacheSized ==
  ASSUME IInv, SizeInv, Careful, FixResizeCache PROVE SizeInv'
<1>1. /\ UNCHANGED <<setup, shape, compute, needResize>>
      /\ pc = "idle" /\ needResize /\ pc' = "alloc" /\ index' = 1
      /\ ExemptUnchanged(FixedCache, shape)
      /\ \A o \in DOMAIN ops : IsConst(o) \/ command[o].exe
      /\ cache' = FixedCache
      /\ mem' = Forget(Forget(mem, "main"), "backup")
  BY DEF FixResizeCache, Continue, Careful, Careless
<1>2. /\ ops' = ops /\ usage' = usage /\ Tensors' = Tensors
      /\ Operators' = Operators /\ shape' = shape
      /\ \A p \in Operators : p \in DOMAIN ops /\ ~ IsConst(p)
  BY <1>1, Stable DEF Operators, IsConst
<1>3. Anew' = Anew
  BY <1>1, AnewKept DEF Anew
<1>4. /\ \A o, v : Fits(o, v)' <=> Fits(o, v)
      /\ \A o : InSizes(o, Anew)' = InSizes(o, Anew)
      /\ Roots'
  BY <1>2, <1>3 DEF SizeInv, Fits, InSizes, Roots, Inputless
<1>5. \A o \in DOMAIN ops : /\ command'[o].made = command[o].made
                            /\ command'[o].exe <=> command[o].exe
  <2> TAKE o \in DOMAIN ops
  <2>1. command[o] \in CommandType
    BY DEF IInv, TypeInv
  <2>2. /\ [command[o] EXCEPT !.group = 1].made = command[o].made
        /\ [command[o] EXCEPT !.group = 1].exe = command[o].exe
    BY <2>1, Changed
  <2>3. command'[o] = IF o \in FixedOps THEN [command[o] EXCEPT !.group = 1] ELSE command[o]
    BY DEF FixResizeCache
  <2> QED
    BY <2>2, <2>3
<1>6. \A o \in DOMAIN ops : Ready(o)' <=> Ready(o)
  BY <1>2, <1>4, <1>5 DEF Ready
<1>7. \A o \in Operators : Ready(o) /\ command[o].exe
  BY <1>1, <1>2 DEF SizeInv, RestInv
<1>8. ConstSizes'
  <2>1. \A t \in Tensors : mem'[t] = "static" => mem[t] = "static"
    BY <1>1 DEF Forget
  <2> QED
    BY <1>1, <2>1, ConstSizesKept DEF SizeInv
<1>9. SeenInv'
  <2>1. \A o \in DOMAIN ops : cache'[o].seen = <<>>
    BY <1>1 DEF FixedCache, Closed
  <2> QED
    BY <1>2, <2>1 DEF SeenInv
<1>10. ExemptInv'
  <2> SUFFICES ASSUME NEW o \in Operators, Exempt(FixedCache, o)
               PROVE  Ready(o)' /\ command'[o].made = InSizes(o, Anew)
    BY <1>1, <1>2, <1>4 DEF ExemptInv, Encoding
  <2>1. command[o].made = InSizes(o, Anew)
    BY <1>1, <1>2 DEF ExemptUnchanged, Anew
  <2> QED
    BY <1>2, <1>5, <1>6, <1>7, <2>1
<1>11. PassInv'
  BY <1>1 DEF PassInv
<1>12. RestInv'
  <2>1. CommandsAnew'
    BY <1>1 DEF CommandsAnew, RunAccepts
  <2> QED
    BY <1>1, <1>2, <1>5, <1>6, <2>1 DEF SizeInv, RestInv
<1> QED
  BY <1>4, <1>8, <1>9, <1>10, <1>11, <1>12 DEF SizeInv

LEMMA StepSized ==
  ASSUME Careful, IInv, SizeInv, [Next]_vars PROVE SizeInv'
<1>1. CASE UNCHANGED vars
  <2>1. UNCHANGED setup /\ UNCHANGED structure /\ UNCHANGED <<mem, pc, at, index, needResize>>
    BY <1>1 DEF vars, structure
  <2>2. /\ ops' = ops /\ usage' = usage /\ Tensors' = Tensors /\ Operators' = Operators
        /\ Anew' = Anew /\ Roots'
        /\ \A p, v : Fits(p, v)' <=> Fits(p, v)
        /\ \A p : Ready(p)' <=> Ready(p)
        /\ \A p : Right(p)' <=> Right(p)
        /\ \A p : IsConst(p)' <=> IsConst(p)
        /\ shape' = shape /\ cache' = cache /\ command' = command /\ compute' = compute
    BY <2>1, Unsized DEF IInv, SizeInv, structure
  <2>3. /\ \A p : Reached(p)' <=> Reached(p)
        /\ Encoding' <=> Encoding
        /\ Making' <=> Making
    BY <2>1 DEF Reached, Encoding, Making
  <2>4. ConstSizes'
    BY <2>1, <2>2, ConstSizesKept DEF SizeInv
  <2>5. SeenInv' /\ ExemptInv'
    BY <2>1, <2>2, <2>3 DEF SizeInv, SeenInv, ExemptInv, Exempt, InSizes
  <2>6. PassInv'
    BY <2>1, <2>2, <2>3 DEF SizeInv, PassInv, InSizes
  <2>7. RestInv'
    BY <2>1, <2>2 DEF SizeInv, RestInv, CommandsAnew, RunAccepts, InSizes
  <2> QED
    BY <2>2, <2>4, <2>5, <2>6, <2>7 DEF SizeInv
<1>2. CASE \E t \in Tensors, n \in Sizes : ResizeTensor(t, n)
  BY <1>2, ResizeTensorSized
<1>3. CASE OpenResizeCheck
  BY <1>3, OpenResizeCheckSized
<1>4. CASE Resize
  BY <1>4, ResizeSized
<1>5. CASE ComputeShape
  BY <1>5, ComputeShapeSized
<1>6. CASE FoldConstant
  BY <1>6, FoldConstantSized
<1>7. CASE Transform
  BY <1>7, TransformSized
<1>8. CASE CreateExecution
  BY <1>8, CreateExecutionSized
<1>9. CASE BeginAlloc
  BY <1>9, BeginAllocSized
<1>10. CASE Acquire \/ ResizeCommand \/ Recycle
  BY <1>10, PlanSized
<1>11. CASE EndAlloc
  BY <1>11, EndAllocSized
<1>12. CASE FixResizeCache
  BY <1>12, FixResizeCacheSized
<1> QED
  BY <1>1, <1>2, <1>3, <1>4, <1>5, <1>6, <1>7, <1>8, <1>9, <1>10, <1>11, <1>12 DEF Next

LEMMA SizesHold == ASSUME Careful PROVE Spec => []SizeInv
<1>1. Init => SizeInv
  BY InitSized
<1>2. IInv /\ SizeInv /\ [Next]_vars => SizeInv'
  BY StepSized
<1> QED
  BY <1>1, <1>2, InvHolds, PTL DEF Spec

\* A session that run accepts computes what its inputs call for: whatever the resize
\* cache passed over, whatever failed, was checked or fixed before, every command was
\* made for the sizes that a computation from nothing would give.
THEOREM SizesAnew == ASSUME Careful PROVE Spec => []CommandsAnew
<1>1. SizeInv => CommandsAnew
  BY DEF SizeInv, RestInv
<1> QED
  BY <1>1, SizesHold, PTL

------------------------------------------------------------------------------
(***************************************************************************)
(* Every tensor of a session that run accepts has a place in memory that    *)
(* was acquired for its size.                                              *)
(***************************************************************************)

RoomType == /\ room \in [Tensors -> Nat]
            /\ plan \in [{"main", "backup"} -> {"reset", "laid", "computed"}]
Variable(t) == usage[t] # "constant"

\* Constants and the inputs of the caller have room at any time.
FixedRoom == \A t \in Tensors :
  /\ ~ Variable(t) /\ mem[t] = "static" => room[t] = 1
  /\ group[t] = -1 => room[t] = shape[t]
\* The backup plan holds tensors of exempt operations, each with room for the size
\* that follows from the inputs, and is computed once its fix is done.
BackupInv == \A t \in Tensors : group[t] = 1 =>
  /\ \E o \in Operators : Exempt(cache, o) /\ t \in TensorsOf(o)
  /\ index = 0 => /\ plan["backup"] = "computed"
                  /\ Variable(t) => room[t] = Anew[t]
\* Computing the shape of an operation takes the memory of its output away.
ClearedInv == Encoding => \A p \in Operators :
  p < at /\ group[ops[p].out] = 0 => mem[ops[p].out] = "none"
\* Static outputs that were acquired for a session at rest have its sizes.
StaticInv == pc = "idle" \/ index = 1 => \A p \in Operators :
  mem[ops[p].out] = "static" => room[ops[p].out] = shape[ops[p].out]
\* What the plan that is made has given out has the sizes of this resize, and the
\* tensors of the commands it is past have an address.
SettledInv == Making => \A p \in Operators : \A t \in TensorsOf(p) :
  Variable(t) /\ group[t] = index =>
    /\ mem[t] # "none" => where[t] = mem[t] /\ room[t] = shape[t]
    /\ pc = "end" \/ p < at => where[t] \in {PlanOf[index], "static"} /\ room[t] = shape[t]

RoomInv == RoomType /\ FixedRoom /\ BackupInv /\ ClearedInv /\ StaticInv /\ SettledInv /\ TensorsReady

------------------------------------------------------------------------------
LEMMA InitRoom ==
  ASSUME Init PROVE RoomInv
<1>1. /\ pc = "idle" /\ index = 0 /\ needResize /\ room = shape
      /\ plan = [p \in {"main", "backup"} |-> "reset"]
      /\ mem = [t \in Tensors |-> IF where[t] = "static" THEN "static" ELSE "none"]
      /\ group = [t \in Tensors |-> IF where[t] = "user" THEN -1 ELSE 0]
  BY DEF Init
<1>2. RoomType
  BY <1>1, InitInv DEF RoomType, IInv, TypeInv
<1>3. FixedRoom
  BY <1>1, InitSized DEF FixedRoom, Variable, SizeInv, ConstSizes
<1>4. BackupInv
  BY <1>1 DEF BackupInv
<1>5. ClearedInv /\ SettledInv /\ TensorsReady
  BY <1>1 DEF ClearedInv, SettledInv, TensorsReady, RunAccepts, Encoding, Making
<1>6. StaticInv
  BY <1>1 DEF StaticInv
<1> QED
  BY <1>2, <1>3, <1>4, <1>5, <1>6 DEF RoomInv

\* What the backup plan holds stays as long as its operations stay exempt.
LEMMA BackupKept ==
  ASSUME TypeInv, BackupInv, UNCHANGED <<setup, group, index>>,
         \A o \in Operators : Exempt(cache, o) => Exempt(cache', o),
         index = 0 => /\ Anew' = Anew /\ plan'["backup"] = plan["backup"]
                      /\ \A t \in Tensors : group[t] = 1 => room'[t] = room[t]
  PROVE  BackupInv'
<1>1. ops' = ops /\ usage' = usage /\ Tensors' = Tensors
  BY Stable
<1>2. Operators' = Operators /\ \A o : TensorsOf(o)' = TensorsOf(o)
  BY <1>1 DEF Operators, IsConst, TensorsOf
<1> QED
  BY <1>1, <1>2 DEF BackupInv, Variable

\* Where no size changes, none that follows from the inputs does.
LEMMA SameAnew ==
  ASSUME UNCHANGED <<setup, shape>>
  PROVE  Anew' = Anew
BY AnewKept DEF Anew

\* A failure leaves the rooms of what is not in the main plan.
LEMMA FailureRoom ==
  ASSUME TypeInv, RoomInv, UNCHANGED <<setup, shape, cache, group, index>>, UNCHANGED memory,
         pc' = "failed", index = 0
  PROVE  RoomInv'
<1>1. /\ ops' = ops /\ usage' = usage /\ Tensors' = Tensors
      /\ mem' = mem /\ room' = room /\ plan' = plan /\ ~ Encoding' /\ ~ Making'
  BY Stable DEF memory, Encoding, Making
<1>2. RoomType' /\ FixedRoom'
  BY <1>1 DEF RoomInv, RoomType, FixedRoom, Variable
<1>3. BackupInv'
  BY <1>1, SameAnew, BackupKept DEF RoomInv, Exempt
<1>4. ClearedInv' /\ StaticInv' /\ SettledInv' /\ TensorsReady'
  BY <1>1 DEF ClearedInv, StaticInv, SettledInv, TensorsReady, RunAccepts
<1> QED
  BY <1>2, <1>3, <1>4 DEF RoomInv

\* A command that stays as it is has its tensors for the sizes it was made for.
LEMMA ExemptSizes ==
  ASSUME setup \in Setups, shape \in [Tensors -> Nat], NEW o \in Operators, NEW t \in TensorsOf(o),
         NEW v, NEW s \in [Tensors -> Nat], v = InSizes(o, Anew), v = InSizes(o, AnewFrom(s))
  PROVE  Anew[t] = AnewFrom(s)[t]
<1>1. o \in DOMAIN ops
  BY DEF Operators
<1>2. \A i \in DOMAIN ops[o].in : Anew[ops[o].in[i]] = AnewFrom(s)[ops[o].in[i]]
  <2> TAKE i \in DOMAIN ops[o].in
  <2>1. v[i] = Anew[ops[o].in[i]]
    BY Zenon DEF InSizes
  <2>2. v[i] = AnewFrom(s)[ops[o].in[i]]
    BY Zenon DEF InSizes
  <2> QED
    BY <2>1, <2>2
<1>3. Result(o, Anew) = Result(o, AnewFrom(s))
  BY <1>1, <1>2, SameInputs
<1>4. Anew[ops[o].out] = Result(o, Anew) /\ AnewFrom(s)[ops[o].out] = Result(o, AnewFrom(s))
  BY <1>1, AnewFacts DEF Anew
<1>5. t = ops[o].out \/ \E i \in DOMAIN ops[o].in : t = ops[o].in[i]
  BY DEF TensorsOf, ToSet
<1> QED
  BY <1>2, <1>3, <1>4, <1>5

LEMMA ResizeTensorRoom ==
  ASSUME IInv, HInv, SizeInv, RoomInv, Careful, NEW t \in Tensors, NEW n \in Sizes, ResizeTensor(t, n)
  PROVE  RoomInv'
<1> DEFINE s == [shape EXCEPT ![t] = n]
<1>1. /\ UNCHANGED <<setup, cache, command, mem, plan, group, index, pc>>
      /\ pc \in {"idle", "failed"} /\ usage[t] = "input" /\ shape' = s /\ needResize'
      /\ ExemptUnchanged(cache, s) /\ n \in Nat
      /\ room' = IF where[t] = "user" THEN [room EXCEPT ![t] = n] ELSE room
  BY SizesAssumption DEF ResizeTensor, Quiet, Inputs, Careful, Careless
<1>2. /\ setup \in Setups /\ shape \in [Tensors -> Nat] /\ s \in [Tensors -> Nat]
      /\ ops' = ops /\ usage' = usage /\ Tensors' = Tensors /\ Operators' = Operators
      /\ \A u \in Tensors : shape'[u] = IF u = t THEN n ELSE shape[u]
      /\ index = 0 /\ ~ Encoding' /\ ~ Making'
  BY <1>1, Stable DEF IInv, TypeInv, Operators, IsConst, Groups, Encoding, Making
<1>3. Anew' = AnewFrom(s)
  <2>1. setup' = setup /\ \A u \in Tensors : shape'[u] = s[u]
    BY <1>1
  <2> HIDE DEF s
  <2> QED
    BY <2>1, AnewKept
<1> HIDE DEF s
<1>4. /\ \A u \in Tensors : where[u] # "user" \/ u # t => room'[u] = room[u]
      /\ where[t] = "user" => room'[t] = n
      /\ room' \in [Tensors -> Nat]
  BY <1>1, <1>2 DEF RoomInv, RoomType
<1>5. RoomType'
  BY <1>1, <1>2, <1>4 DEF RoomInv, RoomType
<1>6. FixedRoom'
  BY <1>1, <1>2, <1>4 DEF RoomInv, FixedRoom, Variable, HInv, Callers
<1>7. BackupInv'
  <2> SUFFICES ASSUME NEW u \in Tensors, group[u] = 1
               PROVE  /\ \E o \in Operators : Exempt(cache, o) /\ u \in TensorsOf(o)
                      /\ plan["backup"] = "computed" /\ (Variable(u) => room'[u] = AnewFrom(s)[u])
    BY <1>1, <1>2, <1>3 DEF BackupInv, Exempt, TensorsOf, Variable
  <2>1. PICK o \in Operators : Exempt(cache, o) /\ u \in TensorsOf(o)
    BY DEF RoomInv, BackupInv
  <2>2. room'[u] = room[u]
    BY <1>1, <1>2, <1>4 DEF HInv, Backed
  <2>3. command[o].made = InSizes(o, Anew) /\ command[o].made = InSizes(o, AnewFrom(s))
    BY <1>1, <2>1 DEF SizeInv, ExemptInv, ExemptUnchanged, Operators
  <2>4. Anew[u] = AnewFrom(s)[u]
    BY <1>2, <2>1, <2>3, ExemptSizes
  <2> QED
    BY <1>2, <2>1, <2>2, <2>4 DEF RoomInv, BackupInv
<1>8. StaticInv'
  <2>1. \A p \in Operators : ops[p].out \in Tensors /\ ops[p].out # t
    BY <1>1, <1>2, OperatorFacts
  <2> QED
    BY <1>1, <1>2, <1>4, <2>1 DEF RoomInv, StaticInv
<1>9. ClearedInv' /\ SettledInv' /\ TensorsReady'
  BY <1>1, <1>2 DEF ClearedInv, SettledInv, TensorsReady, RunAccepts
<1> QED
  BY <1>5, <1>6, <1>7, <1>8, <1>9 DEF RoomInv

LEMMA OpenResizeCheckRoom ==
  ASSUME IInv, RoomInv, Careful, OpenResizeCheck PROVE RoomInv'
<1>1. /\ UNCHANGED <<setup, shape, group, index, pc, needResize, mem, where, room, plan>>
      /\ pc \in {"idle", "failed"} /\ \A t \in Tensors : group[t] # 1
  BY DEF OpenResizeCheck, memory, Quiet, Careful, Careless
<1>2. /\ ops' = ops /\ usage' = usage /\ Tensors' = Tensors /\ Operators' = Operators
      /\ ~ Encoding' /\ ~ Making'
  BY <1>1, Stable DEF Operators, IsConst, Encoding, Making
<1>3. RoomType' /\ FixedRoom' /\ BackupInv'
  BY <1>1, <1>2 DEF RoomInv, RoomType, FixedRoom, BackupInv, Variable
<1>4. ClearedInv' /\ SettledInv'
  BY <1>2 DEF ClearedInv, SettledInv
<1>5. StaticInv'
  BY <1>1, <1>2 DEF RoomInv, StaticInv
<1>6. TensorsReady'
  BY <1>1, <1>2 DEF RoomInv, TensorsReady, RunAccepts, Placed, IsConst
<1> QED
  BY <1>3, <1>4, <1>5, <1>6 DEF RoomInv

LEMMA ResizeRoom ==
  ASSUME IInv, RoomInv, Resize PROVE RoomInv'
<1>1. /\ UNCHANGED <<setup, shape, cache, group, room>> /\ pc' = "shape" /\ at' = 1 /\ index' = index
      /\ mem' = Forget(mem, "main") /\ plan' = [plan EXCEPT !["main"] = "reset"]
  BY DEF Resize, Reset, Continue, Quiet, IInv, TypeInv, Groups, structure
<1>2. /\ ops' = ops /\ usage' = usage /\ Tensors' = Tensors /\ Operators' = Operators
      /\ ~ Making' /\ index = 0
  BY <1>1, Stable DEF Operators, IsConst, Making, Resize, Quiet, IInv, TypeInv, Groups
<1>3. RoomType'
  BY <1>1, <1>2 DEF RoomInv, RoomType
<1>4. FixedRoom'
  BY <1>1, <1>2 DEF RoomInv, FixedRoom, Variable, Forget
<1>5. BackupInv'
  <2>1. plan'["backup"] = plan["backup"]
    BY <1>1 DEF RoomInv, RoomType
  <2> QED
    BY <1>1, <2>1, SameAnew, BackupKept DEF IInv, RoomInv, Exempt
<1>6. ClearedInv'
  <2>1. \A p \in Operators : ~ (p < 1)
    BY OperatorFacts DEF IInv, TypeInv
  <2> QED
    BY <1>1, <1>2, <2>1 DEF ClearedInv
<1>7. StaticInv' /\ SettledInv' /\ TensorsReady'
  BY <1>1, <1>2 DEF StaticInv, SettledInv, TensorsReady, RunAccepts
<1> QED
  BY <1>3, <1>4, <1>5, <1>6, <1>7 DEF RoomInv

LEMMA ComputeShapeRoom ==
  ASSUME IInv, HInv, SizeInv, RoomInv, ComputeShape PROVE RoomInv'
<1>0. PICK o \in DOMAIN ops : o = at
  BY SetupFacts DEF ComputeShape, IInv, TypeInv
<1>1. /\ UNCHANGED <<setup, group, index, room, plan>>
      /\ ops' = ops /\ usage' = usage /\ Tensors' = Tensors
      /\ pc = "shape" /\ pc' \in {"shape", "constant", "failed"} /\ Drop(Cleared(o))
      /\ setup \in Setups /\ cache \in [DOMAIN ops -> CacheType]
  BY <1>0, Stable DEF ComputeShape, IInv, TypeInv, Continue, Fail
<1>2. /\ pc' # "failed" => at' = o + 1
      /\ cache' = cache \/ (~ Match(o) /\ \E c : cache' = [cache EXCEPT ![o] = c])
      /\ shape' = shape \/ shape' = [shape EXCEPT ![ops[o].out] = OutSize(o, shape)]
  BY <1>0, Zenon DEF ComputeShape, Continue, Fail
<1>3. /\ o \in Nat \ {0} /\ ops[o].out \in Tensors /\ usage[ops[o].out] # "input"
      /\ IsConst(o) <=> usage[ops[o].out] = "constant"
      /\ Operators' = Operators /\ ~ Making' /\ index = 0
      /\ \A p \in Operators : p \in Nat /\ p \in DOMAIN ops /\ ~ IsConst(p) /\ ops[p].out \in Tensors
  BY <1>1, SetupFacts, OperatorFacts DEF Operators, IsConst, Making, IInv, TypeInv, Groups
<1>4. \A t \in Tensors : t # ops[o].out => shape'[t] = shape[t]
  BY <1>2 DEF IInv, TypeInv
<1>5. \A t \in Tensors : mem'[t] = IF t \in Cleared(o) THEN "none" ELSE mem[t]
  <2>1. Cleared(o) \in SUBSET Tensors
    BY <1>3 DEF Cleared
  <2> QED
    BY <1>1, <2>1, DropFacts DEF IInv
<1>6. Anew' = Anew
  <2>1. \A t \in Tensors : Inputless(t) => shape'[t] = shape[t]
    BY <1>4 DEF Inputless
  <2> QED
    BY <1>1, <2>1, AnewKept DEF Anew
<1>7. RoomType'
  BY <1>1 DEF RoomInv, RoomType
<1>8. FixedRoom'
  <2>1. \A t \in Tensors : group[t] = -1 => t # ops[o].out
    BY <1>3 DEF HInv, Callers
  <2> QED
    BY <1>1, <1>4, <1>5, <2>1 DEF RoomInv, FixedRoom, Variable
<1>9. BackupInv'
  <2>1. ASSUME NEW p \in Operators, Exempt(cache, p) PROVE Exempt(cache', p)
    <3>1. CASE cache' = cache
      BY <2>1, <3>1
    <3>2. CASE ~ Match(o) /\ \E c : cache' = [cache EXCEPT ![o] = c]
      <4>1. p # o
        BY <2>1, <3>2 DEF Match, Exempt
      <4>2. cache'[p] = cache[p]
        BY <1>1, <1>3, <3>2, <4>1
      <4> QED
        BY <2>1, <4>2 DEF Exempt
    <3> QED
      BY <1>2, <3>1, <3>2
  <2> QED
    BY <1>1, <1>6, <2>1, BackupKept DEF IInv, RoomInv
<1>10. ClearedInv'
  <2> SUFFICES ASSUME Encoding', NEW p \in Operators, p < at', group[ops[p].out] = 0
               PROVE  mem'[ops[p].out] = "none"
    BY <1>1, <1>3 DEF ClearedInv
  <2>1. at' = o + 1
    BY <1>2 DEF Encoding
  <2>2. CASE p = o
    BY <1>3, <1>5, <2>2 DEF Cleared
  <2>3. CASE p # o
    <3>1. p < at
      BY <1>0, <1>3, <2>1, <2>3
    <3> QED
      BY <1>1, <1>3, <1>5, <3>1 DEF RoomInv, ClearedInv, Encoding
  <2> QED
    BY <2>2, <2>3
<1>11. StaticInv' /\ SettledInv' /\ TensorsReady'
  BY <1>1, <1>3 DEF StaticInv, SettledInv, TensorsReady, RunAccepts
<1> QED
  BY <1>7, <1>8, <1>9, <1>10, <1>11 DEF RoomInv

LEMMA FoldConstantRoom ==
  ASSUME IInv, HInv, SizeInv, SizeInv', RoomInv, FoldConstant PROVE RoomInv'
<1>1. PICK o \in DOMAIN ops : o = at - 1 /\ pc = "constant" /\ IsConst(o)
  BY DEF FoldConstant, IInv, Constants
<1>2. PICK t \in Tensors : t = ops[o].out
  BY SetupFacts DEF IInv, TypeInv
<1>3. /\ UNCHANGED <<setup, shape, cache, group, index>>
      /\ \/ Acquired(t, "static") /\ pc' \in {"shape", "failed"}
         \/ UNCHANGED memory /\ pc' = "failed"
      /\ pc' = "shape" => at' = at
      /\ usage[t] = "constant" /\ group[t] # -1 /\ index = 0
  BY <1>1, <1>2, SetupFacts
  DEF FoldConstant, Continue, Fail, structure, IInv, TypeInv, Groups, HInv, Callers
<1>4. CASE UNCHANGED memory /\ pc' = "failed"
  BY <1>3, <1>4, FailureRoom DEF IInv
<1>5. CASE Acquired(t, "static") /\ pc' \in {"shape", "failed"}
  <2>1. /\ ops' = ops /\ usage' = usage /\ Tensors' = Tensors /\ Operators' = Operators
        /\ ~ Making'
    BY <1>3, <1>5, Stable DEF Operators, IsConst, Making
  <2>2. plan' = plan
    BY <1>5 DEF Acquired, RoomInv, RoomType
  <2>3. /\ room' = [room EXCEPT ![t] = shape[t]] /\ mem' = [mem EXCEPT ![t] = "static"]
        /\ room \in [Tensors -> Nat] /\ shape[t] \in Nat /\ mem \in [Tensors -> Places]
    BY <1>5 DEF Acquired, RoomInv, RoomType, IInv, TypeInv
  <2>4. RoomType'
    BY <2>1, <2>2, <2>3 DEF RoomInv, RoomType
  <2>5. FixedRoom'
    <3>1. shape[t] = 1
      BY <1>3, <2>1, <2>3 DEF SizeInv, ConstSizes
    <3> QED
      BY <1>3, <2>1, <2>3, <3>1 DEF RoomInv, FixedRoom, Variable
  <2>6. BackupInv'
    <3> SUFFICES ASSUME NEW u \in Tensors, group[u] = 1
                 PROVE  /\ \E p \in Operators : Exempt(cache, p) /\ u \in TensorsOf(p)
                        /\ plan["backup"] = "computed" /\ (Variable(u) => room'[u] = Anew[u])
      BY <1>3, <2>1, <2>2, SameAnew DEF BackupInv, Exempt, TensorsOf, Variable
    <3>1. Variable(u) => room'[u] = room[u]
      BY <1>3, <2>3 DEF Variable
    <3> QED
      BY <1>3, <3>1 DEF RoomInv, BackupInv
  <2>7. ClearedInv'
    <3>1. \A p \in Operators : ops[p].out \in Tensors /\ ops[p].out # t
      BY <1>3, OperatorFacts DEF IInv, TypeInv
    <3>2. Encoding /\ (Encoding' => at' = at)
      BY <1>1, <1>3, <1>5 DEF Encoding
    <3> QED
      BY <1>3, <2>1, <2>3, <3>1, <3>2 DEF RoomInv, ClearedInv
  <2>8. StaticInv' /\ SettledInv' /\ TensorsReady'
    BY <1>3, <1>5, <2>1 DEF StaticInv, SettledInv, TensorsReady, RunAccepts
  <2> QED
    BY <2>4, <2>5, <2>6, <2>7, <2>8 DEF RoomInv
<1> QED
  BY <1>3, <1>4, <1>5

LEMMA CommandsRoom ==
  ASSUME IInv, RoomInv, Transform \/ CreateExecution PROVE RoomInv'
<1>1. /\ UNCHANGED <<setup, shape, cache, group, index, mem, where, room, plan>>
      /\ UNCHANGED memory
      /\ pc = "shape" /\ index = 0
      /\ pc' = "failed" \/ (pc' = "shape" /\ at' = at + 1 /\ at > Len(ops))
  <2>1. pc = "shape" /\ index = 0
    BY DEF Transform, CreateExecution, IInv, TypeInv, Groups
  <2>2. UNCHANGED <<setup, shape, cache, group, index, mem, where, room, plan>> /\ UNCHANGED memory
    BY DEF Transform, CreateExecution, memory
  <2>3. pc' = "failed" \/ (pc' = "shape" /\ at' = at + 1)
    BY DEF Transform, CreateExecution, Continue, Fail
  <2>4. at > Len(ops)
    <3>1. PICK n \in Nat : n = Len(ops) /\ DOMAIN ops = 1 .. n
      BY SetupFacts DEF IInv, TypeInv
    <3>2. at \in Nat /\ (at - n \in 1 .. n \/ at - 2 * n \in 1 .. n)
      BY <3>1 DEF Transform, CreateExecution, IInv, TypeInv
    <3>3. at > n
      BY <3>1, <3>2
    <3> QED
      BY <3>1, <3>3
  <2> QED
    BY <2>1, <2>2, <2>3, <2>4
<1>2. CASE pc' = "failed"
  BY <1>1, <1>2, FailureRoom DEF IInv
<1>3. CASE pc' = "shape" /\ at' = at + 1 /\ at > Len(ops)
  <2>1. /\ ops' = ops /\ usage' = usage /\ Tensors' = Tensors /\ Operators' = Operators
        /\ ~ Making' /\ Encoding
    BY <1>1, <1>3, Stable DEF Operators, IsConst, Making, Encoding
  <2>2. RoomType' /\ FixedRoom'
    BY <1>1, <2>1 DEF RoomInv, RoomType, FixedRoom, Variable
  <2>3. BackupInv'
    BY <1>1, SameAnew, BackupKept DEF IInv, RoomInv, Exempt
  <2>4. ClearedInv'
    <3>1. \A p \in Operators : p < at
      <4>1. PICK n \in Nat : n = Len(ops)
        BY SetupFacts DEF IInv, TypeInv
      <4>2. \A p \in Operators : p \in Nat /\ p <= n
        BY <4>1, OperatorFacts DEF IInv, TypeInv
      <4> QED
        BY <1>3, <4>1, <4>2 DEF IInv, TypeInv
    <3> QED
      BY <1>1, <2>1, <3>1 DEF RoomInv, ClearedInv
  <2>5. StaticInv' /\ SettledInv' /\ TensorsReady'
    BY <1>1, <1>3, <2>1 DEF StaticInv, SettledInv, TensorsReady, RunAccepts
  <2> QED
    BY <2>2, <2>3, <2>4, <2>5 DEF RoomInv
<1> QED
  BY <1>1, <1>2, <1>3

\* A tensor of an operation that is neither a constant nor an input is the output
\* of one that is computed in every resize.
LEMMA ComputedBy ==
  ASSUME setup \in Setups, NEW p \in Operators, NEW t \in TensorsOf(p), Variable(t),
         usage[t] # "input"
  PROVE  t \in Tensors /\ \E q \in Operators : ops[q].out = t /\ q <= p
<1>1. p \in DOMAIN ops /\ p \in Nat /\ \A q \in DOMAIN ops : q \in Nat
  BY SetupFacts, OperatorFacts
<1>2. PICK q \in DOMAIN ops : ops[q].out = t /\ q <= p
  <2>1. CASE t = ops[p].out
    BY <1>1, <2>1
  <2>2. CASE t \in ToSet(ops[p].in)
    <3>1. \E q \in DOMAIN ops : ops[q].out = t /\ q < p
      BY <1>1, <2>2, Produced DEF Variable
    <3> QED
      BY <1>1, <3>1
  <2> QED
    BY <2>1, <2>2 DEF TensorsOf
<1>3. ops[q].out \in Tensors /\ ~ IsConst(q)
  BY <1>2, SetupFacts DEF Variable
<1> QED
  BY <1>2, <1>3 DEF Operators

\* Static memory is for outputs only, among what is not constant.
LEMMA StaticIsComputed ==
  ASSUME TypeInv, HInv, NEW p \in Operators, NEW t \in TensorsOf(p), Variable(t), mem[t] = "static"
  PROVE  \E q \in Operators : ops[q].out = t /\ q <= p
<1>1. setup \in Setups /\ t \in Tensors
  BY SetupFacts DEF TypeInv, Operators
<1>2. usage[t] # "input"
  BY <1>1 DEF HInv, Addressed
<1> QED
  BY <1>1, <1>2, ComputedBy

LEMMA BeginAllocRoom ==
  ASSUME IInv, HInv, RoomInv, BeginAlloc PROVE RoomInv'
<1>1. /\ UNCHANGED <<setup, shape, cache, group, room, index>>
      /\ pc = "shape" /\ at > 3 * Len(ops) /\ pc' = "alloc" /\ at' = 1
      /\ mem' = Forget(mem, "main") /\ plan' = [plan EXCEPT !["main"] = "reset"]
      /\ index = 0 /\ setup \in Setups
  BY DEF BeginAlloc, Reset, Continue, IInv, TypeInv, Groups, structure
<1>2. /\ ops' = ops /\ usage' = usage /\ Tensors' = Tensors /\ Operators' = Operators
      /\ \A p : TensorsOf(p)' = TensorsOf(p)
      /\ ~ Encoding'
  BY <1>1, Stable DEF Operators, IsConst, TensorsOf, Encoding
<1>3. mem' = mem /\ \A t \in Tensors : mem[t] \in {"none", "static"}
  <2>1. \A t \in Tensors : mem[t] \in {"none", "static"}
    BY <1>1, NoChunks DEF IInv
  <2> QED
    BY <1>1, <2>1, ForgetNothing DEF IInv, TypeInv
<1>4. RoomType' /\ FixedRoom'
  BY <1>1, <1>2, <1>3 DEF RoomInv, RoomType, FixedRoom, Variable
<1>5. BackupInv'
  <2>1. plan'["backup"] = plan["backup"]
    BY <1>1 DEF RoomInv, RoomType
  <2> QED
    BY <1>1, <2>1, SameAnew, BackupKept DEF IInv, RoomInv, Exempt
<1>6. SettledInv'
  <2> SUFFICES ASSUME NEW p \in Operators, NEW t \in TensorsOf(p), Variable(t), group[t] = 0
               PROVE  mem[t] = "none" /\ ~ (p < 1)
    BY <1>1, <1>2, <1>3 DEF SettledInv, Variable
  <2>1. t \in Tensors /\ ~ (p < 1)
    BY <1>1, SetupFacts, OperatorFacts DEF Operators
  <2>2. ASSUME mem[t] = "static" PROVE FALSE
    <3>1. PICK q \in Operators : ops[q].out = t
      BY <2>2, StaticIsComputed DEF IInv
    <3>2. q < at
      <4>1. PICK n \in Nat : n = Len(ops)
        BY <1>1, SetupFacts
      <4>2. q \in Nat \ {0} /\ q <= n /\ at \in Nat
        BY <1>1, <4>1, OperatorFacts DEF IInv, TypeInv
      <4>3. at > 3 * n
        BY <1>1, <4>1
      <4> QED
        BY <4>1, <4>2, <4>3
    <3> QED
      BY <1>1, <2>2, <3>1, <3>2 DEF RoomInv, ClearedInv, Encoding
  <2> QED
    BY <1>3, <2>1, <2>2
<1>7. ClearedInv' /\ StaticInv' /\ TensorsReady'
  BY <1>1, <1>2 DEF ClearedInv, StaticInv, TensorsReady, RunAccepts
<1> QED
  BY <1>4, <1>5, <1>6, <1>7 DEF RoomInv

LEMMA AcquireRoom ==
  ASSUME IInv, HInv, RoomInv, Careful, Acquire PROVE RoomInv'
<1>1. /\ UNCHANGED <<setup, structure, group>> /\ UNCHANGED <<shape, cache>>
      /\ pc = "alloc" /\ Due # {} /\ Lacking # {}
  BY DEF Acquire, structure
<1> DEFINE place == IF StorageOf(Wanted) = "static" THEN "static" ELSE PlanOf[index]
<1>2. CASE AllocFails /\ UNCHANGED memory
  <2>1. pc' = "failed" /\ index = 0 /\ index' = index
    BY <1>2 DEF AllocFails, Careful, Careless, IInv, TypeInv
  <2> QED
    BY <1>1, <1>2, <2>1, FailureRoom DEF IInv
<1>3. CASE Acquired(Wanted, place) /\ UNCHANGED <<pc, at, index>>
  <2>1. PICK t \in Tensors : t = Wanted
    BY <1>1, LackingFacts DEF IInv
  <2>2. PICK p : p = place
    OBVIOUS
  <2>3. group[t] = index /\ mem[t] = "none" /\ index \in {0, 1} /\ usage[t] # "constant"
    BY <1>1, <2>1, LackingFacts, AllocFolded DEF IInv, TypeInv
  <2>4. p \in {PlanOf[index], "static"} /\ PlanOf[index] \in {"main", "backup"}
        /\ (index = 0 => PlanOf[index] = "main")
    BY <2>2, <2>3 DEF PlanOf
  <2>5. /\ mem' = [mem EXCEPT ![t] = p] /\ where' = [where EXCEPT ![t] = p]
        /\ room' = [room EXCEPT ![t] = shape[t]]
        /\ plan' = IF p \in DOMAIN plan THEN [plan EXCEPT ![p] = "laid"] ELSE plan
        /\ mem \in [Tensors -> Places] /\ where \in [Tensors -> Sites]
        /\ room \in [Tensors -> Nat] /\ shape[t] \in Nat
        /\ plan \in [{"main", "backup"} -> {"reset", "laid", "computed"}]
    BY <1>3, <2>1, <2>2 DEF Acquired, IInv, TypeInv, HInv, Callers, RoomInv, RoomType
  <2>6. /\ where'[t] = p /\ mem'[t] = p /\ room'[t] = shape[t]
        /\ \A u \in Tensors : u # t => where'[u] = where[u] /\ mem'[u] = mem[u] /\ room'[u] = room[u]
        /\ room' \in [Tensors -> Nat]
    BY <2>5
  <2>7. /\ plan' \in [{"main", "backup"} -> {"reset", "laid", "computed"}]
        /\ index = 0 => plan'["backup"] = plan["backup"]
    BY <2>4, <2>5
  <2>8. /\ ops' = ops /\ usage' = usage /\ Tensors' = Tensors /\ Operators' = Operators
        /\ \A o : TensorsOf(o)' = TensorsOf(o)
        /\ ~ Encoding' /\ Making /\ pc' = "alloc" /\ at' = at /\ index' = index /\ shape' = shape
    BY <1>1, <1>3, Stable DEF Operators, IsConst, TensorsOf, Encoding, Making
  <2>9. RoomType' /\ FixedRoom'
    BY <1>1, <2>3, <2>6, <2>7, <2>8 DEF RoomInv, RoomType, FixedRoom, Variable
  <2>10. BackupInv'
    <3>1. index = 0 => \A u \in Tensors : group[u] = 1 => room'[u] = room[u]
      BY <2>3, <2>6
    <3> QED
      BY <1>1, <2>7, <2>8, <3>1, SameAnew, BackupKept DEF IInv, RoomInv, Exempt
  <2>11. StaticInv'
    <3>1. \A o \in Operators : ops[o].out \in Tensors
      BY OperatorFacts DEF IInv, TypeInv
    <3> QED
      BY <1>1, <2>6, <2>8, <3>1 DEF RoomInv, StaticInv
  <2>12. SettledInv'
    <3> SUFFICES ASSUME NEW o \in Operators, NEW u \in TensorsOf(o), Variable(u), group[u] = index
                 PROVE  /\ mem'[u] # "none" => where'[u] = mem'[u] /\ room'[u] = shape[u]
                        /\ o < at => where'[u] \in {PlanOf[index], "static"} /\ room'[u] = shape[u]
      BY <1>1, <2>8 DEF SettledInv, Variable
    <3>1. u \in Tensors
      BY SetupFacts DEF IInv, TypeInv, Operators
    <3>2. CASE u = t
      BY <2>4, <2>6, <3>2
    <3>3. CASE u # t
      BY <2>6, <2>8, <3>1, <3>3 DEF RoomInv, SettledInv
    <3> QED
      BY <3>2, <3>3
  <2>13. ClearedInv' /\ TensorsReady'
    BY <2>8 DEF ClearedInv, TensorsReady, RunAccepts
  <2> QED
    BY <2>9, <2>10, <2>11, <2>12, <2>13 DEF RoomInv
<1> QED
  BY <1>2, <1>3 DEF Acquire, Wanted

\* Giving chunks back moves no address of what is variable: static outputs are kept.
LEMMA DropRoom ==
  ASSUME TypeInv, HInv, NEW ts \in SUBSET Tensors, Drop(ts),
         \A t \in ts : mem[t] = "static" => ~ Variable(t)
  PROVE  /\ \A t \in Tensors : Variable(t) => where'[t] = where[t]
         /\ \A t \in Tensors : mem'[t] = mem[t] \/ mem'[t] = "none"
<1>1. \A t \in Tensors : mem'[t] = IF t \in ts THEN "none" ELSE mem[t]
  BY DropFacts
<1>2. \A t \in Tensors : where'[t] = IF t \in ts /\ mem[t] = "static" THEN "none" ELSE where[t]
  BY DEF Drop
<1> QED
  BY <1>1, <1>2

\* What is given back to a plan that is made moves nothing that was settled.
LEMMA DroppedRoom ==
  ASSUME IInv, RoomInv, UNCHANGED <<setup, shape, cache, group, index, room, plan>>,
         Making, Making',
         \A t \in Tensors : mem'[t] = mem[t] \/ mem'[t] = "none"
  PROVE  RoomType' /\ FixedRoom' /\ BackupInv' /\ ClearedInv' /\ StaticInv' /\ TensorsReady'
<1>1. /\ ops' = ops /\ usage' = usage /\ Tensors' = Tensors /\ Operators' = Operators
      /\ ~ Encoding' /\ pc' # "idle"
  BY Stable DEF Operators, IsConst, Encoding, Making
<1>2. RoomType' /\ FixedRoom'
  BY <1>1 DEF RoomInv, RoomType, FixedRoom, Variable
<1>3. BackupInv'
  BY SameAnew, BackupKept DEF IInv, RoomInv, Exempt
<1>4. StaticInv'
  <2>1. \A p \in Operators : ops[p].out \in Tensors
    BY OperatorFacts DEF IInv, TypeInv
  <2> QED
    BY <1>1, <2>1 DEF RoomInv, StaticInv
<1>5. ClearedInv' /\ TensorsReady'
  BY <1>1 DEF ClearedInv, TensorsReady, RunAccepts
<1> QED
  BY <1>2, <1>3, <1>4, <1>5

\* When a command is resized all its tensors of the group are where they will be.
LEMMA ResizeCommandRoom ==
  ASSUME IInv, HInv, RoomInv, Careful, ResizeCommand PROVE RoomInv'
<1>1. /\ UNCHANGED <<setup, structure, group>> /\ UNCHANGED <<shape, cache>>
      /\ ops' = ops /\ usage' = usage /\ Tensors' = Tensors /\ Operators' = Operators
      /\ \A p : TensorsOf(p)' = TensorsOf(p)
      /\ pc = "alloc" /\ Due # {} /\ Lacking = {}
  BY Stable DEF ResizeCommand, structure, Operators, IsConst, TensorsOf
<1>2. PICK o : o = Current
  OBVIOUS
<1>3. CASE AllocFails /\ UNCHANGED memory
  <2>1. pc' = "failed" /\ index = 0 /\ index' = index
    BY <1>3 DEF AllocFails, Careful, Careless, IInv, TypeInv
  <2> QED
    BY <1>1, <1>3, <2>1, FailureRoom DEF IInv
<1>4. CASE /\ Drop(Released(o)) /\ pc' = "alloc" /\ at' = o + 1
           /\ UNCHANGED <<room, plan, index>>
  <2>1. /\ o \in DOMAIN ops /\ o \in Nat \ {0} /\ o >= at /\ ~ IsConst(o)
        /\ TensorsOf(o) \subseteq Tensors /\ at \in Nat
        /\ \A q \in Due : o <= q
    <3>1. o \in DOMAIN ops /\ o \in Nat \ {0} /\ o >= at /\ ~ IsConst(o) /\ \A q \in Due : o <= q
      BY <1>1, <1>2, DueFacts DEF IInv
    <3> QED
      BY <3>1, SetupFacts DEF IInv, TypeInv
  <2>2. Released(o) \in SUBSET Tensors
    BY <2>1 DEF Released, TensorsOf
  <2>3. \A t \in Released(o) : mem[t] # "static"
    <3> SUFFICES ASSUME NEW t \in Released(o), mem[t] = "static" PROVE FALSE
      OBVIOUS
    <3>1. t \in Tensors /\ usage[t] \in {"normal", "input"}
      BY <2>2 DEF Released
    <3>2. usage[t] # "input" /\ StorageOf(t) # "dynamic"
      BY <3>1, <2>2 DEF HInv, Addressed
    <3> QED
      BY <3>1, <3>2 DEF StorageOf
  <2>4. /\ \A t \in Tensors : Variable(t) => where'[t] = where[t]
        /\ \A t \in Tensors : mem'[t] = mem[t] \/ mem'[t] = "none"
    BY <1>4, <2>2, <2>3, DropRoom DEF IInv
  <2>5. Making /\ Making'
    BY <1>1, <1>4 DEF Making
  <2>6. RoomType' /\ FixedRoom' /\ BackupInv' /\ ClearedInv' /\ StaticInv' /\ TensorsReady'
    BY <1>1, <1>4, <2>4, <2>5, DroppedRoom
  <2>7. ASSUME NEW t \in TensorsOf(o), Variable(t), group[t] = index
        PROVE  where[t] \in {PlanOf[index], "static"} /\ room[t] = shape[t]
    <3>1. o \in Operators /\ t \in Tensors /\ index \in {0, 1} /\ group[t] # -1
      BY <2>1, <2>7 DEF Operators, IInv, TypeInv
    <3>2. CASE t = ops[o].out \/ (AllocInput /\ t \in ToSet(ops[o].in))
      <4>1. mem[t] # "none"
        <5>1. TypeInv /\ Due # {} /\ Lacking = {}
          BY <1>1 DEF IInv
        <5>2. t = ops[Current].out \/ (AllocInput /\ t \in ToSet(ops[Current].in))
          BY <1>2, <3>2
        <5> QED
          BY <2>7, <5>1, <5>2, AskedHeld
      <4>2. where[t] = mem[t] /\ room[t] = shape[t]
        BY <2>5, <2>7, <3>1, <4>1 DEF RoomInv, SettledInv
      <4>3. mem[t] \in {PlanOf[index], "static"}
        <5>1. mem[t] \in Places /\ PlanOf[0] = "main" /\ PlanOf[1] = "backup"
          BY <3>1 DEF IInv, TypeInv, PlanOf
        <5>2. (mem[t] = "main" => index = 0) /\ (mem[t] = "backup" => index = 1)
          BY <1>1, <3>1 DEF IInv, Chunks
        <5> QED
          BY <4>1, <5>1, <5>2 DEF Places
      <4> QED
        BY <4>2, <4>3
    <3>3. CASE t \in ToSet(ops[o].in) /\ ~ AllocInput
      <4>1. usage[t] # "input"
        BY <3>1, <3>3 DEF HInv, Callers, AllocInput
      <4>2. PICK q \in DOMAIN ops : ops[q].out = t /\ q < o
        BY <2>1, <2>7, <3>3, <4>1, Produced DEF IInv, TypeInv, Variable
      <4>3. q \in Operators /\ t \in TensorsOf(q) /\ q \in Nat
        <5>1. ~ IsConst(q) /\ q \in Nat
          BY <2>7, <4>2, SetupFacts DEF Variable, IInv, TypeInv
        <5> QED
          BY <4>2, <5>1 DEF Operators, TensorsOf
      <4>4. q < at
        <5>1. Made(q)
          BY <1>1, <4>3 DEF HInv, MadeInv
        <5>2. q >= at => q \in Due
          BY <4>3, <5>1 DEF Due, Made, Operators
        <5>3. q \notin Due
          BY <2>1, <4>2, <4>3
        <5> QED
          BY <2>1, <4>3, <5>2, <5>3
      <4> QED
        BY <2>5, <2>7, <4>3, <4>4 DEF RoomInv, SettledInv
    <3> QED
      BY <2>7, <3>2, <3>3 DEF TensorsOf
  <2>8. SettledInv'
    <3> SUFFICES ASSUME NEW p \in Operators, NEW t \in TensorsOf(p), Variable(t), group[t] = index
                 PROVE  /\ mem'[t] # "none" => where[t] = mem'[t] /\ room[t] = shape[t]
                        /\ p < o + 1 => where[t] \in {PlanOf[index], "static"} /\ room[t] = shape[t]
      <4>1. \A p \in Operators : TensorsOf(p) \subseteq Tensors
        BY SetupFacts DEF IInv, TypeInv, Operators
      <4> QED
        BY <1>1, <1>4, <2>4, <4>1 DEF SettledInv, Variable
    <3>1. t \in Tensors /\ p \in Nat /\ p \in DOMAIN ops
      BY SetupFacts DEF IInv, TypeInv, Operators
    <3>2. mem'[t] # "none" => where[t] = mem'[t] /\ room[t] = shape[t]
      BY <2>4, <2>5, <3>1 DEF RoomInv, SettledInv
    <3>3. ASSUME p < o + 1 PROVE where[t] \in {PlanOf[index], "static"} /\ room[t] = shape[t]
      <4>1. CASE p < at
        BY <2>5, <4>1 DEF RoomInv, SettledInv
      <4>2. CASE p = o
        BY <2>7, <4>2
      <4>3. p < at \/ p = o
        <5>1. Made(p)
          BY <1>1 DEF HInv, MadeInv
        <5>2. p >= at => p \in Due
          BY <5>1 DEF Due, Made, Operators
        <5>3. p \in Due => o <= p
          BY <2>1
        <5> QED
          BY <2>1, <3>1, <3>3, <5>2, <5>3
      <4> QED
        BY <4>1, <4>2, <4>3
    <3> QED
      BY <3>2, <3>3
  <2> QED
    BY <2>6, <2>8 DEF RoomInv
<1> QED
  BY <1>2, <1>3, <1>4, Zenon DEF ResizeCommand, Continue

\* With no command due every one of them is behind.
LEMMA RecycleRoom ==
  ASSUME IInv, HInv, RoomInv, Recycle PROVE RoomInv'
<1>1. /\ UNCHANGED <<setup, shape, cache, group, index, room, plan>>
      /\ ops' = ops /\ usage' = usage /\ Tensors' = Tensors /\ Operators' = Operators
      /\ \A p : TensorsOf(p)' = TensorsOf(p)
      /\ pc = "alloc" /\ Due = {} /\ pc' = "end" /\ Drop(Recycled)
      /\ Making /\ Making'
  BY Stable DEF Recycle, structure, Continue, Operators, IsConst, TensorsOf, Making
<1>2. Recycled \in SUBSET Tensors /\ \A t \in Recycled : mem[t] # "static"
  BY DEF Recycled, HInv, Addressed
<1>3. /\ \A t \in Tensors : Variable(t) => where'[t] = where[t]
      /\ \A t \in Tensors : mem'[t] = mem[t] \/ mem'[t] = "none"
  BY <1>1, <1>2, DropRoom DEF IInv
<1>4. RoomType' /\ FixedRoom' /\ BackupInv' /\ ClearedInv' /\ StaticInv' /\ TensorsReady'
  BY <1>1, <1>3, DroppedRoom
<1>5. \A p \in Operators : p < at
  <2> TAKE p \in Operators
  <2>1. Made(p) /\ p \in Nat /\ at \in Nat
    BY <1>1, OperatorFacts DEF HInv, MadeInv, IInv, TypeInv
  <2>2. p \notin Due
    BY <1>1
  <2>3. ~ (p >= at)
    BY <2>1, <2>2 DEF Due, Made, Operators
  <2> QED
    BY <2>1, <2>3
<1>6. SettledInv'
  <2> SUFFICES ASSUME NEW p \in Operators, NEW t \in TensorsOf(p), Variable(t), group[t] = index
               PROVE  /\ mem'[t] # "none" => where[t] = mem'[t] /\ room[t] = shape[t]
                      /\ where[t] \in {PlanOf[index], "static"} /\ room[t] = shape[t]
    <3>1. \A p \in Operators : TensorsOf(p) \subseteq Tensors
      BY SetupFacts DEF IInv, TypeInv, Operators
    <3> QED
      BY <1>1, <1>3, <3>1 DEF SettledInv, Variable
  <2>1. t \in Tensors
    BY SetupFacts DEF IInv, TypeInv, Operators
  <2> QED
    BY <1>1, <1>3, <1>5, <2>1 DEF RoomInv, SettledInv
<1> QED
  BY <1>4, <1>6 DEF RoomInv

\* While a fix makes its plan, its tensors have the sizes that follow from the inputs.
LEMMA FixedAnew ==
  ASSUME TypeInv, SizeInv, pc = "idle" \/ index = 1, NEW o \in Operators, Ready(o),
         command[o].made = InSizes(o, Anew), NEW t \in TensorsOf(o), Variable(t)
  PROVE  shape[t] = Anew[t]
<1>1. o \in DOMAIN ops /\ setup \in Setups /\ shape \in [Tensors -> Nat] /\ t \in Tensors
  BY SetupFacts DEF TypeInv, Operators
<1>2. CASE t = ops[o].out
  <2>1. Fits(o, InSizes(o, Anew))
    BY DEF Ready
  <2>2. shape[ops[o].out] = Result(o, Anew)
    BY <1>1, <2>1, FitsResult
  <2>3. Anew[ops[o].out] = Result(o, Anew)
    BY <1>1, AnewFacts DEF Anew
  <2> QED
    BY <1>2, <2>2, <2>3
<1>3. CASE usage[t] = "input"
  <2>1. Inputless(t)
    BY <1>1, <1>3, SetupFacts DEF Inputless
  <2> QED
    BY <1>1, <2>1, AnewFacts DEF Anew
<1>4. CASE usage[t] # "input" /\ t # ops[o].out
  <2>1. PICK i \in DOMAIN ops[o].in : t = ops[o].in[i]
    BY <1>4 DEF TensorsOf, ToSet
  <2>2. command[o].made[i] = shape[t]
    BY <1>4, <2>1 DEF SizeInv, RestInv, Ready
  <2>3. command[o].made[i] = Anew[t]
    BY <2>1 DEF InSizes
  <2> QED
    BY <2>2, <2>3
<1> QED
  BY <1>2, <1>3, <1>4

LEMMA EndAllocRoom ==
  ASSUME IInv, HInv, SizeInv, RoomInv, Careful, EndAlloc PROVE RoomInv'
<1>1. /\ UNCHANGED <<setup, structure, group, mem, where, room, dangling>>
      /\ UNCHANGED <<shape, cache>>
      /\ ops' = ops /\ usage' = usage /\ Tensors' = Tensors /\ Operators' = Operators
      /\ \A p : TensorsOf(p)' = TensorsOf(p)
      /\ pc = "end" /\ Making /\ setup \in Setups /\ shape \in [Tensors -> Nat]
  BY Stable DEF EndAlloc, structure, Operators, IsConst, TensorsOf, Making, IInv, TypeInv
<1>2. CASE AllocFails /\ UNCHANGED plan
  <2>1. pc' = "failed" /\ index = 0 /\ index' = index
    BY <1>2 DEF AllocFails, Careful, Careless, IInv, TypeInv
  <2> QED
    BY <1>1, <1>2, <2>1, FailureRoom DEF IInv, memory
<1>3. CASE /\ plan' = [plan EXCEPT ![PlanOf[index]] = "computed"]
           /\ needResize' = (IF index = 0 THEN FALSE ELSE needResize)
           /\ pc' = "idle" /\ index' = 0
  <2>1. index \in {0, 1} /\ PlanOf[0] = "main" /\ PlanOf[1] = "backup"
    BY DEF IInv, TypeInv, PlanOf
  <2>2. /\ plan' \in [{"main", "backup"} -> {"reset", "laid", "computed"}]
        /\ plan'[PlanOf[index]] = "computed"
        /\ plan'["backup"] = plan["backup"] \/ plan'["backup"] = "computed"
        /\ index = 1 => plan'["backup"] = "computed"
    BY <1>3, <2>1 DEF RoomInv, RoomType
  <2>3. RoomType' /\ FixedRoom'
    BY <1>1, <2>2 DEF RoomInv, RoomType, FixedRoom, Variable
  <2>4. ASSUME NEW t \in Tensors, group[t] = 1
        PROVE  /\ \E o \in Operators : Exempt(cache, o) /\ t \in TensorsOf(o)
               /\ plan'["backup"] = "computed" /\ (Variable(t) => room[t] = Anew[t])
    <3>1. PICK o \in Operators : Exempt(cache, o) /\ t \in TensorsOf(o)
      BY <2>4 DEF RoomInv, BackupInv
    <3>2. CASE index = 0
      BY <2>2, <2>4, <3>1, <3>2 DEF RoomInv, BackupInv
    <3>3. CASE index = 1
      <4>1. ASSUME Variable(t) PROVE room[t] = shape[t] /\ shape[t] = Anew[t]
        <5>1. room[t] = shape[t]
          BY <1>1, <2>4, <3>1, <3>3, <4>1 DEF RoomInv, SettledInv
        <5>2. Ready(o) /\ command[o].made = InSizes(o, Anew)
          BY <3>1 DEF SizeInv, ExemptInv
        <5>3. shape[t] = Anew[t]
          BY <3>1, <3>3, <4>1, <5>2, FixedAnew DEF IInv
        <5> QED
          BY <5>1, <5>3
      <4> QED
        BY <2>2, <3>1, <3>3, <4>1
    <3> QED
      BY <2>1, <3>2, <3>3
  <2>5. BackupInv'
    BY <1>1, <2>4, SameAnew DEF BackupInv, Exempt, Variable
  <2>6. ASSUME index = 0, NEW o \in Operators, NEW t \in TensorsOf(o), Variable(t), group[t] = 1
        PROVE  room[t] = shape[t]
    <3>1. t \in Tensors
      BY <1>1, SetupFacts DEF Operators
    <3>2. shape[t] = Anew[t]
      <4>1. CASE Inputless(t)
        BY <1>1, <3>1, <4>1, AnewFacts DEF Anew
      <4>2. CASE ~ Inputless(t)
        <5>1. PICK p \in DOMAIN ops : ops[p].out = t
          BY <4>2 DEF Inputless
        <5>2. Right(p)
          BY <1>1, <2>6 DEF SizeInv, PassInv, Reached
        <5> QED
          BY <5>1, <5>2 DEF Right
      <4> QED
        BY <4>1, <4>2
    <3> QED
      BY <2>6, <3>1, <3>2 DEF RoomInv, BackupInv
  <2>7. StaticInv'
    <3> SUFFICES ASSUME NEW p \in Operators, mem[ops[p].out] = "static"
                 PROVE  room[ops[p].out] = shape[ops[p].out]
      BY <1>1 DEF StaticInv
    <3>1. PICK t \in Tensors : t = ops[p].out
      BY <1>1, OperatorFacts
    <3>2. Variable(t) /\ t \in TensorsOf(p) /\ group[t] \in {0, 1}
      BY <1>1, <3>1, OperatorFacts DEF Variable, TensorsOf, HInv, Callers, IInv, TypeInv
    <3>3. CASE group[t] = index
      BY <1>1, <3>1, <3>2, <3>3 DEF RoomInv, SettledInv
    <3>4. CASE group[t] = 1 /\ index = 0
      BY <2>6, <3>1, <3>2, <3>4
    <3>5. CASE group[t] = 0 /\ index = 1
      BY <3>1, <3>5 DEF RoomInv, StaticInv
    <3> QED
      BY <2>1, <3>2, <3>3, <3>4, <3>5
  <2>8. ClearedInv' /\ SettledInv'
    BY <1>3 DEF ClearedInv, SettledInv, Encoding, Making
  <2>9. TensorsReady'
    <3> SUFFICES ASSUME ~ needResize', NEW o \in DOMAIN ops, ~ IsConst(o), NEW t \in TensorsOf(o)
                 PROVE  Placed(t)' /\ room[t] >= shape[t]
      BY <1>1 DEF TensorsReady, RunAccepts, TensorsOf, IsConst
    <3>1. index = 0
      BY <1>3, <2>1 DEF SizeInv, RestInv
    <3>2. o \in Operators /\ t \in Tensors /\ shape[t] \in Nat
      BY <1>1, SetupFacts DEF Operators
    <3>3. CASE usage[t] = "constant"
      <4>1. mem[t] = "static"
        BY <1>1, <3>2, <3>3, AllocFolded
      <4>2. where[t] = "static" /\ room[t] = 1 /\ shape[t] = 1
        BY <3>2, <3>3, <4>1 DEF HInv, Addressed, RoomInv, FixedRoom, Variable, SizeInv, ConstSizes
      <4> QED
        BY <1>1, <4>2 DEF Placed
    <3>4. CASE group[t] = -1
      <4>1. where[t] = "user" /\ room[t] = shape[t]
        BY <3>2, <3>4 DEF HInv, Callers, RoomInv, FixedRoom
      <4> QED
        BY <1>1, <3>2, <4>1 DEF Placed
    <3>5. CASE Variable(t) /\ group[t] = 0
      <4>1. where[t] \in {"main", "static"} /\ room[t] = shape[t]
        BY <1>1, <2>1, <3>1, <3>2, <3>5 DEF RoomInv, SettledInv
      <4>2. plan'["main"] = "computed" /\ DOMAIN plan' = {"main", "backup"}
        BY <2>1, <2>2, <3>1
      <4> QED
        BY <1>1, <3>2, <4>1, <4>2 DEF Placed
    <3>6. CASE Variable(t) /\ group[t] = 1
      <4>1. room[t] = shape[t]
        BY <2>6, <3>1, <3>2, <3>6
      <4>2. where[t] \in {"backup", "static"}
        BY <3>1, <3>2, <3>6 DEF HInv, Backed
      <4>3. plan'["backup"] = "computed" /\ DOMAIN plan' = {"main", "backup"}
        BY <2>2, <2>4, <3>2, <3>6
      <4> QED
        BY <1>1, <3>2, <4>1, <4>2, <4>3 DEF Placed
    <3>7. group[t] \in {-1, 0, 1}
      BY <3>2 DEF IInv, TypeInv
    <3> QED
      BY <3>3, <3>4, <3>5, <3>6, <3>7 DEF Variable
  <2> QED
    BY <2>3, <2>5, <2>7, <2>8, <2>9 DEF RoomInv
<1> QED
  BY <1>2, <1>3 DEF EndAlloc, Continue

LEMMA FixResizeCacheRoom ==
  ASSUME IInv, HInv, SizeInv, RoomInv, Careful, FixResizeCache PROVE RoomInv'
<1>1. /\ UNCHANGED <<setup, shape, room, needResize>>
      /\ ops' = ops /\ usage' = usage /\ Tensors' = Tensors /\ Operators' = Operators
      /\ \A p : TensorsOf(p)' = TensorsOf(p)
      /\ pc = "idle" /\ pc' = "alloc" /\ at' = 1 /\ index' = 1 /\ setup \in Setups
      /\ cache' = FixedCache /\ group' = FixedGroup
      /\ \A t \in Tensors : group[t] # 1
      /\ mem' = Forget(Forget(mem, "main"), "backup")
      /\ where' = Forget(Forget(where, "main"), "backup")
      /\ plan' = [plan EXCEPT !["main"] = "reset", !["backup"] = "reset"]
      /\ ~ Encoding' /\ Making'
  BY Stable DEF FixResizeCache, Continue, Careful, Careless, Operators, IsConst, TensorsOf,
                Encoding, Making, IInv, TypeInv
<1>2. mem' = mem /\ \A t \in Tensors : mem[t] \in {"none", "static"}
  <2>1. \A t \in Tensors : mem[t] \in {"none", "static"}
    BY <1>1, NoChunks DEF IInv
  <2> QED
    BY <1>1, <2>1, ForgetNothing DEF IInv, TypeInv
<1>3. /\ \A t \in Tensors : group'[t] # 1 => group'[t] = group[t]
      /\ \A t \in Tensors : group'[t] = 1 => \E o \in FixedOps : t \in TensorsOf(o)
  BY <1>1 DEF FixedGroup, TensorsOf
<1>4. RoomType'
  BY <1>1 DEF RoomInv, RoomType
<1>5. FixedRoom'
  BY <1>1, <1>2, <1>3 DEF RoomInv, FixedRoom, Variable
<1>6. BackupInv'
  <2> SUFFICES ASSUME NEW t \in Tensors, group'[t] = 1
               PROVE  \E o \in Operators : Exempt(cache', o) /\ t \in TensorsOf(o)
    BY <1>1 DEF BackupInv
  <2>1. PICK o \in FixedOps : t \in TensorsOf(o)
    BY <1>3
  <2>2. o \in DOMAIN ops /\ o \in Operators /\ ~ Mutable(o)
    BY DEF FixedOps, Operators
  <2>3. ~ cache'[o].can /\ cache'[o].pass
    <3>1. cache'[o] = Closed(o, ~ Mutable(o))
      BY <1>1, <2>2 DEF FixedCache
    <3>2. Closed(o, ~ Mutable(o)).can = FALSE
      BY DEF Closed
    <3>3. Closed(o, ~ Mutable(o)).pass = (~ Mutable(o))
      BY Zenon DEF Closed
    <3> QED
      BY <2>2, <3>1, <3>2, <3>3, Zenon
  <2>4. Exempt(cache', o)
    BY <2>2, <2>3, Zenon DEF Exempt
  <2> QED
    BY <2>1, <2>2, <2>4
<1>7. StaticInv'
  BY <1>1, <1>2 DEF RoomInv, StaticInv
<1>8. SettledInv'
  <2> SUFFICES ASSUME NEW p \in Operators, NEW t \in TensorsOf(p), Variable(t), group'[t] = 1
               PROVE  /\ mem[t] # "none" => where'[t] = mem[t] /\ room[t] = shape[t]
                      /\ ~ (p < 1)
    BY <1>1, <1>2 DEF SettledInv, Variable
  <2>1. t \in Tensors /\ ~ (p < 1)
    BY <1>1, SetupFacts, OperatorFacts DEF Operators
  <2>2. ASSUME mem[t] # "none" PROVE where'[t] = mem[t] /\ room[t] = shape[t]
    <3>1. mem[t] = "static"
      BY <1>2, <2>1, <2>2
    <3>2. PICK q \in Operators : ops[q].out = t
      BY <3>1, StaticIsComputed DEF IInv
    <3>3. room[t] = shape[t]
      BY <1>1, <3>1, <3>2 DEF RoomInv, StaticInv
    <3>4. where[t] = "static"
      BY <2>1, <3>1 DEF HInv, Addressed
    <3>5. where'[t] = "static"
      BY <1>1, <2>1, <3>4 DEF Forget
    <3> QED
      BY <3>1, <3>3, <3>5
  <2> QED
    BY <2>1, <2>2
<1>9. ClearedInv' /\ TensorsReady'
  BY <1>1 DEF ClearedInv, TensorsReady, RunAccepts
<1> QED
  BY <1>4, <1>5, <1>6, <1>7, <1>8, <1>9 DEF RoomInv

LEMMA StepRoom ==
  ASSUME Careful, IInv, HInv, SizeInv, SizeInv', RoomInv, [Next]_vars PROVE RoomInv'
<1>1. CASE UNCHANGED vars
  <2>1. /\ UNCHANGED <<setup, shape, cache, group, index, pc, at, needResize, mem, where, room, plan>>
        /\ ops' = ops /\ usage' = usage /\ Tensors' = Tensors
    BY <1>1, Stable DEF vars
  <2>2. Operators' = Operators /\ (\A p : TensorsOf(p)' = TensorsOf(p)) /\ Anew' = Anew
    BY <2>1, SameAnew DEF Operators, IsConst, TensorsOf
  <2>3. RoomType' /\ FixedRoom' /\ BackupInv'
    BY <2>1, <2>2 DEF RoomInv, RoomType, FixedRoom, BackupInv, Variable, Exempt
  <2>4. ClearedInv' /\ StaticInv' /\ SettledInv'
    BY <2>1, <2>2 DEF RoomInv, ClearedInv, StaticInv, SettledInv, Encoding, Making, Variable
  <2>5. TensorsReady'
    BY <2>1 DEF RoomInv, TensorsReady, RunAccepts, Placed, IsConst
  <2> QED
    BY <2>3, <2>4, <2>5 DEF RoomInv
<1>2. CASE \E t \in Tensors, n \in Sizes : ResizeTensor(t, n)
  BY <1>2, ResizeTensorRoom
<1>3. CASE OpenResizeCheck
  BY <1>3, OpenResizeCheckRoom
<1>4. CASE Resize
  BY <1>4, ResizeRoom
<1>5. CASE ComputeShape
  BY <1>5, ComputeShapeRoom
<1>6. CASE FoldConstant
  BY <1>6, FoldConstantRoom
<1>7. CASE Transform \/ CreateExecution
  BY <1>7, CommandsRoom
<1>8. CASE BeginAlloc
  BY <1>8, BeginAllocRoom
<1>9. CASE Acquire
  BY <1>9, AcquireRoom
<1>10. CASE ResizeCommand
  BY <1>10, ResizeCommandRoom
<1>11. CASE Recycle
  BY <1>11, RecycleRoom
<1>12. CASE EndAlloc
  BY <1>12, EndAllocRoom
<1>13. CASE FixResizeCache
  BY <1>13, FixResizeCacheRoom
<1> QED
  BY <1>1, <1>2, <1>3, <1>4, <1>5, <1>6, <1>7, <1>8, <1>9, <1>10, <1>11, <1>12, <1>13 DEF Next

\* When run accepts a session, all that its commands read and write is in memory that
\* exists and was acquired for the size the tensor has: the caller's own, static
\* memory, the plan of this resize, or the backup plan of an earlier fix.
THEOREM ReadyToRun == ASSUME Careful PROVE Spec => []TensorsReady
<1>1. Init => HInv /\ RoomInv
  BY InitHeld, InitRoom
<1>2. IInv /\ IInv' /\ HInv /\ [Next]_vars => HInv'
  BY StepHeld
<1>3. IInv /\ HInv /\ SizeInv /\ SizeInv' /\ RoomInv /\ [Next]_vars => RoomInv'
  BY StepRoom
<1>4. RoomInv => TensorsReady
  BY DEF RoomInv
<1> QED
  BY <1>1, <1>2, <1>3, <1>4, InvHolds, SizesHold, PTL DEF Spec

==============================================================================

------------------------------ MODULE FoldLemmas ------------------------------
(***************************************************************************)
(* Facts about least elements, folds and sums over finite sets, which the  *)
(* proofs about the allocators use.  What the induction rules of the       *)
(* library would give, for an operator, is shown with the least number, or *)
(* a least set, for which it fails.                                        *)
(***************************************************************************)
EXTENDS Integers, Functions, Folds, FiniteSetTheorems, WellFoundedInduction, TLAPS

LEMMA LeastNumber ==
  ASSUME NEW S \in SUBSET Nat, S # {}
  PROVE  \E m \in S : \A n \in S : m <= n
<1>1. PICK m \in S : \A n \in S : ~ (<<n, m>> \in OpToRel(<, Nat))
  BY NatLessThanWellFounded, WFMin
<1>2. \A n \in S : ~ (n < m)
  <2> TAKE n \in S
  <2>1. <<n, m>> \in Nat \X Nat /\ <<n, m>>[1] = n /\ <<n, m>>[2] = m
    OBVIOUS
  <2>2. ~ (<<n, m>> \in OpToRel(<, Nat))
    BY <1>1
  <2> QED
    BY <2>1, <2>2, Zenon DEF OpToRel
<1> QED
  BY <1>2

LEMMA LeastSet ==
  ASSUME NEW S, IsFiniteSet(S), NEW B \in SUBSET (SUBSET S), B # {}
  PROVE  \E T \in B : \A U \in SUBSET T : U # T => U \notin B
<1>1. PICK T \in B : \A U \in B : ~ (<<U, T>> \in StrictSubsetOrdering(S))
  <2>1. B \subseteq FiniteSubsetsOf(S)
    BY FS_FiniteSubsetsOfFinite
  <2> QED
    BY <2>1, FS_StrictSubsetOrderingWellFounded, WFMin
<1>2. \A U \in SUBSET T : U # T => U \notin B
  <2> SUFFICES ASSUME NEW U \in SUBSET T, U # T, U \in B PROVE FALSE
    OBVIOUS
  <2>1. <<U, T>> \in (SUBSET S) \X (SUBSET S) /\ <<U, T>>[1] = U /\ <<U, T>>[2] = T
    OBVIOUS
  <2> QED
    BY <1>1, <2>1 DEF StrictSubsetOrdering
<1> QED
  BY <1>2

FoldEqn(f, S, base, step, pick) ==
  \A T \in SUBSET S :
    f[T] = IF T = {} THEN base ELSE step[<<pick[T], f[T \ {pick[T]}]>>]

\* A fold has a value: it is defined on the subsets of at most k elements, for
\* every k.
LEMMA FoldExists ==
  ASSUME NEW S, IsFiniteSet(S), NEW R, NEW base \in R, NEW step \in [S \X R -> R],
         NEW pick, \A T \in SUBSET S : T # {} => pick[T] \in T
  PROVE  \E f \in [SUBSET S -> R] : FoldEqn(f, S, base, step, pick)
<1> DEFINE Small(k) == {T \in SUBSET S : Cardinality(T) <= k}
           Good(f, D) == \A T \in D :
             f[T] = IF T = {} THEN base ELSE step[<<pick[T], f[T \ {pick[T]}]>>]
           Missing == {k \in Nat : ~ \E f \in [Small(k) -> R] : Good(f, Small(k))}
<1>1. \A T \in SUBSET S : /\ IsFiniteSet(T) /\ Cardinality(T) \in Nat
                          /\ Cardinality(T) <= Cardinality(S)
                          /\ T # {} => /\ pick[T] \in T
                                       /\ Cardinality(T \ {pick[T]}) = Cardinality(T) - 1
                          /\ Cardinality(T) = 0 <=> T = {}
  <2> TAKE T \in SUBSET S
  <2>1. IsFiniteSet(T) /\ Cardinality(T) \in Nat /\ Cardinality(T) <= Cardinality(S)
    BY FS_Subset, FS_CardinalityType
  <2>2. T # {} => pick[T] \in T
    OBVIOUS
  <2> QED
    BY <2>1, <2>2, FS_RemoveElement, FS_EmptySet, ZenonT(30)
<1>2. Missing = {}
  <2> SUFFICES ASSUME Missing # {} PROVE FALSE
    OBVIOUS
  <2>1. PICK k \in Missing : \A n \in Missing : k <= n
    BY LeastNumber
  <2>2. k \in Nat /\ ~ \E f \in [Small(k) -> R] : Good(f, Small(k))
    OBVIOUS
  <2>3. CASE k = 0
    <3>1. \A T \in Small(0) : T = {}
      <4> TAKE T \in Small(0)
      <4>1. T \in SUBSET S /\ Cardinality(T) <= 0
        OBVIOUS
      <4>2. Cardinality(T) \in Nat /\ (Cardinality(T) = 0 <=> T = {})
        BY <1>1, <4>1
      <4> QED
        BY <4>1, <4>2
    <3> DEFINE f == [T \in Small(0) |-> base]
    <3>2. f \in [Small(0) -> R] /\ \A T \in Small(0) : f[T] = base
      OBVIOUS
    <3>3. Good(f, Small(0))
      BY <3>1, <3>2
    <3> QED
      BY <2>2, <2>3, <3>2, <3>3
  <2>4. CASE k # 0
    <3>1. k - 1 \in Nat /\ k - 1 \notin Missing
      <4>1. k \in Nat /\ k - 1 \in Nat /\ ~ (k <= k - 1)
        BY <2>2, <2>4
      <4> HIDE DEF Missing
      <4> QED
        BY <2>1, <4>1
    <3>2. PICK f \in [Small(k - 1) -> R] : Good(f, Small(k - 1))
      BY <3>1
    <3> DEFINE Value(T) == IF T = {} THEN base ELSE step[<<pick[T], f[T \ {pick[T]}]>>]
               g == [T \in Small(k) |-> Value(T)]
    <3>3. \A T \in Small(k) : T # {} => /\ T \ {pick[T]} \in Small(k - 1)
                                        /\ pick[T] \in S
      <4> SUFFICES ASSUME NEW T \in Small(k), T # {}
                   PROVE  T \ {pick[T]} \in Small(k - 1) /\ pick[T] \in S
        OBVIOUS
      <4>1. T \in SUBSET S /\ Cardinality(T) <= k
        OBVIOUS
      <4>2. /\ Cardinality(T \ {pick[T]}) = Cardinality(T) - 1 /\ pick[T] \in T
            /\ Cardinality(T) \in Nat
        BY <1>1, <4>1
      <4> QED
        BY <2>2, <4>1, <4>2
    <3>4. \A T \in Small(k) : Value(T) \in R
      <4> TAKE T \in Small(k)
      <4>1. CASE T = {}
        BY <4>1
      <4>2. CASE T # {}
        <5>1. T \ {pick[T]} \in Small(k - 1) /\ pick[T] \in S
          BY <3>3, <4>2
        <5>2. f[T \ {pick[T]}] \in R
          BY <5>1
        <5> QED
          BY <4>2, <5>1, <5>2
      <4> QED
        BY <4>1, <4>2
    <3>5. g \in [Small(k) -> R] /\ \A T \in Small(k) : g[T] = Value(T)
      BY <3>4
    <3>6. \A T \in Small(k - 1) : T \in Small(k) /\ g[T] = f[T]
      <4> TAKE T \in Small(k - 1)
      <4>1. T \in SUBSET S /\ Cardinality(T) <= k - 1 /\ Cardinality(T) \in Nat
        BY <1>1
      <4>2. T \in Small(k)
        <5>1. Cardinality(T) <= k
          BY <2>2, <4>1
        <5> QED
          BY <4>1, <5>1
      <4>3. f[T] = Value(T)
        BY <3>2
      <4> QED
        BY <3>5, <4>2, <4>3
    <3>7. Good(g, Small(k))
      <4> SUFFICES ASSUME NEW T \in Small(k)
                   PROVE  g[T] = IF T = {} THEN base
                                 ELSE step[<<pick[T], g[T \ {pick[T]}]>>]
        OBVIOUS
      <4>1. T # {} => g[T \ {pick[T]}] = f[T \ {pick[T]}]
        BY <3>3, <3>6
      <4>2. g[T] = IF T = {} THEN base ELSE step[<<pick[T], f[T \ {pick[T]}]>>]
        BY <3>5
      <4> HIDE DEF g, Small
      <4> QED
        BY <4>1, <4>2
    <3> HIDE DEF g
    <3> QED
      BY <2>2, <3>5, <3>7
  <2> QED
    BY <2>3, <2>4
<1>3. Cardinality(S) \in Nat /\ Small(Cardinality(S)) = SUBSET S
  BY <1>1, FS_CardinalityType
<1>4. \E f \in [Small(Cardinality(S)) -> R] : Good(f, Small(Cardinality(S)))
  BY <1>2, <1>3
<1> QED
  BY <1>3, <1>4 DEF FoldEqn

\* The same when the elements are taken as CHOOSE has it.
Picked(T) == CHOOSE x \in T : TRUE
Picks(S) == [T \in SUBSET S |-> Picked(T)]
PickedEqn(f, S, base, step) ==
  \A T \in SUBSET S :
    f[T] = IF T = {} THEN base ELSE step[<<Picked(T), f[T \ {Picked(T)}]>>]

LEMMA PickedFold ==
  ASSUME NEW S, IsFiniteSet(S), NEW R, NEW base \in R, NEW step \in [S \X R -> R]
  PROVE  \E f \in [SUBSET S -> R] : PickedEqn(f, S, base, step)
<1>1. \A T \in SUBSET S : Picks(S)[T] = Picked(T) /\ (T # {} => Picks(S)[T] \in T)
  BY DEF Picks, Picked
<1>2. \E f \in [SUBSET S -> R] : FoldEqn(f, S, base, step, Picks(S))
  BY <1>1, FoldExists, Zenon
<1>3. PICK f \in [SUBSET S -> R] : FoldEqn(f, S, base, step, Picks(S))
  BY <1>2
<1>4. ASSUME NEW T \in SUBSET S
      PROVE  f[T] = IF T = {} THEN base ELSE step[<<Picked(T), f[T \ {Picked(T)}]>>]
  <2>1. f[T] = IF T = {} THEN base
               ELSE step[<<Picks(S)[T], f[T \ {Picks(S)[T]}]>>]
    BY <1>3, Zenon DEF FoldEqn
  <2>2. Picks(S)[T] = Picked(T)
    BY <1>1
  <2> QED
    BY <2>1, <2>2, Zenon
<1>5. PickedEqn(f, S, base, step)
  BY <1>4, Zenon DEF PickedEqn
<1> QED
  BY <1>5

\* f has the sums of w over the subsets of S.
SumEqn(f, w, S) ==
  \A T \in SUBSET S : f[T] = IF T = {} THEN 0 ELSE w[Picked(T)] + f[T \ {Picked(T)}]
IsSum(f, w, S) == f \in [SUBSET S -> Nat] /\ SumEqn(f, w, S)

LEMMA SumExists ==
  ASSUME NEW S, IsFiniteSet(S), NEW w \in [S -> Nat]
  PROVE  \E f : IsSum(f, w, S)
<1> DEFINE step == [y \in S \X Nat |-> w[y[1]] + y[2]]
<1>1. step \in [S \X Nat -> Nat] /\ \A x \in S, r \in Nat : step[<<x, r>>] = w[x] + r
  OBVIOUS
<1> HIDE DEF step
<1>2. PICK f \in [SUBSET S -> Nat] : PickedEqn(f, S, 0, step)
  <2>1. 0 \in Nat
    OBVIOUS
  <2> QED
    BY <1>1, <2>1, PickedFold, Zenon
<1>3. ASSUME NEW T \in SUBSET S, T # {}
      PROVE  step[<<Picked(T), f[T \ {Picked(T)}]>>] = w[Picked(T)] + f[T \ {Picked(T)}]
  <2>1. Picked(T) \in S /\ T \ {Picked(T)} \in SUBSET S
    BY <1>3 DEF Picked
  <2>2. f[T \ {Picked(T)}] \in Nat
    BY <2>1
  <2> QED
    BY <1>1, <2>1, <2>2
<1> QED
  BY <1>2, <1>3 DEF IsSum, SumEqn, PickedEqn

\* Any element may be the one taken out.
LEMMA SumTakesOut ==
  ASSUME NEW S, IsFiniteSet(S), NEW w \in [S -> Nat], NEW f, IsSum(f, w, S),
         NEW T \in SUBSET S, NEW x \in T
  PROVE  f[T] = w[x] + f[T \ {x}]
<1> DEFINE B == {U \in SUBSET S : \E y \in U : f[U] # w[y] + f[U \ {y}]}
<1>1. B = {}
  <2> SUFFICES ASSUME B # {} PROVE FALSE
    OBVIOUS
  <2>1. PICK U \in B : \A V \in SUBSET U : V # U => V \notin B
    <3>1. B \in SUBSET (SUBSET S)
      OBVIOUS
    <3> HIDE DEF B
    <3> QED
      BY <3>1, LeastSet
  <2>2. PICK y \in U : f[U] # w[y] + f[U \ {y}]
    OBVIOUS
  <2> DEFINE p == Picked(U)
  <2>3. U \in SUBSET S /\ p \in U /\ f[U] = w[p] + f[U \ {p}] /\ y \in S /\ p \in S
    BY DEF Picked, IsSum, SumEqn
  <2>4. y # p
    BY <2>2, <2>3
  <2>5. U \ {p} \notin B /\ U \ {y} \notin B /\ U \ {p} \in SUBSET S /\ U \ {y} \in SUBSET S
    BY <2>1, <2>3
  <2>6. f[U \ {p}] = w[y] + f[(U \ {p}) \ {y}]
    BY <2>3, <2>4, <2>5
  <2>7. f[U \ {y}] = w[p] + f[(U \ {y}) \ {p}]
    BY <2>3, <2>4, <2>5
  <2>8. (U \ {y}) \ {p} = (U \ {p}) \ {y} /\ (U \ {p}) \ {y} \in SUBSET S
    BY <2>3
  <2>9. f[(U \ {p}) \ {y}] \in Nat /\ w[p] \in Nat /\ w[y] \in Nat
    BY <2>3, <2>8 DEF IsSum, SumEqn
  <2>10. f[U \ {y}] = w[p] + f[(U \ {p}) \ {y}]
    BY <2>7, <2>8
  <2> HIDE DEF p, B
  <2> QED
    BY <2>2, <2>3, <2>6, <2>9, <2>10
<1> QED
  BY <1>1

\* The sum depends on the elements alone.
LEMMA SumUnique ==
  ASSUME NEW S, IsFiniteSet(S), NEW w \in [S -> Nat], NEW f, IsSum(f, w, S),
         NEW U \in SUBSET S, NEW v, NEW g, SumEqn(g, v, U),
         \A x \in U : w[x] = v[x]
  PROVE  f[U] = g[U]
<1> DEFINE B == {T \in SUBSET U : f[T] # g[T]}
<1>1. B = {}
  <2> SUFFICES ASSUME B # {} PROVE FALSE
    OBVIOUS
  <2>1. IsFiniteSet(U) /\ B \in SUBSET (SUBSET U)
    BY FS_Subset
  <2>2. PICK T \in B : \A V \in SUBSET T : V # T => V \notin B
    <3> HIDE DEF B
    <3> QED
      BY <2>1, LeastSet
  <2>3. T \in SUBSET U /\ T \in SUBSET S /\ f[T] # g[T]
    OBVIOUS
  <2>4. T # {}
    BY <2>3 DEF IsSum, SumEqn
  <2>5. Picked(T) \in T
    BY <2>4 DEF Picked
  <2>6. f[T \ {Picked(T)}] = g[T \ {Picked(T)}]
    BY <2>2, <2>3, <2>5
  <2>7. w[Picked(T)] = v[Picked(T)]
    BY <2>3, <2>5
  <2> HIDE DEF B
  <2> QED
    BY <2>3, <2>4, <2>6, <2>7 DEF IsSum, SumEqn
<1> QED
  BY <1>1

\* The sum that FoldFunctionOnSet makes.
SumOver(w, S) == FoldFunctionOnSet(+, 0, w, S)

LEMMA SumOverIsSum ==
  ASSUME NEW D, NEW w \in [D -> Nat], NEW S \in SUBSET D, IsFiniteSet(S),
         NEW f, IsSum(f, w, S)
  PROVE  SumOver(w, S) = f[S]
<1> DEFINE Eqn(g) == g = [T \in SUBSET S |->
                            IF T = {} THEN 0
                            ELSE w[CHOOSE x \in T : TRUE] + g[T \ {CHOOSE x \in T : TRUE}]]
<1>1. Eqn(f)
  BY DEF IsSum, SumEqn, Picked
<1> DEFINE g == CHOOSE g : Eqn(g)
<1>2. Eqn(g)
  BY <1>1, Zenon
<1>3. SumOver(w, S) = g[S]
  BY DEF SumOver, FoldFunctionOnSet, MapThenFoldSet
<1> HIDE DEF g
<1>4. SumEqn(g, w, S)
  BY <1>2 DEF SumEqn, Picked
<1> DEFINE v == [x \in S |-> w[x]]
<1>5. v \in [S -> Nat] /\ \A x \in S : v[x] = w[x]
  OBVIOUS
<1>6. IsSum(f, v, S)
  BY <1>5 DEF IsSum, SumEqn, Picked
<1> HIDE DEF v
<1>7. f[S] = g[S]
  BY <1>4, <1>5, <1>6, SumUnique
<1> QED
  BY <1>3, <1>7

LEMMA SumOverFacts ==
  ASSUME NEW D, NEW w \in [D -> Nat], NEW S \in SUBSET D, IsFiniteSet(S)
  PROVE  /\ SumOver(w, S) \in Nat
         /\ S = {} => SumOver(w, S) = 0
         /\ \A x \in S : SumOver(w, S) = w[x] + SumOver(w, S \ {x})
<1> DEFINE v == [x \in S |-> w[x]]
<1>1. v \in [S -> Nat] /\ \A x \in S : v[x] = w[x]
  OBVIOUS
<1> HIDE DEF v
<1>2. PICK f : IsSum(f, v, S)
  BY <1>1, SumExists
<1>3. \A T \in SUBSET S : T # {} => Picked(T) \in S
  BY DEF Picked
<1>4. ASSUME NEW T \in SUBSET S
      PROVE  SumOver(w, T) = f[T]
  <2> DEFINE g == [U \in SUBSET T |-> f[U]]
  <2>1. IsSum(g, w, T)
    BY <1>1, <1>2, <1>3 DEF IsSum, SumEqn, Picked
  <2>2. IsFiniteSet(T) /\ T \in SUBSET D /\ g[T] = f[T]
    BY FS_Subset
  <2> HIDE DEF g
  <2> QED
    BY <2>1, <2>2, SumOverIsSum
<1>5. f \in [SUBSET S -> Nat] /\ f[{}] = 0
  BY <1>2 DEF IsSum, SumEqn
<1>6. ASSUME NEW x \in S
      PROVE  f[S] = w[x] + f[S \ {x}]
  BY <1>1, <1>2, SumTakesOut
<1> QED
  BY <1>4, <1>5, <1>6
=============================================================================

-------------------------- MODULE OcrLifecycle_proof --------------------------
(***************************************************************************)
(* The references of the MnnOcr objects to the library and the life of the *)
(* engine in it, for every set of objects, whether or not libraries may    *)
(* lack functions; and what the decoder reads, for every table of scores   *)
(* that recognition may end with.                                          *)
(***************************************************************************)
EXTENDS OcrLifecycle, FoldLemmas, FunctionTheorems, SequenceTheorems, FiniteSetTheorems,
        TLAPS

\* An object that has loaded the library has MNN_ocrDestroy, so it deletes the
\* engine before it gives its reference back.
DestroyKnown == m_dll \subseteq m_destroy

IInv == TypeOK /\ DestroyKnown /\ ReferencesBalanced /\ EngineDeleted

\* The objects with the library are finitely many, and one of them that loads or
\* unloads it changes their number by one.
LEMMA Counting ==
  ASSUME NEW s \in SUBSET Wrappers, NEW w \in Wrappers
  PROVE  /\ Cardinality(s) \in Nat
         /\ w \notin s => Cardinality(s \cup {w}) = Cardinality(s) + 1
         /\ w \in s => Cardinality(s \ {w}) = Cardinality(s) - 1 /\ Cardinality(s) > 0
<1>1. IsFiniteSet(s)
  BY WrappersAssumption, FS_Subset
<1>2. Cardinality(s) \in Nat
  BY <1>1, FS_CardinalityType
<1>3. w \notin s => Cardinality(s \cup {w}) = Cardinality(s) + 1
  BY <1>1, FS_AddElement
<1>4. w \in s => Cardinality(s \ {w}) = Cardinality(s) - 1
  BY <1>1, FS_RemoveElement
<1>5. w \in s => Cardinality(s) > 0
  BY <1>1, <1>2, FS_EmptySet
<1> QED
  BY <1>2, <1>3, <1>4, <1>5

LEMMA InitInv == Init => IInv
<1> SUFFICES ASSUME Init PROVE IInv
  OBVIOUS
<1>1. Cardinality({}) = 0
  BY FS_EmptySet
<1> QED
  BY <1>1 DEF Init, IInv, TypeOK, DestroyKnown, ReferencesBalanced, EngineDeleted, Mapped

LEMMA LoadInv == ASSUME IInv, NEW w \in Wrappers, Load(w) PROVE IInv'
<1> USE DEF IInv, TypeOK, DestroyKnown, ReferencesBalanced, EngineDeleted, Mapped, Load, Alive
<1>1. Cardinality(m_dll') = Cardinality(m_dll) + 1
  BY Counting
<1> QED
  BY <1>1

\* Nobody holds a library that lacks functions, so there is no engine either.
LEMMA LoadIncompleteInv == ASSUME IInv, NEW w \in Wrappers, LoadIncomplete(w) PROVE IInv'
<1> USE DEF IInv, TypeOK, DestroyKnown, ReferencesBalanced, EngineDeleted, Mapped,
            LoadIncomplete, FreeLibrary, Alive
<1>1. ~ g_engine /\ references' = references /\ lost' = lost /\ ~ g_engine'
  OBVIOUS
<1> QED
  BY <1>1

\* The engine is only created by an object that holds a reference.
LEMMA InitEngineInv ==
  ASSUME IInv, NEW w \in Wrappers, NEW threads \in 1 .. 2, InitEngine(w, threads)
  PROVE  IInv'
<1> USE DEF IInv, TypeOK, DestroyKnown, ReferencesBalanced, EngineDeleted, Mapped,
            InitEngine, Alive
<1>1. references > 0
  BY Counting
<1> QED
  BY <1>1

\* The first destroy of an object that is loaded deletes the engine; one that is
\* not loaded leaves the references alone.
LEMMA DestroyInv ==
  ASSUME IInv, NEW w \in Wrappers, Destroy(w), gone' \in {gone, gone \cup {w}}
  PROVE  IInv'
<1> USE DEF IInv, TypeOK, DestroyKnown, ReferencesBalanced, EngineDeleted, Mapped,
            Destroy, CallsDestroy
<1>1. CASE w \in m_dll
  <2>1. Cardinality(m_dll') = Cardinality(m_dll) - 1 /\ Cardinality(m_dll) > 0
    BY <1>1, Counting
  <2>2. references' = references - 1 /\ lost' = lost /\ g_engine' = FALSE
    BY <1>1 DEF FreeLibrary
  <2>3. m_dll' = m_dll \ {w} /\ wild' \in SUBSET Wrappers /\ gone' \in SUBSET Wrappers
    OBVIOUS
  <2>4. ReferencesBalanced'
    BY <2>1, <2>2, <2>3
  <2>5. EngineDeleted'
    BY <2>2
  <2>6. DestroyKnown' /\ m_dll' \in SUBSET Wrappers /\ m_destroy' \in SUBSET Wrappers
    BY <2>3
  <2>7. references' \in Nat
    BY <2>1, <2>2
  <2>8. pinned' \in BOOLEAN /\ g_engine' \in BOOLEAN /\ lost' \in BOOLEAN
    BY <2>2, Zenon
  <2> QED
    BY <2>3, <2>4, <2>5, <2>6, <2>7, <2>8, Zenon
<1>2. CASE w \notin m_dll
  <2>1. m_dll' = m_dll /\ references' = references /\ lost' = lost
    BY <1>2
  <2>2. g_engine' => g_engine
    BY <1>2
  <2> QED
    BY <2>1, <2>2
<1> QED
  BY <1>1, <1>2

LEMMA NextInv == IInv /\ [Next]_vars => IInv'
<1> SUFFICES ASSUME IInv, [Next]_vars PROVE IInv'
  OBVIOUS
<1>1. CASE UNCHANGED library
  BY <1>1 DEF library, IInv, TypeOK, DestroyKnown, ReferencesBalanced, EngineDeleted, Mapped
<1>2. ASSUME NEW w \in Wrappers, Manage(w) PROVE IInv'
  <2>1. CASE Load(w)
    BY <2>1, LoadInv
  <2>2. CASE LoadIncomplete(w)
    BY <2>2, LoadIncompleteInv
  <2>3. ASSUME NEW threads \in 1 .. 2, InitEngine(w, threads) PROVE IInv'
    BY <2>3, InitEngineInv
  <2>4. CASE CallDestroy(w)
    BY <2>4, DestroyInv DEF CallDestroy
  <2>5. CASE Destruct(w)
    BY <2>5, DestroyInv DEF Destruct
  <2> QED
    BY <1>2, <2>1, <2>2, <2>3, <2>4, <2>5 DEF Manage
<1> QED
  BY <1>1, <1>2 DEF Next, Recognize, vars

LEMMA Inductive == Spec => []IInv
BY InitInv, NextInv, PTL DEF Spec

\* Whatever MnnOcr objects do in whatever order, the library has exactly one
\* reference for each of them that has it loaded.
THEOREM ReferencesAreBalanced == Spec => []ReferencesBalanced
<1>1. IInv => ReferencesBalanced
  BY DEF IInv
<1> QED
  BY <1>1, Inductive, PTL

\* The library is never unmapped with a live engine.
THEOREM EngineIsDeleted == Spec => []EngineDeleted
<1>1. IInv => EngineDeleted
  BY DEF IInv
<1> QED
  BY <1>1, Inductive, PTL

------------------------------------------------------------------------------
\* What the loop of decode reads, for every table.  There is a best class.
LEMMA BestIsClass == ASSUME NEW frame \in [Classes -> Int] PROVE Best(frame) \in Classes
<1> DEFINE Wins(c, k) == \A d \in 0 .. k :
             frame[d] <= frame[c] /\ (frame[d] = frame[c] => c <= d)
           Drawn == {k \in Classes : ~ \E c \in 0 .. k : Wins(c, k)}
<1>1. ClassNum \in Nat \ {0} /\ Classes = 0 .. ClassNum - 1 /\ Classes \subseteq Nat
  BY ClassNumAssumption DEF Classes
<1>2. Drawn = {}
  <2> SUFFICES ASSUME Drawn # {} PROVE FALSE
    OBVIOUS
  <2>1. PICK k \in Drawn : \A n \in Drawn : k <= n
    BY <1>1, LeastNumber
  <2>2. k \in Classes /\ k \in Nat /\ ~ \E c \in 0 .. k : Wins(c, k)
    BY <1>1
  <2>3. CASE k = 0
    <3>1. 0 \in 0 .. k /\ \A d \in 0 .. k : d = 0
      BY <2>3
    <3>2. frame[0] \in Int
      BY <2>2, <2>3
    <3>3. Wins(0, k)
      BY <3>1, <3>2
    <3> QED
      BY <2>2, <3>1, <3>3
  <2>4. CASE k # 0
    <3>1. k - 1 \in Classes /\ ~ (k <= k - 1)
      BY <1>1, <2>2, <2>4
    <3>2. k - 1 \notin Drawn
      <4> HIDE DEF Drawn
      <4> QED
        BY <2>1, <3>1
    <3>3. PICK c \in 0 .. k - 1 : Wins(c, k - 1)
      BY <3>1, <3>2
    <3>4. /\ c \in Nat /\ c < k /\ c \in 0 .. k /\ k \in 0 .. k
          /\ frame[c] \in Int /\ frame[k] \in Int
      BY <1>1, <2>2, <2>4
    <3>5. \A d \in 0 .. k : (d = k \/ d \in 0 .. k - 1) /\ d <= k /\ frame[d] \in Int
      BY <1>1, <2>2
    <3>6. CASE frame[k] > frame[c]
      <4>1. ASSUME NEW d \in 0 .. k
            PROVE  frame[d] <= frame[k] /\ (frame[d] = frame[k] => k <= d)
        <5>1. d \in 0 .. k - 1 => frame[d] <= frame[c]
          BY <3>3
        <5> QED
          BY <2>2, <3>4, <3>5, <3>6, <5>1
      <4> QED
        BY <2>2, <3>4, <4>1
    <3>7. CASE ~ (frame[k] > frame[c])
      <4>1. ASSUME NEW d \in 0 .. k
            PROVE  frame[d] <= frame[c] /\ (frame[d] = frame[c] => c <= d)
        <5>1. d \in 0 .. k - 1 =>
                frame[d] <= frame[c] /\ (frame[d] = frame[c] => c <= d)
          BY <3>3
        <5> QED
          BY <2>2, <3>4, <3>5, <3>7, <5>1
      <4> QED
        BY <2>2, <3>4, <4>1
    <3> QED
      BY <3>6, <3>7
  <2> QED
    BY <2>3, <2>4
<1>3. ClassNum - 1 \in Classes
  BY <1>1
<1>4. \E c \in Classes : Wins(c, ClassNum - 1)
  BY <1>1, <1>2, <1>3
<1>5. \E c \in Classes : \A d \in Classes :
        frame[d] <= frame[c] /\ (frame[d] = frame[c] => c <= d)
  BY <1>1, <1>4
<1> QED
  BY <1>5, Zenon DEF Best

\* e has the steps of K in their order; s has what w gives for them.
Orders(e, K) ==
  /\ e \in Seq(Int)
  /\ \A n \in 1 .. Len(e) : e[n] \in K
  /\ \A i \in K : \E n \in 1 .. Len(e) : e[n] = i
  /\ \A m, n \in 1 .. Len(e) : m < n => e[m] < e[n]
Spells(s, K, w) ==
  /\ s \in Seq(Int)
  /\ \E e : /\ Orders(e, K) /\ Len(s) = Len(e)
            /\ \A n \in 1 .. Len(e) : s[n] = w[e[n]]

LEMMA SpellsNothing == ASSUME NEW w PROVE Spells(<<>>, {}, w)
<1>1. <<>> \in Seq(Int) /\ Len(<<>>) = 0
  BY EmptySeq
<1>2. Orders(<<>>, {})
  BY <1>1 DEF Orders
<1> QED
  BY <1>1, <1>2 DEF Spells

LEMMA SpellsOneMore ==
  ASSUME NEW D \in SUBSET Int, NEW w \in [D -> Int], NEW K \in SUBSET D,
         NEW s, Spells(s, K, w), NEW t \in D, \A i \in K : i < t
  PROVE  Spells(Append(s, w[t]), K \cup {t}, w)
<1>1. PICK e : /\ Orders(e, K) /\ Len(s) = Len(e)
               /\ \A n \in 1 .. Len(e) : s[n] = w[e[n]]
  BY DEF Spells
<1>2. s \in Seq(Int) /\ e \in Seq(Int) /\ w[t] \in Int /\ t \in Int
  BY <1>1 DEF Spells, Orders
<1> DEFINE L == Len(e)
           s1 == Append(s, w[t])
           e1 == Append(e, t)
<1>3. L \in Nat /\ \A n \in 1 .. L + 1 : n \in 1 .. L \/ n = L + 1
  BY <1>2, LenProperties
<1>4. s1 \in Seq(Int) /\ Len(s1) = L + 1 /\ s1[L + 1] = w[t] /\ \A n \in 1 .. L : s1[n] = s[n]
  BY <1>1, <1>2, AppendProperties
<1>5. e1 \in Seq(Int) /\ Len(e1) = L + 1 /\ e1[L + 1] = t /\ \A n \in 1 .. L : e1[n] = e[n]
  BY <1>2, AppendProperties
<1> HIDE DEF L, s1, e1
<1>6. /\ \A n \in 1 .. L : e[n] \in K /\ s[n] = w[e[n]]
      /\ \A i \in K : \E n \in 1 .. L : e[n] = i
      /\ \A m, n \in 1 .. L : m < n => e[m] < e[n]
  BY <1>1 DEF Orders, L
<1>7. Orders(e1, K \cup {t})
  <2>1. \A n \in 1 .. L + 1 : e1[n] \in K \cup {t}
    BY <1>3, <1>5, <1>6
  <2>2. ASSUME NEW i \in K \cup {t} PROVE \E n \in 1 .. L + 1 : e1[n] = i
    <3>1. L + 1 \in 1 .. L + 1 /\ 1 .. L \subseteq 1 .. L + 1
      BY <1>3
    <3> QED
      BY <1>5, <1>6, <3>1
  <2>3. ASSUME NEW m \in 1 .. L + 1, NEW n \in 1 .. L + 1, m < n PROVE e1[m] < e1[n]
    <3>1. m \in 1 .. L
      BY <1>3, <2>3
    <3>2. CASE n \in 1 .. L
      BY <1>5, <1>6, <2>3, <3>1, <3>2
    <3>3. CASE n = L + 1
      BY <1>5, <1>6, <3>1, <3>3
    <3> QED
      BY <1>3, <3>2, <3>3
  <2> QED
    BY <1>5, <2>1, <2>2, <2>3 DEF Orders
<1>8. \A n \in 1 .. L + 1 : s1[n] = w[e1[n]]
  BY <1>3, <1>4, <1>5, <1>6
<1>9. Spells(s1, K \cup {t}, w)
  <2>1. Len(s1) = Len(e1) /\ \A n \in 1 .. Len(e1) : s1[n] = w[e1[n]]
    BY <1>4, <1>5, <1>8
  <2> QED
    BY <1>4, <1>7, <2>1, Zenon DEF Spells
<1> QED
  BY <1>9 DEF s1

\* The n-th step of K as Reading has it; what is spelled is w at these.
Nth(K, n) == CHOOSE i \in K : Cardinality({j \in K : j < i}) = n - 1

LEMMA SpelledInOrder ==
  ASSUME NEW K \in SUBSET Int, NEW w, NEW s, Spells(s, K, w)
  PROVE  /\ s = [n \in 1 .. Cardinality(K) |-> w[Nth(K, n)]]
         /\ \A n \in 1 .. Cardinality(K) : Nth(K, n) \in K
         /\ s = <<>> <=> Cardinality(K) = 0
<1>1. PICK e : /\ Orders(e, K) /\ Len(s) = Len(e)
               /\ \A n \in 1 .. Len(e) : s[n] = w[e[n]]
  BY DEF Spells
<1> DEFINE L == Len(e)
<1>2. /\ s \in Seq(Int) /\ e \in Seq(Int) /\ L \in Nat
      /\ e \in [1 .. L -> Int] /\ DOMAIN s = 1 .. L
  BY <1>1, LenProperties DEF Spells, Orders
<1>3. /\ \A n \in 1 .. L : e[n] \in K /\ e[n] \in Int /\ s[n] = w[e[n]]
      /\ \A i \in K : \E n \in 1 .. L : e[n] = i
      /\ \A m, n \in 1 .. L : m < n => e[m] < e[n]
  BY <1>1, <1>2 DEF Orders
<1> HIDE DEF L
<1>4. \A m, n \in 1 .. L : (e[m] = e[n] => m = n) /\ (e[m] < e[n] => m < n)
  <2> TAKE m, n \in 1 .. L
  <2>1. m < n \/ m = n \/ n < m
    OBVIOUS
  <2>2. (m < n => e[m] < e[n]) /\ (n < m => e[n] < e[m]) /\ e[m] \in Int /\ e[n] \in Int
    BY <1>3
  <2> QED
    BY <2>1, <2>2
<1>5. Cardinality(K) = L
  <2>1. e \in [1 .. L -> K]
    BY <1>2, <1>3
  <2>2. e \in Bijection(1 .. L, K)
    BY <1>3, <1>4, <2>1, Fun_IsBij
  <2> QED
    BY <1>2, <2>2, FS_CountingElements, Fun_ExistsBij
<1>6. ASSUME NEW n \in 1 .. L PROVE Cardinality({j \in K : j < e[n]}) = n - 1
  <2> DEFINE B == {j \in K : j < e[n]}
             g == [m \in 1 .. n - 1 |-> e[m]]
  <2>1. n - 1 \in Nat /\ \A m \in 1 .. n - 1 : m \in 1 .. L /\ m < n
    BY <1>2
  <2>2. g \in [1 .. n - 1 -> B] /\ \A m \in 1 .. n - 1 : g[m] = e[m]
    BY <1>3, <2>1
  <2>3. ASSUME NEW i \in B PROVE \E m \in 1 .. n - 1 : g[m] = i
    <3>1. PICK m \in 1 .. L : e[m] = i
      BY <1>3
    <3>2. m < n
      BY <1>4, <3>1
    <3>3. m \in 1 .. n - 1
      BY <1>2, <3>2
    <3> QED
      BY <2>2, <3>1, <3>3
  <2>4. \A a, b \in 1 .. n - 1 : g[a] = g[b] => a = b
    BY <1>4, <2>1, <2>2
  <2> HIDE DEF g, B
  <2>5. g \in Bijection(1 .. n - 1, B)
    BY <2>2, <2>3, <2>4, Fun_IsBij
  <2>6. Cardinality(B) = n - 1
    BY <2>1, <2>5, FS_CountingElements, Fun_ExistsBij
  <2> QED
    BY <2>6 DEF B
<1>7. ASSUME NEW n \in 1 .. L
      PROVE  Nth(K, n) = e[n]
  <2>1. e[n] \in K /\ Cardinality({j \in K : j < e[n]}) = n - 1
    BY <1>3, <1>6
  <2>2. ASSUME NEW i \in K, Cardinality({j \in K : j < i}) = n - 1 PROVE i = e[n]
    <3>1. PICK m \in 1 .. L : e[m] = i
      BY <1>3
    <3>2. Cardinality({j \in K : j < i}) = m - 1
      BY <1>6, <3>1
    <3>3. m = n
      BY <2>2, <3>2
    <3> QED
      BY <3>1, <3>3
  <2> QED
    BY <2>1, <2>2, Zenon DEF Nth
<1>8. \A n \in 1 .. L : w[Nth(K, n)] = s[n] /\ Nth(K, n) \in K
  BY <1>3, <1>7, Zenon
<1>9. s \in [1 .. L -> Int]
  BY <1>1, <1>2, LenProperties DEF L
<1>10. s = [n \in 1 .. L |-> w[Nth(K, n)]]
  BY <1>8, <1>9
<1>11. s = <<>> <=> L = 0
  BY <1>1, <1>2, EmptySeq DEF L
<1> QED
  BY <1>5, <1>8, <1>10, <1>11

\* The steps up to t with a character, those that start a run of their class when
\* blanks are left out, and those of them in the dictionary, on a path w.
SoundedTo(w, t) == {i \in 1 .. t : ~ Blank(w[i])}
FreshTo(w, t) ==
  {i \in SoundedTo(w, t) :
     \A j \in SoundedTo(w, t) : j < i /\ w[j] = w[i] =>
       \E k \in SoundedTo(w, t) : j < k /\ k < i /\ w[k] # w[i]}
KnownTo(w, t) == {i \in FreshTo(w, t) : w[i] - 1 < DictSize}
EntriesOf(w) == [i \in DOMAIN w |-> w[i] - 1]

\* The loop of decode after t steps: last is the class of the last step with a
\* character, and what was appended stands for the steps that start a run.
HasRead(s, w, t) ==
  /\ \/ SoundedTo(w, t) = {} /\ s.last = -1
     \/ \E i \in SoundedTo(w, t) : /\ \A j \in SoundedTo(w, t) : j <= i
                                   /\ s.last = w[i]
  /\ Spells(s.factors, FreshTo(w, t), w)
  /\ Spells(s.text, KnownTo(w, t), EntriesOf(w))

Begun == [last |-> -1, text |-> <<>>, factors |-> <<>>]

LEMMA ReadsNothing == ASSUME NEW w PROVE HasRead(Begun, w, 0)
<1>1. SoundedTo(w, 0) = {} /\ FreshTo(w, 0) = {} /\ KnownTo(w, 0) = {}
  BY DEF SoundedTo, FreshTo, KnownTo
<1> QED
  BY <1>1, SpellsNothing DEF HasRead, Begun

\* A later step does not change which of the earlier ones start a run.
LEMMA FreshBefore ==
  ASSUME NEW L \in Nat, NEW w \in [1 .. L -> Classes], NEW t \in 1 .. L
  PROVE  /\ SoundedTo(w, t) = SoundedTo(w, t - 1) \cup {i \in {t} : ~ Blank(w[t])}
         /\ \A i \in SoundedTo(w, t - 1) : i < t /\ i \in 1 .. L
         /\ \A i \in SoundedTo(w, t - 1) : i \in FreshTo(w, t) <=> i \in FreshTo(w, t - 1)
<1>1. \A i \in 1 .. t : i \in 1 .. t - 1 \/ i = t
  OBVIOUS
<1>2. t \in 1 .. t /\ \A i \in 1 .. t - 1 : i < t /\ i \in 1 .. t /\ i \in 1 .. L
  OBVIOUS
<1>3. SoundedTo(w, t) = SoundedTo(w, t - 1) \cup {i \in {t} : ~ Blank(w[t])}
  BY <1>1, <1>2 DEF SoundedTo
<1>4. \A i \in SoundedTo(w, t - 1) : i < t /\ i \in 1 .. L
  BY <1>2 DEF SoundedTo
<1>5. ASSUME NEW i \in SoundedTo(w, t - 1)
      PROVE  i \in FreshTo(w, t) <=> i \in FreshTo(w, t - 1)
  <2>1. /\ i \in SoundedTo(w, t) /\ i < t /\ i \in Int /\ t \in Int
        /\ \A j \in SoundedTo(w, t) : j \in Int
    BY <1>3, <1>4
  <2>2. \A j \in SoundedTo(w, t) : j < i => j \in SoundedTo(w, t - 1)
    BY <1>3, <2>1
  <2>3. \A j \in SoundedTo(w, t - 1) : j \in SoundedTo(w, t)
    BY <1>3
  <2> QED
    BY <2>1, <2>2, <2>3 DEF FreshTo
<1> QED
  BY <1>3, <1>4, <1>5

\* One turn of the loop reads one more step.
LEMMA TurnReads ==
  ASSUME NEW L \in Nat, NEW w \in [1 .. L -> Classes], NEW t \in 1 .. L,
         NEW s, HasRead(s, w, t - 1)
  PROVE  HasRead(Turn(w[t], s), w, t)
<1> DEFINE S0 == SoundedTo(w, t - 1)
           S == SoundedTo(w, t)
           F0 == FreshTo(w, t - 1)
           F == FreshTo(w, t)
           K0 == KnownTo(w, t - 1)
           K == KnownTo(w, t)
           c == w[t]
<1>1. /\ S = S0 \cup {i \in {t} : ~ Blank(c)}
      /\ \A i \in S0 : i < t /\ i \in 1 .. L
      /\ \A i \in S0 : i \in F <=> i \in F0
  BY FreshBefore
<1>2. /\ \/ S0 = {} /\ s.last = -1
         \/ \E i \in S0 : (\A j \in S0 : j <= i) /\ s.last = w[i]
      /\ Spells(s.factors, F0, w) /\ Spells(s.text, K0, EntriesOf(w))
  BY DEF HasRead
<1>3. /\ c \in Classes /\ c \in Nat /\ t \in Int
      /\ w \in [1 .. L -> Int] /\ DOMAIN w = 1 .. L
      /\ EntriesOf(w) \in [1 .. L -> Int] /\ EntriesOf(w)[t] = c - 1
      /\ 1 .. L \in SUBSET Int
  <2>1. \A d \in Classes : d \in Nat /\ d - 1 \in Int
    BY ClassNumAssumption DEF Classes
  <2>2. DOMAIN w = 1 .. L /\ \A i \in 1 .. L : w[i] \in Classes
    OBVIOUS
  <2>3. c \in Classes /\ c \in Nat /\ t \in Int /\ 1 .. L \in SUBSET Int
    BY <2>1, <2>2
  <2>4. w \in [1 .. L -> Int]
    BY <2>1, <2>2
  <2>5. EntriesOf(w) = [i \in 1 .. L |-> w[i] - 1]
    BY <2>2 DEF EntriesOf
  <2>6. EntriesOf(w) \in [1 .. L -> Int]
    BY <2>1, <2>2, <2>5
  <2>7. EntriesOf(w)[t] = c - 1
    BY <2>5
  <2> QED
    BY <2>2, <2>3, <2>4, <2>6, <2>7
<1>4. /\ F0 \subseteq S0 /\ F \subseteq S
      /\ K0 = {i \in F0 : w[i] - 1 < DictSize} /\ K = {i \in F : w[i] - 1 < DictSize}
  BY DEF FreshTo, KnownTo
<1>5. t \in F <=> t \in S /\ \A j \in S : j < t /\ w[j] = c =>
                    \E k \in S : j < k /\ k < t /\ w[k] # c
  BY DEF FreshTo
<1> HIDE DEF S0, S, F0, F, K0, K
<1>6. CASE Blank(c)
  <2>1. S = S0
    BY <1>1, <1>6
  <2>2. F = F0
    BY <1>1, <1>4, <2>1
  <2>3. K = K0 /\ Turn(c, s) = s
    BY <1>4, <1>6, <2>2 DEF Turn
  <2> HIDE DEF c
  <2>4. HasRead(s, w, t)
    BY <1>2, <2>1, <2>2, <2>3, Zenon DEF HasRead, S, F, K
  <2> QED
    BY <2>3, <2>4 DEF c
<1>7. CASE ~ Blank(c) /\ c = s.last
  <2>1. S = S0 \cup {t}
    BY <1>1, <1>7
  <2>2. PICK i \in S0 : (\A j \in S0 : j <= i) /\ s.last = w[i]
    BY <1>2, <1>3, <1>7
  <2>3. t \notin F
    <3> SUFFICES ASSUME t \in F PROVE FALSE
      OBVIOUS
    <3>1. i \in S /\ i < t /\ w[i] = c /\ i \in Int
      BY <1>1, <1>7, <2>1, <2>2
    <3>2. PICK k \in S : i < k /\ k < t
      BY <1>5, <3>1
    <3>3. k \in S0 /\ k \in Int
      BY <1>1, <1>3, <2>1, <3>2
    <3> QED
      BY <2>2, <3>1, <3>2, <3>3
  <2>4. F = F0
    BY <1>1, <1>4, <2>1, <2>3
  <2>5. K = K0 /\ Turn(c, s) = s
    BY <1>4, <1>7, <2>4 DEF Turn
  <2>6. \E j \in S : (\A k \in S : k <= j) /\ s.last = w[j]
    <3>1. t \in S /\ \A k \in S : k <= t
      BY <1>1, <1>3, <2>1
    <3> QED
      BY <1>7, <3>1
  <2> HIDE DEF c
  <2>7. HasRead(s, w, t)
    BY <1>2, <2>4, <2>5, <2>6, Zenon DEF HasRead, S, F, K
  <2> QED
    BY <2>5, <2>7 DEF c
<1>8. CASE ~ Blank(c) /\ c # s.last
  <2> DEFINE s1 == [last |-> c, text |-> s.text \o Entry(c),
                    factors |-> Append(s.factors, c)]
  <2>1. S = S0 \cup {t} /\ Turn(c, s) = s1
    BY <1>1, <1>8 DEF Turn
  <2>2. \E j \in S : (\A k \in S : k <= j) /\ s1.last = w[j]
    <3>1. t \in S /\ \A k \in S : k <= t
      BY <1>1, <1>3, <2>1
    <3> QED
      BY <3>1
  <2>3. t \in F
    <3>1. ASSUME NEW j \in S, j < t, w[j] = c
          PROVE  \E k \in S : j < k /\ k < t /\ w[k] # c
      <4>1. j \in S0
        BY <1>3, <2>1, <3>1
      <4>2. PICK i \in S0 : (\A k \in S0 : k <= i) /\ s.last = w[i]
        BY <1>2, <4>1
      <4>3. i \in Int /\ j \in Int /\ i < t /\ j <= i /\ i \in S /\ w[i] # c /\ i # j
        BY <1>1, <1>8, <2>1, <3>1, <4>1, <4>2
      <4>4. j < i
        BY <4>3
      <4> QED
        BY <4>3, <4>4
    <3> QED
      BY <1>5, <2>1, <3>1
  <2>4. F = F0 \cup {t}
    BY <1>1, <1>4, <2>1, <2>3
  <2>5. /\ F0 \in SUBSET (1 .. L) /\ K0 \in SUBSET (1 .. L)
        /\ \A i \in F0 : i < t
        /\ \A i \in K0 : i < t
    BY <1>1, <1>4
  <2>6. Spells(Append(s.factors, c), F0 \cup {t}, w)
    BY <1>2, <1>3, <2>5, SpellsOneMore
  <2>7. Spells(s.text \o Entry(c), K, EntriesOf(w))
    <3>1. s.text \in Seq(Int)
      BY <1>2 DEF Spells
    <3>2. c # 0
      BY <1>8 DEF Blank
    <3>3. CASE c - 1 < DictSize
      <4>1. Entry(c) = <<c - 1>>
        BY <1>3, <3>2, <3>3, DictSizeAssumption DEF Entry
      <4>2. Append(s.text, c - 1) = s.text \o <<c - 1>>
        <5>1. c - 1 \in Int
          BY <1>3
        <5> HIDE DEF c
        <5> QED
          BY <3>1, <5>1, AppendIsConcat
      <4>3. K = K0 \cup {t}
        BY <1>4, <2>4, <3>3
      <4> HIDE DEF c
      <4>4. Spells(Append(s.text, EntriesOf(w)[t]), K0 \cup {t}, EntriesOf(w))
        <5> DEFINE D == 1 .. L
                   x == EntriesOf(w)
        <5>1. /\ D \in SUBSET Int /\ x \in [D -> Int] /\ K0 \in SUBSET D /\ t \in D
              /\ Spells(s.text, K0, x) /\ \A i \in K0 : i < t
          BY <1>2, <1>3, <2>5
        <5> HIDE DEF D, x
        <5>2. Spells(Append(s.text, x[t]), K0 \cup {t}, x)
          BY <5>1, SpellsOneMore
        <5> QED
          BY <5>2 DEF x
      <4> QED
        BY <1>3, <4>1, <4>2, <4>3, <4>4
    <3>4. CASE ~ (c - 1 < DictSize)
      <4>1. Entry(c) = <<>>
        BY <1>3, <3>4, DictSizeAssumption DEF Entry
      <4>2. s.text \o <<>> = s.text
        BY <3>1, ConcatEmptySeq
      <4>3. K = K0
        BY <1>4, <2>4, <3>4
      <4> QED
        BY <1>2, <4>1, <4>2, <4>3
    <3> QED
      BY <3>3, <3>4
  <2>8. HasRead(s1, w, t)
    <3>1. s1.text = s.text \o Entry(c) /\ s1.factors = Append(s.factors, c)
      OBVIOUS
    <3> HIDE DEF s1, c
    <3> QED
      BY <2>2, <2>4, <2>6, <2>7, <3>1 DEF HasRead, S, F, K
  <2> QED
    BY <2>1, <2>8
<1> QED
  BY <1>6, <1>7, <1>8

\* The path of a table.
PathOf(data) == [i \in DOMAIN data |-> Best(data[i])]

\* Decode returns what its loop has read after the last step.
LEMMA DecodeReads ==
  ASSUME NEW data \in Seq([Classes -> Int])
  PROVE  \E s : /\ HasRead(s, PathOf(data), Len(data))
                /\ Decode(data) = [text |-> s.text,
                                   confidence |-> IF s.text = <<>> THEN <<>> ELSE s.factors]
<1> DEFINE L == Len(data)
           w == PathOf(data)
           Value(f, t) == IF t = 0 THEN Begun ELSE Turn(Best(data[t]), f[t - 1])
           Eqn(f, k) == f = [t \in 0 .. k |-> Value(f, t)]
           Missing == {k \in Nat : ~ \E f : Eqn(f, k)}
<1>1. L \in Nat /\ DOMAIN data = 1 .. L /\ \A i \in 1 .. L : data[i] \in [Classes -> Int]
  BY LenProperties
<1>2. /\ w \in [1 .. L -> Classes]
      /\ \A i \in 1 .. L : w[i] = Best(data[i])
  BY <1>1, BestIsClass DEF PathOf
<1>3. Missing = {}
  <2> SUFFICES ASSUME Missing # {} PROVE FALSE
    OBVIOUS
  <2>1. PICK k \in Missing : \A n \in Missing : k <= n
    BY LeastNumber
  <2>2. k \in Nat /\ ~ \E f : Eqn(f, k)
    OBVIOUS
  <2>3. k # 0
    <3> SUFFICES ASSUME k = 0 PROVE FALSE
      OBVIOUS
    <3> DEFINE f == [t \in 0 .. 0 |-> Begun]
    <3>1. \A t \in 0 .. 0 : t = 0
      OBVIOUS
    <3>2. f = [t \in 0 .. 0 |-> Value(f, t)]
      BY <3>1
    <3> QED
      BY <2>2, <3>2
  <2>4. k - 1 \in Nat /\ k - 1 \notin Missing
    <3>1. k - 1 \in Nat /\ ~ (k <= k - 1)
      BY <2>2, <2>3
    <3> HIDE DEF Missing
    <3> QED
      BY <2>1, <3>1
  <2>5. PICK f : Eqn(f, k - 1)
    BY <2>4
  <2> DEFINE g == [t \in 0 .. k |-> Value(f, t)]
  <2>6. \A t \in 0 .. k : t # 0 => t - 1 \in 0 .. k - 1 /\ t - 1 \in 0 .. k
    BY <2>2
  <2>7. \A t \in 0 .. k - 1 : f[t] = Value(f, t) /\ t \in 0 .. k
    <3>1. \A t \in 0 .. k - 1 : t \in 0 .. k
      BY <2>2
    <3> HIDE DEF Value
    <3>2. f = [t \in 0 .. k - 1 |-> Value(f, t)]
      BY <2>5
    <3>3. \A t \in 0 .. k - 1 : f[t] = Value(f, t)
      BY <3>2, Zenon
    <3> QED
      BY <3>1, <3>3
  <2>8. \A t \in 0 .. k - 1 : g[t] = f[t]
    <3> HIDE DEF Value
    <3> QED
      BY <2>7
  <2> HIDE DEF g
  <2>9. \A t \in 0 .. k : Value(g, t) = Value(f, t)
    BY <2>6, <2>8
  <2>10. Eqn(g, k)
    <3> HIDE DEF Value
    <3> QED
      BY <2>9 DEF g
  <2> QED
    BY <2>2, <2>10
<1> DEFINE After == CHOOSE f : Eqn(f, L)
<1>4. Eqn(After, L)
  <2>1. \E f : Eqn(f, L)
    BY <1>1, <1>3
  <2> HIDE DEF Eqn
  <2> QED
    BY <2>1, Zenon
<1>5. Decode(data) = [text |-> After[L].text,
                      confidence |-> IF After[L].text = <<>> THEN <<>>
                                     ELSE After[L].factors]
  BY Zenon DEF Decode, Begun
<1> HIDE DEF After
<1>6. /\ After[0] = Begun
      /\ \A t \in 1 .. L : After[t] = Turn(w[t], After[t - 1])
  <2>1. \A t \in 0 .. L : After[t] = Value(After, t)
    <3> HIDE DEF Value
    <3> QED
      BY <1>4
  <2>2. 0 \in 0 .. L /\ \A t \in 1 .. L : t \in 0 .. L /\ t # 0
    BY <1>1
  <2> QED
    BY <1>2, <2>1, <2>2
<1> DEFINE Wrong == {t \in 0 .. L : ~ HasRead(After[t], w, t)}
<1> HIDE DEF w, L
<1>7. Wrong = {}
  <2> SUFFICES ASSUME Wrong # {} PROVE FALSE
    OBVIOUS
  <2>1. PICK t \in Wrong : \A n \in Wrong : t <= n
    <3>1. Wrong \in SUBSET Nat
      BY <1>1
    <3> HIDE DEF Wrong
    <3> QED
      BY <3>1, LeastNumber
  <2>2. t \in 0 .. L /\ ~ HasRead(After[t], w, t)
    OBVIOUS
  <2>3. t # 0
    BY <1>6, <2>2, ReadsNothing
  <2>4. t \in 1 .. L /\ t - 1 \in 0 .. L /\ ~ (t <= t - 1)
    BY <1>1, <2>2, <2>3
  <2>5. t - 1 \notin Wrong
    <3> HIDE DEF Wrong
    <3> QED
      BY <2>1, <2>4
  <2>6. HasRead(After[t - 1], w, t - 1)
    BY <2>4, <2>5
  <2> QED
    BY <1>1, <1>2, <1>6, <2>2, <2>4, <2>6, TurnReads
<1>8. L \in 0 .. L
  BY <1>1
<1>9. HasRead(After[L], w, L)
  BY <1>7, <1>8
<1> QED
  BY <1>5, <1>9 DEF w, L

\* A live engine has answered the last recognition by what Decode makes of its
\* table, and one that is null by no lines.
AnswerDecoded ==
  /\ answer.engine => answer.data \in Tables /\ answer.lines = Lines(answer.data)
  /\ ~ answer.engine => answer.lines = <<>>

LEMMA AnswersDecoded == Spec => []AnswerDecoded
<1>1. answer = NoAnswer => AnswerDecoded
  BY DEF NoAnswer, AnswerDecoded
<1>2. answer' = NoAnswer => AnswerDecoded'
  BY DEF NoAnswer, AnswerDecoded
<1>3. ASSUME NEW w \in Wrappers, NEW data \in Tables, Recognize(w, data)
      PROVE  AnswerDecoded'
  <2>1. answer'.data = data /\ answer'.engine = g_engine
        /\ answer'.lines = IF g_engine THEN Lines(data) ELSE <<>>
    BY <1>3 DEF Recognize
  <2> QED
    BY <2>1 DEF AnswerDecoded
<1>4. Init => AnswerDecoded
  BY <1>1 DEF Init
<1>5. AnswerDecoded /\ [Next]_vars => AnswerDecoded'
  <2> SUFFICES ASSUME AnswerDecoded, [Next]_vars PROVE AnswerDecoded'
    OBVIOUS
  <2>1. CASE UNCHANGED vars
    BY <2>1 DEF vars, AnswerDecoded
  <2>2. CASE Next
    BY <1>2, <1>3, <2>2 DEF Next
  <2> QED
    BY <2>1, <2>2
<1> QED
  BY <1>4, <1>5, PTL DEF Spec

\* The steps that start a run and whose character the dictionary has.
Known == InDict(Fresh)

\* The sets of the last table are those of its path, whole.
LEMMA WholePath ==
  ASSUME answer.data \in Seq([Classes -> Int])
  PROVE  /\ Fresh = FreshTo(PathOf(answer.data), Len(answer.data))
         /\ Known = KnownTo(PathOf(answer.data), Len(answer.data))
         /\ Fresh \in SUBSET (1 .. Len(answer.data)) /\ Known \in SUBSET Fresh
         /\ \A i \in 1 .. Len(answer.data) : /\ PathOf(answer.data)[i] = Path(i)
                                             /\ EntriesOf(PathOf(answer.data))[i] = Path(i) - 1
<1> DEFINE L == Len(answer.data)
           w == PathOf(answer.data)
<1>1. DOMAIN answer.data = 1 .. L /\ DOMAIN w = 1 .. L
      /\ \A i \in 1 .. L : w[i] = Path(i)
  BY LenProperties DEF PathOf, Path
<1> HIDE DEF w, L
<1>2. Sounded = SoundedTo(w, L)
  BY <1>1 DEF Sounded, SoundedTo
<1>3. \A i \in Sounded : i \in 1 .. L /\ w[i] = Path(i)
  BY <1>1 DEF Sounded
<1>4. Fresh = FreshTo(w, L)
  BY <1>2, <1>3 DEF Fresh, FreshTo
<1>5. Fresh \in SUBSET (1 .. L)
  BY <1>3 DEF Fresh
<1>6. Known = KnownTo(w, L) /\ Known \in SUBSET Fresh
  BY <1>1, <1>4, <1>5 DEF Known, InDict, KnownTo
<1>7. \A i \in 1 .. L : EntriesOf(w)[i] = Path(i) - 1
  BY <1>1 DEF EntriesOf
<1> QED
  BY <1>1, <1>4, <1>5, <1>6, <1>7 DEF w, L

\* Decode gives the entries of the known steps in their order, and, if there are
\* any, the classes of all that start a run.
LEMMA DecodedAnswer ==
  ASSUME answer.data \in Seq([Classes -> Int])
  PROVE  /\ Decode(answer.data).text = [n \in 1 .. Cardinality(Known) |-> Reading(Known)[n] - 1]
         /\ Decode(answer.data).text # <<>> =>
              Decode(answer.data).confidence = Reading(Fresh)
<1> DEFINE L == Len(answer.data)
           w == PathOf(answer.data)
           x == EntriesOf(w)
<1>1. PICK s : /\ HasRead(s, w, L)
               /\ Decode(answer.data) = [text |-> s.text,
                                         confidence |-> IF s.text = <<>> THEN <<>>
                                                        ELSE s.factors]
  BY DecodeReads
<1>2. /\ Fresh = FreshTo(w, L) /\ Known = KnownTo(w, L)
      /\ Fresh \in SUBSET (1 .. L) /\ Known \in SUBSET (1 .. L)
      /\ Fresh \in SUBSET Int /\ Known \in SUBSET Int
      /\ \A i \in 1 .. L : w[i] = Path(i) /\ x[i] = Path(i) - 1
  BY WholePath
<1>3. Spells(s.factors, Fresh, w) /\ Spells(s.text, Known, x)
  BY <1>1, <1>2 DEF HasRead
<1> DEFINE factors == s.factors
           text == s.text
<1> HIDE DEF w, L, x, factors, text
<1>4. factors = Reading(Fresh)
  <2>1. /\ factors = [n \in 1 .. Cardinality(Fresh) |-> w[Nth(Fresh, n)]]
        /\ \A n \in 1 .. Cardinality(Fresh) : Nth(Fresh, n) \in Fresh
    <3>1. Spells(factors, Fresh, w)
      BY <1>3 DEF factors
    <3> QED
      BY <1>2, <3>1, SpelledInOrder
  <2>2. \A n \in 1 .. Cardinality(Fresh) : w[Nth(Fresh, n)] = Path(Nth(Fresh, n))
    BY <1>2, <2>1
  <2>3. Reading(Fresh) = [n \in 1 .. Cardinality(Fresh) |-> Path(Nth(Fresh, n))]
    BY Zenon DEF Reading, Nth
  <2> QED
    BY <2>1, <2>2, <2>3
<1>5. text = [n \in 1 .. Cardinality(Known) |-> Reading(Known)[n] - 1]
  <2>1. /\ text = [n \in 1 .. Cardinality(Known) |-> x[Nth(Known, n)]]
        /\ \A n \in 1 .. Cardinality(Known) : Nth(Known, n) \in Known
    <3>1. Spells(text, Known, x)
      BY <1>3 DEF text
    <3> QED
      BY <1>2, <3>1, SpelledInOrder
  <2>2. \A n \in 1 .. Cardinality(Known) : x[Nth(Known, n)] = Path(Nth(Known, n)) - 1
    BY <1>2, <2>1
  <2>3. Reading(Known) = [n \in 1 .. Cardinality(Known) |-> Path(Nth(Known, n))]
    BY Zenon DEF Reading, Nth
  <2>4. \A n \in 1 .. Cardinality(Known) : Reading(Known)[n] = Path(Nth(Known, n))
    BY <2>3
  <2> QED
    BY <2>1, <2>2, <2>4
<1> QED
  BY <1>1, <1>4, <1>5 DEF factors, text

\* Where no character comes again after nothing but blanks, the steps that start a
\* run when the blanks are left out are those that CTC reads.
LEMMA FreshIsSpoken ==
  ASSUME answer.data \in Seq([Classes -> Int]), ~ AgainAfterBlank
  PROVE  Fresh = Spoken
<1> DEFINE L == Len(answer.data)
<1>1. L \in Nat /\ DOMAIN answer.data = 1 .. L
  BY LenProperties
<1>2. Sounded = {i \in 1 .. L : ~ Blank(Path(i))} /\ \A i \in Sounded : i \in Nat /\ i \in 1 .. L
  BY <1>1 DEF Sounded
<1> HIDE DEF L
<1>3. ASSUME NEW i \in Fresh PROVE i \in Spoken
  <2>1. i \in Sounded /\ ~ Blank(Path(i)) /\ i \in Nat
    BY <1>2 DEF Fresh
  <2>2. ASSUME i - 1 \in 1 .. L, Path(i - 1) = Path(i) PROVE FALSE
    <3>1. i - 1 \in Sounded /\ i - 1 < i
      BY <1>2, <2>1, <2>2
    <3>2. PICK k \in Sounded : i - 1 < k /\ k < i
      BY <2>2, <3>1 DEF Fresh
    <3> QED
      BY <1>2, <2>1, <3>2
  <2> QED
    BY <1>1, <2>1, <2>2 DEF Spoken
<1>4. ASSUME NEW i \in Spoken, NEW j \in Sounded, j < i, Path(j) = Path(i)
      PROVE  \E k \in Sounded : j < k /\ k < i /\ Path(k) # Path(i)
  <2> SUFFICES ASSUME \A k \in Sounded : j < k /\ k < i => Path(k) = Path(i) PROVE FALSE
    OBVIOUS
  <2>1. i \in Sounded /\ i \in 1 .. L /\ j \in 1 .. L /\ i \in Nat /\ j \in Nat
    BY <1>2 DEF Spoken
  <2> DEFINE Back == {n \in 1 .. L : i - n \in Sounded}
  <2>2. i - j \in Back
    <3>1. i - j \in 1 .. L /\ i - (i - j) = j
      BY <1>1, <1>4, <2>1
    <3> QED
      BY <3>1
  <2>3. Back \in SUBSET Nat
    BY <1>1
  <2> HIDE DEF Back
  <2>4. PICK n \in Back : \A m \in Back : n <= m
    BY <2>2, <2>3, LeastNumber
  <2>5. n \in 1 .. L /\ i - n \in Sounded /\ n \in Nat /\ n # 0 /\ n <= i - j
    BY <1>1, <2>2, <2>4 DEF Back
  <2>6. ASSUME NEW k \in Sounded, i - n < k, k < i PROVE FALSE
    <3>1. i - k \in 1 .. L /\ i - (i - k) = k /\ i - k < n
      BY <1>1, <1>2, <2>1, <2>5, <2>6
    <3>2. i - k \in Back
      BY <3>1 DEF Back
    <3> QED
      BY <1>1, <2>4, <2>5, <3>1, <3>2
  <2>7. Path(i - n) = Path(i)
    <3>1. i - n = j \/ (j < i - n /\ i - n < i)
      BY <1>1, <2>1, <2>5
    <3> QED
      BY <1>4, <2>5, <3>1
  <2>8. CASE n = 1
    <3>1. i - 1 \in DOMAIN answer.data /\ Path(i - 1) = Path(i)
      BY <1>1, <1>2, <2>5, <2>7, <2>8
    <3> QED
      BY <1>4, <3>1 DEF Spoken
  <2>9. CASE n # 1
    <3>1. (i - n) + 1 < i
      BY <1>1, <2>1, <2>5, <2>9
    <3>2. AgainAfterBlank
      BY <2>1, <2>5, <2>6, <2>7, <3>1 DEF AgainAfterBlank
    <3> QED
      BY <3>2
  <2> QED
    BY <2>8, <2>9
<1>5. ASSUME NEW i \in Spoken PROVE i \in Fresh
  <2>1. i \in Sounded
    BY DEF Spoken
  <2> QED
    BY <1>4, <2>1 DEF Fresh
<1> QED
  BY <1>3, <1>5

\* For every table of scores, any number of classes and any dictionary, the text
\* that a live engine gives is the path without its repeats and then without its
\* blanks, looked up in the dictionary, unless a character comes again after
\* nothing but blanks.
THEOREM TextIsCtc == Spec => []ReadsCtc
<1>1. AnswerDecoded => ReadsCtc
  <2> SUFFICES ASSUME AnswerDecoded, answer.engine, ~ AgainAfterBlank
               PROVE  (IF answer.lines = <<>> THEN <<>> ELSE answer.lines[1].text)
                        = [n \in 1 .. Cardinality(InDict(Spoken)) |->
                             Reading(InDict(Spoken))[n] - 1]
    BY DEF ReadsCtc
  <2>1. answer.data \in Seq([Classes -> Int]) /\ answer.lines = Lines(answer.data)
    BY TablesAssumption DEF AnswerDecoded
  <2>2. (IF answer.lines = <<>> THEN <<>> ELSE answer.lines[1].text)
          = Decode(answer.data).text
    BY <2>1 DEF Lines
  <2>3. Known = InDict(Spoken)
    BY <2>1, FreshIsSpoken DEF Known
  <2> QED
    BY <2>1, <2>2, <2>3, DecodedAnswer
<1> QED
  BY <1>1, AnswersDecoded, PTL

\* And a line has text and the confidence of every step that starts a run, those
\* included whose character the dictionary lacks.
THEOREM ConfidenceIsOfText == Spec => []ConfidenceOfText
<1>1. AnswerDecoded => ConfidenceOfText
  <2> SUFFICES ASSUME AnswerDecoded, NEW n \in DOMAIN answer.lines
               PROVE  /\ answer.lines[n].text # <<>>
                      /\ answer.lines[n].confidence = Reading(Fresh)
    BY DEF ConfidenceOfText
  <2>1. answer.engine
    BY DEF AnswerDecoded
  <2>2. answer.data \in Seq([Classes -> Int]) /\ answer.lines = Lines(answer.data)
    BY <2>1, TablesAssumption DEF AnswerDecoded
  <2>3. Decode(answer.data).text # <<>> /\ answer.lines[n] = Decode(answer.data)
    BY <2>2 DEF Lines
  <2> QED
    BY <2>2, <2>3, DecodedAnswer
<1> QED
  BY <1>1, AnswersDecoded, PTL

==============================================================================

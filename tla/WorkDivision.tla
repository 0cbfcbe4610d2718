----------------------------- MODULE WorkDivision -----------------------------
(***************************************************************************)
(* source/backend/cpu/CPUBackend.cpp: how an operator divides its work     *)
(* among the threads of a session.  computeDivideSizes gives the fast      *)
(* cores more than the slow ones; multiThreadDivide gives every thread a   *)
(* multiple of the vector width.  A rate is kept as a whole number, as a   *)
(* share of the sum of all; the code has floats, so that what a group gets *)
(* is known up to their relative error only.                               *)
(***************************************************************************)
EXTENDS Integers, FiniteSets, Functions, SequencesExt

CONSTANTS Machines,      \* BOUND: sizes of the core groups, slowest group first
          Threads,       \* BOUND: values of mThreadNumber
          DecreaseRates, \* BOUND: of cpuDecreaseRate, in percent
          Sizes,         \* BOUND: sizes of the work
          Packs,         \* vector widths
          Accuracy       \* the inverse of the relative error of the floats

ASSUME MachinesAssumption == Machines \subseteq Seq(Nat \ {0})
ASSUME NumbersAssumption == Threads \cup Packs \subseteq Nat \ {0} /\ Sizes \subseteq Nat
ASSUME RatesAssumption == DecreaseRates \subseteq Nat
ASSUME AccuracyAssumption == Accuracy \in Nat /\ Accuracy >= 2

VARIABLES threadNumber,  \* mThreadNumber of the runtime
          mGroupWithComputeRate,
          pack,
          kept,     \* whether the operator keeps its division between resizes
          divides,  \* the division, with a 0 before it
          size,     \* of the work divided last
          reached   \* history: how many threads the last division reached

machine == <<threadNumber, mGroupWithComputeRate, pack, kept>>
divideVars == <<machine, divides, size, reached>>

UpDiv(x, y) == (x + y - 1) \div y
Least(a, b) == IF a < b THEN a ELSE b
SumTo(w, k) == FoldFunctionOnSet(+, 0, w, 1 .. k)
Power(b, n) == LET to[k \in 0 .. n] == IF k = 0 THEN 1 ELSE b * to[k - 1] IN to[n]

Needs(cores, threads) == cores < threads

\* The constructor: a group of cores with its rate, fastest first, until there
\* are as many cores as threads; none if cores are alike.
ComputeRates(groups, threads, rate) ==
  LET fast == Reverse(groups)
      before(k) == SumTo(fast, k - 1)
      used == {k \in 1 .. Len(fast) : Needs(before(k), threads)}
      count(k) == Least(fast[k], threads - before(k))
      n == Cardinality(used)
  IN  IF threads <= 1 \/ rate \notin 1 .. 99 \/ Len(groups) < 2 THEN <<>>
      ELSE [k \in 1 .. n |-> [rate |-> Power(rate, k - 1) * Power(100, n - k) * count(k), count |-> count(k)]]

CoresOf(groups) == SumTo([k \in DOMAIN groups |-> groups[k].count], Len(groups))
Total == SumTo([k \in DOMAIN mGroupWithComputeRate |-> mGroupWithComputeRate[k].rate],
               Len(mGroupWithComputeRate))
None == [i \in 0 .. threadNumber |-> 0]

DivideInit ==
  /\ threadNumber \in Threads
  /\ \E groups \in Machines, rate \in DecreaseRates :
       mGroupWithComputeRate = ComputeRates(groups, threadNumber, rate)
  /\ pack \in Packs /\ kept \in BOOLEAN
  /\ divides = None /\ size = 0 /\ reached = 0

------------------------------------------------------------------------------
(* computeDivideSizes.                                                      *)

\* (int)ceilf((float)size * group.first) for group k: the share is a float off by
\* one part in Accuracy at most, which the ceiling may turn into one more or less.
Ceilings(work, k) ==
  LET share == work * mGroupWithComputeRate[k].rate
  IN  UpDiv(share * (Accuracy - 1), Total * Accuracy) .. UpDiv(share * (Accuracy + 1), Total * Accuracy)
Totals(work) ==
  {totals \in [DOMAIN mGroupWithComputeRate -> UNION {Ceilings(work, k) : k \in DOMAIN mGroupWithComputeRate}] :
     \A k \in DOMAIN mGroupWithComputeRate : totals[k] \in Ceilings(work, k)}

PartOfDown(totals, k) == totals[k] \div mGroupWithComputeRate[k].count  \* seeded fault
\* length, in group k.
PartOf(totals, k) == UpDiv(totals[k], mGroupWithComputeRate[k].count)

AverageDown(work, i) == i * (work \div threadNumber)            \* seeded fault
Average(work, i) == Least(i * UpDiv(work, threadNumber), work)

First(k) == SumTo([j \in DOMAIN mGroupWithComputeRate |-> mGroupWithComputeRate[j].count], k - 1)
\* The work of the groups before group k.
Done(totals, k) == SumTo([j \in DOMAIN mGroupWithComputeRate |->
                            mGroupWithComputeRate[j].count * PartOf(totals, j)], k - 1)
Rated(work, totals, i) ==
  LET group == CHOOSE k \in DOMAIN mGroupWithComputeRate :
                 First(k) < i /\ i <= First(k) + mGroupWithComputeRate[k].count
  IN  Least(Done(totals, group) + (i - First(group)) * PartOf(totals, group), work)

Evenly(light) == Len(mGroupWithComputeRate) <= 1 \/ light
Reach(light) == IF Evenly(light) THEN threadNumber ELSE CoresOf(mGroupWithComputeRate)

\* What is in dst stays for the threads that have no core.
ComputeDivideSizes(work, totals, dst, light) ==
  [i \in 0 .. threadNumber |->
     IF i = 0 THEN 0
     ELSE IF i > Reach(light) THEN dst[i]
     ELSE IF Evenly(light) THEN Average(work, i) ELSE Rated(work, totals, i)]

\* onResize of an operator.  The int8 convolution keeps its vector, and asks for
\* equal parts when the work is light for its memory; the others begin with zeros.
Resize(work, light) ==
  /\ light => kept
  /\ \E totals \in Totals(work) :
       divides' = ComputeDivideSizes(work, totals, IF kept THEN divides ELSE None, light)
  /\ size' = work
  /\ reached' = Reach(light)
  /\ UNCHANGED machine

DivideNext == \E work \in Sizes, light \in BOOLEAN : Resize(work, light)

DivideSpec == DivideInit /\ [][DivideNext]_divideVars

------------------------------------------------------------------------------
(* multiThreadDivide, and the part that an operator derives for thread t.   *)

SizeDivide == UpDiv(size \div threadNumber, pack) * pack

ScheduleNumberDown == IF SizeDivide > 0 THEN size \div SizeDivide ELSE 1 \* seeded fault
ScheduleNumber == IF SizeDivide > 0 THEN UpDiv(size, SizeDivide) ELSE 1

Scheduled(t) ==
  LET start == SizeDivide * t
      realSize == IF t = ScheduleNumber - 1 THEN size - start ELSE SizeDivide
  IN  start .. start + realSize - 1

------------------------------------------------------------------------------
Work == 0 .. size - 1
Part(i) == divides[i - 1] .. divides[i] - 1

\* The threads that a division is for.  A vector that is kept has what an earlier
\* division left behind them, which those threads would work on.
Served == 1 .. (IF kept THEN reached ELSE threadNumber)

\* "dividedSize's length should be larger than threadNumber": while a size is
\* small enough for a float to tell it from the next, the parts of the threads
\* are apart and make up the work, no more and no less, whatever the shares
\* round to and however many threads there are for the cores.
PartsMakeWork ==
  size < Accuracy =>
    /\ UNION {Part(i) : i \in Served} = Work
    /\ \A i, j \in Served : i # j => Part(i) \cap Part(j) = {}

\* "Only 0-(i-1) thread has work": for every size no thread without work comes
\* before one with work, and the first has some, as the depthwise convolution
\* takes for granted.
WorkIsPrefix ==
  /\ \A i \in Served : i > 1 /\ Part(i) # {} => Part(i - 1) # {}
  /\ size > 0 => Part(1) # {}

\* The threads that multiThreadDivide schedules work on everything once.
ScheduleMakesWork ==
  /\ UNION {Scheduled(t) : t \in 0 .. ScheduleNumber - 1} = Work
  /\ \A s, t \in 0 .. ScheduleNumber - 1 : s # t => Scheduled(s) \cap Scheduled(t) = {}
==============================================================================

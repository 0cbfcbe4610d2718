----------------------------- MODULE OcrLifecycle -----------------------------
(***************************************************************************)
(* src/test_ocr/MnnOcr.hpp and the global engine of MNN_OcrEngine.cpp:     *)
(* several MnnOcr objects of a process load the library, create and delete *)
(* the one engine it holds, and unload it.  The library is mapped while a  *)
(* reference to it is left; the threads of a pool each keep one, and pools *)
(* are never destroyed.  Calls of different objects do not overlap, and a  *)
(* library that is mapped again has its functions where they were.  An     *)
(* object that recognizes is answered by whatever engine exists then.      *)
(***************************************************************************)
EXTENDS CtcDecode, FiniteSets

CONSTANTS Wrappers,   \* the MnnOcr objects
          MayLack,    \* whether a library may lack functions
          Tables      \* the score tables recognition may end with

ASSUME WrappersAssumption == IsFiniteSet(Wrappers)
ASSUME MayLackAssumption == MayLack \in BOOLEAN
ASSUME TablesAssumption == \A data \in Tables : data \in Seq([Classes -> Int])

VARIABLES
  m_dll,       \* the objects whose m_dll is not null
  m_destroy,   \* those whose m_destroy is not null
  gone,        \* those that are destructed
  references,  \* of the operating system to the library, pool threads apart
  pinned,      \* whether there are pool threads
  g_engine,    \* whether the engine exists
  lost,        \* whether the library was unmapped with its engine alive
  wild,        \* the objects that called a function of an unmapped library
  answer       \* the last call if it was a recognition: its table and lines

library == <<m_dll, m_destroy, gone, references, pinned, g_engine, lost, wild>>
vars == <<library, answer>>

NoAnswer == [data |-> <<>>, lines |-> <<>>, engine |-> FALSE]

Init ==
  /\ m_dll = {} /\ m_destroy = {} /\ gone = {}
  /\ references = 0 /\ pinned = FALSE
  /\ g_engine = FALSE
  /\ lost = FALSE /\ wild = {}
  /\ answer = NoAnswer

Mapped == references > 0 \/ pinned

\* A call into an unmapped library ends the process.
Alive(w) == w \notin gone /\ wild = {}

\* FreeLibrary with n references left, when the engine is e.
FreeLibrary(n, e) ==
  /\ references' = n
  /\ lost' = (lost \/ (n = 0 /\ ~ pinned /\ e))
  /\ g_engine' = (e /\ (n > 0 \/ pinned))

\* load of a library with all functions.
Load(w) ==
  /\ Alive(w) /\ w \notin m_dll
  /\ m_dll' = m_dll \cup {w} /\ m_destroy' = m_destroy \cup {w}
  /\ references' = references + 1
  /\ UNCHANGED <<gone, pinned, g_engine, lost, wild>>

LoadIncompleteKeeps(w) ==                                        \* seeded fault
  /\ MayLack /\ Alive(w) /\ w \notin m_dll /\ ~ Mapped
  /\ references' = references + 1
  /\ UNCHANGED <<m_dll, m_destroy, gone, pinned, g_engine, lost, wild>>
\* load of a library that lacks functions, which may have MNN_ocrDestroy: it is
\* freed again and the pointers stay.  Only if no library is mapped yet: one
\* that others use is complete.
LoadIncomplete(w) ==
  /\ MayLack /\ Alive(w) /\ w \notin m_dll /\ ~ Mapped
  /\ m_destroy' \in {m_destroy \cup {w}, m_destroy \ {w}}
  /\ FreeLibrary(references, g_engine)
  /\ UNCHANGED <<m_dll, gone, pinned, wild>>

\* init: global_init with one thread or with more, and OcrEngine::init, which may
\* fail before or after a runtime has its pool.
InitEngine(w, threads) ==
  /\ Alive(w) /\ w \in m_dll
  /\ \/ /\ g_engine
        /\ UNCHANGED <<pinned, g_engine>>
     \/ /\ ~ g_engine
        /\ \/ g_engine' = TRUE /\ pinned' = (pinned \/ threads > 1)
           \/ g_engine' = FALSE /\ pinned' \in {pinned, pinned \/ threads > 1}
  /\ UNCHANGED <<m_dll, m_destroy, gone, references, lost, wild>>

CallsDestroySkips(w) == w \notin m_dll                           \* seeded fault
CallsDestroy(w) == w \in m_destroy

\* destroy: global_destroy, then FreeLibrary.
Destroy(w) ==
  LET engine == g_engine /\ ~ CallsDestroy(w)
  IN  /\ wild' = IF CallsDestroy(w) /\ ~ Mapped THEN wild \cup {w} ELSE wild
      /\ m_dll' = m_dll \ {w}
      /\ IF w \in m_dll
         THEN FreeLibrary(references - 1, engine)
         ELSE g_engine' = engine /\ UNCHANGED <<references, lost>>
      /\ UNCHANGED <<m_destroy, pinned>>

CallDestroy(w) == Alive(w) /\ Destroy(w) /\ UNCHANGED gone
Destruct(w) == Alive(w) /\ Destroy(w) /\ gone' = gone \cup {w}

\* recognize: an object that has loaded the library asks the engine, which is
\* null before init and after any object's destroy; then there are no lines.
\* Nothing of one recognition is left for the next, so the model puts another
\* call between two of them.
Recognize(w, data) ==
  /\ Alive(w) /\ w \in m_dll
  /\ answer = NoAnswer
  /\ answer' = [data |-> data, lines |-> IF g_engine THEN Lines(data) ELSE <<>>,
                engine |-> g_engine]
  /\ UNCHANGED library

Manage(w) ==
  \/ Load(w) \/ LoadIncomplete(w)
  \/ \E threads \in 1 .. 2 : InitEngine(w, threads)
  \/ CallDestroy(w) \/ Destruct(w)

Next == \E w \in Wrappers :
  \/ Manage(w) /\ answer' = NoAnswer
  \/ \E data \in Tables : Recognize(w, data)

Spec == Init /\ [][Next]_vars

------------------------------------------------------------------------------
\* The variables keep their types: references never drops below zero.
TypeOK ==
  /\ m_dll \in SUBSET Wrappers /\ m_destroy \in SUBSET Wrappers
  /\ gone \in SUBSET Wrappers /\ wild \in SUBSET Wrappers
  /\ references \in Nat
  /\ pinned \in BOOLEAN /\ g_engine \in BOOLEAN /\ lost \in BOOLEAN

\* The path of the last table, and its steps with a character on it.
Path(i) == Best(answer.data[i])
Sounded == {i \in DOMAIN answer.data : ~ Blank(Path(i))}
Reading(steps) == [n \in 1 .. Cardinality(steps) |->
  Path(CHOOSE i \in steps : Cardinality({j \in steps : j < i}) = n - 1)]

\* What CTC reads: the steps that are left of the path when repeats are collapsed
\* and then the blanks are dropped; and whether it reads a character again after
\* nothing but blanks.
Spoken == {i \in Sounded : i - 1 \in DOMAIN answer.data => Path(i - 1) # Path(i)}
AgainAfterBlank == \E i, j \in Sounded :
  /\ i + 1 < j /\ Path(i) = Path(j)
  /\ \A k \in Sounded : ~ (i < k /\ k < j)
InDict(steps) == {i \in steps : Path(i) - 1 < DictSize}

\* The text that an object gets from a live engine is the CTC reading of the
\* table, looked up in the dictionary, unless a character comes again after
\* nothing but blanks: decode keeps last_idx over a blank.
ReadsCtc ==
  answer.engine /\ ~ AgainAfterBlank =>
    (IF answer.lines = <<>> THEN <<>> ELSE answer.lines[1].text)
      = [n \in 1 .. Cardinality(InDict(Spoken)) |-> Reading(InDict(Spoken))[n] - 1]

\* The steps whose score is a factor of the confidence: those that start a run of
\* their class when the blanks are left out.
Fresh == {i \in Sounded : \A j \in Sounded : j < i /\ Path(j) = Path(i) =>
            \E k \in Sounded : j < k /\ k < i /\ Path(k) # Path(i)}

\* A line has text, and its confidence covers every character that was read,
\* those included that the dictionary lacks.
ConfidenceOfText ==
  \A n \in DOMAIN answer.lines :
    /\ answer.lines[n].text # <<>>
    /\ answer.lines[n].confidence = Reading(Fresh)

\* However loads fail and objects are destroyed and loaded again, the library
\* has one reference for each object that would call it: no object loses it
\* while it is loaded, and none keeps it mapped after its end.
ReferencesBalanced == references = Cardinality(m_dll) /\ m_dll \cap gone = {}

\* The library is never unmapped with a live engine in it.
EngineDeleted == ~ lost /\ (g_engine => Mapped)

\* Every call of the object goes to a library that is mapped, destroy() and the
\* destructor after it included.
CallsMapped == wild = {}
==============================================================================

------------------------------- MODULE CtcDecode -------------------------------
(***************************************************************************)
(* source/ocr/MNN_OcrEngine.cpp: OcrEngine::decode turns the scores of the *)
(* recognition model into text.  A frame gives the scores of one time      *)
(* step, of which only the order matters, and the text is the sequence of  *)
(* the dictionary entries it is made of.                                   *)
(***************************************************************************)
EXTENDS Integers, Sequences

CONSTANTS ClassNum,   \* class_num
          DictSize    \* the entries of m_dict

ASSUME ClassNumAssumption == ClassNum \in Nat \ {0}
ASSUME DictSizeAssumption == DictSize \in Nat

Classes == 0 .. ClassNum - 1

\* max_idx: the first of the classes with the largest score.
Best(frame) ==
  CHOOSE c \in Classes : \A d \in Classes :
    frame[d] <= frame[c] /\ (frame[d] = frame[c] => c <= d)

Blank(c) == c = 0 \/ c = ClassNum - 1

Entry(c) == IF c - 1 \in 0 .. DictSize - 1 THEN <<c - 1>> ELSE <<>>

TurnKeepsLast(c, s) ==                                           \* seeded fault
  IF Blank(c) \/ c = s.last THEN s
  ELSE [s EXCEPT !.text = @ \o Entry(c), !.factors = Append(@, c)]
\* One turn of the loop: the class of the step, and what the loop knows.
Turn(c, s) ==
  IF Blank(c) \/ c = s.last THEN s
  ELSE [last |-> c, text |-> s.text \o Entry(c), factors |-> Append(s.factors, c)]

\* decode: the text, and the classes whose scores are multiplied to the
\* confidence, none if it is zero.
Decode(data) ==
  LET After[t \in 0 .. Len(data)] ==
        IF t = 0 THEN [last |-> -1, text |-> <<>>, factors |-> <<>>]
        ELSE Turn(Best(data[t]), After[t - 1])
      end == After[Len(data)]
  IN  [text |-> end.text, confidence |-> IF end.text = <<>> THEN <<>> ELSE end.factors]

LinesAlways(data) == <<Decode(data)>>                            \* seeded fault
\* recognize: one line if there is text.
Lines(data) == IF Decode(data).text = <<>> THEN <<>> ELSE <<Decode(data)>>
==============================================================================

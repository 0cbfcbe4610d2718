---------------------------- MODULE MCOcrLifecycle ----------------------------
(* Finite instances of OcrLifecycle. *)
EXTENDS OcrLifecycle

\* Frames that are won by each class, and one that two classes share.
Won(c) == [d \in Classes |-> IF d = c THEN 1 ELSE 0]
MCFrames == {Won(c) : c \in Classes} \cup {[d \in Classes |-> IF d \in {1, 2} THEN 1 ELSE 0]}
MCTables == UNION {[1 .. n -> MCFrames] : n \in 0 .. 3}
NoTables == {}
==============================================================================

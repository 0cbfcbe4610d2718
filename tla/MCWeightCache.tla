---------------------------- MODULE MCWeightCache ----------------------------
(* Finite instances of WeightCache: the two blocks of feature maps, weights  *)
(* whose files are kept, and weights whose files are removed.                *)
EXTENDS WeightCache

MCUses ==
  {[buffers |-> {1, 2}, sizes |-> {1, 2}, ofWeights |-> FALSE, mRemove |-> TRUE, mayFail |-> TRUE],
   [buffers |-> {1, 2, 3}, sizes |-> {1}, ofWeights |-> TRUE, mRemove |-> FALSE, mayFail |-> TRUE],
   [buffers |-> {1, 2, 3}, sizes |-> {1}, ofWeights |-> TRUE, mRemove |-> TRUE, mayFail |-> TRUE]}
=============================================================================

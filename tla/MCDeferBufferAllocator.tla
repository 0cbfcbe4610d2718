----------------------- MODULE MCDeferBufferAllocator -----------------------
(* Finite instances of DeferBufferAllocator. *)
EXTENDS DeferBufferAllocator, TLC

Symmetry == Permutations(Blocks)
=============================================================================

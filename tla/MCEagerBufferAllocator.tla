----------------------- MODULE MCEagerBufferAllocator -----------------------
(* Finite instances of EagerBufferAllocator: an allocator of feature maps,   *)
(* which has barriers and groups, and one of weights above mapped files.     *)
EXTENDS EagerBufferAllocator

MCUses ==
  {[mMinAllocSize |-> 0, sizes |-> {1, 6}, aligns |-> {2}, threads |-> 2],
   [mMinAllocSize |-> 8, sizes |-> {1, 3, 7}, aligns |-> {2, 4}, threads |-> 0]}
=============================================================================

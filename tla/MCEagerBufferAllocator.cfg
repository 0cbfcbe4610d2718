SPECIFICATION Spec
CONSTANTS
  mAlign = 2
  Blocks = {a1, a2}
  Uses <- MCUses
INVARIANTS ChunksApart ChunksFit NothingLost AllMerged

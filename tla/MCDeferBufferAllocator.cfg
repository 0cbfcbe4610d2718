SPECIFICATION Spec
CONSTANTS
  MaxBuffers = 4
  MaxSize = 2
  Blocks = {a1, a2}
  OtherSizes = {5}
SYMMETRY Symmetry
INVARIANTS PlanDisjoint Coalesced
PROPERTIES RunsInCurrentBlock

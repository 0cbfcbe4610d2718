SPECIFICATION FairSpec
CONSTANTS
  Callers = {c1, c2}
  N = 3
  MaxTasks = 1
  MaxWork = 3
INVARIANTS
  SlotExclusive
  ActiveCountExact
PROPERTIES
  FollowsProtocol
  EnqueueReturns
  DestroyEnds
  ParallelForSpec

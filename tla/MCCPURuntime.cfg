SPECIFICATION Spec
CONSTANTS
  Runtimes = {r1, r2}
  Masks = {any, big}
  AnyCore = any
  MaxTasks = 1
  MaxThreads = 3
  MaxDepth = 2
INVARIANTS QuietPools SlotMeansParallel ThreadsFitPool
PROPERTIES KeepsProtocol

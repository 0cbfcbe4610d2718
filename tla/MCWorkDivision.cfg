SPECIFICATION DivideSpec
CONSTANTS
  Machines <- MCMachines
  Threads = {1, 2, 3, 4, 5, 6, 8}
  DecreaseRates = {0, 30, 50, 99}
  Sizes = {0, 1, 3, 7, 13, 31}
  Packs = {4, 8}
  Accuracy = 16
INVARIANTS PartsMakeWork WorkIsPrefix ScheduleMakesWork

SPECIFICATION Spec
CONSTANTS
  Callers = {c1, c2}
  N = 3
  MaxTasks = 2
  MaxWork = 4
SYMMETRY Symmetry
INVARIANTS
  TaskAlive
  PublishUnread
  NoSleeperWhileOpen
  ExactlyOnce

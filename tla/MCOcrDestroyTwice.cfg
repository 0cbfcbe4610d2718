SPECIFICATION Spec
CONSTANTS
  Wrappers = {w1}
  MayLack = FALSE
  ClassNum = 5
  DictSize = 2
  Tables <- NoTables
INVARIANT CallsMapped
CHECK_DEADLOCK FALSE

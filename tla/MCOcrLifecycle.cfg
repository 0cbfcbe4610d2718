SPECIFICATION Spec
CONSTANTS
  Wrappers = {w1, w2, w3}
  MayLack = TRUE
  ClassNum = 5
  DictSize = 2
  Tables <- MCTables
INVARIANTS ReferencesBalanced EngineDeleted ReadsCtc ConfidenceOfText
CHECK_DEADLOCK FALSE

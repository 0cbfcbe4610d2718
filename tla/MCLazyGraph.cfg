SPECIFICATION Spec
CONSTANTS
  Graphs <- MCGraphs
  Dims <- MCDims
  Values = {1, 2}
INVARIANTS AnswersAnew CleanIsFresh DirtIsClosed
CHECK_DEADLOCK FALSE

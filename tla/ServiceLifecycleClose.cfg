SPECIFICATION ProcessSpec
CONSTANTS
  Configs <- MCTwoExporters
  Foreign <- MCForeign
INVARIANT EndsClean
CHECK_DEADLOCK FALSE

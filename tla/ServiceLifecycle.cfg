SPECIFICATION ProcessSpec
CONSTANTS
  Configs <- MCConfigs
  Foreign <- MCForeign
INVARIANTS
  EndsClean
  ShutdownOrder
PROPERTY EndsWhenTold
CHECK_DEADLOCK FALSE

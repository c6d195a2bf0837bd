SPECIFICATION FairSpec
CONSTANTS
  Items = {i1, i2, i3}
  Workers = {w1, w2}
  QueueSize = 2
  Exporters = {e1}
INVARIANTS
  EveryBatchAccounted
  ExportersConserved
PROPERTIES
  QueuedIsTried
  StopsReturn
CHECK_DEADLOCK FALSE

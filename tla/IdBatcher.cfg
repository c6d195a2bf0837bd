SPECIFICATION FairSpec
CONSTANTS
  Ids = {i1, i2, i3}
  NumBatches = 2
  ChannelSize = 2
INVARIANTS
  ExactlyOnce
  SendHasRoom
  DrainedMeansAllDelivered
PROPERTIES
  ImplementsPipeline
  EveryIdDelivered
CHECK_DEADLOCK FALSE

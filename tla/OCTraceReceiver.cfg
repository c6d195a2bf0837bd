SPECIFICATION FairSpec
CONSTANTS
  s1 = s1
  s2 = s2
  s3 = s3
  n1 = n1
  n2 = n2
  r1 = r1
  Streams = {s1, s2, s3}
  Messages <- MCMessages
  Workers = {w1, w2}
  ChannelSize = 1
  Names = {n1, n2, r1}
  None = None
INVARIANTS
  KeepsItsNode
  EachHandledOnce
PROPERTIES
  SpansArePassedOn
  WorkersEnd
CHECK_DEADLOCK FALSE

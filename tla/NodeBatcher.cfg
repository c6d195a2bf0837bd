SPECIFICATION FairSpec
CONSTANTS
  c1 = c1
  c2 = c2
  c3 = c3
  k1 = k1
  k2 = k2
  Calls <- MCCalls
  Keys = {k1, k2}
  KeyOf <- MCKeyOf
  SpansOf <- MCSpansOf
  Tickers = {x1, x2}
  PendingNodes = 1
  SendBatchSize = 2
  RemoveAfterCycles = 1
  None = None
INVARIANTS
  OneTickerPerBucket
  NoStrandedSpans
  SpansHeldOrSentOnce
PROPERTY EverySpanSent
CHECK_DEADLOCK FALSE

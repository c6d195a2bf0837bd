SPECIFICATION Spec
CONSTANTS
  b1 = b1
  b2 = b2
  t1 = t1
  t2 = t2
  Batches <- TwoCalls
  Traces <- TwoTraces
  TracesOf <- TwoTracesOf
  NumPolicies = 2
  NumBatches = 1
  MaxNumTraces = 1
INVARIANT SpansSentOnce
CHECK_DEADLOCK FALSE

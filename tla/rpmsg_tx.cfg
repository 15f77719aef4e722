SPECIFICATION LiveSpec
CONSTANTS
  s1 = s1
  s2 = s2
  s3 = s3
  Senders = {s1, s2}
  NumBufs = 2
  MaxCalls = 2
  CanSignal = TRUE
INVARIANTS
  NoLostWakeUp
PROPERTIES
  ImplementsChannel
  QuietCallReturns
\* The calls are bounded.
CHECK_DEADLOCK FALSE

SPECIFICATION LiveSpec
CONSTANTS
  MaxFrames = 2
  MaxDelay = 1
  Period = 2
  ResetPeriod = 2
INVARIANTS
  NoUseAfterClose
  AtMostOneFrequency
PROPERTIES
  SigIntStops
  StateCatchesUp
\* The program ends.
CHECK_DEADLOCK FALSE

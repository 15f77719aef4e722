SPECIFICATION LiveSpec
CONSTANTS
  a1 = a1
  Apps = {a1}
  Periods = {0, 1}
  CanUnload = TRUE
INVARIANTS
  SampleOnOneClock
  GoneIsQuiet
  StoppedIsStopped
  RunningIsArmed
PROPERTY SyncsKeepComing
\* A fault of the kernel ends everything.
CHECK_DEADLOCK FALSE

CONSTANTS
    Current = "1.6"
    SwitchedOn = {"timesync-app", "task-state"}
    UserFiles <- MCUserFiles
    MaxPowerLosses = 1
    MaxActs = 2
    MaxSamples = 1
SPECIFICATION Spec
INVARIANTS OneConfiguration UserConfigKept
PROPERTIES ConfigComesBack StateNeverGoesBack
CHECK_DEADLOCK FALSE

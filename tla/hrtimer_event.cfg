CONSTANTS
    tHard = tHard
    tSoft = tSoft
    tReal = tReal
    Timers = {tHard, tSoft, tReal}
    Soft = {tSoft, tReal}
    Real = {tReal}
    None = None
    MaxExpiry = 2
    MaxOffset = 1
    MaxOps = 3
    MaxSets = 1
SPECIFICATION HESpec
INVARIANTS HardInTime SoftInTime
CHECK_DEADLOCK FALSE

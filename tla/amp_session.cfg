CONSTANTS
    ampperf = ampperf
    ampecho = ampecho
    Perf = {ampperf}
    Echo = {ampecho}
    None = None
    MaxFrames = 2
    MaxStarts = 3
    MaxFaults = 1
SPECIFICATION Spec
INVARIANTS OwnEndpoint NothingLeft GapIsReported
PROPERTY SigIntEnds
CHECK_DEADLOCK FALSE

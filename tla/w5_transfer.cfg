SPECIFICATION LiveSpec
CONSTANTS
    Ports = 2
    NumWrites = 2
    Chunks = 2
    MaxRead = 2
    COMMAND_RETRIES = 2
    MAX_QUERY_RETRY = 2
CONSTRAINT Followed
INVARIANTS
    AckIsOwn
    ChunksInOrder
    OutputIsOwn
PROPERTIES
    Ends
CHECK_DEADLOCK FALSE

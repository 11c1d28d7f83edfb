CONSTANTS
    N = 3
    FileLength = 4
    MinBuf = 1
    PipeCapacity = 2
    PipeBuf = 1
    MaxKills = 0
SPECIFICATION Spec
INVARIANT CopiesTheFile
CHECK_DEADLOCK FALSE

CONSTANTS
    MaxCapacity = 2
    MaxThreads = 17
SPECIFICATION UkkonenSpec
INVARIANT TreeCountsSubstrings
CHECK_DEADLOCK FALSE

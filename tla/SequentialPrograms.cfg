CONSTANTS
    MaxCapacity = 2
    MaxThreads = 17
SPECIFICATION FairSpec
INVARIANTS
    PrintsMaximumFlow
    BoardsAgree
    PathsAgree
    TranslationsAgree
    CountsWords
PROPERTIES
    CountsSubstrings
    CodeDoesWhatTextSays
    ProgramsEnd
CHECK_DEADLOCK FALSE

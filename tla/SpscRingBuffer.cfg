CONSTANTS
    Size = 2
    N = 7
SPECIFICATION FairSpec
INVARIANTS
    NoDataRace
    InOrder
PROPERTIES
    AllArrive
    ImplementsFifo

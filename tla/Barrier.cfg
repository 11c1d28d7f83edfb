CONSTANTS
    Thread = {t1, t2, t3}
    Calls = 4
    EpochModulus = 2
SPECIFICATION FairSpec
INVARIANT Rendezvous
PROPERTIES
    AllCallsReturn
    ImplementsPhases

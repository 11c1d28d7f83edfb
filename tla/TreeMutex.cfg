CONSTANT NumThreads = 4
SPECIFICATION FairSpec
INVARIANT MutualExclusion
PROPERTIES
    NoOvertaking
    StarvationFree

CONSTANTS
    MaxKills = 1

    r1 = r1
    s1 = s1
    ShmemBlocks = 2
    ShmemLeft = 1

    Receiver = {r1, r2}
    Sender = {s1, s2}
    FifoBlocks = 2
    Capacity = 1

    Codes = {0, 1, 85, 127, 128, 254, 255}
    Length = 2

    ChainLength = 2
    FileLength = 5
    MinBuf = 2
    PipeCapacity = 3
    PipeBuf = 2

    Jobs = {1, 2}
    ChildrenOf <- TwoAndThree
    IntervalsOf <- ThreeAndOne
    ProcessesOf <- TwoAndTwo

    Server = {1, 2}
    Nservs = 2
    ServerProcs <- OneAndTwo

    Key = {"a", "b", "c"}
    Hash <- SomeHash
    MaxHash = 1
    MaxAdds = 4
SPECIFICATION FairSpec
INVARIANTS
    TypeOK
    FilesAreCopied
    SharesAddUp
    TableIsConsistent
PROPERTIES
    DeathIsNoticed
    EveryoneEnds
CHECK_DEADLOCK FALSE

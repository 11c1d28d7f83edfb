CONSTANTS
    Producer = {t1, t2}
    Consumer = {t3, t4}
    Capacity = 1
    PerProducer = 2

    Worker = {t1, t2}
    Client = {t3, t4}
    Quota = 2
    Getter = {t3}
    Closer = {t3, t4}
    NestedIndex = 1

    SetThread = {t1, t2}
    Value = {0, 1, 2}
    NumStripes = 2
    BucketsPerStripe = 1
    GrowthFactor = 2
    DensityNum = 1
    DensityDen = 2
    Calls = 2

    Waiter = {t1, t2}
    Setter = t3

    Size = 2
    Items = 5

    None = None
SPECIFICATION FairSpec
INVARIANTS
    TypeOK
    NothingLostOrDoubled
    ProducersInOrder
    NoLostNotification
    ShutdownIsFinal
    NoDataRace
    GrowsOnceWhenDense
PROPERTIES
    CallsReturn
    ImplementsSet
CHECK_DEADLOCK FALSE

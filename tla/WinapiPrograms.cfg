CONSTANTS
    HeapSize = 14
    MinSize = 3
    Sizes = {1, 4, 6}
    BlockSize = 2
    PageSize = 4
    SmallBorder = 4
    MediumBorder = 14
    MaxUsers = 3

    N = 4
    Dictionary = {"aq", "aqaq", "aqaqaq"}
    Words <- SomeWords
    Texts <- SomeTexts
    Narrow <- SomeNarrow
    SmallChunks <- SomeSmallChunks

    FontSizes = {20, 30}
    Alphas = {255}
    BackgroundColors = {"white"}
    FontColors = {"black", "red"}
    MaxText = 1
    MaxBoxes = 2
    MaxDialogs = 2
SPECIFICATION AllFairSpec
INVARIANTS
    ProgramsTypeOK
    HeapPartitioned
    PagesCommitted
    WordsAreKept
PROPERTIES
    ImplementsAllocator
    CallsReturn
    SettingsSettle
CHECK_DEADLOCK FALSE

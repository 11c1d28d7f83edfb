CONSTANTS
    HeapSize = 24
    MinSize = 4
    Sizes = {10, 12}
    BlockSize = 2
    PageSize = 4
    SmallBorder = 4
    MediumBorder = 8
    MaxUsers = 6
SPECIFICATION Spec
INVARIANT ObjectsDisjoint
CHECK_DEADLOCK FALSE

SPECIFICATION FairSpec
CONSTANTS
    Length = 5
    N = 5
    Stages = 3
    Cleanups = {0}
    Programs <- PlainPrograms
INVARIANTS
    TypeOK
    PathsTile
    SameFlow
    Converges
    StatusFits
PROPERTIES
    ErrorIsFinal
    Ends
    HandsOnAllCode
CHECK_DEADLOCK FALSE

SPECIFICATION FairSpec
CONSTANTS
    v1 = v1
    v2 = v2
    v3 = v3
    Idle = Idle
    Blank = Blank
    VA <- MCVA
    Elem <- MCElem
INVARIANTS
    TypeOK
    SetsMatchQueue
    DeadSlotsCleared
    RefusedOnlyIfCovered
PROPERTIES
    ImplementsTaskQueue
    EveryTaskProcessed

SPECIFICATION Spec
CONSTANTS
    Length = 5
    N = 5
    Stages = 3
    Cleanups = {0}
    Programs <- ExchangedProgram
INVARIANT
    SameFlow

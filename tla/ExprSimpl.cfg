SPECIFICATION Spec
CONSTANTS
    Width = 8
    Inputs <- MCInputs
    Valuations <- MCValuations
INVARIANTS
    TypeOK
    Sound
    Normal
PROPERTIES
    Terminates
CHECK_DEADLOCK FALSE

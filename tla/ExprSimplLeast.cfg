SPECIFICATION Spec
CONSTANTS
    Width = 8
    Inputs <- MCLeast
    Valuations <- MCValuations
PROPERTIES
    Terminates
CHECK_DEADLOCK FALSE

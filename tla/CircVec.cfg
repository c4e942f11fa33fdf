SPECIFICATION Spec
CONSTANTS
    a = a
    b = b
    blank = blank
    Elem <- MCElem
    Blank <- blank
    MaxSize = 5
INVARIANTS
    TypeOK
PROPERTIES
    ImplementsDeque
    GrowsOnlyWhenFull

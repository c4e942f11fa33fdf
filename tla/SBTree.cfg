SPECIFICATION Spec
CONSTANTS
    Nodes = 9
    Nil = Nil
    Null = Null
    Node <- MCNode
    KeyOf <- MCKeyOf
INVARIANTS
    TypeOK
    WellLinked
    SearchesAgree
PROPERTIES
    ImplementsOrderedList
    BalanceKept

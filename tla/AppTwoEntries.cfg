SPECIFICATION Spec
CONSTANTS
    n1 = n1
    n2 = n2
    n3 = n3
    NoNode = NoNode
    Node <- Two
    Entry <- Two
    MaxAppends = 2
    Bandwidth = 2
    Sequential = FALSE
    Crashable <- None
    Faults <- None
INVARIANTS UniqueIds

SPECIFICATION Spec
CONSTANTS
    n1 = n1
    n2 = n2
    n3 = n3
    NoNode = NoNode
    Node <- Three
    Entry <- Three
    MaxAppends = 3
    Bandwidth = 1
    Sequential = TRUE
    Crashable <- None
    Faults <- None
INVARIANT IncrementalIds

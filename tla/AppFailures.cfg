SPECIFICATION Spec
CONSTANTS
    n1 = n1
    n2 = n2
    n3 = n3
    NoNode = NoNode
    Node <- Two
    Entry <- One
    MaxAppends = 2
    Bandwidth = 1
    Sequential = FALSE
    Crashable <- Two
    Faults <- StoreFaults
INVARIANTS TypeOK LocalUniqueIds LogAgreement AppendsKept
PROPERTIES Immutable ImplementsLog

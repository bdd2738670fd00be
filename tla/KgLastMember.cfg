CONSTANTS
    Node = {a, b}
    Id = {i}
    Client = {k1, k2}
    NoNode = NoNode
    Entry = {a, b}
    Ops = {"remove"}
    Mutability = {TRUE}
    Expiries = {0}
    Remover = {k1, k2}
    Strangers = FALSE
    Members = {a, b}
    MaxOps = 2
    MaxCrashes = 0
    Sequential = FALSE
    Faults = {}
SPECIFICATION Spec
SYMMETRY ClientSymmetry
INVARIANT NeverMemberless

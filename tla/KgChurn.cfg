CONSTANTS
    Node = {a, b}
    Id = {i}
    Client = {k1, k2}
    NoNode = NoNode
    Entry = {a, b}
    Ops = {"delete", "getReplica", "add", "remove", "update"}
    Mutability = {TRUE}
    Expiries = {0}
    Remover = {k1}
    Strangers = TRUE
    Members = {a, b}
    MaxOps = 3
    MaxCrashes = 1
    Sequential = FALSE
    Faults = {"peer", "nase"}
SPECIFICATION Spec
INVARIANTS NeverMemberless NoSilentHole

CONSTANTS
    Node = {a, b, c}
    Id = {i}
    Client = {k}
    NoNode = NoNode
    Entry = {a, b}
    Ops = {"create", "delete", "add", "remove", "update"}
    Mutability = {TRUE, FALSE}
    Expiries = {0, 10}
    Remover = {k}
    Strangers = FALSE
    Members = {}
    MaxOps = 5
    MaxCrashes = 0
    Sequential = TRUE
    Faults = {}
SPECIFICATION Spec
INVARIANTS TypeOK HoldersAreMembers NoOldData UpToSpeed
PROPERTY ConfigFixed

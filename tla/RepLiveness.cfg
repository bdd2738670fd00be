CONSTANTS
    n1 = n1
    n2 = n2
    n3 = n3
    c1 = c1
    c2 = c2
    a = a
    b = b
    NoNode = NoNode
    Node = {n1, n2}
    Entry = {n1, n2}
    Client = {c1, c2}
    Id = {a}
    Writer <- AnyWriter
    Ops = {"update", "delete"}
    MaxWrites = 2
    Members = {n1, n2}
    Hosting = {n1}
    Expiry <- NoExpiry
    HasTrigger = {n1}
    Crashable = {n2}
    BusyRestart = TRUE
    CrashInRecovery = TRUE
    Faults = {"nase", "trigger"}
SPECIFICATION FairSpec
PROPERTIES RequestsEnd RecoveryEnds

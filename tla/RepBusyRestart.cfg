CONSTANTS
    n1 = n1
    n2 = n2
    n3 = n3
    c1 = c1
    c2 = c2
    a = a
    b = b
    NoNode = NoNode
    Node = {n1, n2}
    Entry = {n1}
    Client = {c1}
    Id = {a}
    Writer <- AnyWriter
    Ops = {"update"}
    MaxWrites = 2
    Members = {n1, n2}
    Hosting = {n1, n2}
    Expiry <- NoExpiry
    HasTrigger = {}
    Crashable = {n2}
    BusyRestart = TRUE
    CrashInRecovery = FALSE
    Faults = {}
SPECIFICATION Spec
INVARIANT NoSilentStaleness

CONSTANTS
    n1 = n1
    n2 = n2
    n3 = n3
    c1 = c1
    c2 = c2
    a = a
    b = b
    NoNode = NoNode
    Node = {n1, n2, n3}
    Entry = {n1, n2}
    Client = {c1, c2}
    Id = {a, b}
    Writer <- OneWriter
    Ops = {"update"}
    MaxWrites = 2
    Members = {n1, n2, n3}
    Hosting = {n1, n2, n3}
    Expiry <- N2Expires
    HasTrigger = {n3}
    Crashable = {n3}
    BusyRestart = FALSE
    CrashInRecovery = FALSE
    Faults = {}
SPECIFICATION Operated
INVARIANTS NoSilentStaleness SameData
PROPERTY Converges

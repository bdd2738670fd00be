SPECIFICATION StorageSpec
CONSTANTS
    t1 = t1
    Key <- OneKey
    Trigger <- OneTrigger
    Ops <- AllOps
    Adaptor <- Storages
    OpsOf <- OpsOfCalls
    MaxCalls = 3
    MaxCrashes = 1
    Bandwidth = 2
    Count = 2
    Faults = TRUE
INVARIANTS TypeOK DeletedForGood LeftoversExplained StorageReadsSee IdsNotReused

CONSTANTS
    m1 = m1
    m2 = m2
    m3 = m3
    proxy = proxy
    u1 = u1
    site1 = site1
    site2 = site2
    Node = {m1, m2, m3}
    Routine = {r}
    User <- OneUser
    Methods = {"Update", "Delete", "AddUser", "RemoveUser"}
    Key <- UserRights
    Query <- UserPrefixes
    NoKey = NoKey
    Ops <- Calls
    GivenRoles = {"W"}
    Site <- Machines
    Proxy = {proxy}
    Hosts <- HostList
    NoProxy = NoProxy
    proxyHost <- ProxyHosts
    Hash = 2
    Caching = {m1}
    InitialRights <- Held
    MaxWrites = 12
    MaxWatches = 1
    MaxRequests = 2
    MaxCrashes = 1
SPECIFICATION FairAccessSpec
INVARIANTS TypeOK StaleIsExplained RolesAsOrdered BoundToOneMachine
PROPERTIES ReadsGoForward StaleIsDropped AdmittedForAReason TakenStaysTaken

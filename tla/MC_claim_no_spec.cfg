SPECIFICATION FairSpec
CONSTANTS
    Machines = {m1}
    Managers = {w1}
    Instances = {i1, i2}
    Hosts = {h1}
    None = None
    Target <- Untargeted
    ProviderSpec <- AllMissing
    AllowUnhealthy = {}
    WithDpu = {}
    Legacy = {}
    Remediable = {}
    FaultKinds = {}
    MaxFaultBlockedAttempts = 2
    MaxFaults = 0
    StaleReads = FALSE
    GaugeBound = 0
CHECK_DEADLOCK FALSE
PROPERTY NothingToDeleteGoes

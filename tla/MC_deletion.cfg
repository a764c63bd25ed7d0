SPECIFICATION FairSpec
CONSTANTS
    Machines = {m1, m2}
    Managers = {w1}
    Instances = {i1, i2}
    Hosts = {h1}
    None = None
    Target <- Untargeted
    ProviderSpec <- LegacyInvalid
    AllowUnhealthy = {}
    WithDpu = {}
    Legacy = {m2}
    Remediable = {}
    FaultKinds = {}
    MaxFaultBlockedAttempts = 2
    MaxFaults = 1
    StaleReads = TRUE
    GaugeBound = 0
CHECK_DEADLOCK FALSE
PROPERTY DeletionCompletes

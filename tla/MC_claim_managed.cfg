SPECIFICATION Spec
CONSTANTS
    Machines = {m1}
    Managers = {w1}
    Instances = {i1, i2}
    Hosts = {h1}
    None = None
    Target <- Untargeted
    ProviderSpec <- AllValid
    AllowUnhealthy = {}
    WithDpu = {}
    Legacy = {}
    Remediable = {m1}
    FaultKinds = {}
    MaxFaultBlockedAttempts = 2
    MaxFaults = 0
    StaleReads = TRUE
    GaugeBound = 2
CHECK_DEADLOCK FALSE
INVARIANT ManagedIsACount

SPECIFICATION FairSpec
CONSTANTS
    Machines = {m1}
    Managers = {w1}
    Instances = {i1, i2}
    Hosts = {h1}
    None = None
    Target <- Untargeted
    ProviderSpec <- AllValid
    AllowUnhealthy = {}
    WithDpu = {m1}
    Legacy = {}
    Remediable = {}
    FaultKinds = {}
    MaxFaultBlockedAttempts = 2
    MaxFaults = 1
    StaleReads = FALSE
    GaugeBound = 0
CHECK_DEADLOCK FALSE
PROPERTY CreateEventuallyCompletes

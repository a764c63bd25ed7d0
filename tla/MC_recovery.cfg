SPECIFICATION FairSpec
CONSTANTS
    Machines = {m1}
    Managers = {w1}
    Instances = {i1, i2, i3}
    Hosts = {h1}
    None = None
    Target <- SameTarget
    ProviderSpec <- AllValid
    AllowUnhealthy = {}
    WithDpu = {}
    Legacy = {}
    Remediable = {}
    FaultKinds = {"critical", "warning", "invalid"}
    MaxFaultBlockedAttempts = 2
    MaxFaults = 2
    StaleReads = TRUE
    GaugeBound = 0
CHECK_DEADLOCK FALSE
PROPERTY StatusConverges
PROPERTY PersistentFaultEscalates

SPECIFICATION Spec
CONSTANTS
    Machines = {m1}
    Managers = {w1}
    Instances = {i1, i2, i3, i4}
    Hosts = {h1, h2}
    None = None
    Target <- Untargeted
    ProviderSpec <- AllValid
    AllowUnhealthy = {}
    WithDpu = {m1}
    Legacy = {}
    Remediable = {m1}
    FaultKinds = {"critical"}
    MaxFaultBlockedAttempts = 2
    MaxFaults = 2
    StaleReads = FALSE
    GaugeBound = 0
CHECK_DEADLOCK FALSE
SYMMETRY UntargetedInterchangeable
INVARIANT TypeOK
INVARIANT OrphansPaidFor
PROPERTY ReportsOwnHost

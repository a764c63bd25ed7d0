SPECIFICATION Spec
CONSTANTS
    Machines = {m1}
    Managers = {w1, w2}
    Instances = {i1, i2, i3}
    Hosts = {}
    None = None
    Target <- Untargeted
    ProviderSpec <- AllValid
    AllowUnhealthy = {}
    WithDpu = {}
    Legacy = {}
    Remediable = {m1}
    FaultKinds = {}
    MaxFaultBlockedAttempts = 2
    MaxFaults = 1
    StaleReads = TRUE
    GaugeBound = 0
CHECK_DEADLOCK FALSE
SYMMETRY Interchangeable
PROPERTY RecordedInstanceNotForgotten
PROPERTY LiveMachineKeepsInstance
INVARIANT ProviderIdSound
PROPERTY ImplementsClaims

SPECIFICATION FairSpec
CONSTANTS
    Managers = {w1, w2}
    Hosts = {h1, h2}
    Broken = {h2}
    None = None
    MaxChanges = 1
    MaxFaults = 1
INVARIANT NoFirmwareWithoutHost
PROPERTY NeverGoesBack
PROPERTY HostsConverge

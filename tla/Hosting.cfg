SPECIFICATION Spec
CONSTANTS
    r1 = r1
    r2 = r2
    r3 = r3
    k1 = k1
    k2 = k2
    w1 = w1
    w2 = w2
    c1 = c1
    c2 = c2
    Nobody = Nobody
    Requests <- MCRequests
    Workloads <- MCWorkloads
    MaxFaults = 1
    FirstRelease = 1
    NoRelease = NoRelease
    Expects <- MCExpects
    Burst = 1
    MaxTries = 2
    MaxClock = 3
    Clones = {k1, k2}
    Versions = {c1, c2}
    FirstVersion = FirstVersion
    None = None
    MaxSecond = 1
    Opening = Opening
INVARIANTS
    HostSafe
    ProcessSafe

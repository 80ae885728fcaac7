SPECIFICATION Spec
CONSTANTS
    ann = ann
    bob = bob
    s1 = s1
    k1 = k1
    r1 = r1
    r2 = r2
    r3 = r3
    NoKey = NoKey
    Agents = {ann, bob}
    Settlements = {s1}
    Keys = {k1}
    Requests <- MCRequests
    Workloads <- MCWorkloads
    Terms <- MCTerms
    Wallets0 = {ann, bob}
    Start <- MCStart
    Freezable = {}
    MaxFaults = 0
INVARIANT
    NoDoubleSpend

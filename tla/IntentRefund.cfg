SPECIFICATION Spec
CONSTANTS
    ann = ann
    bob = bob
    cy = cy
    i1 = i1
    i2 = i2
    i3 = i3
    i4 = i4
    k1 = k1
    r1 = r1
    r2 = r2
    r3 = r3
    NoKey = NoKey
    Agents = {ann, bob, cy}
    Intents = {i1, i2, i3, i4}
    Keys = {k1}
    Requests <- MCRequests
    Workloads <- MCWorkloads
    Terms <- MCTerms
    Pending0 = {i1, i2}
    Wallets0 = {ann, bob}
    Start <- MCStart
    Freezable = {bob}
    Percent = 50
    MinFee = 0
    MaxFee = 5
    MaxFaults = 1
INVARIANT
    RefundMakesWhole

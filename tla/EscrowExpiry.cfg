SPECIFICATION Spec
CONSTANTS
    ann = ann
    bob = bob
    cy = cy
    e1 = e1
    e2 = e2
    e3 = e3
    d1 = d1
    k1 = k1
    r1 = r1
    r2 = r2
    r3 = r3
    None = None
    NoKey = NoKey
    Scheduler = Scheduler
    Agents = {ann, bob, cy}
    Escrows = {e1, e2, e3}
    Disputes = {d1}
    Keys = {k1}
    Requests <- MCRequests
    Workloads <- MCWorkloads
    Terms <- MCTerms
    Subject <- MCSubject
    Held0 = {e1}
    Open0 = {}
    RowId <- MCRowId
    Wallets0 = {ann, bob}
    Start <- MCStart
    Freezable = {ann}
    MaxFaults = 0
PROPERTY AllOverdueClose

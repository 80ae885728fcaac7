SPECIFICATION Spec
CONSTANTS
    r1 = r1
    r2 = r2
    r3 = r3
    rotate = rotate
    pay = pay
    ask = ask
    k1 = k1
    k2 = k2
    b1 = b1
    b2 = b2
    p1 = p1
    p2 = p2
    NoKey = NoKey
    NoProof = NoProof
    Requests <- MCRequests
    Workloads <- MCWorkloads
    Tools = {rotate, pay, ask}
    Cost <- MCCost
    ToolLimit <- MCToolLimit
    HourLimit = 2
    BurstLimit = 3
    DailyCap = 3
    Start = 4
    Keys = {k1, k2}
    OldKeys = {k2}
    OldBody = b1
    Bodies = {b1, b2}
    Proofs = {p1, p2}
    Minute = 0
    Hour = 1
    Day = 1
    Ttl = 2
    MaxTime = 3
    MaxFaults = 1
INVARIANTS
    RateBounded
    BudgetRespected
    BillsMatchWork
    KeyBindsBody
    ProofAccounted

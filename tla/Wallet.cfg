SPECIFICATION Spec
CONSTANTS
    a1 = a1
    a2 = a2
    r1 = r1
    r2 = r2
    r3 = r3
    k1 = k1
    USD = USD
    CREDITS = CREDITS
    NoKey = NoKey
    NoOne = NoOne
    Agents <- MCAgents
    Currencies <- MCCurrencies
    Keys = {k1}
    Requests <- MCRequests
    Workloads <- MCWorkloads
    Wallets0 = {a1}
    Start <- MCStart
    SignupBonus = 1
    Reload <- MCReload
    Reloading0 = {a1}
    MaxFaults = 2
INVARIANTS
    TypeOK
    NonNegative
    AckDurable
    LedgerReconciles
    KeyedOnce
    ReloadRestores
PROPERTIES
    Termination
    ImplementsDurableLedger

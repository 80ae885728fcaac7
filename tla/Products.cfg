SPECIFICATION Spec
CONSTANTS
    r1 = r1
    r2 = r2
    r3 = r3
    o1 = o1
    o2 = o2
    a1 = a1
    a2 = a2
    pk = pk
    s1 = s1
    huge = huge
    m1 = m1
    m2 = m2
    m3 = m3
    sk = sk
    jk = jk
    nk = nk
    t1 = t1
    t2 = t2
    v1 = v1
    v2 = v2
    v3 = v3
    h1 = h1
    h2 = h2
    x1 = x1
    x2 = x2
    x3 = x3
    l1 = l1
    l2 = l2
    l3 = l3
    NoListing = NoListing
    FirstListings <- MCFirstListings
    FirstTags <- MCFirstTags
    FirstTrust <- MCFirstTrust
    Raters = {a1, a2}
    NoAgent = NoAgent
    NoSubKey = NoSubKey
    NoJobKey = NoJobKey
    NoRequest = NoRequest
    NoDelivery = NoDelivery
    Requests <- MCRequests
    Workloads <- MCWorkloads
    MaxFaults = 1
    RouteAt <- MCRouteAt
    ToolNamed <- MCToolNamed
    PythonSdk <- MCPythonSdk
    TypeScriptSdk <- MCTypeScriptSdk
    TextFields <- MCTextFields
    Accounts = {a1, a2}
    FirstAccount = a1
    FirstKey = FirstKey
    Unbound = Unbound
    Orgs = {o1, o2}
    FirstOrg = o1
    Agents = {a1, a2}
    Founder = a1
    Huge = {huge}
    Subs = {m1, m2, m3}
    FirstSubs = {m1}
    SubKeys = {sk}
    MaxSubTime = 1
    JobKeys = {jk}
    Services = {v1, v2, v3}
    FirstServices = {v1}
    NameOf <- MCNameOf
    Hooks = {h1, h2}
    MaxAttempts = 2
    Negotiations = {t1, t2}
    FirstNegotiation = t1
    Parties = {a1, a2}
    FirstServer = FirstServer
    FirstPublisher = FirstPublisher
    ReadLimit = 2
    NoServer = NoServer
    MetricKeys = {nk}
    NoMetricKey = NoMetricKey
    OldTimes = {0, 1}
    StartTime = 2
    MaxMetricTime = 6
    DayLength = 2
    MonthDays = 2
    HotTime = 1
    WarmDays = 1
    NonceTime = 1
    SplitKeys = {pk}
    NoSplitKey = NoSplitKey
    Unknown = NoAgent
    SplitPurse = 20000
    FirstSubmissions <- MCFirstSubmissions
    FirstSubmitter = a1
    ClaimTime = 1
    MaxClaimTime = 1
    FirstMetric <- MCFirstMetric
    PageLimit = 3
    SearchLimit = 3
INVARIANTS
    AccessKept
    FundsArrive
    ChargedWhenDue
    WorkAccounted
    MeasuresKept
    AnswersHeard

SPECIFICATION FairSpec
CONSTANTS
    w1 = w1  w2 = w2
    Workers = {w1}
    Callers = {"anne", "bert", "bob", "sue"}
    RouteOf <- MCRoute
    KindOf <- MCKind
    AccountOf <- MCAccount
    IpOf <- MCIp
    StickyOf <- MCSticky
    PrintOf <- MCPrint
    NoIp = "unknown"
    NoPrint = "none"
    Nobody = "nobody"
    Limit <- MCLimitMixed
    MaxAttempts = 2
    MaxMismatches = 1
    WindowsPerDay = 7
    Multiplier = 3
    Lapsing = {"ip", "usage10", "anomaly10", "print"}
    MaxRequests = 4
    MaxCrashes = 1
    MaxFaults = 0
CHECK_DEADLOCK FALSE
INVARIANTS OneAboveAverage
PROPERTIES AnomalyNeedsTear WindowsReopen

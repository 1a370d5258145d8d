SPECIFICATION FairSpec
CONSTANTS
    w1 = w1  w2 = w2
    Workers = {w1, w2}
    Callers = {"bob", "bert"}
    RouteOf <- MCRoute
    KindOf <- MCKind
    AccountOf <- MCAccount
    IpOf <- MCIp
    StickyOf <- MCSticky
    PrintOf <- MCPrint
    NoIp = "unknown"
    NoPrint = "none"
    Nobody = "nobody"
    Limit <- MCLimit
    MaxAttempts = 5
    MaxMismatches = 1
    WindowsPerDay = 4
    Multiplier = 3
    Lapsing = {"ip"}
    MaxRequests = 3
    MaxCrashes = 1
    MaxFaults = 1
CHECK_DEADLOCK FALSE
INVARIANTS TypeOK WithinWindow StuckOnlyIfTorn AttemptsAreRefusals


SPECIFICATION FairSpec
CONSTANTS
    a1 = a1  a2 = a2  a3 = a3  b1 = b1  b2 = b2  s1 = s1  k1 = k1  A = A  B = B  w1 = w1  w2 = w2
    Workers = {w1}
    Requests = {a1, a2, a3, s1, b1}
    Streamed = {s1}
    Keys = {k1}
    Bodies = {A, B}
    KeyOf <- MCKeyOf
    BodyOf <- MCBodyOf
    HostOf <- MCHostOf
    Absent = Absent
    Nobody = Nobody
    MarkTTL = 3
    RegTTL = 1
    ResultTTL = 1
    RegLapses = FALSE
    MaxWait = 16
    MaxExec = 1
    CacheOn = FALSE
    Limits = FALSE
    RedisFails = FALSE
    Leaves = TRUE
    MaxCrashes = 0
INVARIANTS SingleFlight HitMatchesBody NoReplayExecutes MarkerHasOwner
PROPERTY ImplementsCoalescing

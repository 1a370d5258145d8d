SPECIFICATION FairSpec
CONSTANTS
    a1 = a1  a2 = a2  a3 = a3  b1 = b1  b2 = b2  s1 = s1  k1 = k1  A = A  B = B  w1 = w1  w2 = w2
    Workers = {w1, w2}
    Requests = {a1, s1, b1}
    Streamed = {s1}
    Keys = {k1}
    Bodies = {A, B}
    KeyOf <- MCKeyOf
    BodyOf <- MCBodyOf
    HostOf <- MCHostOf
    Absent = Absent
    Nobody = Nobody
    MarkTTL = 1
    RegTTL = 2
    ResultTTL = 1
    RegLapses = TRUE
    MaxWait = 1
    MaxExec = 1
    CacheOn = TRUE
    Limits = TRUE
    RedisFails = TRUE
    Leaves = TRUE
    MaxCrashes = 1
INVARIANTS ConflictIsReal NoFailureReplayed
PROPERTIES RegistrationStands Answered

SPECIFICATION Spec
CONSTANTS
    k1 = k1  k2 = k2  poster = poster  getter = getter  llm1 = llm1  llm2 = llm2
    i1 = i1  None = None
    Keys = {k1, k2}
    Calls = {llm1, llm2}
    IdemKeys = {i1}
    Rank <- MCRank
    LoadPerHit <- MCLoadPerHit
    Penalty <- MCPenalty
    KindOf <- MCKindOf
    IdemOf <- MCIdemOf
    Attempts <- MCAttempts
    MaxHits = 1
    DegradeAt = 1
    ExhaustAt = 2
    MaxScore = 2
    RecoverBelow = 1
    FailuresToOpen = 2
    MaxAttempts = 2
    CacheOn = TRUE
    Limits = TRUE
    MaxAtOnce = 2
PROPERTY BreakerShields

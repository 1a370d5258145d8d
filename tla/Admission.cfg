SPECIFICATION ASpec
CONSTANTS
    key1 = key1  tenant1 = tenant1  tenant2 = tenant2
    None = None  Unset = Unset
    Names <- MCNames
    Requests <- MCRequests
    Limit <- MCLimit
    Callers <- MCCallers
    KeyLimit <- MCKeyLimit
    Profiles <- MCProfiles
    TenantProfile <- MCTenantProfile
    Targets = {"gpt", "claude", "local", "odd"}
    Config <- MCConfig
    DefaultTokens = 20
    LlmCalls <- MCLlmCalls
    Cost = 3
    Second = 3
    MaxBuckets = 3
    TTL = 4
INVARIANTS TypeOK WithinRate StaleBucketsAreFull OldestFirst CapsBind ThrottledCompletionFits

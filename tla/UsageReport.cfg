SPECIFICATION Spec
CONSTANTS
    u1 = u1  u2 = u2  u3 = u3  u4 = u4  l1 = l1
    Uses = {u1, u2, u3, u4}
    Looks = {l1}
    Nobody = Nobody
    Never = Never
    FlushAt = 2
    FlushAfter = 2
    MaxRetries = 2
    FailuresToOpen = 2
    OpenTTL = 2
    RedisFails = TRUE
    MaxStops = 1
SYMMETRY Symmetric
INVARIANTS TypeOK SubmittedOnce Accounted BatchesAreSmall OpenForCause LockHasWorker

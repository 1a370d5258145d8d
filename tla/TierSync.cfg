SPECIFICATION FairSpec
CONSTANTS
    w1 = w1  w2 = w2
    Workers = {w1, w2}
    Subscribers = {"user"}
    Tiers = {"free", "pro"}
    Free = "free"
    NoTier = "none"
    Unsure = "unsure"
    Lapsing = {"cache", "marker", "result"}
    MaxEvents = 2
    MaxFailures = 1
    MaxDrops = 1
CHECK_DEADLOCK FALSE
INVARIANTS TypeOK ProcessedOnce CleanRunDecides
PROPERTIES StaleEnds

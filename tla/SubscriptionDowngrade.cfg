SPECIFICATION Spec
CONSTANTS
    w1 = w1  w2 = w2
    Workers = {w1}
    Users = {"user"}
    Plans = {"free", "pro"}
    FreePlan = "free"
    NoRecord = NoRecord
    MaxEvents = 3
    MaxFailures = 1
    MaxDrops = 1
CHECK_DEADLOCK FALSE
INVARIANT Downgraded

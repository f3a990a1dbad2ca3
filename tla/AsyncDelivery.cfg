SPECIFICATION Spec
CONSTANTS
    a = a
    b = b
    o1 = o1
    o2 = o2
    Job = {a, b}
    Owner = {o1, o2}
    OwnerOf <- MCOwnerOf
    Caller = {"call"}
    MaxQueue = 1
    MaxDead = 1
    MaxAttempts = 2
    Scope = {"poll", "await", "evict", "fail", "drain", "new"}
INVARIANTS
    OneDelivery
    NothingLost
    LoopIsAwake
PROPERTIES
    ReportedOnce
    FenceHoldsDeliveries
CHECK_DEADLOCK FALSE

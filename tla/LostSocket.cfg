SPECIFICATION Spec
CONSTANTS
    o1 = o1
    o2 = o2
    o3 = o3
    Owner = {o1, o2}
    NoOwner = NoOwner
    MaxRenewals = 2
INVARIANTS
    OwnerReachable
CHECK_DEADLOCK FALSE

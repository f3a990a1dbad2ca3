SPECIFICATION LiveSpec
CONSTANTS
    o1 = o1
    o2 = o2
    o3 = o3
    Owner = {o1, o2, o3}
    NoOwner = NoOwner
    MaxRenewals = 2
INVARIANTS
    IInv
    LeaseProtects
    SocketIsHolders
PROPERTIES
    StopReleases
CHECK_DEADLOCK FALSE

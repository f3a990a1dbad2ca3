SPECIFICATION LiveSpec
CONSTANTS
    a = a
    b = b
    o1 = o1
    o2 = o2
    Job = {a, b}
    Owner = {o1}
    OwnerOf <- MCOwnerOf
    Caller = {"call"}
    MaxQueue = 2
    MaxDead = 1
    MaxAttempts = 2
    Scope = {"poll", "fail", "clear", "dispose"}
PROPERTIES
    
    
    DisposeReturns
CHECK_DEADLOCK FALSE

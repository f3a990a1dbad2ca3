SPECIFICATION Spec
CONSTANTS
    o1 = o1
    o2 = o2
    s1 = s1
    s2 = s2
    s3 = s3
    Owner = {o1}
    Subagent = {s1, s2}
    OwnerOf <- MCOwnerOf
    Resumable = {s1, s2}
    MaxRunning = 1
    Retain = TRUE
    EarlyFailure = FALSE
    Closing = {}
    Ending = {"completed", "paused"}
    MaxJobs = 5
    MaxSeq = 4
SYMMETRY MCSymmetry
INVARIANTS
    RunningLimit
    
PROPERTIES
    DrainIsFifo
CHECK_DEADLOCK FALSE

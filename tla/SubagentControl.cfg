SPECIFICATION LeaseSpec
CONSTANTS
    o1 = o1
    o2 = o2
    s1 = s1
    s2 = s2
    s3 = s3
    Owner = {o1}
    Subagent = {s1, s2}
    OwnerOf <- MCOwnerOf
    Resumable = {s1, s2}
    MaxRunning = 1
    Retain = FALSE
    EarlyFailure = FALSE
    Closing = {o1}
    Ending = {"completed", "paused"}
    MaxJobs = 3
    MaxSeq = 4
INVARIANTS
    OneLiveRunPerSubagent
    RecordFollowsRun
    
    ConfirmedMeansStopped
PROPERTIES
    TerminalStatusStands
    ReplacementIsQuiet
    ShutdownEnds
    

SPECIFICATION Spec
CONSTANTS
    i1 = i1
    i2 = i2
    h1 = h1
    h2 = h2
    r1 = r1
    r2 = r2
    Identity = {i1, i2}
    Hash = {h1, h2}
    Request = {r1, r2}
    MaxRows = 4
    MaxFailures = 2
    MaxFaults = 1
SYMMETRY Symmetry
INVARIANTS
    EffectsOnceAcrossCrashes
    VerifiedAnswerIsFinal
    
CHECK_DEADLOCK FALSE

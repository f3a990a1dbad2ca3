SPECIFICATION Spec
CONSTANTS
    i1 = i1
    i2 = i2
    h1 = h1
    h2 = h2
    r1 = r1
    r2 = r2
    Identity = {i1, i2}
    Hash = {h1}
    Request = {r1, r2}
    MaxRows = 4
    MaxFailures = 3
    MaxFaults = 1
SYMMETRY Symmetry
INVARIANT EffectsAtMostOnce
CHECK_DEADLOCK FALSE

SPECIFICATION FairSpec
CONSTANTS
    Task = {t1, t2, t3, t4}
    max = 2
INVARIANTS
    SlotInv
    ConcurrencyLimit
PROPERTIES
    WaitersFinish

SPECIFICATION YieldSpec
CONSTANTS
    MaxEntries = 3
    Events = {"abort", "error", "refuse", "clear", "handoff"}
INVARIANTS
    EachOnceInOrder
PROPERTIES
    HandoffStartsNoTurn
    ResultsStayBehind
    IdleEntriesFlushed

CONSTANTS
    Limit <- LimitDef
    MaxHistory = 3
    MaxRevision = 3
    MaxOps = 4
    Sessions = {s1}
    MaxFaults = 2
    None = None
    MaxEvents = 3
    Messages = {m1}
    Calls = {c1}
    MaxFragments = 2
    Sizes = {2}
    MaxCited = 1
SPECIFICATION Spec
INVARIANTS PayloadsExact HistoryWellFormed
PROPERTIES UnreadableForever OperationsAtMostOnce PendingDrains
CHECK_DEADLOCK FALSE

CONSTANTS
    Limit <- LimitDef
    MaxHistory = 1
    MaxObjects = 4
    MaxCheckpoints = 2
    MaxExecutions = 1
    MaxRevision = 2
    MaxOps = 4
    Sessions = {s1}
    MaxFaults = 1
    None = None
    MaxEvents = 1
    Messages = {}
    Calls = {}
    MaxFragments = 0
    Sizes = {1}
    MaxCited = 1
    MaxEntities = 3
    MaxExtractions = 1
    MaxBatch = 2
    CheckpointScopes = {"Session"}
    Workloads <- AllWorkloads
SPECIFICATION SessionsSpec
INVARIANTS  RetriedOnce CheckpointsSound
PROPERTIES SameEntityStays WrittenIsCurrent
CHECK_DEADLOCK FALSE

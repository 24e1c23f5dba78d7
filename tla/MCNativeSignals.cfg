CONSTANTS
    Limit <- LimitDef
    MaxOps = 8
    Scopes = {Global}
    Home = Global
    MaxCrashes = 0
    Classes = {"UserAssertion"}
    Domains = {"UserNote"}
    RelationKinds = {}
    PurgeKinds = {"Evidence"}
    None = None
    MaxCases = 1
    MaxFeedback = 0
    Queries = {"all"}
    Evaluators = {1, 2}
    Profiles = {1}
    Dimensions = {d1}
    MaxSignals = 2
    MaxTraces = 1
    MaxEvidence = 1
    MaxClaims = 1
SPECIFICATION MCSpec
INVARIANT SignalsExact
PROPERTY SignalsAdvance
CHECK_DEADLOCK FALSE

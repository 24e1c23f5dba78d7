CONSTANTS
    Limit <- LimitDef
    MaxOps = 5
    Scopes = {Global}
    MaxCrashes = 0
    Classes = {"UserAssertion", "AssistantUtterance"}
    Domains = {"UserNote"}
    RelationKinds = {"About"}
    PurgeKinds = {"Evidence"}
    None = None
    MaxCases = 1
    MaxFeedback = 1
    Queries = {"all"}
    Shapes <- ShapesDef
    Jobs = {j1}
    Proposers = {"Assistant"}
    MaxEvidence = 1
    MaxClaims = 2
    MaxEntities = 1
    MaxRelations = 1
    MaxProposals = 1
    MaxReviews = 1
SPECIFICATION ProposalsSpec
INVARIANTS ProposalsExact ReadsSound
PROPERTY ForwardOnly
CHECK_DEADLOCK FALSE

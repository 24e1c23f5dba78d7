CONSTANTS
    Limit <- LimitDef
    MaxOps = 4
    Scopes = {Global}
    MaxCrashes = 1
    Classes = {"UserAssertion", "AssistantUtterance"}
    Domains = {"UserNote", "ArtifactContent"}
    RelationKinds = {"Supports", "Supersedes"}
    PurgeKinds = {"Evidence", "Claim", "SemanticRelation", "ArtifactCollection", "ArtifactSnapshot", "ArtifactPassage"}
    None = None
    MaxEvidence = 3
    MaxClaims = 2
    MaxRelations = 1
    MaxArtifacts = 1
    MaxPassages = 2
SPECIFICATION Spec
INVARIANTS SupportSound ReadsSound
PROPERTY OperationsAtMostOnce
CHECK_DEADLOCK FALSE

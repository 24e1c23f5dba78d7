SPECIFICATION Spec
CONSTANTS
  NumKeys = 2
  PrefixLen = 2
  Values = {v1, v2}
  Clients = {c1, c2}
  NoClient = NoClient
  NoValue = NoValue
  PageLimit = 1
  MaxRevision = 4
  MaxOps = 3
SYMMETRY Symmetry
INVARIANTS PreparedIsCurrent RevisionNamesVersion ScanMissesNothing
PROPERTY ReplaceIsExact

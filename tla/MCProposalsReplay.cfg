SPECIFICATION Spec
CONSTANTS
  n1 = n1
  n2 = n2
  Nodes = {n1, n2}
  EdgeKeys <- OneEdge
  NumProposals = 1
  Templates <- OpenStart
  Embeddings = {e1}
  NoEmbedding = none
  MaxChanges = 1
  MaxOps = 3
  MaxCrashes = 1
  MaxFaults = 0
INVARIANT Resumable
CHECK_DEADLOCK FALSE

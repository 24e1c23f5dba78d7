SPECIFICATION FairSpec
CONSTANTS
  n1 = n1
  n2 = n2
  Nodes = {n1, n2}
  EdgeKeys <- OneEdge
  NumProposals = 2
  Templates <- TwoTemplates
  Embeddings = {e1}
  NoEmbedding = none
  MaxChanges = 3
  MaxOps = 4
  MaxCrashes = 2
  MaxFaults = 1
INVARIANT ReplaySafe
PROPERTIES OnlyJudgedChanged AppliedAtomically ResumeCompletes
CHECK_DEADLOCK FALSE

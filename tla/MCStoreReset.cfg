SPECIFICATION FairSpec
CONSTANTS
  Eras = {e1, e2, e3}
  Plans = {p1, p2}
  Tokens = {w1}
  None = None
  Torn = Torn
  MaxCrashes = 2
  TornWrites = TRUE
INVARIANTS ResetKeepsData ResetExclusive QuarantineAsPlanned
PROPERTY ResetCompletes
CHECK_DEADLOCK FALSE

SPECIFICATION FairSpec
CONSTANTS
  a = a
  b = b
  d = d
  o1 = o1
  o2 = o2
  Raw = {a, b}
  Derived = {d}
  NumRuns = 2
  Out <- TwoOutputs
  EdgeKeys <- Link
  Plans <- TypicalPlans
  MaxOps = 1
  MaxCrashes = 1
  MaxFaults = 1
INVARIANTS NeverDreamedTwice 
PROPERTIES  ReopenSettles
CHECK_DEADLOCK FALSE

SPECIFICATION FairSpec
CONSTANTS
  p1 = p1
  m1 = m1
  m2 = m2
  c3 = c3
  Ids = {p1}
  Fps = {f1, f2}
  Models = {m1}
  Model <- TwoModels
  Contents = {c1, c2, c3}
  Supported <- MostSupported
  Tasks = {t1, t2}
  MaxAttempts = 2
  MaxEdits = 2
  MaxProfiles = 1
  MaxCrashes = 1
  None = None
  Caller = Caller
INVARIANT ProjectionSound
PROPERTIES LaterAttemptWins PendingSettles
CHECK_DEADLOCK FALSE

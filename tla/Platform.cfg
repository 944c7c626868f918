SPECIFICATION FairSpec
CONSTANTS
  p1 = p1
  p2 = p2
  m1 = m1
  None = None
  Instances = {p1, p2}
  Workers = {p1}
  Mails = {m1}
  UseBullMQ = TRUE
  Production = TRUE
  StrongPassword = TRUE
  Concurrency = 5
  Attempts = 3
  MaxStalls = 1
  MaxSignals = 1
  MaxFailures = 2
INVARIANT TypeOK
INVARIANT CopiesAreExplained
INVARIANT ConnectionsOutliveWork
PROPERTY JobsAreSettled
PROPERTY AllComeUp
CHECK_DEADLOCK FALSE

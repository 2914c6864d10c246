SPECIFICATION FairSpec
CONSTANTS
  Runs = {r1, r2}
  Keys = {k1}
  Clients = {c1, c2}
  Workers = {w1, w2}
  None = None
  MaxRequests = 3
  MaxCrashes = 0
  MaxSendFailures = 0
  MaxRedeliveries = 1
  MaxTimeouts = 0
CHECK_DEADLOCK FALSE
INVARIANTS
  JournalIsDense
  CompletedHasOutput
PROPERTIES
  EveryQueuedRunEnds

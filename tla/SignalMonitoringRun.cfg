SPECIFICATION FairSpec
CONSTANTS
  Plans <- MCPlans
  Tasks <- MCTasks
CHECK_DEADLOCK FALSE
INVARIANTS
  TypeOK
  NotObservedIsCovered
  AuditAddsUp
  EvidenceIsReported
PROPERTIES
  EveryRunEnds

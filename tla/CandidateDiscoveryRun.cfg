SPECIFICATION FairSpec
CONSTANTS
  d1 = d1
  g1 = g1
  c1 = c1
  n1 = n1
  n2 = n2
  rule = rule
  gateRule = gateRule
  radar = radar
  target = target
  cross = cross
  DiscoveryTasks <- MCDiscovery
  GateTasks <- MCGates
  CoverageTasks <- MCCoverage
  SubjectOf <- MCSubjectOf
  Subjects <- MCSubjects
  Sourced = {g1}
  Target = target
  CrossCheck = cross
  Names = {n1, n2}
  NoName = NoName
  Answers <- MCAnswers
  Settings <- MCSettings
  MaxVariants = 1
  MaxCrossChecks = 1
  MaxIterations = 2
  MaxUniverse = 2
CHECK_DEADLOCK FALSE
INVARIANTS
  TypeOK
  StopIsHonoured
  TotalIsBounded
PROPERTIES
  StopIsFinal
  EveryRunEnds

CONSTANTS
  r1 = r1
  r2 = r2
  Radars <- TwoRadars
  Opened <- OneRadar
  FirstRuns <- PageLoad
  MaxRuns = 3
  MaxActions = 3
  MaxFailures = 1
  MaxCalls = 1
  MaxPolls = 1
SPECIFICATION Spec
CHECK_DEADLOCK FALSE
INVARIANTS
  TypeOK
  SelectionIsSound
  LoadedDefinitionStays
PROPERTY ComesToRest

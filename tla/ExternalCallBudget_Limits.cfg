SPECIFICATION Spec
CONSTANTS
  Limit <- MCLimit
  SliceLimit <- MCSliceLimit
  None = None
  Planner = Planner
  RegularTasks = {t1}
  Bases = {b1}
  MaxItems = 2
  MaxMinimum = 2
  MaxSearches = 2
  TotalLimit = 5
  PlannerLimit = 1
  WebLimit = 3
  RecallLimit = 3
  SearchLimit = 3
  RetryLimit = 1
  Slices = 3
CHECK_DEADLOCK FALSE
INVARIANTS
  CallsWithinLimits
  OverrunIsOneCall
  FirstCallsReserved
  RegularWorkLeavesReserve

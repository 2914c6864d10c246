SPECIFICATION Spec
CONSTANTS
  Runs = {r1, r2}
  Series = {s1, s2}
  Sources <- MCSources
  LaneOf <- MCLaneOf
  Items = {e1, e2}
  SourceOf <- MCSourceOf
  Initial = 0
  Override = 1
  Overlap = 1
  MaxDay = 1
  MaxDelay = 1
  MaxCrashes = 1
SYMMETRY Symmetry
CHECK_DEADLOCK FALSE
INVARIANTS
  TypeOK
  SeriesIsIsolated
  NotRepublished
  LateEvidenceIsFound

SPECIFICATION Spec
CONSTANTS
  Products = {p1}
  Codes = {"SMD"}
  Bodies = {"blank", "complete"}
  Blank = "blank"
  Publishable = {"complete"}
  Editors = {e1, e2}
  MaxRevision = 5
  MaxVersions = 2
  Callers = {c1, c2}
  Keys = {k1}
  Candidates = {"ineligible", "review_needed_candidate", "accepted_candidate"}
  MaxPolicies = 2
  MaxSignals = 1
SYMMETRY Symmetry
CONSTRAINT Bounded
CHECK_DEADLOCK FALSE
INVARIANTS
  PolicyHistoryIsLinear
  KeyAnswersOneRequest
  HandoffIsAdmitted
  OnlyValidIsPublished

SPECIFICATION PlaybookSpec
CONSTANTS
  Products = {p1}
  Codes = {"SMD"}
  Bodies = {"blank", "complete"}
  Blank = "blank"
  Publishable = {"complete"}
  Editors = {e1, e2}
  MaxRevision = 4
  MaxVersions = 2
CHECK_DEADLOCK FALSE
PROPERTIES
  StaleDraftsConflict

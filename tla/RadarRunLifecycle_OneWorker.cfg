SPECIFICATION Spec
CONSTANTS
  Runs = {r1, r2, r3}
  Keys = {k1}
  Clients = {c1, c2}
  Workers = {w1}
  None = None
  MaxRequests = 4
  MaxCrashes = 1
  MaxSendFailures = 1
  MaxRedeliveries = 1
  MaxTimeouts = 1
SYMMETRY Symmetry
CHECK_DEADLOCK FALSE
INVARIANTS
  KeyNamesOneRun
  EnqueuedRunIsCommitted
  JournalTellsStatus
  SignalSourceIsCompleted
PROPERTIES
  ContractHolds

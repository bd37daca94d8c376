SPECIFICATION Spec
CONSTANTS
  Runs = {r1, r2}
  Approvals = {p, q}
  Stops = {s}
  Quarantines = {}
  Deletes = {}
  Terminations = {}
  None = None
  HostProcess = FALSE
  MaxFaults = 0
  MaxRestarts = 1
CHECK_DEADLOCK FALSE
INVARIANTS
  TypeOK
  HeldActionIsFrozen
PROPERTIES
  ResumedOnlyIfApproved
  KeepsPromise

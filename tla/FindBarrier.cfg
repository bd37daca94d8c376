SPECIFICATION Spec
CONSTANTS
  Runs = {r1}
  Approvals = {}
  Stops = {}
  Quarantines = {}
  Deletes = {}
  Terminations = {t}
  None = None
  HostProcess = FALSE
  MaxFaults = 0
  MaxRestarts = 0
SYMMETRY Symmetry
CHECK_DEADLOCK FALSE
INVARIANTS
  BlockedNeverStarts

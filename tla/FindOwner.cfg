SPECIFICATION Spec
CONSTANTS
  Runs = {r1}
  Approvals = {p}
  Stops = {}
  Quarantines = {}
  Deletes = {}
  Terminations = {}
  None = None
  HostProcess = FALSE
  MaxFaults = 0
  MaxRestarts = 0
SYMMETRY Symmetry
CHECK_DEADLOCK FALSE
INVARIANTS
  PublishedHasOwner

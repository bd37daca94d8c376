SPECIFICATION Spec
CONSTANTS
  Runs = {r1, r2, r3}
  Approvals = {}
  Stops = {}
  Quarantines = {k1, k2}
  Deletes = {}
  Terminations = {}
  None = None
  HostProcess = FALSE
  MaxFaults = 0
  MaxRestarts = 0
SYMMETRY Symmetry
CHECK_DEADLOCK FALSE
INVARIANTS
  AtMostOneActiveRun

SPECIFICATION Spec
CONSTANTS
  Runs = {r1, r2}
  Approvals = {p}
  Stops = {}
  Quarantines = {}
  Deletes = {d}
  Terminations = {t}
  None = None
  HostProcess = FALSE
  MaxFaults = 0
  MaxRestarts = 0
SYMMETRY Symmetry
CHECK_DEADLOCK FALSE
INVARIANTS
  BusyIffExecuting
  ClosedIsQuiet
  TerminationKeepsBarrier

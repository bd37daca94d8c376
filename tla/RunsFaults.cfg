SPECIFICATION Spec
CONSTANTS
  Runs = {r1}
  Approvals = {p}
  Stops = {}
  Quarantines = {k}
  Deletes = {}
  Terminations = {t}
  None = None
  HostProcess = FALSE
  MaxFaults = 1
  MaxRestarts = 1
SYMMETRY Symmetry
CHECK_DEADLOCK FALSE
INVARIANTS
  CanaryNeverCompletes
  EvidenceMatchesRun
  ContainedIsQuiet
PROPERTIES
  DecisionsAreFinal

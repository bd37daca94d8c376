SPECIFICATION FairSpec
CONSTANTS
  Runs = {r1}
  Approvals = {p}
  Stops = {s}
  Quarantines = {}
  Deletes = {}
  Terminations = {t}
  None = None
  HostProcess = FALSE
  MaxFaults = 0
  MaxRestarts = 0
CHECK_DEADLOCK FALSE
PROPERTIES
  RunsEnd
  CallsEnd

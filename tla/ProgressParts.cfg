SPECIFICATION PartsSpec
CONSTANTS
  Conns = {c}
  Tunnels = {c}
  Rechecks = 1
  MaxHeld = 1
  Threshold = 2
  MaxDrains = 1
  Loaders = {p, q, o}
  None = None
  Calls = {l, m, n}
  Nothing = Nothing
  MaxCrashes = 2
  Requests = {r, s}
  MaxSessions = 2
  MaxTokens = 3
  MaxProcesses = 2
  Callers = {e, f}
  MaxRestarts = 1
INVARIANTS
  PartsTypeOK
  NoOrphans
PROPERTIES
  KeyIsChosenOnce
  LoadersEnd
  StoreIsDurable
  CallsAreAnswered
  RequestsSettle
  CancelEndsRun
  EnsuredIsOwn
  ConnectionsSettle
  SpentTunnelsGoDown
CHECK_DEADLOCK FALSE

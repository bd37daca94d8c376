SPECIFICATION PartsSpec
CONSTANTS
  Conns = {c, d}
  Tunnels = {c}
  Rechecks = 1
  MaxHeld = 1
  Threshold = 2
  MaxDrains = 1
  MaxPerRun = 1
  RecallLimit = 2
  MaxEntries = 3
  MaxRuns = 2
  Turns = {t, u, v}
  Interval = 2
  Backoff = 1
  MaxQueue = 3
  MaxClock = 5
  FirstWords <- MCFirstWords
  SixthWords = {0, 1, 65535}
  SeventhWords <- MCSeventhWords
  LastWords = {0, 1, 2}
  ChatIds = {x, y}
  Null = Null
  Files <- MCFiles
  Forever = Forever
  Humans = {h}
  Agents = {a, b}
  Targets = {star}
  Wildcard = star
  Scopes = {"network:egress"}
  Drafts <- MCDrafts
  Instants = {0, 1}
  MaxArray = 3
INVARIANTS
  DrainedStaysClosed
  NothingFlowsOnRevokedAuthority
  CountNeverOverstates
  ThresholdQuarantines
  SealedNeverRecalled
  SlotsAreSpaced
  RefusedIsReserved
  LoadingKeepsHumanAuthority
  LoadedIsCurrent
  LoopsComputeClosures
  ReceiptsAreJudgedRight
CHECK_DEADLOCK FALSE

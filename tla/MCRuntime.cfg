SPECIFICATION MCSpec
CONSTANTS
  NLayers = 4
  ResidentMask = {1}
  Lookahead = 2
  Rows = 2
  Backends = {"host", "cuda"}
  MaxPasses = 2
  MaxFaults = 3
  Allocs = {1, 2, 3, 4, 5, 6, 7, 8, 9}
  NoBuf = 0
  NRouted = 2
  Experts = {1, 2, 3}
  TopK = 2
  TileWidth = 2
  CapTiles = 2
  PoolLimit = 1
  FlushThreshold = 2
  MaxTiles = 3
  MaxHookFaults = 2
  PositionLayers = 2
  MaxTensors = 3
  MaxVersion = 2
  MaxHandleFaults = 2
  DraftMaximum = 4
  RearmAfter = 1
  RearmBar = 700
  RearmProbe = 2
  SpecPercent = 50
  SpecWindow = 4
  MaxQwenSteps = 5
  Tokens = {1, 2}
  Modes = {"off", "on", "auto"}
  SafeContext = 3
  ProbeDrafts = 1
  DraftWidth = 2
  MissTolerance = 1
  TrailingPercent = 60
  TrailingWindow = 2
  Times = {1, 3}
  MaxPrompt = 2
  MaxTarget = 4
  MaxDraftRequests = 2
  MaxDraftFaults = 1
CHECK_DEADLOCK FALSE
INVARIANTS
  FailedPassesAreContained
  NothingIsForgotten
  NoWrapperOutlivesItsMemory
  DraftsSeeTheTarget
  QwenComesBack
  LoadLeavesTheReserve
  RequestsAreHonoured
  ReadsAreFaithful

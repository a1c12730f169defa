SPECIFICATION EffectsSpec
CONSTANTS
  Wallet = 3
  Reserve = 1
  MaxBridgePolls = 2
  MaxRuns = 2
  MaxTopUpLapses = 1
  ConfirmationDepth = 1
  BlockRange = 1
  MaxLag = 1
  Lookback = 0
  MaxLogs = 1
  MaxBlocks = 4
  MaxEvents = 2
  MaxPolls = 3
  RoomKept = 3
  RoomPage = 1
  MaxObservations = 2
  MaxRoom = 4
  MaxRoomPolls = 4
  ToolCalls <- MCToolCalls
  TurnKinds <- MCTurnKinds
  PlanLength = 2
  ToolBudget = 3
  MaxToolRounds = 2
  DegradeCap = 1
  MaxBequests = 1
  DedupeWindow = 2
  RepeatWindow = 1
  RepeatThreshold = 2
  FailureCooldown = 1
  MaxTicks = 2
  MaxToolTurns = 2
  MaxPayTurns = 1
  MaxTxs = 3
  MaxPayLapses = 1
  MaxEvictions = 1
  MixPayments = FALSE
  MaxDepth = 2
  MaxArgs = 2
  ArgTypes <- MCArgTypes
  ArgValues <- MCArgValues
  TemplateKeys = {"k", "l"}
  Functions = {"f", "g"}
  MaxRegistrations = 4
  Watchlists = {"v", "w"}
  ResultTtl = 1
  MaxDiscoveryTime = 2
  MaxSubmissions = 2
  MaxSettings = 1
  StewardIds = {"s", "t"}
  Asked <- MCAsked
  MaxProofs = 2
  ProofTtl = 1
  MaxCalls = 2
  MaxRotations = 1
  MaxStewardTime = 1
  Stems = {"config", "note"}
  MaxFacts = 2
  MaxGoals = 1
  MaxLessons = 1
  MaxJournal = 2
  MaxSteps = 2
  MaxAge = 1
  PruneBatch = 1
  WindowLength = 2
  MaxMemoryTime = 3
  MaxMemoryOps = 3
  Letters = {"a", "b"}
  MaxText = 5
  MaxEditBps = 4000
  Pieces = {"x", "y"}
  Commits = {"c", "d"}
  MaxArtifact = 2
  MaxUploads = 2
  MaxExecutionsOf = 2
  StrategyIds = {"s"}
  ChainIds = {1}
  MinAge = 0
  Cooldown = 1
  SessionTtl = 0
  MinGross = 1
  Reserves = 0
  MaxAsking = 2
  MaxSessions = 3
  MaxChanges = 1
  MaxFactoryTime = 1
  Hosts = {"h", "m"}
  MarketHosts = {"m"}
  Extracts = {"e", "f"}
  FirstSize = 1
  LastSize = 4
  SearchCost = 1
  RpcCost = 2
  SignCost = 2
  FirstCycles = 6
  ReserveFloor = 2
  TerminalReserve = 3
  SearchesPerTurn = 1
  UsageEntries = 3
  RetryResults = 3
  StaleAfter = 2
  MaxOutcallTurns = 4
  MaxOutcallEvents = 3
INVARIANTS EffectsTypeOK TransitAccounted NoPaidMessageLost NoRoomMessagePassedOver  PaymentsRemembered CalldataReadsBack RevocationStands ValidatedWasAsked CommandsSpentOnce MemoryAccounted BandIsExact AttestedCode CooldownKept 
CHECK_DEADLOCK FALSE

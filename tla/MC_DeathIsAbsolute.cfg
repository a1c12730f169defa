SPECIFICATION AutomatonSpec
CONSTANTS
  MaxBackoff = 2
  LimitMin = 1
  LimitMax = 2
  LeaseTtl <- MCLeaseTtl
  Errors <- MCErrors
  Observations <- MCObservations
  Cadence <- MCCadence
  EnabledKinds = {"CheckCycles", "PollInbox"}
  WakeKeys = {"resume"}
  MaxJobsPerTick = 2
  Horizon = 3
  MaxJobs = 4
  MaxFaults = 1
  MaxMessages = 2
  MaxTurns = 1
  MaxLapses = 1
  BatchSize = 2
  MaxRounds = 2
  MaxToolCalls = 1
  MaxWaitAttempts = 3
  RejectionLimit = 1
  WorkerOutputs = {"text", "calls"}
  CallCount <- MCCallCount
  Budget = 1
  StreakLimit = 2
  QuarantineLimit = 1
  ScanLimit = 1
  MaxStrategyTurns = 1
  MaxExecutions = 2
  MaxSends = 1
  MaxStrategyLapses = 1
  MaxAdmin = 1
PROPERTY DeathIsAbsolute
CHECK_DEADLOCK FALSE

CONSTANTS
  Shareds <- MCShareds
  ReadBack <- MCReadBack
  Trim <- MCTrim
  Lower <- MCLower
  Number <- MCNumber
  ParseInt <- MCParseInt
  UrlDb <- MCUrlDb
  NaN = NaN
  Unset = Unset
  NoFile = NoFile
  NoEnv = NoEnv
  MaxEdits = 2
  Callers = {k1, k2}
  Times <- MCTimes
  WindowMs = 3
  MaxRequests = 2
  SecondMs = 2
  SecondsLimit = 15
  SkewSeconds = 1
  Configs <- MCConfigs
  NoConfig = NoConfig
  NoBucket = NoBucket
  MaxSetbacks = 1
SPECIFICATION ProcessSpec
CHECK_DEADLOCK FALSE
INVARIANTS
  ProcessTypeOK
  BudgetKept
  RetryAfterReachesNextWindow
  SkewHoldsInBothUnits
  SyncedProcessesShareQueue
  DeployedAsDeveloped
  AdminOpenOnlyInDevelopment
PROPERTIES
  RefusedOnlyWhenSpent

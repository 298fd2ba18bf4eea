SPECIFICATION PartsSpec
CONSTANTS
  None = None
  Torn = Torn
  MaxOthers = 4
  MaxFaults = 5
  u1 = u1
  u2 = u2
  Users = {u1, u2}
  Shells = {u1, u2}
  RequiredKeys <- TwoKeys
  Configs <- SomeConfigs
  Requests <- SomeRequests
  Answers <- SomeAnswers
  Bases <- SomeBases
  MaxKeys = 2
  MaxStops = 2
  MaxTidyUps = 1
  MaxLosses = 1
  MaxLines = 6
  MaxAttempts = 2
  MaxEdits = 3
  MaxShortWrites = 1
  MaxRuns = 3
  MaxBreaks = 1
  Depth = 2
  MaxMoves = 1
  MaxAccounts = 2
  MaxChanges = 1
  MaxStarts = 2
INVARIANTS
  HealthyIsSettled
  OneKeyForEver
  OnlyOwnersMove
  DerivedFitsItsStoreOnly
PROPERTIES
  ImplementsResource
  SuccessEnds
  KeysOnlyAdded
  ReplayRepeats
  PublishedIsProven
CHECK_DEADLOCK FALSE

SPECIFICATION FairSpec
CONSTANTS
  c1 = c1
  c2 = c2
  r1 = r1
  r2 = r2
  Callers <- TwoCallers
  RunIds <- OneRun
  RunOf <- SharedRun
  ChainLength <- ShortChains
  Resetters <- Nobody
  RetryAfter <- Delays
  NoHeader = NoHeader
  MaxAttempts = 3
  BackoffBase = 1
  BackoffMax = 30
  MaxCost = 1
  MaxCalls = 1
CHECK_DEADLOCK FALSE
INVARIANTS
  TypeOK
  FallbackInOrder
  FailureNamesTriedModels
  SleepIsBounded
  LedgerNeverOverstates
PROPERTY
  CallsEnd

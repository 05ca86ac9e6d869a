SPECIFICATION Spec
CONSTANTS
  c1 = c1
  c2 = c2
  r1 = r1
  r2 = r2
  Callers <- TwoCallers
  RunIds <- TwoRuns
  RunOf <- PrivateRuns
  ChainLength <- ShortChains
  Resetters <- TwoCallers
  RetryAfter <- NoDelays
  NoHeader = NoHeader
  MaxAttempts = 2
  BackoffBase = 1
  BackoffMax = 30
  MaxCost = 2
  MaxCalls = 2
CHECK_DEADLOCK FALSE
INVARIANT
  LedgerExact
PROPERTY
  ServiceKept

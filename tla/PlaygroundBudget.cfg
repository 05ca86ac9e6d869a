SPECIFICATION FairSpec
CONSTANTS
  a1 = a1
  a2 = a2
  a3 = a3
  b1 = b1
  x = x
  Free = Free
  ipA = ipA
  ipB = ipB
  Requests <- BudgetRequests
  Ips <- MCIps
  IpOf <- BudgetIpOf
  Known <- BudgetKnown
  RequireTurnstile = FALSE
  RateLimit = 2
  Window = 3
  DayLength = 2
  DailyBudget = 2
  MaxTokens = 2
  Workers = 2
  MaxTime = 3
CHECK_DEADLOCK FALSE
INVARIANTS
  TypeOK
  DailySpendIsBounded
PROPERTY
  EveryRequestIsAnswered

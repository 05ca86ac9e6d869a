SPECIFICATION Spec
CONSTANTS
  a1 = a1
  a2 = a2
  a3 = a3
  b1 = b1
  x = x
  Free = Free
  ipA = ipA
  ipB = ipB
  Requests <- LimiterRequests
  Ips <- MCIps
  IpOf <- LimiterIpOf
  Known <- LimiterKnown
  RequireTurnstile = TRUE
  RateLimit = 2
  Window = 1
  DayLength = 9
  DailyBudget = 1
  MaxTokens = 0
  Workers = 1
  MaxTime = 3
CHECK_DEADLOCK FALSE
INVARIANT GrantsAreSpaced
PROPERTY RefusalsAreDue

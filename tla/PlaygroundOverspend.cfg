SPECIFICATION Spec
CONSTANTS
  a1 = a1
  a2 = a2
  a3 = a3
  b1 = b1
  x = x
  Free = Free
  ipA = ipA
  ipB = ipB
  Requests <- FewRequests
  Ips <- MCIps
  IpOf <- FewIpOf
  Known <- FewKnown
  RequireTurnstile = FALSE
  RateLimit = 2
  Window = 1
  DayLength = 2
  DailyBudget = 1
  MaxTokens = 1
  Workers = 2
  MaxTime = 1
CHECK_DEADLOCK FALSE
PROPERTY SpentBudgetStaysSpent

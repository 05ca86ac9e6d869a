SPECIFICATION Spec
CONSTANTS
  a = a
  b = b
  t = t
  u = u
  Models <- MCModels
  Tasks <- MCTasks
  Seeds <- MCSeeds
  VersionOf <- MCVersionOf
  ErrorsOutOf <- MCErrorsOutOf
  Unit = 2
  Results <- MCResults
  SeedChoices <- MCSeedChoices
  StoreRuns <- MCStoreRuns
  MaxSweeps = 2
  MaxStored = 1
  MaxRedeploys = 1
  Missing = Missing
  Pending = Pending
  NoRow = NoRow
CHECK_DEADLOCK FALSE
INVARIANT TypeOK
INVARIANT RowsPassedTheGate
INVARIANT PublishIsWhole
INVARIANT SiteIsConsistent
INVARIANT SkippingIsPenalised
PROPERTY DeploysPublishedModels
PROPERTY GitFollowsTheSite

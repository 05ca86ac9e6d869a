SPECIFICATION ToolingSpec
CONSTANTS
  Dirs = {1, 2, 3}
  IdOf <- MCIdOf
  Versions = {"v1", "v2", "odd"}
  GoodMeta = {"v1", "v2"}
  Valid <- MCValid
  Cures <- MCCures
  NumShards = 2
  MaxEdits = 3
  MaxCommits = 1
  Absent = Absent
  Children = {c1, c2}
  Programs <- MCPrograms
  Lines = {1, 2, 3}
  Threshold <- MCThreshold
  Everything = Everything
  Tasks = 2
  MaxFiles = 4
  NoRecords = NoRecords
  GoldRows <- MCGoldRows
  GoldSets <- MCGoldSets
  Replies <- MCReplies
  Nothing = Nothing
  Keys <- MCKeys
  ProjectOf <- MCProjectOf
  None = None
CHECK_DEADLOCK FALSE
INVARIANT DatasetIsValid
INVARIANT GreenGateCoversTheCommit
INVARIANT PassingIsReported
INVARIANT TimedOutGroupIsGone
INVARIANT EveryPointIsProbedOnce
INVARIANT FailureSeparatesSeeds
INVARIANT CalibrationIsWhole
INVARIANT LinkIsCurrent
PROPERTY NodeEndsUnlessHeld

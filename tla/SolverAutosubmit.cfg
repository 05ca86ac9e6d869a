SPECIFICATION Spec
CONSTANTS
  base = base
  good = good
  breaks = breaks
  useless = useless
  loops = loops
  NoCode = NoCode
  Broken = Broken
  Base = base
  Edits <- MCEdits
  FixesF2P <- MCFixes
  KeepsP2P <- MCKeeps
  Hangs <- MCHangs
  Budgets <- MCBudgets
  MaxSteps = 3
  MaxEditCost = 2
  MaxCriticCost = 1
CHECK_DEADLOCK FALSE
INVARIANT AutosubmitReturnsBestDiff

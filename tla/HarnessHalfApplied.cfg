SPECIFICATION Spec
CONSTANTS
  src = src
  tst = tst
  old = old
  conf = conf
  bsrc = bsrc
  btst = btst
  bold = bold
  bconf = bconf
  ign = ign
  bign = bign
  f = f
  p = p
  Paths <- MCPaths
  Files <- MCFiles
  Unstripped <- MCUnstripped
  Bases <- MCBases
  TestFiles <- MCTestFiles
  Autoload <- MCAutoload
  IgnoreFiles <- MCIgnoreFiles
  Patches <- MCPatches
  F2P <- MCF2P
  P2P <- MCP2P
  FileOf <- MCFileOf
CHECK_DEADLOCK FALSE
INVARIANT NeverHalfApplied

SPECIFICATION FairSpec
CONSTANTS
  m1 = m1
  m2 = m2
  Blocks = {1, 2}
  Miners = {m1, m2}
  Part <- MCPart
  ConfirmationDepth = 2
  NoBlock = NoBlock
  NoMiner = NoMiner
  MaxReorgs = 1
  MaxRpcErrors = 1
  MaxDbFailures = 1
  MaxCrashes = 1
INVARIANT TypeOK
INVARIANT UnpaidHaveACause
INVARIANT OrphanedHasACause
PROPERTY SettlesBlocks
PROPERTY PendingIsSettled

SPECIFICATION Spec
CONSTANTS
  m1 = m1
  m2 = m2
  Blocks = {1}
  Miners = {m1, m2}
  Part <- MCPart
  ConfirmationDepth = 2
  NoBlock = NoBlock
  NoMiner = NoMiner
  MaxReorgs = 1
  MaxRpcErrors = 1
  MaxDbFailures = 0
  MaxCrashes = 0
SYMMETRY Symmetry
INVARIANT ConfirmedIsOwn

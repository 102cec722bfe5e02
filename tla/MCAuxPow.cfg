SPECIFICATION Spec
CONSTANTS
  ChainIds = {98, 63, 16, 50, 130}
  MaxChains = 3
  MaxTxs = 4
  MaxDepth = 5
  MaxNonce = 3
INVARIANT ProofsAreAccepted
INVARIANT RootsAgree

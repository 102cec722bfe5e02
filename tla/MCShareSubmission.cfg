SPECIFICATION Spec
CHECK_DEADLOCK FALSE
CONSTANTS
  c1 = c1
  c2 = c2
  k1 = k1
  ltc = ltc
  doge = doge
  Clients = {c1, c2}
  NoHold = NoHold
  Keys = {k1}
  MaxCached = 1
  Chains = {ltc, doge}
  Parent = ltc
  Quality <- MCQuality
  NetDifficulty <- MCNetDifficulty
  AuxBlock <- MCAuxBlock
  Difficulties = {2, 6}
  MaxBad = 2
  MaxJobs = 2
  MaxTrouble = 1
INVARIANT TypeOK
INVARIANT UntriedHasACause
INVARIANT UnrecordedHaveACause
 
 

SPECIFICATION FairSpec
CONSTANTS
  c1 = c1
  Clients = {c1}
  MaxCached = 2
  QueueCap = 2
  OutCap = 1
  MaxTip = 3
  MaxRpcErrors = 1
INVARIANT TypeOK
 
PROPERTY NewTipIsClean
PROPERTY MinersReachTheTip

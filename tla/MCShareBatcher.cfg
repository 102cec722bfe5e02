SPECIFICATION BatcherFairSpec
CHECK_DEADLOCK FALSE
CONSTANTS
  s1 = s1
  s2 = s2
  s3 = s3
  s4 = s4
  s5 = s5
  Shares = {s1, s2, s3, s4, s5}
  Connections = 1
  Capacity = 1
  BatchSize = 2
  MaxCrashes = 1
PROPERTY AnsweredIsSettled
INVARIANT BatcherTypeOK
INVARIANT RowsHaveACause
INVARIANT LossHasACause

SPECIFICATION VardiffFairSpec
CONSTANTS
  MinDiff <- MCMinDiff
  MaxDiff = 3
  Starts = {0}
  Ideals <- MCIdeals
  RetargetShares = 2
  OutboxSize = 2
  Other = Other
  Lucks = {0, 1}
  BurstGap = 4
  MaxSuggests = 1
INVARIANT VardiffTypeOK
INVARIANT ToldHasACause
PROPERTY SettlesOrPinned

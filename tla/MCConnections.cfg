SPECIFICATION FairSpec
CHECK_DEADLOCK FALSE
CONSTANTS
  c1 = c1
  c2 = c2
  c3 = c3
  c4 = c4
  home = home
  farm = farm
  Conns = {c1, c2, c3, c4}
  Addresses = {home, farm}
  IpOf <- MCIpOf
  Limit = 2
  Width = 3
INVARIANT TypeOK
INVARIANT NoLockout
INVARIANT UncountedHaveACause
PROPERTY AddressIsFreed

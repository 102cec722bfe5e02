SPECIFICATION Spec
CONSTANTS
  r1 = r1
  r2 = r2
  a1 = a1
  NoRequest = NoRequest
  Accounts = {a1}
  Requests = {r1, r2}
  Amounts <- MCAmounts
  MinWithdrawal = 2
  Fee = 1
  MaxCrashes = 0
  MaxDbFailures = 0
SYMMETRY Symmetry
INVARIANT SentAtMostOnce

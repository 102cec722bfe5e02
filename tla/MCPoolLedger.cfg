SPECIFICATION LedgerSpec
CONSTANTS
  r1 = r1
  alice = alice
  bob = bob
  NoRequest = NoRequest
  NoAccount = NoAccount
  Accounts = {alice, bob}
  Requests = {r1}
  Amounts = {6}
  MinWithdrawal = 6
  Fee = 1
  MaxCrashes = 1
  MaxDbFailures = 1
  Blocks = {1}
  Shares <- MCShares
  Window = 3
  Distributable = 13
  MaxReconciles = 1
CHECK_DEADLOCK FALSE
INVARIANT BooksAgree
PROPERTY ReconcileRepairs
PROPERTY WindowIsShortest

SPECIFICATION FairSpec
CONSTANTS
  r1 = r1
  r2 = r2
  a1 = a1
  NoRequest = NoRequest
  Accounts = {a1}
  Requests = {r1, r2}
  Amounts = {1, 2}
  MinWithdrawal = 2
  Fee = 1
  MaxCrashes = 1
  MaxDbFailures = 2
INVARIANT TypeOK
INVARIANT DebitOnlyAfterSend
INVARIANT CompletedWasSent
INVARIANT ResendsHaveACause
INVARIANT FailedAnswerIsTrue
PROPERTY PendingIsSettled

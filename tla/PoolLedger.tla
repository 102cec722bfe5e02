----------------------------- MODULE PoolLedger -----------------------------
(***************************************************************************)
(* The balances table with all of its writers: the withdrawals (module     *)
(* Withdrawals), the PPLNS distribution of a confirmed block               *)
(* (jobs/payments.rs, read together with the query of db.rs), and the      *)
(* admin's reconciliation (api/admin.rs), which sets every balance to its  *)
(* earnings minus its completed withdrawals.                               *)
(*                                                                         *)
(* One coin: an account is a miner.  The reconciliation is one UPDATE at   *)
(* PostgreSQL's default isolation: the sums are of the moment it starts,   *)
(* the rows are written when it commits, over whatever others have         *)
(* committed in between; only rows that differed at the start are written. *)
(* BlockTracker says when a distribution starts; here any block may be     *)
(* confirmed at any time, once.  Amounts are whole numbers: a division      *)
(* leaves the rest with the pool.                                          *)
(***************************************************************************)
EXTENDS Withdrawals, Integers, Sequences, Functions

CONSTANTS
  Blocks,         \* the blocks of a behaviour
  NoAccount,      \* "no miner in hand"
  Shares,         \* the shares the miners find, in order: account, difficulty
  Window,         \* pplns_window
  Distributable,  \* the reward of a block less the pool's fee
  MaxReconciles   \* bound: POST /api/admin/reconcile-balances

ASSUME LedgerAssumption ==
  /\ NoAccount \notin Accounts
  /\ Shares \in Seq([account : Accounts, difficulty : Nat \ {0}])
  /\ Window \in Nat \ {0} /\ Distributable \in Nat \ {0}
  /\ MaxReconciles \in Nat

VARIABLES
  stored,      \* table shares: the first `stored` of Shares
  confirmed,   \* blocks whose distribution has been started
  earned,      \* table earnings: the sum of an account's rows
  place,       \* where the distribution is
  part,        \* what the block in hand pays each account
  payees,      \* accounts it has not paid yet
  paying,      \* the account credited, whose earning is not recorded yet
  corrections, \* the reconciliation under way: the balances it will write
  reconciling, \* it is under way
  reconciles,  \* reconciliations started
  busySince,   \* history: accounts somebody worked on since it started
  raced        \* history: accounts it wrote although somebody did

distributionVars == <<stored, confirmed, place, part, payees, paying>>
reconcileVars == <<corrections, reconciling, reconciles>>
ledgerVars == <<distributionVars, earned, reconcileVars, busySince, raced>>

Zero == [a \in Accounts |-> 0]

LedgerInit ==
  /\ Init
  /\ stored = 0 /\ confirmed = {} /\ earned = opening
  /\ place = "idle" /\ part = Zero /\ payees = {} /\ paying = NoAccount
  /\ corrections = <<>> /\ reconciling = FALSE /\ reconciles = 0
  /\ busySince = {} /\ raced = {}

-----------------------------------------------------------------------------
(* The window of get_pplns_shares and the parts of distribute_pplns.       *)

\* Mutant: one more share after the window is full.
MutFull(sum) == sum > Window

Full(sum) == sum >= Window

DifficultyOf(rows) ==
  SumFunctionOnSet([i \in DOMAIN Shares |-> Shares[i].difficulty], rows)

\* The query's loop, newest share first: the next row is taken unless the total
\* of those before it fills the window.
Newest(n) == stored - n + 1 .. stored
Taken ==
  LET loop[n \in 0 .. stored] ==
        IF n = stored \/ Full(DifficultyOf(Newest(n))) THEN n ELSE loop[n + 1]
  IN  loop[0]

\* The shares of the window, their difficulty per account, the block's parts.
PplnsShares == Newest(Taken)
MinerDiff(a) == DifficultyOf({i \in PplnsShares : Shares[i].account = a})
Part == [a \in Accounts |->
           (Distributable * MinerDiff(a)) \div DifficultyOf(PplnsShares)]

-----------------------------------------------------------------------------
(* distribute_pplns.  It shares balances, database and faults with the     *)
(* withdrawals and nothing else.                                           *)

KeepWithdrawals == UNCHANGED <<inputVars, rowVars, handlerVars, procVars, debits,
                               inserted, sent, overlapped, crashes>>
KeepTables == UNCHANGED <<stored, confirmed>>
KeepReconcile == UNCHANGED reconcileVars

NewShare ==
  /\ stored < Len(Shares)
  /\ stored' = stored + 1
  /\ KeepWithdrawals /\ KeepReconcile
  /\ UNCHANGED <<confirmed, place, part, payees, paying, earned, balance, dbFailures>>

\* confirm_block, and the call of distribute_pplns that follows it.
Confirm(b) ==
  /\ place = "idle" /\ b \notin confirmed
  /\ confirmed' = confirmed \cup {b} /\ place' = "shares"
  /\ KeepWithdrawals /\ KeepReconcile
  /\ UNCHANGED <<stored, part, payees, paying, earned, balance, dbFailures>>

Finish == place' = "idle" /\ part' = Zero /\ payees' = {} /\ paying' = NoAccount

\* An error ends the distribution; the tracker logs it.
GiveUp == DbFails /\ Finish /\ UNCHANGED <<balance, earned>>

ReadWindow ==
  /\ place = "shares"
  /\ \/ stored = 0 /\ Finish /\ UNCHANGED <<balance, earned, dbFailures>>
     \/ /\ stored > 0
        /\ part' = Part
        /\ payees' = {a \in Accounts : MinerDiff(a) > 0}
        /\ place' = "credit"
        /\ UNCHANGED <<paying, balance, earned, dbFailures>>
     \/ GiveUp
  /\ KeepTables /\ KeepWithdrawals /\ KeepReconcile

\* Mutant: the balances are credited, the earnings left out.
MutCreditBalance(a) ==
  /\ place = "credit" /\ a \in payees
  /\ balance' = [balance EXCEPT ![a] = @ + part[a]]
  /\ payees' = payees \ {a}
  /\ place' = IF payees' = {} THEN "idle" ELSE "credit"
  /\ UNCHANGED <<paying, part, earned, dbFailures>>
  /\ KeepTables /\ KeepWithdrawals /\ KeepReconcile

\* credit_balance for the next account of the map, in any order.
CreditBalance(a) ==
  /\ place = "credit" /\ a \in payees
  /\ \/ /\ balance' = [balance EXCEPT ![a] = @ + part[a]]
        /\ paying' = a /\ place' = "earn"
        /\ UNCHANGED <<part, payees, earned, dbFailures>>
     \/ GiveUp
  /\ KeepTables /\ KeepWithdrawals /\ KeepReconcile

\* insert_earning for the account just credited.
InsertEarning ==
  /\ place = "earn"
  /\ \/ /\ earned' = [earned EXCEPT ![paying] = @ + part[paying]]
        /\ IF payees = {paying}
             THEN Finish
             ELSE /\ payees' = payees \ {paying} /\ place' = "credit"
                  /\ paying' = NoAccount /\ UNCHANGED part
        /\ UNCHANGED <<balance, dbFailures>>
     \/ GiveUp
  /\ KeepTables /\ KeepWithdrawals /\ KeepReconcile

Distribution == \/ \E b \in Blocks : Confirm(b)
                \/ ReadWindow \/ InsertEarning
                \/ \E a \in Accounts : CreditBalance(a)

-----------------------------------------------------------------------------
(* reconcile_balances.                                                     *)

KeepAllElse == /\ KeepWithdrawals
               /\ UNCHANGED <<distributionVars, earned>>

Withdrawn(a) ==
  SumFunctionOnSet([r \in Requests |-> want[r].amount],
                   {r \in Requests : want[r].account = a /\ status[r] = "completed"})

CorrectAmount(a) == earned[a] - Withdrawn(a)

\* Mutant: the completed withdrawals are not taken off.
MutReconcileStart ==
  /\ ~reconciling /\ reconciles < MaxReconciles
  /\ reconciling' = TRUE /\ reconciles' = reconciles + 1
  /\ corrections' = [a \in {b \in Accounts : earned[b] > 0 /\ balance[b] # earned[b]}
                       |-> earned[a]]
  /\ KeepAllElse /\ UNCHANGED <<balance, dbFailures>>

\* Only accounts with a row in earnings are looked at, and of those only the
\* ones whose balance differs.
ReconcileStart ==
  /\ ~reconciling /\ reconciles < MaxReconciles
  /\ reconciling' = TRUE /\ reconciles' = reconciles + 1
  /\ corrections' = [a \in {b \in Accounts : earned[b] > 0 /\ balance[b] # CorrectAmount(b)}
                       |-> CorrectAmount(a)]
  /\ KeepAllElse /\ UNCHANGED <<balance, dbFailures>>

ReconcileEnd == reconciling' = FALSE /\ corrections' = <<>> /\ UNCHANGED reconciles

ReconcileCommit ==
  /\ reconciling
  /\ balance' = [a \in Accounts |-> IF a \in DOMAIN corrections
                                      THEN corrections[a] ELSE balance[a]]
  /\ ReconcileEnd
  /\ KeepAllElse /\ UNCHANGED dbFailures

ReconcileFails ==
  /\ reconciling /\ DbFails /\ ReconcileEnd
  /\ KeepAllElse /\ UNCHANGED balance

Reconciliation == ReconcileStart \/ ReconcileCommit \/ ReconcileFails

-----------------------------------------------------------------------------
(* The composition.                                                        *)

\* Somebody is between two writes to the books of account a, or about to say
\* that a withdrawal of it failed.
Busy(a) ==
  \/ paying = a
  \/ \E r \in Requests :
       /\ want[r].account = a
       /\ \/ pc[r] \in {"complete", "fail"}
          \/ current = r /\ proc \in {"complete", "fail"}

\* The histories follow from any step.
Watch ==
  /\ busySince' = IF reconciling'
                    THEN {a \in Accounts : Busy(a)' \/ (reconciling /\ a \in busySince)}
                    ELSE {}
  /\ raced' = IF ReconcileCommit THEN raced \cup (busySince \cap DOMAIN corrections)
                                 ELSE raced

Withdrawing == /\ (\E r \in Requests : Handler(r)) \/ Processor
               /\ UNCHANGED <<distributionVars, earned>> /\ KeepReconcile

\* The process dies in the middle of everything; a reconciliation already in
\* the database may still commit.
PoolCrash == /\ Crash /\ Finish
             /\ UNCHANGED <<earned, stored, confirmed>> /\ KeepReconcile

LedgerNext == /\ Withdrawing \/ NewShare \/ Distribution \/ Reconciliation \/ PoolCrash
              /\ Watch

allVars == <<vars, ledgerVars>>
LedgerSpec == LedgerInit /\ [][LedgerNext]_allVars

-----------------------------------------------------------------------------
(* Properties.                                                             *)

\* Whenever nobody is in the middle of an account's books, its balance is what
\* it earned minus what it was completed (admin.rs:942), unless a fault, a row
\* worked on by handler and processor at once, a completion without a debit,
\* or a reconciliation that raced with another writer can be named.
BooksAgree ==
  \A a \in Accounts :
    ~Busy(a) /\ balance[a] # CorrectAmount(a) =>
      \/ crashes + dbFailures > 0
      \/ a \in raced
      \/ \E r \in Requests :
           /\ want[r].account = a
           /\ overlapped[r] = 1 \/ (status[r] = "completed" /\ debits[r] = 0)

\* A reconciliation repairs the books of every account with earnings that
\* nobody worked on while it ran, whatever had happened before.
ReconcileRepairs ==
  [][ReconcileCommit =>
       \A a \in Accounts \ busySince :
         earned[a] > 0 => balance'[a] = CorrectAmount(a)]_allVars

\* "Returns the last `window_size` shares (by total difficulty sum)"
\* (db.rs:456): a block is divided in proportion, down to the last whole unit,
\* among the fewest newest shares that fill the window, or all there are, and
\* never more than the block brought is handed out.
WindowIsShortest ==
  [][part' # part /\ part' # Zero =>
       \E k \in 1 .. stored :
         LET sum(n) == DifficultyOf(Newest(n))
             due(a) == Distributable * DifficultyOf(
                         {i \in Newest(k) : Shares[i].account = a})
         IN  /\ sum(k) >= Window \/ k = stored
             /\ \A n \in 1 .. k - 1 : sum(n) < Window
             /\ SumFunctionOnSet(part', payees') <= Distributable
             /\ \A a \in Accounts :
                  part'[a] * sum(k) \in due(a) - sum(k) + 1 .. due(a)]_allVars
=============================================================================

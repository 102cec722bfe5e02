---------------------------- MODULE Withdrawals ----------------------------
(***************************************************************************)
(* Paying miners out.  Two kinds of process write the same tables:         *)
(*   - one HTTP handler per POST /api/withdraw (api/withdraw.rs), which    *)
(*     checks, records, sends, debits and completes, with an await between *)
(*     any two of these;                                                   *)
(*   - the withdrawal processor (jobs/payments.rs), one task that every    *)
(*     30 s reads the pending rows and then walks through that snapshot.   *)
(* The coin daemon is external: a send may succeed, fail, or broadcast the *)
(* transaction and lose the answer (the RPC client gives up after 30 s).   *)
(* A request r creates at most one row of the withdrawals table, so the    *)
(* row is named by the request.  An account is a (miner, coin) pair.       *)
(***************************************************************************)
EXTENDS Naturals, FiniteSetsExt

CONSTANTS
  Accounts,       \* the (miner, coin) pairs of the balances table
  Requests,       \* the POST /api/withdraw calls of a behaviour
  NoRequest,      \* "the processor is working on no row"
  Amounts,        \* amounts a request may ask for, and initial balances
  MinWithdrawal,  \* min_withdrawal of the coin, in the unit of Amounts
  Fee,            \* withdrawal_fee of the coin
  MaxCrashes,     \* bound: crashes of the pool process
  MaxDbFailures   \* bound: failing database statements

ASSUME ConstantsAssumption ==
  /\ NoRequest \notin Requests
  /\ Amounts \subseteq Nat
  /\ MinWithdrawal \in Nat /\ Fee \in Nat
  /\ MaxCrashes \in Nat /\ MaxDbFailures \in Nat

VARIABLES
  want,       \* the body of each request: account and amount
  balance,    \* table balances
  status,     \* table withdrawals: the status column
  createdAt,  \* table withdrawals: created_at, as the number of the insert
  pc,         \* where each handler is
  reply,      \* what each handler answered
  proc,       \* where the processor is: "sleep", "pass", "send", ...
  todo,       \* rows of the processor's snapshot it has not reached yet
  current,    \* the row the processor is working on
  inserted,   \* rows inserted so far
  sent,       \* history: transactions the daemon broadcast for each row
  debits,     \* history: times the balance was debited for each row
  overlapped, \* history: the processor's snapshot caught a row whose handler ran
  opening,    \* history: the balances at the start
  crashes,    \* history: crashes so far
  dbFailures  \* history: failed statements so far

handlerVars == <<pc, reply>>
procVars    == <<proc, todo, current>>
rowVars     == <<status, createdAt>>
paidVars    == <<balance, debits>>
inputVars   == <<want, opening>>
vars == <<want, balance, status, createdAt, pc, reply, proc, todo, current,
          inserted, sent, debits, overlapped, opening, crashes, dbFailures>>

Statuses == {"absent", "pending", "completed", "failed"}
HandlerPlaces == {"idle", "rate", "balance", "address", "create",
                  "send", "debit", "complete", "fail", "done"}
ProcPlaces == {"sleep", "pass", "send", "debit", "complete", "fail"}
Replies == {"none", "refused", "sent", "failed"}

\* A handler that has inserted its row and not yet returned.
Working == {"send", "debit", "complete", "fail"}

TypeOK ==
  /\ want \in [Requests -> [account : Accounts, amount : Amounts]]
  /\ balance \in [Accounts -> Nat]
  /\ opening \in [Accounts -> Nat]
  /\ status \in [Requests -> Statuses]
  /\ createdAt \in [Requests -> Nat]
  /\ pc \in [Requests -> HandlerPlaces]
  /\ reply \in [Requests -> Replies]
  /\ proc \in ProcPlaces
  /\ todo \subseteq Requests
  /\ current \in Requests \cup {NoRequest}
  /\ sent \in [Requests -> Nat]
  /\ debits \in [Requests -> Nat]
  /\ overlapped \in [Requests -> {0, 1}]
  /\ inserted \in Nat /\ crashes \in Nat /\ dbFailures \in Nat

Init ==
  /\ want \in [Requests -> [account : Accounts, amount : Amounts]]
  /\ balance \in [Accounts -> Amounts]
  /\ opening = balance
  /\ status = [r \in Requests |-> "absent"]
  /\ createdAt = [r \in Requests |-> 0]
  /\ pc = [r \in Requests |-> "idle"]
  /\ reply = [r \in Requests |-> "none"]
  /\ proc = "sleep" /\ todo = {} /\ current = NoRequest
  /\ sent = [r \in Requests |-> 0]
  /\ debits = [r \in Requests |-> 0]
  /\ overlapped = [r \in Requests |-> 0]
  /\ inserted = 0 /\ crashes = 0 /\ dbFailures = 0

-----------------------------------------------------------------------------
(* Statements of db.rs.                                                    *)

\* The query of has_recent_withdrawal: a pending or completed row of the
\* account younger than `hours` hours.  A behaviour stands for less than an
\* hour: every row is younger than one hour and none younger than 0 hours.
HasRecentWithdrawal(account, hours) ==
  /\ hours > 0
  /\ \E q \in Requests : /\ want[q].account = account
                         /\ status[q] \in {"pending", "completed"}

PendingWithdrawals == {r \in Requests : status[r] = "pending"}

\* Mutant: the UPDATE without its "AND amount >= $3".
MutCanDebit(r) == TRUE

\* One UPDATE statement: no row is changed when the balance is too small.
CanDebit(r) == balance[want[r].account] >= want[r].amount

Debit(r) ==
  /\ CanDebit(r)
  /\ balance' = [balance EXCEPT ![want[r].account] = @ - want[r].amount]
  /\ debits' = [debits EXCEPT ![r] = @ + 1]

\* UPDATE withdrawals SET status WHERE id: whatever the status was.
SetStatus(r, s) == status' = [status EXCEPT ![r] = s]

\* A statement fails: the database is unreachable, nothing is changed.
DbFails == /\ dbFailures < MaxDbFailures
           /\ dbFailures' = dbFailures + 1

(* What the daemon makes of one sendtoaddress call: the transactions it    *)
(* broadcast, and whether the caller sees Ok.                              *)
SendOutcomes == {[txs |-> 1, ok |-> TRUE],    \* sent
                 [txs |-> 0, ok |-> FALSE],   \* refused or unreachable
                 [txs |-> 1, ok |-> FALSE]}   \* sent, answer lost or late

-----------------------------------------------------------------------------
(* The handler of POST /api/withdraw.                                      *)

Goto(r, place) == pc' = [pc EXCEPT ![r] = place]

Answer(r, what) == /\ Goto(r, "done")
                   /\ reply' = [reply EXCEPT ![r] = what]

NothingWritten == UNCHANGED <<rowVars, paidVars, sent, overlapped>>
NoFault == UNCHANGED <<crashes, dbFailures>>
Quiet == UNCHANGED <<procVars, inputVars, inserted>>

\* The request arrives; the minimum is the only input check that depends on
\* what is modelled (the coin and the miner's length are refused likewise).
Receive(r) ==
  /\ pc[r] = "idle"
  /\ \/ want[r].amount < MinWithdrawal /\ Answer(r, "refused")
     \/ want[r].amount >= MinWithdrawal /\ Goto(r, "rate") /\ UNCHANGED reply
  /\ NothingWritten /\ NoFault /\ Quiet

\* The hours the handler passes to has_recent_withdrawal.
RateLimitHours == 0

CheckRate(r) ==
  /\ pc[r] = "rate"
  /\ IF HasRecentWithdrawal(want[r].account, RateLimitHours)
       THEN Answer(r, "refused")
       ELSE Goto(r, "balance") /\ UNCHANGED reply
  /\ NothingWritten /\ NoFault /\ Quiet

\* The balance is read here and never looked at again by the handler.
CheckBalance(r) ==
  /\ pc[r] = "balance"
  /\ IF balance[want[r].account] < want[r].amount \/ want[r].amount <= Fee
       THEN Answer(r, "refused")
       ELSE Goto(r, "address") /\ UNCHANGED reply
  /\ NothingWritten /\ NoFault /\ Quiet

\* The payout address is looked up and the daemon asked whether it is valid;
\* no address, an invalid one and an unreachable daemon all refuse.
CheckAddress(r) ==
  /\ pc[r] = "address"
  /\ \/ Answer(r, "refused")
     \/ Goto(r, "create") /\ UNCHANGED reply
  /\ NothingWritten /\ NoFault /\ Quiet

\* Each of the four statements before the send refuses when it fails.
QueryFails(r) ==
  /\ pc[r] \in {"rate", "balance", "address", "create"}
  /\ DbFails
  /\ Answer(r, "refused")
  /\ NothingWritten /\ Quiet /\ UNCHANGED crashes

CreateRow(r) ==
  /\ pc[r] = "create"
  /\ SetStatus(r, "pending")
  /\ inserted' = inserted + 1
  /\ createdAt' = [createdAt EXCEPT ![r] = inserted']
  /\ Goto(r, "send")
  /\ NoFault
  /\ UNCHANGED <<reply, paidVars, sent, overlapped, procVars, inputVars>>

\* Mutant: the balance is debited whatever the daemon answered.
MutSendAlwaysDebits(r) ==
  /\ pc[r] = "send"
  /\ \E out \in SendOutcomes : sent' = [sent EXCEPT ![r] = @ + out.txs]
  /\ Goto(r, "debit")
  /\ NoFault /\ Quiet
  /\ UNCHANGED <<reply, rowVars, paidVars, overlapped>>

\* Mutant: a failed send is completed without a debit.
MutSendCompletes(r) ==
  /\ pc[r] = "send"
  /\ \E out \in SendOutcomes :
       /\ sent' = [sent EXCEPT ![r] = @ + out.txs]
       /\ Goto(r, IF out.ok THEN "debit" ELSE "complete")
  /\ NoFault /\ Quiet
  /\ UNCHANGED <<reply, rowVars, paidVars, overlapped>>

Send(r) ==
  /\ pc[r] = "send"
  /\ \E out \in SendOutcomes :
       /\ sent' = [sent EXCEPT ![r] = @ + out.txs]
       /\ Goto(r, IF out.ok THEN "debit" ELSE "fail")
  /\ NoFault /\ Quiet
  /\ UNCHANGED <<reply, rowVars, paidVars, overlapped>>

\* A debit that fails, for lack of balance or of a database, is only logged.
DebitAfterSend(r) ==
  /\ pc[r] = "debit"
  /\ Goto(r, "complete")
  /\ \/ Debit(r) /\ NoFault
     \/ ~CanDebit(r) /\ NoFault /\ UNCHANGED paidVars
     \/ DbFails /\ UNCHANGED <<paidVars, crashes>>
  /\ Quiet
  /\ UNCHANGED <<reply, rowVars, sent, overlapped>>

\* Completing and failing: a failed statement is only logged as well, and the
\* answer to the miner is the same.
Complete(r) ==
  /\ pc[r] = "complete"
  /\ Answer(r, "sent")
  /\ \/ SetStatus(r, "completed") /\ NoFault
     \/ DbFails /\ UNCHANGED <<status, crashes>>
  /\ Quiet
  /\ UNCHANGED <<createdAt, paidVars, sent, overlapped>>

\* Mutant: the miner is told, and the row left pending.
MutFail(r) ==
  /\ pc[r] = "fail"
  /\ Answer(r, "failed")
  /\ NothingWritten /\ NoFault /\ Quiet

Fail(r) ==
  /\ pc[r] = "fail"
  /\ Answer(r, "failed")
  /\ \/ SetStatus(r, "failed") /\ NoFault
     \/ DbFails /\ UNCHANGED <<status, crashes>>
  /\ Quiet
  /\ UNCHANGED <<createdAt, paidVars, sent, overlapped>>

-----------------------------------------------------------------------------
(* The withdrawal processor: process_withdrawals, run by every tick.       *)

ProcGoto(place, row) == proc' = place /\ current' = row

\* A tick: the snapshot of the pending rows.  With none, the pass is over.
ProcTick ==
  /\ proc = "sleep"
  /\ todo' = PendingWithdrawals
  /\ proc' = IF todo' = {} THEN "sleep" ELSE "pass"
  /\ overlapped' = [r \in Requests |->
                      IF r \in todo' /\ pc[r] \in Working
                        THEN 1 ELSE overlapped[r]]
  /\ NoFault
  /\ UNCHANGED <<current, handlerVars, rowVars, paidVars, sent, inputVars, inserted>>

\* Mutant: a row whose address is refused is skipped, not failed.
MutProcNextSkips(r) ==
  /\ proc = "pass"
  /\ r \in todo
  /\ \A q \in todo : createdAt[r] <= createdAt[q]
  /\ todo' = todo \ {r}
  /\ \/ want[r].amount > Fee /\ ProcGoto("send", r)
     \/ UNCHANGED <<proc, current>>
  /\ NothingWritten /\ NoFault
  /\ UNCHANGED <<handlerVars, inputVars, inserted>>

\* The next row of the snapshot, oldest first; its address is validated again.
ProcNext(r) ==
  /\ proc = "pass"
  /\ r \in todo
  /\ \A q \in todo : createdAt[r] <= createdAt[q]
  /\ todo' = todo \ {r}
  /\ \/ want[r].amount > Fee /\ ProcGoto("send", r)
     \/ ProcGoto("fail", r)
  /\ NothingWritten /\ NoFault
  /\ UNCHANGED <<handlerVars, inputVars, inserted>>

ProcEndPass ==
  /\ proc = "pass"
  /\ todo = {}
  /\ proc' = "sleep"
  /\ NothingWritten /\ NoFault
  /\ UNCHANGED <<todo, current, handlerVars, inputVars, inserted>>

ProcSend ==
  /\ proc = "send"
  /\ \E out \in SendOutcomes :
       /\ sent' = [sent EXCEPT ![current] = @ + out.txs]
       /\ proc' = IF out.ok THEN "debit" ELSE "fail"
  /\ NoFault
  /\ UNCHANGED <<todo, current, handlerVars, rowVars, paidVars, overlapped,
                 inputVars, inserted>>

ProcDebit ==
  /\ proc = "debit"
  /\ proc' = "complete"
  /\ \/ Debit(current) /\ NoFault
     \/ ~CanDebit(current) /\ NoFault /\ UNCHANGED paidVars
     \/ DbFails /\ UNCHANGED <<paidVars, crashes>>
  /\ UNCHANGED <<todo, current, handlerVars, rowVars, sent, overlapped,
                 inputVars, inserted>>

\* A failing statement here ends the whole pass: the rest of the snapshot
\* waits for the next tick.
ProcSettle(place, s) ==
  /\ proc = place
  /\ \/ /\ SetStatus(current, s)
        /\ ProcGoto("pass", NoRequest)
        /\ NoFault
        /\ UNCHANGED todo
     \/ /\ DbFails
        /\ ProcGoto("sleep", NoRequest)
        /\ todo' = {}
        /\ UNCHANGED <<status, crashes>>
  /\ UNCHANGED <<createdAt, handlerVars, paidVars, sent, overlapped,
                 inputVars, inserted>>

\* Mutant: a completed send leaves its row pending.
MutProcComplete == ProcSettle("complete", "pending")

ProcComplete == ProcSettle("complete", "completed")

ProcFail == ProcSettle("fail", "failed")

-----------------------------------------------------------------------------
\* The pool process dies and restarts: every handler is gone, without an
\* answer, and the processor starts over.  The tables are what is left.
Crash ==
  /\ crashes < MaxCrashes
  /\ crashes' = crashes + 1
  /\ pc' = [r \in Requests |-> IF pc[r] = "idle" THEN "idle" ELSE "done"]
  /\ proc' = "sleep" /\ todo' = {} /\ current' = NoRequest
  /\ NothingWritten
  /\ UNCHANGED <<reply, inputVars, inserted, dbFailures>>

Handler(r) ==
  \/ Receive(r) \/ CheckRate(r) \/ CheckBalance(r) \/ CheckAddress(r)
  \/ QueryFails(r) \/ CreateRow(r) \/ Send(r) \/ DebitAfterSend(r)
  \/ Complete(r) \/ Fail(r)

Processor ==
  \/ ProcTick \/ ProcEndPass \/ ProcSend \/ ProcDebit
  \/ ProcComplete \/ ProcFail
  \/ \E r \in Requests : ProcNext(r)

Next == (\E r \in Requests : Handler(r)) \/ Processor \/ Crash

Spec == Init /\ [][Next]_vars

\* The runtime polls every ready task: the processor and a handler that has
\* started go on.  Nothing makes a miner send a request.
Fairness == /\ WF_vars(Processor)
            /\ \A r \in Requests : WF_vars(pc[r] # "idle" /\ Handler(r))

FairSpec == Spec /\ Fairness

-----------------------------------------------------------------------------
(* Properties.                                                             *)

\* "balance is only deducted AFTER a successful send" (payments.rs:114), for
\* a handler and the processor working on the same row across crashes: never
\* more debits for a row than transactions broadcast for it.
DebitOnlyAfterSend == \A r \in Requests : debits[r] <= sent[r]

\* A row that says completed stands for a transaction on the chain, whichever
\* of the two processes wrote it and whatever crashed in between.
CompletedWasSent ==
  \A r \in Requests : status[r] = "completed" => sent[r] >= 1

\* A row is sent twice only if the processor's snapshot caught it while its
\* handler was running, or once more per crash or failed statement.
ResendsHaveACause ==
  \A r \in Requests : sent[r] <= 1 + overlapped[r] + crashes + dbFailures

\* "Withdrawal failed ... Your balance has NOT been deducted."
\* (withdraw.rs:436): a miner who reads that was debited only by a pass that
\* overlapped its handler, or one that found the row still pending because the
\* statement failing it had failed.
FailedAnswerIsTrue ==
  \A r \in Requests :
    reply[r] = "failed" /\ debits[r] > 0 => overlapped[r] = 1 \/ dbFailures > 0

\* The safety net (payments.rs:90-93): every row left pending, by a crash or
\* by a failed statement, is eventually completed or failed.
PendingIsSettled ==
  \A r \in Requests :
    status[r] = "pending" ~> status[r] \in {"completed", "failed"}

-----------------------------------------------------------------------------
(* What the documentation says and the code does not do.                   *)

\* payments.rs:92-93, the processor is a net for withdrawals "created but not
\* yet processed": it does not send what was sent already.
SentAtMostOnce == \A r \in Requests : sent[r] <= 1

=============================================================================

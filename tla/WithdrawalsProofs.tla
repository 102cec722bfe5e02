------------------------- MODULE WithdrawalsProofs -------------------------
(***************************************************************************)
(* What holds of Withdrawals for any accounts, requests, amounts, and any  *)
(* number of crashes and failed statements.                                *)
(***************************************************************************)
EXTENDS Withdrawals, FiniteSetTheorems, TLAPS

Bit(b) == IF b THEN 1 ELSE 0

\* TypeOK without the balances, which others write as well.
Typed ==
  /\ want \in [Requests -> [account : Accounts, amount : Amounts]]
  /\ status \in [Requests -> Statuses]
  /\ createdAt \in [Requests -> Nat]
  /\ pc \in [Requests -> HandlerPlaces]
  /\ reply \in [Requests -> Replies]
  /\ proc \in ProcPlaces
  /\ todo \subseteq Requests
  /\ current \in Requests \cup {NoRequest}
  /\ sent \in [Requests -> Nat]
  /\ debits \in [Requests -> Nat]
  /\ overlapped \in [Requests -> {0, 1}]
  /\ inserted \in Nat /\ crashes \in Nat /\ dbFailures \in Nat

\* The processor works on row r.
ProcAt(r, places) == current = r /\ proc \in places
Early == {"idle", "rate", "balance", "address", "create"}

\* A row under work has a name, and a handler that has not reached the insert
\* has no row for the processor to see.
Shape ==
  /\ proc \in {"send", "debit", "complete", "fail"} => current \in Requests \ todo
  /\ \A r \in Requests :
       pc[r] \in Early => /\ status[r] = "absent" /\ overlapped[r] = 0
                         /\ r \notin todo
                         /\ ~ProcAt(r, {"send", "debit", "complete", "fail"})

\* Every send that was answered Ok and not debited yet is one of the two
\* processes standing before its debit.
DebitsBacked ==
  \A r \in Requests :
    debits[r] + Bit(pc[r] = "debit") + Bit(ProcAt(r, {"debit"})) <= sent[r]

\* "completed" is written only by a process whose send was answered Ok.
CompletedBacked ==
  \A r \in Requests :
    \/ status[r] = "completed"
    \/ pc[r] \in {"debit", "complete"}
    \/ ProcAt(r, {"debit", "complete"})
    => sent[r] >= 1

\* The sends of row r still to come if nothing else fails: the handler's own,
\* the one of the running pass, and the one of the next pass.
HandlerWillSend(r) == Bit(pc[r] \in Early \cup {"send"})
PassWillSend(r) == Bit(r \in todo \/ ProcAt(r, {"send"}))
NextPassWillSend(r) ==
  Bit(/\ status[r] = "pending"
      /\ pc[r] = "done" \/ (pc[r] \in Working /\ overlapped[r] = 1)
      /\ r \notin todo
      /\ ~ProcAt(r, {"send", "debit", "complete", "fail"}))

\* Sends done and still to come are paid for by the request itself, by the
\* overlap with a pass, and by the faults.
SendsBudget ==
  \A r \in Requests :
    sent[r] + HandlerWillSend(r) + PassWillSend(r) + NextPassWillSend(r)
      <= 1 + overlapped[r] + crashes + dbFailures

ProcHas(r) == r \in todo \/ ProcAt(r, {"send", "debit", "complete", "fail"})

\* Without an overlap the processor keeps off a row whose handler is at work.
OverlapMarked ==
  \A r \in Requests : pc[r] \in Working /\ ProcHas(r) => overlapped[r] = 1

\* Nothing is debited before the handler's send; without an overlap and a
\* failed statement a row whose handler answered "failed" is failed, free of
\* debits and out of the processor's hands.
Undisturbed(r) == overlapped[r] = 0 /\ dbFailures = 0

FailuresClean ==
  \A r \in Requests :
    /\ pc[r] \in Early => debits[r] = 0
    /\ Undisturbed(r) =>
         /\ pc[r] \in {"send", "fail"} => debits[r] = 0
         /\ reply[r] = "failed" =>
              /\ pc[r] = "done" /\ status[r] = "failed" /\ debits[r] = 0
              /\ ~ProcHas(r)

RowsInv == /\ Typed /\ Shape /\ DebitsBacked /\ CompletedBacked /\ SendsBudget
           /\ OverlapMarked /\ FailuresClean

IInv == TypeOK /\ RowsInv

-----------------------------------------------------------------------------
\* The initial tables and processes satisfy the inductive invariant.
LEMMA InitIInv == Init => IInv
<1> SUFFICES ASSUME Init PROVE IInv
  OBVIOUS
<1>1. TypeOK
  <2>1. balance \in [Accounts -> Nat]
    BY ConstantsAssumption DEF Init
  <2> QED BY <2>1 DEF Init, TypeOK, Statuses, HandlerPlaces, ProcPlaces, Replies
<1>2. Shape
  BY DEF Init, Shape, Early, ProcAt
<1>3. DebitsBacked
  BY DEF Init, DebitsBacked, Bit, ProcAt
<1>4. CompletedBacked
  BY DEF Init, CompletedBacked, ProcAt
<1>5. SendsBudget
  BY DEF Init, SendsBudget, Bit, ProcAt, HandlerWillSend, PassWillSend,
         NextPassWillSend, Working
<1>6. OverlapMarked
  BY DEF Init, OverlapMarked, Working
<1>7. FailuresClean
  BY DEF Init, FailuresClean
<1>8. Typed
  BY <1>1 DEF Typed, TypeOK
<1> QED BY <1>1, <1>2, <1>3, <1>4, <1>5, <1>6, <1>7, <1>8 DEF IInv, RowsInv

\* A debit, or none, leaves balances natural: the guard of the UPDATE statement
\* is what keeps the balance from going below zero.
LEMMA DebitTypes ==
  ASSUME TypeOK, NEW r \in Requests, UNCHANGED paidVars \/ Debit(r)
  PROVE  balance' \in [Accounts -> Nat]
<1>1. CASE UNCHANGED paidVars
  BY <1>1 DEF TypeOK, paidVars
<1>2. CASE Debit(r)
  <2>1. want[r].account \in Accounts /\ want[r].amount \in Nat
    BY ConstantsAssumption DEF TypeOK
  <2>2. balance[want[r].account] - want[r].amount \in Nat
    BY <1>2, <2>1 DEF TypeOK, Debit, CanDebit
  <2> QED BY <1>2, <2>1, <2>2 DEF TypeOK, Debit
<1> QED BY <1>1, <1>2

\* Only the two debits touch the balances.
LEMMA BalanceStep == TypeOK /\ Shape /\ [Next]_vars => balance' \in [Accounts -> Nat]
<1> SUFFICES ASSUME TypeOK, Shape, [Next]_vars PROVE balance' \in [Accounts -> Nat]
  OBVIOUS
<1>1. ASSUME NEW r \in Requests, DebitAfterSend(r) PROVE balance' \in [Accounts -> Nat]
  <2>1. UNCHANGED paidVars \/ Debit(r)
    BY <1>1 DEF DebitAfterSend
  <2> QED BY <2>1, DebitTypes
<1>2. CASE ProcDebit
  <2>1. UNCHANGED paidVars \/ Debit(current)
    BY <1>2 DEF ProcDebit
  <2>2. current \in Requests
    BY <1>2 DEF ProcDebit, Shape
  <2> QED BY <2>1, <2>2, DebitTypes
<1>3. CASE UNCHANGED balance
  BY <1>3 DEF TypeOK
<1>4. UNCHANGED balance \/ ProcDebit \/ \E r \in Requests : DebitAfterSend(r)
  BY DEF Next, vars, Handler, Processor, Crash, NothingWritten, paidVars,
         Receive, CheckRate, CheckBalance, CheckAddress, QueryFails, CreateRow,
         Send, Complete, Fail, ProcTick, ProcEndPass, ProcSend, ProcComplete,
         ProcFail, ProcSettle, ProcNext
<1> QED BY <1>1, <1>2, <1>3, <1>4

\* Types are kept by every step.
LEMMA TypeStep == Typed /\ Shape /\ [Next]_vars => Typed'
<1> USE ConstantsAssumption DEF Typed, Shape, Statuses, HandlerPlaces, ProcPlaces,
        Replies, SendOutcomes, DbFails, NoFault, Quiet, NothingWritten, Goto,
        Answer, SetStatus, ProcGoto, handlerVars, procVars,
        rowVars, inputVars, paidVars
<1> SUFFICES ASSUME Typed, Shape, [Next]_vars PROVE Typed'
  OBVIOUS
<1>1. ASSUME NEW r \in Requests, Handler(r) PROVE Typed'
  <2>1. CASE Receive(r)        BY <2>1 DEF Receive
  <2>2. CASE CheckRate(r)      BY <2>2 DEF CheckRate
  <2>3. CASE CheckBalance(r)   BY <2>3 DEF CheckBalance
  <2>4. CASE CheckAddress(r)   BY <2>4 DEF CheckAddress
  <2>5. CASE QueryFails(r)     BY <2>5 DEF QueryFails
  <2>6. CASE CreateRow(r)      BY <2>6 DEF CreateRow
  <2>7. CASE Send(r)           BY <2>7 DEF Send
  <2>8. CASE DebitAfterSend(r)
    <3>1. UNCHANGED paidVars \/ Debit(r)
      BY <2>8 DEF DebitAfterSend
    <3>2. debits' \in [Requests -> Nat]
      BY <3>1 DEF Debit
    <3>3. crashes' \in Nat /\ dbFailures' \in Nat
      BY <2>8 DEF DebitAfterSend
    <3> HIDE DEF paidVars, NoFault, DbFails
    <3> QED BY <2>8, <3>2, <3>3 DEF DebitAfterSend
  <2>9. CASE Complete(r)       BY <2>9 DEF Complete
  <2>10. CASE Fail(r)          BY <2>10 DEF Fail
  <2> QED BY <1>1, <2>1, <2>2, <2>3, <2>4, <2>5, <2>6, <2>7, <2>8, <2>9, <2>10
          DEF Handler
<1>2. ASSUME Processor PROVE Typed'
  <2>1. CASE ProcTick     BY <2>1 DEF ProcTick, PendingWithdrawals
  <2>2. CASE ProcEndPass  BY <2>2 DEF ProcEndPass
  <2>3. CASE ProcSend     BY <2>3 DEF ProcSend
  <2>4. CASE ProcDebit
    BY <2>4 DEF ProcDebit, Debit
  <2>5. CASE ProcComplete BY <2>5 DEF ProcComplete, ProcSettle
  <2>6. CASE ProcFail     BY <2>6 DEF ProcFail, ProcSettle
  <2>7. ASSUME NEW r \in Requests, ProcNext(r) PROVE Typed'
    BY <2>7 DEF ProcNext
  <2> QED BY <1>2, <2>1, <2>2, <2>3, <2>4, <2>5, <2>6, <2>7 DEF Processor
<1>3. CASE Crash BY <1>3 DEF Crash
<1>4. CASE UNCHANGED vars BY <1>4 DEF vars
<1> QED BY <1>1, <1>2, <1>3, <1>4 DEF Next

\* The processor's row has a name and rows appear only at the insert.
LEMMA ShapeStep == Typed /\ Shape /\ [Next]_vars => Shape'
<1> USE DEF Shape, ProcAt, Early, NoFault, Quiet, NothingWritten, Goto, Answer,
        SetStatus, ProcGoto, handlerVars, procVars, rowVars
<1> SUFFICES ASSUME Typed, Shape, [Next]_vars PROVE Shape'
  OBVIOUS
<1>1. ASSUME NEW r \in Requests, Handler(r) PROVE Shape'
  <2> USE DEF Typed
  <2>1. CASE Receive(r)        BY <2>1 DEF Receive
  <2>2. CASE CheckRate(r)      BY <2>2 DEF CheckRate
  <2>3. CASE CheckBalance(r)   BY <2>3 DEF CheckBalance
  <2>4. CASE CheckAddress(r)   BY <2>4 DEF CheckAddress
  <2>5. CASE QueryFails(r)     BY <2>5 DEF QueryFails
  <2>6. CASE CreateRow(r)      BY <2>6 DEF CreateRow
  <2>7. CASE Send(r)           BY <2>7 DEF Send
  <2>8. CASE DebitAfterSend(r) BY <2>8 DEF DebitAfterSend
  <2>9. CASE Complete(r)       BY <2>9 DEF Complete
  <2>10. CASE Fail(r)          BY <2>10 DEF Fail
  <2> QED BY <1>1, <2>1, <2>2, <2>3, <2>4, <2>5, <2>6, <2>7, <2>8, <2>9, <2>10
          DEF Handler
<1>2. ASSUME Processor PROVE Shape'
  <2> USE DEF Typed
  <2>1. CASE ProcTick     BY <2>1 DEF ProcTick, PendingWithdrawals, Working
  <2>2. CASE ProcEndPass  BY <2>2 DEF ProcEndPass
  <2>3. CASE ProcSend     BY <2>3 DEF ProcSend
  <2>4. CASE ProcDebit    BY <2>4 DEF ProcDebit
  <2>5. CASE ProcComplete BY <2>5 DEF ProcComplete, ProcSettle
  <2>6. CASE ProcFail     BY <2>6 DEF ProcFail, ProcSettle
  <2>7. ASSUME NEW r \in Requests, ProcNext(r) PROVE Shape'
    BY <2>7 DEF ProcNext
  <2> QED BY <1>2, <2>1, <2>2, <2>3, <2>4, <2>5, <2>6, <2>7 DEF Processor
<1>3. CASE Crash BY <1>3 DEF Crash, Typed
<1>4. CASE UNCHANGED vars BY <1>4 DEF vars
<1> QED BY <1>1, <1>2, <1>3, <1>4 DEF Next

\* Only an answered send moves a process in front of its debit.
LEMMA DebitsStep ==
  Typed /\ Shape /\ DebitsBacked /\ [Next]_vars => DebitsBacked'
<1> USE DEF Typed, Shape, ProcAt, NoFault, Quiet, NothingWritten, Goto,
        Answer, SetStatus, ProcGoto, handlerVars, procVars, rowVars, paidVars,
        inputVars, DebitsBacked, Bit
<1> SUFFICES ASSUME Typed, Shape, DebitsBacked, [Next]_vars PROVE DebitsBacked'
  OBVIOUS
<1>1. ASSUME NEW r \in Requests, Handler(r) PROVE DebitsBacked'
  <2>1. CASE Receive(r)
    BY <2>1 DEF Receive
  <2>2. CASE CheckRate(r)
    BY <2>2 DEF CheckRate
  <2>3. CASE CheckBalance(r)
    BY <2>3 DEF CheckBalance
  <2>4. CASE CheckAddress(r)
    BY <2>4 DEF CheckAddress
  <2>5. CASE QueryFails(r)
    BY <2>5 DEF QueryFails
  <2>6. CASE CreateRow(r)
    BY <2>6 DEF CreateRow
  <2>7. CASE Send(r)
    BY <2>7 DEF Send, SendOutcomes
  <2>8. CASE DebitAfterSend(r)
    BY <2>8 DEF DebitAfterSend, Debit, CanDebit
  <2>9. CASE Complete(r)
    BY <2>9 DEF Complete
  <2>10. CASE Fail(r)
    BY <2>10 DEF Fail
  <2> QED BY <1>1, <2>1, <2>2, <2>3, <2>4, <2>5, <2>6, <2>7, <2>8, <2>9, <2>10
          DEF Handler
<1>2. ASSUME Processor PROVE DebitsBacked'
  <2>1. CASE ProcTick
    BY <2>1 DEF ProcTick, PendingWithdrawals
  <2>2. CASE ProcEndPass
    BY <2>2 DEF ProcEndPass
  <2>3. CASE ProcSend
    BY <2>3 DEF ProcSend, SendOutcomes
  <2>4. CASE ProcDebit
    BY <2>4 DEF ProcDebit, Debit, CanDebit
  <2>5. CASE ProcComplete
    BY <2>5 DEF ProcComplete, ProcSettle
  <2>6. CASE ProcFail
    BY <2>6 DEF ProcFail, ProcSettle
  <2>7. ASSUME NEW r \in Requests, ProcNext(r) PROVE DebitsBacked'
    BY <2>7 DEF ProcNext
  <2> QED BY <1>2, <2>1, <2>2, <2>3, <2>4, <2>5, <2>6, <2>7 DEF Processor
<1>3. CASE Crash
  BY <1>3 DEF Crash
<1>4. CASE UNCHANGED vars
  BY <1>4 DEF vars
<1> QED BY <1>1, <1>2, <1>3, <1>4 DEF Next

\* Only an answered send leads to writing "completed".
LEMMA CompletedStep ==
  Typed /\ Shape /\ CompletedBacked /\ [Next]_vars => CompletedBacked'
<1> USE DEF Typed, Shape, ProcAt, NoFault, Quiet, NothingWritten, Goto,
        Answer, SetStatus, ProcGoto, handlerVars, procVars, rowVars, paidVars,
        inputVars, CompletedBacked
<1> SUFFICES ASSUME Typed, Shape, CompletedBacked, [Next]_vars PROVE CompletedBacked'
  OBVIOUS
<1>1. ASSUME NEW r \in Requests, Handler(r) PROVE CompletedBacked'
  <2>1. CASE Receive(r)
    BY <2>1 DEF Receive
  <2>2. CASE CheckRate(r)
    BY <2>2 DEF CheckRate
  <2>3. CASE CheckBalance(r)
    BY <2>3 DEF CheckBalance
  <2>4. CASE CheckAddress(r)
    BY <2>4 DEF CheckAddress
  <2>5. CASE QueryFails(r)
    BY <2>5 DEF QueryFails
  <2>6. CASE CreateRow(r)
    BY <2>6 DEF CreateRow
  <2>7. CASE Send(r)
    BY <2>7 DEF Send, SendOutcomes
  <2>8. CASE DebitAfterSend(r)
    BY <2>8 DEF DebitAfterSend, Debit, CanDebit
  <2>9. CASE Complete(r)
    BY <2>9 DEF Complete
  <2>10. CASE Fail(r)
    BY <2>10 DEF Fail
  <2> QED BY <1>1, <2>1, <2>2, <2>3, <2>4, <2>5, <2>6, <2>7, <2>8, <2>9, <2>10
          DEF Handler
<1>2. ASSUME Processor PROVE CompletedBacked'
  <2>1. CASE ProcTick
    BY <2>1 DEF ProcTick, PendingWithdrawals
  <2>2. CASE ProcEndPass
    BY <2>2 DEF ProcEndPass
  <2>3. CASE ProcSend
    BY <2>3 DEF ProcSend, SendOutcomes
  <2>4. CASE ProcDebit
    BY <2>4 DEF ProcDebit, Debit, CanDebit
  <2>5. CASE ProcComplete
    BY <2>5 DEF ProcComplete, ProcSettle
  <2>6. CASE ProcFail
    BY <2>6 DEF ProcFail, ProcSettle
  <2>7. ASSUME NEW r \in Requests, ProcNext(r) PROVE CompletedBacked'
    BY <2>7 DEF ProcNext
  <2> QED BY <1>2, <2>1, <2>2, <2>3, <2>4, <2>5, <2>6, <2>7 DEF Processor
<1>3. CASE Crash
  BY <1>3 DEF Crash
<1>4. CASE UNCHANGED vars
  BY <1>4 DEF vars
<1> QED BY <1>1, <1>2, <1>3, <1>4 DEF Next

\* A step uses up at most the sends the budget has for it.
LEMMA BudgetStep ==
  Typed /\ Shape /\ SendsBudget /\ [Next]_vars => SendsBudget'
<1> USE DEF Typed, Shape, ProcAt, NoFault, Quiet, NothingWritten, Goto,
        Answer, SetStatus, ProcGoto, handlerVars, procVars, rowVars, paidVars,
        inputVars,
        SendsBudget, Bit, HandlerWillSend, PassWillSend, NextPassWillSend,
        Early, Working, DbFails
<1> SUFFICES ASSUME Typed, Shape, SendsBudget, [Next]_vars PROVE SendsBudget'
  OBVIOUS
<1>1. ASSUME NEW r \in Requests, Handler(r) PROVE SendsBudget'
  <2>1. CASE Receive(r)
    BY <2>1 DEF Receive
  <2>2. CASE CheckRate(r)
    BY <2>2 DEF CheckRate
  <2>3. CASE CheckBalance(r)
    BY <2>3 DEF CheckBalance
  <2>4. CASE CheckAddress(r)
    BY <2>4 DEF CheckAddress
  <2>5. CASE QueryFails(r)
    BY <2>5 DEF QueryFails
  <2>6. CASE CreateRow(r)
    BY <2>6 DEF CreateRow
  <2>7. CASE Send(r)
    BY <2>7 DEF Send, SendOutcomes
  <2>8. CASE DebitAfterSend(r)
    BY <2>8 DEF DebitAfterSend, Debit, CanDebit
  <2>9. CASE Complete(r)
    BY <2>9 DEF Complete
  <2>10. CASE Fail(r)
    BY <2>10 DEF Fail
  <2> QED BY <1>1, <2>1, <2>2, <2>3, <2>4, <2>5, <2>6, <2>7, <2>8, <2>9, <2>10
          DEF Handler
<1>2. ASSUME Processor PROVE SendsBudget'
  <2>1. CASE ProcTick
    <3> SUFFICES ASSUME NEW r \in Requests
                 PROVE  sent'[r] + HandlerWillSend(r)' + PassWillSend(r)'
                          + NextPassWillSend(r)'
                        <= 1 + overlapped'[r] + crashes' + dbFailures'
      BY Zenon
    <3>1. /\ sent'[r] = sent[r] /\ HandlerWillSend(r)' = HandlerWillSend(r)
          /\ crashes' = crashes /\ dbFailures' = dbFailures
      BY <2>1 DEF ProcTick
    <3>2. ~ProcAt(r, {"send", "debit", "complete", "fail"})' /\ ~ProcAt(r, {"send"})'
      BY <2>1 DEF ProcTick
    <3>3. CASE r \in todo' /\ pc[r] \in Working /\ overlapped[r] = 0
      <4>1. overlapped'[r] = 1 /\ PassWillSend(r)' = 1 /\ NextPassWillSend(r)' = 0
        BY <2>1, <3>3 DEF ProcTick
      <4> QED BY <3>1, <3>3, <4>1
    <3>4. CASE r \in todo' /\ ~(pc[r] \in Working /\ overlapped[r] = 0)
      <4>1. overlapped'[r] = overlapped[r]
        BY <2>1, <3>4 DEF ProcTick
      <4>2. PassWillSend(r)' = 1 /\ NextPassWillSend(r)' = 0
        BY <3>4
      <4>3. PassWillSend(r) + NextPassWillSend(r) >= 1
        BY <2>1, <3>4 DEF ProcTick, PendingWithdrawals, HandlerPlaces
      <4> QED BY <3>1, <4>1, <4>2, <4>3
    <3>5. CASE r \notin todo'
      <4>1. overlapped'[r] = overlapped[r]
        BY <2>1, <3>5 DEF ProcTick
      <4>2. status'[r] # "pending"
        BY <2>1, <3>5 DEF ProcTick, PendingWithdrawals
      <4>3. PassWillSend(r)' = 0 /\ NextPassWillSend(r)' = 0
        BY <3>2, <3>5, <4>2
      <4> QED BY <3>1, <4>1, <4>3
    <3> QED BY <3>3, <3>4, <3>5
  <2>2. CASE ProcEndPass
    BY <2>2 DEF ProcEndPass
  <2>3. CASE ProcSend
    BY <2>3 DEF ProcSend, SendOutcomes
  <2>4. CASE ProcDebit
    BY <2>4 DEF ProcDebit, Debit, CanDebit
  <2>5. CASE ProcComplete
    BY <2>5 DEF ProcComplete, ProcSettle
  <2>6. CASE ProcFail
    BY <2>6 DEF ProcFail, ProcSettle
  <2>7. ASSUME NEW r \in Requests, ProcNext(r) PROVE SendsBudget'
    BY <2>7 DEF ProcNext
  <2> QED BY <1>2, <2>1, <2>2, <2>3, <2>4, <2>5, <2>6, <2>7 DEF Processor
<1>3. CASE Crash
  BY <1>3 DEF Crash
<1>4. CASE UNCHANGED vars
  BY <1>4 DEF vars
<1> QED BY <1>1, <1>2, <1>3, <1>4 DEF Next

\* The tick marks the rows it takes from a working handler, and a new row is in
\* no snapshot yet.
LEMMA OverlapStep ==
  Typed /\ Shape /\ OverlapMarked /\ [Next]_vars => OverlapMarked'
<1> USE DEF Typed, Shape, ProcAt, NoFault, Quiet, NothingWritten, Goto,
        Answer, SetStatus, ProcGoto, handlerVars, procVars, rowVars, paidVars,
        inputVars, Early, Working, ProcHas, OverlapMarked
<1> SUFFICES ASSUME Typed, Shape, OverlapMarked, [Next]_vars PROVE OverlapMarked'
  OBVIOUS
<1>1. ASSUME NEW r \in Requests, Handler(r) PROVE OverlapMarked'
  <2>1. CASE Receive(r)
    BY <2>1 DEF Receive
  <2>2. CASE CheckRate(r)
    BY <2>2 DEF CheckRate
  <2>3. CASE CheckBalance(r)
    BY <2>3 DEF CheckBalance
  <2>4. CASE CheckAddress(r)
    BY <2>4 DEF CheckAddress
  <2>5. CASE QueryFails(r)
    BY <2>5 DEF QueryFails
  <2>6. CASE CreateRow(r)
    BY <2>6 DEF CreateRow
  <2>7. CASE Send(r)
    BY <2>7 DEF Send, SendOutcomes
  <2>8. CASE DebitAfterSend(r)
    BY <2>8 DEF DebitAfterSend, Debit, CanDebit
  <2>9. CASE Complete(r)
    BY <2>9 DEF Complete
  <2>10. CASE Fail(r)
    BY <2>10 DEF Fail
  <2> QED BY <1>1, <2>1, <2>2, <2>3, <2>4, <2>5, <2>6, <2>7, <2>8, <2>9, <2>10
          DEF Handler
<1>2. ASSUME Processor PROVE OverlapMarked'
  <2>1. CASE ProcTick
    BY <2>1 DEF ProcTick, PendingWithdrawals
  <2>2. CASE ProcEndPass
    BY <2>2 DEF ProcEndPass
  <2>3. CASE ProcSend
    BY <2>3 DEF ProcSend, SendOutcomes
  <2>4. CASE ProcDebit
    BY <2>4 DEF ProcDebit, Debit, CanDebit
  <2>5. CASE ProcComplete
    BY <2>5 DEF ProcComplete, ProcSettle
  <2>6. CASE ProcFail
    BY <2>6 DEF ProcFail, ProcSettle
  <2>7. ASSUME NEW r \in Requests, ProcNext(r) PROVE OverlapMarked'
    BY <2>7 DEF ProcNext
  <2> QED BY <1>2, <2>1, <2>2, <2>3, <2>4, <2>5, <2>6, <2>7 DEF Processor
<1>3. CASE Crash
  BY <1>3 DEF Crash
<1>4. CASE UNCHANGED vars
  BY <1>4 DEF vars
<1> QED BY <1>1, <1>2, <1>3, <1>4 DEF Next

\* The processor's debits and settlements reach no undisturbed row whose
\* handler failed it.
LEMMA FailuresStep ==
  Typed /\ Shape /\ OverlapMarked /\ FailuresClean /\ [Next]_vars => FailuresClean'
<1> USE DEF Typed, Shape, ProcAt, NoFault, Quiet, NothingWritten, Goto,
        Answer, SetStatus, ProcGoto, handlerVars, procVars, rowVars, paidVars,
        inputVars, Early, Working, ProcHas, DbFails, OverlapMarked, FailuresClean,
        Undisturbed
<1> SUFFICES ASSUME Typed, Shape, OverlapMarked, FailuresClean, [Next]_vars PROVE FailuresClean'
  OBVIOUS
<1>1. ASSUME NEW r \in Requests, Handler(r) PROVE FailuresClean'
  <2>1. CASE Receive(r)
    BY <2>1 DEF Receive
  <2>2. CASE CheckRate(r)
    BY <2>2 DEF CheckRate
  <2>3. CASE CheckBalance(r)
    BY <2>3 DEF CheckBalance
  <2>4. CASE CheckAddress(r)
    BY <2>4 DEF CheckAddress
  <2>5. CASE QueryFails(r)
    BY <2>5 DEF QueryFails
  <2>6. CASE CreateRow(r)
    BY <2>6 DEF CreateRow
  <2>7. CASE Send(r)
    BY <2>7 DEF Send, SendOutcomes
  <2>8. CASE DebitAfterSend(r)
    BY <2>8 DEF DebitAfterSend, Debit, CanDebit
  <2>9. CASE Complete(r)
    BY <2>9 DEF Complete
  <2>10. CASE Fail(r)
    BY <2>10 DEF Fail
  <2> QED BY <1>1, <2>1, <2>2, <2>3, <2>4, <2>5, <2>6, <2>7, <2>8, <2>9, <2>10
          DEF Handler
<1>2. ASSUME Processor PROVE FailuresClean'
  <2>1. CASE ProcTick
    BY <2>1 DEF ProcTick, PendingWithdrawals
  <2>2. CASE ProcEndPass
    BY <2>2 DEF ProcEndPass
  <2>3. CASE ProcSend
    BY <2>3 DEF ProcSend, SendOutcomes
  <2>4. CASE ProcDebit
    BY <2>4 DEF ProcDebit, Debit, CanDebit
  <2>5. CASE ProcComplete
    BY <2>5 DEF ProcComplete, ProcSettle
  <2>6. CASE ProcFail
    BY <2>6 DEF ProcFail, ProcSettle
  <2>7. ASSUME NEW r \in Requests, ProcNext(r) PROVE FailuresClean'
    BY <2>7 DEF ProcNext
  <2> QED BY <1>2, <2>1, <2>2, <2>3, <2>4, <2>5, <2>6, <2>7 DEF Processor
<1>3. CASE Crash
  BY <1>3 DEF Crash
<1>4. CASE UNCHANGED vars
  BY <1>4 DEF vars
<1> QED BY <1>1, <1>2, <1>3, <1>4 DEF Next

-----------------------------------------------------------------------------
\* All that concerns the rows, with no word about the balances.
LEMMA RowsStep == RowsInv /\ [Next]_vars => RowsInv'
BY TypeStep, ShapeStep, DebitsStep, CompletedStep, BudgetStep, OverlapStep,
   FailuresStep DEF RowsInv

\* The strengthened invariant holds in every reachable state.
THEOREM IInvHolds == Spec => []IInv
<1>1. Init => IInv
  BY InitIInv
<1>2. IInv /\ [Next]_vars => IInv'
  <2> SUFFICES ASSUME IInv, [Next]_vars PROVE IInv'
    OBVIOUS
  <2>1. RowsInv'
    BY RowsStep DEF IInv
  <2>2. opening' = opening
    BY DEF Next, vars, Handler, Processor, Crash, Quiet, inputVars,
         Receive, CheckRate, CheckBalance, CheckAddress, QueryFails, CreateRow,
         Send, DebitAfterSend, Complete, Fail, ProcTick, ProcEndPass, ProcSend,
         ProcDebit, ProcComplete, ProcFail, ProcSettle, ProcNext
  <2>3. TypeOK'
    BY <2>1, <2>2, BalanceStep DEF IInv, RowsInv, Typed, TypeOK
  <2> QED BY <2>1, <2>3 DEF IInv
<1> QED BY <1>1, <1>2, PTL DEF Spec

\* Every variable keeps its type; with it, no balance is ever negative.
THEOREM TypeCorrect == Spec => []TypeOK
<1>1. IInv => TypeOK
  BY DEF IInv
<1> QED BY <1>1, IInvHolds, PTL

\* The rule of payments.rs:114 for every interleaving of the handlers, the
\* processor and any number of crashes: no row is debited more often than a
\* transaction was broadcast for it.
THEOREM DebitsFollowSends == Spec => []DebitOnlyAfterSend
<1>1. IInv => DebitOnlyAfterSend
  BY DEF IInv, RowsInv, Typed, DebitsBacked, DebitOnlyAfterSend, Bit
<1> QED BY <1>1, IInvHolds, PTL

\* A completed row was broadcast, whoever wrote the status and whatever
\* crashed before.
THEOREM CompletedIsOnChain == Spec => []CompletedWasSent
<1>1. IInv => CompletedWasSent
  BY DEF IInv, RowsInv, CompletedBacked, CompletedWasSent
<1> QED BY <1>1, IInvHolds, PTL

\* Sending a row twice takes an overlap of a pass with the handler, a crash or
\* a failed statement; each buys one more send.
THEOREM ResendsExplained == Spec => []ResendsHaveACause
<1>1. IInv => ResendsHaveACause
  BY DEF IInv, RowsInv, Typed, SendsBudget, ResendsHaveACause, Bit, HandlerWillSend,
         PassWillSend, NextPassWillSend
<1> QED BY <1>1, IInvHolds, PTL

\* "Your balance has NOT been deducted" (withdraw.rs:436) is true of every
\* request that no pass of the processor overlapped, as long as no statement
\* fails, whatever crashes.
THEOREM FailedAnswersHold == Spec => []FailedAnswerIsTrue
<1>1. IInv => FailedAnswerIsTrue
  <2> SUFFICES ASSUME IInv, NEW r \in Requests, reply[r] = "failed",
                      debits[r] > 0, overlapped[r] # 1, ~(dbFailures > 0)
               PROVE  FALSE
    BY DEF FailedAnswerIsTrue
  <2>1. Undisturbed(r)
    BY DEF IInv, RowsInv, Typed, Undisturbed
  <2>2. debits[r] = 0
    BY <2>1 DEF IInv, RowsInv, FailuresClean
  <2> QED BY <2>2
<1> QED BY <1>1, IInvHolds, PTL
=============================================================================

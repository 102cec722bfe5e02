------------------------- MODULE BlockTrackerProofs -------------------------
(***************************************************************************)
(* What holds of BlockTracker for any blocks, miners and amounts, and any  *)
(* number of reorganisations, failed calls and crashes.                    *)
(***************************************************************************)
EXTENDS BlockTracker, FiniteSetTheorems, TLAPS

\* The snapshot holds pending rows only, and the row in hand is pending until
\* its verdict is written: the tracker is the only writer of the status.
RowsInHand ==
  /\ place = "sleep" => current = NoBlock
  /\ \A b \in todo : status[b] = "pending" /\ b # current
  /\ place \in Lookups \cup Writes => current \in Blocks /\ status[current] = "pending"
  /\ place \in Paying => current \in Blocks /\ status[current] = "confirmed"

\* A row that is not confirmed has paid nobody; nor has one whose window is
\* about to be read.
Unpaid(b) ==
  /\ b \notin distributed /\ owed[b] = {}
  /\ \A m \in Miners : credits[b][m] = 0 /\ earnings[b][m] = 0

NothingPaidYet ==
  /\ \A b \in Blocks : status[b] # "confirmed" => Unpaid(b)
  /\ place = "shares" => Unpaid(current)

\* What a distribution in progress has done: the miners it still has are
\* unpaid, the others are paid and recorded.
Progress ==
  /\ place \in {"credit", "earn"} =>
       /\ current \notin distributed /\ payees \subseteq owed[current]
       /\ \A m \in owed[current] \ payees :
            credits[current][m] = 1 /\ earnings[current][m] = 1
       /\ \A m \in Miners : m # paying => earnings[current][m] = credits[current][m]
       /\ \A m \in payees : m # paying => credits[current][m] = 0
  /\ place # "earn" => paying = NoMiner
  /\ place = "earn" => /\ paying \in payees
                       /\ credits[current][paying] = 1
                       /\ earnings[current][paying] = 0

\* What is true of every block at every moment.
PaidRight(b) ==
  /\ \A m \in Miners : /\ credits[b][m] <= 1
                       /\ earnings[b][m] <= credits[b][m]
                       /\ credits[b][m] > 0 => m \in owed[b]
  /\ \A m, n \in Miners :
       earnings[b][m] < credits[b][m] /\ earnings[b][n] < credits[b][n] => m = n
  /\ b \in distributed =>
       \A m \in owed[b] : credits[b][m] = 1 /\ earnings[b][m] = 1

Paid == \A b \in Blocks : PaidRight(b)

\* A block that never left the best chain is named by its row, and as long as
\* no failing call about it was misread, no answer in hand speaks against it.
NeverStale ==
  /\ \A b \in Blocks \ wasStale : onMain[b] /\ named[b] = "own"
  /\ \A b \in Blocks \ (wasStale \cup misread) : status[b] # "orphaned"
  /\ current \notin wasStale /\ place \in {"rename", "getblockAgain"} => asked = "own"
  /\ current \notin wasStale \cup misread =>
       /\ place \in {"getblockhash", "judge"} =>
            answer.kind \in {"inChain", "error"}
       /\ place # "orphan"

IInv == TypeOK /\ RowsInHand /\ NothingPaidYet /\ Progress /\ Paid /\ NeverStale

-----------------------------------------------------------------------------
\* The two statements of a payment when they succeed.
Credited(m) == /\ CreditWritten(m) /\ NoFault
               /\ paying' = m /\ place' = "earn" /\ UNCHANGED payees

Earned ==
  /\ EarningWritten /\ NoFault
  /\ payees' = payees \ {paying} /\ paying' = NoMiner
  /\ place' = IF payees' = {} THEN "pass" ELSE "credit"
  /\ distributed' = IF payees' = {} THEN distributed \cup {current}
                                    ELSE distributed

\* The distribution is given up after a statement that was not carried out.
GaveUp == GiveUp /\ UNCHANGED moneyVars

\* The same after a statement that was, its answer lost.
CreditLost(m)  == CreditWritten(m) /\ GiveUp
EarningLost == EarningWritten /\ GiveUp /\ UNCHANGED distributed

\* A credit happens and the distribution goes on or is given up, or it is given
\* up without.
LEMMA CreditCases ==
  ASSUME NEW m \in Miners, Credit(m)
  PROVE  /\ place = "credit" /\ m \in payees /\ PayStep
         /\ Credited(m) \/ CreditLost(m) \/ GaveUp
  BY DEF Credit, Credited, CreditLost, GaveUp

\* The same for an earning.
LEMMA EarnCases ==
  ASSUME Earn
  PROVE  place = "earn" /\ PayStep /\ (Earned \/ EarningLost \/ GaveUp)
  BY DEF Earn, Earned, EarningLost, GaveUp, moneyVars

\* What the two statements do to the counters, block by block.
LEMMA CreditedCounts ==
  ASSUME TypeOK, NEW m \in Miners, current \in Blocks, CreditWritten(m)
  PROVE  /\ credits'[current][m] = credits[current][m] + 1
         /\ \A n \in Miners : n # m => credits'[current][n] = credits[current][n]
         /\ \A b \in Blocks : b # current => credits'[b] = credits[b]
         /\ UNCHANGED <<earnings, owed, distributed>>
  BY DEF CreditWritten, TypeOK

\* The same for an earning.
LEMMA EarnedCounts ==
  ASSUME TypeOK, current \in Blocks, paying \in Miners, EarningWritten
  PROVE  /\ earnings'[current][paying] = earnings[current][paying] + 1
         /\ \A n \in Miners : n # paying => earnings'[current][n] = earnings[current][n]
         /\ \A b \in Blocks : b # current => earnings'[b] = earnings[b]
         /\ UNCHANGED <<credits, owed>>
  BY DEF EarningWritten, TypeOK

\* The initial state satisfies the inductive invariant.
LEMMA InitIInv == Init => IInv
<1> SUFFICES ASSUME Init PROVE IInv
  OBVIOUS
<1> USE DEF Init
<1>1. TypeOK
  BY ConstantsAssumption DEF TypeOK, Statuses, Names, Answers, NoAnswer, Misread, Lookups, Writes, Paying
<1>2. RowsInHand
  BY DEF RowsInHand, Lookups, Writes, Paying
<1>3. NothingPaidYet
  BY DEF NothingPaidYet, Unpaid
<1>4. Progress
  BY DEF Progress
<1>5. Paid
  BY DEF Paid, PaidRight
<1>6. NeverStale
  BY DEF NeverStale
<1> QED BY <1>1, <1>2, <1>3, <1>4, <1>5, <1>6 DEF IInv

\* Types are kept by every step.
LEMMA TypeStep ==
  TypeOK /\ RowsInHand /\ Progress /\ [Next]_vars => TypeOK'
<1> USE ConstantsAssumption DEF TypeOK, RowsInHand, Statuses, Names, Answers, NoAnswer, Misread,
        Lookups, Writes, Paying,
        NoFault, RpcFails, DbFails, LookupStep, PayStep, ChainStep, tableVars,
        moneyVars, chainVars, lookupVars, payVars, trackerVars, faultVars
<1> SUFFICES ASSUME TypeOK, RowsInHand, Progress, [Next]_vars PROVE TypeOK'
  OBVIOUS
<1>1. ASSUME Tracker PROVE TypeOK'
  <2>1. CASE Tick
    BY <2>1 DEF Tick, PendingBlocks
  <2>2. CASE EndPass
    BY <2>2 DEF EndPass
  <2>3. CASE AskByHash
    <3>1. answer' \in Answers
      BY <2>3 DEF AskByHash, LookupFails, GetBlock, InBestChain
    <3>2. misread' \subseteq Blocks
      BY <2>3 DEF AskByHash, LookupFails
    <3>3. place' \in Lookups /\ rpcErrors' \in Nat /\ dbFailures' \in Nat /\ crashes' \in Nat
      BY <2>3 DEF AskByHash, LookupFails
    <3> HIDE DEF Answers
    <3> QED BY <2>3, <3>1, <3>2, <3>3 DEF AskByHash
  <2>4. CASE AskByHeight
    BY <2>4 DEF AskByHeight, GetBlockHash
  <2>5. CASE Rename
    BY <2>5 DEF Rename
  <2>6. CASE AskAgain
    <3>1. answer' \in Answers
      BY <2>6 DEF AskAgain, LookupFails, GetBlock, InBestChain
    <3>2. misread' \subseteq Blocks
      BY <2>6 DEF AskAgain, LookupFails
    <3>3. place' \in Lookups /\ rpcErrors' \in Nat /\ dbFailures' \in Nat /\ crashes' \in Nat
      BY <2>6 DEF AskAgain, LookupFails
    <3> HIDE DEF Answers
    <3> QED BY <2>6, <3>1, <3>2, <3>3 DEF AskAgain
  <2>7. CASE Judge
    BY <2>7 DEF Judge
  <2>8. CASE Orphan
    <3>1. current \in Blocks
      BY <2>8 DEF Orphan
    <3>2. status' \in [Blocks -> Statuses] /\ confirmations' \in [Blocks -> Nat]
      BY <2>8, <3>1 DEF Orphan, SetStatus, NothingWritten
    <3>3. CASE Done("pass")
      BY <2>8, <3>1, <3>2, <3>3 DEF Orphan, WriteStep, Done
    <3>4. CASE AbortPass
      BY <2>8, <3>2, <3>4 DEF Orphan, WriteStep, AbortPass
    <3> QED BY <2>8, <3>3, <3>4 DEF Orphan
  <2>9. CASE Count
    <3>1. current \in Blocks
      BY <2>9 DEF Count
    <3>2. status' \in [Blocks -> Statuses] /\ confirmations' \in [Blocks -> Nat]
      BY <2>9, <3>1 DEF Count, SetConfirmations, NothingWritten
    <3>3. CASE Done(AfterCount)
      BY <2>9, <3>1, <3>2, <3>3 DEF Count, WriteStep, Done, AfterCount
    <3>4. CASE AbortPass
      BY <2>9, <3>2, <3>4 DEF Count, WriteStep, AbortPass
    <3> QED BY <2>9, <3>3, <3>4 DEF Count
  <2>10. CASE Confirm
    <3>1. current \in Blocks
      BY <2>10 DEF Confirm
    <3>2. status' \in [Blocks -> Statuses] /\ confirmations' \in [Blocks -> Nat]
      BY <2>10, <3>1 DEF Confirm, SetStatus, NothingWritten
    <3>3. CASE Done("shares")
      BY <2>10, <3>1, <3>2, <3>3 DEF Confirm, WriteStep, Done
    <3>4. CASE AbortPass
      BY <2>10, <3>2, <3>4 DEF Confirm, WriteStep, AbortPass
    <3> QED BY <2>10, <3>3, <3>4 DEF Confirm
  <2>11. CASE ReadShares
    <3>1. current \in Blocks
      BY <2>11 DEF ReadShares
    <3>2. owed' \in [Blocks -> SUBSET Miners] /\ payees' \subseteq Miners
      BY <2>11, <3>1 DEF ReadShares, GiveUp
    <3>3. distributed' \in {distributed, distributed \cup {current}}
      BY <2>11 DEF ReadShares, GiveUp
    <3>4. distributed' \subseteq Blocks
      BY <3>1, <3>3
    <3> QED BY <2>11, <3>2, <3>4 DEF ReadShares, GiveUp
  <2>12. CASE Earn
    <3>1. current \in Blocks /\ paying \in Miners /\ PayStep
      BY <2>12, EarnCases DEF Progress
    <3>2. CASE GaveUp
      BY <3>1, <3>2 DEF GaveUp, GiveUp
    <3>3. CASE EarningWritten
      <4>1. earnings' \in [Blocks -> [Miners -> Nat]]
        <5>1. earnings' = [earnings EXCEPT ![current][paying] = @ + 1]
          BY <3>3 DEF EarningWritten
        <5> QED BY <3>1, <5>1
      <4>2. distributed' \in {distributed, distributed \cup {current}}
        BY <2>12, EarnCases DEF Earned, EarningLost, GaveUp
      <4>3. distributed' \subseteq Blocks
        BY <3>1, <4>2
      <4>4. /\ payees' \subseteq Miners /\ paying' \in Miners \cup {NoMiner}
            /\ place' \in {"pass", "credit"} /\ rpcErrors' \in Nat
            /\ dbFailures' \in Nat /\ crashes' \in Nat
        BY <2>12, EarnCases DEF Earned, EarningLost, GaveUp, GiveUp
      <4>5. UNCHANGED <<balance, credits, owed>>
        BY <3>3 DEF EarningWritten
      <4> QED BY <3>1, <4>1, <4>3, <4>4, <4>5
    <3> QED BY <2>12, <3>2, <3>3, EarnCases DEF Earned, EarningLost
  <2>13. ASSUME NEW b \in Blocks, NextBlock(b) PROVE TypeOK'
    BY <2>13 DEF NextBlock
  <2>14. ASSUME NEW m \in Miners, Credit(m) PROVE TypeOK'
    <3>1. current \in Blocks
      BY <2>14 DEF Credit
    <3>2. PayStep
      BY <2>14, CreditCases
    <3>3. CASE GaveUp
      BY <3>2, <3>3 DEF GaveUp, GiveUp
    <3>4. CASE CreditWritten(m)
      <4>1. credits' \in [Blocks -> [Miners -> Nat]]
        <5>1. credits' = [credits EXCEPT ![current][m] = @ + 1]
          BY <3>4 DEF CreditWritten
        <5> QED BY <3>1, <5>1
      <4>2. balance' \in [Miners -> Nat]
        BY <3>1, <3>4 DEF CreditWritten
      <4>3. /\ payees' \subseteq Miners /\ paying' \in Miners \cup {NoMiner}
            /\ place' \in {"pass", "earn"} /\ rpcErrors' \in Nat
            /\ dbFailures' \in Nat /\ crashes' \in Nat
        BY <2>14, CreditCases DEF Credited, CreditLost, GaveUp, GiveUp
      <4>4. UNCHANGED <<earnings, owed, distributed>>
        BY <3>4 DEF CreditWritten
      <4> QED BY <3>2, <4>1, <4>2, <4>3, <4>4
    <3> QED BY <2>14, <3>3, <3>4, CreditCases DEF Credited, CreditLost
  <2> QED BY <1>1, <2>1, <2>2, <2>3, <2>4, <2>5, <2>6, <2>7,
             <2>8, <2>9, <2>10, <2>11, <2>12, <2>13, <2>14 DEF Tracker
<1>2. ASSUME NEW b \in Blocks, Found(b) \/ Mine(b) \/ Reorg(b) PROVE TypeOK'
  <2>1. CASE Found(b)
    BY <2>1 DEF Found
  <2>2. CASE Mine(b)
    BY <2>2 DEF Mine
  <2>3. CASE Reorg(b)
    BY <2>3 DEF Reorg
  <2> QED BY <1>2, <2>1, <2>2, <2>3
<1>3. CASE Crash
  BY <1>3 DEF Crash
<1>4. CASE UNCHANGED vars
  BY <1>4 DEF vars
<1> QED BY <1>1, <1>2, <1>3, <1>4 DEF Next, Chain

\* No step of another process settles a row of the snapshot.
LEMMA RowsStep ==
  TypeOK /\ RowsInHand /\ [Next]_vars => RowsInHand'
<1> USE ConstantsAssumption DEF TypeOK, RowsInHand, Lookups, Writes, Paying, Statuses,
        NoFault, RpcFails, DbFails, LookupStep, PayStep, ChainStep, tableVars,
        moneyVars, chainVars, lookupVars, payVars, trackerVars, faultVars
<1> SUFFICES ASSUME TypeOK, RowsInHand, [Next]_vars PROVE RowsInHand'
  OBVIOUS
<1>1. ASSUME Tracker PROVE RowsInHand'
  <2>1. CASE Tick
    BY <2>1 DEF Tick, PendingBlocks
  <2>2. CASE EndPass
    BY <2>2 DEF EndPass
  <2>3. CASE AskByHash
    BY <2>3 DEF AskByHash, LookupFails, GetBlock, InBestChain
  <2>4. CASE AskByHeight
    BY <2>4 DEF AskByHeight, GetBlockHash
  <2>5. CASE Rename
    BY <2>5 DEF Rename
  <2>6. CASE AskAgain
    BY <2>6 DEF AskAgain, LookupFails, GetBlock, InBestChain
  <2>7. CASE Judge
    BY <2>7 DEF Judge
  <2>8. CASE Orphan
    BY <2>8 DEF Orphan, WriteStep, Done, AbortPass, SetStatus, NothingWritten
  <2>9. CASE Count
    BY <2>9 DEF Count, WriteStep, Done, AbortPass, SetConfirmations, NothingWritten, AfterCount
  <2>10. CASE Confirm
    BY <2>10 DEF Confirm, WriteStep, Done, AbortPass, SetStatus, NothingWritten
  <2>11. CASE ReadShares
    BY <2>11 DEF ReadShares, GiveUp
  <2>12. CASE Earn
    BY <2>12 DEF Earn, EarningWritten, GiveUp
  <2>13. ASSUME NEW b \in Blocks, NextBlock(b) PROVE RowsInHand'
    BY <2>13 DEF NextBlock
  <2>14. ASSUME NEW m \in Miners, Credit(m) PROVE RowsInHand'
    BY <2>14 DEF Credit, CreditWritten, GiveUp
  <2> QED BY <1>1, <2>1, <2>2, <2>3, <2>4, <2>5, <2>6, <2>7,
             <2>8, <2>9, <2>10, <2>11, <2>12, <2>13, <2>14 DEF Tracker
<1>2. ASSUME NEW b \in Blocks, Found(b) \/ Mine(b) \/ Reorg(b) PROVE RowsInHand'
  <2>1. CASE Found(b)
    BY <2>1 DEF Found
  <2>2. CASE Mine(b)
    BY <2>2 DEF Mine
  <2>3. CASE Reorg(b)
    BY <2>3 DEF Reorg
  <2> QED BY <1>2, <2>1, <2>2, <2>3
<1>3. CASE Crash
  BY <1>3 DEF Crash
<1>4. CASE UNCHANGED vars
  BY <1>4 DEF vars
<1> QED BY <1>1, <1>2, <1>3, <1>4 DEF Next, Chain

\* Only a confirmed row is paid.
LEMMA UnpaidStep ==
  TypeOK /\ RowsInHand /\ NothingPaidYet /\ [Next]_vars => NothingPaidYet'
<1> USE DEF TypeOK, RowsInHand, NothingPaidYet, Unpaid, Lookups, Writes, Paying,
        NoFault, RpcFails, DbFails, LookupStep, PayStep, ChainStep, tableVars,
        moneyVars, chainVars, lookupVars, payVars, trackerVars, faultVars
<1> SUFFICES ASSUME TypeOK, RowsInHand, NothingPaidYet, [Next]_vars PROVE NothingPaidYet'
  OBVIOUS
<1>1. ASSUME Tracker PROVE NothingPaidYet'
  <2>1. CASE Tick
    BY <2>1 DEF Tick, PendingBlocks
  <2>2. CASE EndPass
    BY <2>2 DEF EndPass
  <2>3. CASE AskByHash
    BY <2>3 DEF AskByHash, LookupFails, GetBlock, InBestChain
  <2>4. CASE AskByHeight
    BY <2>4 DEF AskByHeight, GetBlockHash
  <2>5. CASE Rename
    BY <2>5 DEF Rename
  <2>6. CASE AskAgain
    BY <2>6 DEF AskAgain, LookupFails, GetBlock, InBestChain
  <2>7. CASE Judge
    BY <2>7 DEF Judge
  <2>8. CASE Orphan
    BY <2>8 DEF Orphan, WriteStep, Done, AbortPass, SetStatus, NothingWritten
  <2>9. CASE Count
    BY <2>9 DEF Count, WriteStep, Done, AbortPass, SetConfirmations, NothingWritten, AfterCount
  <2>10. CASE Confirm
    BY <2>10 DEF Confirm, WriteStep, Done, AbortPass, SetStatus, NothingWritten
  <2>11. CASE ReadShares
    BY <2>11 DEF ReadShares, GiveUp
  <2>12. CASE Earn
    BY <2>12 DEF Earn, EarningWritten, GiveUp
  <2>13. ASSUME NEW b \in Blocks, NextBlock(b) PROVE NothingPaidYet'
    BY <2>13 DEF NextBlock
  <2>14. ASSUME NEW m \in Miners, Credit(m) PROVE NothingPaidYet'
    <3>1. current \in Blocks /\ status[current] = "confirmed"
      BY <2>14 DEF Credit
    <3>2. \A b \in Blocks \ {current} : credits'[b] = credits[b]
      BY <2>14 DEF Credit, CreditWritten, GiveUp
    <3>3. UNCHANGED <<status, earnings, owed, distributed>>
      BY <2>14 DEF Credit, CreditWritten, GiveUp
    <3>4. place' # "shares"
      BY <2>14 DEF Credit, CreditWritten, GiveUp
    <3> QED BY <3>1, <3>2, <3>3, <3>4
  <2> QED BY <1>1, <2>1, <2>2, <2>3, <2>4, <2>5, <2>6, <2>7,
             <2>8, <2>9, <2>10, <2>11, <2>12, <2>13, <2>14 DEF Tracker
<1>2. ASSUME NEW b \in Blocks, Found(b) \/ Mine(b) \/ Reorg(b) PROVE NothingPaidYet'
  <2>1. CASE Found(b)
    BY <2>1 DEF Found
  <2>2. CASE Mine(b)
    BY <2>2 DEF Mine
  <2>3. CASE Reorg(b)
    BY <2>3 DEF Reorg
  <2> QED BY <1>2, <2>1, <2>2, <2>3
<1>3. CASE Crash
  BY <1>3 DEF Crash
<1>4. CASE UNCHANGED vars
  BY <1>4 DEF vars
<1> QED BY <1>1, <1>2, <1>3, <1>4 DEF Next, Chain

\* A distribution pays its miners one by one.
LEMMA ProgressStep ==
  TypeOK /\ RowsInHand /\ NothingPaidYet /\ Progress /\ [Next]_vars => Progress'
<1> USE ConstantsAssumption DEF TypeOK, RowsInHand, NothingPaidYet, Unpaid, Progress, Lookups, Writes, Paying,
        NoFault, RpcFails, DbFails, LookupStep, PayStep, ChainStep, tableVars,
        moneyVars, chainVars, lookupVars, payVars, trackerVars, faultVars
<1> SUFFICES ASSUME TypeOK, RowsInHand, NothingPaidYet, Progress, [Next]_vars PROVE Progress'
  OBVIOUS
<1>1. ASSUME Tracker PROVE Progress'
  <2>1. CASE Tick
    BY <2>1 DEF Tick, PendingBlocks
  <2>2. CASE EndPass
    BY <2>2 DEF EndPass
  <2>3. CASE AskByHash
    BY <2>3 DEF AskByHash, LookupFails, GetBlock, InBestChain
  <2>4. CASE AskByHeight
    BY <2>4 DEF AskByHeight, GetBlockHash
  <2>5. CASE Rename
    BY <2>5 DEF Rename
  <2>6. CASE AskAgain
    BY <2>6 DEF AskAgain, LookupFails, GetBlock, InBestChain
  <2>7. CASE Judge
    BY <2>7 DEF Judge
  <2>8. CASE Orphan
    BY <2>8 DEF Orphan, WriteStep, Done, AbortPass, SetStatus, NothingWritten
  <2>9. CASE Count
    BY <2>9 DEF Count, WriteStep, Done, AbortPass, SetConfirmations, NothingWritten, AfterCount
  <2>10. CASE Confirm
    BY <2>10 DEF Confirm, WriteStep, Done, AbortPass, SetStatus, NothingWritten
  <2>11. CASE ReadShares
    <3>1. current \in Blocks /\ Unpaid(current) /\ paying = NoMiner
      BY <2>11 DEF ReadShares
    <3>2. CASE GiveUp
      BY <3>2 DEF GiveUp
    <3>3. ASSUME NEW window \in SUBSET Miners,
                 payees' = window, owed' = [owed EXCEPT ![current] = window],
                 place' = IF window = {} THEN "pass" ELSE "credit",
                 distributed' = IF window = {} THEN distributed \cup {current}
                                               ELSE distributed,
                 UNCHANGED <<current, paying, earnings, credits>>
          PROVE  Progress'
      <4>1. owed'[current] = window
        BY <3>1, <3>3
      <4> QED BY <3>1, <3>3, <4>1
    <3> QED BY <2>11, <3>2, <3>3 DEF ReadShares
  <2>12. CASE Earn
    BY <2>12 DEF Earn, EarningWritten, GiveUp
  <2>13. ASSUME NEW b \in Blocks, NextBlock(b) PROVE Progress'
    BY <2>13 DEF NextBlock
  <2>14. ASSUME NEW m \in Miners, Credit(m) PROVE Progress'
    <3>1. PayStep /\ current \in Blocks /\ paying = NoMiner /\ m \in payees
      BY <2>14, CreditCases
    <3>2. CASE GiveUp
      BY <3>2 DEF GiveUp
    <3>3. CASE Credited(m)
      <4>1. \A n \in Miners : n # paying
        BY <3>1
      <4>2. credits[current][m] = 0 /\ earnings[current][m] = 0
        BY <2>14, <3>1, <4>1, CreditCases
      <4>3. paying' = m /\ place' = "earn"
        BY <3>3 DEF Credited
      <4>4. credits'[current][m] = 1
        BY <3>1, <3>3, <4>2, CreditedCounts DEF Credited
      <4>5. \A n \in Miners : n # m => credits'[current][n] = credits[current][n]
        BY <3>1, <3>3, CreditedCounts DEF Credited
      <4>6. UNCHANGED <<payees, earnings, owed, distributed>>
        BY <3>3 DEF Credited, CreditWritten
      <4>7. place = "credit"
        BY <2>14, CreditCases
      <4> QED BY <3>1, <4>1, <4>2, <4>3, <4>4, <4>5, <4>6, <4>7
    <3> QED BY <2>14, <3>2, <3>3, CreditCases DEF CreditLost, GaveUp
  <2> QED BY <1>1, <2>1, <2>2, <2>3, <2>4, <2>5, <2>6, <2>7,
             <2>8, <2>9, <2>10, <2>11, <2>12, <2>13, <2>14 DEF Tracker
<1>2. ASSUME NEW b \in Blocks, Found(b) \/ Mine(b) \/ Reorg(b) PROVE Progress'
  <2>1. CASE Found(b)
    BY <2>1 DEF Found
  <2>2. CASE Mine(b)
    BY <2>2 DEF Mine
  <2>3. CASE Reorg(b)
    BY <2>3 DEF Reorg
  <2> QED BY <1>2, <2>1, <2>2, <2>3
<1>3. CASE Crash
  BY <1>3 DEF Crash
<1>4. CASE UNCHANGED vars
  BY <1>4 DEF vars
<1> QED BY <1>1, <1>2, <1>3, <1>4 DEF Next, Chain

\* A block with all its credits recorded stays right when it is credited to one
\* more miner of its window, as long as it is not called distributed.
LEMMA OneMorePaid ==
  ASSUME NEW b \in Blocks, NEW m \in Miners,
         PaidRight(b), earnings[b] \in [Miners -> Nat], earnings[b][m] = 0,
         earnings'[b] = earnings[b], owed'[b] = owed[b], b \notin distributed',
         credits'[b][m] = 1, m \in owed[b],
         \A n \in Miners : n # m => /\ credits'[b][n] = credits[b][n]
                                    /\ earnings[b][n] = credits'[b][n]
  PROVE  PaidRight(b)'
<1>1. ASSUME NEW n \in Miners, n # m
      PROVE  /\ credits'[b][n] <= 1 /\ earnings'[b][n] <= credits'[b][n]
             /\ credits'[b][n] > 0 => n \in owed'[b]
             /\ ~(earnings'[b][n] < credits'[b][n])
  <2>1. earnings[b][n] \in Nat /\ earnings[b][n] = credits'[b][n]
    BY <1>1
  <2>2. credits[b][n] <= 1 /\ (credits[b][n] > 0 => n \in owed[b])
    BY DEF PaidRight
  <2> QED BY <1>1, <2>1, <2>2
<1>2. /\ credits'[b][m] <= 1 /\ earnings'[b][m] <= credits'[b][m]
      /\ credits'[b][m] > 0 => m \in owed'[b]
  OBVIOUS
<1>3. \A n \in Miners : /\ credits'[b][n] <= 1 /\ earnings'[b][n] <= credits'[b][n]
                        /\ credits'[b][n] > 0 => n \in owed'[b]
  BY <1>1, <1>2, Zenon
<1>4. \A n, k \in Miners : earnings'[b][n] < credits'[b][n]
                           /\ earnings'[b][k] < credits'[b][k] => n = k
  BY <1>1, Zenon
<1> QED BY <1>3, <1>4 DEF PaidRight

\* What was paid stays right.
LEMMA PaidStep ==
  TypeOK /\ RowsInHand /\ NothingPaidYet /\ Progress /\ Paid /\ [Next]_vars => Paid'
<1> USE ConstantsAssumption DEF TypeOK, RowsInHand, NothingPaidYet, Unpaid, Progress, Paid, PaidRight, Lookups, Writes, Paying,
        NoFault, RpcFails, DbFails, LookupStep, PayStep, ChainStep, tableVars,
        moneyVars, chainVars, lookupVars, payVars, trackerVars, faultVars
<1> SUFFICES ASSUME TypeOK, RowsInHand, NothingPaidYet, Progress, Paid, [Next]_vars PROVE Paid'
  OBVIOUS
<1>1. ASSUME Tracker PROVE Paid'
  <2>1. CASE Tick
    BY <2>1 DEF Tick, PendingBlocks
  <2>2. CASE EndPass
    BY <2>2 DEF EndPass
  <2>3. CASE AskByHash
    BY <2>3 DEF AskByHash, LookupFails, GetBlock, InBestChain
  <2>4. CASE AskByHeight
    BY <2>4 DEF AskByHeight, GetBlockHash
  <2>5. CASE Rename
    BY <2>5 DEF Rename
  <2>6. CASE AskAgain
    BY <2>6 DEF AskAgain, LookupFails, GetBlock, InBestChain
  <2>7. CASE Judge
    BY <2>7 DEF Judge
  <2>8. CASE Orphan
    BY <2>8 DEF Orphan, WriteStep, Done, AbortPass, SetStatus, NothingWritten
  <2>9. CASE Count
    BY <2>9 DEF Count, WriteStep, Done, AbortPass, SetConfirmations, NothingWritten, AfterCount
  <2>10. CASE Confirm
    BY <2>10 DEF Confirm, WriteStep, Done, AbortPass, SetStatus, NothingWritten
  <2>11. CASE ReadShares
    BY <2>11 DEF ReadShares, GiveUp
  <2>12. CASE Earn
    <3>1. PayStep /\ current \in Blocks /\ paying \in payees /\ paying \in Miners
      BY <2>12, EarnCases
    <3>2. CASE GaveUp
      <4>1. UNCHANGED <<credits, earnings, owed, distributed>>
        BY <3>2 DEF GaveUp
      <4> QED BY <4>1
    <3>3. CASE EarningWritten /\ (Earned \/ EarningLost)
      <4>1. \A m \in Miners : earnings'[current][m] = credits'[current][m]
        BY <2>12, <3>1, <3>3, EarnedCounts, EarnCases
      <4>2. \/ distributed' = distributed /\ current \notin distributed
            \/ /\ distributed' = distributed \cup {current}
               /\ payees \ {paying} = {}
        BY <2>12, <3>1, <3>3, EarnCases DEF Earned, EarningLost
      <4>3. \A m \in owed[current] \ (payees \ {paying}) : credits[current][m] = 1
        BY <2>12, <3>1, EarnCases
      <4>4. \A b \in Blocks : b # current => earnings'[b] = earnings[b]
        BY <3>1, <3>3, EarnedCounts
      <4>5. UNCHANGED <<credits, owed>>
        BY <3>3 DEF EarningWritten
      <4> SUFFICES ASSUME NEW b \in Blocks
                   PROVE  PaidRight(b)'
        BY Zenon
      <4>6. CASE b = current
        <5>1. current \in distributed' =>
                \A m \in owed[current] : credits[current][m] = 1
          BY <4>2, <4>3
        <5>2. \A m \in Miners : credits[current][m] <= 1 /\ (credits[current][m] > 0 => m \in owed[current])
          BY <3>1
        <5>3. \A m \in Miners : credits[current][m] \in Nat
          BY <3>1
        <5>4. owed[current] \subseteq Miners
          BY <3>1
        <5> HIDE DEF TypeOK, RowsInHand, NothingPaidYet, Progress, Paid
        <5> QED BY <4>1, <4>5, <4>6, <5>1, <5>2, <5>3, <5>4
      <4>7. CASE b # current
        BY <3>1, <4>2, <4>4, <4>5, <4>7
      <4> QED BY <4>6, <4>7
    <3> QED BY <2>12, <3>2, <3>3, EarnCases DEF Earned, EarningLost
  <2>13. ASSUME NEW b \in Blocks, NextBlock(b) PROVE Paid'
    BY <2>13 DEF NextBlock
  <2>14. ASSUME NEW m \in Miners, Credit(m) PROVE Paid'
    <3>1. /\ PayStep /\ current \in Blocks /\ paying = NoMiner
          /\ m \in payees /\ m # paying /\ place = "credit"
      BY <2>14, CreditCases
    <3>2. CASE GaveUp
      <4>1. UNCHANGED <<credits, earnings, owed, distributed>>
        BY <3>2 DEF GaveUp
      <4> QED BY <4>1
    <3>3. CASE CreditWritten(m)
      <4>1. credits'[current][m] = 1 /\ m \in owed[current]
        <5>1. credits[current][m] = 0 /\ m \in owed[current]
          BY <3>1
        <5> QED BY <3>1, <3>3, <5>1, CreditedCounts
      <4>2. \A n \in Miners : n # m => earnings[current][n] = credits'[current][n]
        <5>1. \A n \in Miners : earnings[current][n] = credits[current][n]
          BY <3>1
        <5> QED BY <3>1, <3>3, <5>1, CreditedCounts
      <4>3. current \notin distributed
        BY <3>1
      <4>4. \A b \in Blocks : b # current => credits'[b] = credits[b]
        BY <3>1, <3>3, CreditedCounts
      <4>5. UNCHANGED <<earnings, owed, distributed>>
        BY <3>3 DEF CreditWritten
      <4>6. \A n \in Miners : n # m => credits'[current][n] = credits[current][n]
        BY <3>1, <3>3, CreditedCounts
      <4> SUFFICES ASSUME NEW b \in Blocks
                   PROVE  PaidRight(b)'
        BY Zenon
      <4>7. CASE b = current
        <5>1. PaidRight(b) /\ earnings[b] \in [Miners -> Nat] /\ earnings[b][m] = 0
          BY <3>1, <4>7
        <5>2. earnings'[b] = earnings[b] /\ owed'[b] = owed[b] /\ b \notin distributed'
          BY <4>3, <4>5, <4>7
        <5>3. credits'[b][m] = 1 /\ m \in owed[b]
          BY <4>1, <4>7
        <5>4. \A n \in Miners : n # m => /\ credits'[b][n] = credits[b][n]
                                         /\ earnings[b][n] = credits'[b][n]
          BY <4>2, <4>6, <4>7
        <5> HIDE DEF TypeOK, RowsInHand, NothingPaidYet, Progress, Paid, PaidRight
        <5> QED BY <5>1, <5>2, <5>3, <5>4, OneMorePaid
      <4>8. CASE b # current
        <5>1. credits'[b] = credits[b]
          BY <4>4, <4>8
        <5>2. UNCHANGED <<earnings[b], owed[b], distributed>>
          BY <4>5
        <5>3. PaidRight(b)
          OBVIOUS
        <5> QED BY <5>1, <5>2, <5>3
      <4> QED BY <4>7, <4>8
    <3> QED BY <2>14, <3>2, <3>3, CreditCases DEF Credited, CreditLost
  <2> QED BY <1>1, <2>1, <2>2, <2>3, <2>4, <2>5, <2>6, <2>7,
             <2>8, <2>9, <2>10, <2>11, <2>12, <2>13, <2>14 DEF Tracker
<1>2. ASSUME NEW b \in Blocks, Found(b) \/ Mine(b) \/ Reorg(b) PROVE Paid'
  <2>1. CASE Found(b)
    BY <2>1 DEF Found
  <2>2. CASE Mine(b)
    BY <2>2 DEF Mine
  <2>3. CASE Reorg(b)
    BY <2>3 DEF Reorg
  <2> QED BY <1>2, <2>1, <2>2, <2>3
<1>3. CASE Crash
  BY <1>3 DEF Crash
<1>4. CASE UNCHANGED vars
  BY <1>4 DEF vars
<1> QED BY <1>1, <1>2, <1>3, <1>4 DEF Next, Chain

\* The daemon never disowns a block of the best chain; a text may.
LEMMA StaleStep ==
  TypeOK /\ RowsInHand /\ NeverStale /\ [Next]_vars => NeverStale'
<1> USE DEF TypeOK, RowsInHand, NeverStale, Names, Answers, NoAnswer, Misread, Lookups, Writes, Paying,
        NoFault, RpcFails, DbFails, LookupStep, PayStep, ChainStep, tableVars,
        moneyVars, chainVars, lookupVars, payVars, trackerVars, faultVars
<1> SUFFICES ASSUME TypeOK, RowsInHand, NeverStale, [Next]_vars PROVE NeverStale'
  OBVIOUS
<1>1. ASSUME Tracker PROVE NeverStale'
  <2>1. CASE Tick
    BY <2>1 DEF Tick, PendingBlocks
  <2>2. CASE EndPass
    BY <2>2 DEF EndPass
  <2>3. CASE AskByHash
    BY <2>3 DEF AskByHash, LookupFails, GetBlock, InBestChain
  <2>4. CASE AskByHeight
    BY <2>4 DEF AskByHeight, GetBlockHash
  <2>5. CASE Rename
    BY <2>5 DEF Rename
  <2>6. CASE AskAgain
    BY <2>6 DEF AskAgain, LookupFails, GetBlock, InBestChain
  <2>7. CASE Judge
    BY <2>7 DEF Judge
  <2>8. CASE Orphan
    BY <2>8 DEF Orphan, WriteStep, Done, AbortPass, SetStatus, NothingWritten
  <2>9. CASE Count
    BY <2>9 DEF Count, WriteStep, Done, AbortPass, SetConfirmations, NothingWritten, AfterCount
  <2>10. CASE Confirm
    BY <2>10 DEF Confirm, WriteStep, Done, AbortPass, SetStatus, NothingWritten
  <2>11. CASE ReadShares
    BY <2>11 DEF ReadShares, GiveUp
  <2>12. CASE Earn
    BY <2>12 DEF Earn, EarningWritten, GiveUp
  <2>13. ASSUME NEW b \in Blocks, NextBlock(b) PROVE NeverStale'
    BY <2>13 DEF NextBlock
  <2>14. ASSUME NEW m \in Miners, Credit(m) PROVE NeverStale'
    BY <2>14 DEF Credit, CreditWritten, GiveUp
  <2> QED BY <1>1, <2>1, <2>2, <2>3, <2>4, <2>5, <2>6, <2>7,
             <2>8, <2>9, <2>10, <2>11, <2>12, <2>13, <2>14 DEF Tracker
<1>2. ASSUME NEW b \in Blocks, Found(b) \/ Mine(b) \/ Reorg(b) PROVE NeverStale'
  <2>1. CASE Found(b)
    BY <2>1 DEF Found
  <2>2. CASE Mine(b)
    BY <2>2 DEF Mine
  <2>3. CASE Reorg(b)
    BY <2>3 DEF Reorg
  <2> QED BY <1>2, <2>1, <2>2, <2>3
<1>3. CASE Crash
  BY <1>3 DEF Crash
<1>4. CASE UNCHANGED vars
  BY <1>4 DEF vars
<1> QED BY <1>1, <1>2, <1>3, <1>4 DEF Next, Chain

-----------------------------------------------------------------------------
\* The strengthened invariant holds in every reachable state.
THEOREM IInvHolds == Spec => []IInv
<1>1. Init => IInv
  BY InitIInv
<1>2. IInv /\ [Next]_vars => IInv'
  BY TypeStep, RowsStep, UnpaidStep, ProgressStep, PaidStep, StaleStep DEF IInv
<1> QED BY <1>1, <1>2, PTL DEF Spec

\* Every variable keeps its type.
THEOREM TypeCorrect == Spec => []TypeOK
<1>1. IInv => TypeOK
  BY DEF IInv
<1> QED BY <1>1, IInvHolds, PTL

\* No crash, error or repeated pass pays a block to a miner twice.
THEOREM NoDoublePayment == Spec => []PaidAtMostOnce
<1>1. IInv => PaidAtMostOnce
  BY DEF IInv, Paid, PaidRight, PaidAtMostOnce
<1> QED BY <1>1, IInvHolds, PTL

\* At most one miner per block is credited without a recorded earning.
THEOREM EarningsTrail == Spec => []EarningsTrailCredits
<1>1. IInv => EarningsTrailCredits
  BY DEF IInv, Paid, PaidRight, EarningsTrailCredits
<1> QED BY <1>1, IInvHolds, PTL

\* A block that never left the best chain is orphaned by nothing but a failing
\* daemon call whose text reads like its absence.
THEOREM OrphansExplained == Spec => []OrphanedHasACause
<1>1. IInv => OrphanedHasACause
  BY DEF IInv, NeverStale, OrphanedHasACause
<1> QED BY <1>1, IInvHolds, PTL

\* A verdict on a row is never revised.
THEOREM VerdictsAreFinal == Spec => SettledIsFinal
<1>1. IInv /\ [Next]_vars =>
        [\A b \in Blocks : status[b] \in {"confirmed", "orphaned"}
                              => status'[b] = status[b]]_vars
  <2> USE DEF TypeOK, RowsInHand, Writes, tableVars, LookupStep, PayStep, ChainStep
  <2> SUFFICES ASSUME TypeOK, RowsInHand, Next,
                      NEW b \in Blocks, status[b] \in {"confirmed", "orphaned"}
               PROVE  status'[b] = status[b]
    BY DEF IInv
  <2>1. CASE Orphan \/ Confirm
    BY <2>1 DEF Orphan, Confirm, SetStatus, NothingWritten
  <2>2. CASE Tracker /\ ~(Orphan \/ Confirm)
    BY <2>2 DEF Tracker, Tick, EndPass, NextBlock, AskByHash, AskByHeight, Rename,
                AskAgain, Judge, Count, SetConfirmations, NothingWritten,
                ReadShares, Credit, Earn
  <2>3. CASE Chain
    BY <2>3 DEF Chain, Found, Mine, Reorg
  <2>4. CASE Crash
    BY <2>4 DEF Crash
  <2> QED BY <2>1, <2>2, <2>3, <2>4 DEF Next
<1> QED BY <1>1, IInvHolds, PTL DEF Spec, SettledIsFinal

-----------------------------------------------------------------------------
(* Blocks left unpaid.                                                     *)

\* Confirmed blocks without a full distribution that nobody works on.
Late == {b \in Blocks : /\ status[b] = "confirmed" /\ b \notin distributed
                        /\ ~(place \in Paying /\ b = current)}

\* They are finitely many, and a fault can be named for each.
LateCounted == IsFiniteSet(Late) /\ Cardinality(Late) <= crashes + dbFailures

\* The set may shrink when no fault is counted, and take one block more when
\* one is.
LateGrows ==
  \/ Late' \subseteq Late /\ crashes' + dbFailures' >= crashes + dbFailures
  \/ /\ Late' \subseteq Late \cup {current}
     /\ crashes' + dbFailures' = crashes + dbFailures + 1

\* Two counters have a sum.
LEMMA SumsAreNat ==
  \A m, n \in Nat : m + n \in Nat
OBVIOUS

\* Counters that do not fall have a sum that does not fall.
LEMMA SumsGrow ==
  \A m, n, k, l \in Nat : k >= m /\ l >= n => k + l >= m + n
OBVIOUS

\* A step that does not touch the marks leaves the set alone.
LEMMA LateUntouched ==
  ASSUME TypeOK, UNCHANGED <<status, distributed>>,
         place \in Paying => place' \in Paying /\ current' = current,
         crashes' \in Nat, dbFailures' \in Nat,
         crashes' >= crashes, dbFailures' >= dbFailures
  PROVE  LateGrows
<1>1. Late' \subseteq Late
  BY DEF Late
<1>2. crashes' + dbFailures' >= crashes + dbFailures
  BY SumsGrow DEF TypeOK
<1> QED BY <1>1, <1>2, Zenon DEF LateGrows

\* A distribution that ends by itself marks its block.
LEMMA LateDistributed ==
  ASSUME TypeOK, distributed' = distributed \cup {current},
         UNCHANGED <<status, current>>, NoFault
  PROVE  LateGrows
<1>1. Late' \subseteq Late
  BY DEF Late
<1>2. crashes' + dbFailures' >= crashes + dbFailures
  BY DEF TypeOK, NoFault, faultVars
<1> QED BY <1>1, <1>2, Zenon DEF LateGrows

\* A distribution given up leaves its block behind, and a failure is counted.
LEMMA LateGivenUp ==
  ASSUME TypeOK, GiveUp, PayStep, UNCHANGED distributed
  PROVE  LateGrows
<1>1. /\ UNCHANGED <<status, distributed, current, crashes>>
      /\ dbFailures' = dbFailures + 1
  BY DEF GiveUp, PayStep, DbFails, tableVars
<1>2. Late' \subseteq Late \cup {current}
  BY <1>1 DEF Late
<1>3. crashes' + dbFailures' = crashes + dbFailures + 1
  BY <1>1 DEF TypeOK
<1> QED BY <1>2, <1>3 DEF LateGrows

\* Every step lets the set grow by what it counts.
LEMMA EveryStepLate == IInv /\ [Next]_vars => LateGrows
<1> SUFFICES ASSUME IInv, [Next]_vars PROVE LateGrows
  OBVIOUS
<1>0. TypeOK /\ RowsInHand /\ Progress
  BY DEF IInv
<1>c. crashes \in Nat /\ dbFailures \in Nat /\ rpcErrors \in Nat
  BY <1>0 DEF TypeOK
<1> USE DEF Lookups, Writes, Paying, tableVars, moneyVars, chainVars, lookupVars,
            payVars, trackerVars, faultVars, NoFault, RpcFails, DbFails
<1>1. ASSUME Tracker PROVE LateGrows
  <2>1. CASE Tick
    BY <1>0, <1>c, <2>1, LateUntouched DEF Tick
  <2>2. CASE EndPass
    BY <1>0, <1>c, <2>2, LateUntouched DEF EndPass
  <2>3. CASE AskByHash
    BY <1>0, <1>c, <2>3, LateUntouched DEF AskByHash, LookupFails, LookupStep
  <2>4. CASE AskByHeight
    BY <1>0, <1>c, <2>4, LateUntouched DEF AskByHeight, LookupStep
  <2>5. CASE Rename
    BY <1>0, <1>c, <2>5, LateUntouched DEF Rename, LookupStep
  <2>6. CASE AskAgain
    BY <1>0, <1>c, <2>6, LateUntouched DEF AskAgain, LookupFails, LookupStep
  <2>7. CASE Judge
    BY <1>0, <1>c, <2>7, LateUntouched DEF Judge, LookupStep
  <2>8. CASE Orphan
    <3>1. CASE NothingWritten /\ AbortPass
      BY <1>0, <1>c, <2>8, <3>1, LateUntouched DEF Orphan, WriteStep, AbortPass, NothingWritten
    <3>2. CASE SetStatus("orphaned") /\ (Done("pass") \/ AbortPass)
      <4>1. /\ place = "orphan"
            /\ status' = [status EXCEPT ![current] = "orphaned"]
            /\ UNCHANGED distributed
            /\ crashes' \in Nat /\ crashes' >= crashes
            /\ dbFailures' \in Nat /\ dbFailures' >= dbFailures
        BY <1>c, <2>8, <3>2 DEF Orphan, WriteStep, SetStatus, Done, AbortPass
      <4>2. Late' \subseteq Late
        BY <1>0, <4>1 DEF Late, TypeOK
      <4>3. crashes' + dbFailures' >= crashes + dbFailures
        BY <1>c, <4>1, SumsGrow, Zenon
      <4> QED BY <4>2, <4>3, Zenon DEF LateGrows
    <3> QED BY <2>8, <3>1, <3>2 DEF Orphan
  <2>9. CASE Count
    <3>1. /\ place \notin Paying
          /\ UNCHANGED <<status, distributed, crashes>>
          /\ dbFailures' \in Nat /\ dbFailures' >= dbFailures
      BY <1>c, <2>9 DEF Count, WriteStep, AbortPass, Done, SetConfirmations, NothingWritten
    <3> QED BY <1>0, <1>c, <3>1, LateUntouched
  <2>10. CASE Confirm
    <3>1. CASE NothingWritten /\ AbortPass
      BY <1>0, <1>c, <2>10, <3>1, LateUntouched DEF Confirm, WriteStep, AbortPass, NothingWritten
    <3>2. CASE SetStatus("confirmed") /\ Done("shares")
      <4>1. /\ place = "confirm" /\ place' = "shares" /\ current' = current
            /\ status' = [status EXCEPT ![current] = "confirmed"]
            /\ UNCHANGED <<distributed, crashes, dbFailures>>
        BY <2>10, <3>2 DEF Confirm, WriteStep, SetStatus, Done
      <4>2. Late' \subseteq Late
        BY <1>0, <4>1 DEF Late, TypeOK
      <4> QED BY <1>c, <4>1, <4>2 DEF LateGrows
    <3>3. CASE SetStatus("confirmed") /\ AbortPass
      <4>1. /\ place = "confirm"
            /\ status' = [status EXCEPT ![current] = "confirmed"]
            /\ UNCHANGED <<distributed, crashes>>
            /\ dbFailures' = dbFailures + 1
        BY <2>10, <3>3 DEF Confirm, WriteStep, SetStatus, AbortPass
      <4>2. Late' \subseteq Late \cup {current}
        BY <1>0, <4>1 DEF Late, TypeOK
      <4>3. crashes' + dbFailures' = crashes + dbFailures + 1
        BY <1>c, <4>1
      <4> QED BY <4>2, <4>3, Zenon DEF LateGrows
    <3> QED BY <2>10, <3>1, <3>2, <3>3 DEF Confirm
  <2>11. CASE ReadShares
    <3>1. PayStep
      BY <2>11 DEF ReadShares
    <3>2. CASE GiveUp /\ UNCHANGED moneyVars
      BY <1>0, <3>1, <3>2, LateGivenUp
    <3>3. CASE NoFault /\ place' = "pass" /\ distributed' = distributed \cup {current}
      BY <1>0, <3>1, <3>3, LateDistributed DEF PayStep
    <3>4. CASE NoFault /\ place' = "credit" /\ distributed' = distributed
      BY <1>0, <1>c, <3>1, <3>4, LateUntouched DEF PayStep
    <3> QED BY <2>11, <3>2, <3>3, <3>4 DEF ReadShares
  <2>12. CASE Earn
    <3>1. PayStep /\ (Earned \/ EarningLost \/ GaveUp)
      BY <2>12, EarnCases
    <3>2. CASE EarningLost \/ GaveUp
      BY <1>0, <3>1, <3>2, LateGivenUp DEF EarningLost, GaveUp
    <3>3. CASE NoFault /\ distributed' = distributed \cup {current}
      BY <1>0, <3>1, <3>3, LateDistributed DEF PayStep
    <3>4. CASE NoFault /\ place' = "credit" /\ distributed' = distributed
      BY <1>0, <1>c, <3>1, <3>4, LateUntouched DEF PayStep
    <3> QED BY <3>1, <3>2, <3>3, <3>4 DEF Earned
  <2>13. ASSUME NEW b \in Blocks, NextBlock(b) PROVE LateGrows
    BY <1>0, <1>c, <2>13, LateUntouched DEF NextBlock
  <2>14. ASSUME NEW m \in Miners, Credit(m) PROVE LateGrows
    <3>1. PayStep /\ (Credited(m) \/ CreditLost(m) \/ GaveUp)
      BY <2>14, CreditCases
    <3>2. CASE CreditLost(m) \/ GaveUp
      BY <1>0, <3>1, <3>2, LateGivenUp DEF CreditLost, CreditWritten, GaveUp
    <3>3. CASE Credited(m)
      BY <1>0, <1>c, <3>1, <3>3, LateUntouched DEF PayStep, Credited, CreditWritten
    <3> QED BY <3>1, <3>2, <3>3
  <2> QED BY <1>1, <2>1, <2>2, <2>3, <2>4, <2>5, <2>6, <2>7,
             <2>8, <2>9, <2>10, <2>11, <2>12, <2>13, <2>14 DEF Tracker
<1>2. ASSUME NEW b \in Blocks, Found(b) \/ Mine(b) \/ Reorg(b) PROVE LateGrows
  <2>1. CASE Found(b)
    <3>1. /\ status' = [status EXCEPT ![b] = "pending"]
          /\ UNCHANGED <<distributed, place, current, crashes, dbFailures>>
      BY <2>1 DEF Found
    <3>2. Late' \subseteq Late
      BY <1>0, <3>1 DEF Late, TypeOK
    <3> QED BY <1>c, <3>1, <3>2 DEF LateGrows
  <2>2. CASE Mine(b)
    BY <1>0, <1>c, <2>2, LateUntouched DEF Mine, ChainStep
  <2>3. CASE Reorg(b)
    BY <1>0, <1>c, <2>3, LateUntouched DEF Reorg, ChainStep
  <2> QED BY <1>2, <2>1, <2>2, <2>3
<1>3. CASE Crash
  <2>1. UNCHANGED <<status, distributed, dbFailures>> /\ crashes' = crashes + 1
    BY <1>3 DEF Crash
  <2>2. Late' \subseteq Late \cup {current}
    BY <2>1 DEF Late
  <2> QED BY <1>c, <2>1, <2>2 DEF LateGrows
<1>4. CASE UNCHANGED vars
  BY <1>0, <1>c, <1>4, LateUntouched DEF vars
<1> QED BY <1>1, <1>2, <1>3, <1>4 DEF Next, Chain

\* What grows by what it counts stays counted.
LEMMA LateStep == IInv /\ LateCounted /\ [Next]_vars => LateCounted'
<1> SUFFICES ASSUME IInv, LateCounted, [Next]_vars PROVE LateCounted'
  OBVIOUS
<1>1. LateGrows
  BY EveryStepLate
<1>2. IsFiniteSet(Late) /\ Cardinality(Late) <= crashes + dbFailures
  BY DEF LateCounted
<1>3. /\ crashes \in Nat /\ dbFailures \in Nat
      /\ crashes' \in Nat /\ dbFailures' \in Nat
  BY TypeStep DEF IInv, TypeOK
<1>4. Cardinality(Late) \in Nat
  BY <1>2, FS_CardinalityType
<1>5. CASE /\ Late' \subseteq Late
           /\ crashes' + dbFailures' >= crashes + dbFailures
  <2>1. IsFiniteSet(Late') /\ Cardinality(Late') <= Cardinality(Late)
    BY <1>2, <1>5, FS_Subset
  <2>2. Cardinality(Late') \in Nat
    BY <2>1, FS_CardinalityType
  <2>3. Cardinality(Late') <= crashes' + dbFailures'
    <3>1. crashes + dbFailures \in Nat
      BY ONLY <1>3, SMT
    <3>2. crashes' + dbFailures' \in Nat
      BY ONLY <1>3, SumsAreNat
    <3> QED BY ONLY <1>2, <1>4, <1>5, <2>1, <2>2, <3>1, <3>2, SMT
  <2> QED BY <2>1, <2>3, Zenon DEF LateCounted
<1>6. CASE /\ Late' \subseteq Late \cup {current}
           /\ crashes' + dbFailures' = crashes + dbFailures + 1
  <2>1. /\ IsFiniteSet(Late \cup {current})
        /\ Cardinality(Late \cup {current})
             = IF current \in Late THEN Cardinality(Late) ELSE Cardinality(Late) + 1
    BY <1>2, FS_AddElement
  <2>2. Cardinality(Late \cup {current}) <= Cardinality(Late) + 1
    BY <1>4, <2>1
  <2>3. /\ IsFiniteSet(Late')
        /\ Cardinality(Late') <= Cardinality(Late \cup {current})
    BY <1>6, <2>1, FS_Subset
  <2>4. Cardinality(Late') \in Nat /\ Cardinality(Late \cup {current}) \in Nat
    BY <2>1, <2>3, FS_CardinalityType
  <2>5. Cardinality(Late') <= crashes' + dbFailures'
    <3>1. crashes + dbFailures \in Nat
      BY ONLY <1>3, SMT
    <3>2. crashes' + dbFailures' \in Nat
      BY ONLY <1>3, SumsAreNat
    <3> QED BY ONLY <1>2, <1>4, <1>6, <2>2, <2>3, <2>4, <3>1, <3>2, SMT
  <2> QED BY <2>3, <2>5, Zenon DEF LateCounted
<1> QED BY <1>1, <1>5, <1>6 DEF LateGrows

\* Every confirmed block left without its full distribution is paid for by a
\* crash or a failed statement of its own.
THEOREM UnpaidExplained == Spec => []UnpaidHaveACause
<1>1. Init => IInv /\ LateCounted
  <2> SUFFICES ASSUME Init PROVE LateCounted
    BY InitIInv
  <2>1. Late = {}
    BY DEF Init, Late
  <2>2. IsFiniteSet({}) /\ Cardinality({}) = 0
    BY FS_EmptySet
  <2> QED BY <2>1, <2>2 DEF Init, LateCounted
<1>2. IInv /\ LateCounted /\ [Next]_vars => LateCounted'
  BY LateStep
<1>3. IInv /\ LateCounted => UnpaidHaveACause
  <2> SUFFICES ASSUME IInv, LateCounted PROVE UnpaidHaveACause
    OBVIOUS
  <2> DEFINE Left == {b \in Blocks \ {current} :
                        status[b] = "confirmed" /\ b \notin distributed}
  <2>1. Left \subseteq Late
    BY DEF Late
  <2>2. IsFiniteSet(Late) /\ Cardinality(Late) <= crashes + dbFailures
    BY DEF LateCounted
  <2>3. IsFiniteSet(Left) /\ Cardinality(Left) <= Cardinality(Late)
    BY <2>1, <2>2, FS_Subset
  <2>4. Cardinality(Left) \in Nat /\ Cardinality(Late) \in Nat
    BY <2>2, <2>3, FS_CardinalityType
  <2>5. crashes \in Nat /\ dbFailures \in Nat
    BY DEF IInv, TypeOK
  <2>6. Cardinality(Left) <= crashes + dbFailures
    BY <2>2, <2>3, <2>4, <2>5
  <2> QED BY <2>6 DEF UnpaidHaveACause
<1> QED BY <1>1, <1>2, <1>3, IInvHolds, PTL DEF Spec

-----------------------------------------------------------------------------
(* The tracker implements BlockSettlement.                                 *)

Open == IF place \in Paying THEN current ELSE NoBlock
PaidTo == [b \in Blocks |-> {m \in Miners : credits[b][m] > 0}]

\* A step that leaves the mapped state alone.
Stutters == UNCHANGED <<status, Open, PaidTo, balance>>

\* A credit is a payment of the open block, giving up closes it.
LEMMA CreditRefines ==
  ASSUME IInv, NEW m \in Miners, Credit(m)
  PROVE  Settlement!Pay(m) \/ Settlement!Close
<1> USE DEF IInv, TypeOK, RowsInHand, Paying, Open, PaidTo
<1>1. /\ place = "credit" /\ m \in payees /\ current \in Blocks
      /\ UNCHANGED <<status, current>>
  BY DEF Credit, PayStep, tableVars
<1>2. CASE CreditWritten(m) /\ (Credited(m) \/ CreditLost(m))
  <2>1. credits[current][m] = 0
    BY <1>1, ConstantsAssumption DEF Progress
  <2>2. /\ place' \in {"earn", "pass"}
        /\ balance' = [balance EXCEPT ![m] = @ + Part[current][m]]
    BY <1>2 DEF Credited, CreditLost, CreditWritten, GiveUp
  <2>3. /\ credits'[current][m] = 1
        /\ \A n \in Miners : n # m => credits'[current][n] = credits[current][n]
        /\ \A b \in Blocks : b # current => credits'[b] = credits[b]
    BY <1>1, <1>2, <2>1, CreditedCounts
  <2>4. PaidTo' = [PaidTo EXCEPT ![current] = @ \cup {m}]
    <3>1. PaidTo'[current] = PaidTo[current] \cup {m}
      BY <1>1, <2>1, <2>3
    <3>2. \A b \in Blocks : b # current => PaidTo'[b] = PaidTo[b]
      BY <1>1, <2>3
    <3> QED BY <1>1, <3>1, <3>2
  <2>5. m \notin PaidTo[current]
    BY <1>1, <2>1
  <2> QED BY <1>1, <2>2, <2>4, <2>5 DEF Settlement!Pay
<1>3. CASE GaveUp
  <2>1. UNCHANGED <<credits, balance>> /\ place' = "pass"
    BY <1>3 DEF GaveUp, GiveUp, moneyVars
  <2> QED BY <1>1, <2>1 DEF Settlement!Close
<1> QED BY <1>2, <1>3, CreditCases DEF Credited, CreditLost

\* Recording an earning changes nothing the miners were promised, unless it
\* is the last one or fails.
LEMMA EarnRefines ==
  ASSUME IInv, Earn
  PROVE  Stutters \/ Settlement!Close
<1> USE DEF IInv, TypeOK, RowsInHand, Paying, Open, PaidTo
<1>1. /\ place = "earn" /\ current \in Blocks /\ place' \in {"pass", "credit"}
      /\ UNCHANGED <<status, current, credits, balance>>
  BY DEF Earn, EarningWritten, PayStep, tableVars, GiveUp, moneyVars
<1>2. CASE place' = "pass"
  BY <1>1, <1>2 DEF Settlement!Close
<1>3. CASE place' = "credit"
  BY <1>1, <1>3 DEF Stutters
<1> QED BY <1>1, <1>2, <1>3

\* Reading the window pays nobody.
LEMMA SharesRefine ==
  ASSUME IInv, ReadShares
  PROVE  Stutters \/ Settlement!Close
<1> USE DEF IInv, TypeOK, RowsInHand, Paying, Open, PaidTo
<1>1. /\ place = "shares" /\ current \in Blocks /\ place' \in {"pass", "credit"}
      /\ UNCHANGED <<status, current, credits, balance>>
  BY DEF ReadShares, PayStep, tableVars, GiveUp, moneyVars
<1>2. CASE place' = "pass"
  BY <1>1, <1>2 DEF Settlement!Close
<1>3. CASE place' = "credit"
  BY <1>1, <1>3 DEF Stutters
<1> QED BY <1>1, <1>2, <1>3

\* The verdicts.
LEMMA VerdictsRefine ==
  ASSUME IInv, Orphan \/ Confirm
  PROVE  Stutters \/ \E b \in Blocks : Settlement!Orphan(b) \/ Settlement!Confirm(b)
<1> USE DEF IInv, TypeOK, RowsInHand, Writes, Paying, Open, PaidTo
<1>1. /\ place \in Writes /\ current \in Blocks /\ status[current] = "pending"
      /\ UNCHANGED <<credits, balance>>
  BY DEF Orphan, Confirm, WriteStep, moneyVars
<1>2. CASE NothingWritten /\ AbortPass
  BY <1>1, <1>2 DEF AbortPass, NothingWritten, Stutters
<1>3. CASE place = "orphan" /\ SetStatus("orphaned") /\ (Done("pass") \/ AbortPass)
  <2>1. PaidTo' = PaidTo
    BY <1>1
  <2>2. Open = NoBlock /\ Open' = NoBlock /\ UNCHANGED balance
    BY <1>1, <1>3 DEF Done, AbortPass
  <2>3. status' = [status EXCEPT ![current] = "orphaned"]
    BY <1>3 DEF SetStatus
  <2> QED BY <1>1, <2>1, <2>2, <2>3 DEF Settlement!Orphan
<1>4. CASE place = "confirm" /\ SetStatus("confirmed") /\ (Done("shares") \/ AbortPass)
  <2>1. PaidTo[current] = {}
    <3>1. Unpaid(current)
      BY <1>1 DEF NothingPaidYet
    <3>2. \A m \in Miners : ~(credits[current][m] > 0)
      BY <3>1 DEF Unpaid
    <3> QED BY <1>1, <3>2
  <2>2. PaidTo' = PaidTo
    BY <1>1
  <2>3. Open = NoBlock /\ Open' \in {current, NoBlock} /\ UNCHANGED balance
    BY <1>1, <1>4 DEF Done, AbortPass
  <2>4. status' = [status EXCEPT ![current] = "confirmed"]
    BY <1>4 DEF SetStatus
  <2> QED BY <1>1, <2>1, <2>2, <2>3, <2>4 DEF Settlement!Confirm
<1> QED BY <1>2, <1>3, <1>4 DEF Orphan, Confirm

\* The tracker's other steps look, count and move on.
LEMMA OtherStepsStutter ==
  ASSUME IInv,
         \/ Tick \/ EndPass \/ AskByHash \/ AskByHeight \/ Rename \/ AskAgain
         \/ Judge \/ Count
         \/ \E b \in Blocks : NextBlock(b) \/ Mine(b) \/ Reorg(b)
  PROVE  Stutters
<1>1. UNCHANGED <<status, credits, balance>>
  BY DEF Tick, EndPass, AskByHash, AskByHeight, Rename, AskAgain, Judge, Count,
         NextBlock, Mine, Reorg, tableVars, moneyVars, LookupStep, WriteStep,
         ChainStep, SetConfirmations, NothingWritten
<1>2. Open' = Open
  <2>1. CASE \E b \in Blocks : Mine(b) \/ Reorg(b)
    BY <2>1 DEF Mine, Reorg, ChainStep, trackerVars, Open
  <2>2. CASE ~\E b \in Blocks : Mine(b) \/ Reorg(b)
    <3>1. place \notin Paying /\ place' \notin Paying
      BY <2>2 DEF Tick, EndPass, AskByHash, AskByHeight, Rename, AskAgain, Judge,
                  Count, AfterCount, NextBlock, Paying, Done, AbortPass
    <3> QED BY <3>1 DEF Open
  <2> QED BY <2>1, <2>2
<1> QED BY <1>1, <1>2 DEF Stutters, PaidTo

\* Every step of the tracker, the chain or a crash maps to a step of
\* BlockSettlement or to none.
LEMMA StepRefines ==
  ASSUME IInv, [Next]_vars
  PROVE  [Settlement!Next]_(Settlement!vars)
<1> USE DEF Settlement!Next, Settlement!vars
<1>1. CASE Orphan \/ Confirm
  BY <1>1, VerdictsRefine DEF Stutters, Open, PaidTo
<1>2. CASE ReadShares
  BY <1>2, SharesRefine DEF Stutters, Open, PaidTo
<1>3. CASE Earn
  BY <1>3, EarnRefines DEF Stutters, Open, PaidTo
<1>4. CASE \E m \in Miners : Credit(m)
  BY <1>4, CreditRefines
<1>5. ASSUME NEW b \in Blocks, Found(b) PROVE Settlement!Find(b)
  BY <1>5 DEF Found, moneyVars, trackerVars, Settlement!Find
<1>6. CASE Crash
  <2>1. UNCHANGED <<status, PaidTo, balance>> /\ Open' = NoBlock
    BY <1>6 DEF Crash, tableVars, moneyVars, PaidTo, Open, Paying
  <2>2. CASE place \in Paying
    BY <2>1, <2>2 DEF Settlement!Close, Open, PaidTo, IInv, RowsInHand
  <2>3. CASE place \notin Paying
    BY <2>1, <2>3 DEF Open, PaidTo
  <2> QED BY <2>2, <2>3
<1>7. CASE UNCHANGED vars
  BY <1>7 DEF vars
<1>8. CASE \/ Tick \/ EndPass \/ AskByHash \/ AskByHeight \/ Rename \/ AskAgain
           \/ Judge \/ Count
           \/ \E b \in Blocks : NextBlock(b) \/ Mine(b) \/ Reorg(b)
  BY <1>8, OtherStepsStutter DEF Stutters, Open, PaidTo
<1> QED BY <1>1, <1>2, <1>3, <1>4, <1>5, <1>6, <1>7, <1>8 DEF Next, Tracker, Chain

\* Whatever fails and whenever it restarts, the tracker settles blocks as
\* BlockSettlement says.
THEOREM TrackerSettlesBlocks == Spec => SettlesBlocks
<1>1. Init => Settlement!Init
  BY DEF Init, Settlement!Init, Paying
<1>2. IInv /\ [Next]_vars => [Settlement!Next]_(Settlement!vars)
  BY StepRefines
<1> QED BY <1>1, <1>2, IInvHolds, PTL DEF Spec, SettlesBlocks, Settlement!Spec
=============================================================================

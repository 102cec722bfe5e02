---------------------------- MODULE BlockTracker ----------------------------
(***************************************************************************)
(* From a found block to its miners' balances: the block tracker           *)
(* (jobs/block_tracker.rs), one task that every 60 s walks through the     *)
(* pending rows of the blocks table, and the PPLNS distribution it calls   *)
(* (jobs/payments.rs).  Every call to the daemon or the database is a step *)
(* of its own; the chain moves and the process may die between any two.    *)
(*                                                                         *)
(* The daemon is external.  For each row it knows the block the pool       *)
(* submitted ("own") and, once a reorganisation replaced it, the block     *)
(* that took its height ("rival").  The database is external too: a        *)
(* statement that fails has written nothing, or it has taken effect and    *)
(* its answer was lost with the connection.                                *)
(***************************************************************************)
EXTENDS Integers, FiniteSets

CONSTANTS
  Blocks,            \* ids of rows of the blocks table, in insertion order
  Miners,            \* the accounts a block can pay
  Part,              \* Part[b][m]: the amount block b pays to m
  ConfirmationDepth, \* confirmation_depth of the coin
  NoBlock, NoMiner,  \* "no row" and "no miner" in hand
  MaxReorgs,         \* bound: reorganisations of a behaviour
  MaxRpcErrors,      \* bound: failing daemon calls
  MaxDbFailures,     \* bound: failing database statements
  MaxCrashes         \* bound: crashes of the pool process

ASSUME ConstantsAssumption ==
  /\ Blocks \subseteq Nat /\ NoBlock \notin Blocks /\ NoMiner \notin Miners
  /\ Part \in [Blocks -> [Miners -> Nat]]
  /\ ConfirmationDepth \in Nat \ {0}
  /\ {MaxReorgs, MaxRpcErrors, MaxDbFailures, MaxCrashes} \subseteq Nat

VARIABLES
  status,        \* table blocks: status
  confirmations, \* table blocks: confirmations
  named,         \* table blocks: the block that block_hash (or hash) names
  hasHeight,     \* table blocks: height > 0
  balance,       \* table balances
  earnings,      \* table earnings: rows per block and miner
  onMain,        \* daemon: own is in the best chain
  depth,         \* daemon: confirmations of the best-chain block at the height
  place,         \* where the tracker is
  todo,          \* rows of the tracker's snapshot it has not reached yet
  current,       \* the row it works on
  asked,         \* the block its last getblockhash named
  answer,        \* what its last getblock answered
  misread,       \* history: blocks a failed call looked like "not found" for
  payees,        \* miners of the PPLNS window not paid yet
  paying,        \* the miner credited, whose earning is not recorded yet
  credits,       \* history: credit_balance statements per block and miner
  owed,          \* history: the miners the PPLNS window named for the block
  distributed,   \* history: blocks whose distribution ran to its end
  wasStale,      \* history: blocks that have been off the best chain
  reorgs, rpcErrors, dbFailures, crashes   \* history: what went wrong

tableVars   == <<status, confirmations, named, hasHeight>>
moneyVars   == <<balance, earnings, credits, owed, distributed>>
chainVars   == <<onMain, depth, wasStale, reorgs>>
lookupVars  == <<asked, answer, misread>>
payVars     == <<payees, paying>>
trackerVars == <<place, todo, current>>
faultVars   == <<rpcErrors, dbFailures, crashes>>
vars == <<status, confirmations, named, hasHeight, balance, earnings, onMain,
          depth, place, todo, current, asked, answer, misread, payees, paying,
          credits, owed, distributed, wasStale, reorgs, rpcErrors, dbFailures, crashes>>

Statuses == {"absent", "pending", "confirmed", "orphaned"}
Names == {"own", "rival"}

\* getblock: a block of the best chain with its confirmations, one that is
\* not in it (confirmations -1), no such block, or a failed call.  The tracker
\* tells the last two apart by the text: a failed call whose text has "-5" or
\* "Block not found" in it (a host name, an HTTP body, another error code) is
\* misread as no such block.
Answers == [kind : {"inChain", "offChain", "notFound", "error", "misread"},
            depth : Nat]
NoAnswer == [kind |-> "error", depth |-> 0]
Misread  == [kind |-> "misread", depth |-> 0]

Lookups == {"getblock", "getblockhash", "rename", "getblockAgain", "judge"}
Writes  == {"orphan", "count", "confirm"}
Paying  == {"shares", "credit", "earn"}

TypeOK ==
  /\ status \in [Blocks -> Statuses]
  /\ confirmations \in [Blocks -> Nat]
  /\ named \in [Blocks -> Names]
  /\ hasHeight \in [Blocks -> BOOLEAN]
  /\ balance \in [Miners -> Nat]
  /\ earnings \in [Blocks -> [Miners -> Nat]]
  /\ credits \in [Blocks -> [Miners -> Nat]]
  /\ owed \in [Blocks -> SUBSET Miners]
  /\ distributed \subseteq Blocks
  /\ onMain \in [Blocks -> BOOLEAN] /\ depth \in [Blocks -> Nat]
  /\ wasStale \subseteq Blocks
  /\ place \in {"sleep", "pass"} \cup Lookups \cup Writes \cup Paying
  /\ todo \subseteq Blocks /\ current \in Blocks \cup {NoBlock}
  /\ asked \in Names /\ answer \in Answers /\ misread \subseteq Blocks
  /\ payees \subseteq Miners /\ paying \in Miners \cup {NoMiner}
  /\ reorgs \in Nat /\ rpcErrors \in Nat /\ dbFailures \in Nat /\ crashes \in Nat

Init ==
  /\ status = [b \in Blocks |-> "absent"]
  /\ confirmations = [b \in Blocks |-> 0]
  /\ named = [b \in Blocks |-> "own"]
  /\ hasHeight \in [Blocks -> BOOLEAN]
  /\ balance = [m \in Miners |-> 0]
  /\ earnings = [b \in Blocks |-> [m \in Miners |-> 0]]
  /\ credits = [b \in Blocks |-> [m \in Miners |-> 0]]
  /\ owed = [b \in Blocks |-> {}]
  /\ distributed = {}
  /\ onMain = [b \in Blocks |-> TRUE]
  /\ depth = [b \in Blocks |-> 1]
  /\ wasStale = {}
  /\ place = "sleep" /\ todo = {} /\ current = NoBlock
  /\ asked = "own" /\ answer = NoAnswer /\ misread = {}
  /\ payees = {} /\ paying = NoMiner
  /\ reorgs = 0 /\ rpcErrors = 0 /\ dbFailures = 0 /\ crashes = 0

-----------------------------------------------------------------------------
(* The pool finds blocks, and the chain moves.                             *)

\* insert_block, called by the stratum server: ids grow, status is pending.
Found(b) ==
  /\ status[b] = "absent"
  /\ \A c \in Blocks : c < b => status[c] # "absent"
  /\ status' = [status EXCEPT ![b] = "pending"]
  /\ UNCHANGED <<confirmations, named, hasHeight, moneyVars, chainVars,
                 lookupVars, payVars, trackerVars, faultVars>>

ChainStep == UNCHANGED <<tableVars, moneyVars, lookupVars, payVars,
                         trackerVars, faultVars>>

\* One more block on top.  Past ConfirmationDepth nothing changes any more:
\* the depth is configured so that no deeper reorganisation happens.
Mine(b) ==
  /\ status[b] # "absent" /\ depth[b] < ConfirmationDepth
  /\ depth' = [depth EXCEPT ![b] = @ + 1]
  /\ UNCHANGED <<onMain, wasStale, reorgs>> /\ ChainStep

\* The other of the two blocks of this height becomes the best one.
Reorg(b) ==
  /\ status[b] # "absent" /\ depth[b] < ConfirmationDepth
  /\ reorgs < MaxReorgs
  /\ onMain' = [onMain EXCEPT ![b] = ~@]
  /\ wasStale' = wasStale \cup {b}
  /\ reorgs' = reorgs + 1
  /\ UNCHANGED depth /\ ChainStep

InBestChain(b, name) == (name = "own") = onMain[b]

\* The answers getblock may give about a block by its hash.
GetBlock(b, name) ==
  IF InBestChain(b, name)
    THEN {[kind |-> "inChain", depth |-> depth[b]]}
    ELSE {[kind |-> k, depth |-> 0] : k \in {"offChain", "notFound"}}

\* getblockhash: the block of the best chain at the height.
GetBlockHash(b) == IF onMain[b] THEN "own" ELSE "rival"

RpcFails == /\ rpcErrors < MaxRpcErrors
            /\ rpcErrors' = rpcErrors + 1
            /\ UNCHANGED <<dbFailures, crashes>>

\* A getblock that fails, with one kind of text or the other.
LookupFails ==
  /\ RpcFails
  /\ \/ answer' = NoAnswer /\ UNCHANGED misread
     \/ answer' = Misread /\ misread' = misread \cup {current}

DbFails == /\ dbFailures < MaxDbFailures
           /\ dbFailures' = dbFailures + 1
           /\ UNCHANGED <<rpcErrors, crashes>>

NoFault == UNCHANGED faultVars

-----------------------------------------------------------------------------
(* check_pending_blocks: one pass.                                         *)

PendingBlocks == {b \in Blocks : status[b] = "pending"}

Tick ==
  /\ place = "sleep"
  /\ todo' = PendingBlocks
  /\ place' = IF todo' = {} THEN "sleep" ELSE "pass"
  /\ NoFault
  /\ UNCHANGED <<current, tableVars, moneyVars, chainVars, lookupVars, payVars>>

\* The next row of the snapshot, oldest first.  Every coin with a pending block
\* has a configuration and a daemon client here: a row without is passed over.
NextBlock(b) ==
  /\ place = "pass"
  /\ b \in todo /\ \A c \in todo : b <= c
  /\ todo' = todo \ {b} /\ current' = b /\ place' = "getblock"
  /\ NoFault
  /\ UNCHANGED <<tableVars, moneyVars, chainVars, lookupVars, payVars>>

EndPass ==
  /\ place = "pass" /\ todo = {}
  /\ place' = "sleep" /\ current' = NoBlock
  /\ NoFault
  /\ UNCHANGED <<todo, tableVars, moneyVars, chainVars, lookupVars, payVars>>

LookupStep == UNCHANGED <<todo, current, moneyVars, chainVars, payVars>>

\* getblock by the hash of the row.  Any error, a network error as well as
\* "Block not found", leads on to the height, if the row has one.
AskByHash ==
  /\ place = "getblock"
  /\ \/ answer' \in GetBlock(current, named[current]) /\ NoFault /\ UNCHANGED misread
     \/ LookupFails
  /\ place' = IF answer'.kind \notin {"inChain", "offChain"} /\ hasHeight[current]
                THEN "getblockhash" ELSE "judge"
  /\ UNCHANGED <<asked, tableVars>> /\ LookupStep

AskByHeight ==
  /\ place = "getblockhash"
  /\ \/ asked' = GetBlockHash(current) /\ place' = "rename" /\ NoFault
     \/ place' = "judge" /\ UNCHANGED asked /\ RpcFails
  /\ UNCHANGED <<answer, misread, tableVars>> /\ LookupStep

\* update_block_hash: the row now names what getblockhash returned.  A failed
\* statement is only logged.
Rename ==
  /\ place = "rename"
  /\ place' = "getblockAgain"
  /\ \/ named' = [named EXCEPT ![current] = asked] /\ NoFault
     \/ named' \in {named, [named EXCEPT ![current] = asked]} /\ DbFails
  /\ UNCHANGED <<status, confirmations, hasHeight, lookupVars>> /\ LookupStep

AskAgain ==
  /\ place = "getblockAgain"
  /\ place' = "judge"
  /\ \/ answer' \in GetBlock(current, asked) /\ NoFault /\ UNCHANGED misread
     \/ LookupFails
  /\ UNCHANGED <<asked, tableVars>> /\ LookupStep

\* Mutant: any failing lookup counts as "not found".
MutJudgeErrorOrphans ==
  /\ place = "judge"
  /\ \/ answer.kind # "inChain" /\ place' = "orphan"
     \/ answer.kind = "inChain" /\ place' = "count"
  /\ NoFault
  /\ UNCHANGED <<tableVars, lookupVars>> /\ LookupStep

\* Mutant: "Block not found" is only warned about.
MutJudgeNotFoundWaits ==
  /\ place = "judge"
  /\ \/ answer.kind = "offChain" /\ place' = "orphan"
     \/ answer.kind = "inChain" /\ place' = "count"
     \/ answer.kind \in {"error", "notFound", "misread"} /\ place' = "pass"
  /\ NoFault
  /\ UNCHANGED <<tableVars, lookupVars>> /\ LookupStep

Judge ==
  /\ place = "judge"
  /\ \/ answer.kind \in {"offChain", "notFound", "misread"} /\ place' = "orphan"
     \/ answer.kind = "inChain" /\ place' = "count"
     \/ answer.kind = "error" /\ place' = "pass"
  /\ NoFault
  /\ UNCHANGED <<tableVars, lookupVars>> /\ LookupStep

\* The writes of check_pending_blocks: a statement that fails ends the pass,
\* whether it took effect or not.
WriteStep == UNCHANGED <<named, hasHeight, moneyVars, chainVars, lookupVars,
                         payVars>>

Done(next) == place' = next /\ NoFault /\ UNCHANGED <<todo, current>>

AbortPass == DbFails /\ place' = "sleep" /\ todo' = {} /\ current' = NoBlock

NothingWritten == UNCHANGED <<status, confirmations>>

SetStatus(s) == /\ status' = [status EXCEPT ![current] = s]
                /\ UNCHANGED confirmations

SetConfirmations(n) == /\ confirmations' = [confirmations EXCEPT ![current] = n]
                       /\ UNCHANGED status

Orphan ==
  /\ place = "orphan"
  /\ \/ SetStatus("orphaned") /\ Done("pass")
     \/ (SetStatus("orphaned") \/ NothingWritten) /\ AbortPass
  /\ WriteStep

AfterCount == IF answer.depth >= ConfirmationDepth THEN "confirm" ELSE "pass"

\* Mutant: the confirmations still missing are stored, as a difference.
MutCountRemaining ==
  /\ place = "count"
  /\ SetConfirmations(0 - answer.depth) /\ Done(AfterCount)
  /\ WriteStep

Count ==
  /\ place = "count"
  /\ \/ SetConfirmations(answer.depth) /\ Done(AfterCount)
     \/ (SetConfirmations(answer.depth) \/ NothingWritten) /\ AbortPass
  /\ WriteStep

\* Mutant: the row is marked and the distribution forgotten.
MutConfirmOnly ==
  /\ place = "confirm"
  /\ \/ SetStatus("confirmed") /\ Done("pass")
     \/ NothingWritten /\ AbortPass
  /\ WriteStep

Confirm ==
  /\ place = "confirm"
  /\ \/ SetStatus("confirmed") /\ Done("shares")
     \/ (SetStatus("confirmed") \/ NothingWritten) /\ AbortPass
  /\ WriteStep

-----------------------------------------------------------------------------
(* distribute_pplns: its errors are logged and the pass goes on.           *)

PayStep == UNCHANGED <<todo, current, tableVars, chainVars, lookupVars>>

\* Mutant: a distribution that failed half way is started again.
MutGiveUp == DbFails /\ place' = "shares" /\ payees' = {} /\ paying' = NoMiner

GiveUp == DbFails /\ place' = "pass" /\ payees' = {} /\ paying' = NoMiner

\* The window is read now, not when the block was found: any set of miners may
\* have the last shares.  None, or no reward to distribute: nothing to do.
ReadShares ==
  /\ place = "shares"
  /\ \/ \E window \in SUBSET Miners :
          /\ payees' = window
          /\ owed' = [owed EXCEPT ![current] = window]
          /\ place' = IF window = {} THEN "pass" ELSE "credit"
          /\ distributed' = IF window = {} THEN distributed \cup {current}
                                           ELSE distributed
          /\ NoFault /\ UNCHANGED <<paying, balance, earnings, credits>>
     \/ GiveUp /\ UNCHANGED moneyVars
  /\ PayStep

CreditWritten(m) ==
  /\ balance' = [balance EXCEPT ![m] = @ + Part[current][m]]
  /\ credits' = [credits EXCEPT ![current][m] = @ + 1]
  /\ UNCHANGED <<earnings, owed, distributed>>

\* credit_balance for the next miner of the map, in any order.
Credit(m) ==
  /\ place = "credit" /\ m \in payees
  /\ \/ /\ CreditWritten(m) /\ NoFault
        /\ paying' = m /\ place' = "earn" /\ UNCHANGED payees
     \/ (CreditWritten(m) \/ UNCHANGED moneyVars) /\ GiveUp
  /\ PayStep

EarningWritten ==
  /\ earnings' = [earnings EXCEPT ![current][paying] = @ + 1]
  /\ UNCHANGED <<balance, credits, owed>>

\* insert_earning for the miner just credited.
Earn ==
  /\ place = "earn"
  /\ \/ /\ EarningWritten /\ NoFault
        /\ payees' = payees \ {paying} /\ paying' = NoMiner
        /\ place' = IF payees' = {} THEN "pass" ELSE "credit"
        /\ distributed' = IF payees' = {} THEN distributed \cup {current}
                                          ELSE distributed
     \/ (EarningWritten \/ UNCHANGED moneyVars) /\ GiveUp /\ UNCHANGED distributed
  /\ PayStep

-----------------------------------------------------------------------------
\* The process dies and restarts; the tables are what is left.
Crash ==
  /\ crashes < MaxCrashes
  /\ crashes' = crashes + 1
  /\ place' = "sleep" /\ todo' = {} /\ current' = NoBlock
  /\ asked' = "own" /\ answer' = NoAnswer
  /\ payees' = {} /\ paying' = NoMiner
  /\ UNCHANGED <<misread, tableVars, moneyVars, chainVars, rpcErrors, dbFailures>>

Tracker ==
  \/ Tick \/ EndPass \/ (\E b \in Blocks : NextBlock(b))
  \/ AskByHash \/ AskByHeight \/ Rename \/ AskAgain \/ Judge
  \/ Orphan \/ Count \/ Confirm
  \/ ReadShares \/ (\E m \in Miners : Credit(m)) \/ Earn

Chain == \E b \in Blocks : Found(b) \/ Mine(b) \/ Reorg(b)

Next == Tracker \/ Chain \/ Crash

Spec == Init /\ [][Next]_vars

\* The tracker's task is polled for ever, and other miners extend the chain.
FairSpec == /\ Spec
            /\ WF_vars(Tracker)
            /\ \A b \in Blocks : WF_vars(Mine(b))

-----------------------------------------------------------------------------
(* Properties.                                                             *)

\* No failure, crash or repeated pass pays a block to a miner twice
\* (confirm_block comes before distribute_pplns, block_tracker.rs:117-120).
PaidAtMostOnce == \A b \in Blocks, m \in Miners : credits[b][m] <= 1

\* The earnings table trails the balances by at most one miner per block, the
\* one between credit_balance and insert_earning (payments.rs:73-76).
EarningsTrailCredits ==
  \A b \in Blocks :
    /\ \A m \in Miners : earnings[b][m] <= credits[b][m]
    /\ \A m, n \in Miners :
         earnings[b][m] < credits[b][m] /\ earnings[b][n] < credits[b][n] => m = n

\* A confirmed block left without its full distribution is one for which a
\* crash or a failed statement can be named.
UnpaidHaveACause ==
  Cardinality({b \in Blocks \ {current} :
                 status[b] = "confirmed" /\ b \notin distributed})
    <= crashes + dbFailures

\* A block is only marked orphaned if it has been off the best chain, or if a
\* daemon call about it once failed with a text that reads like its absence:
\* block_tracker.rs:142 looks for "-5" or "Block not found" in the text.  No
\* other failure orphans a block, in whatever order the lookups by hash and by
\* height fail (block_tracker.rs:76-96 and 139-153).
OrphanedHasACause ==
  \A b \in Blocks : status[b] = "orphaned" => b \in wasStale \cup misread

\* Confirmed and orphaned are final: no stale snapshot brings a row back.
SettledIsFinal ==
  [][\A b \in Blocks : status[b] \in {"confirmed", "orphaned"}
                         => status'[b] = status[b]]_vars

\* Through failed calls, aborted passes and restarts the tracker keeps the
\* promise of BlockSettlement: a verdict is final, a block is distributed in one
\* go that is never taken up again, each miner is credited once at most for it,
\* and one block is distributed at a time (block_tracker.rs:117-122).
Settlement == INSTANCE BlockSettlement WITH
  verdict <- status,
  open    <- IF place \in Paying THEN current ELSE NoBlock,
  paid    <- [b \in Blocks |-> {m \in Miners : credits[b][m] > 0}]

SettlesBlocks == Settlement!Spec

\* Every found block is eventually confirmed or orphaned, though passes fail
\* and the pool restarts.
PendingIsSettled ==
  \A b \in Blocks :
    status[b] = "pending" ~> status[b] \in {"confirmed", "orphaned"}

-----------------------------------------------------------------------------
(* What the documentation says and the code does not do.                   *)

\* block_tracker.rs:1-2, "polls pending blocks for confirmations, marks them
\* confirmed ... or orphaned": the block confirmed is the one the pool found.
ConfirmedIsOwn == \A b \in Blocks : status[b] = "confirmed" => onMain[b]
=============================================================================

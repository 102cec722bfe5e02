--------------------------- MODULE BlockSettlement ---------------------------
(***************************************************************************)
(* What the block tracker promises of the blocks the pool finds, without   *)
(* its passes, lookups, failures and restarts: every block gets one        *)
(* verdict and keeps it; a block is paid while its distribution is open,   *)
(* which happens once, at its confirmation, for one block at a time; no    *)
(* miner is paid twice for a block, and nothing else changes a balance.    *)
(* BlockTracker is shown to implement this.                                *)
(***************************************************************************)
EXTENDS Naturals

CONSTANTS
  Blocks,   \* rows of the blocks table
  Miners,   \* the accounts a block can pay
  Part,     \* Part[b][m]: the amount block b pays to m
  NoBlock   \* "no distribution is open"

VARIABLES
  verdict,  \* the status of each block
  open,     \* the block being distributed
  paid,     \* the miners each block has paid
  balance   \* their balances

vars == <<verdict, open, paid, balance>>

Init ==
  /\ verdict = [b \in Blocks |-> "absent"]
  /\ open = NoBlock
  /\ paid = [b \in Blocks |-> {}]
  /\ balance = [m \in Miners |-> 0]

\* The pool finds a block.
Find(b) ==
  /\ verdict[b] = "absent"
  /\ verdict' = [verdict EXCEPT ![b] = "pending"]
  /\ UNCHANGED <<open, paid, balance>>

Orphan(b) ==
  /\ verdict[b] = "pending" /\ open = NoBlock
  /\ verdict' = [verdict EXCEPT ![b] = "orphaned"]
  /\ UNCHANGED <<open, paid, balance>>

\* Confirming a block opens its distribution, unless the answer of the database
\* is lost: then it is never opened.
Confirm(b) ==
  /\ verdict[b] = "pending" /\ open = NoBlock /\ paid[b] = {}
  /\ verdict' = [verdict EXCEPT ![b] = "confirmed"]
  /\ open' \in {b, NoBlock}
  /\ UNCHANGED <<paid, balance>>

\* A payment whose answer is lost is the last one.
Pay(m) ==
  /\ open \in Blocks /\ m \notin paid[open]
  /\ paid' = [paid EXCEPT ![open] = @ \cup {m}]
  /\ balance' = [balance EXCEPT ![m] = @ + Part[open][m]]
  /\ open' \in {open, NoBlock}
  /\ UNCHANGED verdict

\* The distribution is over, complete or given up: it is never opened again.
Close ==
  /\ open \in Blocks
  /\ open' = NoBlock
  /\ UNCHANGED <<verdict, paid, balance>>

Next == \/ \E b \in Blocks : Find(b) \/ Orphan(b) \/ Confirm(b)
        \/ \E m \in Miners : Pay(m)
        \/ Close

Spec == Init /\ [][Next]_vars
=============================================================================

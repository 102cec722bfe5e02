--------------------------- MODULE ShareBatcher ----------------------------
(***************************************************************************)
(* ShareBatcher (db.rs): acknowledged shares wait for room in a bounded    *)
(* channel; one task moves them into a buffer and writes it as one INSERT  *)
(* when it is full or a second has passed, and share by share when that    *)
(* INSERT fails.  An INSERT may fail, or take effect and lose its answer.  *)
(*                                                                         *)
(* The order of shares within the channel and the buffer makes no          *)
(* difference to what is said here; both are sets.                         *)
(***************************************************************************)
EXTENDS Naturals, FiniteSets

CONSTANTS
  Shares,       \* shares the miners send
  Connections,  \* connections: shares that may wait for room at once
  Capacity,     \* slots of the channel (4096)
  BatchSize,    \* shares in a full buffer (100)
  MaxCrashes    \* bound: crashes of the pool process

ASSUME BatcherAssumption ==
  /\ IsFiniteSet(Shares)
  /\ {Connections, Capacity, BatchSize} \subseteq Nat \ {0}
  /\ MaxCrashes \in Nat

VARIABLES
  waiting,   \* shares answered and not yet in the channel
  channel,   \* shares in the channel
  buffer,    \* shares the task holds
  task,      \* "select", "batch" (insert_shares_batch), "single" (insert_share)
  rows,      \* table shares: rows per share
  answered,  \* history: shares whose miner got an answer
  doubted,   \* history: shares of a batch that was written, its answer lost
  failures,  \* history: single INSERTs that failed
  crashes    \* history

batcherVars == <<waiting, channel, buffer, task, rows, answered, doubted, failures,
                 crashes>>

InHand == waiting \cup channel \cup buffer
Lost == {s \in answered : rows[s] = 0 /\ s \notin InHand}

BatcherTypeOK ==
  /\ {waiting, channel, buffer, answered, doubted} \subseteq SUBSET Shares
  /\ Cardinality(waiting) <= Connections
  /\ Cardinality(channel) <= Capacity
  /\ Cardinality(buffer) <= BatchSize
  /\ task \in {"select", "batch", "single"}
  /\ rows \in [Shares -> Nat]
  /\ failures \in Nat /\ crashes \in 0 .. MaxCrashes

BatcherInit ==
  /\ waiting = {} /\ channel = {} /\ buffer = {} /\ task = "select"
  /\ rows = [s \in Shares |-> 0]
  /\ answered = {} /\ doubted = {} /\ failures = 0 /\ crashes = 0

Written(set) == [s \in Shares |-> IF s \in set THEN rows[s] + 1 ELSE rows[s]]

-----------------------------------------------------------------------------
(* Connections.                                                            *)

\* handle_submit answers the miner and calls submit; a connection handles one
\* share at a time.
Answer(s) ==
  /\ s \notin answered /\ Cardinality(waiting) < Connections
  /\ answered' = answered \cup {s}
  /\ waiting' = waiting \cup {s}
  /\ UNCHANGED <<channel, buffer, task, rows, doubted, failures, crashes>>

\* submit: tx.send(share).await returns once the channel has room.
Submit(s) ==
  /\ s \in waiting /\ Cardinality(channel) < Capacity
  /\ waiting' = waiting \ {s}
  /\ channel' = channel \cup {s}
  /\ UNCHANGED <<buffer, task, rows, answered, doubted, failures, crashes>>

-----------------------------------------------------------------------------
(* flush_loop.                                                             *)

\* Mutant: the buffer is flushed one share too late.
MutReceive(s) ==
  /\ task = "select" /\ s \in channel
  /\ channel' = channel \ {s}
  /\ buffer' = buffer \cup {s}
  /\ task' = IF Cardinality(buffer') > BatchSize THEN "batch" ELSE "select"
  /\ UNCHANGED <<waiting, rows, answered, doubted, failures, crashes>>

Receive(s) ==
  /\ task = "select" /\ s \in channel
  /\ channel' = channel \ {s}
  /\ buffer' = buffer \cup {s}
  /\ task' = IF Cardinality(buffer') >= BatchSize THEN "batch" ELSE "select"
  /\ UNCHANGED <<waiting, rows, answered, doubted, failures, crashes>>

\* Mutant: only a full buffer is flushed.
MutTick ==
  /\ task = "select" /\ Cardinality(buffer) >= BatchSize
  /\ task' = "batch"
  /\ UNCHANGED <<waiting, channel, buffer, rows, answered, doubted, failures, crashes>>

\* The timer fires.
Tick ==
  /\ task = "select" /\ buffer # {}
  /\ task' = "batch"
  /\ UNCHANGED <<waiting, channel, buffer, rows, answered, doubted, failures, crashes>>

\* Mutant: a failing batch is dropped.
MutBatchInsert ==
  /\ task = "batch"
  /\ rows' \in {Written(buffer), rows}
  /\ buffer' = {} /\ task' = "select"
  /\ UNCHANGED <<waiting, channel, answered, doubted, failures, crashes>>

\* insert_shares_batch: one statement, written as a whole or not at all.
BatchInsert ==
  /\ task = "batch"
  /\ \/ /\ rows' = Written(buffer)
        /\ buffer' = {} /\ task' = "select"
        /\ UNCHANGED doubted
     \/ /\ task' = "single"
        /\ UNCHANGED <<rows, buffer, doubted>>
     \/ /\ rows' = Written(buffer)
        /\ doubted' = doubted \cup buffer
        /\ task' = "single"
        /\ UNCHANGED buffer
  /\ UNCHANGED <<waiting, channel, answered, failures, crashes>>

\* Mutant: an INSERT without an answer is tried again.
MutSingleInsert(s) ==
  /\ task = "single" /\ s \in buffer
  /\ rows' = Written({s})
  /\ buffer' \in {buffer, buffer \ {s}}
  /\ task' = IF buffer' = {} THEN "select" ELSE "single"
  /\ UNCHANGED <<waiting, channel, answered, doubted, failures, crashes>>

\* The fallback: insert_share for each share of the buffer, whose failure is
\* only logged.
SingleInsert(s) ==
  /\ task = "single" /\ s \in buffer
  /\ \/ rows' = Written({s}) /\ UNCHANGED failures
     \/ UNCHANGED rows /\ failures' = failures + 1
  /\ buffer' = buffer \ {s}
  /\ task' = IF buffer' = {} THEN "select" ELSE "single"
  /\ UNCHANGED <<waiting, channel, answered, doubted, crashes>>

\* The process dies and is started again; nothing is flushed.
Crash ==
  /\ crashes < MaxCrashes
  /\ crashes' = crashes + 1
  /\ waiting' = {} /\ channel' = {} /\ buffer' = {} /\ task' = "select"
  /\ UNCHANGED <<rows, answered, doubted, failures>>

Flusher == \/ \E s \in Shares : Receive(s) \/ SingleInsert(s)
           \/ Tick \/ BatchInsert

BatcherNext == (\E s \in Shares : Answer(s) \/ Submit(s)) \/ Flusher \/ Crash

BatcherSpec == BatcherInit /\ [][BatcherNext]_batcherVars

\* A runnable task runs, the timer fires, a statement ends; nothing makes a
\* miner send or the process die.
BatcherFairSpec == /\ BatcherSpec /\ WF_batcherVars(Flusher)
                   /\ \A s \in Shares : WF_batcherVars(Submit(s))

-----------------------------------------------------------------------------
(* Properties.                                                             *)

\* A share is paid for twice at most, and only if its batch was written and
\* the answer lost (db.rs:78-88).
RowsHaveACause ==
  \A s \in Shares : rows[s] <= IF s \in doubted THEN 2 ELSE 1

\* A share that was answered and is neither stored nor on its way to the table
\* was lost to a failing INSERT of the fallback or to a crash, and a crash
\* costs no more than the connections, the channel and the buffer can hold
\* (db.rs:25, 55, 75-91).
LossHasACause ==
  Cardinality(Lost) <= failures + crashes * (Connections + Capacity + BatchSize)

\* No answered share stays in memory for good: nobody waits on a full channel
\* for ever, and a buffer that never fills is flushed by the timer (db.rs:33-73).
AnsweredIsSettled == \A s \in Shares : s \in answered ~> s \notin InHand
=============================================================================

# Formal verification of the LTC merge-mining pool

TLA+ specifications, model-checking runs and machine-checked proofs for
`ltc-merge-pool`, the Rust program in `src/ltc-merge-pool/`. Paths below are
relative to `src/ltc-merge-pool/src/` unless they start with `src/`.

## 1. The system

One process (`main.rs`) on a multi-threaded tokio runtime, one PostgreSQL
database, one JSON-RPC daemon per coin (Litecoin is the parent chain, the other
coins are merge-mined through AuxPoW). Everything below runs concurrently in
that process and is lost together when it dies; the tables survive.

| part | code | state it keeps | operations | talks to |
|---|---|---|---|---|
| job loop | `main.rs:285-428` | `last_prevhash` | on a ZMQ signal or every 10 s: template, aux blocks, `create_job`, `update_job_metadata`, broadcast | daemons, job manager, broadcaster |
| ZMQ subscribers | `zmq_sub.rs` | a 64-slot channel | signal the job loop, reconnect after 3 s | job loop |
| job manager | `stratum/job.rs` | cache of 16 jobs, current job, counter | create, update metadata, look up, validate a share, assemble block and aux proof | job loop, stratum |
| broadcaster | `stratum/notifications.rs` | 256-slot broadcast channel | fan a job out to every connection's writer | job loop, stratum |
| stratum connections | `stratum/server.rs`, `stratum/client.rs`, `stratum/protocol.rs` | table of clients, connections per IP, per client: flags, difficulty, 64-slot write queue | accept, subscribe, authorize, login, suggest difficulty, time out, clean up | everything below |
| share submission | `stratum/server.rs:557-865` | set of recent shares, bad-share counters | check, validate, acknowledge, record, retarget, submit blocks | job manager, share batcher, daemons, database |
| vardiff | `stratum/vardiff.rs` | difficulty, share count, start of window | `on_share` | share submission |
| share batcher | `db.rs:15-93` | 4096-slot channel, buffer | submit, flush every second or every 100 shares, fall back to single inserts | database |
| block tracker | `jobs/block_tracker.rs` | nothing between passes | every 60 s: look pending blocks up, count, confirm, orphan | daemons, database, PPLNS |
| PPLNS distribution | `jobs/payments.rs:20-88` | nothing | read the window, credit each miner, record each earning | database |
| withdrawal handler | `api/withdraw.rs:221-441` | nothing | check, record, send, debit, complete or fail | daemons, database |
| withdrawal processor | `jobs/payments.rs:90-204` | nothing between passes | every 30 s: send the pending rows again | daemons, database |
| statistics | `jobs/stats.rs` | nothing | every 120 s: refresh worker statistics | database |
| HTTP read API, web pages | `api/pool.rs`, `api/miner.rs`, `api/blocks.rs`, `web/` | nothing | queries | database, daemons |
| admin API | `api/admin.rs` | `config.toml` | change fee, addresses, password; reconcile balances | file system, database |
| AuxPoW, merkle, coinbase, encodings | `crypto/` | none (pure) | aux tree placement, branches, coinbase, conversions | job manager |
| RPC client | `rpc.rs` | connection pool | one call per method, 30 s time-out | daemons |
| database layer | `db.rs`, `migrations/` | tables | one method per statement, no transaction spans two of them | PostgreSQL |

### What is hard

* **Await points.** Nearly every handler checks something, awaits a daemon or
  the database, and acts on what it checked before. No database transaction
  spans two statements, so every pair of statements is an interleaving point
  and a crash point.
* **Two writers of one row.** A withdrawal row is driven by its HTTP handler and
  by the processor's snapshot at the same time; a balance by the distribution,
  the withdrawals and the admin's reconciliation.
* **Daemons that answer late or not at all.** A call that timed out may have
  taken effect: coins sent, a block accepted.
* **The chain moves.** A block the pool found may leave the best chain between
  two calls of one pass, and come back.
* **Published before complete.** A job enters the cache before its aux data; it
  may leave the cache while a share on it is still being handled.
* **Bounded queues.** The broadcast channel drops the oldest jobs of a slow
  client, the write queue drops messages, the share channel blocks its senders.

### What makes each part correct

* *Withdrawals*: never more debits than sends; a completed row is on the chain; every second send has a cause; no
  row stays pending.
* *Block tracker and PPLNS*: no block pays a miner twice; only confirmed blocks
  pay; earnings trail balances by at most one miner; verdicts are final; an
  orphaned block has been off the best chain, or a failed call read like its
  absence; every block gets a verdict.
* *Job loop, job cache, job broadcast*: a miner that is left on an old block has
  a cause that can be named; the first job on a new block tells the miner to drop
  its work; a miner that stays connected is eventually given work on the tip.
* *Share handling*: nobody is credited with more difficulty than the hash
  reached; a recorded solution is tried on every chain it solves, or its job had
  left the cache, its process died, or its job was not described yet; an accepted
  block gets its row, and a parent block one row only.
* *Share batcher*: every share answered is stored, or its loss is due to a crash
  or a failed single INSERT and bounded by what memory holds; a second row needs
  an INSERT whose answer was lost; nobody waits for ever.
* *Connections*: an address is never locked out by counts of connections it no
  longer has; uncounted connections come from one known race; an extranonce1 is
  shared only after the counter wrapped.
* *Vardiff*: the miner works at the difficulty it is held to, or the message was
  dropped; a steady miner settles.
* *AuxPoW*: an aux daemon accepts the proof of every chain whose leaf was not
  taken by another; the three ways the code computes a merkle root agree.
* *Balances and reconciliation*: a balance is the miner's earnings minus its
  completed withdrawals, or the step that broke the books can be named; a
  reconciliation that nothing disturbs restores them.
* *Edits of config.toml*: an edit that was answered stays in the file unless
  another edit, a failed write, a crash or a spoilt file can be named; the key in
  force after the next start is what TOML makes of the new password.

## 2. The modules

One module per component. Most are flat: no module needs another's state to say
what it promises, and where two components meet, each module has the other's
effect as an action (a row appears, a job leaves the cache, a difficulty
changes). The exception is the `balances` table, which three components write and
one of them with values it worked out earlier: `PoolLedger` extends `Withdrawals`
and composes it with the other two.

| module | component | proofs | checked by |
|---|---|---|---|
| `Withdrawals` | withdrawal handler and processor on one table | `WithdrawalsProofs` | `withdrawals`, `withdrawals_once` |
| `BlockTracker` | block tracker and PPLNS distribution | `BlockTrackerProofs` | `tracker`, `tracker_own` |
| `BlockSettlement` | abstract: what `BlockTracker` promises of blocks and balances | the refinement, in `BlockTrackerProofs` | `tracker` |
| `PoolLedger` | `Withdrawals` composed with the distribution, its window query and the reconciliation on one `balances` table | `PoolLedgerProofs` | `ledger` |
| `JobFeed` | job loop, job cache, broadcast and write queues | `JobFeedProofs` | `job_feed` |
| `ShareSubmission` | `mining.submit` and all it calls | `ShareSubmissionProofs` | `shares` |
| `ShareBatcher` | the channel, buffer and INSERTs of shares | `StratumProofs` | `batcher` |
| `Connections` | admission, time-out and cleanup of connections | `StratumProofs` | `connections` |
| `Vardiff` | one client's difficulty | `StratumProofs` | `vardiff` |
| `AuxPow` | aux tree, merkle branches, aux proof | `AuxPowProofs` | `auxpow` |
| `ConfigFile` | the admin's edits of `config.toml`, and the start from it | `ConfigFileProofs` | `config_file` |

`MC<module>` gives a module's constants their values for TLC. Definitions named
`Mut...` are deliberate mistakes: each stands in front of the definition it would
replace and shows that a property notices that mistake. No specification uses
them. The table "map" of `PROJECT.json` names the lines behind every definition.
Recursion is written as recursive functions, which TLC evaluates and the proofs can
speak of. `StratumProofs` extends three modules at once, so in two of them the
general names carry the component's (`BatcherSpec`, `VardiffTypeOK`).

### Withdrawals

| in the module | in the code |
|---|---|
| `status`, `createdAt`, `balance` | tables `withdrawals` and `balances` |
| `pc[r]`: `rate`, `balance`, `address`, `create`, `send`, `debit`, `complete`, `fail` | the awaits of `create_withdrawal` in their order (`api/withdraw.rs:227-439`) |
| `proc`, `todo`, `current` | the processor's place, the snapshot of `get_pending_withdrawals` it walks through, the row in hand (`jobs/payments.rs:101-203`) |
| `CanDebit`, `Debit` | the single UPDATE with `amount >= $3` (`db.rs:712-731`) |
| `SetStatus` | `complete_withdrawal` and `fail_withdrawal`, which look at the id only |
| `SendOutcomes` | `sendtoaddress`: sent; not sent; sent and the answer lost (30 s time-out) |
| `QueryFails`, `DbFails` | a failing statement, in every place the code handles one |
| `Crash` | the process dies: handlers vanish without an answer, rows stay |

A request creates one row, so the row carries the request's name. An account is a
(miner, coin) pair. `createdAt` is the number of the insert, which is the order
the processor takes the rows in. The transaction fee is only compared with the
amount. `sent`, `debits`, `overlapped`, `opening` are history.

### BlockTracker

| in the module | in the code |
|---|---|
| `status`, `confirmations`, `named`, `hasHeight` | table `blocks`; `named` says whether `block_hash` still names the pool's block |
| `place`, `todo`, `current` | where `check_pending_blocks` is (`jobs/block_tracker.rs:31-156`) |
| `AskByHash`, `AskByHeight`, `Rename`, `AskAgain`, `Judge` | `getblock`, the fall back to `getblockhash` and `update_block_hash`, the second `getblock`, the three branches on the answer |
| `Answers` | what `getblock` says: in the best chain with its depth, off it, not found, a failed call; and a failed call that is `misread` as not found, because its text has "-5" or "Block not found" in it (`jobs/block_tracker.rs:142`) |
| `Orphan`, `Count`, `Confirm` | `orphan_block`, `update_block_confirmations`, `confirm_block`, each ending the pass when it fails |
| `DbFails` | a failing statement: nothing was written, or it took effect and only its answer was lost |
| `ReadShares`, `Credit`, `Earn` | `distribute_pplns`: the window, `credit_balance`, `insert_earning`; any failure ends the distribution and not the pass |
| `Mine`, `Reorg` | the chain: each height has the pool's block and a rival |

Every coin with a pending block has a configuration and a daemon client: rows of
other coins are passed over (`jobs/block_tracker.rs:48-62`), and never settled
before the configuration has their coin again.

The amounts of a distribution are floating-point proportions in the code; the
module fixes the amount a block would pay a miner (`Part`) and lets the window be
any set of miners. `PoolLedger` has the query and the proportions.

`BlockSettlement` is the abstract side: `verdict`, the one `open` distribution,
`paid` and `balance`, with `Find`, `Orphan`, `Confirm`, `Pay`, `Close` as single
steps and no passes, lookups, failures or restarts. The refinement mapping
(`Settlement` in `BlockTracker`) reads `open` off the tracker's place and `paid`
off the credits; lookups, aborted passes, `insert_earning` and the moving chain
are stutters, a failed or crashed distribution is `Close`. A `confirm_block` whose
answer is lost is a `Confirm` that opens nothing, and a credit whose answer is
lost a `Pay` that closes its distribution.

### PoolLedger

| in the module | in the code |
|---|---|
| everything of `Withdrawals` | the handler and the processor, action by action |
| `stored`, `Taken`, `PplnsShares` | table `shares` and the loop of `get_pplns_shares` (`db.rs:459-485`): `Taken` newest shares |
| `MinerDiff`, `Part`, `ReadWindow`, `CreditBalance`, `InsertEarning` | `distribute_pplns` (`jobs/payments.rs:20-88`) |
| `ReconcileStart`, `ReconcileCommit`, `ReconcileFails` | the one UPDATE of `reconcile_balances` (`api/admin.rs:942-961`): the sums are taken when it starts, the rows are written when it commits |
| `Watch` | history: accounts somebody worked on while a reconciliation ran |

The UPDATE runs at PostgreSQL's default isolation level: its subqueries see the
snapshot of its start, and a row it has chosen is written with the value worked
out then, over what others committed meanwhile. The code's amounts are floating-point
proportions; here they are whole numbers, and a proportion is cut off at the last
whole unit. What is left over, less than a unit per miner, stays with the pool. A
balance is credited with exactly what the earning records, in the code as here.

### ConfigFile

| in the module | in the code |
|---|---|
| `file`, `running` | `config.toml` as its four editable lines, and the `Config` in memory |
| `Receive`, `Read`, `Truncate`, `Fill` | one of `update_fee`, `update_pool_address`, `update_reward_address`, `update_password`: the key and the value are checked, the file is read as a whole, `std::fs::write` empties it and writes the new text |
| `Updated` | the text read, with one line replaced |
| `rest` | the end of another, longer text left behind by two writes at once |
| `Stop`, `Start`, `Startable` | the process ends; `Config::load`, `validate` and the daemon's `validateaddress` decide whether it starts (`config.rs:62-97`, `main.rs:127-147`) |

A line is one of a few values: as installed, new, out of the range the handler
checks, one that is no TOML between quotes (it has a quote, a line break or a
backslash that begins no escape), an address the parent daemon does not accept, one
with escapes that TOML resolves to another value (`Decoded`), and one that no
header brings as text (`Unsendable`, not ASCII). Values are what `trim()` leaves,
and none of them says anything about another line. `disturbed` is history: the edits that shared the
file with another edit, or with a fault.

### JobFeed

The job loop's steps are `GetTemplate`, `CreateJob` (the job enters the cache
without its aux data), `Publish` (current job), `UpdateMetadata` and `Broadcast`
(`main.rs:285-428`, `stratum/job.rs:132-264, 526-545`). A connection has a
broadcast queue (`queue`, which drops its oldest entry when full), a write queue
(`outbox`, which drops what does not fit), a handler that has read the current
job and not sent it yet (`hand`), and a writer that takes from either queue
(`stratum/server.rs:223-275`). A job is its tip and the state of its aux data. A
ZMQ message only wakes the loop, which the module lets wake at any time.

### ShareSubmission

The steps of `handle_submit` (`stratum/server.rs:557-852`) between its awaits:
`Submit` (duplicate check), `Validate`, `Record` (answer, batcher, retarget),
`Lookup` (the second `get_job`), `SubmitBlock` and `InsertRow` per chain. Each
client runs one at a time. A share's hash is the difficulty it reaches
(`Quality`). `Record` sets the difficulty to anything a retarget could choose;
what it really chooses is the matter of `Vardiff`. `Remembered` are the sets
`maybe_evict_shares` may leave: time is not modelled, so a clear may happen at any
check.

### ShareBatcher

`waiting` are the handlers inside `submit`, `channel` and `buffer` what their
names say, `task` the place of `flush_loop` (`db.rs:33-93`). `BatchInsert` has
three outcomes (written, not written, written and the answer lost), `SingleInsert`
is the fallback. Order inside the queues is left out; no property depends on it.

### Connections

The steps of `handle_connection` (`stratum/server.rs:173-331`): `Admit` under the
entry's lock, `Register`, `Leave` or `TimeOut`, and a cleanup in the two steps the
code has: `Uncount`, which lets go of the entry, and `Remove`. The map of clients
is the set of connections whose place says so. `extra` is `nextExtra` modulo
`Width`, the 32 bits of the counter.

### Vardiff

Difficulties are exponents of two: a ratio is a difference, the clamp to 0.25x-4x
is two up or down, and the band 0.85-1.15 that leaves the difficulty alone is a difference of 0.
A share comes at the rate the harder of two targets allows: what the pool asks and
what the miner was told (`FoundAt`). A window's average is between the slowest and
the fastest of its shares, give or take `luck`. `Burst` is the window of less than
a millisecond that `on_share` throws away (`stratum/vardiff.rs:78-82`).

### AuxPow

The slot generator, the search for tree parameters, the tree, its branches, the
coinbase branch and the branches for miners are operators (`crypto/auxpow.rs`,
`crypto/merkle.rs`, `stratum/job.rs:553-589`). `Climb` is the loop over the levels
that four functions of the code share, as a function from the number of rounds to
the level, index and branch reached; `StratumClimb` is the loop of the fifth,
which puts a placeholder where the coinbase belongs. A job commits to a root and any
number of proofs are built from it later. What the aux daemon checks is written
from the rules of AuxPoW and marked external. A hash of two nodes is the pair of
them; only the low bits of the generator matter, as the tree's size is a power of
two. `MCAuxPow` assumes the six slots the repository's unit tests expect, so TLC
compares the model with those tests.

## 3. What the runs show

| run | property | says |
|---|---|---|
| `withdrawals` | `DebitOnlyAfterSend` | no more debits of a row than transactions broadcast for it |
| | `CompletedWasSent` | a completed row is on the chain |
| | `ResendsHaveACause` | sends beyond the first are paid for by an overlap, a crash or a failed statement |
| | `FailedAnswerIsTrue` | "your balance has NOT been deducted" is true, but for an overlap or a failed statement |
| | `PendingIsSettled` | every pending row is completed or failed in the end |
| `tracker` | `SettlesBlocks` | `BlockTracker` implements `BlockSettlement`: verdicts are final, a distribution is opened once and never resumed, nobody is paid twice for a block, nothing else moves a balance |
| | `UnpaidHaveACause` | confirmed blocks without a full distribution are no more than crashes and failed statements |
| | `OrphanedHasACause` | an orphaned block has been off the best chain, or a failed call about it had "-5" or "Block not found" in its text; no other failure orphans one |
| | `PendingIsSettled` | verdicts come, through failed calls and restarts |
| `job_feed` | `StaleHasACause` | a miner off the current job missed a broadcast, lost a message, or was sent an older job late |
| | `NewTipIsClean` | the first job on a new tip has `clean_jobs` |
| | `MinersReachTheTip` | a miner that stays is given work on the tip, again and again |
| `shares` | `CreditIsEarned` | recorded difficulty never exceeds what the hash reached, once per clear of the duplicate set |
| | `UntriedHasACause` | a recorded solution not tried had its job evicted, or undescribed, or a crash |
| | `UnrecordedHaveACause` | accepted blocks without a row are no more than lost answers and failed statements |
| | `ParentRowsExplained` | one row per parent block and clear |
| `batcher` | `RowsHaveACause`, `LossHasACause` | a second row needs a lost answer; losses are bounded by failures and memory |
| | `AnsweredIsSettled` | every answered share leaves memory |
| `connections` | `NoLockout`, `UncountedHaveACause` | the count is never above the live connections, and below only by what a removal threw away |
| | `AddressIsFreed` | an address whose peers are gone is counted down to zero |
| `vardiff` | `ToldHasACause` | the miner knows its difficulty, or the message is queued or was dropped |
| | `SettlesOrPinned` | a steady miner settles on its ideal difficulty, or is pinned in one of four named ways |
| `auxpow` | `ProofsAreAccepted` | the daemon accepts a proof exactly if no later block of the job took its leaf |
| | `RootsAgree` | the three computations of the transactions' root agree |
| `config_file` | `AnsweredEditsLast` | the last acknowledged edit of a line is in the file, but for overlaps, faults and a file already spoilt |
| | `SpoiltHasACause` | a file the pool cannot start from has an overlap, a fault inside a write, or an unchecked value behind it |
| | `NewKeyWorksAfterStart` | from the next start on, and not before, a request is let in exactly if it sends what TOML makes of the last undisturbed new password, and a header can carry that |
| `ledger` | `BooksAgree` | a balance that is not earnings minus completed withdrawals, while nobody is between two writes, has one of four causes |
| | `ReconcileRepairs` | a reconciliation repairs every account with earnings that nobody worked on while it ran |
| | `WindowIsShortest` | a block is divided in proportion, down to the last whole unit, among the fewest newest shares that fill the window, and never hands out more than it brought |

Each passing run but `auxpow` and `ledger` also checks its module's type invariant
(`AuxPow`'s variables are set by operators; the ledger's run extends
`Withdrawals`, whose type is checked and proved there, and the types of the rest
are part of `LedgerInv`). Four properties are
stated in the modules and proved, and have no run of their own:
`BlockTracker!PaidAtMostOnce` and `EarningsTrailCredits`,
`BlockTracker!SettledIsFinal` (which `SettlesBlocks` contains), and
`Connections!SameExtranonceNeedsWrap`.

Two runs show a disagreement between the code and its own documentation:

* `withdrawals_once`: the processor's snapshot contains a row whose handler is
  still sending; both send it. `ResendsHaveACause` bounds how often.
* `tracker_own`: a block loses its place to a rival; one failing call later the
  tracker asks for the block at its height, renames the row to the rival, and
  confirms that. `OrphanedHasACause` is what holds of the other verdict.

### Other disagreements met while modelling

They have no run of their own; the modules contain the behaviour.

* Two requests of one account pass the balance check before either is debited
  (`api/withdraw.rs:290`). Both are sent, the second debit changes no row and is
  only logged (`api/withdraw.rs:398-412`), and its row is completed all the same;
  the balance does not go negative, and `BooksAgree` names this as a cause.
* A share below its client's difficulty that solves an easier merge-mined chain
  is refused before any chain is compared (`stratum/server.rs:601-661`), and never
  submitted there.
* `update_password` says "Use new password on next login" (`api/admin.rs:926`);
  the key in memory is the old one until the pool is started again
  (`NewKeyWorksAfterStart`). The request's `current_password` is never read.
* A password is written between quotes without escaping (`api/admin.rs:920`) and
  read back as TOML: one with a backslash is answered with success and becomes
  another key, or a file that does not load. One that is not ASCII lets nobody in,
  as the header is read with `to_str` (`api/admin.rs:15`). `NewKeyWorksAfterStart`
  says which key works.
* Any error text with "-5" in it counts as "Block not found"
  (`jobs/block_tracker.rs:142`): another error code, a host name, a port or the body
  of an HTTP error will do, and a good block is orphaned for good. It is the second
  cause `OrphanedHasACause` names.
* Addresses and passwords are measured by their length only, and written between
  quotes as they are; the pool may not start from the result (`SpoiltHasACause`).
  `update_pool_address` and `update_reward_address` miss a line that is not there,
  the other two answer "ok" without it (`AnsweredEditsLast`).
* In the container the pool reads the file of `--config`
  (`src/ltc-merge-pool/Dockerfile:56`), the edits open `config.toml` in the working
  directory (`api/admin.rs:484`).
* `pplns_window` is announced as a number of shares (`main.rs:121`); it is a sum of
  difficulties (`db.rs:475`, `WindowIsShortest`).
* The limit of one withdrawal in four hours (`api/withdraw.rs:259`) is asked for
  with a window of 0 hours (`RateLimitHours`), which matches no row.
* A distribution cut off by a crash or a failure is never resumed
  (`UnpaidHaveACause` counts such blocks).
* A job broadcast between subscribe and authorize is dropped and authorize sends
  none, so the miner waits for the next one (`StaleHasACause`).
* A job is in the cache, and current, before its aux targets are stored
  (`UntriedHasACause`, the history variable `early`).
* The duplicate key names no client: two clients that send the same extranonce2,
  time and nonce are taken for one, though their extranonce1 differs
  (`ShareSubmission`, `Seen`).
* The per-address count is lost when a connection is admitted between the count
  reaching 0 and the removal of its entry (`UncountedHaveACause`).
* After `mining.suggest_difficulty` the next retarget starts from vardiff's own
  older value, and at a bound nothing moves any more (`SettlesOrPinned`).
* Two chain ids that agree modulo the largest tree share a leaf; the earlier
  block is never proved (`ProofsAreAccepted`). The nonce search cannot help: it
  shifts every slot alike.

## 4. Bounds, and why they are enough

| run | instance | why |
|---|---|---|
| `withdrawals` | 2 requests, 1 account, amounts 1-2 with minimum 2, 1 crash, 2 failed statements | accounts do not interact; two requests are what a stale balance check needs, and a third would only repeat it; the processor is the third process; amounts cover "too small", "enough" and "enough for one" |
| `withdrawals_once` | the same with amounts 1-3 and no fault | the shortest counterexample needs none |
| `tracker` | 2 blocks, 2 miners, depth 2, one each of reorganisation, failed call (of either text), failed statement (written or not), crash | a pass aborted by one row skips the other; a distribution stops between two miners |
| `tracker_own` | 1 block, one reorganisation, one failed call | |
| `job_feed` | 1 client, 3 tips, cache 2, queues 2 and 1, 1 failed call | clients share only the job loop and never wait for each other; the queues overflow and jobs overtake each other |
| `shares` | 2 clients, 1 key, 2 jobs, cache 1, 2 chains, 2 difficulties, 2 bad shares, 1 of {clear, lost answer, failed statement, crash} | the same key from two clients is the collision; a cache of one is evicted while a share is handled; the key's quality solves both chains for one client and one chain for the other |
| `batcher` | 5 shares, 1 connection, channel 1, buffer 2, 1 crash | channel and buffer fill, a sender waits, and shares remain for after the crash |
| `connections` | 3 + 1 connections, limit 2, width 3 | the third is refused or admitted into the removal race; the counter wraps |
| `vardiff` | difficulties -2..3, windows of 2 shares, queue of 2, 1 suggestion of -3..4 | an ideal above and at a bound, inside, and a burst; a suggestion past either bound; the queue fills |
| `config_file` | 3 edits (in any order: symmetric), 12 bodies, 4 keys, 2 faults | two edits overlap in every way, and a third meets what they left or sends the key one of them set; two faults are a stop and a failed write, or a stop in the middle of one |
| `ledger` | 2 miners, 1 withdrawal, 1 block, 4 shares, 1 reconciliation, 1 crash, 1 failed statement | window too short, just filled, overfilled, and filled by one share, and a reward of 13 that they divide with a rest and without; handler, processor, distribution and reconciliation meet on both balances |
| `auxpow` | every sequence of 1-3 of 5 chain ids, 0-4 transactions, depth up to 5 | 98 and 130 agree modulo 32; four transactions give odd levels of the tree |

`MaxCrashes`, `MaxDbFailures`, `MaxRpcErrors`, `MaxReorgs`, `MaxTip`, `MaxJobs`,
`MaxTrouble`, `MaxSuggests`, `MaxChains`, `MaxTxs`, `MaxFaults`, `MaxReconciles`
bound what the environment does and appear in guards only. All others are the program's own parameters, made
small. `CHECK_DEADLOCK FALSE` is set where the modelled part may really stop:
`shares` (all connections gone), `batcher` (all shares stored), `connections` (all
closed), `config_file` (all edits answered, or a file nobody can start from),
`ledger` (all shares, blocks and requests used up).

One cause `BooksAgree` names, a completion without a debit, needs two requests of
one account. With two requests the ledger is too large for an exhaustive run; the
`withdrawals` run has the two requests without the other writers.

## 5. Fairness

Liveness is checked under weak fairness of what the tokio runtime, its timers and
the peers do by themselves, and of nothing else:

* `withdrawals`: of the processor (spawned once, an endless loop) and of a handler
  that has started. Not of the arrival of a request, a fault or a crash.
* `tracker`: of the tracker's task, and of the chain growing, without which no
  block is ever confirmed by any pool.
* `job_feed`: of the job loop (woken every 10 s by its timer whatever ZMQ does)
  and of the writer and handler of each connection. Not of subscribing.
* `batcher`: of the flusher and of a waiting `submit`. `tx.send` wakes waiters in
  turn, which is weak fairness once the channel has room again; the flusher makes
  room for ever.
* `connections`: of a connection's task, including the read time-out of a silent
  peer. Not of the peer closing.
* `vardiff`: of the writer task and of the miner finding shares, the premise of
  vardiff.

`config_file` and `ledger` have safety properties only: an HTTP client may give up
between any two of its requests.

All temporal properties tolerate the faults of the run: the bounds make faults
finite, as a system that fails for ever settles nothing.

## 6. What is proved

TLAPS checks the following for every value of the constants: any number of
requests, blocks, miners, shares, clients, jobs, edits and connections, queues of
any length, chain ids and transactions of any number, and any number of faults.
Every invariant and every action property that a run checks is proved, and so is
the refinement; what holds only under fairness is not.

The assumptions are the modules' named ones (`ConstantsAssumption`,
`LedgerAssumption`, `BatcherAssumption`, `VardiffAssumption`): the bounds are natural
numbers, capacities are positive, the placeholders are not in the sets they stand
beside, and where cardinalities are compared the counted set is finite. They are
what any configuration satisfies, and TLC evaluates them in every run.

For each component the invariant `IInv` (`LedgerInv`, `BatcherIInv`,
`VardiffIInv`) is proved to hold initially and to be kept by every step, one step of
the proof per action; the properties follow from it. None of them is inductive alone.

**`WithdrawalsProofs`**: `TypeCorrect`, `DebitsFollowSends`, `CompletedIsOnChain`,
`ResendsExplained`, `FailedAnswersHold`. That a row was sent before it is debited
depends on where the two processes stand. `IInv` adds
* `Shape`: the processor works on a row outside its snapshot, and a handler before
  its insert has no row;
* `DebitsBacked`: debits, plus one for each process in front of its debit, are at
  most the sends; `CompletedBacked` likewise for "completed";
* `SendsBudget`: the sends done, plus those still to come (by the handler, by the
  running pass, by the next pass), are at most 1 + overlap + crashes + failed
  statements. A crash or failed statement turns a row that was going to be settled
  into one the next pass will send, and pays for it;
* `OverlapMarked` and `FailuresClean`: without an overlap the processor keeps off
  a row whose handler is at work, so a row whose handler failed it stays failed
  and free of debits.

**`BlockTrackerProofs`**: `TypeCorrect`, `NoDoublePayment`, `EarningsTrail`,
`OrphansExplained`, `VerdictsAreFinal` (an action property), `UnpaidExplained`, and
`TrackerSettlesBlocks`, the refinement. `IInv` adds that the tracker's snapshot
holds pending rows only (`RowsInHand`), that what is not confirmed has paid nobody
(`NothingPaidYet`), how far a distribution has come (`Progress`), and that no
answer about a block that never left the best chain says otherwise, unless its call
failed with a text that is misread (`NeverStale`).
For `UnpaidExplained` the set of blocks left behind is shown to take in one block
more only in a step that counts a fault (`EveryStepLate`). For the refinement,
initial states map to initial states and each step to one abstract step or a
stutter (`StepRefines`).

**`JobFeedProofs`**: `TypeCorrect`, `StaleExplained`, `NewTipsAreClean` (an action
property). `IInv` adds `LoopShape`, which ties the loop's variables to its place,
and per client `Feed`: no job in any queue is newer than the current one
(`NoneNewer`); the broadcast queue ends with the current job and what is not clean
in it is no news (`QueueInOrder`); a client with nothing to take that missed
nothing is on the current job, or new with its first one on the way (`Fresh`); and
a job that is not clean finds its client at that tip already (`HeadIsNoNews`).

**`ShareSubmissionProofs`**: `TypeCorrect`, `CreditIsBounded`,
`ParentRowsBounded`, `SolutionsTriedOrExcused`, `UnrecordedExplained`. The core is
a budget: a share may pass the duplicate check once per clear, and once more if
its pair is in the set (`Passes`); what was recorded, plus a share in hand not
recorded yet, stays within it (`RecordsBounded`), and so do the rows of a parent
block (`RowsBounded`). `CreditBounded` multiplies it by the quality.
`SolutionsPursued` says a recorded solution was tried, is pending in its handler,
or is excused for good. `UnrecordedExplained` counts like `UnpaidExplained`.

**`StratumProofs`** has three parts, for modules that share no state.
* `Connections`: `TypeCorrect`, `NobodyIsLockedOut`, `UncountedExplained`,
  `ExtranoncesDiffer`. The two bounds on the count are kept together (`Balance`);
  `Extras` says that until the counter has used its width the connections have
  different values below it.
* `Vardiff`: `VardiffTypeCorrect`, `ToldOrExplained`. `WordKept`: the last
  difficulty message of the queue carries what the client is held to, or there is
  none and the miner knows, or one was dropped.
* `ShareBatcher`: `BatcherTypeCorrect`, `RowsExplained`, `LossExplained`. The
  invariant adds that a share is in one place (`OnePlace`), that it has no row
  before its buffer is written (`RowsSoFar`), and that the buffer has room while
  the task selects (`Filling`).

**`ConfigFileProofs`**: `TypeCorrect`, `EditsLast`, `SpoiltExplained`, `KeysWork`
(an action property). `IInv` adds that two handlers between read and write have
disturbed each other (`Overlaps`), that an undisturbed one finds the file as it
emptied it (`Emptied`), that a text has all its lines or none (`WholeTexts`), that
an undisturbed edit is in the file and in every text read since (`EditsKept`),
that nothing spoilt appears while nothing harmful was done (`SoundTexts`), and
that a started process knows what TOML makes of the last key (`KeyKnown`).

**`PoolLedgerProofs`**: `BooksExplained`, `LedgerKeepsRows`, and the action
properties `ReconciliationRepairs` and `WindowDivided`. It reuses the row invariant
of `WithdrawalsProofs` (`RowsInv`), which asks nothing of the balances: here other
writers move them, and a reconciliation may leave one below zero. `LedgerInv` adds
* `CleanRows`: with no fault, a row no pass overlapped belongs to its handler from
  insert to answer, and is debited at most once, just before it is completed;
* `Books`: while none of the causes `BooksAgree` names has occurred for an account,
  its balance is what it earned, plus what it was credited and has not been
  recorded for yet, minus its debited rows. `BooksAgree` looks only at moments when
  nobody is between two writes, and speaks of completed rows: it is `Books` once
  `CleanRows` has made debited and completed the same (`SettledBooks`);
* `Watched`: a reconciliation under way knows every account somebody is or was busy
  with since it started, and holds the right value for each of the others;
* `RowsFinite`: a sum over an account's rows is a sum over a finite set, although
  the set of requests need not be one.

`WindowDivided` needs no history: the loop of the query ends at the least number of
shares that fill the window (`TakenIsShortest`), the parts of a window are quotients
(`Quotient`), and together they are at most the reward (`PartsFit`), because the
miners' difficulties add up to the window's (`DifficultyAdds`).

**`AuxPowProofs`**: `AcceptedExactly`, `RootsAlwaysAgree`, and `MinersFindTheRoot`,
which states the second for any list of hashes and a coinbase nobody knew when the
branches were sent. A job and its proof satisfy `IInv`: the coinbase commits to the
tree of the job's ids, and the proof is the one of some block in it. The work is in
the loops.
* Every round of a climb keeps `OnTheWay`: a level of nodes with one at the index,
  at least one shorter than the last. So it ends within as many rounds as there are
  leaves (`TopIs`).
* The branch of the coinbase hashed onto it gives the first node of each level
  (`CoinbaseLeads`); the stratum's loop visits the same levels but for their first
  node, which it never puts into a branch (`StratumIsCoinbase`).
* In a tree of 2^k leaves the branch of a leaf has k nodes, and leads to the root
  from that leaf and from no other node (`LeafLeads`). A level of such a tree is
  even down to the root, so no node is its own partner.
* A step of the generator tells two numbers apart exactly if they differ modulo the
  size: the factor 1103515245 has an inverse modulo 2^16, whose product with it
  `LcgSeparates` uses, and so modulo each smaller size. Hence two ids share a slot
  under one nonce if and only if they do under all (`SlotSeparates`), and ids that
  agree modulo the largest tree agree modulo every other (`SmallerSize`).

Arguments about cardinalities rest on `FiniteSetTheorems`, those about queues on
`SequenceTheorems`. Induction over numbers and over the subsets of a finite set
(for loops and for sums) uses the well-founded orderings of
`WellFoundedInduction` and `FiniteSetTheorems`, with a set in place of the
predicate: a set of counterexamples has a least element (`Rounds`, `SubsetInduction`).
That a loop or a sum exists as a function at all is proved first (`ClimbExists`,
`SumExists`).

**Only model-checked**: the properties under fairness (`PendingIsSettled` of
`Withdrawals` and of `BlockTracker`, `MinersReachTheTip`, `AnsweredIsSettled`,
`AddressIsFreed`, `SettlesOrPinned`), as the prover has no rule for fairness; and
the two counterexamples of section 3. That the slots are those the repository's unit
tests expect is an assumption TLC evaluates.

## 7. What is not modelled, and why

* The read API, web pages and statistics: queries and presentation, and a table
  that only they read.
* The wiring at start-up, deployment files and the settings no property depends
  on: done before anything runs, their values are the constants. What decides
  whether the pool starts from an edited file is in `ConfigFile`.
* Byte formats (coinbase, JSON, stratum lines) and hash functions: straight
  conversions without state, which the unit tests compare byte by byte. Hashes are
  injective pairs in `AuxPow`, the difficulty reached in `ShareSubmission`.
* Floating-point arithmetic. `PoolLedger` has the proportions of PPLNS in whole
  numbers, rounded down; the code's last binary digit may go either way.
* Payout addresses: `set_payout_address` asks for the miner in the `miners` table,
  which no code fills (`ensure_miner`, `db.rs:269`, has no caller), so it always
  refuses and its table stays empty. A withdrawal sees this as `CheckAddress`.
* ZMQ connections: a lost or late signal is a wake-up that does not happen, and
  `JobFeed` lets the loop wake, by its timer, at any time.
* In `Withdrawals` and `PoolLedger` a failed statement has written nothing. There
  the answer that matters is the daemon's, which may be lost (`SendOutcomes`);
  `BlockTracker` and `ShareBatcher` also lose those of the database.
* A single HTTP handler whose future is dropped while the others go on: in
  `Withdrawals` handlers vanish with the process only (`Crash`).
* The characters of a value in `config.toml`: what TOML and HTTP make of it is a
  constant (`Decoded`, `Unquotable`, `Unsendable`).

## 8. How the project grew, and what could follow

The modules were written in the order money (`Withdrawals`), blocks
(`BlockTracker`), jobs and shares (`JobFeed`, `ShareSubmission`, `ShareBatcher`),
the parts around them (`Connections`, `Vardiff`, `AuxPow`), then the abstract
`BlockSettlement`, the composition `PoolLedger` and `ConfigFile`, each with its
proofs once TLC had agreed. What could follow:

1. an abstract payout (pending, paid, refused) for `Withdrawals` to implement,
   which the double sends of `withdrawals_once` stand against today;
2. the layout of the coinbase and of the aux proof, as sequences of fields that
   the daemon's parser takes apart again;
3. the broadcast and the share handling composed: a share on a job the miner
   learns of before its aux targets are stored.

-------------------------- MODULE ShareSubmission --------------------------
(***************************************************************************)
(* mining.submit (stratum/server.rs): the duplicate check, the validation  *)
(* against a cached job (stratum/job.rs), the acknowledgement, the record  *)
(* for the miner, the retarget, and the submission of blocks to the parent *)
(* chain and to every merge-mined chain.  Each connection handles one      *)
(* submit at a time; connections run in parallel with each other and with  *)
(* the job loop, which pushes old jobs out of the cache.                   *)
(*                                                                         *)
(* A share is a client (its extranonce1), a job and a key (extranonce2,    *)
(* ntime and nonce).  Its hash is abstracted to the difficulty it reaches. *)
(***************************************************************************)
EXTENDS Naturals, FiniteSets

CONSTANTS
  Clients,       \* connections, one extranonce1 each
  Keys,          \* values of (extranonce2, ntime, nonce)
  MaxCached,     \* max_cached_jobs (16)
  Chains,        \* the parent coin and the merge-mined ones
  Parent,        \* the parent coin
  Quality,       \* Quality[c][j][k]: the difficulty a share's hash reaches;
                 \*   0 when it fails the sanity checks of validate_share
  NoHold,        \* "the handler has no share in hand"
  NetDifficulty, \* NetDifficulty[x]: what a block of chain x needs
  AuxBlock,      \* AuxBlock[x][j]: the block createauxblock gave job j
  Difficulties,  \* difficulties a client may be assigned
  MaxBad,        \* bad shares in a row that disconnect (100)
  MaxJobs,       \* bound: jobs of a behaviour
  MaxTrouble     \* bound: clears of the duplicate set, block submissions
                 \*   whose answer is lost, failing insert_block statements
                 \*   and crashes, taken together

Jobs == 1 .. MaxJobs
Shares == [client : Clients, job : Jobs, key : Keys]
Holds == [share : Shares, diff : Difficulties]

ASSUME ConstantsAssumption ==
  /\ {MaxCached, MaxBad} \subseteq Nat \ {0}
  /\ {MaxJobs, MaxTrouble} \subseteq Nat
  /\ Parent \in Chains /\ Difficulties \subseteq Nat
  /\ Quality \in [Clients -> [Jobs -> [Keys -> Nat]]]
  /\ NetDifficulty \in [Chains -> Nat]
  /\ AuxBlock \in [Chains -> [Jobs -> Nat]]
  /\ NoHold \notin Holds

VARIABLES
  jobs,        \* jobs created so far; their ids are 1 .. jobs
  described,   \* jobs whose aux targets and names are stored
  recent,      \* recent_shares: (job, key) pairs
  difficulty,  \* difficulty of each client
  bad,         \* bad_share_counters
  pc,          \* where each client's handler is
  hold,        \* the share it handles, with current_difficulty as read
               \*   before the validation
  todo,        \* chains it still has to submit the share to
  chain,       \* the chain whose block was accepted just now
  accepted,    \* daemons: blocks they accepted
  rows,        \* table blocks: rows per block
  recorded,    \* history: times a share was given to the share batcher
  credit,      \* history: difficulty recorded for a share
  tried,       \* history: (chain, share) pairs submitted to a daemon
  early,       \* history: shares looked up before their job was described
  clears, rpcErrors, dbFailures, crashes   \* history

poolVars    == <<jobs, described, recent, clears>>
handVars    == <<pc, hold>>
chainVars   == <<todo, chain, accepted, rows, tried>>
recordVars  == <<recorded, credit>>
faultVars   == <<rpcErrors, dbFailures, crashes>>
vars == <<jobs, described, recent, difficulty, bad, pc, hold, todo, chain,
          accepted, rows, recorded, credit, tried,
          early, clears, rpcErrors, dbFailures, crashes>>

\* There is room for one more of what MaxTrouble bounds.
Trouble == clears + rpcErrors + dbFailures + crashes < MaxTrouble

QualityOf(s) == Quality[s.client][s.job][s.key]

\* A parent block is the share itself; an aux block is the one of the job,
\* whichever share solves it, and several jobs may carry the same.
BlockOf(x, s) == IF x = Parent THEN <<x, s.client, s.job, s.key>>
                               ELSE <<x, AuxBlock[x][s.job]>>

Blocks == {BlockOf(x, s) : x \in Chains, s \in Shares}

\* Only the MaxCached newest jobs are in the cache.
Cached(j) == j <= jobs /\ j + MaxCached > jobs

Places == {"idle", "validate", "record", "lookup", "submit", "row", "gone"}
Busy(s) == \E c \in Clients : hold[c] # NoHold /\ hold[c].share = s

TypeOK ==
  /\ jobs \in 0 .. MaxJobs
  /\ described \in 0 .. jobs
  /\ recent \subseteq Jobs \X Keys
  /\ difficulty \in [Clients -> Difficulties]
  /\ bad \in [Clients -> 0 .. MaxBad]
  /\ pc \in [Clients -> Places]
  /\ hold \in [Clients -> Holds \cup {NoHold}]
  /\ todo \in [Clients -> SUBSET Chains]
  /\ chain \in [Clients -> Chains]
  /\ accepted \subseteq Blocks
  /\ rows \in [Blocks -> Nat]
  /\ recorded \in [Shares -> Nat] /\ credit \in [Shares -> Nat]
  /\ early \subseteq Shares
  /\ tried \subseteq Chains \X Shares
  /\ {clears, rpcErrors, dbFailures, crashes} \subseteq Nat

Init ==
  /\ jobs = 0 /\ described = 0 /\ recent = {}
  /\ difficulty \in [Clients -> Difficulties]
  /\ bad = [c \in Clients |-> 0]
  /\ pc = [c \in Clients |-> "idle"]
  /\ hold = [c \in Clients |-> NoHold]
  /\ todo = [c \in Clients |-> {}] /\ chain = [c \in Clients |-> Parent]
  /\ accepted = {} /\ rows = [b \in Blocks |-> 0]
  /\ recorded = [s \in Shares |-> 0] /\ credit = [s \in Shares |-> 0]
  /\ early = {} /\ tried = {}
  /\ clears = 0 /\ rpcErrors = 0 /\ dbFailures = 0 /\ crashes = 0

-----------------------------------------------------------------------------
(* Around the handlers.                                                    *)

\* The job loop puts a job into the cache; the oldest may drop out.
NewJob ==
  /\ jobs < MaxJobs /\ described = jobs
  /\ jobs' = jobs + 1
  /\ UNCHANGED <<described, recent, clears, difficulty, bad, handVars, chainVars,
                 recordVars, early, faultVars>>

\* update_job_metadata: targets, symbols and display hashes of the aux blocks.
DescribeJob ==
  /\ described < jobs
  /\ described' = jobs
  /\ UNCHANGED <<jobs, recent, clears, difficulty, bad, handVars,
                 chainVars, recordVars, early, faultVars>>

\* mining.suggest_difficulty, on any port.
SuggestDifficulty(c, d) ==
  /\ pc[c] = "idle" /\ d \in Difficulties
  /\ difficulty' = [difficulty EXCEPT ![c] = d]
  /\ UNCHANGED <<poolVars, bad, handVars, chainVars, recordVars, early,
                 faultVars>>

-----------------------------------------------------------------------------
(* handle_submit.                                                          *)

Goto(c, place) == pc' = [pc EXCEPT ![c] = place] /\ UNCHANGED hold

Return(c, place) == /\ pc' = [pc EXCEPT ![c] = place]
                    /\ hold' = [hold EXCEPT ![c] = NoHold]

Share(c) == hold[c].share

\* Mutant: the connection is ended one bad share too late.
MutRefuse(c) ==
  /\ bad' = [bad EXCEPT ![c] = @ + 1]
  /\ Return(c, IF bad[c] >= MaxBad THEN "gone" ELSE "idle")

\* increment_bad_shares: the MaxBad-th in a row ends the connection.
Refuse(c) ==
  /\ bad' = [bad EXCEPT ![c] = @ + 1]
  /\ Return(c, IF bad[c] + 1 >= MaxBad THEN "gone" ELSE "idle")

\* Parameters that are not hex, before the duplicate check.
RefuseMalformed(c) ==
  /\ pc[c] = "idle"
  /\ Refuse(c)
  /\ UNCHANGED <<poolVars, difficulty, chainVars, recordVars, early, faultVars>>

\* What maybe_evict_shares leaves of the duplicate set: all, or nothing if more
\* than 300 s have passed since it was cleared last.
Remembered == {recent} \cup (IF Trouble THEN {{}} ELSE {})

\* Mutant: the pair is inserted and not looked for.
MutSeen(j, k, kept) == FALSE

\* is_duplicate_share: the pair names no client.
Seen(j, k, kept) == <<j, k>> \in kept

\* The pair is inserted before anything else is known about the share.
Submit(c, j, k) ==
  /\ pc[c] = "idle" /\ j <= jobs
  /\ \E kept \in Remembered :
       /\ recent' = kept \cup {<<j, k>>}
       /\ clears' = IF kept = recent THEN clears ELSE clears + 1
       /\ IF Seen(j, k, kept)
            THEN Refuse(c)
            ELSE /\ pc' = [pc EXCEPT ![c] = "validate"]
                 /\ hold' = [hold EXCEPT ![c] =
                       [share |-> [client |-> c, job |-> j, key |-> k],
                        diff  |-> difficulty[c]]]
                 /\ UNCHANGED bad
  /\ UNCHANGED <<jobs, described, difficulty, chainVars, recordVars, early,
                 faultVars>>

\* Mutant: a share counts if it solves a block of some chain.
MutMeetsTarget(c) == QualityOf(Share(c)) > 0

MeetsTarget(c) == QualityOf(Share(c)) > 0 /\ QualityOf(Share(c)) >= hold[c].diff

\* validate_share and the answer to the miner.  A job that has left the cache
\* is answered like a good share, and nothing is recorded.
Validate(c) ==
  /\ pc[c] = "validate"
  /\ \/ ~Cached(Share(c).job) /\ Return(c, "idle") /\ UNCHANGED bad
     \/ /\ Cached(Share(c).job) /\ ~MeetsTarget(c)
        /\ Refuse(c)
     \/ /\ Cached(Share(c).job) /\ MeetsTarget(c)
        /\ Goto(c, "record")
        /\ bad' = [bad EXCEPT ![c] = 0]
  /\ UNCHANGED <<poolVars, difficulty, chainVars, recordVars,
                 early, faultVars>>

\* batcher.submit, which may have to wait for room, and the retarget.
Record(c) ==
  /\ pc[c] = "record"
  /\ recorded' = [recorded EXCEPT ![Share(c)] = @ + 1]
  /\ credit' = [credit EXCEPT ![Share(c)] = @ + hold[c].diff]
  /\ \E d \in Difficulties : difficulty' = [difficulty EXCEPT ![c] = d]
  /\ Goto(c, "lookup")
  /\ UNCHANGED <<poolVars, bad, chainVars, early, faultVars>>

Solved(s) == {x \in Chains : QualityOf(s) >= NetDifficulty[x]}

\* The chains a share is compared with: an aux chain needs its target.
Targets(s) == IF s.job <= described THEN Chains ELSE {Parent}

\* Mutant: a share that solves the parent chain is not tried on the others.
MutChainsFor(s) == IF Parent \in Solved(s) THEN {Parent} ELSE Solved(s) \cap Targets(s)

ChainsFor(s) == Solved(s) \cap Targets(s)

\* The job is looked up a second time, and copied as it is now.  If it has
\* gone, the share ends here, whatever it solves.
Lookup(c) ==
  /\ pc[c] = "lookup"
  /\ todo' = [todo EXCEPT ![c] =
                IF Cached(Share(c).job) THEN ChainsFor(Share(c)) ELSE {}]
  /\ IF todo'[c] = {} THEN Return(c, "idle") ELSE Goto(c, "submit")
  /\ early' = IF Share(c).job <= described THEN early ELSE early \cup {Share(c)}
  /\ UNCHANGED <<poolVars, difficulty, bad, chain, accepted, rows, tried,
                 recordVars, faultVars>>

\* On to the next chain, or done.
Leave(c, x) ==
  /\ todo' = [todo EXCEPT ![c] = @ \ {x}]
  /\ IF todo'[c] = {} THEN Return(c, "idle") ELSE Goto(c, "submit")

\* submit_block, submit_aux_block: accepted, refused or unreachable, accepted
\* with the answer lost.  A block the daemon has already may be answered with
\* Ok ("duplicate") or with an error.
Answer(c, x, b) ==
  \/ /\ accepted' = accepted \cup {b}
     /\ chain' = [chain EXCEPT ![c] = x]
     /\ Goto(c, "row")
     /\ UNCHANGED <<todo, rpcErrors>>
  \/ /\ Leave(c, x)
     /\ UNCHANGED <<accepted, chain, rpcErrors>>
  \/ /\ Trouble
     /\ rpcErrors' = rpcErrors + 1
     /\ accepted' = accepted \cup {b}
     /\ Leave(c, x)
     /\ UNCHANGED chain

\* The parent chain first, then the aux chains of the job.
SubmitBlock(c, x) ==
  /\ pc[c] = "submit" /\ x \in todo[c]
  /\ x = Parent \/ Parent \notin todo[c]
  /\ tried' = tried \cup {<<x, Share(c)>>}
  /\ Answer(c, x, BlockOf(x, Share(c)))
  /\ UNCHANGED <<poolVars, difficulty, bad, rows, recordVars,
                 early, dbFailures, crashes>>

\* Mutant: only parent blocks get a row.
MutInsertRow(c) ==
  LET b == BlockOf(chain[c], Share(c)) IN
  /\ pc[c] = "row"
  /\ rows' = [rows EXCEPT ![b] = IF chain[c] = Parent THEN @ + 1 ELSE @]
  /\ Leave(c, chain[c])
  /\ chain' = [chain EXCEPT ![c] = Parent]
  /\ UNCHANGED <<poolVars, difficulty, bad, accepted, tried,
                 recordVars, early, faultVars>>

\* insert_block: a failing statement is only logged.
InsertRow(c) ==
  LET b == BlockOf(chain[c], Share(c)) IN
  /\ pc[c] = "row"
  /\ \/ rows' = [rows EXCEPT ![b] = @ + 1] /\ UNCHANGED dbFailures
     \/ /\ Trouble
        /\ dbFailures' = dbFailures + 1
        /\ UNCHANGED rows
  /\ Leave(c, chain[c])
  /\ chain' = [chain EXCEPT ![c] = Parent]
  /\ UNCHANGED <<poolVars, difficulty, bad, accepted, tried,
                 recordVars, early, rpcErrors, crashes>>

\* The process dies: connections, jobs and the duplicate set are gone.
Crash ==
  /\ Trouble
  /\ crashes' = crashes + 1
  /\ pc' = [c \in Clients |-> "gone"] /\ hold' = [c \in Clients |-> NoHold]
  /\ UNCHANGED <<poolVars, difficulty, bad, chainVars, recordVars,
                 early, rpcErrors, dbFailures>>

Handler(c) ==
  \/ RefuseMalformed(c)
  \/ \E j \in Jobs, k \in Keys : Submit(c, j, k)
  \/ Validate(c) \/ Record(c) \/ Lookup(c)
  \/ (\E x \in Chains : SubmitBlock(c, x))
  \/ InsertRow(c)

Next == \/ NewJob \/ DescribeJob \/ Crash
        \/ \E c \in Clients : \/ Handler(c)
                              \/ \E d \in Difficulties : SuggestDifficulty(c, d)

Spec == Init /\ [][Next]_vars

-----------------------------------------------------------------------------
(* Properties.                                                             *)

\* A miner is never credited with more difficulty than its hash reached, once
\* per clear of the duplicate set, though its difficulty changes while the
\* share is handled (server.rs:598, 639-659).
CreditIsEarned ==
  \A s \in Shares : credit[s] <= (1 + clears) * QualityOf(s)

\* A solution that was recorded and not tried on a chain lost its job between
\* validate_share and the second get_job (server.rs:601, 664), or its process,
\* or was looked up before the aux targets of its job were stored
\* (main.rs:402-408) and solves an aux chain.
UntriedHasACause ==
  \A s \in Shares, x \in Chains :
    (/\ recorded[s] > 0 /\ ~Busy(s)
     /\ QualityOf(s) >= NetDifficulty[x] /\ <<x, s>> \notin tried)
    => ~Cached(s.job) \/ crashes > 0 \/ (s \in early /\ x # Parent)

\* A block a daemon accepted gets its row, or a lost answer, a failed statement
\* or a crash can be named for it.
UnrecordedHaveACause ==
  crashes > 0 \/
    Cardinality({b \in accepted :
                   /\ rows[b] = 0
                   /\ \A c \in Clients :
                        pc[c] = "row" => b # BlockOf(chain[c], Share(c))})
      <= rpcErrors + dbFailures

\* One parent block has one row for each time the duplicate set was cleared:
\* "duplicate" counts as accepted (rpc.rs:178) and every row is paid.
ParentRowsExplained ==
  \A s \in Shares : rows[BlockOf(Parent, s)] <= 1 + clears
=============================================================================

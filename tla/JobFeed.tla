------------------------------ MODULE JobFeed ------------------------------
(***************************************************************************)
(* From a new block of the parent chain to the work of every miner:        *)
(*   - the job loop (main.rs), which asks for a template, builds a job,    *)
(*     puts it into the job manager and broadcasts it;                     *)
(*   - the job manager's cache and current job (stratum/job.rs);           *)
(*   - one broadcast queue per connection (stratum/notifications.rs);      *)
(*   - the handlers of subscribe, authorize and login, which send the      *)
(*     current job through the connection's write queue, and the writer    *)
(*     task that empties both queues in no fixed order (server.rs).        *)
(* A job is told apart by the tip it builds on and by the state of its     *)
(* merge-mining data.  Tips are numbered as they appear; 0 is "none".      *)
(***************************************************************************)
EXTENDS Naturals, Sequences

CONSTANTS
  Clients,       \* connections
  MaxCached,     \* max_cached_jobs (16)
  QueueCap,      \* capacity of the broadcast channel (256)
  OutCap,        \* capacity of a connection's write queue (64)
  MaxTip,        \* bound: blocks of the parent chain
  MaxRpcErrors   \* bound: failing getblocktemplate calls

ASSUME ConstantsAssumption ==
  /\ {MaxCached, QueueCap, OutCap, MaxTip} \subseteq Nat \ {0}
  /\ MaxRpcErrors \in Nat

VARIABLES
  tip,        \* daemon: the tip of the parent chain
  loop,       \* where the job loop is
  template,   \* the tip its template builds on
  isNew,      \* is_new_block
  lastPrev,   \* last_prevhash
  cache,      \* job manager: cached jobs, oldest first
  current,    \* job manager: the tip of current_job
  connected, subscribed, authorized,   \* sets of clients
  queue,      \* broadcasts a client's writer has not taken yet
  hand,       \* the job a handler has read and not sent yet
  outbox,     \* jobs in a client's write queue
  work,       \* the tip a client works on
  missed,     \* history: a job passed by the client
  late,       \* history: a handler's job was sent after a broadcast of a newer one
  rpcErrors   \* history: failed calls

loopVars   == <<loop, template, isNew, lastPrev>>
jobVars    == <<cache, current>>
clientVars == <<connected, subscribed, authorized>>
feedVars   == <<queue, hand, outbox>>
minerVars  == <<work, missed, late>>
vars == <<tip, loop, template, isNew, lastPrev, cache, current, connected,
          subscribed, authorized, queue, hand, outbox, work, missed, late,
          rpcErrors>>

Tips == 1 .. MaxTip

\* Merge-mining data: no aux block, aux blocks without their targets and
\* hashes yet, aux blocks with them.
AuxData == {"none", "bare", "full"}
Job == [tip : Tips, aux : AuxData]
Notice == [tip : Tips, clean : BOOLEAN]

TypeOK ==
  /\ tip \in Tips
  /\ loop \in {"wait", "create", "publish", "update", "broadcast"}
  /\ template \in 0 .. MaxTip /\ lastPrev \in 0 .. MaxTip /\ isNew \in BOOLEAN
  /\ cache \in Seq(Job) /\ Len(cache) <= MaxCached
  /\ current \in 0 .. MaxTip
  /\ connected \subseteq Clients
  /\ subscribed \subseteq connected /\ authorized \subseteq connected
  /\ queue \in [Clients -> Seq(Notice)]
  /\ \A c \in Clients : Len(queue[c]) <= QueueCap
  /\ hand \in [Clients -> 0 .. MaxTip]
  /\ outbox \in [Clients -> Seq(Tips)]
  /\ \A c \in Clients : Len(outbox[c]) <= OutCap
  /\ work \in [Clients -> 0 .. MaxTip]
  /\ missed \in [Clients -> BOOLEAN] /\ late \in [Clients -> BOOLEAN]
  /\ rpcErrors \in Nat

Init ==
  /\ tip = 1
  /\ loop = "wait" /\ template = 0 /\ isNew = FALSE /\ lastPrev = 0
  /\ cache = <<>> /\ current = 0
  /\ connected = {} /\ subscribed = {} /\ authorized = {}
  /\ queue = [c \in Clients |-> <<>>]
  /\ hand = [c \in Clients |-> 0]
  /\ outbox = [c \in Clients |-> <<>>]
  /\ work = [c \in Clients |-> 0]
  /\ missed = [c \in Clients |-> FALSE] /\ late = [c \in Clients |-> FALSE]
  /\ rpcErrors = 0

-----------------------------------------------------------------------------
\* The network finds a block (external).  A ZMQ message only wakes the loop,
\* which may wake at any time.
NewTip ==
  /\ tip < MaxTip
  /\ tip' = tip + 1
  /\ UNCHANGED <<loopVars, jobVars, clientVars, feedVars, minerVars, rpcErrors>>

(* The job loop.                                                           *)

LoopStep == UNCHANGED <<tip, clientVars, minerVars, hand, outbox>>

\* Mutant: the previous hash is remembered before it is compared.
MutGetTemplate ==
  /\ loop = "wait"
  /\ template' = tip /\ lastPrev' = tip /\ isNew' = FALSE
  /\ loop' = "create"
  /\ UNCHANGED <<rpcErrors, jobVars, queue>> /\ LoopStep

\* A wake-up by the tick or a ZMQ message, and getblocktemplate.  A failing
\* call leaves everything as it was and waits for the next wake-up.
GetTemplate ==
  /\ loop = "wait"
  /\ \/ /\ template' = tip
        /\ isNew' = (tip # lastPrev)
        /\ lastPrev' = tip
        /\ loop' = "create"
        /\ UNCHANGED rpcErrors
     \/ /\ rpcErrors < MaxRpcErrors
        /\ rpcErrors' = rpcErrors + 1
        /\ UNCHANGED loopVars
  /\ UNCHANGED <<jobVars, queue>> /\ LoopStep

\* Mutant: the size is compared before the insertion and never shrinks.
MutLastJobs(jobs) == IF Len(jobs) > MaxCached + 1 THEN Tail(jobs) ELSE jobs

LastJobs(jobs) == IF Len(jobs) > MaxCached THEN Tail(jobs) ELSE jobs

\* The createauxblock calls, any of which may fail, and create_job as far as
\* the cache: the job goes in without its targets, symbols and hashes.
CreateJob ==
  /\ loop = "create"
  /\ \E aux \in {"none", "bare"} :
       cache' = LastJobs(Append(cache, [tip |-> template, aux |-> aux]))
  /\ loop' = "publish"
  /\ UNCHANGED <<template, isNew, lastPrev, current, queue, rpcErrors>>
  /\ LoopStep

\* create_job's last assignment, under a lock of its own.
Publish ==
  /\ loop = "publish"
  /\ current' = template
  /\ loop' = "update"
  /\ UNCHANGED <<template, isNew, lastPrev, cache, queue, rpcErrors>>
  /\ LoopStep

\* Targets, symbols and display hashes are stored in one go.
Described(job) == IF job.aux = "bare" THEN [job EXCEPT !.aux = "full"] ELSE job

\* update_job_metadata: the job just created is still the last one.
UpdateMetadata ==
  /\ loop = "update"
  /\ cache' = [cache EXCEPT ![Len(cache)] = Described(@)]
  /\ loop' = "broadcast"
  /\ UNCHANGED <<template, isNew, lastPrev, current, queue, rpcErrors>>
  /\ LoopStep

\* Every connection's receiver gets the job; a receiver that is QueueCap jobs
\* behind loses its oldest one.
Overflow(c) == Len(queue[c]) = QueueCap

Pushed(c) == Append(IF Overflow(c) THEN Tail(queue[c]) ELSE queue[c],
                    [tip |-> template, clean |-> isNew])

\* Mutant: only jobs on a new block are broadcast.
MutBroadcast ==
  /\ loop = "broadcast"
  /\ queue' = [c \in Clients |->
                 IF c \in connected /\ isNew THEN Pushed(c) ELSE queue[c]]
  /\ missed' = [c \in Clients |->
                  missed[c] \/ (c \in connected /\ isNew /\ Overflow(c))]
  /\ loop' = "wait"
  /\ UNCHANGED <<tip, template, isNew, lastPrev, jobVars, clientVars, hand,
                 outbox, work, late, rpcErrors>>

Broadcast ==
  /\ loop = "broadcast"
  /\ queue' = [c \in Clients |-> IF c \in connected THEN Pushed(c) ELSE queue[c]]
  /\ missed' = [c \in Clients |->
                  missed[c] \/ (c \in connected /\ Overflow(c))]
  /\ loop' = "wait"
  /\ UNCHANGED <<tip, template, isNew, lastPrev, jobVars, clientVars, hand,
                 outbox, work, late, rpcErrors>>

JobLoop == GetTemplate \/ CreateJob \/ Publish \/ UpdateMetadata \/ Broadcast

-----------------------------------------------------------------------------
(* One connection: its reader, which runs the handlers one after the other,*)
(* and its writer.                                                         *)

ClientStep == UNCHANGED <<tip, loopVars, jobVars, rpcErrors>>

\* The receiver is created with the connection and sees later jobs only.
Connect(c) ==
  /\ c \notin connected
  /\ connected' = connected \cup {c}
  /\ UNCHANGED <<subscribed, authorized, feedVars, minerVars>> /\ ClientStep

\* End of file, time-out, a write error or too many bad shares.
Disconnect(c) ==
  /\ c \in connected
  /\ connected' = connected \ {c}
  /\ subscribed' = subscribed \ {c} /\ authorized' = authorized \ {c}
  /\ queue' = [queue EXCEPT ![c] = <<>>]
  /\ hand' = [hand EXCEPT ![c] = 0]
  /\ outbox' = [outbox EXCEPT ![c] = <<>>]
  /\ work' = [work EXCEPT ![c] = 0]
  /\ missed' = [missed EXCEPT ![c] = FALSE]
  /\ late' = [late EXCEPT ![c] = FALSE]
  /\ ClientStep

\* Mutant: subscribing sends the difficulty and no job.
MutSubscribe(c) ==
  /\ c \in connected /\ hand[c] = 0
  /\ subscribed' = subscribed \cup {c}
  /\ UNCHANGED <<connected, authorized, feedVars, minerVars>> /\ ClientStep

\* mining.subscribe, as often as the miner likes: the flag, then current_job.
Subscribe(c) ==
  /\ c \in connected /\ hand[c] = 0
  /\ subscribed' = subscribed \cup {c}
  /\ hand' = [hand EXCEPT ![c] = current]
  /\ UNCHANGED <<connected, authorized, queue, outbox, minerVars>> /\ ClientStep

\* mining.authorize sends no job.
Authorize(c) ==
  /\ c \in connected /\ hand[c] = 0
  /\ authorized' = authorized \cup {c}
  /\ UNCHANGED <<connected, subscribed, feedVars, minerVars>> /\ ClientStep

\* login sets both flags and then sends the current job.
Login(c) ==
  /\ c \in connected /\ hand[c] = 0
  /\ subscribed' = subscribed \cup {c} /\ authorized' = authorized \cup {c}
  /\ hand' = [hand EXCEPT ![c] = current]
  /\ UNCHANGED <<connected, queue, outbox, minerVars>> /\ ClientStep

\* try_send: replies and difficulties share the write queue, and a job that
\* finds it full is dropped.
SendJob(c) ==
  /\ hand[c] # 0
  /\ hand' = [hand EXCEPT ![c] = 0]
  /\ \/ /\ Len(outbox[c]) < OutCap
        /\ outbox' = [outbox EXCEPT ![c] = Append(@, hand[c])]
        /\ UNCHANGED missed
     \/ /\ UNCHANGED outbox
        /\ missed' = [missed EXCEPT ![c] = TRUE]
  /\ UNCHANGED <<clientVars, queue, work, late>> /\ ClientStep

\* The writer takes from the write queue: always sent with clean_jobs = true.
WriteOutbox(c) ==
  /\ outbox[c] # <<>>
  /\ outbox' = [outbox EXCEPT ![c] = Tail(@)]
  /\ work' = [work EXCEPT ![c] = Head(outbox[c])]
  /\ late' = [late EXCEPT ![c] = @ \/ Head(outbox[c]) < work[c]]
  /\ UNCHANGED <<clientVars, queue, hand, missed>> /\ ClientStep

Mining(c) == c \in subscribed /\ c \in authorized

\* The writer takes a broadcast: it is passed on to a miner that has both
\* subscribed and authorized, and dropped for any other.
WriteBroadcast(c) ==
  /\ queue[c] # <<>>
  /\ queue' = [queue EXCEPT ![c] = Tail(@)]
  /\ IF Mining(c)
       THEN /\ work' = [work EXCEPT ![c] = Head(queue[c]).tip]
            /\ missed' = [missed EXCEPT ![c] = FALSE]
            /\ late' = [late EXCEPT ![c] = FALSE]
       ELSE /\ missed' = [missed EXCEPT ![c] = TRUE]
            /\ UNCHANGED <<work, late>>
  /\ UNCHANGED <<clientVars, hand, outbox>> /\ ClientStep

Serve(c) == SendJob(c) \/ WriteOutbox(c) \/ WriteBroadcast(c)

Client(c) == \/ Connect(c) \/ Disconnect(c)
             \/ Subscribe(c) \/ Authorize(c) \/ Login(c) \/ Serve(c)

Next == NewTip \/ JobLoop \/ \E c \in Clients : Client(c)

Spec == Init /\ [][Next]_vars

\* The loop is woken every 10 s; a connection's tasks are polled.  Nothing
\* makes a miner connect, subscribe or authorize.
FairSpec == /\ Spec
            /\ WF_vars(JobLoop)
            /\ \A c \in Clients : /\ WF_vars(SendJob(c))
                                  /\ WF_vars(WriteOutbox(c))
                                  /\ WF_vars(WriteBroadcast(c))

-----------------------------------------------------------------------------
(* Properties.                                                             *)

\* Nothing is on its way to the client, and the loop has nothing to send.
Settled(c) == /\ loop = "wait" /\ queue[c] = <<>>
              /\ hand[c] = 0 /\ outbox[c] = <<>>

\* A miner left on another tip than the pool's current job has missed a
\* broadcast (it was not authorized yet, or lagged), lost a handler's job to a
\* full write queue, or was sent a handler's job after a newer broadcast.
StaleHasACause ==
  \A c \in Clients :
    Mining(c) /\ Settled(c) /\ work[c] # current => missed[c] \/ late[c]

\* The first job on a new tip comes with clean_jobs, or the miner missed that
\* one: nobody else keeps mining on the old tip (main.rs:326-334, 411-422).
NewTipIsClean ==
  [][\A c \in Clients :
       /\ queue[c] # <<>> /\ queue'[c] = Tail(queue[c])
       /\ work[c] # 0 /\ work'[c] > work[c]
       => Head(queue[c]).clean \/ missed[c] \/ late[c]]_vars

\* A miner that stays subscribed and authorized is eventually given work on
\* the tip of the chain, though it missed jobs and templates failed.
MinersReachTheTip ==
  \A c \in Clients : Mining(c) ~> (work[c] = tip \/ ~Mining(c))
=============================================================================

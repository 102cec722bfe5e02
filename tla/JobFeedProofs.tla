--------------------------- MODULE JobFeedProofs ---------------------------
(***************************************************************************)
(* What holds of JobFeed for any clients, cache and queue sizes, number of *)
(* tips and of failing calls.                                              *)
(***************************************************************************)
EXTENDS JobFeed, SequenceTheorems, TLAPS

\* The loop's template is the last it compared, and the current job is built on
\* it from Publish to the next template, and before if the tip is not new.
LoopShape ==
  /\ lastPrev = template /\ current <= template /\ template <= tip
  /\ loop \in {"wait", "update", "broadcast"} => current = template
  /\ loop # "wait" /\ ~isNew => current = template
  /\ loop # "wait" => template # 0
  /\ loop \in {"publish", "update"} => cache # <<>>

\* No job on another tip than the current one's has still to be broadcast.
Steady == loop \in {"wait", "create", "publish"} \/ ~isNew

\* Of a client that has not gone through a step nothing is left of it.
Unborn(c) ==
  /\ c \notin connected => queue[c] = <<>>
  /\ c \notin subscribed => hand[c] = 0 /\ outbox[c] = <<>> /\ work[c] = 0

\* Nothing is newer than the current job.
NoneNewer(c) ==
  /\ hand[c] <= current /\ work[c] <= current
  /\ \A i \in 1 .. Len(outbox[c]) : outbox[c][i] <= current
  /\ \A i \in 1 .. Len(queue[c]) : queue[c][i].tip <= current

\* The queue ends with the current job, and a new tip in it comes clean.
QueueInOrder(c) ==
  /\ Steady /\ queue[c] # <<>> => queue[c][Len(queue[c])].tip = current
  /\ \A i \in 1 .. Len(queue[c]) - 1 :
       ~queue[c][i + 1].clean => queue[c][i + 1].tip <= queue[c][i].tip

\* The handlers' jobs of a client that works on none yet are all on tip t.
HandlersAt(c, t) ==
  /\ hand[c] \in {0, t}
  /\ \A i \in 1 .. Len(outbox[c]) : outbox[c][i] = t

\* The client has no cause to be on an old tip.
Spared(c) == ~missed[c] /\ ~late[c]

\* A spared client with no broadcast to take is on the current tip, or is new
\* and has a handler's job on it to come.
Fresh(c) ==
  Spared(c) /\ Steady /\ queue[c] = <<>> =>
    \/ work[c] = current
    \/ /\ work[c] = 0 /\ HandlersAt(c, current)
       /\ c \in subscribed => hand[c] = current \/ outbox[c] # <<>>

\* A broadcast that is not clean finds a spared client at its tip or past it,
\* or new and about to be.
HeadIsNoNews(c) ==
  Spared(c) /\ queue[c] # <<>> /\ ~queue[c][1].clean =>
    IF work[c] # 0
      THEN queue[c][1].tip <= work[c]
      ELSE /\ hand[c] # 0 => queue[c][1].tip <= hand[c]
           /\ \A i \in 1 .. Len(outbox[c]) : queue[c][1].tip <= outbox[c][i]

Feed(c) == /\ Unborn(c) /\ NoneNewer(c) /\ QueueInOrder(c)
           /\ Fresh(c) /\ HeadIsNoNews(c)

IInv == TypeOK /\ LoopShape /\ \A c \in Clients : Feed(c)

-----------------------------------------------------------------------------
(* Types.                                                                  *)

\* A broadcast never makes a queue longer than it may be.
LEMMA PushedIsShort ==
  ASSUME TypeOK, NEW c \in Clients, template \in Tips
  PROVE  Pushed(c) \in Seq(Notice) /\ Len(Pushed(c)) <= QueueCap /\ Pushed(c) # <<>>
<1> DEFINE q == IF Overflow(c) THEN Tail(queue[c]) ELSE queue[c]
           n == [tip |-> template, clean |-> isNew]
<1>1. /\ queue[c] \in Seq(Notice) /\ Len(queue[c]) <= QueueCap
      /\ QueueCap \in Nat \ {0} /\ n \in Notice
  BY ConstantsAssumption DEF TypeOK, Notice
<1>2. q \in Seq(Notice) /\ Len(q) + 1 <= QueueCap
  <2>1. CASE Overflow(c)
    <3>1. queue[c] # <<>>
      BY <1>1, <2>1 DEF Overflow
    <3>2. Tail(queue[c]) \in Seq(Notice) /\ Len(Tail(queue[c])) = Len(queue[c]) - 1
      BY <1>1, <3>1, HeadTailProperties
    <3> QED  BY <1>1, <2>1, <3>2 DEF Overflow
  <2>2. CASE ~Overflow(c)
    BY <1>1, <2>2 DEF Overflow
  <2> QED  BY <2>1, <2>2
<1>3. Pushed(c) = Append(q, n)
  BY DEF Pushed
<1> HIDE DEF q, n
<1> QED  BY <1>1, <1>2, <1>3, AppendProperties

\* Types are kept by the job loop.
LEMMA LoopTypeKept ==
  ASSUME TypeOK, LoopShape, JobLoop
  PROVE  TypeOK'
<1> USE ConstantsAssumption DEF loopVars, jobVars, clientVars, feedVars, minerVars
<1>1. CASE GetTemplate
  <2>1. isNew' \in BOOLEAN
    BY <1>1 DEF TypeOK, GetTemplate
  <2>2. /\ loop' \in {"wait", "create"}
        /\ template' \in {template, tip} /\ lastPrev' \in {lastPrev, tip}
        /\ rpcErrors' \in {rpcErrors, rpcErrors + 1}
    BY <1>1 DEF GetTemplate
  <2>3. tip \in 0 .. MaxTip
    BY DEF TypeOK, Tips
  <2> QED  BY <1>1, <2>1, <2>2, <2>3 DEF TypeOK, GetTemplate, LoopStep
<1>2. CASE CreateJob
  <2>1. template \in Tips
    BY <1>2 DEF TypeOK, LoopShape, CreateJob, Tips
  <2>2. PICK aux \in {"none", "bare"} :
          cache' = LastJobs(Append(cache, [tip |-> template, aux |-> aux]))
    BY <1>2 DEF CreateJob
  <2> DEFINE j == [tip |-> template, aux |-> aux]
             more == Append(cache, j)
  <2>3. j \in Job /\ cache \in Seq(Job) /\ Len(cache) <= MaxCached
    BY <2>1 DEF Job, AuxData, TypeOK
  <2> HIDE DEF j
  <2>4. more \in Seq(Job) /\ more # <<>> /\ Len(more) = Len(cache) + 1
    BY <2>3, AppendProperties
  <2>5. Tail(more) \in Seq(Job) /\ Len(Tail(more)) = Len(more) - 1
    BY <2>4, HeadTailProperties
  <2>6. cache' \in Seq(Job) /\ Len(cache') <= MaxCached
    BY <2>2, <2>3, <2>4, <2>5 DEF LastJobs, j
  <2> QED  BY <1>2, <2>6 DEF TypeOK, CreateJob, LoopStep
<1>3. CASE Publish
  BY <1>3 DEF TypeOK, Publish, LoopStep
<1>4. CASE UpdateMetadata
  <2>1. cache # <<>> /\ cache \in Seq(Job)
    BY <1>4 DEF TypeOK, LoopShape, UpdateMetadata
  <2>2. Len(cache) \in Nat \ {0} /\ cache[Len(cache)] \in Job
    BY <2>1
  <2>3. Described(cache[Len(cache)]) \in Job
    BY <2>2 DEF Described, Job, AuxData
  <2>4. cache' = [cache EXCEPT ![Len(cache)] = Described(cache[Len(cache)])]
    BY <1>4 DEF UpdateMetadata
  <2> HIDE DEF Described
  <2>5. cache' \in Seq(Job) /\ Len(cache') = Len(cache)
    BY <2>1, <2>2, <2>3, <2>4
  <2> QED  BY <1>4, <2>5 DEF TypeOK, UpdateMetadata, LoopStep
<1>5. CASE Broadcast
  <2>1. template \in Tips
    BY <1>5 DEF TypeOK, LoopShape, Broadcast, Tips
  <2>2. ASSUME NEW c \in Clients
        PROVE  queue'[c] \in Seq(Notice) /\ Len(queue'[c]) <= QueueCap
    BY <1>5, <2>1, PushedIsShort DEF TypeOK, Broadcast
  <2>3. queue' \in [Clients -> Seq(Notice)]
    <3>1. queue' = [c \in Clients |->
                      IF c \in connected THEN Pushed(c) ELSE queue[c]]
      BY <1>5 DEF Broadcast
    <3> HIDE DEF Pushed
    <3> QED  BY <2>1, <3>1, PushedIsShort DEF TypeOK
  <2>4. missed' \in [Clients -> BOOLEAN]
    BY <1>5 DEF TypeOK, Broadcast
  <2> QED  BY <1>5, <2>2, <2>3, <2>4 DEF TypeOK, Broadcast
<1> QED  BY <1>1, <1>2, <1>3, <1>4, <1>5 DEF JobLoop

\* Types are kept by a connection.
LEMMA ClientTypeKept ==
  ASSUME TypeOK, NEW c \in Clients, Client(c)
  PROVE  TypeOK'
<1> USE DEF loopVars, jobVars, clientVars, feedVars, minerVars, ClientStep
<1>1. CASE Connect(c)
  BY <1>1 DEF TypeOK, Connect
<1>2. CASE Disconnect(c)
  <2>1. <<>> \in Seq(Notice) /\ <<>> \in Seq(Tips) /\ Len(<<>>) = 0
    OBVIOUS
  <2> QED  BY <1>2, <2>1, ConstantsAssumption DEF TypeOK, Disconnect
<1>3. CASE Subscribe(c)
  BY <1>3 DEF TypeOK, Subscribe
<1>4. CASE Authorize(c)
  BY <1>4 DEF TypeOK, Authorize
<1>5. CASE Login(c)
  BY <1>5 DEF TypeOK, Login
<1>6. CASE SendJob(c)
  <2>1. hand[c] \in Tips /\ outbox[c] \in Seq(Tips)
    BY <1>6 DEF TypeOK, SendJob, Tips
  <2>2. /\ Append(outbox[c], hand[c]) \in Seq(Tips)
        /\ Len(Append(outbox[c], hand[c])) = Len(outbox[c]) + 1
    BY <2>1, AppendProperties
  <2>3. CASE UNCHANGED outbox
    <3>1. 0 \in 0 .. MaxTip
      BY ConstantsAssumption
    <3>2. hand' \in [Clients -> 0 .. MaxTip]
      BY <1>6, <3>1 DEF TypeOK, SendJob
    <3>3. missed' \in [Clients -> BOOLEAN]
      BY <1>6 DEF TypeOK, SendJob
    <3> QED  BY <1>6, <2>3, <3>2, <3>3 DEF TypeOK, SendJob
  <2>4. CASE /\ Len(outbox[c]) < OutCap
             /\ outbox' = [outbox EXCEPT ![c] = Append(@, hand[c])]
             /\ UNCHANGED missed
    BY <1>6, <2>1, <2>2, <2>4, ConstantsAssumption DEF TypeOK, SendJob
  <2> QED  BY <1>6, <2>3, <2>4 DEF SendJob
<1>7. CASE WriteOutbox(c)
  <2>1. /\ outbox[c] # <<>> /\ outbox[c] \in Seq(Tips)
    BY <1>7 DEF TypeOK, WriteOutbox
  <2>2. /\ Tail(outbox[c]) \in Seq(Tips) /\ Head(outbox[c]) \in Tips
        /\ Len(Tail(outbox[c])) = Len(outbox[c]) - 1
    BY <2>1, HeadTailProperties
  <2>3. work' \in [Clients -> 0 .. MaxTip] /\ late' \in [Clients -> BOOLEAN]
    BY <1>7, <2>2 DEF TypeOK, WriteOutbox, Tips
  <2>4. /\ outbox' \in [Clients -> Seq(Tips)]
        /\ \A d \in Clients : Len(outbox'[d]) <= OutCap
    BY <1>7, <2>1, <2>2, ConstantsAssumption DEF TypeOK, WriteOutbox
  <2> QED  BY <1>7, <2>3, <2>4 DEF TypeOK, WriteOutbox
<1>8. CASE WriteBroadcast(c)
  <2>1. /\ queue[c] # <<>> /\ queue[c] \in Seq(Notice)
    BY <1>8 DEF TypeOK, WriteBroadcast
  <2>2. /\ Tail(queue[c]) \in Seq(Notice) /\ Head(queue[c]) \in Notice
        /\ Len(Tail(queue[c])) = Len(queue[c]) - 1
    BY <2>1, HeadTailProperties
  <2>3. Head(queue[c]).tip \in 0 .. MaxTip
    BY <2>2 DEF Notice, Tips
  <2>4. /\ work' \in [Clients -> 0 .. MaxTip] /\ missed' \in [Clients -> BOOLEAN]
        /\ late' \in [Clients -> BOOLEAN]
    BY <1>8, <2>3 DEF TypeOK, WriteBroadcast
  <2>5. /\ queue' \in [Clients -> Seq(Notice)]
        /\ \A d \in Clients : Len(queue'[d]) <= QueueCap
    BY <1>8, <2>1, <2>2, ConstantsAssumption DEF TypeOK, WriteBroadcast
  <2> QED  BY <1>8, <2>4, <2>5 DEF TypeOK, WriteBroadcast
<1> QED
  BY <1>1, <1>2, <1>3, <1>4, <1>5, <1>6, <1>7, <1>8 DEF Client, Serve

\* Types are kept by every step.
LEMMA TypeKept == ASSUME TypeOK, LoopShape, [Next]_vars PROVE TypeOK'
<1>1. CASE NewTip
  BY <1>1, ConstantsAssumption
  DEF TypeOK, NewTip, Tips, loopVars, jobVars, clientVars, feedVars, minerVars
<1>2. CASE UNCHANGED vars
  BY <1>2 DEF TypeOK, vars
<1> QED  BY <1>1, <1>2, LoopTypeKept, ClientTypeKept DEF Next

-----------------------------------------------------------------------------
(* The loop.                                                               *)

\* The loop's variables agree with its place after every step.
LEMMA LoopShapeKept == ASSUME TypeOK, LoopShape, [Next]_vars PROVE LoopShape'
<1> USE ConstantsAssumption DEF loopVars, jobVars
<1>0. tip \in Nat /\ template \in Nat /\ current \in Nat /\ tip # 0
  BY DEF TypeOK, Tips
<1>1. CASE NewTip
  BY <1>0, <1>1 DEF LoopShape, NewTip
<1>2. CASE GetTemplate
  <2>1. UNCHANGED <<tip, current, cache>> /\ loop = "wait"
    BY <1>2 DEF GetTemplate, LoopStep
  <2>2. CASE UNCHANGED loopVars
    BY <2>1, <2>2 DEF LoopShape
  <2>3. CASE /\ template' = tip /\ isNew' = (tip # lastPrev)
             /\ lastPrev' = tip /\ loop' = "create"
    <3>1. ~isNew' => tip = lastPrev
      BY <2>3
    <3>2. current = template /\ lastPrev = template
      BY <2>1 DEF LoopShape
    <3> QED  BY <1>0, <2>1, <2>3, <3>1, <3>2 DEF LoopShape
  <2> QED  BY <1>2, <2>2, <2>3 DEF GetTemplate
<1>3. CASE CreateJob
  <2>1. PICK aux \in {"none", "bare"} :
          cache' = LastJobs(Append(cache, [tip |-> template, aux |-> aux]))
    BY <1>3 DEF CreateJob
  <2> DEFINE j == [tip |-> template, aux |-> aux]
             more == Append(cache, j)
  <2>2. j \in Job /\ cache \in Seq(Job)
    BY <1>0, <1>3 DEF Job, AuxData, TypeOK, LoopShape, CreateJob, Tips
  <2> HIDE DEF j
  <2>3. more \in Seq(Job) /\ more # <<>> /\ Len(more) = Len(cache) + 1
    BY <2>2, AppendProperties
  <2>4. Tail(more) \in Seq(Job) /\ Len(Tail(more)) = Len(more) - 1
    BY <2>3, HeadTailProperties
  <2>5. Len(more) > MaxCached => Len(Tail(more)) > 0
    BY <2>3, <2>4
  <2>6. cache' # <<>>
    BY <2>1, <2>3, <2>4, <2>5 DEF LastJobs, j
  <2> QED  BY <1>3, <2>6 DEF LoopShape, CreateJob, LoopStep
<1>4. CASE Publish
  BY <1>0, <1>4 DEF LoopShape, Publish, LoopStep
<1>5. CASE UpdateMetadata
  BY <1>5 DEF LoopShape, UpdateMetadata, LoopStep
<1>6. CASE Broadcast
  BY <1>6 DEF LoopShape, Broadcast
<1>7. ASSUME NEW c \in Clients, Client(c) PROVE LoopShape'
  <2>1. ClientStep
    BY <1>7 DEF Client, Serve, Connect, Disconnect, Subscribe, Authorize, Login,
                SendJob, WriteOutbox, WriteBroadcast
  <2> QED  BY <2>1 DEF ClientStep, LoopShape
<1>8. CASE UNCHANGED vars
  BY <1>8 DEF LoopShape, vars
<1> QED
  BY <1>1, <1>2, <1>3, <1>4, <1>5, <1>6, <1>7, <1>8 DEF Next, JobLoop

-----------------------------------------------------------------------------
(* A client's feed.                                                        *)

\* A step that is not about the client.
LEMMA FeedStays ==
  ASSUME TypeOK, NEW c \in Clients, Feed(c), current' = current, Steady' => Steady,
         queue'[c] = queue[c], hand'[c] = hand[c], outbox'[c] = outbox[c],
         work'[c] = work[c], missed'[c] = missed[c], late'[c] = late[c],
         c \in connected' <=> c \in connected,
         c \in subscribed' <=> c \in subscribed
  PROVE  Feed(c)'
<1> HIDE DEF Steady
<1>1. Unborn(c)'
  BY DEF Feed, Unborn
<1>2. NoneNewer(c)'
  BY DEF Feed, NoneNewer
<1>3. QueueInOrder(c)'
  BY DEF Feed, QueueInOrder
<1>4. Spared(c)' <=> Spared(c)
  BY DEF Spared
<1>5. Fresh(c)'
  BY <1>4 DEF Feed, Fresh, HandlersAt
<1>6. HeadIsNoNews(c)'
  BY <1>4 DEF Feed, HeadIsNoNews
<1> QED  BY <1>1, <1>2, <1>3, <1>5, <1>6 DEF Feed

\* Publishing a job leaves every connection fed, or owed the broadcast.
LEMMA PublishFeeds ==
  ASSUME TypeOK, LoopShape, Publish, NEW c \in Clients, Feed(c)
  PROVE  Feed(c)'
<1>1. /\ current' = template /\ UNCHANGED <<clientVars, feedVars, minerVars, isNew>>
      /\ current <= template /\ current \in Nat /\ template \in Nat
      /\ loop' = "update" /\ loop = "publish"
  BY DEF TypeOK, Publish, LoopStep, LoopShape, clientVars, feedVars, minerVars
<1>2. CASE ~isNew
  <2>1. current' = current
    BY <1>1, <1>2 DEF LoopShape
  <2>2. Steady
    BY <1>2 DEF Steady
  <2> QED  BY <1>1, <2>1, <2>2, FeedStays DEF clientVars, feedVars, minerVars
<1>3. CASE isNew
  <2>1. ~Steady'
    BY <1>1, <1>3 DEF Steady
  <2>2. NoneNewer(c)'
    <3>1. /\ hand[c] \in Nat /\ work[c] \in Nat
          /\ outbox[c] \in Seq(Tips) /\ queue[c] \in Seq(Notice)
      BY DEF TypeOK
    <3>2. \A i \in 1 .. Len(outbox[c]) : outbox[c][i] \in Nat
      <4> TAKE i \in 1 .. Len(outbox[c])
      <4>1. outbox[c][i] \in Tips
        BY <3>1, ElementOfSeq
      <4> QED  BY <4>1 DEF Tips
    <3>3. \A i \in 1 .. Len(queue[c]) : queue[c][i].tip \in Nat
      <4> TAKE i \in 1 .. Len(queue[c])
      <4>1. queue[c][i] \in Notice
        BY <3>1, ElementOfSeq
      <4> QED  BY <4>1 DEF Notice, Tips
    <3> QED
      BY <1>1, <3>1, <3>2, <3>3 DEF Feed, NoneNewer, clientVars, feedVars, minerVars
  <2>3. Unborn(c)' /\ QueueInOrder(c)' /\ HeadIsNoNews(c)' /\ Fresh(c)'
    BY <1>1, <2>1 DEF Feed, Unborn, QueueInOrder, HeadIsNoNews, Fresh, Spared,
                      clientVars, feedVars, minerVars
  <2> QED  BY <2>2, <2>3 DEF Feed
<1> QED  BY <1>2, <1>3

\* The queue after a broadcast: the job at its end, and before it what there was
\* or all of it but the first.
LEMMA PushedShape ==
  ASSUME TypeOK, NEW c \in Clients, template \in Tips
  PROVE  \E d \in {0, 1} :
           /\ d = 1 <=> Overflow(c)
           /\ Len(Pushed(c)) = Len(queue[c]) - d + 1
           /\ Len(queue[c]) - d \in Nat
           /\ \A i \in 1 .. Len(queue[c]) - d : Pushed(c)[i] = queue[c][i + d]
           /\ Pushed(c)[Len(queue[c]) - d + 1] = [tip |-> template, clean |-> isNew]
<1> DEFINE n == [tip |-> template, clean |-> isNew]
<1>1. queue[c] \in Seq(Notice) /\ n \in Notice /\ QueueCap \in Nat \ {0}
  BY ConstantsAssumption DEF TypeOK, Notice
<1> HIDE DEF n
<1>2. CASE Overflow(c)
  <2>1. queue[c] # <<>> /\ Pushed(c) = Append(Tail(queue[c]), n)
    BY <1>1, <1>2 DEF Pushed, Overflow, n
  <2>2. /\ Tail(queue[c]) \in Seq(Notice) /\ Len(Tail(queue[c])) = Len(queue[c]) - 1
        /\ \A i \in 1 .. Len(Tail(queue[c])) : Tail(queue[c])[i] = queue[c][i + 1]
    BY <1>1, <2>1, HeadTailProperties
  <2>3. Len(Tail(queue[c])) \in Nat
    BY <2>2
  <2>4. /\ Len(Pushed(c)) = Len(Tail(queue[c])) + 1
        /\ \A i \in 1 .. Len(Tail(queue[c])) : Pushed(c)[i] = Tail(queue[c])[i]
        /\ Pushed(c)[Len(Tail(queue[c])) + 1] = n
    BY <1>1, <2>1, <2>2, AppendProperties
  <2> QED  BY <1>2, <2>2, <2>3, <2>4 DEF n
<1>3. CASE ~Overflow(c)
  <2>1. Pushed(c) = Append(queue[c], n)
    BY <1>3 DEF Pushed, n
  <2>2. /\ Len(Pushed(c)) = Len(queue[c]) + 1
        /\ \A i \in 1 .. Len(queue[c]) : Pushed(c)[i] = queue[c][i]
        /\ Pushed(c)[Len(queue[c]) + 1] = n
    BY <1>1, <2>1, AppendProperties
  <2>3. Len(queue[c]) \in Nat
    BY <1>1
  <2> QED  BY <1>3, <2>2, <2>3 DEF n
<1> QED  BY <1>2, <1>3

\* The broadcast feeds every subscribed connection.
LEMMA BroadcastFeeds ==
  ASSUME TypeOK, LoopShape, Broadcast, NEW c \in Clients, Feed(c)
  PROVE  Feed(c)'
<1> USE DEF clientVars, jobVars
<1>1. /\ current = template /\ current' = template /\ template \in Tips
      /\ current \in Nat /\ loop = "broadcast" /\ loop' = "wait" /\ isNew' = isNew
      /\ UNCHANGED <<hand, outbox, work, late, connected, subscribed>>
  BY DEF TypeOK, Broadcast, LoopShape, Tips
<1>2. CASE c \notin connected
  <2>1. /\ queue'[c] = queue[c] /\ missed'[c] = missed[c] /\ queue[c] = <<>>
        /\ c \notin subscribed
    BY <1>2 DEF TypeOK, Broadcast, Feed, Unborn
  <2>2. Unborn(c)' /\ NoneNewer(c)' /\ QueueInOrder(c)' /\ HeadIsNoNews(c)'
    BY <1>1, <2>1 DEF Feed, Unborn, NoneNewer, QueueInOrder, HeadIsNoNews
  <2>3. Fresh(c)'
    <3>1. hand[c] = 0 /\ outbox[c] = <<>> /\ work[c] = 0 /\ Len(outbox[c]) = 0
      BY <2>1 DEF Feed, Unborn
    <3> QED  BY <1>1, <2>1, <3>1 DEF Fresh, HandlersAt
  <2> QED  BY <2>2, <2>3 DEF Feed
<1>3. CASE c \in connected
  <2> DEFINE q == queue[c]
             n == [tip |-> template, clean |-> isNew]
  <2>1. PICK d \in {0, 1} :
          /\ d = 1 <=> Overflow(c)
          /\ Len(Pushed(c)) = Len(q) - d + 1
          /\ Len(q) - d \in Nat
          /\ \A i \in 1 .. Len(q) - d : Pushed(c)[i] = q[i + d]
          /\ Pushed(c)[Len(q) - d + 1] = n
    BY <1>1, PushedShape
  <2> DEFINE m == Len(q) - d
  <2>2. queue'[c] = Pushed(c)
    BY <1>3 DEF Broadcast
  <2>3. /\ m \in Nat /\ Len(queue'[c]) = m + 1 /\ Len(q) = m + d
        /\ \A i \in 1 .. m : queue'[c][i] = q[i + d]
        /\ queue'[c][m + 1] = n
    <3>1. Len(q) \in Nat
      BY DEF TypeOK
    <3> QED  BY <2>1, <2>2, <3>1
  <2> HIDE DEF m
  <2>4. queue'[c] # <<>>
    BY <2>3
  <2>5. Unborn(c)' /\ Fresh(c)'
    BY <1>1, <1>3, <2>4 DEF Feed, Unborn, Fresh
  <2>6. NoneNewer(c)'
    <3>1. \A i \in 1 .. m + 1 : queue'[c][i].tip <= current
      <4>1. \A i \in 1 .. m : i + d \in 1 .. Len(q)
        BY <2>3
      <4>2. \A i \in 1 .. m : queue'[c][i].tip <= current
        BY <2>3, <4>1 DEF Feed, NoneNewer
      <4>3. queue'[c][m + 1].tip <= current
        BY <1>1, <2>3
      <4> QED  BY <2>3, <4>2, <4>3
    <3> QED  BY <1>1, <2>3, <3>1 DEF Feed, NoneNewer
  <2>7. QueueInOrder(c)'
    <3>1. queue'[c][Len(queue'[c])].tip = current'
      BY <1>1, <2>3
    <3>2. ASSUME NEW i \in 1 .. Len(queue'[c]) - 1, ~queue'[c][i + 1].clean
          PROVE  queue'[c][i + 1].tip <= queue'[c][i].tip
      <4>1. i \in 1 .. m /\ i + d \in 1 .. Len(q) /\ queue'[c][i] = q[i + d]
        BY <2>3
      <4>2. CASE i = m
        <5>1. ~isNew /\ queue'[c][i + 1].tip = current
          BY <1>1, <2>3, <3>2, <4>2
        <5>2. Steady /\ q # <<>> /\ i + d = Len(q)
          BY <2>3, <4>1, <4>2, <5>1 DEF Steady
        <5>3. q[Len(q)].tip = current
          BY <5>2 DEF Feed, QueueInOrder
        <5> QED  BY <1>1, <4>1, <5>1, <5>2, <5>3
      <4>3. CASE i # m
        <5>1. i + 1 \in 1 .. m /\ queue'[c][i + 1] = q[(i + d) + 1]
          BY <2>3, <4>1, <4>3
        <5>2. i + d \in 1 .. Len(q) - 1
          BY <2>3, <5>1
        <5> QED  BY <3>2, <4>1, <5>1, <5>2 DEF Feed, QueueInOrder
      <4> QED  BY <4>2, <4>3
    <3> QED  BY <3>1, <3>2 DEF QueueInOrder
  <2>8. HeadIsNoNews(c)'
    <3> SUFFICES ASSUME Spared(c)', ~queue'[c][1].clean
                 PROVE  IF work[c] # 0
                          THEN queue'[c][1].tip <= work[c]
                          ELSE /\ hand[c] # 0 => queue'[c][1].tip <= hand[c]
                               /\ \A i \in 1 .. Len(outbox[c]) :
                                    queue'[c][1].tip <= outbox[c][i]
      BY <1>1 DEF HeadIsNoNews
    <3>1. Spared(c) /\ ~Overflow(c)
      BY <1>1, <1>3 DEF Spared, Broadcast, TypeOK
    <3>2. d = 0
      BY <2>1, <3>1
    <3>3. CASE q # <<>>
      <4>1. 1 \in 1 .. m
        <5>1. Len(q) \in Nat \ {0}
          BY <3>3 DEF TypeOK
        <5> QED  BY <2>3, <3>2, <5>1
      <4>2. queue'[c][1] = q[1]
        BY <2>3, <3>2, <4>1
      <4> QED  BY <3>1, <3>3, <4>2 DEF Feed, HeadIsNoNews
    <3>4. CASE q = <<>>
      <4>1. m = 0 /\ queue'[c][1] = n
        BY <2>3, <3>2, <3>4
      <4>2. ~isNew /\ queue'[c][1].tip = current
        BY <1>1, <4>1
      <4>3. \/ work[c] = current
            \/ work[c] = 0 /\ HandlersAt(c, current)
        BY <3>1, <3>4, <4>2 DEF Feed, Fresh, Steady
      <4> QED  BY <1>1, <4>2, <4>3 DEF HandlersAt, Tips
    <3> QED  BY <3>3, <3>4
  <2> QED  BY <2>5, <2>6, <2>7, <2>8 DEF Feed
<1> QED  BY <1>2, <1>3

\* A connection's own steps.
LEMMA HandlerFeeds ==
  ASSUME TypeOK, NEW c \in Clients, Feed(c),
         \/ Connect(c) \/ Disconnect(c) \/ Subscribe(c) \/ Authorize(c) \/ Login(c)
  PROVE  Feed(c)'
<1> USE DEF ClientStep, clientVars, jobVars, loopVars, feedVars, minerVars
<1>0. current' = current /\ loop' = loop /\ isNew' = isNew /\ current \in Nat
  BY DEF TypeOK, Connect, Disconnect, Subscribe, Authorize, Login
<1>s. Steady' => Steady
  BY <1>0 DEF Steady
<1>1. CASE Connect(c)
  <2>1. /\ connected' = connected \cup {c} /\ queue[c] = <<>>
        /\ c \notin subscribed
    BY <1>1 DEF Connect, Feed, Unborn, TypeOK
  <2>2. UNCHANGED <<queue, hand, outbox, work, missed, late, subscribed>>
    BY <1>1 DEF Connect
  <2>3. Unborn(c)'
    BY <2>1, <2>2 DEF Feed, Unborn
  <2>4. NoneNewer(c)' /\ QueueInOrder(c)' /\ HeadIsNoNews(c)'
    BY <1>0, <1>s, <2>2 DEF Feed, NoneNewer, QueueInOrder, HeadIsNoNews, Spared
  <2>5. Fresh(c)'
    BY <1>0, <1>s, <2>2 DEF Feed, Fresh, HandlersAt, Spared
  <2> QED  BY <2>3, <2>4, <2>5 DEF Feed
<1>2. CASE Disconnect(c)
  <2>1. /\ queue'[c] = <<>> /\ hand'[c] = 0 /\ outbox'[c] = <<>> /\ work'[c] = 0
        /\ c \notin subscribed' /\ Len(outbox'[c]) = 0 /\ Len(queue'[c]) = 0
    BY <1>2 DEF TypeOK, Disconnect
  <2> QED
    BY <1>0, <2>1
    DEF Feed, Unborn, NoneNewer, QueueInOrder, Fresh, HandlersAt, HeadIsNoNews
<1>3. CASE Subscribe(c) \/ Login(c)
  <2>1. /\ c \in connected /\ hand[c] = 0 /\ hand'[c] = current
        /\ c \in subscribed' /\ connected' = connected
        /\ UNCHANGED <<queue, outbox, work, missed, late>>
    BY <1>3 DEF TypeOK, Subscribe, Login
  <2>2. Unborn(c)'
    BY <2>1 DEF Unborn
  <2>3. NoneNewer(c)' /\ QueueInOrder(c)'
    BY <1>0, <1>s, <2>1 DEF Feed, NoneNewer, QueueInOrder
  <2>4. Fresh(c)'
    BY <1>0, <1>s, <2>1 DEF Feed, Fresh, HandlersAt, Spared
  <2>5. HeadIsNoNews(c)'
    <3>1. queue[c] # <<>> => queue[c][1].tip <= current
      <4>1. queue[c] # <<>> => 1 \in 1 .. Len(queue[c])
        BY DEF TypeOK
      <4> QED  BY <4>1 DEF Feed, NoneNewer
    <3> QED  BY <2>1, <3>1 DEF Feed, HeadIsNoNews, Spared
  <2> QED  BY <2>2, <2>3, <2>4, <2>5 DEF Feed
<1>4. CASE Authorize(c)
  <2>1. UNCHANGED <<queue, hand, outbox, work, missed, late, connected, subscribed>>
    BY <1>4 DEF Authorize
  <2> QED  BY <1>0, <1>s, <2>1, FeedStays
<1> QED  BY <1>1, <1>2, <1>3, <1>4

\* A job sent by a handler keeps its connection fed.
LEMMA SendFeeds ==
  ASSUME TypeOK, NEW c \in Clients, Feed(c), SendJob(c) PROVE Feed(c)'
<1> USE DEF ClientStep, clientVars, jobVars, loopVars, feedVars, minerVars
<1>0. /\ current' = current /\ loop' = loop /\ isNew' = isNew /\ current \in Nat
      /\ UNCHANGED <<queue, work, late, connected, subscribed>>
  BY DEF TypeOK, SendJob
<1>s. Steady' => Steady
  BY <1>0 DEF Steady
<1>1. hand[c] \in Tips /\ hand'[c] = 0 /\ c \in subscribed
  BY DEF TypeOK, SendJob, Feed, Unborn, Tips
<1>2. CASE outbox' = outbox /\ missed' = [missed EXCEPT ![c] = TRUE]
  <2>1. ~Spared(c)' /\ outbox'[c] = outbox[c]
    BY <1>2 DEF TypeOK, Spared
  <2> QED
    BY <1>0, <1>1, <1>s, <2>1
    DEF Feed, Unborn, NoneNewer, QueueInOrder, Fresh, HeadIsNoNews
<1>3. CASE outbox' = [outbox EXCEPT ![c] = Append(@, hand[c])] /\ missed' = missed
  <2>1. outbox'[c] = Append(outbox[c], hand[c]) /\ outbox[c] \in Seq(Tips)
    BY <1>3 DEF TypeOK
  <2>2. /\ Len(outbox'[c]) = Len(outbox[c]) + 1 /\ outbox'[c] # <<>>
        /\ outbox'[c][Len(outbox[c]) + 1] = hand[c]
        /\ \A i \in 1 .. Len(outbox[c]) : outbox'[c][i] = outbox[c][i]
    BY <1>1, <2>1, AppendProperties
  <2>3. Len(outbox[c]) \in Nat
    BY <2>1
  <2>4. \A i \in 1 .. Len(outbox'[c]) :
          i \in 1 .. Len(outbox[c]) \/ outbox'[c][i] = hand[c]
    BY <2>2, <2>3
  <2>5. Unborn(c)' /\ QueueInOrder(c)'
    BY <1>0, <1>1, <1>s DEF Feed, Unborn, QueueInOrder
  <2>6. NoneNewer(c)'
    BY <1>0, <1>1, <2>2, <2>4 DEF Feed, NoneNewer
  <2>7. Fresh(c)'
    BY <1>0, <1>1, <1>3, <1>s, <2>2, <2>4 DEF Feed, Fresh, HandlersAt, Spared, Tips
  <2>8. HeadIsNoNews(c)'
    BY <1>0, <1>1, <1>3, <2>2, <2>4 DEF Feed, HeadIsNoNews, Spared, Tips
  <2> QED  BY <2>5, <2>6, <2>7, <2>8 DEF Feed
<1> QED  BY <1>2, <1>3 DEF SendJob

\* A job written from the outbox keeps its connection fed.
LEMMA OutboxFeeds ==
  ASSUME TypeOK, NEW c \in Clients, Feed(c), WriteOutbox(c) PROVE Feed(c)'
<1> USE DEF ClientStep, clientVars, jobVars, loopVars, feedVars, minerVars
<1>0. /\ current' = current /\ loop' = loop /\ isNew' = isNew /\ current \in Nat
      /\ UNCHANGED <<queue, hand, missed, connected, subscribed>>
  BY DEF TypeOK, WriteOutbox
<1>s. Steady' => Steady
  BY <1>0 DEF Steady
<1>1. outbox[c] # <<>> /\ outbox[c] \in Seq(Tips) /\ c \in subscribed
  BY DEF TypeOK, WriteOutbox, Feed, Unborn
<1>2. /\ Tail(outbox[c]) \in Seq(Tips) /\ Head(outbox[c]) \in Tips
      /\ Head(outbox[c]) = outbox[c][1]
      /\ Len(Tail(outbox[c])) = Len(outbox[c]) - 1
      /\ \A i \in 1 .. Len(Tail(outbox[c])) : Tail(outbox[c])[i] = outbox[c][i + 1]
  BY <1>1, HeadTailProperties
<1> DEFINE h == outbox[c][1]
<1>3. /\ h \in Tips /\ outbox'[c] = Tail(outbox[c]) /\ work'[c] = h
      /\ work[c] \in Nat
      /\ Spared(c)' => Spared(c) /\ h >= work[c]
  <2>1. /\ h \in Tips /\ outbox'[c] = Tail(outbox[c]) /\ work'[c] = h
        /\ work[c] \in Nat
    BY <1>1, <1>2 DEF TypeOK, WriteOutbox
  <2>2. h \in Nat
    BY <2>1 DEF Tips
  <2>3. late[c] \/ h < work[c] => late'[c]
    BY <1>2 DEF TypeOK, WriteOutbox
  <2>4. missed'[c] = missed[c]
    BY <1>0
  <2>5. Spared(c)' => Spared(c) /\ ~(h < work[c])
    BY <2>3, <2>4 DEF Spared
  <2> QED  BY <2>1, <2>2, <2>5
<1>4. /\ Len(outbox[c]) \in Nat \ {0} /\ Len(outbox'[c]) = Len(outbox[c]) - 1
      /\ \A i \in 1 .. Len(outbox'[c]) :
           i + 1 \in 1 .. Len(outbox[c]) /\ outbox'[c][i] = outbox[c][i + 1]
  BY <1>1, <1>2, <1>3
<1>5. 1 \in 1 .. Len(outbox[c])
  BY <1>4
<1> HIDE DEF h
<1>6. Unborn(c)' /\ QueueInOrder(c)'
  BY <1>0, <1>1, <1>s DEF Feed, Unborn, QueueInOrder
<1>7. h <= current
  BY <1>5 DEF Feed, NoneNewer, h
<1>8. NoneNewer(c)'
  BY <1>0, <1>3, <1>4, <1>7 DEF Feed, NoneNewer
<1>9. Fresh(c)'
  <2> SUFFICES ASSUME Spared(c)', Steady', queue'[c] = <<>>
               PROVE  work'[c] = current'
    BY DEF Fresh
  <2>1. work[c] = current \/ (work[c] = 0 /\ HandlersAt(c, current))
    <3>1. Spared(c) /\ Steady /\ queue[c] = <<>>
      BY <1>0, <1>3, <1>s
    <3> QED  BY <3>1 DEF Feed, Fresh
  <2>2. HandlersAt(c, current) => h = current
    BY <1>5 DEF HandlersAt, h
  <2> QED  BY <1>0, <1>3, <1>7, <2>1, <2>2 DEF Tips
<1>10. HeadIsNoNews(c)'
  <2> SUFFICES ASSUME Spared(c)', queue[c] # <<>>, ~queue[c][1].clean
               PROVE  queue[c][1].tip <= h
    BY <1>0, <1>3 DEF HeadIsNoNews, Tips
  <2>1. queue[c][1].tip \in Nat
    <3>1. 1 \in 1 .. Len(queue[c]) /\ queue[c] \in Seq(Notice)
      BY DEF TypeOK
    <3>2. queue[c][1] \in Notice
      BY <3>1, ElementOfSeq
    <3> QED  BY <3>2 DEF Notice, Tips
  <2>2. CASE work[c] # 0
    <3>1. queue[c][1].tip <= work[c]
      BY <1>3, <2>2 DEF Feed, HeadIsNoNews
    <3> QED  BY <1>3, <2>1, <3>1 DEF Tips
  <2>3. CASE work[c] = 0
    BY <1>3, <1>5, <2>3 DEF Feed, HeadIsNoNews, h
  <2> QED  BY <2>2, <2>3
<1> QED  BY <1>6, <1>8, <1>9, <1>10 DEF Feed

\* A job taken from the broadcast queue keeps its connection fed.
LEMMA TakeFeeds ==
  ASSUME TypeOK, NEW c \in Clients, Feed(c), WriteBroadcast(c) PROVE Feed(c)'
<1> USE DEF ClientStep, clientVars, jobVars, loopVars, feedVars, minerVars
<1>0. /\ current' = current /\ loop' = loop /\ isNew' = isNew /\ current \in Nat
      /\ UNCHANGED <<hand, outbox, connected, subscribed>>
  BY DEF TypeOK, WriteBroadcast
<1>s. Steady' => Steady
  BY <1>0 DEF Steady
<1> DEFINE q == queue[c]
<1>1. q # <<>> /\ q \in Seq(Notice) /\ queue'[c] = Tail(q)
  BY DEF TypeOK, WriteBroadcast
<1> HIDE DEF q
<1>2. /\ Tail(q) \in Seq(Notice) /\ Len(Tail(q)) = Len(q) - 1
      /\ \A i \in 1 .. Len(Tail(q)) : Tail(q)[i] = q[i + 1]
      /\ Head(q) = q[1] /\ Len(q) \in Nat \ {0}
  BY <1>1, HeadTailProperties
<1>3. /\ Len(queue'[c]) = Len(q) - 1 /\ Len(q) \in Nat \ {0}
      /\ 1 \in 1 .. Len(q) /\ Len(q) \in 1 .. Len(q)
      /\ \A i \in 1 .. Len(queue'[c]) :
           i + 1 \in 1 .. Len(q) /\ queue'[c][i] = q[i + 1]
  BY <1>1, <1>2
<1>4. q[1] \in Notice /\ q[1].tip \in Tips
  <2>1. q[1] \in Notice
    BY <1>1, <1>3, ElementOfSeq
  <2> QED  BY <2>1 DEF Notice
<1>5. q[1].tip <= current
  BY <1>3 DEF Feed, NoneNewer, q
<1>6. CASE ~Mining(c)
  <2>1. ~Spared(c)' /\ work'[c] = work[c]
    BY <1>6 DEF TypeOK, WriteBroadcast, Spared
  <2>2. Fresh(c)' /\ HeadIsNoNews(c)'
    BY <2>1 DEF Fresh, HeadIsNoNews
  <2>3. Unborn(c)'
    <3>1. c \in connected
      BY <1>1 DEF Feed, Unborn, q
    <3> QED  BY <1>0, <2>1, <3>1 DEF Feed, Unborn
  <2>4. NoneNewer(c)'
    BY <1>0, <1>3, <2>1 DEF Feed, NoneNewer, q
  <2>5. QueueInOrder(c)'
    <3>1. queue'[c] # <<>> => queue'[c][Len(queue'[c])] = q[Len(q)]
      <4>1. queue'[c] # <<>> => Len(queue'[c]) \in 1 .. Len(queue'[c])
        BY <1>1, <1>2
      <4> QED  BY <1>3, <4>1
    <3>2. \A i \in 1 .. Len(queue'[c]) - 1 :
            /\ i + 1 \in 1 .. Len(q) - 1
            /\ queue'[c][i] = q[i + 1] /\ queue'[c][i + 1] = q[(i + 1) + 1]
      BY <1>3
    <3>3. q # <<>> /\ q = queue[c]
      BY <1>1 DEF q
    <3> QED  BY <1>0, <1>s, <3>1, <3>2, <3>3 DEF Feed, QueueInOrder
  <2> QED  BY <2>2, <2>3, <2>4, <2>5 DEF Feed
<1>7. CASE Mining(c)
  <2>1. work'[c] = q[1].tip /\ work'[c] # 0 /\ c \in subscribed
    <3>1. work'[c] = Head(q).tip
      BY <1>7 DEF TypeOK, WriteBroadcast, q
    <3> QED  BY <1>2, <1>4, <1>7, <3>1 DEF Mining, Tips
  <2>2. Unborn(c)'
    <3>1. c \in connected
      BY <1>1 DEF Feed, Unborn, q
    <3> QED  BY <1>0, <2>1, <3>1 DEF Unborn
  <2>3. NoneNewer(c)'
    BY <1>0, <1>3, <1>5, <2>1 DEF Feed, NoneNewer, q
  <2>4. QueueInOrder(c)'
    <3>1. queue'[c] # <<>> => queue'[c][Len(queue'[c])] = q[Len(q)]
      <4>1. queue'[c] # <<>> => Len(queue'[c]) \in 1 .. Len(queue'[c])
        BY <1>1, <1>2
      <4> QED  BY <1>3, <4>1
    <3>2. \A i \in 1 .. Len(queue'[c]) - 1 :
            /\ i + 1 \in 1 .. Len(q) - 1
            /\ queue'[c][i] = q[i + 1] /\ queue'[c][i + 1] = q[(i + 1) + 1]
      BY <1>3
    <3>3. q # <<>> /\ q = queue[c]
      BY <1>1 DEF q
    <3> QED  BY <1>0, <1>s, <3>1, <3>2, <3>3 DEF Feed, QueueInOrder
  <2>5. Fresh(c)'
    <3> SUFFICES ASSUME Steady', queue'[c] = <<>> PROVE work'[c] = current'
      BY DEF Fresh
    <3>1. Len(q) = 1
      BY <1>3
    <3>2. q[Len(q)].tip = current
      BY <1>1, <1>s DEF Feed, QueueInOrder, q
    <3> QED  BY <1>0, <2>1, <3>1, <3>2
  <2>6. HeadIsNoNews(c)'
    <3> SUFFICES ASSUME queue'[c] # <<>>, ~queue'[c][1].clean
                 PROVE  queue'[c][1].tip <= work'[c]
      BY <2>1 DEF HeadIsNoNews
    <3>1. 1 \in 1 .. Len(queue'[c])
      BY <1>1, <1>2
    <3>2. queue'[c][1] = q[1 + 1] /\ 1 \in 1 .. Len(q) - 1
      BY <1>3, <3>1
    <3>3. q[1 + 1].tip <= q[1].tip
      BY <3>2 DEF Feed, QueueInOrder, q
    <3> QED  BY <2>1, <3>2, <3>3
  <2> QED  BY <2>2, <2>3, <2>4, <2>5, <2>6 DEF Feed
<1> QED  BY <1>6, <1>7

\* A step of one connection keeps all of them fed.
LEMMA ClientFeeds ==
  ASSUME TypeOK, NEW c \in Clients, Client(c), \A d \in Clients : Feed(d),
         NEW d \in Clients
  PROVE  Feed(d)'
<1> USE DEF ClientStep, clientVars, jobVars, loopVars, feedVars, minerVars
<1>1. CASE d = c
  BY <1>1, HandlerFeeds, SendFeeds, OutboxFeeds, TakeFeeds DEF Client, Serve
<1>2. CASE d # c
  <2>1. UNCHANGED <<current, loop, isNew>>
    BY DEF Client, Serve, Connect, Disconnect, Subscribe, Authorize, Login, SendJob,
           WriteOutbox, WriteBroadcast
  <2>2. /\ queue'[d] = queue[d] /\ hand'[d] = hand[d] /\ outbox'[d] = outbox[d]
        /\ work'[d] = work[d] /\ missed'[d] = missed[d] /\ late'[d] = late[d]
        /\ d \in connected' <=> d \in connected
        /\ d \in subscribed' <=> d \in subscribed
    <3>1. CASE Connect(c) \/ Authorize(c)
      BY <1>2, <3>1 DEF Connect, Authorize
    <3>2. CASE Disconnect(c)
      BY <1>2, <3>2 DEF TypeOK, Disconnect
    <3>3. CASE Subscribe(c) \/ Login(c)
      BY <1>2, <3>3 DEF TypeOK, Subscribe, Login
    <3>4. CASE SendJob(c)
      BY <1>2, <3>4 DEF TypeOK, SendJob
    <3>5. CASE WriteOutbox(c)
      BY <1>2, <3>5 DEF TypeOK, WriteOutbox
    <3>6. CASE WriteBroadcast(c)
      BY <1>2, <3>6 DEF TypeOK, WriteBroadcast
    <3> QED  BY <3>1, <3>2, <3>3, <3>4, <3>5, <3>6 DEF Client, Serve
  <2>3. Steady' => Steady
    BY <2>1 DEF Steady
  <2> QED  BY <2>1, <2>2, <2>3, FeedStays
<1> QED  BY <1>1, <1>2

-----------------------------------------------------------------------------
(* The invariant, and what follows from it.                                *)

\* The initial states satisfy the inductive invariant.
LEMMA InitInvariant == Init => IInv
<1> SUFFICES ASSUME Init PROVE IInv
  OBVIOUS
<1> USE ConstantsAssumption
<1>1. TypeOK
  <2>1. 1 \in Tips /\ 0 \in 0 .. MaxTip
    BY DEF Tips
  <2>2. /\ <<>> \in Seq(Job) /\ <<>> \in Seq(Notice) /\ <<>> \in Seq(Tips)
        /\ Len(<<>>) = 0
    OBVIOUS
  <2>3. /\ tip \in Tips /\ cache \in Seq(Job) /\ Len(cache) <= MaxCached
        /\ template \in 0 .. MaxTip /\ lastPrev \in 0 .. MaxTip
        /\ current \in 0 .. MaxTip /\ isNew \in BOOLEAN
    <3>1. tip \in Tips /\ isNew \in BOOLEAN
      BY <2>1 DEF Init
    <3>2. cache \in Seq(Job) /\ Len(cache) <= MaxCached
      BY <2>2 DEF Init
    <3>3. /\ template \in 0 .. MaxTip /\ lastPrev \in 0 .. MaxTip
          /\ current \in 0 .. MaxTip
      BY <2>1 DEF Init
    <3> QED  BY <3>1, <3>2, <3>3
  <2>4. /\ queue \in [Clients -> Seq(Notice)] /\ outbox \in [Clients -> Seq(Tips)]
        /\ \A c \in Clients : Len(queue[c]) <= QueueCap /\ Len(outbox[c]) <= OutCap
    BY <2>2 DEF Init
  <2>5. /\ hand \in [Clients -> 0 .. MaxTip] /\ work \in [Clients -> 0 .. MaxTip]
        /\ missed \in [Clients -> BOOLEAN] /\ late \in [Clients -> BOOLEAN]
    BY <2>1 DEF Init
  <2> QED  BY <2>3, <2>4, <2>5 DEF Init, TypeOK
<1>2. LoopShape
  BY DEF Init, LoopShape
<1>3. ASSUME NEW c \in Clients PROVE Feed(c)
  <2>1. /\ queue[c] = <<>> /\ hand[c] = 0 /\ outbox[c] = <<>> /\ work[c] = 0
        /\ c \notin subscribed /\ Len(outbox[c]) = 0 /\ Len(queue[c]) = 0
        /\ current = 0
    BY DEF Init
  <2> QED
    BY <2>1
    DEF Feed, Unborn, NoneNewer, QueueInOrder, Fresh, HandlersAt, HeadIsNoNews
<1> QED  BY <1>1, <1>2, <1>3 DEF IInv

\* Every step keeps the inductive invariant.
LEMMA StepInvariant == IInv /\ [Next]_vars => IInv'
<1> SUFFICES ASSUME IInv, [Next]_vars PROVE IInv'
  OBVIOUS
<1>1. TypeOK' /\ LoopShape'
  BY TypeKept, LoopShapeKept DEF IInv
<1>2. ASSUME NEW c \in Clients PROVE Feed(c)'
  <2>0. Feed(c) /\ TypeOK /\ LoopShape
    BY DEF IInv
  <2>1. CASE NewTip \/ GetTemplate \/ CreateJob \/ UpdateMetadata \/ UNCHANGED vars
    <3>1. UNCHANGED <<current, queue, hand, outbox, work, missed, late, connected,
                      subscribed>>
      BY <2>1 DEF NewTip, GetTemplate, CreateJob, UpdateMetadata, LoopStep, vars,
                  jobVars, clientVars, feedVars, minerVars
    <3>2. Steady' => Steady
      BY <2>1 DEF Steady, NewTip, GetTemplate, CreateJob, UpdateMetadata, vars,
                  loopVars
    <3> QED  BY <2>0, <3>1, <3>2, FeedStays
  <2>2. CASE Publish
    BY <2>0, <2>2, PublishFeeds
  <2>3. CASE Broadcast
    BY <2>0, <2>3, BroadcastFeeds
  <2>4. ASSUME NEW d \in Clients, Client(d) PROVE Feed(c)'
    BY <2>0, <2>4, ClientFeeds DEF IInv
  <2> QED  BY <2>1, <2>2, <2>3, <2>4 DEF Next, JobLoop
<1> QED  BY <1>1, <1>2 DEF IInv

\* The inductive invariant holds in every reachable state.
THEOREM Inductive == Spec => []IInv
BY InitInvariant, StepInvariant, PTL DEF Spec

\* Cache and queues stay within their sizes, and jobs are on known tips.
THEOREM TypeCorrect == Spec => []TypeOK
<1>1. IInv => TypeOK
  BY DEF IInv
<1> QED  BY <1>1, Inductive, PTL

\* A settled miner on another tip than the current job's missed a broadcast, lost
\* a handler's job or was sent one late.
THEOREM StaleExplained == Spec => []StaleHasACause
<1>1. IInv => StaleHasACause
  <2> SUFFICES ASSUME IInv, NEW c \in Clients, Mining(c), Settled(c), Spared(c)
               PROVE  work[c] = current
    BY DEF StaleHasACause, Spared
  <2>1. Feed(c) /\ Steady /\ queue[c] = <<>> /\ hand[c] = 0 /\ outbox[c] = <<>>
    BY DEF IInv, Settled, Steady
  <2> QED  BY <2>1 DEF Feed, Fresh, Mining
<1> QED  BY <1>1, Inductive, PTL

\* A spared miner is brought to a new tip by a job that says clean_jobs.
THEOREM NewTipsAreClean == Spec => NewTipIsClean
<1>1. IInv /\ [Next]_vars =>
        [\A c \in Clients :
           /\ queue[c] # <<>> /\ queue'[c] = Tail(queue[c])
           /\ work[c] # 0 /\ work'[c] > work[c]
           => Head(queue[c]).clean \/ missed[c] \/ late[c]]_vars
  <2> SUFFICES ASSUME IInv, [Next]_vars, NEW c \in Clients,
                      queue[c] # <<>>, queue'[c] = Tail(queue[c]),
                      work[c] # 0, work'[c] > work[c], Spared(c)
               PROVE  Head(queue[c]).clean
    BY DEF Spared
  <2> USE DEF ClientStep, clientVars, jobVars, loopVars, feedVars, minerVars
  <2>1. /\ queue[c] \in Seq(Notice) /\ work[c] \in Nat /\ TypeOK
        /\ Len(Tail(queue[c])) # Len(queue[c])
    BY HeadTailProperties DEF IInv, TypeOK
  <2>2. ~(NewTip \/ GetTemplate \/ CreateJob \/ Publish \/ UpdateMetadata \/ Broadcast)
    <3>1. work' # work
      BY <2>1
    <3> QED  BY <3>1 DEF NewTip, GetTemplate, CreateJob, Publish, UpdateMetadata,
                         Broadcast, LoopStep
  <2>3. ~UNCHANGED vars
    BY <2>1 DEF vars
  <2>4. PICK d \in Clients : Client(d)
    <3>1. Next
      BY <2>3
    <3> QED  BY <2>2, <3>1, Zenon DEF Next, JobLoop
  <2>5. queue' # queue /\ work' # work
    <3>1. queue' # queue
      BY <2>1
    <3>2. work' # work
      BY <2>1
    <3> QED  BY <3>1, <3>2
  <2>6. ~(Connect(d) \/ Subscribe(d) \/ Authorize(d) \/ Login(d) \/ SendJob(d)
          \/ WriteOutbox(d))
    BY <2>5 DEF Connect, Subscribe, Authorize, Login, SendJob, WriteOutbox
  <2>7. ~Disconnect(d)
    <3> SUFFICES ASSUME Disconnect(d) PROVE FALSE
      OBVIOUS
    <3>1. work' = [work EXCEPT ![d] = 0]
      BY DEF Disconnect
    <3>2. work'[c] \in {work[c], 0}
      BY <2>1, <3>1 DEF TypeOK
    <3> QED  BY <2>1, <3>2
  <2>8. WriteBroadcast(d)
    BY <2>4, <2>6, <2>7 DEF Client, Serve
  <2>9. d = c /\ work'[c] = Head(queue[c]).tip
    BY <2>1, <2>8 DEF WriteBroadcast, TypeOK
  <2>10. Head(queue[c]) = queue[c][1] /\ queue[c][1].tip > work[c]
    BY <2>1, <2>9
  <2>11. queue[c][1] \in Notice
    <3>1. 1 \in 1 .. Len(queue[c])
      BY <2>1
    <3> QED  BY <2>1, <3>1, ElementOfSeq
  <2>12. queue[c][1].tip \in Nat
    BY <2>11 DEF Notice, Tips
  <2>13. ~(queue[c][1].tip <= work[c])
    BY <2>1, <2>10, <2>12
  <2> QED  BY <2>10, <2>13 DEF IInv, Feed, HeadIsNoNews
<1> QED  BY <1>1, Inductive, PTL DEF Spec, NewTipIsClean
=============================================================================

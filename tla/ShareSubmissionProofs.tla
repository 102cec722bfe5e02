----------------------- MODULE ShareSubmissionProofs -----------------------
(***************************************************************************)
(* What holds of ShareSubmission for any clients, jobs, chains, share      *)
(* qualities, cache size and number of faults.                             *)
(***************************************************************************)
EXTENDS ShareSubmission, FiniteSetTheorems, TLAPS

Handling == {"validate", "record", "lookup", "submit", "row"}

\* A handler has a share of its own client in hand, of a job there is; a bad share too many ends
\* the connection; a share is recorded after its target was met, and a row is
\* inserted after the daemon was asked, the parent's before the others are.
HandIsShaped(c) ==
  /\ hold[c] # NoHold <=> pc[c] \in Handling
  /\ hold[c] # NoHold =>
       hold[c] \in Holds /\ Share(c).client = c /\ Share(c).job <= jobs
  /\ pc[c] # "gone" => bad[c] < MaxBad
  /\ pc[c] = "record" => hold[c].diff <= QualityOf(Share(c))
  /\ pc[c] = "row" => /\ <<chain[c], Share(c)>> \in tried
                      /\ chain[c] = Parent \/ Parent \notin todo[c]
HandShape == \A c \in Clients : HandIsShaped(c)

InHand(s) == hold[s.client] # NoHold /\ Share(s.client) = s

\* Times a share may pass the duplicate check: once for each time the set was
\* cleared, and once more if the set has its pair.
Passes(s) == clears + (IF <<s.job, s.key>> \in recent THEN 1 ELSE 0)

\* A share in hand that is not recorded yet.
ToRecord(s) == InHand(s) /\ pc[s.client] \in {"validate", "record"}
RecordsBounded ==
  \A s \in Shares :
    recorded[s] + (IF ToRecord(s) THEN 1 ELSE 0) <= Passes(s)

\* A share in hand whose parent block may still get a row.
ToRow(s) ==
  /\ InHand(s)
  /\ \/ pc[s.client] \in {"validate", "record", "lookup"}
     \/ pc[s.client] = "submit" /\ Parent \in todo[s.client]
     \/ pc[s.client] = "row" /\ chain[s.client] = Parent
RowsBounded ==
  \A s \in Shares :
    rows[BlockOf(Parent, s)] + (IF ToRow(s) THEN 1 ELSE 0) <= Passes(s)

\* A share earns its miner no more than its quality each time.
CreditBounded == \A s \in Shares : credit[s] <= recorded[s] * QualityOf(s)

\* A recorded solution was tried, is about to be, or its excuse is known.
Excused(x, s) ==
  s.job + MaxCached <= jobs \/ crashes > 0 \/ (s \in early /\ x # Parent)
Pending(x, s) ==
  /\ InHand(s)
  /\ \/ pc[s.client] = "lookup"
     \/ pc[s.client] \in {"submit", "row"} /\ x \in todo[s.client]
SolutionsPursued ==
  \A s \in Shares, x \in Chains :
    recorded[s] > 0 /\ QualityOf(s) >= NetDifficulty[x]
      => <<x, s>> \in tried \/ Pending(x, s) \/ Excused(x, s)

IInv == /\ TypeOK /\ HandShape /\ RecordsBounded /\ RowsBounded
        /\ CreditBounded /\ SolutionsPursued

-----------------------------------------------------------------------------
(* Operators.                                                              *)

\* A share's quality is a natural number.
LEMMA QualityIsNat == ASSUME NEW s \in Shares PROVE QualityOf(s) \in Nat
<1>1. s.client \in Clients /\ s.job \in Jobs /\ s.key \in Keys
  BY DEF Shares
<1> QED  BY <1>1, ConstantsAssumption DEF QualityOf

\* The block of a chain and a share is a block.
LEMMA BlockIsBlock ==
  ASSUME NEW x \in Chains, NEW s \in Shares PROVE BlockOf(x, s) \in Blocks
BY DEF Blocks

\* Blocks of different chains differ, and so do parent blocks of different
\* shares.
LEMMA BlocksDiffer ==
  ASSUME NEW x \in Chains, NEW s \in Shares, NEW t \in Shares,
         BlockOf(x, t) = BlockOf(Parent, s)
  PROVE  x = Parent /\ t = s
<1>1. x = Parent
  BY DEF BlockOf
<1>2. <<x, t.client, t.job, t.key>> = <<x, s.client, s.job, s.key>>
  BY <1>1 DEF BlockOf
<1> QED  BY <1>1, <1>2 DEF Shares

\* Multiplication by a natural number keeps the order.
LEMMA ProductGrows ==
  ASSUME NEW a \in Nat, NEW b \in Nat, NEW q \in Nat, a <= b
  PROVE  a * q <= b * q
<1>1. (b - a) * q >= 0
  OBVIOUS
<1>2. b * q = a * q + (b - a) * q
  OBVIOUS
<1>3. a * q \in Nat /\ b * q \in Nat /\ (b - a) * q \in Nat
  OBVIOUS
<1> QED  BY <1>1, <1>2, <1>3

-----------------------------------------------------------------------------
(* Types.                                                                  *)

\* Types are kept by every step.
LEMMA TypeKept == TypeOK /\ HandShape /\ [Next]_vars => TypeOK'
<1> SUFFICES ASSUME TypeOK, HandShape, [Next]_vars PROVE TypeOK'
  OBVIOUS
<1> USE ConstantsAssumption DEF poolVars, handVars, chainVars, recordVars,
                                faultVars
<1>1. CASE NewJob
  BY <1>1 DEF TypeOK, NewJob
<1>2. CASE DescribeJob
  BY <1>2 DEF TypeOK, DescribeJob
<1>3. CASE Crash
  BY <1>3 DEF TypeOK, Crash, Places, Trouble
<1>4. ASSUME NEW c \in Clients, NEW d \in Difficulties, SuggestDifficulty(c, d)
      PROVE  TypeOK'
  BY <1>4 DEF TypeOK, SuggestDifficulty
<1>r. ASSUME NEW c \in Clients, Refuse(c), pc[c] # "gone"
      PROVE  /\ bad' \in [Clients -> 0 .. MaxBad]
             /\ pc' \in [Clients -> Places]
             /\ hold' \in [Clients -> Holds \cup {NoHold}]
  <2>1. bad[c] \in 0 .. MaxBad /\ bad[c] < MaxBad
    BY <1>r DEF TypeOK, HandShape, HandIsShaped
  <2>2. bad[c] + 1 \in 0 .. MaxBad
    BY <2>1
  <2>3. bad' \in [Clients -> 0 .. MaxBad]
    BY <1>r, <2>2 DEF TypeOK, Refuse
  <2>4. pc' \in [Clients -> Places]
    BY <1>r DEF TypeOK, Refuse, Return, Places
  <2>5. hold' \in [Clients -> Holds \cup {NoHold}]
    BY <1>r DEF TypeOK, Refuse, Return
  <2> QED  BY <2>3, <2>4, <2>5
<1>h. ASSUME NEW c \in Clients, pc[c] \in Handling
      PROVE  hold[c] \in Holds /\ Share(c) \in Shares /\ hold[c].diff \in Nat
  BY <1>h DEF HandShape, HandIsShaped, Share, Holds
<1>5. ASSUME NEW c \in Clients, RefuseMalformed(c) PROVE TypeOK'
  BY <1>5, <1>r DEF TypeOK, RefuseMalformed
<1>6. ASSUME NEW c \in Clients, NEW j \in Jobs, NEW k \in Keys, Submit(c, j, k)
      PROVE  TypeOK'
  <2>1. recent' \subseteq Jobs \X Keys /\ clears' \in Nat
    BY <1>6 DEF TypeOK, Submit, Remembered
  <2>2. /\ bad' \in [Clients -> 0 .. MaxBad]
        /\ pc' \in [Clients -> Places]
        /\ hold' \in [Clients -> Holds \cup {NoHold}]
    <3>1. CASE Refuse(c)
      BY <1>6, <1>r, <3>1 DEF Submit
    <3>2. CASE ~Refuse(c)
      <4>1. /\ pc' = [pc EXCEPT ![c] = "validate"]
            /\ hold' = [hold EXCEPT ![c] =
                  [share |-> [client |-> c, job |-> j, key |-> k],
                   diff  |-> difficulty[c]]]
            /\ UNCHANGED bad
        BY <1>6, <3>2 DEF Submit
      <4>2. [share |-> [client |-> c, job |-> j, key |-> k],
             diff  |-> difficulty[c]] \in Holds
        BY DEF TypeOK, Holds, Shares
      <4> QED  BY <4>1, <4>2 DEF TypeOK, Places
    <3> QED  BY <3>1, <3>2
  <2> QED  BY <1>6, <2>1, <2>2 DEF TypeOK, Submit
<1>7. ASSUME NEW c \in Clients, Validate(c) PROVE TypeOK'
  <2>1. /\ bad' \in [Clients -> 0 .. MaxBad]
        /\ pc' \in [Clients -> Places]
        /\ hold' \in [Clients -> Holds \cup {NoHold}]
    <3>1. CASE Refuse(c)
      BY <1>7, <1>r, <3>1 DEF Validate
    <3>2. CASE Return(c, "idle") /\ UNCHANGED bad
      BY <3>2 DEF TypeOK, Return, Places
    <3>3. CASE Goto(c, "record") /\ bad' = [bad EXCEPT ![c] = 0]
      <4>1. 0 \in 0 .. MaxBad
        OBVIOUS
      <4> QED  BY <3>3, <4>1 DEF TypeOK, Goto, Places
    <3> QED  BY <1>7, <3>1, <3>2, <3>3 DEF Validate
  <2> QED  BY <1>7, <2>1 DEF TypeOK, Validate
<1>8. ASSUME NEW c \in Clients, Record(c) PROVE TypeOK'
  BY <1>8, <1>h DEF TypeOK, Record, Goto, Places, Handling
<1>9. ASSUME NEW c \in Clients, Lookup(c) PROVE TypeOK'
  <2>1. todo' \in [Clients -> SUBSET Chains]
    BY <1>9 DEF TypeOK, Lookup, ChainsFor, Solved
  <2>2. early' \subseteq Shares
    BY <1>9, <1>h DEF TypeOK, Lookup, Handling
  <2> QED  BY <1>9, <2>1, <2>2 DEF TypeOK, Lookup, Return, Goto, Places
<1>10. ASSUME NEW c \in Clients, NEW x \in Chains, SubmitBlock(c, x)
       PROVE  TypeOK'
  <2>1. Share(c) \in Shares
    BY <1>10, <1>h DEF SubmitBlock, Handling
  <2>2. tried' \subseteq Chains \X Shares /\ accepted' \subseteq Blocks
    BY <1>10, <2>1, BlockIsBlock DEF TypeOK, SubmitBlock, Answer
  <2>3. /\ todo' \in [Clients -> SUBSET Chains]
        /\ chain' \in [Clients -> Chains]
    BY <1>10 DEF TypeOK, SubmitBlock, Answer, Leave
  <2>5. rpcErrors' \in Nat
    <3>1. rpcErrors' \in {rpcErrors, rpcErrors + 1}
      BY <1>10 DEF SubmitBlock, Answer
    <3> QED  BY <3>1 DEF TypeOK
  <2>4. pc' \in [Clients -> Places] /\ hold' \in [Clients -> Holds \cup {NoHold}]
    BY <1>10 DEF TypeOK, SubmitBlock, Answer, Leave, Return, Goto, Places
  <2> QED  BY <1>10, <2>2, <2>3, <2>4, <2>5 DEF TypeOK, SubmitBlock
<1>11. ASSUME NEW c \in Clients, InsertRow(c) PROVE TypeOK'
  <2>1. rows' \in [Blocks -> Nat]
    <3>1. CASE rows' = rows
      BY <3>1 DEF TypeOK
    <3>2. CASE rows' = [rows EXCEPT ![BlockOf(chain[c], Share(c))] = @ + 1]
      <4> DEFINE b == BlockOf(chain[c], Share(c))
      <4>1. Share(c) \in Shares /\ chain[c] \in Chains
        BY <1>11, <1>h DEF TypeOK, InsertRow, Handling
      <4>2. b \in Blocks
        BY <4>1, BlockIsBlock
      <4> HIDE DEF b
      <4>3. rows' = [rows EXCEPT ![b] = rows[b] + 1]
        BY <3>2 DEF b
      <4>4. rows \in [Blocks -> Nat] /\ rows[b] + 1 \in Nat
        BY <4>2 DEF TypeOK
      <4> QED  BY <4>3, <4>4
    <3> QED  BY <1>11, <3>1, <3>2 DEF InsertRow
  <2>4. dbFailures' \in Nat
    <3>1. dbFailures' \in {dbFailures, dbFailures + 1}
      BY <1>11 DEF InsertRow
    <3> QED  BY <3>1 DEF TypeOK
  <2>2. /\ todo' \in [Clients -> SUBSET Chains]
        /\ chain' \in [Clients -> Chains]
    BY <1>11 DEF TypeOK, InsertRow, Leave
  <2>3. pc' \in [Clients -> Places] /\ hold' \in [Clients -> Holds \cup {NoHold}]
    BY <1>11 DEF TypeOK, InsertRow, Leave, Return, Goto, Places
  <2> QED  BY <1>11, <2>1, <2>2, <2>3, <2>4 DEF TypeOK, InsertRow
<1>12. CASE UNCHANGED vars
  BY <1>12 DEF TypeOK, vars
<1> QED
  BY <1>1, <1>2, <1>3, <1>4, <1>5, <1>6, <1>7, <1>8, <1>9, <1>10, <1>11, <1>12
  DEF Next, Handler

-----------------------------------------------------------------------------
(* A handler's step is about its own client.                               *)

\* A handler touches nothing that belongs to another client.
LEMMA OthersKeep ==
  ASSUME TypeOK, NEW c \in Clients, Handler(c), NEW d \in Clients, d # c
  PROVE  /\ pc'[d] = pc[d] /\ hold'[d] = hold[d] /\ todo'[d] = todo[d]
         /\ chain'[d] = chain[d] /\ bad'[d] = bad[d]
<1> USE DEF poolVars, handVars, chainVars, recordVars, faultVars
<1>1. CASE RefuseMalformed(c)
  BY <1>1 DEF TypeOK, RefuseMalformed, Refuse, Return
<1>2. ASSUME NEW j \in Jobs, NEW k \in Keys, Submit(c, j, k)
      PROVE  /\ pc'[d] = pc[d] /\ hold'[d] = hold[d] /\ todo'[d] = todo[d]
             /\ chain'[d] = chain[d] /\ bad'[d] = bad[d]
  BY <1>2 DEF TypeOK, Submit, Refuse, Return
<1>3. CASE Validate(c)
  BY <1>3 DEF TypeOK, Validate, Refuse, Return, Goto
<1>4. CASE Record(c)
  BY <1>4 DEF TypeOK, Record, Goto
<1>5. CASE Lookup(c)
  BY <1>5 DEF TypeOK, Lookup, Return, Goto
<1>6. ASSUME NEW x \in Chains, SubmitBlock(c, x)
      PROVE  /\ pc'[d] = pc[d] /\ hold'[d] = hold[d] /\ todo'[d] = todo[d]
             /\ chain'[d] = chain[d] /\ bad'[d] = bad[d]
  BY <1>6 DEF TypeOK, SubmitBlock, Answer, Leave, Return, Goto
<1>7. CASE InsertRow(c)
  BY <1>7 DEF TypeOK, InsertRow, Leave, Return, Goto
<1> QED  BY <1>1, <1>2, <1>3, <1>4, <1>5, <1>6, <1>7 DEF Handler

\* What every step leaves or adds to.
LEMMA HistoriesGrow ==
  ASSUME TypeOK, [Next]_vars
  PROVE  /\ tried \subseteq tried' /\ early \subseteq early'
         /\ crashes' \in Nat /\ crashes' >= crashes
         /\ jobs \in Nat /\ jobs' \in Nat /\ jobs' >= jobs
<1> USE DEF poolVars, handVars, chainVars, recordVars, faultVars
<1>1. tried \subseteq tried' /\ early \subseteq early'
  BY DEF Next, Handler, NewJob, DescribeJob, Crash, SuggestDifficulty,
         RefuseMalformed, Submit, Validate, Record, Lookup, SubmitBlock,
         InsertRow, vars
<1>2. crashes' \in {crashes, crashes + 1} /\ jobs' \in {jobs, jobs + 1}
  BY DEF Next, Handler, NewJob, DescribeJob, Crash, SuggestDifficulty,
         RefuseMalformed, Submit, Validate, Record, Lookup, SubmitBlock,
         InsertRow, vars
<1>3. jobs \in Nat /\ crashes \in Nat
  BY ConstantsAssumption DEF TypeOK
<1> QED  BY <1>1, <1>2, <1>3

\* Handlers keep their shape.
LEMMA ShapeKept == TypeOK /\ HandShape /\ [Next]_vars => HandShape'
<1> SUFFICES ASSUME TypeOK, HandShape, [Next]_vars, NEW d \in Clients
             PROVE  HandIsShaped(d)'
  BY DEF HandShape
<1> USE ConstantsAssumption DEF poolVars, handVars, chainVars, recordVars,
                                faultVars
<1>t. tried \subseteq tried'
  BY HistoriesGrow
<1>j. ASSUME NEW j \in Jobs, j <= jobs PROVE j <= jobs'
  BY <1>j, HistoriesGrow DEF Jobs
<1>d. HandIsShaped(d)
  BY DEF HandShape
<1>k. hold[d] # NoHold => Share(d).job \in Jobs /\ Share(d).job <= jobs'
  BY <1>d, <1>j DEF HandIsShaped, Share, Holds, Shares
<1>u. ASSUME pc'[d] = pc[d], hold'[d] = hold[d], todo'[d] = todo[d],
             chain'[d] = chain[d], bad'[d] = bad[d]
      PROVE  HandIsShaped(d)'
  BY <1>t, <1>d, <1>k, <1>u DEF HandIsShaped, Share, QualityOf
<1>1. CASE NewJob \/ DescribeJob \/ UNCHANGED vars
  BY <1>1, <1>u DEF NewJob, DescribeJob, vars
<1>2. CASE Crash
  BY <1>2, <1>d DEF TypeOK, Crash, HandIsShaped, Handling
<1>3. ASSUME NEW c \in Clients, NEW e \in Difficulties, SuggestDifficulty(c, e)
      PROVE  HandIsShaped(d)'
  BY <1>3, <1>u DEF SuggestDifficulty
<1>4. ASSUME NEW c \in Clients, Handler(c), c # d PROVE HandIsShaped(d)'
  BY <1>4, <1>u, OthersKeep
<1>r. ASSUME Refuse(d), pc[d] # "gone" PROVE HandIsShaped(d)'
  <2>1. bad[d] \in 0 .. MaxBad /\ bad'[d] = bad[d] + 1
    BY <1>r DEF TypeOK, Refuse
  <2>2. hold'[d] = NoHold /\ pc'[d] \in {"idle", "gone"}
    BY <1>r DEF TypeOK, Refuse, Return
  <2>3. pc'[d] # "gone" => bad[d] + 1 < MaxBad
    BY <1>r, <2>1 DEF TypeOK, Refuse, Return
  <2> QED  BY <2>1, <2>2, <2>3 DEF HandIsShaped, Handling
<1>e. ASSUME Return(d, "idle"), UNCHANGED bad, pc[d] # "gone"
      PROVE  HandIsShaped(d)'
  BY <1>e, <1>d DEF TypeOK, Return, HandIsShaped, Handling
<1>5. CASE RefuseMalformed(d)
  BY <1>5, <1>r DEF RefuseMalformed
<1>6. ASSUME NEW j \in Jobs, NEW k \in Keys, Submit(d, j, k)
      PROVE  HandIsShaped(d)'
  <2>1. CASE Refuse(d)
    BY <1>6, <1>r, <2>1 DEF Submit
  <2>2. CASE ~Refuse(d)
    <3> DEFINE h == [share |-> [client |-> d, job |-> j, key |-> k],
                     diff  |-> difficulty[d]]
    <3>1. pc'[d] = "validate" /\ hold'[d] = h /\ bad'[d] = bad[d] /\ pc[d] = "idle"
      BY <1>6, <2>2 DEF TypeOK, Submit
    <3>2. h \in Holds /\ h.share.client = d /\ h.share.job <= jobs'
      BY <1>6 DEF TypeOK, Submit, Holds, Shares
    <3> HIDE DEF h
    <3> QED  BY <1>d, <3>1, <3>2 DEF HandIsShaped, Handling, Share
  <2> QED  BY <2>1, <2>2
<1>7. CASE Validate(d)
  <2>1. CASE Refuse(d)
    BY <1>7, <1>r, <2>1 DEF Validate
  <2>2. CASE Return(d, "idle") /\ UNCHANGED bad
    BY <1>7, <1>e, <2>2 DEF Validate
  <2>3. CASE MeetsTarget(d) /\ Goto(d, "record") /\ bad' = [bad EXCEPT ![d] = 0]
    <3>1. /\ pc'[d] = "record" /\ hold'[d] = hold[d] /\ bad'[d] = 0
          /\ pc[d] = "validate"
      BY <1>7, <2>3 DEF TypeOK, Goto, Validate
    <3>2. hold[d] # NoHold /\ hold[d] \in Holds
      BY <1>d, <3>1 DEF HandIsShaped, Handling
    <3>3. QualityOf(Share(d)) \in Nat /\ hold[d].diff \in Nat
      BY <3>2, QualityIsNat DEF Holds, Share
    <3>4. hold[d].diff <= QualityOf(Share(d))
      BY <2>3, <3>3 DEF MeetsTarget
    <3> QED  BY <1>d, <1>k, <3>1, <3>2, <3>4 DEF HandIsShaped, Handling, Share, QualityOf
  <2> QED  BY <1>7, <2>1, <2>2, <2>3 DEF Validate
<1>8. CASE Record(d)
  BY <1>8, <1>d, <1>k DEF TypeOK, Record, Goto, HandIsShaped, Handling, Share
<1>9. CASE Lookup(d)
  <2>1. CASE Return(d, "idle")
    BY <1>9, <1>e, <2>1 DEF Lookup
  <2>2. CASE Goto(d, "submit")
    BY <1>9, <1>d, <1>k, <2>2 DEF TypeOK, Lookup, Goto, HandIsShaped, Handling, Share
  <2> QED  BY <1>9, <2>1, <2>2 DEF Lookup
<1>l. ASSUME NEW x \in Chains, Leave(d, x), UNCHANGED bad, pc[d] \in {"submit", "row"}
      PROVE  HandIsShaped(d)'
  <2>1. CASE Return(d, "idle")
    BY <1>e, <1>l, <2>1
  <2>2. CASE Goto(d, "submit")
    BY <1>d, <1>k, <1>l, <2>2 DEF TypeOK, Goto, HandIsShaped, Handling, Share
  <2> QED  BY <1>l, <2>1, <2>2 DEF Leave
<1>10. ASSUME NEW x \in Chains, SubmitBlock(d, x) PROVE HandIsShaped(d)'
  <2>1. CASE Leave(d, x)
    BY <1>10, <1>l, <2>1 DEF SubmitBlock
  <2>2. CASE ~Leave(d, x)
    <3>1. /\ pc'[d] = "row" /\ hold'[d] = hold[d] /\ chain'[d] = x
          /\ todo'[d] = todo[d] /\ bad'[d] = bad[d] /\ pc[d] = "submit"
      BY <1>10, <2>2 DEF TypeOK, SubmitBlock, Answer, Goto
    <3>2. <<x, Share(d)>> \in tried' /\ (x = Parent \/ Parent \notin todo[d])
      BY <1>10 DEF SubmitBlock
    <3> QED  BY <1>d, <1>k, <3>1, <3>2 DEF HandIsShaped, Handling, Share
  <2> QED  BY <2>1, <2>2
<1>11. CASE InsertRow(d)
  <2>1. chain[d] \in Chains /\ Leave(d, chain[d]) /\ UNCHANGED bad /\ pc[d] = "row"
    BY <1>11 DEF TypeOK, InsertRow
  <2> QED  BY <1>l, <2>1
<1> QED
  BY <1>1, <1>2, <1>3, <1>4, <1>5, <1>6, <1>7, <1>8, <1>9, <1>10, <1>11
  DEF Next, Handler

-----------------------------------------------------------------------------
(* Shares pass the duplicate check once per clear.                         *)

\* What a step does to the number of passes, share by share: a clear or a first
\* insertion makes room for one more, and only Submit takes what was free.
LEMMA PassesGrow ==
  ASSUME TypeOK, HandShape, NEW c \in Clients, NEW j \in Jobs, NEW k \in Keys,
         Submit(c, j, k), NEW s \in Shares
  PROVE  /\ Passes(s)' >= Passes(s)
         /\ InHand(s)' => InHand(s) \/ Passes(s)' >= Passes(s) + 1
<1>1. clears \in Nat /\ clears' \in Nat
  BY DEF TypeOK, Submit, Remembered
<1>2. PICK kept \in Remembered :
        /\ recent' = kept \cup {<<j, k>>}
        /\ clears' = IF kept = recent THEN clears ELSE clears + 1
        /\ Seen(j, k, kept) => Refuse(c)
        /\ ~Seen(j, k, kept) =>
             hold' = [hold EXCEPT ![c] =
                        [share |-> [client |-> c, job |-> j, key |-> k],
                         diff  |-> difficulty[c]]]
  BY DEF Submit
<1>3. Passes(s)' >= Passes(s)
  <2>1. CASE kept = recent
    BY <1>1, <1>2, <2>1 DEF Passes
  <2>2. CASE kept # recent
    BY <1>1, <1>2, <2>2 DEF Passes
  <2> QED  BY <2>1, <2>2
<1>4. ASSUME InHand(s)', ~InHand(s) PROVE Passes(s)' >= Passes(s) + 1
  <2>1. s.client = c
    BY <1>4, OthersKeep DEF Handler, InHand, Share, Shares
  <2>2. ~Refuse(c)
    BY <1>4, <2>1 DEF Refuse, Return, InHand, TypeOK
  <2>3. ~Seen(j, k, kept) /\ s = [client |-> c, job |-> j, key |-> k]
    BY <1>2, <1>4, <2>1, <2>2 DEF InHand, Share, TypeOK
  <2>4. <<s.job, s.key>> = <<j, k>> /\ <<j, k>> \notin kept /\ <<j, k>> \in recent'
    BY <1>2, <2>3 DEF Seen
  <2> QED  BY <1>1, <1>2, <2>4 DEF Passes
<1> QED  BY <1>3, <1>4

\* No other step clears or inserts.
LEMMA PassesStay ==
  ASSUME TypeOK, NEW s \in Shares,
         \/ NewJob \/ DescribeJob \/ Crash \/ UNCHANGED vars
         \/ \E c \in Clients, d \in Difficulties : SuggestDifficulty(c, d)
         \/ \E c \in Clients :
              \/ RefuseMalformed(c) \/ Validate(c) \/ Record(c) \/ Lookup(c)
              \/ \E x \in Chains : SubmitBlock(c, x)
              \/ InsertRow(c)
  PROVE  Passes(s)' = Passes(s)
<1>1. recent' = recent /\ clears' = clears
  BY DEF NewJob, DescribeJob, Crash, SuggestDifficulty, RefuseMalformed, Validate,
         Record, Lookup, SubmitBlock, InsertRow, poolVars, vars
<1> QED  BY <1>1 DEF Passes

\* Only Submit takes a share in hand.
LEMMA HandsEmpty ==
  ASSUME TypeOK, HandShape, NEW c \in Clients, NEW s \in Shares, InHand(s)',
         \/ RefuseMalformed(c) \/ Validate(c) \/ Record(c) \/ Lookup(c)
         \/ \E x \in Chains : SubmitBlock(c, x)
         \/ InsertRow(c)
  PROVE  InHand(s)
<1>1. s.client # c => hold'[s.client] = hold[s.client]
  BY OthersKeep DEF Handler, Shares
<1>2. hold'[c] \in {hold[c], NoHold}
  <2>1. CASE RefuseMalformed(c)
    BY <2>1 DEF TypeOK, RefuseMalformed, Refuse, Return
  <2>2. CASE Validate(c)
    BY <2>2 DEF TypeOK, Validate, Refuse, Return, Goto
  <2>3. CASE Record(c)
    BY <2>3 DEF TypeOK, Record, Goto
  <2>4. CASE Lookup(c)
    BY <2>4 DEF TypeOK, Lookup, Return, Goto
  <2>5. ASSUME NEW x \in Chains, SubmitBlock(c, x)
        PROVE  hold'[c] \in {hold[c], NoHold}
    BY <2>5 DEF TypeOK, SubmitBlock, Answer, Leave, Return, Goto
  <2>6. CASE InsertRow(c)
    BY <2>6 DEF TypeOK, InsertRow, Leave, Return, Goto
  <2> QED  BY <2>1, <2>2, <2>3, <2>4, <2>5, <2>6
<1> QED  BY <1>1, <1>2 DEF InHand, Share

\* A share is recorded at most once for each time it passed the duplicate check.
LEMMA RecordsStayBounded ==
  TypeOK /\ HandShape /\ RecordsBounded /\ [Next]_vars => RecordsBounded'
<1> SUFFICES ASSUME TypeOK, HandShape, RecordsBounded, [Next]_vars,
                    NEW s \in Shares
             PROVE  recorded'[s] + (IF ToRecord(s)' THEN 1 ELSE 0) <= Passes(s)'
  BY DEF RecordsBounded
<1> DEFINE n == recorded[s] + (IF ToRecord(s) THEN 1 ELSE 0)
           m == recorded'[s] + (IF ToRecord(s)' THEN 1 ELSE 0)
<1> USE DEF poolVars, handVars, chainVars, recordVars, faultVars
<1>n. n <= Passes(s) /\ n \in Nat /\ Passes(s) \in Nat /\ recorded[s] \in Nat
  BY DEF RecordsBounded, TypeOK, Passes
<1>s. ASSUME recorded' = recorded, ToRecord(s)' => ToRecord(s)
      PROVE  m \in Nat /\ m <= n
  BY <1>s, <1>n
<1>1. CASE NewJob \/ DescribeJob \/ UNCHANGED vars
  <2>1. UNCHANGED <<recorded, hold, pc>>
    BY <1>1 DEF NewJob, DescribeJob, vars
  <2>2. ToRecord(s)' => ToRecord(s)
    BY <2>1 DEF ToRecord, InHand, Share
  <2> QED  BY <1>1, <1>n, <1>s, <2>1, <2>2, PassesStay
<1>2. CASE Crash
  <2>1. recorded' = recorded /\ ~ToRecord(s)'
    BY <1>2 DEF Crash, ToRecord, InHand, Shares
  <2> QED  BY <1>2, <1>n, <1>s, <2>1, PassesStay
<1>3. ASSUME NEW c \in Clients, NEW e \in Difficulties, SuggestDifficulty(c, e)
      PROVE  m <= Passes(s)'
  <2>1. UNCHANGED <<recorded, hold, pc>>
    BY <1>3 DEF SuggestDifficulty
  <2>2. ToRecord(s)' => ToRecord(s)
    BY <2>1 DEF ToRecord, InHand, Share
  <2> QED  BY <1>3, <1>n, <1>s, <2>1, <2>2, PassesStay
<1>4. ASSUME NEW c \in Clients,
             \/ RefuseMalformed(c) \/ Validate(c) \/ Lookup(c)
             \/ \E x \in Chains : SubmitBlock(c, x)
             \/ InsertRow(c)
      PROVE  m <= Passes(s)'
  <2>1. recorded' = recorded
    BY <1>4 DEF RefuseMalformed, Validate, Lookup, SubmitBlock, InsertRow
  <2>2. s.client # c => pc'[s.client] = pc[s.client]
    BY <1>4, OthersKeep DEF Handler, Shares
  <2>3. pc'[c] \in {"validate", "record"} => pc[c] \in {"validate", "record"}
    <3>1. CASE RefuseMalformed(c)
      BY <3>1 DEF TypeOK, RefuseMalformed, Refuse, Return
    <3>2. CASE Validate(c)
      BY <3>2 DEF Validate
    <3>3. CASE Lookup(c)
      BY <3>3 DEF TypeOK, Lookup, Return, Goto
    <3>4. ASSUME NEW x \in Chains, SubmitBlock(c, x)
          PROVE  pc'[c] \notin {"validate", "record"}
      BY <3>4 DEF TypeOK, SubmitBlock, Answer, Leave, Return, Goto
    <3>5. CASE InsertRow(c)
      BY <3>5 DEF TypeOK, InsertRow, Leave, Return, Goto
    <3> QED  BY <1>4, <3>1, <3>2, <3>3, <3>4, <3>5
  <2>4. InHand(s)' => InHand(s)
    BY <1>4, HandsEmpty
  <2>5. ToRecord(s)' => ToRecord(s)
    BY <2>2, <2>3, <2>4 DEF ToRecord
  <2> QED  BY <1>4, <1>n, <1>s, <2>1, <2>5, PassesStay
<1>5. ASSUME NEW c \in Clients, Record(c) PROVE m <= Passes(s)'
  <2>1. /\ recorded' = [recorded EXCEPT ![Share(c)] = @ + 1]
        /\ pc[c] = "record" /\ pc' = [pc EXCEPT ![c] = "lookup"] /\ hold' = hold
    BY <1>5 DEF Record, Goto
  <2>2. CASE InHand(s) /\ s.client = c
    <3>1. Share(c) = s /\ ToRecord(s) /\ ~ToRecord(s)'
      BY <2>1, <2>2 DEF InHand, ToRecord, TypeOK
    <3>2. recorded'[s] = recorded[s] + 1
      BY <2>1, <3>1 DEF TypeOK
    <3> QED  BY <1>5, <1>n, <3>1, <3>2, PassesStay
  <2>3. CASE ~(InHand(s) /\ s.client = c)
    <3>1. hold[c] # NoHold /\ Share(c).client = c
      BY <2>1 DEF HandShape, HandIsShaped, Handling
    <3>2. Share(c) # s
      BY <2>3, <3>1 DEF InHand
    <3>3. recorded'[s] = recorded[s]
      BY <2>1, <3>2 DEF TypeOK
    <3>4. ToRecord(s)' => ToRecord(s)
      BY <2>1, <3>1, <3>2 DEF TypeOK, ToRecord, InHand, Share
    <3> QED  BY <1>5, <1>n, <3>3, <3>4, PassesStay
  <2> QED  BY <2>2, <2>3
<1>6. ASSUME NEW c \in Clients, NEW j \in Jobs, NEW k \in Keys, Submit(c, j, k)
      PROVE  m <= Passes(s)'
  <2>1. recorded' = recorded
    BY <1>6 DEF Submit
  <2>2. Passes(s)' \in Nat
    BY <1>6 DEF Passes, TypeOK, Submit, Remembered
  <2>3. InHand(s) /\ InHand(s)' => (ToRecord(s)' => ToRecord(s))
    <3> SUFFICES ASSUME InHand(s), InHand(s)', ToRecord(s)' PROVE ToRecord(s)
      OBVIOUS
    <3>1. s.client # c
      BY <1>6 DEF Submit, InHand, HandShape, HandIsShaped, Handling
    <3>2. pc'[s.client] = pc[s.client]
      BY <1>6, <3>1, OthersKeep DEF Handler, Shares
    <3> QED  BY <3>2 DEF ToRecord
  <2>4. CASE ToRecord(s)' => ToRecord(s)
    BY <1>6, <1>n, <1>s, <2>1, <2>2, <2>4, PassesGrow
  <2>5. CASE ToRecord(s)' /\ ~ToRecord(s)
    <3>1. InHand(s)' /\ ~InHand(s)
      BY <2>3, <2>5 DEF ToRecord
    <3>2. Passes(s)' >= Passes(s) + 1
      BY <1>6, <3>1, PassesGrow
    <3> QED  BY <1>n, <2>1, <2>2, <2>5, <3>2
  <2> QED  BY <2>4, <2>5
<1> QED
  BY <1>1, <1>2, <1>3, <1>4, <1>5, <1>6 DEF Next, Handler

-----------------------------------------------------------------------------
(* A parent block gets a row per pass.                                     *)

\* So is the row of its parent block.
LEMMA RowsStayBounded ==
  TypeOK /\ HandShape /\ RowsBounded /\ [Next]_vars => RowsBounded'
<1> SUFFICES ASSUME TypeOK, HandShape, RowsBounded, [Next]_vars,
                    NEW s \in Shares
             PROVE  rows'[BlockOf(Parent, s)] + (IF ToRow(s)' THEN 1 ELSE 0)
                      <= Passes(s)'
  BY DEF RowsBounded, BlockOf
<1> DEFINE p == BlockOf(Parent, s)
           n == rows[p] + (IF ToRow(s) THEN 1 ELSE 0)
           m == rows'[p] + (IF ToRow(s)' THEN 1 ELSE 0)
<1> USE DEF poolVars, handVars, chainVars, recordVars, faultVars
<1>p. p \in Blocks
  BY BlockIsBlock, ConstantsAssumption
<1>n. n <= Passes(s) /\ n \in Nat /\ Passes(s) \in Nat /\ rows[p] \in Nat
  BY <1>p DEF RowsBounded, TypeOK, Passes
<1> HIDE DEF p
<1>s. ASSUME rows' = rows, ToRow(s)' => ToRow(s)
      PROVE  m \in Nat /\ m <= n
  BY <1>s, <1>n
<1>c. s.client \in Clients
  BY DEF Shares
<1>o. ASSUME NEW c \in Clients, Handler(c), c # s.client,
             InHand(s)' => InHand(s)
      PROVE  ToRow(s)' => ToRow(s)
  BY <1>o, <1>c, OthersKeep DEF ToRow
<1>1. CASE NewJob \/ DescribeJob \/ UNCHANGED vars
  <2>1. UNCHANGED <<rows, hold, pc, todo, chain>>
    BY <1>1 DEF NewJob, DescribeJob, vars
  <2>2. ToRow(s)' => ToRow(s)
    BY <2>1 DEF ToRow, InHand, Share
  <2> QED  BY <1>1, <1>n, <1>s, <2>1, <2>2, PassesStay DEF p
<1>2. CASE Crash
  <2>1. rows' = rows /\ ~ToRow(s)'
    BY <1>2, <1>c DEF Crash, ToRow, InHand
  <2> QED  BY <1>2, <1>n, <1>s, <2>1, PassesStay DEF p
<1>3. ASSUME NEW c \in Clients, NEW e \in Difficulties, SuggestDifficulty(c, e)
      PROVE  m <= Passes(s)'
  <2>1. UNCHANGED <<rows, hold, pc, todo, chain>>
    BY <1>3 DEF SuggestDifficulty
  <2>2. ToRow(s)' => ToRow(s)
    BY <2>1 DEF ToRow, InHand, Share
  <2> QED  BY <1>3, <1>n, <1>s, <2>1, <2>2, PassesStay
<1>4. ASSUME NEW c \in Clients,
             RefuseMalformed(c) \/ Validate(c) \/ Record(c) \/ Lookup(c)
      PROVE  m <= Passes(s)'
  <2>1. rows' = rows
    BY <1>4 DEF RefuseMalformed, Validate, Record, Lookup
  <2>2. InHand(s)' => InHand(s)
    BY <1>4, HandsEmpty
  <2>3. ToRow(s)' => ToRow(s)
    <3>1. CASE s.client # c
      BY <1>4, <1>o, <2>2, <3>1 DEF Handler
    <3>2. CASE s.client = c
      <4>1. CASE RefuseMalformed(c)
        BY <3>2, <4>1 DEF TypeOK, RefuseMalformed, Refuse, Return, ToRow
      <4>2. CASE Validate(c)
        BY <2>2, <3>2, <4>2 DEF Validate, ToRow
      <4>3. CASE Record(c)
        BY <2>2, <3>2, <4>3 DEF TypeOK, Record, Goto, ToRow
      <4>4. CASE Lookup(c)
        BY <2>2, <3>2, <4>4 DEF Lookup, ToRow
      <4> QED  BY <1>4, <4>1, <4>2, <4>3, <4>4
    <3> QED  BY <3>1, <3>2
  <2> QED  BY <1>4, <1>n, <1>s, <2>1, <2>3, PassesStay
<1>5. ASSUME NEW c \in Clients, NEW x \in Chains, SubmitBlock(c, x)
      PROVE  m <= Passes(s)'
  <2>1. rows' = rows
    BY <1>5 DEF SubmitBlock
  <2>2. InHand(s)' => InHand(s)
    BY <1>5, HandsEmpty
  <2>3. ToRow(s)' => ToRow(s)
    <3>1. CASE s.client # c
      BY <1>5, <1>o, <2>2, <3>1 DEF Handler
    <3>2. CASE s.client = c
      <4>1. pc[c] = "submit" /\ x \in todo[c]
        BY <1>5 DEF SubmitBlock
      <4>2. CASE Leave(c, x)
        <5>1. todo'[c] \subseteq todo[c] /\ pc'[c] \in {"idle", "submit"}
          BY <4>2 DEF TypeOK, Leave, Return, Goto
        <5> QED  BY <2>2, <3>2, <4>1, <5>1 DEF ToRow
      <4>3. CASE ~Leave(c, x)
        <5>1. pc'[c] = "row" /\ chain'[c] = x
          BY <1>5, <4>3 DEF TypeOK, SubmitBlock, Answer, Goto
        <5> QED  BY <2>2, <3>2, <4>1, <5>1 DEF ToRow
      <4> QED  BY <4>2, <4>3
    <3> QED  BY <3>1, <3>2
  <2> QED  BY <1>5, <1>n, <1>s, <2>1, <2>3, PassesStay
<1>6. ASSUME NEW c \in Clients, InsertRow(c) PROVE m <= Passes(s)'
  <2>1. /\ pc[c] = "row" /\ hold[c] # NoHold /\ hold[c] \in Holds
        /\ chain[c] \in Chains /\ Share(c).client = c
        /\ chain[c] = Parent \/ Parent \notin todo[c]
    BY <1>6 DEF TypeOK, InsertRow, HandShape, HandIsShaped, Handling
  <2>2. Share(c) \in Shares
    BY <2>1 DEF Holds, Share
  <2>3. InHand(s)' => InHand(s)
    BY <1>6, HandsEmpty
  <2>4. /\ pc'[c] \in {"idle", "submit"} /\ todo'[c] = todo[c] \ {chain[c]}
        /\ hold'[c] \in {hold[c], NoHold}
    BY <1>6 DEF TypeOK, InsertRow, Leave, Return, Goto
  <2>5. s.client = c => ~ToRow(s)'
    BY <2>1, <2>4 DEF ToRow
  <2>6. ToRow(s)' => ToRow(s)
    BY <1>6, <1>o, <2>3, <2>5 DEF Handler
  <2>7. rows' = rows \/ rows' = [rows EXCEPT ![BlockOf(chain[c], Share(c))] = @ + 1]
    BY <1>6 DEF InsertRow
  <2>8. CASE BlockOf(chain[c], Share(c)) = p
    <3>1. chain[c] = Parent /\ Share(c) = s
      BY <2>1, <2>2, <2>8, BlocksDiffer DEF p
    <3>2. ToRow(s) /\ ~ToRow(s)'
      BY <2>1, <2>5, <3>1 DEF ToRow, InHand
    <3>3. rows'[p] \in {rows[p], rows[p] + 1}
      BY <1>p, <2>7, <2>8 DEF TypeOK
    <3> QED  BY <1>6, <1>n, <3>2, <3>3, PassesStay
  <2>9. CASE BlockOf(chain[c], Share(c)) # p
    <3>1. rows'[p] = rows[p]
      BY <1>p, <2>7, <2>9 DEF TypeOK
    <3> QED  BY <1>6, <1>n, <2>6, <3>1, PassesStay
  <2> QED  BY <2>8, <2>9
<1>7. ASSUME NEW c \in Clients, NEW j \in Jobs, NEW k \in Keys, Submit(c, j, k)
      PROVE  m <= Passes(s)'
  <2>1. rows' = rows
    BY <1>7 DEF Submit
  <2>2. Passes(s)' \in Nat
    BY <1>7 DEF Passes, TypeOK, Submit, Remembered
  <2>3. CASE ToRow(s)' => ToRow(s)
    BY <1>7, <1>n, <1>s, <2>1, <2>2, <2>3, PassesGrow
  <2>4. CASE ToRow(s)' /\ ~ToRow(s)
    <3>1. InHand(s)' /\ ~InHand(s)
      <4>1. s.client # c => ~(InHand(s) /\ InHand(s)')
        BY <1>7, <1>o, <2>4 DEF Handler
      <4>2. s.client = c => ~InHand(s)
        BY <1>7 DEF Submit, InHand, HandShape, HandIsShaped, Handling
      <4> QED  BY <2>4, <4>1, <4>2 DEF ToRow
    <3>2. Passes(s)' >= Passes(s) + 1
      BY <1>7, <3>1, PassesGrow
    <3> QED  BY <1>n, <2>1, <2>2, <2>4, <3>2
  <2> QED  BY <2>3, <2>4
<1> QED
  BY <1>1, <1>2, <1>3, <1>4, <1>5, <1>6, <1>7 DEF Next, Handler, p

-----------------------------------------------------------------------------
(* What a share earns.                                                     *)

\* Each record credits at most the quality.
LEMMA CreditStaysBounded ==
  TypeOK /\ HandShape /\ CreditBounded /\ [Next]_vars => CreditBounded'
<1> SUFFICES ASSUME TypeOK, HandShape, CreditBounded, [Next]_vars,
                    NEW s \in Shares
             PROVE  credit'[s] <= recorded'[s] * QualityOf(s)
  BY DEF CreditBounded, QualityOf
<1> DEFINE q == QualityOf(s)
<1>1. /\ credit[s] <= recorded[s] * q
      /\ credit[s] \in Nat /\ recorded[s] \in Nat /\ q \in Nat
  BY QualityIsNat DEF CreditBounded, TypeOK
<1> HIDE DEF q
<1>2. CASE \E c \in Clients : Record(c) /\ Share(c) = s
  <2>1. PICK c \in Clients : Record(c) /\ Share(c) = s
    BY <1>2
  <2>2. pc[c] = "record" /\ hold[c] # NoHold /\ hold[c] \in Holds
    BY <2>1 DEF Record, HandShape, HandIsShaped, Handling
  <2>3. hold[c].diff <= q /\ hold[c].diff \in Nat
    BY <2>1, <2>2, ConstantsAssumption DEF HandShape, HandIsShaped, Holds, q
  <2>4. recorded'[s] = recorded[s] + 1 /\ credit'[s] = credit[s] + hold[c].diff
    BY <2>1 DEF TypeOK, Record
  <2>5. (recorded[s] + 1) * q = recorded[s] * q + q
    BY <1>1
  <2>6. recorded[s] * q \in Nat
    BY <1>1
  <2> QED  BY <1>1, <2>3, <2>4, <2>5, <2>6 DEF q
<1>3. CASE ~\E c \in Clients : Record(c) /\ Share(c) = s
  <2>1. ASSUME NEW c \in Clients, Record(c)
        PROVE  recorded'[s] = recorded[s] /\ credit'[s] = credit[s]
    BY <1>3, <2>1 DEF TypeOK, Record
  <2>2. CASE \E c \in Clients : Record(c)
    BY <1>1, <2>1, <2>2 DEF q
  <2>3. CASE ~\E c \in Clients : Record(c)
    <3>1. UNCHANGED <<recorded, credit>>
      BY <2>3 DEF Next, Handler, NewJob, DescribeJob, Crash, SuggestDifficulty,
                  RefuseMalformed, Submit, Validate, Lookup, SubmitBlock,
                  InsertRow, vars, recordVars
    <3> QED  BY <1>1, <3>1 DEF q
  <2> QED  BY <2>2, <2>3
<1> QED  BY <1>2, <1>3

-----------------------------------------------------------------------------
(* What becomes of a solution.                                             *)

\* An excuse stays one.
LEMMA ExcusesStay ==
  ASSUME TypeOK, [Next]_vars, NEW s \in Shares, NEW x \in Chains, Excused(x, s)
  PROVE  Excused(x, s)'
<1>1. /\ early \subseteq early' /\ crashes \in Nat /\ crashes' \in Nat
      /\ crashes' >= crashes
      /\ jobs' >= jobs /\ jobs \in Nat /\ jobs' \in Nat
  BY HistoriesGrow DEF TypeOK
<1>2. s.job \in Nat /\ MaxCached \in Nat
  BY ConstantsAssumption DEF Shares, Jobs
<1> QED  BY <1>1, <1>2 DEF Excused

\* A recorded solution stays tried, pending or excused.
LEMMA SolutionsStayPursued ==
  TypeOK /\ HandShape /\ SolutionsPursued /\ [Next]_vars => SolutionsPursued'
<1> SUFFICES ASSUME TypeOK, HandShape, SolutionsPursued, [Next]_vars,
                    NEW s \in Shares, NEW x \in Chains,
                    recorded'[s] > 0, QualityOf(s) >= NetDifficulty[x],
                    <<x, s>> \notin tried', ~Excused(x, s)'
             PROVE  Pending(x, s)'
  BY DEF SolutionsPursued, QualityOf
<1> USE DEF poolVars, handVars, chainVars, recordVars, faultVars
<1>e. <<x, s>> \notin tried /\ ~Excused(x, s)
  BY ExcusesStay, HistoriesGrow
<1>p. recorded[s] > 0 => Pending(x, s)
  BY <1>e DEF SolutionsPursued
<1>c. s.client \in Clients
  BY DEF Shares
<1>o. ASSUME NEW c \in Clients, Handler(c), c # s.client, Pending(x, s)
      PROVE  Pending(x, s)'
  BY <1>o, <1>c, OthersKeep DEF Pending, InHand, Share
<1>u. ASSUME UNCHANGED <<hold, pc, todo>>, Pending(x, s) PROVE Pending(x, s)'
  BY <1>u DEF Pending, InHand, Share
<1>1. CASE NewJob \/ DescribeJob \/ UNCHANGED vars
  BY <1>1, <1>p, <1>u DEF NewJob, DescribeJob, vars
<1>2. CASE Crash
  <2>1. crashes \in Nat /\ crashes' = crashes + 1
    BY <1>2 DEF Crash, TypeOK
  <2> QED  BY <2>1 DEF Excused
<1>3. ASSUME NEW c \in Clients, NEW e \in Difficulties, SuggestDifficulty(c, e)
      PROVE  Pending(x, s)'
  BY <1>3, <1>p, <1>u DEF SuggestDifficulty
<1>4. ASSUME NEW c \in Clients,
             \/ RefuseMalformed(c) \/ Validate(c)
             \/ \E j \in Jobs, k \in Keys : Submit(c, j, k)
      PROVE  Pending(x, s)'
  <2>1. recorded' = recorded /\ pc[c] \in {"idle", "validate"}
    BY <1>4 DEF RefuseMalformed, Validate, Submit
  <2>2. s.client # c
    BY <1>p, <2>1 DEF Pending
  <2> QED  BY <1>4, <1>o, <1>p, <2>1, <2>2 DEF Handler
<1>5. ASSUME NEW c \in Clients, Record(c) PROVE Pending(x, s)'
  <2>1. /\ pc[c] = "record" /\ hold[c] # NoHold /\ hold' = hold
        /\ pc' = [pc EXCEPT ![c] = "lookup"] /\ Share(c).client = c
        /\ recorded' = [recorded EXCEPT ![Share(c)] = @ + 1]
    BY <1>5 DEF Record, Goto, HandShape, HandIsShaped, Handling
  <2>2. CASE Share(c) = s
    BY <2>1, <2>2 DEF TypeOK, Pending, InHand, Share
  <2>3. CASE Share(c) # s
    <3>1. recorded'[s] = recorded[s]
      BY <2>1, <2>3 DEF TypeOK
    <3>2. s.client # c
      BY <1>p, <2>1, <3>1 DEF Pending
    <3> QED  BY <1>5, <1>o, <1>p, <3>1, <3>2 DEF Handler
  <2> QED  BY <2>2, <2>3
<1>6. ASSUME NEW c \in Clients, Lookup(c) PROVE Pending(x, s)'
  <2>1. recorded' = recorded /\ pc[c] = "lookup"
    BY <1>6 DEF Lookup
  <2>2. CASE s.client # c
    BY <1>6, <1>o, <1>p, <2>1, <2>2 DEF Handler
  <2>3. CASE s.client = c
    <3>1. Share(c) = s /\ hold[c] # NoHold /\ s.job <= jobs
      BY <1>c, <1>p, <2>1, <2>3 DEF Pending, InHand, HandShape, HandIsShaped
    <3>2. Cached(s.job)
      <4>1. jobs \in Nat /\ MaxCached \in Nat /\ s.job \in Nat
        BY ConstantsAssumption DEF TypeOK, Shares, Jobs
      <4> QED  BY <1>e, <3>1, <4>1 DEF Cached, Excused
    <3>3. x \in ChainsFor(s)
      <4>1. s.job <= described \/ x = Parent
        BY <1>6, <3>1 DEF Lookup, Excused
      <4> QED  BY <4>1, ConstantsAssumption DEF ChainsFor, Solved, Targets
    <3>4. todo'[c] = ChainsFor(s)
      BY <1>6, <3>1, <3>2 DEF Lookup, TypeOK
    <3>5. Goto(c, "submit")
      BY <1>6, <3>3, <3>4 DEF Lookup
    <3> QED
      BY <2>3, <3>1, <3>3, <3>4, <3>5 DEF Goto, TypeOK, Pending, InHand, Share
  <2> QED  BY <2>2, <2>3
<1>l. ASSUME NEW c \in Clients, NEW y \in Chains, Leave(c, y), y # x,
             pc[c] \in {"submit", "row"}, s.client = c, Pending(x, s)
      PROVE  Pending(x, s)'
  <2>1. x \in todo'[c]
    BY <1>l DEF TypeOK, Leave, Pending
  <2>2. Goto(c, "submit")
    BY <1>l, <2>1 DEF Leave
  <2> QED  BY <1>l, <2>1, <2>2 DEF TypeOK, Goto, Pending, InHand, Share
<1>7. ASSUME NEW c \in Clients, NEW y \in Chains, SubmitBlock(c, y)
      PROVE  Pending(x, s)'
  <2>1. /\ recorded' = recorded /\ pc[c] = "submit"
        /\ <<y, Share(c)>> \in tried'
    BY <1>7 DEF SubmitBlock
  <2>2. CASE s.client # c
    BY <1>7, <1>o, <1>p, <2>1, <2>2 DEF Handler
  <2>3. CASE s.client = c
    <3>1. Share(c) = s /\ Pending(x, s)
      BY <1>p, <2>1, <2>3 DEF Pending, InHand
    <3>2. y # x
      BY <2>1, <3>1
    <3>3. CASE Leave(c, y)
      BY <1>l, <2>1, <2>3, <3>1, <3>2, <3>3
    <3>4. CASE ~Leave(c, y)
      <4>1. /\ pc'[c] = "row" /\ hold' = hold /\ todo' = todo
        BY <1>7, <3>4 DEF TypeOK, SubmitBlock, Answer, Goto
      <4> QED  BY <2>1, <2>3, <3>1, <4>1 DEF Pending, InHand, Share
    <3> QED  BY <3>3, <3>4
  <2> QED  BY <2>2, <2>3
<1>8. ASSUME NEW c \in Clients, InsertRow(c) PROVE Pending(x, s)'
  <2>1. recorded' = recorded /\ pc[c] = "row" /\ tried' = tried
    BY <1>8 DEF InsertRow
  <2>2. CASE s.client # c
    BY <1>8, <1>o, <1>p, <2>1, <2>2 DEF Handler
  <2>3. CASE s.client = c
    <3>1. Share(c) = s /\ Pending(x, s)
      BY <1>p, <2>1, <2>3 DEF Pending, InHand
    <3>2. chain[c] \in Chains /\ <<chain[c], s>> \in tried
      BY <2>1, <3>1 DEF TypeOK, HandShape, HandIsShaped
    <3>3. chain[c] # x /\ Leave(c, chain[c])
      BY <1>8, <1>e, <3>2 DEF InsertRow
    <3> QED  BY <1>l, <2>1, <2>3, <3>1, <3>2, <3>3
  <2> QED  BY <2>2, <2>3
<1> QED
  BY <1>1, <1>2, <1>3, <1>4, <1>5, <1>6, <1>7, <1>8 DEF Next, Handler

-----------------------------------------------------------------------------
(* The invariant, and what follows from it.                                *)

\* The initial states satisfy the inductive invariant.
LEMMA InitInvariant == Init => IInv
<1> SUFFICES ASSUME Init PROVE IInv
  OBVIOUS
<1> USE ConstantsAssumption
<1>1. TypeOK
  BY DEF Init, TypeOK, Places
<1>2. HandShape
  BY DEF Init, HandShape, HandIsShaped, Handling
<1>3. \A s \in Shares :
        /\ ~InHand(s) /\ recorded[s] = 0 /\ credit[s] = 0
        /\ rows[BlockOf(Parent, s)] = 0 /\ Passes(s) \in Nat
  <2> SUFFICES ASSUME NEW s \in Shares
               PROVE  /\ ~InHand(s) /\ recorded[s] = 0 /\ credit[s] = 0
                      /\ rows[BlockOf(Parent, s)] = 0 /\ Passes(s) \in Nat
    OBVIOUS
  <2>1. s.client \in Clients /\ BlockOf(Parent, s) \in Blocks
    BY BlockIsBlock DEF Shares
  <2> HIDE DEF BlockOf
  <2> QED  BY <2>1 DEF Init, InHand, Passes
<1>4. RecordsBounded /\ RowsBounded
  BY <1>3 DEF RecordsBounded, RowsBounded, ToRecord, ToRow
<1>5. CreditBounded
  <2> SUFFICES ASSUME NEW s \in Shares
               PROVE  credit[s] <= recorded[s] * QualityOf(s)
    BY DEF CreditBounded
  <2>1. QualityOf(s) \in Nat
    BY QualityIsNat
  <2>2. 0 * QualityOf(s) = 0
    BY <2>1
  <2> QED  BY <1>3, <2>2
<1>6. SolutionsPursued
  BY <1>3 DEF SolutionsPursued
<1> QED  BY <1>1, <1>2, <1>4, <1>5, <1>6 DEF IInv

\* Every step keeps the inductive invariant.
LEMMA StepInvariant == IInv /\ [Next]_vars => IInv'
BY TypeKept, ShapeKept, RecordsStayBounded, RowsStayBounded, CreditStaysBounded,
   SolutionsStayPursued DEF IInv

\* A share passes the duplicate check once, and once more for each clear.
LEMMA PassesAreFew ==
  ASSUME TypeOK, NEW s \in Shares
  PROVE  Passes(s) \in Nat /\ Passes(s) <= 1 + clears
BY DEF TypeOK, Passes

\* The inductive invariant holds in every reachable state.
THEOREM Inductive == Spec => []IInv
BY InitInvariant, StepInvariant, PTL DEF Spec

\* The state of handlers, daemons and tables has its type, and no connection
\* has more bad shares in a row than end it.
THEOREM TypeCorrect == Spec => []TypeOK
<1>1. IInv => TypeOK
  BY DEF IInv
<1> QED  BY <1>1, Inductive, PTL

\* No share earns more difficulty than its hash reached, once per clear of the
\* duplicate set.
THEOREM CreditIsBounded == Spec => []CreditIsEarned
<1>1. IInv => CreditIsEarned
  <2> SUFFICES ASSUME IInv, NEW s \in Shares
               PROVE  credit[s] <= (1 + clears) * QualityOf(s)
    BY DEF CreditIsEarned
  <2> DEFINE q == QualityOf(s)
  <2>1. /\ q \in Nat /\ credit[s] \in Nat /\ recorded[s] \in Nat
        /\ clears \in Nat
    BY QualityIsNat DEF IInv, TypeOK
  <2> HIDE DEF q
  <2>2. recorded[s] <= 1 + clears
    <3>1. recorded[s] <= Passes(s)
      BY <2>1, PassesAreFew DEF IInv, RecordsBounded
    <3> QED  BY <2>1, <3>1, PassesAreFew DEF IInv
  <2>3. credit[s] <= recorded[s] * q
    BY DEF IInv, CreditBounded, q
  <2>4. 1 + clears \in Nat
    BY <2>1
  <2>5. recorded[s] * q <= (1 + clears) * q
    BY <2>1, <2>2, <2>4, ProductGrows
  <2>6. recorded[s] * q \in Nat /\ (1 + clears) * q \in Nat
    BY <2>1
  <2> QED  BY <2>1, <2>3, <2>5, <2>6 DEF q
<1> QED  BY <1>1, Inductive, PTL

\* A parent block has at most one row for each time its share could pass the
\* duplicate check.
THEOREM ParentRowsBounded == Spec => []ParentRowsExplained
<1>1. IInv => ParentRowsExplained
  <2> SUFFICES ASSUME IInv, NEW s \in Shares
               PROVE  rows[BlockOf(Parent, s)] <= 1 + clears
    BY DEF ParentRowsExplained
  <2>1. BlockOf(Parent, s) \in Blocks
    BY BlockIsBlock, ConstantsAssumption
  <2>2. rows[BlockOf(Parent, s)] \in Nat /\ clears \in Nat
    BY <2>1 DEF IInv, TypeOK
  <2>3. rows[BlockOf(Parent, s)] <= Passes(s)
    BY <2>2, PassesAreFew DEF IInv, RowsBounded
  <2> QED  BY <2>2, <2>3, PassesAreFew DEF IInv
<1> QED  BY <1>1, Inductive, PTL

\* A recorded solution is tried on every chain it solves, unless its job left
\* the cache, the process ended, or the job's targets were not stored yet.
THEOREM SolutionsTriedOrExcused == Spec => []UntriedHasACause
<1>1. IInv => UntriedHasACause
  <2> SUFFICES ASSUME IInv, NEW s \in Shares, NEW x \in Chains,
                      recorded[s] > 0, ~Busy(s),
                      QualityOf(s) >= NetDifficulty[x], <<x, s>> \notin tried
               PROVE  ~Cached(s.job) \/ crashes > 0 \/ (s \in early /\ x # Parent)
    BY DEF UntriedHasACause
  <2>1. s.client \in Clients
    BY DEF Shares
  <2>2. ~Pending(x, s)
    BY <2>1 DEF Busy, Pending, InHand, Share
  <2>3. Excused(x, s)
    BY <2>2 DEF IInv, SolutionsPursued
  <2>4. jobs \in Nat /\ MaxCached \in Nat /\ s.job \in Nat
    BY ConstantsAssumption DEF IInv, TypeOK, Shares, Jobs
  <2> QED  BY <2>3, <2>4 DEF Excused, Cached
<1> QED  BY <1>1, Inductive, PTL

-----------------------------------------------------------------------------
(* Blocks left without a row.                                              *)

\* The block a handler is about to insert.
Inserting(c) == BlockOf(chain[c], Share(c))

\* Accepted blocks that have no row and are not about to get one.
Unwritten == {b \in accepted :
                /\ rows[b] = 0
                /\ \A c \in Clients : pc[c] = "row" => b # Inserting(c)}

\* A lost answer or a failed statement can be named for each of them.
UnwrittenCounted ==
  crashes > 0 \/ (/\ IsFiniteSet(Unwritten)
                  /\ Cardinality(Unwritten) <= rpcErrors + dbFailures)

\* The set takes in a block only when a fault is counted.
UnwrittenGrows ==
  \/ crashes' > 0
  \/ /\ Unwritten' \subseteq Unwritten /\ crashes' = crashes
     /\ UNCHANGED <<rpcErrors, dbFailures>>
  \/ \E b : /\ Unwritten' \subseteq Unwritten \cup {b} /\ crashes' = crashes
            /\ \/ rpcErrors' = rpcErrors + 1 /\ UNCHANGED dbFailures
               \/ dbFailures' = dbFailures + 1 /\ UNCHANGED rpcErrors

\* Nothing joins the set while daemons, rows and handlers in front of a row
\* stay as they are.
LEMMA UnwrittenUntouched ==
  ASSUME UNCHANGED <<accepted, rows, faultVars>>,
         \A c \in Clients : pc[c] = "row" =>
            pc'[c] = "row" /\ chain'[c] = chain[c] /\ hold'[c] = hold[c]
  PROVE  UnwrittenGrows
<1>1. \A c \in Clients : pc[c] = "row" => pc'[c] = "row" /\ Inserting(c)' = Inserting(c)
  BY DEF Inserting, Share
<1>2. Unwritten' \subseteq Unwritten
  BY <1>1 DEF Unwritten
<1> QED  BY <1>2 DEF UnwrittenGrows, faultVars

\* An answer of a daemon: a row follows, or the answer was lost.
LEMMA UnwrittenSubmit ==
  ASSUME TypeOK, NEW c \in Clients, NEW x \in Chains, SubmitBlock(c, x)
  PROVE  UnwrittenGrows
<1> DEFINE b == BlockOf(x, Share(c))
<1>1. /\ pc[c] = "submit" /\ UNCHANGED <<rows, dbFailures, crashes>>
      /\ Answer(c, x, b)
  BY DEF SubmitBlock
<1> HIDE DEF b
<1>o. \A d \in Clients : d # c =>
        pc'[d] = pc[d] /\ hold'[d] = hold[d] /\ chain'[d] = chain[d]
  BY <1>1 DEF TypeOK, Answer, Goto, Leave, Return
<1>i. \A d \in Clients : pc[d] = "row" =>
        pc'[d] = "row" /\ Inserting(d)' = Inserting(d)
  BY <1>1, <1>o DEF Inserting, Share
<1>2. CASE /\ accepted' = accepted \cup {b}
           /\ chain' = [chain EXCEPT ![c] = x]
           /\ Goto(c, "row") /\ UNCHANGED <<todo, rpcErrors>>
  <2>1. pc'[c] = "row" /\ chain'[c] = x /\ hold'[c] = hold[c]
    BY <1>2 DEF Goto, TypeOK
  <2>2. pc'[c] = "row" /\ Inserting(c)' = b
    BY <2>1 DEF Inserting, Share, b
  <2>3. Unwritten' \subseteq Unwritten
    BY <1>1, <1>2, <1>i, <2>2 DEF Unwritten
  <2> QED  BY <1>1, <1>2, <2>3 DEF UnwrittenGrows
<1>3. CASE UNCHANGED <<accepted, rpcErrors>>
  <2>1. Unwritten' \subseteq Unwritten
    BY <1>1, <1>3, <1>i DEF Unwritten
  <2> QED  BY <1>1, <1>3, <2>1 DEF UnwrittenGrows
<1>4. CASE rpcErrors' = rpcErrors + 1 /\ accepted' = accepted \cup {b}
  <2>1. Unwritten' \subseteq Unwritten \cup {b}
    BY <1>1, <1>4, <1>i DEF Unwritten
  <2> QED  BY <1>1, <1>4, <2>1 DEF UnwrittenGrows
<1> QED  BY <1>1, <1>2, <1>3, <1>4 DEF Answer

\* The row is inserted, or the statement fails and is only logged.
LEMMA UnwrittenInsert ==
  ASSUME TypeOK, HandShape, NEW c \in Clients, InsertRow(c)
  PROVE  UnwrittenGrows
<1> DEFINE b == Inserting(c)
<1>1. /\ pc[c] = "row" /\ UNCHANGED <<accepted, rpcErrors, crashes>>
      /\ \/ rows' = [rows EXCEPT ![b] = @ + 1] /\ UNCHANGED dbFailures
         \/ dbFailures' = dbFailures + 1 /\ UNCHANGED rows
  BY DEF InsertRow, Inserting
<1>2. Share(c) \in Shares /\ chain[c] \in Chains
  BY <1>1 DEF HandShape, HandIsShaped, Handling, Holds, Share, TypeOK
<1>3. b \in Blocks
  BY <1>2, BlockIsBlock DEF Inserting
<1> HIDE DEF b
<1>o. \A d \in Clients : d # c =>
        pc'[d] = pc[d] /\ hold'[d] = hold[d] /\ chain'[d] = chain[d]
  BY DEF TypeOK, InsertRow, Goto, Leave, Return
<1>i. \A d \in Clients : pc[d] = "row" /\ d # c =>
        pc'[d] = "row" /\ Inserting(d)' = Inserting(d)
  BY <1>o DEF Inserting, Share
<1>j. Unwritten' \subseteq
        {a \in accepted : /\ rows'[a] = 0
                          /\ a \in Unwritten \/ rows[a] # 0 \/ a = b}
  BY <1>1, <1>i DEF Unwritten, b
<1>4. CASE rows' = [rows EXCEPT ![b] = @ + 1] /\ UNCHANGED dbFailures
  <2>1. rows[b] \in Nat /\ rows'[b] = rows[b] + 1
    BY <1>3, <1>4 DEF TypeOK
  <2>2. rows'[b] # 0
    BY <2>1
  <2>3. \A a \in accepted : a # b => rows'[a] = rows[a]
    BY <1>4 DEF TypeOK
  <2>4. Unwritten' \subseteq Unwritten
    BY <1>j, <2>2, <2>3
  <2> QED  BY <1>1, <1>4, <2>4 DEF UnwrittenGrows
<1>5. CASE dbFailures' = dbFailures + 1 /\ UNCHANGED rows
  <2>1. Unwritten' \subseteq Unwritten \cup {b}
    BY <1>j, <1>5
  <2> QED  BY <1>1, <1>5, <2>1 DEF UnwrittenGrows
<1> QED  BY <1>1, <1>4, <1>5

\* No other step touches an accepted block or a handler in front of its row.
LEMMA EveryStepUnwritten == IInv /\ [Next]_vars => UnwrittenGrows
<1> SUFFICES ASSUME IInv, [Next]_vars PROVE UnwrittenGrows
  OBVIOUS
<1>t. TypeOK /\ HandShape
  BY DEF IInv
<1>k. \A c \in Clients :
        /\ pc[c] # "row" /\ UNCHANGED <<accepted, rows, faultVars>>
        /\ \A d \in Clients : d # c =>
             pc'[d] = pc[d] /\ hold'[d] = hold[d] /\ chain'[d] = chain[d]
        => UnwrittenGrows
  <2> SUFFICES ASSUME NEW c \in Clients,
                      pc[c] # "row", UNCHANGED <<accepted, rows, faultVars>>,
                      \A d \in Clients : d # c =>
                         pc'[d] = pc[d] /\ hold'[d] = hold[d] /\ chain'[d] = chain[d]
               PROVE  UnwrittenGrows
    OBVIOUS
  <2>1. \A d \in Clients : pc[d] = "row" =>
            pc'[d] = "row" /\ chain'[d] = chain[d] /\ hold'[d] = hold[d]
    OBVIOUS
  <2> QED  BY <2>1, UnwrittenUntouched
<1> USE DEF poolVars, handVars, chainVars, recordVars
<1>1. CASE NewJob
  BY <1>1, UnwrittenUntouched DEF NewJob
<1>2. CASE DescribeJob
  BY <1>2, UnwrittenUntouched DEF DescribeJob
<1>3. CASE Crash
  <2>1. crashes \in Nat /\ crashes' = crashes + 1
    BY <1>t, <1>3 DEF TypeOK, Crash
  <2> QED  BY <2>1 DEF UnwrittenGrows
<1>4. ASSUME NEW c \in Clients, NEW d \in Difficulties, SuggestDifficulty(c, d)
      PROVE  UnwrittenGrows
  BY <1>4, UnwrittenUntouched DEF SuggestDifficulty
<1>5. ASSUME NEW c \in Clients, RefuseMalformed(c) PROVE UnwrittenGrows
  <2>1. pc[c] # "row" /\ UNCHANGED <<accepted, rows, chain, faultVars>>
    BY <1>5 DEF RefuseMalformed
  <2>2. \A d \in Clients : d # c => pc'[d] = pc[d] /\ hold'[d] = hold[d]
    BY <1>t, <1>5 DEF RefuseMalformed, Refuse, Return, TypeOK
  <2> QED  BY <1>k, <2>1, <2>2
<1>6. ASSUME NEW c \in Clients, NEW j \in Jobs, NEW k \in Keys, Submit(c, j, k)
      PROVE  UnwrittenGrows
  <2>1. pc[c] # "row" /\ UNCHANGED <<accepted, rows, chain, faultVars>>
    BY <1>6 DEF Submit
  <2>2. \A d \in Clients : d # c => pc'[d] = pc[d] /\ hold'[d] = hold[d]
    BY <1>t, <1>6 DEF Submit, Refuse, Return, TypeOK
  <2> QED  BY <1>k, <2>1, <2>2
<1>7. ASSUME NEW c \in Clients, Validate(c) PROVE UnwrittenGrows
  <2>1. pc[c] # "row" /\ UNCHANGED <<accepted, rows, chain, faultVars>>
    BY <1>7 DEF Validate
  <2>2. \A d \in Clients : d # c => pc'[d] = pc[d] /\ hold'[d] = hold[d]
    BY <1>t, <1>7 DEF Validate, Refuse, Return, Goto, TypeOK
  <2> QED  BY <1>k, <2>1, <2>2
<1>8. ASSUME NEW c \in Clients, Record(c) PROVE UnwrittenGrows
  <2>1. pc[c] # "row" /\ UNCHANGED <<accepted, rows, chain, faultVars>>
    BY <1>8 DEF Record
  <2>2. \A d \in Clients : d # c => pc'[d] = pc[d] /\ hold'[d] = hold[d]
    BY <1>t, <1>8 DEF Record, Goto, TypeOK
  <2> QED  BY <1>k, <2>1, <2>2
<1>9. ASSUME NEW c \in Clients, Lookup(c) PROVE UnwrittenGrows
  <2>1. pc[c] # "row" /\ UNCHANGED <<accepted, rows, chain, faultVars>>
    BY <1>9 DEF Lookup
  <2>2. \A d \in Clients : d # c => pc'[d] = pc[d] /\ hold'[d] = hold[d]
    BY <1>t, <1>9 DEF Lookup, Return, Goto, TypeOK
  <2> QED  BY <1>k, <2>1, <2>2
<1>10. CASE UNCHANGED vars
  BY <1>10, UnwrittenUntouched DEF vars, faultVars
<1> QED
  BY <1>t, <1>1, <1>2, <1>3, <1>4, <1>5, <1>6, <1>7, <1>8, <1>9, <1>10,
     UnwrittenSubmit, UnwrittenInsert DEF Next, Handler

\* What grows by what it counts stays counted.
LEMMA UnwrittenStaysCounted ==
  IInv /\ UnwrittenCounted /\ [Next]_vars => UnwrittenCounted'
<1> SUFFICES ASSUME IInv, UnwrittenCounted, [Next]_vars PROVE UnwrittenCounted'
  OBVIOUS
<1>g. UnwrittenGrows
  BY EveryStepUnwritten
<1>n. {crashes, rpcErrors, dbFailures, crashes', rpcErrors', dbFailures'} \subseteq Nat
  BY TypeKept DEF IInv, TypeOK
<1>1. CASE crashes' > 0
  BY <1>1 DEF UnwrittenCounted
<1>2. CASE crashes' = crashes /\ crashes > 0
  BY <1>2 DEF UnwrittenCounted
<1>3. CASE /\ ~(crashes > 0) /\ Unwritten' \subseteq Unwritten
           /\ UNCHANGED <<rpcErrors, dbFailures>>
  <2>1. IsFiniteSet(Unwritten) /\ Cardinality(Unwritten) <= rpcErrors + dbFailures
    BY <1>3 DEF UnwrittenCounted
  <2>2. IsFiniteSet(Unwritten') /\ Cardinality(Unwritten') <= Cardinality(Unwritten)
    BY <1>3, <2>1, FS_Subset
  <2>3. Cardinality(Unwritten) \in Nat /\ Cardinality(Unwritten') \in Nat
    BY <2>1, <2>2, FS_CardinalityType
  <2>4. Cardinality(Unwritten') <= rpcErrors' + dbFailures'
    BY <1>n, <1>3, <2>1, <2>2, <2>3
  <2> QED  BY <2>2, <2>4, Zenon DEF UnwrittenCounted
<1>4. ASSUME NEW b, ~(crashes > 0), Unwritten' \subseteq Unwritten \cup {b},
             \/ rpcErrors' = rpcErrors + 1 /\ UNCHANGED dbFailures
             \/ dbFailures' = dbFailures + 1 /\ UNCHANGED rpcErrors
      PROVE  UnwrittenCounted'
  <2>1. IsFiniteSet(Unwritten) /\ Cardinality(Unwritten) <= rpcErrors + dbFailures
    BY <1>4 DEF UnwrittenCounted
  <2>2. /\ IsFiniteSet(Unwritten \cup {b})
        /\ Cardinality(Unwritten \cup {b})
             = IF b \in Unwritten THEN Cardinality(Unwritten)
                                  ELSE Cardinality(Unwritten) + 1
    BY <2>1, FS_AddElement
  <2>3. /\ IsFiniteSet(Unwritten')
        /\ Cardinality(Unwritten') <= Cardinality(Unwritten \cup {b})
    BY <1>4, <2>2, FS_Subset
  <2>4. /\ Cardinality(Unwritten) \in Nat /\ Cardinality(Unwritten') \in Nat
        /\ Cardinality(Unwritten \cup {b}) \in Nat
    BY <2>1, <2>2, <2>3, FS_CardinalityType
  <2>5. Cardinality(Unwritten \cup {b}) <= Cardinality(Unwritten) + 1
    BY <2>2, <2>4
  <2>6. Cardinality(Unwritten') <= rpcErrors' + dbFailures'
    BY <1>n, <1>4, <2>1, <2>3, <2>4, <2>5
  <2> QED  BY <2>3, <2>6, Zenon DEF UnwrittenCounted
<1> QED  BY <1>g, <1>1, <1>2, <1>3, <1>4 DEF UnwrittenGrows

\* Every accepted block without a row is paid for by a lost answer, a failed
\* statement or a crash.
THEOREM UnrecordedExplained == Spec => []UnrecordedHaveACause
<1>1. Init => UnwrittenCounted
  <2> SUFFICES ASSUME Init PROVE UnwrittenCounted
    OBVIOUS
  <2>1. Unwritten = {}
    BY DEF Init, Unwritten
  <2>2. IsFiniteSet({}) /\ Cardinality({}) = 0
    BY FS_EmptySet
  <2> QED  BY <2>1, <2>2 DEF Init, UnwrittenCounted
<1>2. IInv /\ UnwrittenCounted /\ [Next]_vars => UnwrittenCounted'
  BY UnwrittenStaysCounted
<1>3. UnwrittenCounted => UnrecordedHaveACause
  BY DEF UnwrittenCounted, Unwritten, Inserting, UnrecordedHaveACause
<1> QED  BY <1>1, <1>2, <1>3, Inductive, PTL DEF Spec
=============================================================================

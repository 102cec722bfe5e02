---------------------------- MODULE StratumProofs ---------------------------
(***************************************************************************)
(* The parts of the stratum server a client meets first and last: its      *)
(* connection (Connections), its difficulty (Vardiff), and the way of its  *)
(* shares to the database (ShareBatcher), for any number of connections,   *)
(* addresses and shares, any limits, bounds, queues and buffers, and any   *)
(* number of crashes.  The components share no state and each has an       *)
(* inductive invariant of its own.                                         *)
(***************************************************************************)
EXTENDS Connections, Vardiff, ShareBatcher, FiniteSetTheorems, SequenceTheorems, TLAPS

-----------------------------------------------------------------------------
(* Connections.                                                            *)

\* The counts and the connections they stand for.
Balance == NoLockout /\ UncountedHaveACause

\* Until the counter has used its width, the open connections have what it
\* handed out, each its own.
Extras ==
  /\ nextExtra >= 1
  /\ nextExtra <= Width =>
       \A c \in Registered : 1 <= extra[c] /\ extra[c] < nextExtra
  /\ nextExtra <= Width + 1 =>
       \A c, d \in Registered : c # d => extra[c] # extra[d]

IInv == TypeOK /\ Balance /\ Extras

-----------------------------------------------------------------------------
(* The sets of connections of an address.                                  *)

\* An address has finitely many live connections.
LEMMA LiveIsFinite ==
  ASSUME NEW a
  PROVE  IsFiniteSet(Live(a)) /\ Cardinality(Live(a)) \in Nat
<1>1. Live(a) \in SUBSET Conns
  BY DEF Live, At
<1>2. IsFiniteSet(Conns)
  BY ConstantsAssumption
<1>3. IsFiniteSet(Live(a))
  BY <1>1, <1>2, FS_Subset
<1> QED  BY <1>3, FS_CardinalityType

\* A connection that becomes live is one more of its address, one that was
\* live and is no more is one less, and every other address keeps its own.
LEMMA LiveGains ==
  ASSUME TypeOK, NEW c \in Conns, NEW a, pc[c] = "new", Goto(c, "counted")
  PROVE  Cardinality(Live(a)') = IF a = IpOf[c] THEN Cardinality(Live(a)) + 1
                                                ELSE Cardinality(Live(a))
<1>1. CASE a = IpOf[c]
  <2>1. Live(a)' = Live(a) \cup {c} /\ c \notin Live(a)
    BY <1>1 DEF TypeOK, Live, At, Goto
  <2>2. Cardinality(Live(a) \cup {c}) = Cardinality(Live(a)) + 1
    BY <2>1, LiveIsFinite, FS_AddElement
  <2> QED  BY <1>1, <2>1, <2>2
<1>2. CASE a # IpOf[c]
  <2>1. Live(a)' = Live(a)
    BY <1>2 DEF TypeOK, Live, At, Goto
  <2> QED  BY <1>2, <2>1
<1> QED  BY <1>1, <1>2

\* Letting go of the count takes one live connection off its address.
LEMMA LiveLoses ==
  ASSUME TypeOK, NEW c \in Conns, NEW a, pc[c] = "uncount",
         NEW place \in {"remove", "closed"}, Goto(c, place)
  PROVE  Cardinality(Live(a)') = IF a = IpOf[c] THEN Cardinality(Live(a)) - 1
                                                ELSE Cardinality(Live(a))
<1>1. CASE a = IpOf[c]
  <2>1. Live(a)' = Live(a) \ {c} /\ c \in Live(a)
    BY <1>1 DEF TypeOK, Live, At, Goto
  <2>2. Cardinality(Live(a) \ {c}) = Cardinality(Live(a)) - 1
    BY <2>1, LiveIsFinite, FS_RemoveElement
  <2> QED  BY <1>1, <2>1, <2>2
<1>2. CASE a # IpOf[c]
  <2>1. Live(a)' = Live(a)
    BY <1>2 DEF TypeOK, Live, At, Goto
  <2> QED  BY <1>2, <2>1
<1> QED  BY <1>1, <1>2

\* The other moves of a connection leave the live ones as they are.
LEMMA LiveKept ==
  ASSUME TypeOK, NEW c \in Conns, NEW a,
         \/ pc[c] = "new" /\ Goto(c, "closed")
         \/ pc[c] = "counted" /\ Goto(c, "open")
         \/ pc[c] = "open" /\ Goto(c, "uncount")
         \/ pc[c] = "remove" /\ Goto(c, "closed")
  PROVE  Live(a)' = Live(a)
BY DEF TypeOK, Live, At, Goto

-----------------------------------------------------------------------------
(* Types.                                                                  *)

\* Types are kept by every step.
LEMMA TypeKept == TypeOK /\ [Next]_vars => TypeOK'
<1> SUFFICES ASSUME TypeOK, [Next]_vars PROVE TypeOK'
  OBVIOUS
<1> USE ConstantsAssumption
<1>1. ASSUME NEW c \in Conns, Admit(c) PROVE TypeOK'
  <2>1. CASE LimitReached(IpOf[c])
    BY <1>1, <2>1 DEF TypeOK, Admit, Goto, Places
  <2>2. CASE ~LimitReached(IpOf[c])
    BY <1>1, <2>2 DEF TypeOK, Admit, LimitReached, Goto, Places
  <2> QED  BY <2>1, <2>2
<1>2. ASSUME NEW c \in Conns, Register(c) PROVE TypeOK'
  <2>1. nextExtra % Width \in 0 .. Width - 1
    BY DEF TypeOK
  <2> QED  BY <1>2, <2>1 DEF TypeOK, Register, Goto, Places
<1>3. ASSUME NEW c \in Conns, FallSilent(c) PROVE TypeOK'
  BY <1>3 DEF TypeOK, FallSilent
<1>4. ASSUME NEW c \in Conns, Leave(c) PROVE TypeOK'
  BY <1>4 DEF TypeOK, Leave, Goto, Places
<1>5. ASSUME NEW c \in Conns, Uncount(c) PROVE TypeOK'
  BY <1>5 DEF TypeOK, Uncount, Goto, Places
<1>6. ASSUME NEW c \in Conns, Remove(c) PROVE TypeOK'
  BY <1>6 DEF TypeOK, Remove, Goto, Places
<1>7. CASE UNCHANGED vars
  BY <1>7 DEF TypeOK, vars
<1> QED
  BY <1>1, <1>2, <1>3, <1>4, <1>5, <1>6, <1>7 DEF Next, Task, TimeOut

-----------------------------------------------------------------------------
(* Counts.                                                                 *)

\* Counts and wiped counts together stay in balance with the live connections.
LEMMA BalanceKept == TypeOK /\ Balance /\ [Next]_vars => Balance'
<1> SUFFICES ASSUME TypeOK, Balance, [Next]_vars, NEW a \in Addresses
             PROVE  /\ count'[a] <= Cardinality(Live(a)')
                    /\ Cardinality(Live(a)') <= count'[a] + wiped'[a]
  BY DEF Balance, NoLockout, UncountedHaveACause
<1> DEFINE n == Cardinality(Live(a))
<1>0. /\ n \in Nat /\ count[a] \in Nat /\ wiped[a] \in Nat
      /\ count[a] <= n /\ n <= count[a] + wiped[a]
  BY LiveIsFinite, ConstantsAssumption
     DEF TypeOK, Balance, NoLockout, UncountedHaveACause
<1> HIDE DEF n
<1>k. ASSUME Live(a)' = Live(a), count'[a] = count[a], wiped'[a] = wiped[a]
      PROVE  /\ count'[a] <= Cardinality(Live(a)')
             /\ Cardinality(Live(a)') <= count'[a] + wiped'[a]
  BY <1>k, <1>0 DEF n
<1>1. ASSUME NEW c \in Conns, Admit(c)
      PROVE  /\ count'[a] <= Cardinality(Live(a)')
             /\ Cardinality(Live(a)') <= count'[a] + wiped'[a]
  <2>1. CASE LimitReached(IpOf[c])
    <3>1. Live(a)' = Live(a)
      BY <1>1, <2>1, LiveKept DEF Admit
    <3> QED  BY <1>1, <2>1, <3>1, <1>k DEF Admit
  <2>2. CASE ~LimitReached(IpOf[c])
    <3>1. Cardinality(Live(a)') = IF a = IpOf[c] THEN n + 1 ELSE n
      BY <1>1, <2>2, LiveGains DEF Admit, n
    <3>2. /\ count'[a] = IF a = IpOf[c] THEN count[a] + 1 ELSE count[a]
          /\ wiped'[a] = wiped[a]
      BY <1>1, <2>2 DEF Admit, TypeOK
    <3> QED  BY <1>0, <3>1, <3>2
  <2> QED  BY <2>1, <2>2
<1>2. ASSUME NEW c \in Conns, Register(c) \/ Leave(c)
      PROVE  /\ count'[a] <= Cardinality(Live(a)')
             /\ Cardinality(Live(a)') <= count'[a] + wiped'[a]
  <2>1. Live(a)' = Live(a)
    BY <1>2, LiveKept DEF Register, Leave
  <2> QED  BY <1>2, <2>1, <1>k DEF Register, Leave
<1>3. ASSUME NEW c \in Conns, FallSilent(c)
      PROVE  /\ count'[a] <= Cardinality(Live(a)')
             /\ Cardinality(Live(a)') <= count'[a] + wiped'[a]
  BY <1>3, <1>k DEF FallSilent, Live, At
<1>4. ASSUME NEW c \in Conns, Uncount(c)
      PROVE  /\ count'[a] <= Cardinality(Live(a)')
             /\ Cardinality(Live(a)') <= count'[a] + wiped'[a]
  <2>1. PICK place \in {"remove", "closed"} : Goto(c, place)
    BY <1>4 DEF Uncount
  <2>2. Cardinality(Live(a)') = IF a = IpOf[c] THEN n - 1 ELSE n
    BY <1>4, <2>1, LiveLoses DEF Uncount, n
  <2>3. /\ count'[a] = IF a = IpOf[c] /\ count[a] # 0 THEN count[a] - 1 ELSE count[a]
        /\ wiped'[a] = wiped[a]
    BY <1>4 DEF Uncount, TypeOK
  <2>4. a = IpOf[c] => n \in Nat \ {0}
    <3>1. a = IpOf[c] => c \in Live(a)
      BY <1>4 DEF Uncount, Live, At
    <3> QED  BY <3>1, <1>0, LiveIsFinite, FS_EmptySet DEF n
  <2> QED  BY <1>0, <2>2, <2>3, <2>4
<1>5. ASSUME NEW c \in Conns, Remove(c)
      PROVE  /\ count'[a] <= Cardinality(Live(a)')
             /\ Cardinality(Live(a)') <= count'[a] + wiped'[a]
  <2>1. Live(a)' = Live(a)
    BY <1>5, LiveKept DEF Remove
  <2>2. \/ count'[a] = count[a] /\ wiped'[a] = wiped[a]
        \/ count'[a] = 0 /\ wiped'[a] = wiped[a] + count[a]
    BY <1>5 DEF Remove, TypeOK
  <2> QED  BY <1>0, <2>1, <2>2 DEF n
<1>6. CASE UNCHANGED vars
  BY <1>6, <1>k DEF vars, Live, At
<1> QED
  BY <1>1, <1>2, <1>3, <1>4, <1>5, <1>6 DEF Next, Task, TimeOut

-----------------------------------------------------------------------------
(* The extranonce counter.                                                 *)

\* Below the width, the counter is its own remainder.
LEMMA NoWrapYet ==
  ASSUME NEW n \in Nat, NEW w \in Nat \ {0}, n <= w
  PROVE  n % w = IF n = w THEN 0 ELSE n
OBVIOUS

\* Extranonces are handed out in order until the counter wraps.
LEMMA ExtrasKept == TypeOK /\ Extras /\ [Next]_vars => Extras'
<1> SUFFICES ASSUME TypeOK, Extras, [Next]_vars PROVE Extras'
  OBVIOUS
<1>0. Width \in Nat \ {0}
  BY ConstantsAssumption
<1>1. ASSUME NEW c \in Conns, Register(c) PROVE Extras'
  <2>1. /\ Registered' = Registered \cup {c} /\ c \notin Registered
        /\ nextExtra' = nextExtra + 1 /\ nextExtra \in Nat
        /\ extra'[c] = nextExtra % Width
        /\ \A d \in Registered : extra'[d] = extra[d] /\ extra[d] \in Nat
    BY <1>1 DEF Register, Goto, Registered, TypeOK
  <2>2. CASE nextExtra <= Width
    <3>1. extra'[c] = IF nextExtra = Width THEN 0 ELSE nextExtra
      BY <1>0, <2>1, <2>2, NoWrapYet
    <3> QED  BY <1>0, <2>1, <2>2, <3>1 DEF Extras
  <2>3. CASE nextExtra > Width
    BY <1>0, <2>1, <2>3 DEF Extras
  <2> QED  BY <1>0, <2>1, <2>2, <2>3
<1>2. ASSUME NEW c \in Conns,
             Admit(c) \/ FallSilent(c) \/ Leave(c) \/ Uncount(c) \/ Remove(c)
      PROVE  Extras'
  <2>1. Registered' \subseteq Registered
    BY <1>2 DEF Admit, FallSilent, Leave, Uncount, Remove, Goto, Registered, TypeOK
  <2>2. UNCHANGED <<extra, nextExtra>>
    BY <1>2 DEF Admit, FallSilent, Leave, Uncount, Remove
  <2> QED  BY <2>1, <2>2 DEF Extras
<1>3. CASE UNCHANGED vars
  BY <1>3 DEF vars, Extras, Registered
<1> QED
  BY <1>1, <1>2, <1>3 DEF Next, Task, TimeOut

-----------------------------------------------------------------------------
(* Theorems.                                                               *)

\* The initial states satisfy the inductive invariant.
LEMMA InitInvariant == Init => IInv
<1> SUFFICES ASSUME Init PROVE IInv
  OBVIOUS
<1>1. TypeOK
  BY ConstantsAssumption DEF Init, TypeOK, Places
<1>2. Balance
  <2>1. \A a \in Addresses : Live(a) = {}
    BY DEF Init, Live, At
  <2>2. Cardinality({}) = 0
    BY FS_EmptySet
  <2> QED  BY <2>1, <2>2 DEF Init, Balance, NoLockout, UncountedHaveACause
<1>3. Extras
  BY DEF Init, Extras, Registered
<1> QED  BY <1>1, <1>2, <1>3 DEF IInv

\* The inductive invariant of the connections (handle_connection).
THEOREM Inductive == Spec => []IInv
<1>1. IInv /\ [Next]_vars => IInv'
  BY TypeKept, BalanceKept, ExtrasKept DEF IInv
<1> QED  BY <1>1, InitInvariant, PTL DEF Spec

\* No count ever exceeds max_connections_per_ip (server.rs:185).
THEOREM TypeCorrect == Spec => []TypeOK
<1>1. IInv => TypeOK
  BY DEF IInv
<1> QED  BY <1>1, Inductive, PTL

\* No address is counted for more connections than it has (server.rs:320-331).
THEOREM NobodyIsLockedOut == Spec => []NoLockout
<1>1. IInv => NoLockout
  BY DEF IInv, Balance
<1> QED  BY <1>1, Inductive, PTL

\* A connection is uncounted only through the removal race (server.rs:328-329).
THEOREM UncountedExplained == Spec => []UncountedHaveACause
<1>1. IInv => UncountedHaveACause
  BY DEF IInv, Balance
<1> QED  BY <1>1, Inductive, PTL

\* Open connections share an extranonce1 only after the counter has wrapped
\* (server.rs:194), which no small instance of 2^32 values can show.
THEOREM ExtranoncesDiffer == Spec => []SameExtranonceNeedsWrap
<1>1. IInv => SameExtranonceNeedsWrap
  BY ConstantsAssumption DEF IInv, TypeOK, Extras, SameExtranonceNeedsWrap
<1> QED  BY <1>1, Inductive, PTL

-----------------------------------------------------------------------------
(* Vardiff.                                                                *)

\* Position i of the queue is its last mining.set_difficulty, and carries what
\* the client is held to.
LastWord(i) == /\ i \in 1 .. Len(outbox) /\ outbox[i] = actual
               /\ \A j \in i + 1 .. Len(outbox) : outbox[j] = Other

\* The queue says nothing of difficulties, and the miner knows its own.
NothingNew == /\ told = actual
              /\ \A j \in 1 .. Len(outbox) : outbox[j] = Other

\* Unless the last word was dropped, it is in the queue or has been heard.
WordKept == dropped \/ NothingNew \/ \E i \in 1 .. Len(outbox) : LastWord(i)

VardiffIInv == VardiffTypeOK /\ WordKept

Message == Diffs \cup {Other}

-----------------------------------------------------------------------------
(* Operators.                                                              *)

\* Difficulties are integers.
LEMMA DiffsAreInts == Diffs \subseteq Int
BY VardiffAssumption DEF Diffs

\* A clamped difficulty is within the bounds.
LEMMA ClampIsDiff ==
  ASSUME NEW x \in Int, Diffs # {}
  PROVE  Clamp(x, MinDiff, MaxDiff) \in Diffs
BY VardiffAssumption DEF Clamp, Larger, Smaller, Diffs

\* A retarget stays within the bounds.
LEMMA NewDiffIsDiff ==
  ASSUME VardiffTypeOK, NEW r \in Int
  PROVE  NewDiff(r) \in Diffs
<1>1. vd \in Int /\ Diffs # {}
  BY DiffsAreInts DEF VardiffTypeOK
<1>2. Clamp(r, -2, 2) \in Int
  BY DEF Clamp, Larger, Smaller
<1>3. vd - Clamp(r, -2, 2) \in Int
  BY <1>1, <1>2
<1> QED  BY <1>1, <1>3, ClampIsDiff DEF NewDiff

\* A push adds the message, or drops it, and never overflows the queue.
LEMMA PushProperties ==
  ASSUME NEW box \in Seq(Message), Len(box) <= OutboxSize, NEW msg \in Message
  PROVE  /\ Push(box, msg) \in Seq(Message)
         /\ Len(Push(box, msg)) <= OutboxSize
         /\ Room(box) => /\ Len(Push(box, msg)) = Len(box) + 1
                         /\ Push(box, msg)[Len(box) + 1] = msg
                         /\ \A i \in 1 .. Len(box) : Push(box, msg)[i] = box[i]
         /\ ~Room(box) => Push(box, msg) = box
BY VardiffAssumption DEF Push, Room

\* Shares are found at a difficulty within the bounds.
LEMMA FoundIsDiff == ASSUME VardiffTypeOK PROVE FoundAt \in Diffs /\ Window \subseteq Diffs
BY DEF VardiffTypeOK, FoundAt, Window, Larger

\* The ratios of a window are integers.
LEMMA RatiosAreInts == ASSUME VardiffTypeOK PROVE Ratios \subseteq Int
<1> SUFFICES ASSUME NEW r \in Ratios PROVE r \in Int
  OBVIOUS
<1>1. PICK w \in Window \X Window :
        r \in w[1] - ideal - luck .. w[2] - ideal + luck
  BY DEF Ratios
<1>2. w[1] \in Diffs /\ w[2] \in Diffs
  BY FoundIsDiff
<1>3. w[1] \in Int /\ w[2] \in Int
  BY <1>2, DiffsAreInts
<1>4. ideal \in Int /\ luck \in Int
  BY VardiffAssumption DEF VardiffTypeOK
<1> QED  BY <1>1, <1>3, <1>4

-----------------------------------------------------------------------------
(* Steps.                                                                  *)

\* A difficulty is set, behind the messages of a box: it is told, or dropped.
LEMMA WordIsSent ==
  ASSUME NEW box \in Seq(Message), Len(box) <= OutboxSize, NEW d \in Diffs,
         SetDifficulty(d, box)
  PROVE  /\ actual' \in Diffs /\ dropped' \in BOOLEAN
         /\ outbox' \in Seq(Message) /\ Len(outbox') <= OutboxSize
         /\ WordKept'
<1>1. d \in Message
  BY DEF Message
<1>2. /\ actual' = d /\ outbox' = Push(box, d) /\ dropped' = ~Room(box)
      /\ outbox' \in Seq(Message) /\ Len(outbox') <= OutboxSize
  BY <1>1, PushProperties DEF SetDifficulty
<1>3. ASSUME Room(box) PROVE LastWord(Len(box) + 1)'
  <2>1. /\ Len(outbox') = Len(box) + 1 /\ outbox'[Len(box) + 1] = d
        /\ Len(box) \in Nat
    <3>1. Len(box) \in Nat
      OBVIOUS
    <3>2. Len(Push(box, d)) = Len(box) + 1 /\ Push(box, d)[Len(box) + 1] = d
      BY <1>1, <1>3, PushProperties
    <3> QED  BY <1>2, <3>1, <3>2
  <2> QED  BY <1>2, <2>1 DEF LastWord
<1>4. WordKept'
  BY <1>2, <1>3 DEF WordKept, LastWord
<1> QED  BY <1>2, <1>4 DEF Room

\* Another message is sent.
LEMMA WordStays ==
  ASSUME VardiffIInv, outbox' = Push(outbox, Other), UNCHANGED <<actual, told, dropped>>
  PROVE  outbox' \in Seq(Message) /\ Len(outbox') <= OutboxSize /\ WordKept'
<1>1. Other \in Message /\ outbox \in Seq(Message) /\ Len(outbox) <= OutboxSize
  BY DEF Message, VardiffIInv, VardiffTypeOK
<1>2. outbox' \in Seq(Message) /\ Len(outbox') <= OutboxSize
  BY <1>1, PushProperties
<1>3. CASE ~Room(outbox)
  <2>1. outbox' = outbox
    BY <1>1, <1>3, PushProperties
  <2> QED  BY <1>2, <2>1 DEF VardiffIInv, WordKept, NothingNew, LastWord
<1>4. CASE Room(outbox)
  <2>1. /\ Len(outbox') = Len(outbox) + 1 /\ outbox'[Len(outbox) + 1] = Other
        /\ \A i \in 1 .. Len(outbox) : outbox'[i] = outbox[i]
        /\ Len(outbox) \in Nat
    <3>1. Len(outbox) \in Nat
      BY <1>1
    <3>2. /\ Len(Push(outbox, Other)) = Len(outbox) + 1
          /\ Push(outbox, Other)[Len(outbox) + 1] = Other
          /\ \A i \in 1 .. Len(outbox) : Push(outbox, Other)[i] = outbox[i]
      BY <1>1, <1>4, PushProperties
    <3> QED  BY <3>1, <3>2
  <2>2. ASSUME dropped PROVE WordKept'
    <3>1. dropped \in BOOLEAN /\ dropped' = dropped
      BY DEF VardiffIInv, VardiffTypeOK
    <3>2. dropped'
      BY <2>2, <3>1
    <3> HIDE DEF NothingNew, LastWord
    <3> QED  BY <3>2 DEF WordKept
  <2>3. ASSUME NothingNew PROVE WordKept'
    <3>1. told' = actual'
      BY <2>3 DEF NothingNew
    <3>2. \A j \in 1 .. Len(outbox') : outbox'[j] = Other
      BY <2>1, <2>3 DEF NothingNew
    <3> QED  BY <3>1, <3>2 DEF WordKept, NothingNew
  <2>4. ASSUME NEW i \in 1 .. Len(outbox), LastWord(i) PROVE LastWord(i)'
    BY <2>1, <2>4 DEF LastWord
  <2>5. WordKept'
    BY <2>1, <2>2, <2>3, <2>4 DEF VardiffIInv, WordKept
  <2> QED  BY <1>2, <2>5
<1> QED  BY <1>3, <1>4

\* A delivered message keeps the invariant.
LEMMA DeliverKeeps == ASSUME VardiffIInv, Deliver PROVE VardiffIInv'
<1>1. /\ outbox # <<>> /\ outbox \in Seq(Message) /\ Len(outbox) <= OutboxSize
      /\ outbox' = Tail(outbox) /\ OutboxSize \in Nat
  BY VardiffAssumption DEF VardiffIInv, VardiffTypeOK, Deliver, Message
<1>2. /\ outbox' \in Seq(Message) /\ Len(outbox') = Len(outbox) - 1
      /\ Len(outbox) \in Nat \ {0}
      /\ \A i \in 1 .. Len(outbox') : outbox'[i] = outbox[i + 1]
  BY <1>1
<1>3. Head(outbox) = outbox[1] /\ outbox[1] \in Message
  BY <1>1
<1>4. told' = IF outbox[1] = Other THEN told ELSE outbox[1]
  BY <1>3 DEF Deliver
<1>5. UNCHANGED <<actual, dropped>>
  BY DEF Deliver
<1>6. told' \in Diffs
  BY <1>3, <1>4 DEF VardiffIInv, VardiffTypeOK, Message
<1>7. VardiffTypeOK'
  BY <1>1, <1>2, <1>6 DEF VardiffIInv, VardiffTypeOK, Deliver, Message, minerVars
<1>8. CASE dropped
  BY <1>5, <1>7, <1>8 DEF VardiffIInv, WordKept
<1>9. CASE NothingNew
  <2>1. outbox[1] = Other /\ told' = actual'
    BY <1>2, <1>4, <1>5, <1>9 DEF NothingNew
  <2>2. \A j \in 1 .. Len(outbox') : outbox'[j] = Other
    BY <1>2, <1>9 DEF NothingNew
  <2> QED  BY <1>7, <2>1, <2>2 DEF VardiffIInv, WordKept, NothingNew
<1>10. ASSUME NEW i \in 1 .. Len(outbox), LastWord(i) PROVE WordKept'
  <2>1. CASE i = 1
    <3>1. outbox[1] = actual /\ actual # Other
      BY <1>10, <2>1, VardiffAssumption DEF LastWord, VardiffIInv, VardiffTypeOK
    <3>2. \A j \in 1 .. Len(outbox') : outbox'[j] = Other
      BY <1>2, <1>10, <2>1 DEF LastWord
    <3> QED  BY <1>4, <1>5, <3>1, <3>2 DEF WordKept, NothingNew
  <2>2. CASE i # 1
    <3>1. i - 1 \in 1 .. Len(outbox') /\ outbox'[i - 1] = actual'
      BY <1>2, <1>5, <1>10, <2>2 DEF LastWord
    <3>2. \A j \in (i - 1) + 1 .. Len(outbox') : outbox'[j] = Other
      BY <1>2, <1>10, <2>2 DEF LastWord
    <3> QED  BY <3>1, <3>2 DEF WordKept, LastWord
  <2> QED  BY <2>1, <2>2
<1> QED  BY <1>7, <1>8, <1>9, <1>10 DEF VardiffIInv, WordKept

\* A share and its retarget keep the invariant.
LEMMA ShareKeeps == ASSUME VardiffIInv, Share PROVE VardiffIInv'
<1> DEFINE box == Push(outbox, Other)
<1>1. /\ Other \in Message /\ outbox \in Seq(Message) /\ Len(outbox) <= OutboxSize
      /\ RetargetShares \in Nat \ {0} /\ shares \in Nat
  BY VardiffAssumption DEF Message, VardiffIInv, VardiffTypeOK
<1>2. box \in Seq(Message) /\ Len(box) <= OutboxSize
  BY <1>1, PushProperties
<1>w. Window \subseteq Diffs /\ Window # {}
  BY FoundIsDiff DEF VardiffIInv, Window
<1> HIDE DEF box
<1>3. UNCHANGED <<minerVars, told, suggests>>
  BY DEF Share
<1>r. /\ shares' \in 0 .. RetargetShares - 1
      /\ span' \subseteq Diffs /\ (span' = {} <=> shares' = 0)
  <2>1. CASE ResetWindow
    BY <1>1, <2>1 DEF ResetWindow
  <2>2. CASE UNCHANGED <<shares, span>>
    BY <2>2 DEF VardiffIInv, VardiffTypeOK
  <2>3. CASE shares + 1 < RetargetShares /\ shares' = shares + 1 /\ span' = Window
    BY <1>1, <1>w, <2>3
  <2> QED  BY <2>1, <2>2, <2>3 DEF Share, Count, Burst, Retarget
<1>4. CASE outbox' = box /\ UNCHANGED <<actual, vd, dropped>>
  <2>1. outbox' \in Seq(Message) /\ Len(outbox') <= OutboxSize /\ WordKept'
    BY <1>3, <1>4, WordStays DEF box
  <2> QED  BY <1>3, <1>4, <1>r, <2>1 DEF VardiffIInv, VardiffTypeOK, Message, minerVars
<1>5. ASSUME NEW r \in Ratios, vd' = NewDiff(r), SetDifficulty(NewDiff(r), box)
      PROVE  VardiffIInv'
  <2>1. NewDiff(r) \in Diffs
    BY RatiosAreInts, NewDiffIsDiff DEF VardiffIInv
  <2>2. /\ actual' \in Diffs /\ dropped' \in BOOLEAN
        /\ outbox' \in Seq(Message) /\ Len(outbox') <= OutboxSize
        /\ WordKept'
    BY <1>2, <1>5, <2>1, WordIsSent
  <2> QED  BY <1>3, <1>5, <1>r, <2>1, <2>2
           DEF VardiffIInv, VardiffTypeOK, Message, minerVars
<1> QED  BY <1>4, <1>5 DEF Share, Count, Burst, Retarget, box

\* The initial states satisfy the inductive invariant.
LEMMA VardiffInitInvariant == VardiffInit => VardiffIInv
<1> SUFFICES ASSUME VardiffInit PROVE VardiffIInv
  OBVIOUS
<1>1. VardiffTypeOK
  <2>1. actual \in Diffs /\ 0 \in 0 .. RetargetShares - 1 /\ 0 \in 0 .. MaxSuggests
    BY VardiffAssumption DEF VardiffInit
  <2>2. <<>> \in Seq(Diffs \cup {Other}) /\ Len(<<>>) <= OutboxSize
    BY VardiffAssumption
  <2> QED  BY <2>1, <2>2 DEF VardiffInit, VardiffTypeOK
<1>2. NothingNew
  BY DEF VardiffInit, NothingNew
<1> QED  BY <1>1, <1>2 DEF VardiffIInv, WordKept

\* Every step keeps the inductive invariant.
LEMMA VardiffStepInvariant == VardiffIInv /\ [VardiffNext]_vardiffVars => VardiffIInv'
<1> SUFFICES ASSUME VardiffIInv, [VardiffNext]_vardiffVars PROVE VardiffIInv'
  OBVIOUS
<1>1. /\ Other \in Message /\ outbox \in Seq(Message) /\ Len(outbox) <= OutboxSize
  BY DEF Message, VardiffIInv, VardiffTypeOK
<1>2. CASE Deliver
  BY <1>2, DeliverKeeps
<1>3. CASE Respond
  <2>1. outbox' \in Seq(Message) /\ Len(outbox') <= OutboxSize /\ WordKept'
    BY <1>3, WordStays DEF Respond
  <2> QED  BY <1>3, <2>1 DEF VardiffIInv, VardiffTypeOK, Respond, Message, minerVars
<1>4. CASE Announce
  <2>1. Push(outbox, Other) \in Seq(Message) /\ Len(Push(outbox, Other)) <= OutboxSize
    BY <1>1, PushProperties
  <2>2. /\ actual' \in Diffs /\ dropped' \in BOOLEAN
        /\ outbox' \in Seq(Message) /\ Len(outbox') <= OutboxSize
        /\ WordKept'
    BY <1>4, <2>1, WordIsSent DEF Announce, VardiffIInv, VardiffTypeOK
  <2> QED  BY <1>4, <2>2 DEF VardiffIInv, VardiffTypeOK, Announce, Message, minerVars
<1>5. CASE Share
  BY <1>5, ShareKeeps
<1>6. ASSUME NEW d \in Suggestions, Suggest(d) PROVE VardiffIInv'
  <2>0. d \in Int /\ Diffs # {}
    BY VardiffAssumption DEF Suggestions, VardiffIInv, VardiffTypeOK
  <2>1. Clamp(d, MinDiff, MaxDiff) \in Diffs
    BY <2>0, ClampIsDiff
  <2>2. /\ actual' \in Diffs /\ dropped' \in BOOLEAN
        /\ outbox' \in Seq(Message) /\ Len(outbox') <= OutboxSize
        /\ WordKept'
    BY <1>1, <1>6, <2>1, WordIsSent DEF Suggest
  <2>3. suggests' \in 0 .. MaxSuggests
    BY <1>6, VardiffAssumption DEF Suggest, VardiffIInv, VardiffTypeOK
  <2> QED  BY <1>6, <2>2, <2>3
           DEF VardiffIInv, VardiffTypeOK, Suggest, Message, minerVars
<1>7. CASE UNCHANGED vardiffVars
  BY <1>7
           DEF vardiffVars, minerVars, VardiffIInv, VardiffTypeOK, WordKept, NothingNew, LastWord
<1> QED  BY <1>2, <1>3, <1>4, <1>5, <1>6, <1>7 DEF VardiffNext

\* The inductive invariant holds in every reachable state.
THEOREM VardiffInductive == VardiffSpec => []VardiffIInv
BY VardiffInitInvariant, VardiffStepInvariant, PTL DEF VardiffSpec

\* Difficulties stay within the bounds of the configuration, the window within
\* its shares and the queue within its slots.
THEOREM VardiffTypeCorrect == VardiffSpec => []VardiffTypeOK
<1>1. VardiffIInv => VardiffTypeOK
  BY DEF VardiffIInv
<1> QED  BY <1>1, VardiffInductive, PTL

\* A miner that works at another difficulty than it is held to has the right one
\* on its way, or lost it to a full queue.
THEOREM ToldOrExplained == VardiffSpec => []ToldHasACause
<1>1. VardiffIInv => ToldHasACause
  BY DEF VardiffIInv, WordKept, NothingNew, LastWord, ToldHasACause
<1> QED  BY <1>1, VardiffInductive, PTL

-----------------------------------------------------------------------------
(* ShareBatcher.                                                           *)

\* A share is in one place, and only if it was answered.
OnePlace ==
  /\ InHand \subseteq answered
  /\ waiting \cap channel = {} /\ waiting \cap buffer = {} /\ channel \cap buffer = {}

\* No row before the buffer; in the fallback, one row if the batch was written.
RowsSoFar ==
  \A s \in Shares :
    /\ (s \notin answered \/ s \in waiting \/ s \in channel
        \/ (s \in buffer /\ task # "single"))
         => rows[s] = 0 /\ s \notin doubted
    /\ s \in buffer /\ task = "single"
         => rows[s] <= IF s \in doubted THEN 1 ELSE 0

\* What memory can hold.
MemoryRoom == Connections + Capacity + BatchSize

\* While it takes shares in, the buffer has room for one more.
Filling == task = "select" => Cardinality(buffer) < BatchSize

BatcherIInv == /\ BatcherTypeOK /\ Filling /\ OnePlace /\ RowsSoFar
               /\ RowsHaveACause /\ LossHasACause

-----------------------------------------------------------------------------
(* Cardinalities.                                                          *)

\* Every set of shares is finite.
LEMMA SharesFinite ==
  ASSUME NEW S \in SUBSET Shares
  PROVE  IsFiniteSet(S) /\ Cardinality(S) \in Nat
<1>1. IsFiniteSet(Shares)
  BY BatcherAssumption
<1>2. IsFiniteSet(S)
  BY <1>1, FS_Subset
<1>3. Cardinality(S) \in Nat
  BY <1>2, FS_CardinalityType
<1> QED BY <1>2, <1>3

\* A smaller set of shares has no more elements.
LEMMA SharesSubset ==
  ASSUME NEW S \in SUBSET Shares, NEW T \in SUBSET S
  PROVE  Cardinality(T) <= Cardinality(S)
<1>1. IsFiniteSet(S)
  BY SharesFinite
<1> QED BY <1>1, FS_Subset

\* One more share, one more element at most.
LEMMA SharesAdd ==
  ASSUME NEW S \in SUBSET Shares, NEW s \in Shares
  PROVE  Cardinality(S \cup {s}) <= Cardinality(S) + 1
<1>1. IsFiniteSet(S) /\ Cardinality(S) \in Nat
  BY SharesFinite
<1>2. Cardinality(S \cup {s})
        = IF s \in S THEN Cardinality(S) ELSE Cardinality(S) + 1
  BY <1>1, FS_AddElement
<1> QED BY <1>1, <1>2

\* A union has no more elements than its parts.
LEMMA SharesUnion ==
  ASSUME NEW S \in SUBSET Shares, NEW T \in SUBSET Shares
  PROVE  Cardinality(S \cup T) <= Cardinality(S) + Cardinality(T)
<1>1. IsFiniteSet(S) /\ IsFiniteSet(T) /\ IsFiniteSet(S \cap T)
  BY SharesFinite
<1>2. Cardinality(S \cup T)
        = Cardinality(S) + Cardinality(T) - Cardinality(S \cap T)
  BY <1>1, FS_Union
<1>3. /\ Cardinality(S) \in Nat /\ Cardinality(T) \in Nat
      /\ Cardinality(S \cap T) \in Nat
  BY SharesFinite
<1> QED BY <1>2, <1>3

\* The memory of the process holds at most MemoryRoom shares.
LEMMA InHandBound ==
  ASSUME BatcherTypeOK
  PROVE  InHand \in SUBSET Shares /\ Cardinality(InHand) <= MemoryRoom
<1>1. waiting \in SUBSET Shares /\ channel \in SUBSET Shares /\ buffer \in SUBSET Shares
  BY DEF BatcherTypeOK
<1>2. /\ Cardinality(waiting \cup channel)
           <= Cardinality(waiting) + Cardinality(channel)
      /\ Cardinality((waiting \cup channel) \cup buffer)
           <= Cardinality(waiting \cup channel) + Cardinality(buffer)
  BY <1>1, SharesUnion
<1>3. /\ Cardinality(waiting) \in Nat /\ Cardinality(channel) \in Nat
      /\ Cardinality(buffer) \in Nat /\ Cardinality(waiting \cup channel) \in Nat
      /\ Cardinality((waiting \cup channel) \cup buffer) \in Nat
  BY <1>1, SharesFinite
<1>4. /\ Cardinality(waiting) <= Connections /\ Cardinality(channel) <= Capacity
      /\ Cardinality(buffer) <= BatchSize
  BY DEF BatcherTypeOK
<1>5. Connections \in Nat /\ Capacity \in Nat /\ BatchSize \in Nat
  BY BatcherAssumption
<1> QED BY <1>1, <1>2, <1>3, <1>4, <1>5 DEF InHand, MemoryRoom

-----------------------------------------------------------------------------
(* The invariant.                                                          *)

\* The empty memory and table satisfy the inductive invariant.
LEMMA BatcherInitIInv == BatcherInit => BatcherIInv
<1> SUFFICES ASSUME BatcherInit PROVE BatcherIInv
  OBVIOUS
<1>1. Cardinality({}) = 0
  BY FS_EmptySet
<1>2. Lost = {}
  BY DEF BatcherInit, Lost
<1>3. BatcherTypeOK
  BY <1>1, BatcherAssumption DEF BatcherInit, BatcherTypeOK
<1>4. MemoryRoom \in Nat
  BY BatcherAssumption DEF MemoryRoom
<1>5. LossHasACause
  BY <1>1, <1>2, <1>4 DEF BatcherInit, LossHasACause, MemoryRoom
<1>6. Filling
  BY <1>1, BatcherAssumption DEF BatcherInit, Filling
<1> QED BY <1>3, <1>5, <1>6
         DEF BatcherInit, BatcherIInv, OnePlace, InHand, RowsSoFar, RowsHaveACause

\* What adding or taking one share does to the sizes.
LEMMA OneShare ==
  ASSUME NEW s \in Shares, NEW S \in SUBSET Shares
  PROVE  /\ Cardinality(S) \in Nat
         /\ Cardinality(S \cup {s}) \in Nat /\ Cardinality(S \ {s}) \in Nat
         /\ Cardinality(S \cup {s}) <= Cardinality(S) + 1
         /\ Cardinality(S \ {s}) <= Cardinality(S)
<1>1. S \cup {s} \in SUBSET Shares /\ S \ {s} \in SUBSET S /\ S \ {s} \in SUBSET Shares
  OBVIOUS
<1>2. /\ Cardinality(S) \in Nat /\ Cardinality(S \cup {s}) \in Nat
      /\ Cardinality(S \ {s}) \in Nat
  BY <1>1, SharesFinite
<1>3. Cardinality(S \cup {s}) <= Cardinality(S) + 1
  BY SharesAdd
<1>4. Cardinality(S \ {s}) <= Cardinality(S)
  BY <1>1, SharesSubset
<1> QED BY <1>2, <1>3, <1>4

\* The sizes stay within their bounds.
LEMMA BatcherTypeStep ==
  ASSUME BatcherTypeOK, Filling, [BatcherNext]_batcherVars
  PROVE  BatcherTypeOK' /\ Filling'
<1> USE DEF BatcherTypeOK, Filling
<1>1. Connections \in Nat /\ Capacity \in Nat /\ BatchSize \in Nat /\ BatchSize > 0
  BY BatcherAssumption
<1>2. Cardinality({}) = 0
  BY FS_EmptySet
<1>3. \A S \in SUBSET Shares : Written(S) \in [Shares -> Nat]
  BY DEF Written
<1>4. ASSUME NEW s \in Shares, Answer(s) PROVE BatcherTypeOK' /\ Filling'
  <2>1. /\ Cardinality(waiting) \in Nat /\ Cardinality(waiting \cup {s}) \in Nat
        /\ Cardinality(waiting \ {s}) \in Nat
        /\ Cardinality(waiting \cup {s}) <= Cardinality(waiting) + 1
        /\ Cardinality(waiting \ {s}) <= Cardinality(waiting)
    BY OneShare
  <2> QED BY <1>1, <1>4, <2>1 DEF Answer
<1>5. ASSUME NEW s \in Shares, Submit(s) PROVE BatcherTypeOK' /\ Filling'
  <2>1. /\ Cardinality(waiting) \in Nat /\ Cardinality(waiting \cup {s}) \in Nat
        /\ Cardinality(waiting \ {s}) \in Nat
        /\ Cardinality(waiting \cup {s}) <= Cardinality(waiting) + 1
        /\ Cardinality(waiting \ {s}) <= Cardinality(waiting)
        /\ Cardinality(channel) \in Nat /\ Cardinality(channel \cup {s}) \in Nat
        /\ Cardinality(channel \ {s}) \in Nat
        /\ Cardinality(channel \cup {s}) <= Cardinality(channel) + 1
        /\ Cardinality(channel \ {s}) <= Cardinality(channel)
    BY OneShare
  <2> QED BY <1>1, <1>5, <2>1 DEF Submit
<1>6. ASSUME NEW s \in Shares, Receive(s) PROVE BatcherTypeOK' /\ Filling'
  <2>1. /\ Cardinality(channel) \in Nat /\ Cardinality(channel \cup {s}) \in Nat
        /\ Cardinality(channel \ {s}) \in Nat
        /\ Cardinality(channel \cup {s}) <= Cardinality(channel) + 1
        /\ Cardinality(channel \ {s}) <= Cardinality(channel)
        /\ Cardinality(buffer) \in Nat /\ Cardinality(buffer \cup {s}) \in Nat
        /\ Cardinality(buffer \ {s}) \in Nat
        /\ Cardinality(buffer \cup {s}) <= Cardinality(buffer) + 1
        /\ Cardinality(buffer \ {s}) <= Cardinality(buffer)
    BY OneShare
  <2> QED BY <1>1, <1>6, <2>1 DEF Receive
<1>7. ASSUME NEW s \in Shares, SingleInsert(s) PROVE BatcherTypeOK' /\ Filling'
  <2>1. /\ Cardinality(buffer) \in Nat /\ Cardinality(buffer \cup {s}) \in Nat
        /\ Cardinality(buffer \ {s}) \in Nat
        /\ Cardinality(buffer \cup {s}) <= Cardinality(buffer) + 1
        /\ Cardinality(buffer \ {s}) <= Cardinality(buffer)
    BY OneShare
  <2>2. rows' \in [Shares -> Nat] /\ Written({s}) \in [Shares -> Nat]
    BY <1>3, <1>7 DEF SingleInsert
  <2> QED BY <1>1, <1>2, <1>7, <2>1, <2>2 DEF SingleInsert
<1>8. CASE Tick
  BY <1>8 DEF Tick
<1>9. CASE BatchInsert
  BY <1>1, <1>2, <1>3, <1>9 DEF BatchInsert
<1>10. CASE Crash
  BY <1>1, <1>2, <1>10, BatcherAssumption DEF Crash
<1>11. CASE UNCHANGED batcherVars
  BY <1>11 DEF batcherVars
<1> QED BY <1>4, <1>5, <1>6, <1>7, <1>8, <1>9, <1>10, <1>11 DEF BatcherNext, Flusher

\* Shares stay in one place, and rows follow the place.
LEMMA RowStep ==
  ASSUME BatcherTypeOK, OnePlace, RowsSoFar, RowsHaveACause, [BatcherNext]_batcherVars
  PROVE  OnePlace' /\ RowsSoFar' /\ RowsHaveACause'
<1> USE DEF BatcherTypeOK, OnePlace, InHand, RowsSoFar, RowsHaveACause
<1>1. ASSUME NEW s \in Shares, Answer(s) PROVE OnePlace' /\ RowsSoFar' /\ RowsHaveACause'
  BY <1>1 DEF Answer
<1>2. ASSUME NEW s \in Shares, Submit(s) PROVE OnePlace' /\ RowsSoFar' /\ RowsHaveACause'
  BY <1>2 DEF Submit
<1>3. ASSUME NEW s \in Shares, Receive(s) PROVE OnePlace' /\ RowsSoFar' /\ RowsHaveACause'
  BY <1>3 DEF Receive
<1>4. ASSUME NEW s \in Shares, SingleInsert(s)
      PROVE  OnePlace' /\ RowsSoFar' /\ RowsHaveACause'
  BY <1>4 DEF SingleInsert, Written
<1>5. CASE Tick
  BY <1>5 DEF Tick
<1>6. CASE BatchInsert
  BY <1>6 DEF BatchInsert, Written
<1>7. CASE Crash
  BY <1>7 DEF Crash
<1>8. CASE UNCHANGED batcherVars
  BY <1>8 DEF batcherVars
<1> QED BY <1>1, <1>2, <1>3, <1>4, <1>5, <1>6, <1>7, <1>8 DEF BatcherNext, Flusher

\* Nothing is lost but by a failing statement, one share, or by a crash, which
\* loses no more than there is in memory.
LEMMA LossStep ==
  ASSUME BatcherIInv, [BatcherNext]_batcherVars
  PROVE  LossHasACause'
<1> USE DEF BatcherIInv
<1>1. /\ waiting \in SUBSET Shares /\ channel \in SUBSET Shares
      /\ buffer \in SUBSET Shares /\ answered \in SUBSET Shares
      /\ rows \in [Shares -> Nat] /\ failures \in Nat /\ crashes \in Nat
  BY DEF BatcherTypeOK
<1>2. BatcherTypeOK'
  BY BatcherTypeStep
<1>3. /\ MemoryRoom \in Nat /\ crashes * MemoryRoom \in Nat
      /\ (crashes + 1) * MemoryRoom = crashes * MemoryRoom + MemoryRoom
  <2>1. MemoryRoom \in Nat
    BY BatcherAssumption DEF MemoryRoom
  <2> QED BY <1>1, <2>1
<1>4. Lost \in SUBSET Shares /\ Lost' \in SUBSET Shares
  BY <1>1, <1>2 DEF Lost, BatcherTypeOK
<1>5. Cardinality(Lost) \in Nat /\ Cardinality(Lost') \in Nat
  BY <1>4, SharesFinite
<1>6. Cardinality(Lost) <= failures + crashes * MemoryRoom
  BY DEF LossHasACause, MemoryRoom
<1>7. CASE Lost' \subseteq Lost /\ UNCHANGED crashes /\ failures' \in {failures, failures + 1}
  <2>1. Cardinality(Lost') <= Cardinality(Lost)
    BY <1>4, <1>7, SharesSubset
  <2> QED BY <1>1, <1>3, <1>5, <1>6, <1>7, <2>1 DEF LossHasACause, MemoryRoom
<1>8. ASSUME NEW s \in Shares, Answer(s) PROVE LossHasACause'
  BY <1>1, <1>7, <1>8 DEF Answer, Lost, InHand
<1>9. ASSUME NEW s \in Shares, Submit(s) PROVE LossHasACause'
  BY <1>1, <1>7, <1>9 DEF Submit, Lost, InHand
<1>10. ASSUME NEW s \in Shares, Receive(s) PROVE LossHasACause'
  BY <1>1, <1>7, <1>10 DEF Receive, Lost, InHand
<1>11. ASSUME NEW s \in Shares, SingleInsert(s) PROVE LossHasACause'
  <2>1. CASE rows' = Written({s}) /\ UNCHANGED failures
    BY <1>1, <1>7, <1>11, <2>1 DEF SingleInsert, Written, Lost, InHand
  <2>2. CASE UNCHANGED rows /\ failures' = failures + 1
    <3>1. Lost' \in SUBSET (Lost \cup {s}) /\ Lost \cup {s} \in SUBSET Shares
      BY <1>1, <1>4, <1>11, <2>2 DEF SingleInsert, Lost, InHand
    <3>2. Cardinality(Lost') <= Cardinality(Lost \cup {s})
      BY <3>1, SharesSubset
    <3>3. /\ Cardinality(Lost \cup {s}) <= Cardinality(Lost) + 1
          /\ Cardinality(Lost \cup {s}) \in Nat
      BY <1>4, <3>1, SharesAdd, SharesFinite
    <3>4. UNCHANGED crashes
      BY <1>11 DEF SingleInsert
    <3> QED BY <1>1, <1>3, <1>5, <1>6, <2>2, <3>2, <3>3, <3>4
             DEF LossHasACause, MemoryRoom
  <2> QED BY <1>11, <2>1, <2>2 DEF SingleInsert
<1>12. CASE Tick
  BY <1>1, <1>7, <1>12 DEF Tick, Lost, InHand
<1>13. CASE BatchInsert
  BY <1>1, <1>7, <1>13 DEF BatchInsert, Written, Lost, InHand
<1>14. CASE Crash
  <2>1. Lost' \in SUBSET (Lost \cup InHand) /\ Lost \cup InHand \in SUBSET Shares
    BY <1>1, <1>4, <1>14 DEF Crash, Lost, InHand
  <2>2. Cardinality(Lost') <= Cardinality(Lost \cup InHand)
    BY <2>1, SharesSubset
  <2>3. InHand \in SUBSET Shares /\ Cardinality(InHand) <= MemoryRoom
    BY InHandBound
  <2>4. Cardinality(Lost \cup InHand) <= Cardinality(Lost) + Cardinality(InHand)
    BY <1>4, <2>3, SharesUnion
  <2>5. Cardinality(InHand) \in Nat /\ Cardinality(Lost \cup InHand) \in Nat
    BY <2>1, <2>3, SharesFinite
  <2>6. crashes' = crashes + 1 /\ UNCHANGED failures
    BY <1>14 DEF Crash
  <2> QED BY <1>1, <1>3, <1>5, <1>6, <2>2, <2>3, <2>4, <2>5, <2>6
          DEF LossHasACause, MemoryRoom
<1>15. CASE UNCHANGED batcherVars
  BY <1>1, <1>7, <1>15 DEF batcherVars, Lost, InHand
<1> QED BY <1>8, <1>9, <1>10, <1>11, <1>12, <1>13, <1>14, <1>15 DEF BatcherNext, Flusher

-----------------------------------------------------------------------------
(* The theorems.                                                           *)

\* BatcherIInv is an invariant of the batcher.
THEOREM BatcherInductive == BatcherSpec => []BatcherIInv
<1>1. BatcherIInv /\ [BatcherNext]_batcherVars => BatcherIInv'
  <2> SUFFICES ASSUME BatcherIInv, [BatcherNext]_batcherVars PROVE BatcherIInv'
    OBVIOUS
  <2>1. BatcherTypeOK' /\ Filling'
    BY BatcherTypeStep DEF BatcherIInv
  <2>2. OnePlace' /\ RowsSoFar' /\ RowsHaveACause'
    BY RowStep DEF BatcherIInv
  <2>3. LossHasACause'
    BY LossStep
  <2> QED BY <2>1, <2>2, <2>3 DEF BatcherIInv
<1> QED BY <1>1, BatcherInitIInv, PTL DEF BatcherSpec

\* The channel and the buffer never exceed their sizes (db.rs:22, 55).
THEOREM BatcherTypeCorrect == BatcherSpec => []BatcherTypeOK
<1>1. BatcherIInv => BatcherTypeOK
  BY DEF BatcherIInv
<1> QED BY <1>1, BatcherInductive, PTL

\* A second row needs a batch whose answer was lost, and there is no third.
THEOREM RowsExplained == BatcherSpec => []RowsHaveACause
<1>1. BatcherIInv => RowsHaveACause
  BY DEF BatcherIInv
<1> QED BY <1>1, BatcherInductive, PTL

\* Lost shares are paid for by failed statements and by crashes.
THEOREM LossExplained == BatcherSpec => []LossHasACause
<1>1. BatcherIInv => LossHasACause
  BY DEF BatcherIInv
<1> QED BY <1>1, BatcherInductive, PTL
=============================================================================

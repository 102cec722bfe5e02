------------------------------ MODULE Vardiff ------------------------------
(***************************************************************************)
(* The difficulty of one client: what the pool asks of it, what the client *)
(* was told, and the retargeting (stratum/vardiff.rs) with the requests    *)
(* that set the difficulty past it (stratum/server.rs).  Clients share no  *)
(* part of this.  A handler does one request at a time.                    *)
(*                                                                         *)
(* A difficulty is the exponent of a power of 2, so that a ratio is a      *)
(* difference: the clamp 0.25x-4x is 2 up or down, and the band around 1   *)
(* that leaves the difficulty alone is a difference of 0.                  *)
(***************************************************************************)
EXTENDS Integers, Sequences

CONSTANTS
  MinDiff, MaxDiff,  \* min_difficulty, max_difficulty
  Starts,            \* difficulties of the ports
  Ideals,            \* difficulties at which a miner may find a share every
                     \*   target_time
  RetargetShares,    \* retarget_shares (12)
  OutboxSize,        \* slots of a client's write queue (64)
  Other,             \* a message that is no mining.set_difficulty
  Lucks,             \* how far the average of a window may stray; 0 is a
                     \*   steady miner
  BurstGap,          \* how far below the ideal a window takes no millisecond
  MaxSuggests        \* bound: mining.suggest_difficulty requests

Diffs == MinDiff .. MaxDiff

ASSUME VardiffAssumption ==
  /\ MinDiff \in Int /\ MaxDiff \in Int
  /\ Starts \subseteq Diffs /\ Ideals \subseteq Int
  /\ {RetargetShares, OutboxSize, BurstGap} \subseteq Nat \ {0}
  /\ Lucks \subseteq Nat /\ MaxSuggests \in Nat
  /\ Other \notin Diffs

VARIABLES
  vardiff,  \* vardiff_enabled of the port
  ideal,    \* the miner's speed (external)
  luck,     \* and how much its windows stray (external)
  actual,   \* difficulty_bits: what shares are held to
  vd,       \* VardiffState::difficulty
  shares,   \* VardiffState::share_count
  span,     \* difficulties the shares of this window were found at
  outbox,   \* the write queue
  told,     \* the difficulty the miner heard of last
  dropped,  \* history: the last set_difficulty found the write queue full
  suggests  \* history

minerVars == <<vardiff, ideal, luck>>
vardiffVars == <<minerVars, actual, vd, shares, span, outbox, told, dropped, suggests>>

Larger(a, b) == IF a >= b THEN a ELSE b
Smaller(a, b) == IF a <= b THEN a ELSE b
Clamp(x, lo, hi) == Smaller(Larger(x, lo), hi)

VardiffTypeOK ==
  /\ vardiff \in BOOLEAN /\ ideal \in Ideals /\ luck \in Lucks
  /\ actual \in Diffs /\ vd \in Diffs /\ told \in Diffs
  /\ shares \in 0 .. RetargetShares - 1
  /\ span \subseteq Diffs /\ (span = {} <=> shares = 0)
  /\ outbox \in Seq(Diffs \cup {Other}) /\ Len(outbox) <= OutboxSize
  /\ dropped \in BOOLEAN
  /\ suggests \in 0 .. MaxSuggests

\* A connection that has subscribed and read the answer.
VardiffInit ==
  /\ vardiff \in BOOLEAN /\ ideal \in Ideals /\ luck \in Lucks
  /\ actual \in Starts /\ vd = actual /\ told = actual
  /\ shares = 0 /\ span = {}
  /\ outbox = <<>> /\ dropped = FALSE /\ suggests = 0

-----------------------------------------------------------------------------
(* The write queue.                                                        *)

\* Mutant: one message more than there are slots.
MutRoom(box) == Len(box) <= OutboxSize

\* client.send: a message that finds no room is dropped, and nobody looks.
Room(box) == Len(box) < OutboxSize

Push(box, msg) == IF Room(box) THEN Append(box, msg) ELSE box

\* Mutant: nothing is sent.
MutSetDifficulty(d, box) ==
  /\ actual' = d
  /\ outbox' = box
  /\ dropped' = FALSE

\* The client is held to difficulty d and told of it, after the messages of
\* box.
SetDifficulty(d, box) ==
  /\ actual' = d
  /\ outbox' = Push(box, d)
  /\ dropped' = ~Room(box)

\* The writer task.
Deliver ==
  /\ outbox # <<>>
  /\ outbox' = Tail(outbox)
  /\ told' = IF Head(outbox) = Other THEN told ELSE Head(outbox)
  /\ UNCHANGED <<minerVars, actual, vd, shares, span, dropped, suggests>>

\* Any other answer or notification, a refused share's among them.
Respond ==
  /\ outbox' = Push(outbox, Other)
  /\ UNCHANGED <<minerVars, actual, vd, shares, span, told, dropped, suggests>>

\* mining.subscribe and login: the current difficulty is sent again.
Announce ==
  /\ SetDifficulty(actual, Push(outbox, Other))
  /\ UNCHANGED <<minerVars, vd, shares, span, told, suggests>>

\* What a miner may suggest, past either bound too.
Suggestions == MinDiff - 1 .. MaxDiff + 1

\* mining.suggest_difficulty, on any port; the state of vardiff is not told.
Suggest(d) ==
  /\ suggests < MaxSuggests
  /\ suggests' = suggests + 1
  /\ SetDifficulty(Clamp(d, MinDiff, MaxDiff), outbox)
  /\ UNCHANGED <<minerVars, vd, shares, span, told>>

-----------------------------------------------------------------------------
(* A valid share: VardiffState::on_share.                                  *)

\* A share is counted if it meets what the pool asks, and sent if it meets
\* what the miner was told.
FoundAt == Larger(told, actual)
Window == span \cup {FoundAt}

\* Averages the window may come to: avg_time / target_time.
Ratios == UNION {w[1] - ideal - luck .. w[2] - ideal + luck : w \in Window \X Window}

\* Mutant: the ratio is applied the wrong way round.
MutInverseDiff(r) == Clamp(vd + Clamp(r, -2, 2), MinDiff, MaxDiff)

NewDiff(r) == Clamp(vd - Clamp(r, -2, 2), MinDiff, MaxDiff)

\* The window is not full yet, or the port has no vardiff.
Count ==
  /\ IF vardiff
       THEN /\ shares + 1 < RetargetShares
            /\ shares' = shares + 1 /\ span' = Window
       ELSE UNCHANGED <<shares, span>>
  /\ outbox' = Push(outbox, Other)
  /\ UNCHANGED <<actual, vd, dropped>>

ResetWindow == shares' = 0 /\ span' = {}

\* A window of less than a millisecond is thrown away.
Burst ==
  /\ vardiff /\ shares + 1 = RetargetShares
  /\ \A d \in Window : d - ideal <= -BurstGap
  /\ ResetWindow
  /\ outbox' = Push(outbox, Other)
  /\ UNCHANGED <<actual, vd, dropped>>

Retarget(r) ==
  /\ vardiff /\ shares + 1 = RetargetShares
  /\ ResetWindow
  /\ IF NewDiff(r) = vd
       THEN /\ outbox' = Push(outbox, Other)
            /\ UNCHANGED <<actual, vd, dropped>>
       ELSE /\ vd' = NewDiff(r)
            /\ SetDifficulty(NewDiff(r), Push(outbox, Other))

Share == /\ Count \/ Burst \/ \E r \in Ratios : Retarget(r)
         /\ UNCHANGED <<minerVars, told, suggests>>

VardiffNext == \/ Deliver \/ Respond \/ Announce \/ Share
               \/ \E d \in Suggestions : Suggest(d)

VardiffSpec == VardiffInit /\ [][VardiffNext]_vardiffVars

\* The peer reads, and its miner goes on mining.
VardiffFairSpec == VardiffSpec /\ WF_vardiffVars(Deliver) /\ WF_vardiffVars(Share)

-----------------------------------------------------------------------------
(* Properties.                                                             *)

\* The miner works at the difficulty it is held to, or the message that says
\* so is on its way, or was dropped by a full queue (client.rs:124-127).
ToldHasACause ==
  told = actual \/ dropped \/ \E i \in 1 .. Len(outbox) : outbox[i] = actual

\* A steady miner is brought to its ideal difficulty and left there, unless it
\* is pinned: at a bound, on a difficulty it suggested itself, on one it has
\* not heard of, or on one it fills windows at in less than a millisecond.
SettlesOrPinned ==
  <>[](vardiff /\ luck = 0 =>
         \/ actual = Clamp(ideal, MinDiff, MaxDiff)
         \/ actual # vd /\ vd \in {MinDiff, MaxDiff}
         \/ told # actual
         \/ FoundAt - ideal <= -BurstGap)
=============================================================================

---------------------------- MODULE Connections ----------------------------
(***************************************************************************)
(* The life of a stratum connection (handle_connection, stratum/server.rs):*)
(* the count per IP address, the extranonce1 from the global counter, the  *)
(* read timeout and the cleanup.  Every connection is a task of its own;   *)
(* between any two of the steps below others may run.  A connection is in  *)
(* the map of clients while its place is "open".                           *)
(***************************************************************************)
EXTENDS Naturals, FiniteSets

CONSTANTS
  Conns,      \* connections of a behaviour
  Addresses,  \* IP addresses
  IpOf,       \* IpOf[c]: the address connection c comes from
  Limit,      \* max_connections_per_ip
  Width       \* values of the extranonce1 counter (2^32)

ASSUME ConstantsAssumption ==
  /\ IsFiniteSet(Conns) /\ IpOf \in [Conns -> Addresses]
  /\ {Limit, Width} \subseteq Nat \ {0}

VARIABLES
  pc,         \* where the task of each connection is
  entries,    \* addresses with an entry in ip_connections
  count,      \* what the entry holds, 0 without one
  nextExtra,  \* extranonce1_counter
  extra,      \* extranonce1 of a connection
  silent,     \* connections whose peer sends nothing any more
  wiped       \* history: counts thrown away with an entry, per address

vars == <<pc, entries, count, nextExtra, extra, silent, wiped>>

Places == {"new", "counted", "open", "uncount", "remove", "closed"}

At(a, places) == {c \in Conns : IpOf[c] = a /\ pc[c] \in places}
Live(a) == At(a, {"counted", "open", "uncount"})
Registered == {c \in Conns : pc[c] \in {"open", "uncount", "remove"}}

TypeOK ==
  /\ pc \in [Conns -> Places]
  /\ entries \subseteq Addresses
  /\ count \in [Addresses -> 0 .. Limit]
  /\ nextExtra \in Nat
  /\ extra \in [Conns -> 0 .. Width - 1]
  /\ silent \subseteq Conns
  /\ wiped \in [Addresses -> Nat]

Init ==
  /\ pc = [c \in Conns |-> "new"]
  /\ entries = {} /\ count = [a \in Addresses |-> 0]
  /\ nextExtra = 1 /\ extra = [c \in Conns |-> 0]
  /\ silent = {} /\ wiped = [a \in Addresses |-> 0]

Goto(c, place) == pc' = [pc EXCEPT ![c] = place]

-----------------------------------------------------------------------------
(* Opening.                                                                *)

\* Mutant: one connection too many.
MutLimitReached(a) == count[a] > Limit

LimitReached(a) == count[a] >= Limit

\* Mutant: a connection that is turned away goes through the cleanup.
MutAdmit(c) ==
  LET a == IpOf[c] IN
  /\ pc[c] = "new"
  /\ entries' = entries \cup {a}
  /\ IF LimitReached(a)
       THEN Goto(c, "uncount") /\ UNCHANGED count
       ELSE Goto(c, "counted") /\ count' = [count EXCEPT ![a] = @ + 1]
  /\ UNCHANGED <<nextExtra, extra, silent, wiped>>

\* The limit is checked and the count raised under the entry's lock.
Admit(c) ==
  LET a == IpOf[c] IN
  /\ pc[c] = "new"
  /\ entries' = entries \cup {a}
  /\ IF LimitReached(a)
       THEN Goto(c, "closed") /\ UNCHANGED count
       ELSE Goto(c, "counted") /\ count' = [count EXCEPT ![a] = @ + 1]
  /\ UNCHANGED <<nextExtra, extra, silent, wiped>>

\* extranonce1_counter.fetch_add, which wraps, and the map of clients.
Register(c) ==
  /\ pc[c] = "counted"
  /\ extra' = [extra EXCEPT ![c] = nextExtra % Width]
  /\ nextExtra' = nextExtra + 1
  /\ Goto(c, "open")
  /\ UNCHANGED <<entries, count, silent, wiped>>

-----------------------------------------------------------------------------
(* Closing.                                                                *)

\* The peer stops sending without closing the connection (external).
FallSilent(c) ==
  /\ pc[c] = "open" /\ c \notin silent
  /\ silent' = silent \cup {c}
  /\ UNCHANGED <<pc, entries, count, nextExtra, extra, wiped>>

\* The reader ends: end of file, a read error, too many bad shares.
Leave(c) ==
  /\ pc[c] = "open"
  /\ Goto(c, "uncount")
  /\ UNCHANGED <<entries, count, nextExtra, extra, silent, wiped>>

\* Mutant: after a timeout the reader waits for the next line.
MutTimeOut(c) == c \in silent /\ pc[c] = "open" /\ UNCHANGED vars

\* connection_timeout_secs without a line.
TimeOut(c) == c \in silent /\ Leave(c)

\* Mutant: only the last connection of an address is counted down.
MutUncount(c) ==
  LET a == IpOf[c] IN
  /\ pc[c] = "uncount"
  /\ Goto(c, IF a \in entries /\ count[a] <= 1 THEN "remove" ELSE "closed")
  /\ count' = [count EXCEPT ![a] = IF @ <= 1 THEN 0 ELSE @]
  /\ UNCHANGED <<entries, nextExtra, extra, silent, wiped>>

\* get_mut and saturating_sub; the entry is let go of before it is removed.
Uncount(c) ==
  LET a == IpOf[c] IN
  /\ pc[c] = "uncount"
  /\ Goto(c, IF a \in entries /\ count[a] <= 1 THEN "remove" ELSE "closed")
  /\ count' = [count EXCEPT ![a] = IF @ = 0 THEN 0 ELSE @ - 1]
  /\ UNCHANGED <<entries, nextExtra, extra, silent, wiped>>

\* ip_connections.remove, whatever the entry holds by now.
Remove(c) ==
  LET a == IpOf[c] IN
  /\ pc[c] = "remove"
  /\ wiped' = [wiped EXCEPT ![a] = @ + count[a]]
  /\ count' = [count EXCEPT ![a] = 0]
  /\ entries' = entries \ {a}
  /\ Goto(c, "closed")
  /\ UNCHANGED <<nextExtra, extra, silent>>

Task(c) == Admit(c) \/ Register(c) \/ TimeOut(c) \/ Uncount(c) \/ Remove(c)

Next == \E c \in Conns : Task(c) \/ Leave(c) \/ FallSilent(c)

Spec == Init /\ [][Next]_vars

\* A task that can run is run, and the timer of the read fires.
FairSpec == Spec /\ \A c \in Conns : WF_vars(Task(c))

-----------------------------------------------------------------------------
(* Properties.                                                             *)

\* An address is never counted for more connections than it has: once they
\* are gone it is admitted again, whatever order their cleanups ran in
\* (server.rs:183-190, 323-331).
NoLockout == \A a \in Addresses : count[a] <= Cardinality(Live(a))

\* Connections that are not counted were lost by removing an entry another
\* connection had just raised (server.rs:328-329).
UncountedHaveACause ==
  \A a \in Addresses : Cardinality(Live(a)) <= count[a] + wiped[a]

\* Two open connections search the same space, with the same extranonce1, only
\* if the counter has wrapped since the first of them (server.rs:194).
SameExtranonceNeedsWrap ==
  \A c, d \in Registered : c # d /\ extra[c] = extra[d] => nextExtra - 1 > Width

\* An address whose connections are closed or have lost their peers without a
\* word is counted down to zero: the read timeout closes them and no order of
\* their cleanups leaves a rest (server.rs:282-298, 323-331).
AddressIsFreed ==
  \A a \in Addresses :
    (\A c \in Conns : IpOf[c] = a => c \in silent \/ pc[c] = "closed")
      ~> count[a] = 0
=============================================================================

------------------------------ MODULE ConfigFile ------------------------------
(***************************************************************************)
(* The admin's edits of config.toml (api/admin.rs) and the pool's start    *)
(* from it (config.rs, main.rs).  The HTTP server has four worker threads; *)
(* each edit reads the whole file, replaces its own line and writes the    *)
(* whole file back, with no lock: between any two of these another edit,   *)
(* or the end of the process, may come.  std::fs::write empties the file   *)
(* before it fills it.  The running pool keeps the configuration it was    *)
(* started with.                                                           *)
(*                                                                         *)
(* The file is its four editable lines; the others are copied unchanged.   *)
(* A value is what the handler has left of it after trim(): it is written  *)
(* as it is, between quotes but for the fee, and the start makes of it     *)
(* what TOML reads there.  No value says anything about another line.      *)
(***************************************************************************)
EXTENDS Naturals

CONSTANTS
  Edits,        \* the POST requests of a behaviour
  Wants,        \* what they may ask: a line, a value, the X-Admin-Key sent
  Values,       \* what a line may hold
  Initial,      \* the lines the pool is installed with
  OutOfRange,   \* values the handler refuses: too short, too long, > 100
  Unquotable,   \* values that are no TOML between quotes: a quote, a bad escape
  Decoded,      \* what TOML reads of a value between quotes: escapes are resolved
  Unsendable,   \* values no X-Admin-Key header brings as text: not plain ASCII
  NoAddress,    \* values the parent daemon rejects as an address
  Missing,      \* no such line
  NoEdit,       \* "none"
  MaxFaults     \* bound: failing file operations and ends of the process

Lines == {"fee_percent", "pool_address", "reward_address", "admin_key"}
Want == [line : Lines, value : Values, key : Values]

ASSUME ConstantsAssumption ==
  /\ Wants \subseteq Want
  /\ Initial \in [Lines -> Values]
  /\ Decoded \in [Values -> Values]
  /\ \A l \in Lines : Initial[l] \notin OutOfRange \cup Unquotable
  /\ Decoded[Initial["pool_address"]] \notin NoAddress
  /\ \A w \in Wants : w.line = "fee_percent" => w.value \notin Unquotable
  /\ Missing \notin Values /\ NoEdit \notin Edits /\ MaxFaults \in Nat

VARIABLES
  want,       \* the body and header of each request
  file,       \* config.toml: its lines, and whether a rest of another text follows
  running,    \* the configuration in memory
  up,         \* the process runs
  pc,         \* where each handler is
  seen,       \* the text each handler has read
  reply,      \* what it answered
  last,       \* history: the last edit written, per line
  disturbed,  \* history: edits that shared the file with another, or with a fault
  fresh,      \* history: edits answered since the pool was started
  faults      \* history: what went wrong

vars == <<want, file, running, up, pc, seen, reply, last, disturbed, fresh, faults>>

Text == [Lines -> Values \cup {Missing}]
File == [lines : Text, rest : BOOLEAN]
Nothing == [lines |-> [l \in Lines |-> Missing], rest |-> FALSE]

\* What Config::load puts in memory; the fee is a number and has no quotes.
Loaded(lines) ==
  [l \in Lines |-> IF l = "fee_percent" \/ lines[l] = Missing
                     THEN lines[l] ELSE Decoded[lines[l]]]

\* A handler between its read and its write.
Open == {e \in Edits : pc[e] \in {"truncate", "fill"}}
Acknowledged == {e \in Edits : reply[e] = "ok"}

TypeOK ==
  /\ want \in [Edits -> Wants]
  /\ file \in File /\ running \in Text /\ up \in BOOLEAN
  /\ pc \in [Edits -> {"idle", "read", "truncate", "fill", "done"}]
  /\ seen \in [Edits -> File]
  /\ reply \in [Edits -> {"none", "unauthorized", "refused", "error", "ok"}]
  /\ \A e \in Edits : reply[e] # "none" => pc[e] = "done"
  /\ last \in [Lines -> Edits \cup {NoEdit}]
  /\ disturbed \subseteq Edits /\ fresh \subseteq Acknowledged
  /\ faults \in 0 .. MaxFaults

Init ==
  /\ want \in [Edits -> Wants]
  /\ file = [lines |-> Initial, rest |-> FALSE]
  /\ running = Loaded(Initial) /\ up = TRUE
  /\ pc = [e \in Edits |-> "idle"]
  /\ seen = [e \in Edits |-> Nothing]
  /\ reply = [e \in Edits |-> "none"]
  /\ last = [l \in Lines |-> NoEdit]
  /\ disturbed = {} /\ fresh = {} /\ faults = 0

-----------------------------------------------------------------------------
(* One edit: update_fee, update_pool_address, update_reward_address or     *)
(* update_password.                                                        *)

Goto(e, place) == pc' = [pc EXCEPT ![e] = place]

Answer(e, what) == /\ Goto(e, "done")
                   /\ reply' = [reply EXCEPT ![e] = what]

Fault == faults < MaxFaults /\ faults' = faults + 1

\* Mutant: the key is compared with the one of the installation.
MutCheckAdmin(e) == want[e].key = Decoded[Initial["admin_key"]]

\* The key sent, if it is text, is compared with the one in memory.
CheckAdmin(e) == want[e].key \notin Unsendable /\ want[e].key = running["admin_key"]

\* Mutant: the value is not looked at.
MutAccepts(e) == TRUE

\* The fee's range, the lengths of addresses and password; no more is checked.
Accepts(e) == want[e].value \notin OutOfRange

\* The request arrives.  The values in memory change at a start only, so these
\* checks may be one step.
Receive(e) ==
  /\ up /\ pc[e] = "idle"
  /\ \/ ~CheckAdmin(e) /\ Answer(e, "unauthorized")
     \/ CheckAdmin(e) /\ ~Accepts(e) /\ Answer(e, "refused")
     \/ CheckAdmin(e) /\ Accepts(e) /\ Goto(e, "read") /\ UNCHANGED reply
  /\ UNCHANGED <<want, file, running, up, seen, last, disturbed, fresh, faults>>

\* The edits whose line must be found; the others answer "ok" without it.
NeedsItsLine == {"pool_address", "reward_address"}

\* Edits that are under way when another one reads share their fate with it,
\* and so does every edit answered before.
SharedBy(e) == IF Open \ {e} = {} THEN {} ELSE Open \cup Acknowledged \cup {e}

\* Mutant: the answer that the line was not found does not end the handler.
MutRead(e) ==
  /\ pc[e] = "read"
  /\ seen' = [seen EXCEPT ![e] = file]
  /\ reply' = [reply EXCEPT ![e] =
        IF want[e].line \in NeedsItsLine /\ file.lines[want[e].line] = Missing
          THEN "error" ELSE @]
  /\ Goto(e, "truncate")
  /\ disturbed' = disturbed \cup SharedBy(e)
  /\ UNCHANGED <<want, file, running, up, last, fresh, faults>>

\* read_to_string, and the search for the line.
Read(e) ==
  /\ pc[e] = "read"
  /\ \/ /\ seen' = [seen EXCEPT ![e] = file]
        /\ IF want[e].line \in NeedsItsLine /\ file.lines[want[e].line] = Missing
             THEN Answer(e, "error") /\ UNCHANGED disturbed
             ELSE /\ Goto(e, "truncate") /\ UNCHANGED reply
                  /\ disturbed' = disturbed \cup SharedBy(e)
        /\ UNCHANGED faults
     \/ Fault /\ Answer(e, "error") /\ UNCHANGED <<seen, disturbed>>
  /\ UNCHANGED <<want, file, running, up, last, fresh>>

\* std::fs::write opens the file and empties it.
Truncate(e) ==
  /\ pc[e] = "truncate"
  /\ \/ /\ file' = Nothing
        /\ Goto(e, "fill")
        /\ UNCHANGED <<reply, faults>>
     \/ Fault /\ Answer(e, "error") /\ UNCHANGED file
  /\ UNCHANGED <<want, running, up, seen, last, disturbed, fresh>>

\* Mutant: the new text is made from the configuration in memory.
MutUpdated(e) == [running EXCEPT ![want[e].line] = want[e].value]

\* The text read, with the line replaced wherever it was found.
Updated(e) ==
  [l \in Lines |->
     IF l = want[e].line /\ seen[e].lines[l] # Missing
       THEN want[e].value ELSE seen[e].lines[l]]

\* A fault in the middle of a write harms every edit answered so far.
Harmed(e) == disturbed' = disturbed \cup Acknowledged \cup {e}

\* The text is written over what the file holds by now, which is nothing or the
\* text of another edit; the end of a longer one stays behind.
Fill(e) ==
  /\ pc[e] = "fill"
  /\ \/ /\ \E rest \in BOOLEAN :
             /\ rest => seen[e].rest \/ file # Nothing
             /\ seen[e].rest => rest
             /\ file' = [lines |-> Updated(e), rest |-> rest]
        /\ Answer(e, "ok")
        /\ last' = [last EXCEPT ![want[e].line] = e]
        /\ fresh' = fresh \cup {e}
        /\ UNCHANGED <<disturbed, faults>>
     \/ Fault /\ Answer(e, "error") /\ Harmed(e) /\ UNCHANGED <<file, last, fresh>>
  /\ UNCHANGED <<want, running, up, seen>>

-----------------------------------------------------------------------------
(* The process.                                                            *)

\* The process ends, for whatever reason, and its handlers with it.
Stop ==
  /\ up /\ Fault
  /\ up' = FALSE
  /\ pc' = [e \in Edits |-> IF pc[e] = "idle" THEN "idle" ELSE "done"]
  /\ disturbed' = IF \E e \in Edits : pc[e] = "fill"
                    THEN disturbed \cup Acknowledged \cup Open ELSE disturbed
  /\ UNCHANGED <<want, file, running, seen, reply, last, fresh>>

\* The text is TOML, has the lines that are no Option, and passes validate.
Loads(f) ==
  /\ ~f.rest
  /\ f.lines["fee_percent"] \notin {Missing} \cup OutOfRange
  /\ f.lines["pool_address"] # Missing
  /\ \A l \in Lines : f.lines[l] \notin Unquotable

\* Config::load, and the daemon's word on the pool address; without either the
\* process exits and is started again.
Startable == Loads(file) /\ Loaded(file.lines)["pool_address"] \notin NoAddress

Start ==
  /\ ~up /\ Startable
  /\ up' = TRUE /\ running' = Loaded(file.lines) /\ fresh' = {}
  /\ UNCHANGED <<want, file, pc, seen, reply, last, disturbed, faults>>

Handler(e) == Receive(e) \/ Read(e) \/ Truncate(e) \/ Fill(e)

Next == (\E e \in Edits : Handler(e)) \/ Stop \/ Start

Spec == Init /\ [][Next]_vars

-----------------------------------------------------------------------------
(* Properties.                                                             *)

\* No handler has emptied the file without filling it yet.
AtRest == \A e \in Edits : pc[e] # "fill"

\* "The file has been updated so the next restart will pick it up."
\* (admin.rs:420-421): the last edit of a line that was answered with success
\* is in the file, unless it shared the file with another edit or a fault, or
\* found the file spoilt, without the line: two of the handlers say "ok" then.
AnsweredEditsLast ==
  AtRest => \A e \in Acknowledged :
    last[want[e].line] = e /\ e \notin disturbed
      => \/ file.lines[want[e].line] = want[e].value
         \/ seen[e].lines[want[e].line] = Missing

\* A file the pool cannot be started from was spoilt by edits that overlapped,
\* by a fault inside a write, or by an answered value that was only measured by
\* its length (admin.rs:473-484, 911-921).
SpoiltHasACause ==
  AtRest /\ ~Startable =>
    \/ disturbed # {}
    \/ \E e \in Acknowledged :
         \/ want[e].value \in Unquotable
         \/ want[e].line = "pool_address" /\ Decoded[want[e].value] \in NoAddress

\* "Use new password on next login." (admin.rs:926): from the next start on, and
\* not before, an answered change of password decides who is let in, unless it
\* shared the file with another edit or a fault.  It lets in whoever sends what
\* TOML makes of the new password, which is written unescaped (admin.rs:920,
\* config.rs:65), and nobody if no header brings that as text (admin.rs:15).
NewKeyWorksAfterStart ==
  [][\A e, f \in Edits :
       /\ last["admin_key"] = e /\ e \notin disturbed \cup fresh
       /\ pc[f] = "idle" /\ pc'[f] # "idle"
       => (reply'[f] # "unauthorized" <=>
             want[f].key = Decoded[want[e].value] /\ want[f].key \notin Unsendable)]_vars
=============================================================================

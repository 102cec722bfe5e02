-------------------------- MODULE ConfigFileProofs --------------------------
(***************************************************************************)
(* What holds of ConfigFile for any edits, values and number of faults.    *)
(***************************************************************************)
EXTENDS ConfigFile, TLAPS

\* What is checked of an edit before its file is read.
Checked ==
  \A e \in Edits :
    pc[e] \in {"read", "truncate", "fill"} \/ reply[e] = "ok"
      => want[e].value \notin OutOfRange

\* Where nobody runs no handler is open; the last edit of a line was answered.
Shape ==
  /\ ~up => \A e \in Edits : pc[e] \in {"idle", "done"}
  /\ \A l \in Lines : last[l] \in Edits =>
       reply[last[l]] = "ok" /\ want[last[l]].line = l

\* Two handlers between read and write disturb each other and all before them.
Overlaps ==
  \A e, f \in Open : e # f => Acknowledged \cup Open \subseteq disturbed

\* Without an overlap the file a handler is to fill is the one it emptied.
Emptied == \A e \in Edits : pc[e] = "fill" /\ e \notin disturbed => file = Nothing

\* A text has all of its lines or none of them.
AllOrNone(text) ==
  \A l \in Lines : text.lines[l] = Missing <=> text.lines["fee_percent"] = Missing
WholeTexts == AllOrNone(file) /\ \A e \in Edits : AllOrNone(seen[e])

\* What the line of edit e is after e has been written.
Left(e) == Updated(e)[want[e].line]

\* An undisturbed edit is in the file, and in the text of whoever has read it
\* since.
Kept(e) ==
  e \in Acknowledged /\ last[want[e].line] = e /\ e \notin disturbed =>
    /\ AtRest => file.lines[want[e].line] = Left(e)
    /\ \A f \in Open : seen[f].lines[want[e].line] = Left(e)
EditsKept == \A e \in Edits : Kept(e)

\* A text the pool can be started from.
Sound(text) == Loads(text) /\ Loaded(text.lines)["pool_address"] \notin NoAddress

\* Nothing has been disturbed, and no value written was only measured.
Clean ==
  /\ disturbed = {}
  /\ \A e \in Acknowledged :
       /\ want[e].value \notin Unquotable
       /\ want[e].line = "pool_address" => Decoded[want[e].value] \notin NoAddress

SoundTexts == Clean => /\ AtRest => Sound(file)
                       /\ \A e \in Open : Sound(seen[e])

\* The key in memory is the last one answered before the start.
KeyKnown ==
  \A e \in Edits : last["admin_key"] = e /\ e \notin disturbed /\ e \notin fresh
    => running["admin_key"] = Decoded[want[e].value]

IInv == /\ TypeOK /\ Checked /\ Shape /\ Overlaps /\ Emptied /\ WholeTexts
        /\ EditsKept /\ SoundTexts /\ KeyKnown

-----------------------------------------------------------------------------
(* Types and shape.                                                        *)

\* The file that holds nothing is a file.
LEMMA NothingIsAText == Nothing \in File
BY DEF Nothing, File, Text

\* What a handler writes is a text.
LEMMA UpdatedIsText ==
  ASSUME TypeOK, NEW e \in Edits
  PROVE  Updated(e) \in Text
<1>1. want[e] \in Want /\ seen[e] \in File
  BY ConstantsAssumption DEF TypeOK
<1> QED  BY <1>1 DEF Updated, Text, File, Want

\* What is loaded of a text is a text.
LEMMA LoadedIsText ==
  ASSUME NEW lines \in Text
  PROVE  Loaded(lines) \in Text
BY ConstantsAssumption DEF Loaded, Text

\* Types are kept by every step.
LEMMA TypeKept == TypeOK /\ [Next]_vars => TypeOK'
<1> SUFFICES ASSUME TypeOK, [Next]_vars PROVE TypeOK'
  OBVIOUS
<1> USE ConstantsAssumption
<1>1. ASSUME NEW e \in Edits, Receive(e) PROVE TypeOK'
  BY <1>1 DEF TypeOK, Receive, Answer, Goto, Acknowledged
<1>2. ASSUME NEW e \in Edits, Read(e) PROVE TypeOK'
  <2>1. disturbed' \subseteq Edits
    BY <1>2 DEF TypeOK, Read, SharedBy, Open, Acknowledged
  <2>2. fresh' \subseteq Acknowledged'
    BY <1>2 DEF TypeOK, Read, Answer, Goto, Acknowledged
  <2>3. faults' \in 0 .. MaxFaults
    BY <1>2 DEF TypeOK, Read, Fault
  <2>4. seen' \in [Edits -> File]
    BY <1>2 DEF TypeOK, Read
  <2> QED  BY <1>2, <2>1, <2>2, <2>3, <2>4 DEF TypeOK, Read, Answer, Goto
<1>3. ASSUME NEW e \in Edits, Truncate(e) PROVE TypeOK'
  <2>1. fresh' \subseteq Acknowledged'
    BY <1>3 DEF TypeOK, Truncate, Answer, Goto, Acknowledged
  <2>2. faults' \in 0 .. MaxFaults
    BY <1>3 DEF TypeOK, Truncate, Fault
  <2> QED  BY <1>3, <2>1, <2>2, NothingIsAText DEF TypeOK, Truncate, Answer, Goto
<1>4. ASSUME NEW e \in Edits, Fill(e) PROVE TypeOK'
  <2>1. file' \in File
    BY <1>4, UpdatedIsText DEF TypeOK, Fill, File
  <2>2. fresh' \subseteq Acknowledged'
    BY <1>4 DEF TypeOK, Fill, Answer, Goto, Acknowledged
  <2>3. faults' \in 0 .. MaxFaults
    BY <1>4 DEF TypeOK, Fill, Fault
  <2>4. disturbed' \subseteq Edits
    BY <1>4 DEF TypeOK, Fill, Harmed, Acknowledged
  <2>5. last' \in [Lines -> Edits \cup {NoEdit}]
    BY <1>4 DEF TypeOK, Fill
  <2> QED  BY <1>4, <2>1, <2>2, <2>3, <2>4, <2>5 DEF TypeOK, Fill, Answer, Goto
<1>5. CASE Stop
  <2>1. disturbed' \subseteq Edits
    BY <1>5 DEF TypeOK, Stop, Open, Acknowledged
  <2>2. faults' \in 0 .. MaxFaults
    BY <1>5 DEF TypeOK, Stop, Fault
  <2> QED  BY <1>5, <2>1, <2>2 DEF TypeOK, Stop, Acknowledged
<1>6. CASE Start
  <2>1. running' \in Text
    BY <1>6, LoadedIsText DEF TypeOK, Start, File
  <2> QED  BY <1>6, <2>1 DEF TypeOK, Start, Acknowledged
<1>7. CASE UNCHANGED vars
  BY <1>7 DEF TypeOK, vars, Acknowledged
<1> QED
  BY <1>1, <1>2, <1>3, <1>4, <1>5, <1>6, <1>7 DEF Next, Handler

\* A handler keeps its place among its checks, its answer and its history.
LEMMA ShapeKept == TypeOK /\ Checked /\ Shape /\ [Next]_vars => Checked' /\ Shape'
<1> SUFFICES ASSUME TypeOK, Checked, Shape, [Next]_vars PROVE Checked' /\ Shape'
  OBVIOUS
<1> USE DEF Checked, Shape
<1>1. ASSUME NEW e \in Edits, Receive(e) PROVE Checked' /\ Shape'
  BY <1>1 DEF TypeOK, Receive, Answer, Goto, Accepts
<1>2. ASSUME NEW e \in Edits, Read(e) PROVE Checked' /\ Shape'
  BY <1>2 DEF TypeOK, Read, Answer, Goto
<1>3. ASSUME NEW e \in Edits, Truncate(e) PROVE Checked' /\ Shape'
  BY <1>3 DEF TypeOK, Truncate, Answer, Goto
<1>4. ASSUME NEW e \in Edits, Fill(e) PROVE Checked' /\ Shape'
  <2>1. want[e].line \in Lines
    BY ConstantsAssumption DEF TypeOK, Want
  <2> QED  BY <1>4, <2>1 DEF TypeOK, Fill, Answer, Goto
<1>5. CASE Stop
  BY <1>5 DEF TypeOK, Stop
<1>6. CASE Start
  BY <1>6 DEF TypeOK, Start
<1>7. CASE UNCHANGED vars
  BY <1>7 DEF vars
<1> QED
  BY <1>1, <1>2, <1>3, <1>4, <1>5, <1>6, <1>7 DEF Next, Handler

-----------------------------------------------------------------------------
(* Overlapping handlers.                                                   *)

\* Two handlers that hold the file at once have both been marked.
LEMMA OverlapsKept == TypeOK /\ Overlaps /\ [Next]_vars => Overlaps'
<1> SUFFICES ASSUME TypeOK, Overlaps, [Next]_vars PROVE Overlaps'
  OBVIOUS
<1>1. ASSUME NEW e \in Edits, Receive(e) PROVE Overlaps'
  <2>1. Open' = Open /\ Acknowledged' = Acknowledged
    BY <1>1 DEF TypeOK, Receive, Answer, Goto, Open, Acknowledged
  <2> QED  BY <1>1, <2>1 DEF Overlaps, Receive
<1>2. ASSUME NEW e \in Edits, Read(e) PROVE Overlaps'
  <2>1. Acknowledged' = Acknowledged /\ Open \ {e} = Open
    BY <1>2 DEF TypeOK, Read, Answer, Goto, Open, Acknowledged
  <2>2. CASE pc'[e] = "truncate"
    <3>1. Open' = Open \cup {e} /\ disturbed' = disturbed \cup SharedBy(e)
      BY <1>2, <2>2 DEF TypeOK, Read, Answer, Goto, Open
    <3>2. CASE Open = {}
      BY <3>1, <3>2 DEF Overlaps
    <3>3. CASE Open # {}
      BY <2>1, <3>1, <3>3 DEF Overlaps, SharedBy
    <3> QED  BY <3>2, <3>3
  <2>3. CASE pc'[e] # "truncate"
    <3>1. Open' = Open /\ disturbed' = disturbed
      BY <1>2, <2>3 DEF TypeOK, Read, Answer, Goto, Open
    <3> QED  BY <2>1, <3>1 DEF Overlaps
  <2> QED  BY <2>2, <2>3
<1>3. ASSUME NEW e \in Edits, Truncate(e) PROVE Overlaps'
  <2>1. Open' \subseteq Open /\ Acknowledged' = Acknowledged
    BY <1>3 DEF TypeOK, Truncate, Answer, Goto, Open, Acknowledged
  <2> QED  BY <1>3, <2>1 DEF Overlaps, Truncate
<1>4. ASSUME NEW e \in Edits, Fill(e) PROVE Overlaps'
  <2>1. /\ e \in Open /\ Open' = Open \ {e}
        /\ Acknowledged' \subseteq Acknowledged \cup {e}
        /\ disturbed \subseteq disturbed'
    BY <1>4 DEF TypeOK, Fill, Answer, Goto, Open, Acknowledged, Harmed
  <2> QED  BY <2>1 DEF Overlaps
<1>5. CASE Stop
  BY <1>5 DEF TypeOK, Stop, Open, Overlaps
<1>6. CASE Start
  BY <1>6 DEF Start, Open, Acknowledged, Overlaps
<1>7. CASE UNCHANGED vars
  BY <1>7 DEF vars, Open, Acknowledged, Overlaps
<1> QED
  BY <1>1, <1>2, <1>3, <1>4, <1>5, <1>6, <1>7 DEF Next, Handler

\* A handler that has emptied the file is the only one open, or disturbed.
LEMMA EmptiedKept == TypeOK /\ Overlaps /\ Emptied /\ [Next]_vars => Emptied'
<1> SUFFICES ASSUME TypeOK, Overlaps, Emptied, [Next]_vars PROVE Emptied'
  OBVIOUS
<1>1. ASSUME NEW e \in Edits, Receive(e) PROVE Emptied'
  BY <1>1 DEF TypeOK, Receive, Answer, Goto, Emptied
<1>2. ASSUME NEW e \in Edits, Read(e) PROVE Emptied'
  BY <1>2 DEF TypeOK, Read, Answer, Goto, Emptied
<1>3. ASSUME NEW e \in Edits, Truncate(e) PROVE Emptied'
  BY <1>3 DEF TypeOK, Truncate, Answer, Goto, Emptied
<1>4. ASSUME NEW e \in Edits, Fill(e) PROVE Emptied'
  <2> SUFFICES ASSUME NEW f \in Edits, pc'[f] = "fill", f \notin disturbed'
               PROVE  FALSE
    BY DEF Emptied
  <2>1. /\ f # e /\ pc[f] = "fill" /\ pc[e] = "fill"
        /\ disturbed \subseteq disturbed'
    BY <1>4 DEF TypeOK, Fill, Answer, Goto, Harmed
  <2> QED  BY <2>1 DEF Overlaps, Open
<1>5. CASE Stop
  BY <1>5 DEF TypeOK, Stop, Emptied
<1>6. CASE Start
  BY <1>6 DEF Start, Emptied
<1>7. CASE UNCHANGED vars
  BY <1>7 DEF vars, Emptied
<1> QED
  BY <1>1, <1>2, <1>3, <1>4, <1>5, <1>6, <1>7 DEF Next, Handler

\* A file nobody is writing has its lines.
LEMMA WholeKept == TypeOK /\ WholeTexts /\ [Next]_vars => WholeTexts'
<1> SUFFICES ASSUME TypeOK, WholeTexts, [Next]_vars PROVE WholeTexts'
  OBVIOUS
<1>1. ASSUME NEW e \in Edits, Read(e) PROVE WholeTexts'
  <2>1. file' = file /\ seen' \in {seen, [seen EXCEPT ![e] = file]}
    BY <1>1 DEF Read
  <2>2. \A f \in Edits : seen'[f] \in {seen[f], file}
    BY <2>1 DEF TypeOK
  <2> QED  BY <2>1, <2>2 DEF WholeTexts, AllOrNone
<1>2. ASSUME NEW e \in Edits, Truncate(e) PROVE WholeTexts'
  <2>1. AllOrNone(Nothing)
    BY DEF AllOrNone, Nothing, Lines
  <2>2. seen' = seen /\ (file' = file \/ file' = Nothing)
    BY <1>2 DEF Truncate
  <2> QED  BY <2>1, <2>2 DEF WholeTexts, AllOrNone
<1>3. ASSUME NEW e \in Edits, Fill(e) PROVE WholeTexts'
  <2>1. want[e].value # Missing
    BY ConstantsAssumption DEF TypeOK, Want
  <2>2. \A l \in Lines : Updated(e)[l] = Missing <=> seen[e].lines[l] = Missing
    BY <2>1 DEF Updated
  <2>3. "fee_percent" \in Lines
    BY DEF Lines
  <2>4. seen' = seen /\ (file' = file \/ file'.lines = Updated(e))
    BY <1>3 DEF Fill
  <2> QED  BY <2>2, <2>3, <2>4 DEF WholeTexts, AllOrNone
<1>4. ASSUME NEW e \in Edits, Receive(e) PROVE WholeTexts'
  BY <1>4 DEF Receive, WholeTexts, AllOrNone
<1>5. CASE Stop \/ Start \/ UNCHANGED vars
  BY <1>5 DEF Stop, Start, vars, WholeTexts, AllOrNone
<1> QED
  BY <1>1, <1>2, <1>3, <1>4, <1>5 DEF Next, Handler

-----------------------------------------------------------------------------
(* An undisturbed edit stays.                                              *)

\* An undisturbed edit that was answered stays in the file and in what others read.
LEMMA EditsStay ==
  TypeOK /\ Overlaps /\ EditsKept /\ [Next]_vars => EditsKept'
<1> SUFFICES ASSUME TypeOK, Overlaps, [Next]_vars, NEW a \in Edits, Kept(a),
                    a \in Acknowledged', last'[want'[a].line] = a, a \notin disturbed'
             PROVE  /\ AtRest' => file'.lines[want'[a].line] = Left(a)'
                    /\ \A f \in Open' : seen'[f].lines[want'[a].line] = Left(a)'
  BY DEF EditsKept, Kept
<1> DEFINE l == want[a].line
<1>l. l \in Lines
  BY ConstantsAssumption DEF TypeOK, Want
<1> HIDE DEF l
<1> DEFINE Goal == /\ AtRest' => file'.lines[l] = Left(a)
                   /\ \A f \in Open' : seen'[f].lines[l] = Left(a)
<1>w. want' = want
  BY DEF Next, Handler, Receive, Read, Truncate, Fill, Stop, Start, vars
<1>s. ASSUME seen'[a] = seen[a], Goal
      PROVE  /\ AtRest' => file'.lines[want'[a].line] = Left(a)'
             /\ \A f \in Open' : seen'[f].lines[want'[a].line] = Left(a)'
  BY <1>s, <1>w DEF Left, Updated, l
<1>k. ASSUME a \in Acknowledged, last[l] = a, a \notin disturbed
      PROVE  /\ AtRest => file.lines[l] = Left(a)
             /\ \A f \in Open : seen[f].lines[l] = Left(a)
  BY <1>k DEF Kept, l
<1>m. last'[l] = a /\ pc'[a] = "done"
  <2>1. TypeOK'
    BY TypeKept
  <2> QED  BY <2>1, <1>w DEF TypeOK, Acknowledged, l
<1> HIDE DEF Goal
<1>1. ASSUME NEW e \in Edits, Receive(e) PROVE seen'[a] = seen[a] /\ Goal
  <2>1. /\ Open' = Open /\ Acknowledged' = Acknowledged /\ AtRest' = AtRest
    BY <1>1 DEF TypeOK, Receive, Answer, Goto, Open, Acknowledged, AtRest
  <2> QED  BY <1>1, <1>k, <1>m, <2>1 DEF Receive, Goal
<1>2. ASSUME NEW e \in Edits, Read(e) PROVE seen'[a] = seen[a] /\ Goal
  <2>1. /\ Acknowledged' = Acknowledged /\ e \notin Acknowledged'
        /\ e \notin Open /\ AtRest' = AtRest
        /\ last' = last /\ file' = file
    BY <1>2 DEF TypeOK, Read, Answer, Goto, Open, Acknowledged, AtRest
  <2>2. \A f \in Edits : f # e => seen'[f] = seen[f]
    BY <1>2 DEF TypeOK, Read
  <2>3. CASE pc'[e] = "truncate"
    <3>1. /\ Open' = Open \cup {e} /\ disturbed' = disturbed \cup SharedBy(e)
          /\ seen'[e] = file
      BY <1>2, <2>3 DEF TypeOK, Read, Answer, Goto, Open
    <3>2. Open = {}
      BY <2>1, <3>1 DEF SharedBy
    <3>3. AtRest
      BY <3>2 DEF Open, AtRest
    <3> QED  BY <1>k, <1>m, <2>1, <2>2, <3>1, <3>2, <3>3 DEF Goal
  <2>4. CASE pc'[e] # "truncate"
    <3>1. Open' = Open /\ disturbed' = disturbed
      BY <1>2, <2>4 DEF TypeOK, Read, Answer, Goto, Open
    <3>2. \A f \in Open' : f \in Edits /\ f # e
      BY <2>1, <3>1 DEF Open
    <3> QED  BY <1>k, <1>m, <2>1, <2>2, <3>1, <3>2 DEF Goal
  <2> QED  BY <2>3, <2>4
<1>3. ASSUME NEW e \in Edits, Truncate(e) PROVE seen'[a] = seen[a] /\ Goal
  <2>1. /\ Acknowledged' = Acknowledged /\ Open' \subseteq Open
        /\ UNCHANGED <<seen, last, disturbed>>
    BY <1>3 DEF TypeOK, Truncate, Answer, Goto, Open, Acknowledged
  <2>2. AtRest' => AtRest /\ file' = file
    BY <1>3 DEF TypeOK, Truncate, Answer, Goto, AtRest
  <2> QED  BY <1>k, <1>m, <2>1, <2>2 DEF Goal
<1>4. ASSUME NEW e \in Edits, Fill(e) PROVE seen'[a] = seen[a] /\ Goal
  <2>1. e \in Open /\ Open' = Open \ {e} /\ seen' = seen
    BY <1>4 DEF TypeOK, Fill, Answer, Goto, Open
  <2>2. CASE reply'[e] # "ok"
    <3>1. Acknowledged' \subseteq disturbed'
      BY <1>4, <2>2 DEF TypeOK, Fill, Answer, Goto, Harmed, Acknowledged
    <3> QED  BY <3>1
  <2>3. CASE reply'[e] = "ok"
    <3>1. /\ Acknowledged' = Acknowledged \cup {e} /\ disturbed' = disturbed
          /\ last' = [last EXCEPT ![want[e].line] = e]
          /\ file'.lines = Updated(e)
      BY <1>4, <2>3 DEF TypeOK, Fill, Answer, Goto, Harmed, Acknowledged
    <3>2. CASE a = e
      <4>1. Open' = {}
        BY <2>1, <3>1, <3>2 DEF Overlaps
      <4>2. file'.lines[l] = Left(a)
        BY <3>1, <3>2 DEF Left, l
      <4> QED  BY <2>1, <4>1, <4>2 DEF Goal
    <3>3. CASE a # e
      <4>1. a \in Acknowledged /\ want[e].line # l /\ last[l] = a
        BY <1>l, <1>m, <3>1, <3>3 DEF TypeOK
      <4>2. Updated(e)[l] = seen[e].lines[l]
        BY <1>l, <4>1 DEF Updated
      <4> QED  BY <1>k, <2>1, <3>1, <4>1, <4>2 DEF Goal
    <3> QED  BY <3>2, <3>3
  <2> QED  BY <2>2, <2>3
<1>5. ASSUME Stop PROVE seen'[a] = seen[a] /\ Goal
  <2>1. Open' = {} /\ Acknowledged' = Acknowledged
    BY <1>5 DEF TypeOK, Stop, Open, Acknowledged
  <2>2. AtRest /\ disturbed' = disturbed
    BY <1>5, <2>1 DEF Stop, AtRest
  <2>3. UNCHANGED <<file, seen, last>>
    BY <1>5 DEF Stop
  <2> QED  BY <1>5, <1>k, <1>m, <2>1, <2>2, <2>3 DEF Goal
<1>6. ASSUME Start \/ UNCHANGED vars PROVE seen'[a] = seen[a] /\ Goal
  <2>1. UNCHANGED <<file, seen, last, reply, pc, disturbed>>
    BY <1>6 DEF Start, vars
  <2>2. Open' = Open /\ Acknowledged' = Acknowledged /\ AtRest' = AtRest
    BY <2>1 DEF Open, Acknowledged, AtRest
  <2> QED  BY <1>k, <1>m, <2>1, <2>2 DEF Goal
<1> QED
  BY <1>1, <1>2, <1>3, <1>4, <1>5, <1>6, <1>s DEF Next, Handler

-----------------------------------------------------------------------------
(* A file the pool can be started from stays one.                          *)

\* What spoils a file is never forgotten.
LEMMA CleanBefore == TypeOK /\ [Next]_vars /\ Clean' => Clean
<1> SUFFICES ASSUME TypeOK, [Next]_vars, Clean' PROVE Clean
  OBVIOUS
<1>1. disturbed \subseteq disturbed'
  BY DEF Next, Handler, Receive, Read, Truncate, Fill, Harmed, Stop, Start, vars
<1>2. Acknowledged \subseteq Acknowledged' /\ want' = want
  BY DEF Next, Handler, Receive, Read, Truncate, Fill, Stop, Start, vars,
         Answer, Acknowledged, TypeOK
<1> QED  BY <1>1, <1>2 DEF Clean

\* Of a quoted line that is there the start keeps what it decodes to.
LEMMA LoadedQuoted ==
  ASSUME NEW lines, NEW l \in {"pool_address", "admin_key"}, lines[l] # Missing
  PROVE  Loaded(lines)[l] = Decoded[lines[l]]
BY DEF Loaded, Lines

\* An edit with harmless values turns a sound text into a sound one.
LEMMA UpdateIsSound ==
  ASSUME TypeOK, Checked, NEW e \in Edits, pc[e] = "fill", Sound(seen[e]),
         want[e].value \notin Unquotable,
         want[e].line = "pool_address" => Decoded[want[e].value] \notin NoAddress,
         NEW text, text.lines = Updated(e), ~text.rest
  PROVE  Sound(text)
<1>1. /\ want[e].value \notin OutOfRange \cup Unquotable /\ want[e].value # Missing
  BY ConstantsAssumption DEF TypeOK, Want, Checked
<1>2. \A l \in Lines : Updated(e)[l] \in {want[e].value, seen[e].lines[l]}
  BY DEF Updated
<1>3. /\ seen[e].lines["fee_percent"] \notin {Missing} \cup OutOfRange
      /\ seen[e].lines["pool_address"] # Missing
      /\ Decoded[seen[e].lines["pool_address"]] \notin NoAddress
      /\ \A l \in Lines : seen[e].lines[l] \notin Unquotable
  BY LoadedQuoted DEF Sound, Loads
<1>4. "fee_percent" \in Lines /\ "pool_address" \in Lines
  BY DEF Lines
<1>5. Decoded[Updated(e)["pool_address"]] \notin NoAddress
  BY <1>3, <1>4 DEF Updated
<1>6. Updated(e)["pool_address"] # Missing
  BY <1>1, <1>2, <1>3, <1>4
<1>7. Updated(e)["fee_percent"] \notin {Missing} \cup OutOfRange
  BY <1>1, <1>2, <1>3, <1>4
<1>8. \A l \in Lines : Updated(e)[l] \notin Unquotable
  BY <1>1, <1>2, <1>3
<1> HIDE DEF Updated
<1> QED  BY <1>5, <1>6, <1>7, <1>8, LoadedQuoted DEF Sound, Loads

\* While nothing harmful was done the file and what was read of it are sound.
LEMMA SoundKept ==
  TypeOK /\ Checked /\ Emptied /\ SoundTexts /\ [Next]_vars => SoundTexts'
<1> SUFFICES ASSUME TypeOK, Checked, Emptied, [Next]_vars, Clean, Clean',
                    AtRest => Sound(file), \A f \in Open : Sound(seen[f])
             PROVE  /\ AtRest' => Sound(file)'
                    /\ \A f \in Open' : Sound(seen'[f])
  BY CleanBefore DEF SoundTexts, Sound, Loads
<1>f. ASSUME file' = file PROVE Sound(file)' <=> Sound(file)
  BY <1>f DEF Sound, Loads
<1>1. ASSUME NEW e \in Edits, Receive(e)
      PROVE  (AtRest' => Sound(file)') /\ \A f \in Open' : Sound(seen'[f])
  <2>1. Open' = Open /\ AtRest' = AtRest
    BY <1>1 DEF TypeOK, Receive, Answer, Goto, Open, AtRest
  <2> QED  BY <1>1, <1>f, <2>1 DEF Receive
<1>2. ASSUME NEW e \in Edits, Read(e)
      PROVE  (AtRest' => Sound(file)') /\ \A f \in Open' : Sound(seen'[f])
  <2>1. e \notin Open /\ AtRest' = AtRest /\ file' = file
    BY <1>2 DEF TypeOK, Read, Answer, Goto, Open, AtRest
  <2>2. \A f \in Edits : f # e => seen'[f] = seen[f]
    BY <1>2 DEF TypeOK, Read
  <2>3. CASE pc'[e] = "truncate"
    <3>1. /\ Open' = Open \cup {e} /\ disturbed' = disturbed \cup SharedBy(e)
          /\ seen'[e] = file
      BY <1>2, <2>3 DEF TypeOK, Read, Answer, Goto, Open
    <3>2. Open = {}
      BY <2>1, <3>1 DEF SharedBy, Clean
    <3>3. AtRest
      BY <3>2 DEF Open, AtRest
    <3> QED  BY <1>f, <2>1, <3>1, <3>2, <3>3
  <2>4. CASE pc'[e] # "truncate"
    <3>1. Open' = Open
      BY <1>2, <2>4 DEF TypeOK, Read, Answer, Goto, Open
    <3>2. \A f \in Open' : f \in Edits /\ f # e
      BY <2>1, <3>1 DEF Open
    <3> QED  BY <1>f, <2>1, <2>2, <3>1, <3>2
  <2> QED  BY <2>3, <2>4
<1>3. ASSUME NEW e \in Edits, Truncate(e)
      PROVE  (AtRest' => Sound(file)') /\ \A f \in Open' : Sound(seen'[f])
  <2>1. Open' \subseteq Open /\ seen' = seen
    BY <1>3 DEF TypeOK, Truncate, Answer, Goto, Open
  <2>2. AtRest' => AtRest /\ file' = file
    BY <1>3 DEF TypeOK, Truncate, Answer, Goto, AtRest
  <2> QED  BY <1>f, <2>1, <2>2
<1>4. ASSUME NEW e \in Edits, Fill(e)
      PROVE  (AtRest' => Sound(file)') /\ \A f \in Open' : Sound(seen'[f])
  <2>1. /\ e \in Open /\ Open' = Open \ {e} /\ seen' = seen /\ pc[e] = "fill"
        /\ want' = want
    BY <1>4 DEF TypeOK, Fill, Answer, Goto, Open
  <2>2. reply'[e] = "ok"
    <3>1. reply'[e] # "ok" => e \in disturbed'
      BY <1>4 DEF TypeOK, Fill, Answer, Goto, Harmed
    <3> QED  BY <3>1 DEF Clean
  <2>3. /\ want[e].value \notin Unquotable
        /\ want[e].line = "pool_address" => Decoded[want[e].value] \notin NoAddress
    BY <2>1, <2>2 DEF Clean, Acknowledged
  <2>4. file = Nothing
    BY <2>1 DEF Emptied, Clean
  <2>5. PICK rest \in BOOLEAN :
          /\ rest => seen[e].rest
          /\ file' = [lines |-> Updated(e), rest |-> rest]
    BY <1>4, <2>2, <2>4 DEF TypeOK, Fill, Answer, Goto
  <2>6. Sound(seen[e])
    BY <2>1
  <2>7. file'.lines = Updated(e) /\ ~file'.rest
    BY <2>5, <2>6 DEF Sound, Loads
  <2>8. Sound(file')
    BY <2>1, <2>3, <2>6, <2>7, UpdateIsSound
  <2> QED  BY <2>1, <2>8 DEF Sound, Loads
<1>5. CASE Stop
  <2>1. Open' = {}
    BY <1>5 DEF TypeOK, Stop, Open
  <2>2. AtRest
    BY <1>5 DEF Stop, AtRest, Open, Clean
  <2> QED  BY <1>5, <1>f, <2>1, <2>2 DEF Stop
<1>6. CASE Start \/ UNCHANGED vars
  <2>1. UNCHANGED <<file, seen, pc>>
    BY <1>6 DEF Start, vars
  <2>2. Open' = Open /\ AtRest' = AtRest
    BY <2>1 DEF Open, AtRest
  <2> QED  BY <1>f, <2>1, <2>2
<1> QED
  BY <1>1, <1>2, <1>3, <1>4, <1>5, <1>6 DEF Next, Handler

-----------------------------------------------------------------------------
(* The configuration in memory.                                            *)

\* A start reads the last edit of every line that was answered.
LEMMA StartReadsEdits ==
  ASSUME TypeOK, Checked, Shape, WholeTexts, EditsKept, ~up, Loads(file),
         NEW e \in Edits, last["admin_key"] = e, e \notin disturbed
  PROVE  Loaded(file.lines)["admin_key"] = Decoded[want[e].value]
<1>1. "admin_key" \in Lines /\ "fee_percent" \in Lines
  BY DEF Lines
<1>2. reply[e] = "ok" /\ want[e].line = "admin_key"
  BY <1>1 DEF Shape
<1>3. AtRest
  BY DEF Shape, AtRest
<1>4. file.lines["admin_key"] = Left(e)
  BY <1>2, <1>3 DEF EditsKept, Kept, Acknowledged
<1>5. file.lines["admin_key"] # Missing
  BY <1>1 DEF Loads, WholeTexts, AllOrNone
<1>6. Updated(e)["admin_key"] =
        IF seen[e].lines["admin_key"] # Missing THEN want[e].value
        ELSE seen[e].lines["admin_key"]
  BY <1>1, <1>2 DEF Updated
<1>7. Left(e) = Updated(e)["admin_key"]
  BY <1>2 DEF Left
<1>8. file.lines["admin_key"] = want[e].value
  BY <1>4, <1>5, <1>6, <1>7
<1> QED  BY <1>5, <1>8, LoadedQuoted

\* Once the process was started again it knows the last undisturbed key.
LEMMA KeyStaysKnown ==
  /\ TypeOK /\ Checked /\ Shape /\ WholeTexts /\ EditsKept /\ KeyKnown
  /\ [Next]_vars
  => KeyKnown'
<1> SUFFICES ASSUME TypeOK, Checked, Shape, WholeTexts, EditsKept, KeyKnown,
                    [Next]_vars,
                    NEW a \in Edits, last'["admin_key"] = a, a \notin disturbed',
                    a \notin fresh'
             PROVE  running'["admin_key"] = Decoded[want'[a].value]
  BY DEF KeyKnown
<1>w. want' = want /\ disturbed \subseteq disturbed'
  BY DEF Next, Handler, Receive, Read, Truncate, Fill, Harmed, Stop, Start, vars
<1>1. ASSUME NEW e \in Edits, Receive(e) \/ Read(e) \/ Truncate(e)
      PROVE  running'["admin_key"] = Decoded[want'[a].value]
  <2>1. UNCHANGED <<running, last, fresh>>
    BY <1>1 DEF Receive, Read, Truncate
  <2> QED  BY <1>w, <2>1 DEF KeyKnown
<1>2. ASSUME NEW e \in Edits, Fill(e)
      PROVE  running'["admin_key"] = Decoded[want'[a].value]
  <2>1. running' = running /\ fresh \subseteq fresh'
    BY <1>2 DEF Fill
  <2>2. last' # last => e \in fresh' /\ last' = [last EXCEPT ![want[e].line] = e]
    BY <1>2 DEF Fill
  <2>3. last["admin_key"] = a
    BY <2>2 DEF TypeOK, Lines
  <2> QED  BY <1>w, <2>1, <2>3 DEF KeyKnown
<1>3. CASE Start
  <2>1. running' = Loaded(file.lines) /\ ~up /\ Loads(file) /\ last' = last
    BY <1>3 DEF Start, Startable
  <2> QED  BY <1>w, <2>1, StartReadsEdits
<1>4. CASE Stop \/ UNCHANGED vars
  <2>1. UNCHANGED <<running, last, fresh>>
    BY <1>4 DEF Stop, vars
  <2> QED  BY <1>w, <2>1 DEF KeyKnown
<1> QED  BY <1>1, <1>2, <1>3, <1>4 DEF Next, Handler

-----------------------------------------------------------------------------
(* The invariant, and what follows from it.                                *)

\* The initial states satisfy the inductive invariant.
LEMMA InitInvariant == Init => IInv
<1> SUFFICES ASSUME Init PROVE IInv
  OBVIOUS
<1> USE ConstantsAssumption
<1>1. TypeOK
  <2>1. Nothing \in File
    BY NothingIsAText
  <2>2. Initial \in Text
    BY DEF Text
  <2>3. file \in File /\ running \in Text
    BY <2>2, LoadedIsText DEF Init, File
  <2> QED  BY <2>1, <2>3 DEF Init, TypeOK, Acknowledged
<1>2. Open = {} /\ Acknowledged = {} /\ AtRest
  BY DEF Init, Open, Acknowledged, AtRest
<1>3. Checked /\ Shape /\ Overlaps /\ Emptied
  BY <1>2 DEF Init, Checked, Shape, Overlaps, Emptied
<1>4. WholeTexts
  <2>1. "fee_percent" \in Lines
    BY DEF Lines
  <2> QED  BY <2>1 DEF Init, WholeTexts, AllOrNone, Nothing
<1>5. EditsKept
  BY <1>2 DEF EditsKept, Kept
<1>6. SoundTexts
  <2>1. "fee_percent" \in Lines /\ "pool_address" \in Lines
    BY DEF Lines
  <2>2. /\ file.lines = Initial /\ ~file.rest
    BY DEF Init
  <2>3. \A l \in Lines : Initial[l] \in Values
    OBVIOUS
  <2>4. Loaded(file.lines)["pool_address"] = Decoded[Initial["pool_address"]]
    BY <2>1, <2>2, <2>3, LoadedQuoted
  <2>5. Sound(file)
    BY <2>1, <2>2, <2>3, <2>4 DEF Sound, Loads
  <2> QED  BY <1>2, <2>5 DEF SoundTexts
<1>7. KeyKnown
  BY DEF Init, KeyKnown, Lines
<1> QED  BY <1>1, <1>3, <1>4, <1>5, <1>6, <1>7 DEF IInv

\* Every step keeps the inductive invariant.
LEMMA StepInvariant == IInv /\ [Next]_vars => IInv'
<1> SUFFICES ASSUME IInv, [Next]_vars PROVE IInv'
  OBVIOUS
<1>1. TypeOK' /\ Checked' /\ Shape'
  BY TypeKept, ShapeKept DEF IInv
<1>2. Overlaps'
  BY OverlapsKept DEF IInv
<1>3. Emptied'
  BY EmptiedKept DEF IInv
<1>4. WholeTexts'
  BY WholeKept DEF IInv
<1>5. EditsKept'
  BY EditsStay DEF IInv, EditsKept
<1>6. SoundTexts'
  BY SoundKept DEF IInv
<1>7. KeyKnown'
  BY KeyStaysKnown DEF IInv
<1> QED  BY <1>1, <1>2, <1>3, <1>4, <1>5, <1>6, <1>7 DEF IInv

\* The inductive invariant holds in every reachable state.
THEOREM Inductive == Spec => []IInv
BY InitInvariant, StepInvariant, PTL DEF Spec

\* Every text, answer and history has its type, for any edits and faults.
THEOREM TypeCorrect == Spec => []TypeOK
<1>1. IInv => TypeOK
  BY DEF IInv
<1> QED  BY <1>1, Inductive, PTL

\* An edit answered "ok" is in the file until another edit of its line, unless
\* it shared the file with an edit or a fault, or found its line missing.
THEOREM EditsLast == Spec => []AnsweredEditsLast
<1>1. IInv => AnsweredEditsLast
  <2> SUFFICES ASSUME IInv, AtRest, NEW e \in Acknowledged,
                      last[want[e].line] = e, e \notin disturbed,
                      seen[e].lines[want[e].line] # Missing
               PROVE  file.lines[want[e].line] = want[e].value
    BY DEF AnsweredEditsLast
  <2>1. e \in Edits /\ want[e].line \in Lines
    BY ConstantsAssumption DEF IInv, TypeOK, Want, Acknowledged
  <2>2. file.lines[want[e].line] = Left(e)
    BY <2>1 DEF IInv, EditsKept, Kept
  <2> QED  BY <2>1, <2>2 DEF Left, Updated
<1> QED  BY <1>1, Inductive, PTL

\* The pool can be started from every file that no overlap, no fault inside a
\* write and no value checked by its length alone has spoilt.
THEOREM SpoiltExplained == Spec => []SpoiltHasACause
<1>1. IInv => SpoiltHasACause
  BY DEF IInv, SpoiltHasACause, SoundTexts, Sound, Startable, Clean
<1> QED  BY <1>1, Inductive, PTL

\* From the next start on, the last undisturbed change of password decides who
\* is let in.
THEOREM KeysWork == Spec => NewKeyWorksAfterStart
<1>1. IInv /\ [Next]_vars =>
        [\A e, f \in Edits :
           /\ last["admin_key"] = e /\ e \notin disturbed \cup fresh
           /\ pc[f] = "idle" /\ pc'[f] # "idle"
           => (reply'[f] # "unauthorized" <=>
                 want[f].key = Decoded[want[e].value] /\ want[f].key \notin Unsendable)]_vars
  <2> SUFFICES ASSUME IInv, [Next]_vars, NEW e \in Edits, NEW f \in Edits,
                      last["admin_key"] = e, e \notin disturbed \cup fresh,
                      pc[f] = "idle", pc'[f] # "idle"
               PROVE  reply'[f] # "unauthorized" <=>
                        want[f].key = Decoded[want[e].value] /\ want[f].key \notin Unsendable
    OBVIOUS
  <2>1. \A g \in Edits : ~(Read(g) \/ Truncate(g) \/ Fill(g))
    BY DEF IInv, TypeOK, Read, Truncate, Fill, Answer, Goto
  <2>2. ~Stop /\ ~Start /\ ~UNCHANGED vars
    BY DEF IInv, TypeOK, Stop, Start, vars
  <2>3. PICK g \in Edits : Receive(g)
    BY <2>1, <2>2 DEF Next, Handler
  <2>4. g = f
    BY <2>3 DEF IInv, TypeOK, Receive, Answer, Goto
  <2>5. reply[f] = "none"
    BY DEF IInv, TypeOK
  <2>6. reply'[f] = "unauthorized" <=> ~CheckAdmin(f)
    BY <2>3, <2>4, <2>5 DEF IInv, TypeOK, Receive, Answer
  <2>7. running["admin_key"] = Decoded[want[e].value]
    BY DEF IInv, KeyKnown
  <2> QED  BY <2>6, <2>7 DEF CheckAdmin
<1> QED  BY <1>1, Inductive, PTL DEF Spec, NewKeyWorksAfterStart
=============================================================================

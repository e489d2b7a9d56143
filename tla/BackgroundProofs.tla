-------------------------- MODULE BackgroundProofs --------------------------
(***************************************************************************)
(* Theorems about the parts that run beside the user's work, for any sets  *)
(* of files, projects, polls and calls and any bounds: the page editor     *)
(* (E), the clips (C), research (R), patrols (P), the Claude Code bridge   *)
(* (B), calls of models (L), the chat (H).  The parts share no state; a    *)
(* variable or a bound of one that has the name of another's is renamed    *)
(* here: research's switches are resets, its store being reset by them.    *)
(***************************************************************************)
EXTENDS Integers, Sequences, FiniteSets, FiniteSetTheorems, SequenceTheorems, WellFoundedInduction, TLAPS

CONSTANTS Files, NoFile, MaxEdits, MaxSelections, MaxForeign
VARIABLES disk, selected, reads, fileContent, lastLoaded, mode, doc, timer,
          edits, selections, foreign, typed, slips
E == INSTANCE PageEditor

CONSTANTS Projects, Polls, MaxClips, MaxSwitches, MaxRestarts, Usable
VARIABLES open, current, files, pending, poll, enqueued, server, restarts, clips, switches
C == INSTANCE ClipInbox

CONSTANTS maxConcurrent, MaxTasks, MaxResets, MaxMishaps
VARIABLES project, tasks, run, wakes, saved, home, resets, mishaps, unsettled, strays
R == INSTANCE ResearchTasks WITH switches <- resets, MaxSwitches <- MaxResets

CONSTANTS None, Recorders, EventThreshold, ReminderCooldown, MinPatrolInterval, TimeInterval, AutoPatrol,
          MaxTime, MaxEvents, MaxFailures, MaxOpenings
VARIABLES now, stored, recorder, inFlight, patrols, opened, loading, daemon, checks, reminder, dismissed,
          recorded, failures, openings
P == INSTANCE PatrolSchedule WITH open <- opened

CONSTANT MaxLines
VARIABLES completion, listening, finished, onAbort, aborted, caller, killing, child, children, task,
          printed, drained, events
B == INSTANCE ClaudeBridge WITH call <- completion

CONSTANTS Calls, Logs, Endpoint, Listed, Reply, Wide, Threshold, MaxChunk
VARIABLES log, lost, llm, half, mixed
L == INSTANCE LlmStream WITH call <- llm, Projects <- Logs

CONSTANTS MaxConvs, MaxSends, MaxLaunches, MaxFaults
VARIABLES conversations, activeId, messages, isStreaming, messageCounter, sends, abortRef, redo,
          saving, chats, created, launches, faults, left, reloaded
H == INSTANCE ChatSession WITH timer <- saving, disk <- chats, restarts <- launches,
  mishaps <- faults, MaxRestarts <- MaxLaunches, MaxMishaps <- MaxFaults

-----------------------------------------------------------------------------
(***************************************************************************)
(* The page editor.                                                        *)
(***************************************************************************)
EditorBounds == MaxEdits \in Nat /\ MaxSelections \in Nat /\ MaxForeign \in Nat /\ NoFile \notin Files

\* The armed save is at most one; an open editor has a file.
OneTimer == \A t, u \in timer : t = u
EditsAFile == mode = "edit" => selected # NoFile

\* Without haste an open editor has the file it shows, the only read is that of
\* the selected file, and every text is where it belongs.
TextsAreHome ==
  /\ \A f \in Files : disk[f].of = f
  /\ \A t \in timer : t.text.of = t.file
  /\ reads \subseteq {selected}
  /\ mode = "edit" => reads = {} /\ fileContent.of = selected /\ doc.of = selected

\* A number that is typed next is in no text yet.
Fresh(text) == \A n \in text.has : n <= edits \/ n > MaxEdits
TextsAreOld ==
  /\ Fresh(lastLoaded) /\ Fresh(fileContent) /\ Fresh(doc)
  /\ \A f \in Files : Fresh(disk[f])
  /\ \A t \in timer : Fresh(t.text)

\* Without slips the open editor has all that the file has, and the armed save
\* is one of the editor's text.
EditorIsAhead ==
  /\ mode = "edit" => disk[selected].has \subseteq doc.has
  /\ \A t \in timer : mode = "edit" /\ t.file = selected /\ t.text = doc

EInv == /\ E!TypeOK /\ OneTimer /\ EditsAFile /\ TextsAreOld
        /\ "rushed" \notin slips => TextsAreHome
        /\ slips = {} => EditorIsAhead /\ E!ChangesSurvive

LEMMA SlipsStay ==
  ASSUME E!Next
  PROVE  slips \subseteq slips'
BY DEF E!Next, E!Select, E!Deselect, E!ReadDone, E!OpenEditor, E!CloseEditor, E!Type, E!Fire, E!Unmount,
       E!ForeignWrite, E!Leaving

\* What a change makes of a text.
LEMMA ChangeIsText ==
  ASSUME NEW x \in E!Text, NEW n \in E!Changes
  PROVE  LET y == [x EXCEPT !.has = @ \cup {n}]
         IN y \in E!Text /\ y.of = x.of /\ y.has = x.has \cup {n}
BY DEF E!Text

\* The armed save, as it was or of the editor's text.
LEMMA ArmFits ==
  ASSUME NEW x \in E!Text, selected \in Files, timer \subseteq [file : Files, text : E!Text],
         OneTimer, timer' = E!Arm(x)
  PROVE  /\ timer' \subseteq [file : Files, text : E!Text] /\ OneTimer'
         /\ timer' = timer \/ timer' = {[file |-> selected, text |-> x]}
         /\ x # lastLoaded => timer' = {[file |-> selected, text |-> x]}
BY DEF E!Arm, OneTimer

\* Numbers that were old stay so.
LEMMA FreshStays ==
  ASSUME EditorBounds, edits \in Nat, edits' = edits + 1, NEW x \in E!Text, Fresh(x)
  PROVE  Fresh(x)'
<1>1. \A n \in x.has : n \in Nat
  BY DEF E!Text, E!Changes, EditorBounds
<1> QED
  BY <1>1 DEF Fresh

LEMMA FewAreOne ==
  ASSUME NEW S, \A t, u \in S : t = u
  PROVE  E!Cardinality(S) <= 1
<1>1. E!Cardinality(S) = Cardinality(S)
  BY DEF E!Cardinality, Cardinality
<1>2. CASE S = {}
  BY <1>1, <1>2, FS_EmptySet
<1>3. CASE S # {}
  <2>1. PICK t : S = {t}
    BY <1>3
  <2>2. Cardinality({t}) = 1
    BY FS_Singleton
  <2> QED
    BY <1>1, <2>1, <2>2
<1> QED
  BY <1>2, <1>3

EditorTypes == /\ E!TypeOK /\ OneTimer /\ EditsAFile /\ TextsAreOld

LEMMA EditorKeepsTypes ==
  ASSUME EditorBounds, EditorTypes, E!Next
  PROVE  EditorTypes'
<1> USE DEF EditorBounds, EditorTypes
<1>1. /\ disk \in [Files -> E!Text] /\ selected \in Files \cup {NoFile} /\ reads \subseteq Files
      /\ {fileContent, lastLoaded, doc} \subseteq E!Text /\ mode \in {"read", "edit"}
      /\ timer \subseteq [file : Files, text : E!Text]
      /\ edits \in 0..MaxEdits /\ selections \in 0..MaxSelections /\ foreign \in 0..MaxForeign
      /\ typed \subseteq Files \X E!Changes
  BY DEF E!TypeOK
<1>2. E!Empty \in E!Text /\ E!Empty.has = {}
  BY DEF E!Empty, E!Text
<1>3. ASSUME /\ disk' \in [Files -> E!Text] /\ selected' \in Files \cup {NoFile} /\ reads' \subseteq Files
             /\ {fileContent', lastLoaded', doc'} \subseteq E!Text /\ mode' \in {"read", "edit"}
             /\ timer' \subseteq [file : Files, text : E!Text] /\ OneTimer'
             /\ edits' \in 0..MaxEdits /\ selections' \in 0..MaxSelections /\ foreign' \in 0..MaxForeign
             /\ typed' \subseteq Files \X E!Changes
      PROVE  E!TypeOK'
  <2>1. E!Cardinality(timer') <= 1
    BY <1>3, FewAreOne DEF OneTimer
  <2> QED
    BY <1>3, <2>1 DEF E!TypeOK
<1>4. ASSUME NEW f \in Files, E!Select(f) PROVE EditorTypes'
  <2>1. E!TypeOK'
    BY <1>1, <1>3, <1>4 DEF E!Select, OneTimer
  <2>2. OneTimer' /\ EditsAFile' /\ TextsAreOld'
    BY <1>4 DEF E!Select, OneTimer, EditsAFile, TextsAreOld, Fresh
  <2> QED
    BY <2>1, <2>2
<1>5. ASSUME E!Deselect PROVE EditorTypes'
  <2>1. E!TypeOK'
    BY <1>1, <1>2, <1>3, <1>5 DEF E!Deselect, E!counters, OneTimer
  <2>2. OneTimer' /\ EditsAFile' /\ TextsAreOld'
    BY <1>2, <1>5 DEF E!Deselect, E!counters, OneTimer, EditsAFile, TextsAreOld, Fresh
  <2> QED
    BY <2>1, <2>2
<1>6. ASSUME NEW f \in Files, E!ReadDone(f) PROVE EditorTypes'
  <2>1. E!TypeOK'
    BY <1>1, <1>3, <1>6 DEF E!ReadDone, E!counters, OneTimer
  <2>2. OneTimer' /\ EditsAFile' /\ TextsAreOld'
    BY <1>6 DEF E!ReadDone, E!counters, OneTimer, EditsAFile, TextsAreOld, Fresh
  <2> QED
    BY <2>1, <2>2
<1>7. ASSUME E!OpenEditor PROVE EditorTypes'
  <2>1. E!TypeOK'
    BY <1>1, <1>3, <1>7 DEF E!OpenEditor, E!counters, OneTimer
  <2>2. OneTimer' /\ EditsAFile' /\ TextsAreOld'
    BY <1>7 DEF E!OpenEditor, E!counters, OneTimer, EditsAFile, TextsAreOld, Fresh
  <2> QED
    BY <2>1, <2>2
<1>8. ASSUME E!CloseEditor PROVE EditorTypes'
  <2>1. E!TypeOK'
    BY <1>1, <1>3, <1>8 DEF E!CloseEditor, E!counters, OneTimer
  <2>2. OneTimer' /\ EditsAFile' /\ TextsAreOld'
    BY <1>8 DEF E!CloseEditor, E!counters, OneTimer, EditsAFile, TextsAreOld, Fresh
  <2> QED
    BY <2>1, <2>2
<1>9. ASSUME E!Type PROVE EditorTypes'
  <2>1. /\ edits < MaxEdits /\ edits' = edits + 1 /\ edits + 1 \in E!Changes /\ edits' \in 0..MaxEdits
        /\ selected \in Files
    BY <1>1, <1>9 DEF E!Type, E!Changes, EditsAFile
  <2>2. /\ doc' \in E!Text /\ doc'.has = doc.has \cup {edits + 1}
    BY <1>1, <1>9, <2>1, ChangeIsText DEF E!Type
  <2>3. /\ timer' \subseteq [file : Files, text : E!Text] /\ OneTimer'
        /\ timer' = timer \/ timer' = {[file |-> selected, text |-> doc']}
    BY <1>1, <1>9, <2>1, <2>2, ArmFits DEF E!Type
  <2>4. typed' \subseteq Files \X E!Changes
    BY <1>1, <1>9, <2>1 DEF E!Type
  <2>5. UNCHANGED <<disk, selected, reads, fileContent, lastLoaded, mode, selections, foreign>>
    BY <1>9 DEF E!Type
  <2>6. E!TypeOK'
    BY <1>1, <1>3, <2>1, <2>2, <2>3, <2>4, <2>5
  <2>7. OneTimer' /\ EditsAFile'
    BY <2>3, <2>5 DEF EditsAFile
  <2>8. \A x \in E!Text : Fresh(x) => Fresh(x)'
    BY <1>1, <2>1, FreshStays
  <2>9. Fresh(doc)'
    BY <1>1, <2>1, <2>2, <2>8 DEF TextsAreOld, Fresh
  <2>10. TextsAreOld'
    <3>1. /\ Fresh(lastLoaded)' /\ Fresh(fileContent)' /\ \A f \in Files : Fresh(disk[f])'
      BY <1>1, <2>5, <2>8 DEF TextsAreOld
    <3>2. \A t \in timer' : Fresh(t.text)'
      BY <1>1, <2>3, <2>8, <2>9 DEF TextsAreOld
    <3> QED
      BY <2>9, <3>1, <3>2 DEF TextsAreOld
  <2> QED
    BY <2>6, <2>7, <2>10
<1>10. ASSUME E!Fire PROVE EditorTypes'
  <2>1. PICK t \in timer : disk' = [disk EXCEPT ![t.file] = t.text] /\ lastLoaded' = t.text
    BY <1>10 DEF E!Fire
  <2>2. /\ timer' = {}
        /\ UNCHANGED <<selected, reads, fileContent, mode, doc, edits, selections, foreign, typed>>
    BY <1>10 DEF E!Fire, E!counters
  <2>3. t.file \in Files /\ t.text \in E!Text /\ disk' \in [Files -> E!Text]
    BY <1>1, <2>1
  <2>4. E!TypeOK'
    BY <1>1, <1>3, <2>1, <2>2, <2>3 DEF OneTimer
  <2>5. OneTimer' /\ EditsAFile'
    BY <2>2 DEF OneTimer, EditsAFile
  <2>6. TextsAreOld'
    BY <1>1, <2>1, <2>2, <2>3 DEF TextsAreOld, Fresh
  <2> QED
    BY <2>4, <2>5, <2>6
<1>11. ASSUME E!Unmount PROVE EditorTypes'
  <2>1. E!TypeOK'
    BY <1>1, <1>3, <1>11 DEF E!Unmount, E!counters, OneTimer
  <2>2. OneTimer' /\ EditsAFile' /\ TextsAreOld'
    BY <1>11 DEF E!Unmount, E!counters, OneTimer, EditsAFile, TextsAreOld, Fresh
  <2> QED
    BY <2>1, <2>2
<1>12. ASSUME NEW f \in Files, E!ForeignWrite(f) PROVE EditorTypes'
  <2> DEFINE n == MaxEdits + foreign + 1
             x == [disk[f] EXCEPT !.has = @ \cup {n}]
  <2>1. /\ n \in E!Changes /\ n > MaxEdits /\ foreign' = foreign + 1 /\ foreign' \in 0..MaxForeign
        /\ disk' = [disk EXCEPT ![f] = x] /\ typed' = typed \cup {<<f, n>>}
        /\ UNCHANGED <<selected, reads, fileContent, lastLoaded, mode, doc, timer, edits, selections>>
    BY <1>1, <1>12 DEF E!ForeignWrite, E!Changes
  <2>2. x \in E!Text /\ x.has = disk[f].has \cup {n}
    BY <1>1, <2>1, ChangeIsText
  <2> HIDE DEF n, x
  <2>3. typed' \subseteq Files \X E!Changes /\ disk' \in [Files -> E!Text]
    BY <1>1, <2>1, <2>2
  <2>4. E!TypeOK'
    BY <1>1, <1>3, <2>1, <2>3 DEF OneTimer
  <2>5. OneTimer' /\ EditsAFile'
    BY <2>1 DEF OneTimer, EditsAFile
  <2>6. TextsAreOld'
    BY <1>1, <2>1, <2>2 DEF TextsAreOld, Fresh
  <2> QED
    BY <2>4, <2>5, <2>6
<1> QED
  BY <1>4, <1>5, <1>6, <1>7, <1>8, <1>9, <1>10, <1>11, <1>12 DEF E!Next

LEMMA EditorKeepsHome ==
  ASSUME EditorBounds, EditorTypes, "rushed" \notin slips => TextsAreHome, E!Next, "rushed" \notin slips'
  PROVE  TextsAreHome'
<1>1. "rushed" \notin slips /\ TextsAreHome
  BY SlipsStay
<1>2. /\ disk \in [Files -> E!Text] /\ selected \in Files \cup {NoFile} /\ reads \subseteq Files
      /\ doc \in E!Text /\ timer \subseteq [file : Files, text : E!Text] /\ mode \in {"read", "edit"}
  BY DEF EditorTypes, E!TypeOK
<1>3. ASSUME NEW f \in Files, E!Select(f) PROVE TextsAreHome'
  <2>1. reads = {}
    BY <1>1, <1>3 DEF E!Select, E!Leaving, E!Slip
  <2> QED
    BY <1>1, <1>3, <2>1 DEF E!Select, TextsAreHome
<1>4. ASSUME E!Deselect PROVE TextsAreHome'
  <2>1. reads = {}
    BY <1>1, <1>4 DEF E!Deselect, E!Leaving, E!Slip
  <2> QED
    BY <1>1, <1>4, <2>1 DEF E!Deselect, TextsAreHome
<1>5. ASSUME NEW f \in Files, E!ReadDone(f) PROVE TextsAreHome'
  BY <1>1, <1>5 DEF E!ReadDone, TextsAreHome
<1>6. ASSUME E!OpenEditor PROVE TextsAreHome'
  <2>1. E!Loaded
    BY <1>1, <1>6 DEF E!OpenEditor, E!Slip
  <2> QED
    BY <1>1, <1>6, <2>1 DEF E!OpenEditor, E!Loaded, TextsAreHome
<1>7. ASSUME E!CloseEditor PROVE TextsAreHome'
  BY <1>1, <1>7 DEF E!CloseEditor, TextsAreHome
<1>8. ASSUME E!Type PROVE TextsAreHome'
  <2>1. /\ mode = "edit" /\ doc' = [doc EXCEPT !.has = @ \cup {edits + 1}] /\ timer' = E!Arm(doc')
        /\ UNCHANGED <<disk, selected, reads, fileContent, mode>>
    BY <1>8 DEF E!Type
  <2>2. doc'.of = doc.of
    BY <1>2, <2>1 DEF E!Text
  <2>3. doc'.of = selected
    BY <1>1, <2>1, <2>2 DEF TextsAreHome
  <2>4. timer' = timer \/ timer' = {[file |-> selected, text |-> doc']}
    BY <2>1 DEF E!Arm
  <2>5. \A t \in timer' : t.text.of = t.file
    BY <1>1, <2>3, <2>4 DEF TextsAreHome
  <2> QED
    BY <1>1, <2>1, <2>3, <2>5 DEF TextsAreHome
<1>9. ASSUME E!Fire PROVE TextsAreHome'
  <2>1. PICK t \in timer : disk' = [disk EXCEPT ![t.file] = t.text]
    BY <1>9 DEF E!Fire
  <2>2. t.text.of = t.file /\ t.file \in Files
    BY <1>1, <1>2 DEF TextsAreHome
  <2>3. \A f \in Files : disk'[f].of = f
    BY <1>1, <1>2, <2>1, <2>2 DEF TextsAreHome
  <2> QED
    BY <1>1, <1>9, <2>3 DEF E!Fire, TextsAreHome
<1>10. ASSUME E!Unmount PROVE TextsAreHome'
  BY <1>1, <1>10 DEF E!Unmount, TextsAreHome
<1>11. ASSUME NEW f \in Files, E!ForeignWrite(f) PROVE TextsAreHome'
  <2> DEFINE n == MaxEdits + foreign + 1
  <2>1. disk' = [disk EXCEPT ![f] = [disk[f] EXCEPT !.has = @ \cup {n}]]
    BY <1>11 DEF E!ForeignWrite
  <2>2. [disk[f] EXCEPT !.has = @ \cup {n}].of = disk[f].of
    BY <1>2 DEF E!Text
  <2> HIDE DEF n
  <2>3. \A g \in Files : disk'[g].of = g
    BY <1>1, <1>2, <2>1, <2>2 DEF TextsAreHome
  <2> QED
    BY <1>1, <1>11, <2>3 DEF E!ForeignWrite, TextsAreHome
<1> QED
  BY <1>3, <1>4, <1>5, <1>6, <1>7, <1>8, <1>9, <1>10, <1>11 DEF E!Next

\* Where a change is: on disk, or armed.
Survives(c) == c[2] \in disk[c[1]].has \/ \E t \in timer : t.file = c[1] /\ c[2] \in t.text.has

LEMMA EditorStaysAhead ==
  ASSUME EditorBounds, EditorTypes, TextsAreHome, slips' = {}, EditorIsAhead, E!ChangesSurvive, slips = {},
         E!Next
  PROVE  EditorIsAhead' /\ E!ChangesSurvive'
<1>1. /\ disk \in [Files -> E!Text] /\ selected \in Files \cup {NoFile} /\ reads \subseteq Files
      /\ {fileContent, lastLoaded, doc} \subseteq E!Text
      /\ timer \subseteq [file : Files, text : E!Text] /\ mode \in {"read", "edit"}
      /\ edits \in Nat /\ foreign \in Nat /\ typed \subseteq Files \X E!Changes
  BY DEF EditorTypes, E!TypeOK
<1>2. \A c \in typed : Survives(c)
  BY DEF E!ChangesSurvive, Survives
<1>3. ASSUME \A c \in typed' : Survives(c)' PROVE E!ChangesSurvive'
  BY <1>3 DEF E!ChangesSurvive, Survives
<1>4. ASSUME timer' = {}, UNCHANGED <<disk, typed>>, timer = {}, mode' # "edit"
      PROVE  EditorIsAhead' /\ E!ChangesSurvive'
  BY <1>2, <1>3, <1>4 DEF EditorIsAhead, Survives
<1>5. ASSUME NEW f \in Files, E!Select(f) PROVE EditorIsAhead' /\ E!ChangesSurvive'
  BY <1>4, <1>5 DEF E!Select, E!Leaving, E!Slip
<1>6. ASSUME E!Deselect PROVE EditorIsAhead' /\ E!ChangesSurvive'
  BY <1>4, <1>6 DEF E!Deselect, E!Leaving, E!Slip
<1>7. ASSUME NEW f \in Files, E!ReadDone(f) PROVE EditorIsAhead' /\ E!ChangesSurvive'
  <2>1. mode # "edit" /\ timer = {}
    BY <1>7 DEF E!ReadDone, TextsAreHome, EditorIsAhead
  <2> QED
    BY <1>4, <1>7, <2>1 DEF E!ReadDone
<1>8. ASSUME E!OpenEditor PROVE EditorIsAhead' /\ E!ChangesSurvive'
  <2>1. fileContent = disk[selected] /\ timer = {}
    BY <1>8 DEF E!OpenEditor, E!Slip, EditorIsAhead
  <2>2. EditorIsAhead'
    BY <1>8, <2>1 DEF E!OpenEditor, EditorIsAhead
  <2>3. \A c \in typed' : Survives(c)'
    BY <1>2, <1>8 DEF E!OpenEditor, Survives
  <2> QED
    BY <1>3, <2>2, <2>3
<1>9. ASSUME E!CloseEditor \/ E!Unmount PROVE EditorIsAhead' /\ E!ChangesSurvive'
  <2>1. E!CloseEditor /\ timer = {}
    BY <1>9 DEF E!CloseEditor, E!Unmount, E!Leaving, E!Slip
  <2> QED
    BY <1>4, <2>1 DEF E!CloseEditor
<1>10. ASSUME E!Type PROVE EditorIsAhead' /\ E!ChangesSurvive'
  <2>1. /\ mode = "edit" /\ edits < MaxEdits /\ doc' = [doc EXCEPT !.has = @ \cup {edits + 1}]
        /\ timer' = E!Arm(doc') /\ typed' = typed \cup {<<selected, edits + 1>>}
        /\ UNCHANGED <<disk, selected, mode>>
    BY <1>10 DEF E!Type
  <2>2. doc'.has = doc.has \cup {edits + 1}
    BY <1>1, <2>1 DEF E!Text
  <2>3. edits + 1 \notin lastLoaded.has
    BY <1>1, <2>1 DEF EditorTypes, TextsAreOld, Fresh, EditorBounds
  <2>4. timer' = {[file |-> selected, text |-> doc']}
    BY <2>1, <2>2, <2>3 DEF E!Arm
  <2>5. EditorIsAhead'
    <3>1. disk'[selected'].has \subseteq doc'.has
      BY <2>1, <2>2 DEF EditorIsAhead
    <3>2. \A t \in timer' : mode' = "edit" /\ t.file = selected' /\ t.text = doc'
      BY <2>1, <2>4
    <3> QED
      BY <3>1, <3>2 DEF EditorIsAhead
  <2>6. ASSUME NEW c \in typed' PROVE Survives(c)'
    <3>1. CASE c = <<selected, edits + 1>>
      BY <2>2, <2>4, <3>1 DEF Survives
    <3>2. CASE c \in typed
      <4>1. CASE c[2] \in disk[c[1]].has
        BY <2>1, <4>1 DEF Survives
      <4>2. CASE \E t \in timer : t.file = c[1] /\ c[2] \in t.text.has
        BY <2>2, <2>4, <4>2 DEF Survives, EditorIsAhead
      <4> QED
        BY <1>2, <3>2, <4>1, <4>2 DEF Survives
    <3> QED
      BY <2>1, <3>1, <3>2
  <2> QED
    BY <1>3, <2>5, <2>6
<1>11. ASSUME E!Fire PROVE EditorIsAhead' /\ E!ChangesSurvive'
  <2>1. PICK t \in timer : disk' = [disk EXCEPT ![t.file] = t.text]
    BY <1>11 DEF E!Fire
  <2>2. timer' = {} /\ UNCHANGED <<selected, mode, doc, typed>>
    BY <1>11 DEF E!Fire
  <2>3. /\ t.file = selected /\ t.text = doc /\ mode = "edit" /\ disk[selected].has \subseteq doc.has
        /\ selected \in Files /\ timer = {t}
    BY <1>1, <2>1 DEF EditorIsAhead, EditorTypes, OneTimer
  <2>4. disk' = [disk EXCEPT ![selected] = doc]
    BY <2>1, <2>3
  <2>5. EditorIsAhead'
    BY <1>1, <2>2, <2>3, <2>4 DEF EditorIsAhead
  <2>6. ASSUME NEW c \in typed' PROVE Survives(c)'
    <3>1. c \in typed /\ c[1] \in Files
      BY <1>1, <2>2
    <3>2. CASE c[1] = selected
      BY <1>1, <1>2, <2>3, <2>4, <3>1, <3>2 DEF Survives
    <3>3. CASE c[1] # selected
      BY <1>1, <1>2, <2>3, <2>4, <3>1, <3>3 DEF Survives
    <3> QED
      BY <3>2, <3>3
  <2> QED
    BY <1>3, <2>5, <2>6
<1>12. ASSUME NEW f \in Files, E!ForeignWrite(f) PROVE EditorIsAhead' /\ E!ChangesSurvive'
  <2> DEFINE n == MaxEdits + foreign + 1
             x == [disk[f] EXCEPT !.has = @ \cup {n}]
  <2>1. f # selected /\ timer = {}
    BY <1>12 DEF E!ForeignWrite, E!Slip
  <2>2. /\ disk' = [disk EXCEPT ![f] = x] /\ typed' = typed \cup {<<f, n>>}
        /\ UNCHANGED <<selected, mode, doc, timer>>
    BY <1>12 DEF E!ForeignWrite
  <2>3. x.has = disk[f].has \cup {n}
    BY <1>1 DEF E!Text
  <2> HIDE DEF n, x
  <2>4. \A g \in Files : disk'[g] = IF g = f THEN x ELSE disk[g]
    BY <1>1, <2>2
  <2>5. EditorIsAhead'
    <3>1. mode = "edit" => selected \in Files
      BY <1>1 DEF EditorTypes, EditsAFile
    <3> QED
      BY <2>1, <2>2, <2>4, <3>1 DEF EditorIsAhead
  <2>6. ASSUME NEW c \in typed' PROVE Survives(c)'
    <3>1. CASE c = <<f, n>>
      BY <2>3, <2>4, <3>1 DEF Survives
    <3>2. CASE c \in typed
      <4>1. c[1] \in Files /\ c[2] \in disk[c[1]].has
        BY <1>1, <1>2, <2>1, <3>2 DEF Survives
      <4> QED
        BY <2>3, <2>4, <4>1 DEF Survives
    <3> QED
      BY <2>2, <3>1, <3>2
  <2> QED
    BY <1>3, <2>5, <2>6
<1> QED
  BY <1>5, <1>6, <1>7, <1>8, <1>9, <1>10, <1>11, <1>12 DEF E!Next

LEMMA InitEInv ==
  ASSUME EditorBounds, E!Init
  PROVE  EInv
<1>1. E!Empty \in E!Text /\ E!Empty.has = {}
  BY DEF E!Empty, E!Text
<1>2. \A f \in Files : disk[f] \in E!Text /\ disk[f].of = f /\ disk[f].has = {}
  BY DEF E!Init, E!Text
<1>3. E!Cardinality(timer) <= 1
  BY FewAreOne DEF E!Init
<1>4. E!TypeOK
  BY <1>1, <1>2, <1>3 DEF E!Init, E!TypeOK, EditorBounds
<1>5. OneTimer /\ EditsAFile /\ TextsAreOld
  BY <1>1, <1>2 DEF E!Init, OneTimer, EditsAFile, TextsAreOld, Fresh
<1>6. TextsAreHome
  BY <1>2 DEF E!Init, TextsAreHome
<1>7. EditorIsAhead /\ E!ChangesSurvive
  BY DEF E!Init, EditorIsAhead, E!ChangesSurvive
<1> QED
  BY <1>4, <1>5, <1>6, <1>7 DEF EInv

LEMMA NextEInv ==
  ASSUME EditorBounds, EInv, [E!Next]_(E!vars)
  PROVE  EInv'
<1>1. CASE E!Next
  <2>1. EditorTypes'
    BY <1>1, EditorKeepsTypes DEF EInv, EditorTypes
  <2>2. "rushed" \notin slips' => TextsAreHome'
    BY <1>1, EditorKeepsHome DEF EInv, EditorTypes
  <2>3. ASSUME slips' = {} PROVE EditorIsAhead' /\ E!ChangesSurvive'
    <3>1. slips = {} /\ TextsAreHome /\ EditorIsAhead /\ E!ChangesSurvive
      BY <1>1, <2>3, SlipsStay DEF EInv
    <3> QED
      BY <1>1, <2>3, <3>1, EditorStaysAhead DEF EInv, EditorTypes
  <2> QED
    BY <2>1, <2>2, <2>3 DEF EInv, EditorTypes
<1>2. CASE UNCHANGED E!vars
  BY <1>2
  DEF E!vars, E!counters, EInv, E!TypeOK, OneTimer, EditsAFile, TextsAreOld, Fresh, TextsAreHome, EditorIsAhead,
      E!ChangesSurvive
<1> QED
  BY <1>1, <1>2

LEMMA EInvSuffices ==
  ASSUME EditorBounds, EInv
  PROVE  E!TypeOK /\ E!NoForeignText /\ E!ChangesSurvive
BY DEF EInv, E!NoForeignText, TextsAreHome, E!ChangesSurvive

\* What the user types into a page goes to that page and to no other, though
\* the save comes a second later, when something else may be selected, and it
\* is there in the end (preview-panel.tsx): the first as long as nobody edits
\* or leaves a file before it is loaded, the second as long as nobody leaves
\* it before it is saved or writes it from elsewhere.
THEOREM EditsStayHome ==
  ASSUME EditorBounds
  PROVE  E!Spec => [](E!TypeOK /\ E!NoForeignText /\ E!ChangesSurvive)
<1>1. E!Init => EInv
  BY InitEInv
<1>2. EInv /\ [E!Next]_(E!vars) => EInv'
  BY NextEInv
<1>3. EInv => E!TypeOK /\ E!NoForeignText /\ E!ChangesSurvive
  BY EInvSuffices
<1> QED
  BY <1>1, <1>2, <1>3, PTL DEF E!Spec
-----------------------------------------------------------------------------
(***************************************************************************)
(* The clips.                                                              *)
(***************************************************************************)
ClipBounds == /\ MaxClips \in Nat /\ MaxSwitches \in Nat /\ MaxRestarts \in Nat
              /\ Usable \in BOOLEAN

AllClips == (1..MaxClips) \X Projects
ClipTypes ==
  /\ open \in Projects /\ (\E p \in Projects : current = {p})
  /\ files \subseteq AllClips /\ pending \subseteq files
  /\ poll \in [Polls -> [pc : {"idle", "each", "list"}, project : SUBSET Projects,
                         rest : SUBSET files, now : SUBSET files]]
  /\ enqueued \subseteq [clip : 1..MaxClips, project : Projects, poll : Polls, times : Nat]
  /\ server \in {"running", "error"}
  /\ restarts \in 0..MaxRestarts /\ clips \in 0..MaxClips /\ switches \in 0..MaxSwitches

\* A number is that of one file, and none is given twice.
NumbersAreTaken ==
  /\ \A c \in files : c[1] <= clips
  /\ \A c, d \in files : c[1] = d[1] => c = d

\* A poll works for one project; the clip it lists is of that project, and it
\* is the project that is open if the user stays.
PollsAreWhole ==
  \A i \in Polls :
    /\ poll[i].pc = "idle" => poll[i].rest = {}
    /\ poll[i].pc # "idle" => \E p \in Projects : poll[i].project = {p}
    /\ poll[i].pc # "list" => poll[i].now = {}
    /\ poll[i].pc = "list" => \E c \in files : poll[i].now = {c} /\ c \notin poll[i].rest
                                               /\ poll[i].project = {c[2]}
    /\ switches = 0 /\ poll[i].pc # "idle" => poll[i].project = {open}

\* A clip is in one place: waiting, in the hands of one poll, or enqueued.
Hands(i) == poll[i].rest \cup poll[i].now
OnePlace ==
  /\ \A i \in Polls : Hands(i) \cap pending = {}
  /\ \A i, j \in Polls : i # j => Hands(i) \cap Hands(j) = {}
  /\ \A e \in enqueued : \A c \in pending : e.clip # c[1]
  /\ \A e \in enqueued, i \in Polls : \A c \in Hands(i) : e.clip # c[1]

CInv == ClipTypes /\ NumbersAreTaken /\ PollsAreWhole /\ OnePlace
        /\ C!ClipsOnceAndHome /\ C!ClipsAreKept

\* Where a clip is until it is ingested.
Kept(c) == \/ c \in pending \/ \E i \in Polls : c \in Hands(i)
           \/ \E e \in enqueued : e.clip = c[1]

LEMMA KeptIsKept ==
  C!ClipsAreKept <=> (Usable /\ switches = 0 => \A c \in files : c[2] = open => Kept(c))
BY DEF C!ClipsAreKept, Kept, Hands

LEMMA ClipTypesSuffice ==
  ASSUME ClipBounds, ClipTypes
  PROVE  C!TypeOK
<1>1. C!Cardinality(current) <= 1
  <2>1. PICK p \in Projects : current = {p}
    BY DEF ClipTypes
  <2>2. Cardinality({p}) = 1
    BY FS_Singleton
  <2>3. C!Cardinality(current) = Cardinality(current)
    BY DEF C!Cardinality, Cardinality
  <2> QED
    BY <2>1, <2>2, <2>3
<1>2. \A e \in enqueued : e.clip \in C!Clips /\ e.project \in Projects /\ e.poll \in Polls /\ e.times \in Nat
  BY DEF ClipTypes, C!Clips
<1>3. \A i \in Polls :
       /\ poll[i].pc \in {"idle", "each", "list"} /\ poll[i].project \subseteq Projects
       /\ poll[i].rest \subseteq files /\ poll[i].now \subseteq files
  BY DEF ClipTypes
<1> QED
  BY <1>1, <1>2, <1>3 DEF ClipTypes, AllClips, C!TypeOK, C!Clips

LEMMA InitCInv ==
  ASSUME ClipBounds, C!Init
  PROVE  CInv
<1> USE DEF C!Init, C!NoPoll
<1>1. ClipTypes
  BY DEF ClipTypes, ClipBounds
<1>2. NumbersAreTaken /\ PollsAreWhole
  BY DEF NumbersAreTaken, PollsAreWhole
<1>3. OnePlace
  BY DEF OnePlace, Hands
<1>4. C!ClipsOnceAndHome /\ C!ClipsAreKept
  BY DEF C!ClipsOnceAndHome, C!ClipsAreKept
<1> QED
  BY <1>1, <1>2, <1>3, <1>4 DEF CInv

LEMMA ClipStoredKeepsCInv ==
  ASSUME ClipBounds, CInv, NEW named \in SUBSET Projects, C!handle_clip(named)
  PROVE  CInv'
<1>1. PICK p \in Projects : files' = files \cup {<<clips + 1, p>>} /\ pending' = pending \cup {<<clips + 1, p>>}
  BY DEF C!handle_clip, CInv, ClipTypes
<1> DEFINE n == <<clips + 1, p>>
<1>2. /\ clips < MaxClips /\ clips' = clips + 1
      /\ UNCHANGED <<open, current, poll, enqueued, server, restarts, switches>>
  BY DEF C!handle_clip
<1>3. n \in AllClips /\ n \notin files /\ n[1] = clips + 1 /\ clips \in Nat
  BY <1>2 DEF AllClips, CInv, ClipTypes, NumbersAreTaken, ClipBounds
<1>4. \A c \in files : c[1] # n[1] /\ c[1] \in 1..MaxClips
  BY <1>3 DEF CInv, NumbersAreTaken, ClipTypes, AllClips
<1>5. \A e \in enqueued : e.clip # n[1]
  <2>1. \A e \in enqueued : <<e.clip, e.project>> \in files
    BY DEF CInv, C!ClipsOnceAndHome
  <2> QED
    BY <1>4, <2>1
<1>6. \A i \in Polls : Hands(i) \subseteq files /\ Hands(i)' = Hands(i)
  BY <1>2 DEF CInv, ClipTypes, Hands
<1> HIDE DEF n
<1>7. files' = files \cup {n} /\ pending' = pending \cup {n}
  BY <1>1 DEF n
<1>8. ClipTypes'
  <2>1. poll' \in [Polls -> [pc : {"idle", "each", "list"}, project : SUBSET Projects,
                             rest : SUBSET files', now : SUBSET files']]
    <3>1. [pc : {"idle", "each", "list"}, project : SUBSET Projects, rest : SUBSET files, now : SUBSET files]
            \subseteq [pc : {"idle", "each", "list"}, project : SUBSET Projects, rest : SUBSET files', now : SUBSET files']
      BY <1>7
    <3> QED
      BY <1>2, <3>1 DEF CInv, ClipTypes
  <2>2. clips' \in 0..MaxClips
    BY <1>2, <1>3 DEF ClipBounds
  <2> QED
    BY <1>2, <1>3, <1>7, <2>1, <2>2 DEF CInv, ClipTypes
<1>9. NumbersAreTaken'
  BY <1>2, <1>3, <1>4, <1>7 DEF CInv, NumbersAreTaken
<1>10. PollsAreWhole'
  BY <1>2, <1>7 DEF CInv, PollsAreWhole
<1>11. OnePlace'
  BY <1>2, <1>3, <1>5, <1>6, <1>7 DEF CInv, OnePlace
<1>12. C!ClipsOnceAndHome'
  BY <1>2, <1>7 DEF CInv, C!ClipsOnceAndHome
<1>13. C!ClipsAreKept'
  <2>1. ASSUME Usable, switches = 0, NEW c \in files', c[2] = open PROVE Kept(c)'
    BY <1>2, <1>6, <1>7, <2>1, KeptIsKept DEF CInv, Kept
  <2> QED
    BY <1>2, <2>1 DEF C!ClipsAreKept, Kept, Hands
<1> QED
  BY <1>8, <1>9, <1>10, <1>11, <1>12, <1>13 DEF CInv

\* Steps that leave the clips where they are.
LEMMA ElsewhereKeepsCInv ==
  ASSUME ClipBounds, CInv, UNCHANGED <<files, pending, poll, enqueued, clips>>,
         ClipTypes', (switches' = switches /\ open' = open) \/ switches' # 0
  PROVE  CInv'
<1>1. NumbersAreTaken' /\ PollsAreWhole'
  BY DEF CInv, NumbersAreTaken, PollsAreWhole
<1>2. OnePlace'
  BY DEF CInv, OnePlace, Hands
<1>3. C!ClipsOnceAndHome' /\ C!ClipsAreKept'
  BY DEF CInv, C!ClipsOnceAndHome, C!ClipsAreKept
<1> QED
  BY <1>1, <1>2, <1>3 DEF CInv

LEMMA FetchKeepsCInv ==
  ASSUME ClipBounds, CInv, NEW i \in Polls, C!Fetch(i)
  PROVE  CInv'
<1> DEFINE q == [pc |-> "each", project |-> {open}, rest |-> pending, now |-> {}]
<1>1. /\ poll' = [poll EXCEPT ![i] = q] /\ pending' = {} /\ poll[i].pc = "idle"
      /\ UNCHANGED <<open, current, files, enqueued, server, restarts, clips, switches>>
  BY DEF C!Fetch
<1>2. \A j \in Polls : poll'[j] = IF j = i THEN q ELSE poll[j]
  BY <1>1 DEF CInv, ClipTypes
<1>3. ClipTypes'
  <2>1. q \in [pc : {"idle", "each", "list"}, project : SUBSET Projects, rest : SUBSET files, now : SUBSET files]
    BY DEF CInv, ClipTypes
  <2> QED
    BY <1>1, <2>1 DEF CInv, ClipTypes
<1>4. \A j \in Polls : Hands(j)' = IF j = i THEN pending ELSE Hands(j)
  BY <1>2 DEF Hands
<1>5. Hands(i) = {}
  BY <1>1 DEF CInv, PollsAreWhole, Hands
<1>6. NumbersAreTaken' /\ PollsAreWhole'
  BY <1>1, <1>2 DEF CInv, ClipTypes, NumbersAreTaken, PollsAreWhole
<1>7. OnePlace'
  <2>1. \A k, l \in Polls : k # l => Hands(k)' \cap Hands(l)' = {}
    BY <1>4 DEF CInv, OnePlace
  <2> QED
    BY <1>1, <1>4, <2>1 DEF CInv, OnePlace
<1>8. C!ClipsOnceAndHome'
  BY <1>1 DEF CInv, C!ClipsOnceAndHome
<1>9. C!ClipsAreKept'
  <2>1. ASSUME Usable, switches = 0, NEW c \in files, c[2] = open PROVE Kept(c)'
    BY <1>1, <1>4, <1>5, <2>1, KeptIsKept DEF CInv, Kept
  <2> QED
    BY <1>1, <2>1 DEF C!ClipsAreKept, Kept, Hands
<1> QED
  BY <1>3, <1>6, <1>7, <1>8, <1>9 DEF CInv

LEMMA TakeKeepsCInv ==
  ASSUME ClipBounds, CInv, NEW i \in Polls, C!Take(i)
  PROVE  CInv'
<1>1. /\ poll[i].pc = "each"
      /\ UNCHANGED <<open, current, files, pending, enqueued, server, restarts, clips, switches>>
  BY DEF C!Take
<1>2. /\ ClipTypes /\ NumbersAreTaken /\ PollsAreWhole /\ OnePlace
      /\ C!ClipsOnceAndHome /\ C!ClipsAreKept /\ poll[i].now = {}
  BY <1>1 DEF CInv, PollsAreWhole
<1>3. PICK q \in [pc : {"idle", "each", "list"}, project : SUBSET Projects, rest : SUBSET files, now : SUBSET files] :
        /\ poll' = [poll EXCEPT ![i] = q]
        /\ q.rest \cup q.now \subseteq poll[i].rest
        /\ \A c \in poll[i].rest : c \notin q.rest \cup q.now => c[2] \notin poll[i].project
        /\ q.pc = "idle" => q.rest = {}
        /\ q.pc # "list" => q.now = {}
        /\ q.pc = "list" => \E c \in files : q.now = {c} /\ c \notin q.rest /\ c[2] \in poll[i].project
        /\ q.pc # "idle" => q.project = poll[i].project
  <2>1. CASE poll[i].rest = {}
    <3>1. poll' = [poll EXCEPT ![i] = C!NoPoll]
      BY <2>1 DEF C!Take
    <3>2. C!NoPoll \in [pc : {"idle", "each", "list"}, project : SUBSET Projects, rest : SUBSET files, now : SUBSET files]
      BY DEF C!NoPoll
    <3> QED
      BY <2>1, <3>1, <3>2 DEF C!NoPoll
  <2>2. CASE poll[i].rest # {}
    <3>1. PICK c \in poll[i].rest :
            poll' = [poll EXCEPT ![i].rest = @ \ {c},
                       ![i].pc = IF c[2] \in poll[i].project THEN "list" ELSE "each",
                       ![i].now = IF c[2] \in poll[i].project THEN {c} ELSE {}]
      BY <2>2 DEF C!Take
    <3> DEFINE q == [poll[i] EXCEPT !.rest = @ \ {c},
                       !.pc = IF c[2] \in poll[i].project THEN "list" ELSE "each",
                       !.now = IF c[2] \in poll[i].project THEN {c} ELSE {}]
    <3>2. poll[i] \in [pc : {"idle", "each", "list"}, project : SUBSET Projects,
                       rest : SUBSET files, now : SUBSET files]
      BY <1>2 DEF ClipTypes
    <3>3. poll' = [poll EXCEPT ![i] = q]
      BY <1>2, <3>1 DEF ClipTypes
    <3>4. /\ q.rest = poll[i].rest \ {c} /\ q.pc = (IF c[2] \in poll[i].project THEN "list" ELSE "each")
          /\ q.now = (IF c[2] \in poll[i].project THEN {c} ELSE {}) /\ q.project = poll[i].project
          /\ q \in [pc : {"idle", "each", "list"}, project : SUBSET Projects, rest : SUBSET files, now : SUBSET files]
          /\ c \in files
      BY <3>1, <3>2
    <3> HIDE DEF q
    <3> QED
      BY <3>3, <3>4
  <2> QED
    BY <2>1, <2>2
<1>4. \A j \in Polls : poll'[j] = IF j = i THEN q ELSE poll[j]
  BY <1>2, <1>3 DEF ClipTypes
<1>5. ClipTypes'
  BY <1>1, <1>2, <1>3 DEF ClipTypes
<1>6. \A j \in Polls : Hands(j)' \subseteq Hands(j)
  BY <1>2, <1>3, <1>4 DEF Hands
<1>7. NumbersAreTaken'
  BY <1>1, <1>2 DEF NumbersAreTaken
<1>8. PollsAreWhole'
  BY <1>1, <1>2, <1>3, <1>4 DEF PollsAreWhole
<1>9. OnePlace'
  BY <1>1, <1>2, <1>6 DEF OnePlace
<1>10. C!ClipsOnceAndHome'
  BY <1>1, <1>2 DEF C!ClipsOnceAndHome
<1>11. C!ClipsAreKept'
  <2>1. ASSUME Usable, switches = 0, NEW c \in files, c[2] = open PROVE Kept(c)'
    <3>1. Kept(c)
      BY <1>2, <2>1, KeptIsKept
    <3>2. ASSUME NEW j \in Polls, c \in Hands(j) PROVE c \in Hands(j)'
      BY <1>1, <1>2, <1>3, <1>4, <2>1, <3>2 DEF PollsAreWhole, Hands
    <3> QED
      BY <1>1, <3>1, <3>2 DEF Kept
  <2> QED
    BY <1>1, <2>1 DEF C!ClipsAreKept, Kept, Hands
<1> QED
  BY <1>5, <1>7, <1>8, <1>9, <1>10, <1>11 DEF CInv

LEMMA EnqueueKeepsCInv ==
  ASSUME ClipBounds, CInv, NEW i \in Polls, C!Enqueue(i)
  PROVE  CInv'
<1>1. /\ poll[i].pc = "list" /\ poll' = [poll EXCEPT ![i].pc = "each", ![i].now = {}]
      /\ UNCHANGED <<open, current, files, pending, server, restarts, clips, switches>>
  BY DEF C!Enqueue
<1>2. /\ ClipTypes /\ NumbersAreTaken /\ PollsAreWhole /\ OnePlace
      /\ C!ClipsOnceAndHome /\ C!ClipsAreKept
  BY DEF CInv
<1>3. PICK c \in files : poll[i].now = {c} /\ poll[i].project = {c[2]} /\ c \notin poll[i].rest
  BY <1>1, <1>2 DEF PollsAreWhole
<1>4. c[1] \in 1..MaxClips /\ c[2] \in Projects /\ c = <<c[1], c[2]>>
  BY <1>2 DEF ClipTypes, AllClips
<1> DEFINE n == [clip |-> c[1], project |-> c[2], poll |-> i, times |-> 1]
<1>5. \A e \in enqueued : e.clip # c[1]
  BY <1>2, <1>3 DEF OnePlace, Hands
<1>6. enqueued' = IF Usable /\ c[2] = open THEN enqueued \cup {n} ELSE enqueued
  <2>1. enqueued' = IF Usable /\ c[2] = open
           THEN {[e EXCEPT !.times = IF e.clip = c[1] THEN @ + 1 ELSE @] : e \in enqueued}
                \cup (IF \E e \in enqueued : e.clip = c[1] THEN {} ELSE {n})
           ELSE enqueued
    <3>1. PICK d \in poll[i].now, p \in poll[i].project :
            enqueued' = IF Usable /\ p = open
              THEN {[e EXCEPT !.times = IF e.clip = d[1] THEN @ + 1 ELSE @] : e \in enqueued}
                   \cup (IF \E e \in enqueued : e.clip = d[1] THEN {}
                         ELSE {[clip |-> d[1], project |-> p, poll |-> i, times |-> 1]})
              ELSE enqueued
      BY DEF C!Enqueue
    <3>2. d = c /\ p = c[2]
      BY <1>3
    <3> QED
      BY <3>1, <3>2
  <2>2. \A e \in enqueued : [e EXCEPT !.times = IF e.clip = c[1] THEN @ + 1 ELSE @] = e
    BY <1>2, <1>5 DEF ClipTypes
  <2>3. {[e EXCEPT !.times = IF e.clip = c[1] THEN @ + 1 ELSE @] : e \in enqueued} = enqueued
    BY <2>2
  <2> QED
    BY <1>5, <2>1, <2>3
<1>7. /\ n \in [clip : 1..MaxClips, project : Projects, poll : Polls, times : Nat]
      /\ n.clip = c[1] /\ n.project = c[2] /\ n.times = 1
  BY <1>4
<1> HIDE DEF n
<1> DEFINE q == [poll[i] EXCEPT !.pc = "each", !.now = {}]
<1>8. /\ poll' = [poll EXCEPT ![i] = q]
      /\ q \in [pc : {"idle", "each", "list"}, project : SUBSET Projects, rest : SUBSET files, now : SUBSET files]
      /\ q.pc = "each" /\ q.now = {} /\ q.rest = poll[i].rest /\ q.project = poll[i].project
  <2>1. poll[i] \in [pc : {"idle", "each", "list"}, project : SUBSET Projects,
                     rest : SUBSET files, now : SUBSET files]
    BY <1>2 DEF ClipTypes
  <2> QED
    BY <1>1, <1>2, <2>1 DEF ClipTypes
<1> HIDE DEF q
<1>9. \A j \in Polls : poll'[j] = IF j = i THEN q ELSE poll[j]
  BY <1>2, <1>8 DEF ClipTypes
<1>10. \A j \in Polls : Hands(j)' = IF j = i THEN Hands(j) \ {c} ELSE Hands(j)
  BY <1>3, <1>8, <1>9 DEF Hands
<1>11. ClipTypes'
  <2>1. enqueued' \subseteq [clip : 1..MaxClips, project : Projects, poll : Polls, times : Nat]
    BY <1>2, <1>6, <1>7 DEF ClipTypes
  <2>2. poll' \in [Polls -> [pc : {"idle", "each", "list"}, project : SUBSET Projects,
                             rest : SUBSET files, now : SUBSET files]]
    BY <1>2, <1>8 DEF ClipTypes
  <2> QED
    BY <1>1, <1>2, <2>1, <2>2 DEF ClipTypes
<1>12. NumbersAreTaken'
  BY <1>1, <1>2 DEF NumbersAreTaken
<1>13. PollsAreWhole'
  <2>1. ASSUME NEW j \in Polls
        PROVE  /\ poll'[j].pc = "idle" => poll'[j].rest = {}
               /\ poll'[j].pc # "idle" => \E p \in Projects : poll'[j].project = {p}
               /\ poll'[j].pc # "list" => poll'[j].now = {}
               /\ poll'[j].pc = "list" => \E d \in files : poll'[j].now = {d} /\ d \notin poll'[j].rest
                                                           /\ poll'[j].project = {d[2]}
               /\ switches = 0 /\ poll'[j].pc # "idle" => poll'[j].project = {open}
    <3>1. CASE j = i
      BY <1>1, <1>2, <1>3, <1>4, <1>8, <1>9, <3>1 DEF PollsAreWhole
    <3>2. CASE j # i
      BY <1>2, <1>9, <3>2 DEF PollsAreWhole
    <3> QED
      BY <3>1, <3>2
  <2> QED
    BY <1>1, <2>1 DEF PollsAreWhole
<1>14. OnePlace'
  <2>1. \A d \in pending : d[1] # c[1]
    BY <1>2, <1>3 DEF OnePlace, Hands, ClipTypes, NumbersAreTaken
  <2>2. ASSUME NEW j \in Polls, NEW d \in Hands(j)' PROVE d[1] # c[1]
    <3>1. d \in files /\ d # c
      BY <1>2, <1>3, <1>10 DEF OnePlace, Hands, ClipTypes
    <3> QED
      BY <1>2, <3>1 DEF NumbersAreTaken
  <2>3. \A j \in Polls : Hands(j)' \subseteq Hands(j)
    BY <1>10
  <2> QED
    BY <1>1, <1>2, <1>6, <1>7, <2>1, <2>2, <2>3 DEF OnePlace
<1>15. C!ClipsOnceAndHome'
  BY <1>1, <1>2, <1>4, <1>6, <1>7 DEF C!ClipsOnceAndHome
<1>16. C!ClipsAreKept'
  <2>1. ASSUME Usable, switches = 0, NEW d \in files, d[2] = open PROVE Kept(d)'
    <3>1. Kept(d)
      BY <1>2, <2>1, KeptIsKept
    <3>2. CASE d = c
      BY <1>6, <1>7, <2>1, <3>2 DEF Kept
    <3>3. CASE d # c
      BY <1>1, <1>6, <1>10, <3>1, <3>3 DEF Kept
    <3> QED
      BY <3>2, <3>3
  <2> QED
    BY <1>1, <2>1 DEF C!ClipsAreKept, Kept, Hands
<1> QED
  BY <1>11, <1>12, <1>13, <1>14, <1>15, <1>16 DEF CInv

LEMMA NextCInv ==
  ASSUME ClipBounds, CInv, [C!Next]_(C!vars)
  PROVE  CInv'
<1>1. ASSUME NEW i \in Polls, C!Fetch(i) \/ C!Take(i) \/ C!Enqueue(i) PROVE CInv'
  BY <1>1, FetchKeepsCInv, TakeKeepsCInv, EnqueueKeepsCInv
<1>2. ASSUME NEW named \in SUBSET Projects, C!handle_clip(named) PROVE CInv'
  BY <1>2, ClipStoredKeepsCInv
<1>3. ASSUME NEW p \in Projects, C!SwitchProject(p) PROVE CInv'
  <2>1. switches' # 0 /\ UNCHANGED <<files, pending, poll, enqueued, clips>>
    BY <1>3 DEF C!SwitchProject, CInv, ClipTypes, ClipBounds
  <2>2. ClipTypes'
    BY <1>3 DEF C!SwitchProject, CInv, ClipTypes, ClipBounds
  <2> QED
    BY <2>1, <2>2, ElsewhereKeepsCInv
<1>4. ASSUME C!ServerStops \/ C!ServerRestarts PROVE CInv'
  <2>1. UNCHANGED <<open, current, files, pending, poll, enqueued, clips, switches>>
    BY <1>4 DEF C!ServerStops, C!ServerRestarts
  <2>2. server' \in {"running", "error"} /\ restarts' \in 0..MaxRestarts
    BY <1>4 DEF C!ServerStops, C!ServerRestarts, CInv, ClipTypes, ClipBounds
  <2>3. ClipTypes'
    BY <2>1, <2>2 DEF CInv, ClipTypes
  <2> QED
    BY <2>1, <2>3, ElsewhereKeepsCInv
<1>5. ASSUME UNCHANGED C!vars PROVE CInv'
  <2>1. UNCHANGED <<open, current, files, pending, poll, enqueued, server, restarts, clips, switches>>
    BY <1>5 DEF C!vars
  <2>2. ClipTypes'
    BY <2>1 DEF CInv, ClipTypes
  <2> QED
    BY <2>1, <2>2, ElsewhereKeepsCInv
<1> QED
  BY <1>1, <1>2, <1>3, <1>4, <1>5 DEF C!Next, C!Step

LEMMA CInvSuffices ==
  ASSUME ClipBounds, CInv
  PROVE  C!TypeOK /\ C!ClipsOnceAndHome /\ C!ClipsAreKept
BY ClipTypesSuffice DEF CInv

\* A clip is enqueued once, by its own project, though polls overlap and the
\* user moves on; and until it is, it waits or is in the hands of a poll as
\* long as the user stays (clip-watcher.ts, clip_server.rs).
THEOREM ClipsArriveOnce ==
  ASSUME ClipBounds
  PROVE  C!Spec => [](C!TypeOK /\ C!ClipsOnceAndHome /\ C!ClipsAreKept)
<1>1. C!Init => CInv
  BY InitCInv
<1>2. CInv /\ [C!Next]_(C!vars) => CInv'
  BY NextCInv
<1>3. CInv => C!TypeOK /\ C!ClipsOnceAndHome /\ C!ClipsAreKept
  BY CInvSuffices
<1> QED
  BY <1>1, <1>2, <1>3, PTL DEF C!Spec
-----------------------------------------------------------------------------
(***************************************************************************)
(* Research.                                                               *)
(***************************************************************************)
LEMMA HasLeast ==
  ASSUME NEW S \in SUBSET Nat, S # {}
  PROVE  \E m \in S : \A i \in S : m <= i
<1>1. PICK m \in S : \A i \in S : ~ (<<i, m>> \in OpToRel(<, Nat))
  BY WFMin, NatLessThanWellFounded
<1>2. \A i \in S : i < m => <<i, m>> \in OpToRel(<, Nat)
  BY DEF OpToRel
<1>3. \A i \in S : ~(i < m)
  BY <1>1, <1>2
<1>4. m \in Nat /\ \A i \in S : i \in Nat
  OBVIOUS
<1>5. \A i \in S : m <= i
  BY <1>3, <1>4
<1> QED
  BY <1>5

LEMMA HasGreatest ==
  ASSUME NEW n \in Nat, NEW S \in SUBSET (1..n), S # {}
  PROVE  \E m \in S : \A i \in S : i <= m
<1> DEFINE D == {n - i : i \in S}
<1>1. D \in SUBSET Nat /\ D # {}
  <2>1. \A i \in S : i \in 1..n /\ n - i \in Nat
    OBVIOUS
  <2> QED
    BY <2>1
<1>2. PICK d \in D : \A e \in D : d <= e
  BY <1>1, HasLeast
<1>3. PICK m \in S : d = n - m
  BY <1>2
<1>4. ASSUME NEW i \in S PROVE i <= m
  <2>1. n - i \in D /\ i \in 1..n /\ m \in 1..n
    OBVIOUS
  <2>2. n - m <= n - i
    BY <1>2, <1>3, <2>1
  <2> QED
    BY <2>1, <2>2
<1> QED
  BY <1>4

\* As many of the waiting are first as there are slots, and no more.
LEMMA FirstFit ==
  ASSUME NEW n \in Nat, NEW Q \in SUBSET (1..n), NEW k \in Nat, NEW r \in Nat, r <= k,
         NEW F, F = {i \in Q : Cardinality({j \in Q : j < i}) + r < k}
  PROVE  Cardinality(F) + r <= k
<1>1. CASE F = {}
  <2>1. Cardinality(F) = 0
    BY <1>1, FS_EmptySet
  <2> QED
    BY <2>1
<1>2. CASE F # {}
  <2>1. PICK m \in F : \A i \in F : i <= m
    BY <1>2, HasGreatest
  <2> DEFINE Below == {j \in Q : j < m}
  <2>2. F \subseteq Below \cup {m}
    <3>1. ASSUME NEW i \in F, i # m PROVE i \in Below
      <4>1. i \in Q /\ i \in Nat /\ m \in Nat /\ i <= m
        BY <2>1
      <4> QED
        BY <3>1, <4>1
    <3> QED
      BY <3>1
  <2>3. Cardinality(Below) + r < k
    BY <2>1
  <2>4. IsFiniteSet(Below) /\ Cardinality(Below) \in Nat
    <3>1. Below \in SUBSET (1..n)
      OBVIOUS
    <3>2. IsFiniteSet(1..n)
      BY FS_Interval
    <3> HIDE DEF Below
    <3> QED
      BY <3>1, <3>2, FS_Subset, FS_CardinalityType
  <2> HIDE DEF Below
  <2>5. Cardinality(Below \cup {m}) <= Cardinality(Below) + 1 /\ IsFiniteSet(Below \cup {m})
    <3>1. /\ IsFiniteSet(Below \cup {m})
          /\ Cardinality(Below \cup {m}) = IF m \in Below THEN Cardinality(Below) ELSE Cardinality(Below) + 1
      BY <2>4, FS_AddElement
    <3> QED
      BY <2>4, <3>1
  <2>6. Cardinality(F) <= Cardinality(Below \cup {m}) /\ Cardinality(F) \in Nat
    BY <2>2, <2>5, FS_Subset, FS_CardinalityType
  <2>7. Cardinality(Below \cup {m}) \in Nat
    BY <2>5, FS_CardinalityType
  <2> QED
    BY <2>3, <2>4, <2>5, <2>6, <2>7
<1> QED
  BY <1>1, <1>2

LEMMA LeastIsFirst ==
  ASSUME NEW n \in Nat, NEW Q \in SUBSET (1..n), Q # {}, NEW k \in Nat, k # 0
  PROVE  \E i \in Q : Cardinality({j \in Q : j < i}) + 0 < k
<1>1. PICK i \in Q : \A j \in Q : i <= j
  BY HasLeast
<1>2. {j \in Q : j < i} = {}
  <2>1. ASSUME NEW j \in Q PROVE ~(j < i)
    <3>1. i <= j /\ i \in Nat /\ j \in Nat
      BY <1>1
    <3> QED
      BY <3>1
  <2> QED
    BY <2>1
<1>3. Cardinality({j \in Q : j < i}) = 0
  BY <1>2, FS_EmptySet
<1>4. 0 + 0 < k
  OBVIOUS
<1> QED
  BY <1>3, <1>4

LEMMA SameSize == \A S : R!Cardinality(S) = Cardinality(S)
BY DEF R!Cardinality, Cardinality

ResearchBounds == /\ maxConcurrent \in Nat \ {0}
                  /\ MaxTasks \in Nat /\ MaxResets \in Nat /\ MaxMishaps \in Nat

Run == [pc : R!RunningStatus, path : Projects]
ResearchTypes ==
  /\ project \in Projects
  /\ \E n \in 0..MaxTasks : home \in [1..n -> Projects]
  /\ DOMAIN tasks \subseteq DOMAIN home /\ tasks \in [DOMAIN tasks -> R!Status]
  /\ DOMAIN run \subseteq DOMAIN home /\ run \in [DOMAIN run -> Run]
  /\ wakes \subseteq [by : R!Ids, why : {"queued", "finished"}, path : Projects]
  /\ saved \subseteq (DOMAIN home) \X Projects
  /\ resets \in 0..MaxResets /\ mishaps \in 0..MaxMishaps
  /\ unsettled \in BOOLEAN

\* What the store calls running runs; and unless the store was emptied under
\* it, what runs is in the store.
Running(ts) == {i \in DOMAIN ts : ts[i] \in R!RunningStatus}
SlotsAreTaken == /\ Running(tasks) \subseteq DOMAIN run
                 /\ ~unsettled => DOMAIN run \subseteq Running(tasks)

\* An execution has the path of its own project, unless it is a stray.
PathsAreHome == \A i \in DOMAIN run : run[i].path = home[i] \/ i \in strays

RInv == /\ ResearchTypes /\ SlotsAreTaken /\ PathsAreHome
        /\ R!SlotsAreBounded /\ R!NoStrandedResearch /\ R!PagesGoHome

LEMMA ResearchTypesSuffice ==
  ASSUME ResearchBounds, ResearchTypes
  PROVE  R!TypeOK
<1>1. PICK n \in 0..MaxTasks : home \in [1..n -> Projects]
  BY DEF ResearchTypes
<1>2. DOMAIN home \in SUBSET R!Ids
  BY <1>1 DEF R!Ids, ResearchBounds
<1>3. tasks \in R!Partial(R!Ids, R!Status)
  BY <1>2 DEF ResearchTypes, R!Partial
<1>4. home \in R!Partial(R!Ids, Projects)
  BY <1>1, <1>2 DEF R!Partial
<1>5. \A i \in DOMAIN run : run[i].pc \in R!RunningStatus /\ run[i].path \in Projects
  BY DEF ResearchTypes, Run
<1>6. \A w \in wakes : w.by \in R!Ids /\ w.why \in {"queued", "finished"} /\ w.path \in Projects
  BY DEF ResearchTypes
<1>7. saved \subseteq R!Ids \X Projects
  BY <1>2 DEF ResearchTypes
<1> QED
  BY <1>3, <1>4, <1>5, <1>6, <1>7 DEF ResearchTypes, R!TypeOK

LEMMA RunIsFinite ==
  ASSUME ResearchTypes
  PROVE  /\ IsFiniteSet(DOMAIN run) /\ Cardinality(DOMAIN run) \in Nat
<1>1. PICK n \in 0..MaxTasks : home \in [1..n -> Projects]
  BY DEF ResearchTypes
<1>2. DOMAIN run \in SUBSET (1..n) /\ n \in Int
  BY <1>1 DEF ResearchTypes
<1>3. IsFiniteSet(1..n)
  BY <1>2, FS_Interval
<1>4. IsFiniteSet(DOMAIN run)
  BY <1>2, <1>3, FS_Subset
<1> QED
  BY <1>4, FS_CardinalityType

LEMMA InitRInv ==
  ASSUME ResearchBounds, R!Init
  PROVE  RInv
<1>1. project \in Projects /\ DOMAIN home = {} /\ DOMAIN tasks = {} /\ DOMAIN run = {}
  BY DEF R!Init
<1>2. ResearchTypes
  <2>1. home \in [1..0 -> Projects] /\ 0 \in 0..MaxTasks
    BY DEF R!Init, ResearchBounds
  <2>2. tasks \in [DOMAIN tasks -> R!Status] /\ run \in [DOMAIN run -> Run]
    BY DEF R!Init
  <2>3. \E n \in 0..MaxTasks : home \in [1..n -> Projects]
    BY <2>1
  <2>4. resets = 0 /\ mishaps = MaxMishaps /\ unsettled = FALSE /\ wakes = {} /\ saved = {}
    BY DEF R!Init
  <2> QED
    <3>1. resets \in 0..MaxResets /\ mishaps \in 0..MaxMishaps
      BY <2>4 DEF ResearchBounds
    <3> QED
      BY <1>1, <2>2, <2>3, <2>4, <3>1 DEF ResearchTypes
<1>3. SlotsAreTaken /\ PathsAreHome /\ R!NoStrandedResearch /\ R!PagesGoHome
  BY <1>1 DEF R!Init, SlotsAreTaken, PathsAreHome, Running, R!NoStrandedResearch, R!Queued, R!PagesGoHome
<1>4. R!SlotsAreBounded
  <2>1. R!Cardinality(DOMAIN run) = 0
    BY <1>1, SameSize, FS_EmptySet
  <2> QED
    BY <2>1 DEF R!SlotsAreBounded, ResearchBounds
<1> QED
  BY <1>2, <1>3, <1>4 DEF RInv

\* An execution goes on, or ends with the task in error or done and a wake.
GoesOnOrEnds(id) ==
  \/ \E status \in R!RunningStatus :
       tasks' = R!updateTask(tasks, id, status) /\ run' = [run EXCEPT ![id].pc = status] /\ UNCHANGED wakes
  \/ \E status \in {"done", "error"} :
       R!onTaskFinished(id, status)

LEMMA EndsKeepRInv ==
  ASSUME ResearchBounds, RInv, NEW id \in DOMAIN run, GoesOnOrEnds(id),
         UNCHANGED <<project, resets, home, unsettled, strays>>, mishaps' \in 0..MaxMishaps,
         saved' = saved \/ saved' = saved \cup {<<id, run[id].path>>}
  PROVE  RInv'
<1>1. /\ ResearchTypes /\ SlotsAreTaken /\ PathsAreHome
      /\ R!SlotsAreBounded /\ R!NoStrandedResearch /\ R!PagesGoHome
  BY DEF RInv
<1>2. PICK status \in R!Status \ {"queued"} :
        /\ tasks' = R!updateTask(tasks, id, status)
        /\ \/ status \in R!RunningStatus /\ run' = [run EXCEPT ![id].pc = status] /\ UNCHANGED wakes
           \/ /\ status \notin R!RunningStatus /\ run' = R!Drop(run, {id})
              /\ wakes' = wakes \cup {[by |-> id, why |-> "finished", path |-> run[id].path]}
  BY DEF GoesOnOrEnds, R!onTaskFinished, R!Status, R!RunningStatus
<1>3. /\ DOMAIN tasks' = DOMAIN tasks /\ tasks' \in [DOMAIN tasks -> R!Status]
      /\ \A i \in DOMAIN tasks : tasks'[i] = IF i = id THEN status ELSE tasks[i]
  <2>1. tasks \in [DOMAIN tasks -> R!Status]
    BY <1>1 DEF ResearchTypes
  <2> QED
    BY <1>2, <2>1 DEF R!updateTask
<1>4. /\ DOMAIN run' = IF status \in R!RunningStatus THEN DOMAIN run ELSE DOMAIN run \ {id}
      /\ run' \in [DOMAIN run' -> Run]
      /\ \A i \in DOMAIN run' : run'[i].path = run[i].path
  <2>1. run \in [DOMAIN run -> Run]
    BY <1>1 DEF ResearchTypes
  <2>2. CASE status \in R!RunningStatus
    BY <1>2, <2>1, <2>2 DEF Run
  <2>3. CASE status \notin R!RunningStatus
    BY <1>2, <2>1, <2>3 DEF R!Drop
  <2> QED
    BY <2>2, <2>3
<1>5. run[id].path \in Projects /\ id \in DOMAIN home /\ id \in R!Ids
  <2>1. PICK n \in 0..MaxTasks : home \in [1..n -> Projects]
    BY <1>1 DEF ResearchTypes
  <2> QED
    BY <1>1, <2>1 DEF ResearchTypes, Run, R!Ids, ResearchBounds
<1>6. ResearchTypes'
  <2>1. wakes' \subseteq [by : R!Ids, why : {"queued", "finished"}, path : Projects]
    BY <1>1, <1>2, <1>5 DEF ResearchTypes
  <2>2. saved' \subseteq (DOMAIN home') \X Projects
    BY <1>1, <1>5 DEF ResearchTypes
  <2> QED
    BY <1>1, <1>3, <1>4, <2>1, <2>2 DEF ResearchTypes
<1>7. Running(tasks)' = IF status \in R!RunningStatus /\ id \in DOMAIN tasks
                          THEN Running(tasks) \cup {id} ELSE Running(tasks) \ {id}
  BY <1>3 DEF Running
<1>8. SlotsAreTaken'
  BY <1>1, <1>4, <1>7 DEF SlotsAreTaken, Running
<1>9. PathsAreHome' /\ R!PagesGoHome'
  <2>1. PathsAreHome'
    BY <1>1, <1>4 DEF PathsAreHome
  <2>2. R!PagesGoHome'
    BY <1>1 DEF R!PagesGoHome, PathsAreHome
  <2> QED
    BY <2>1, <2>2
<1>10. R!SlotsAreBounded'
  <2>1. IsFiniteSet(DOMAIN run)
    BY <1>1, RunIsFinite
  <2>2. Cardinality(DOMAIN run') <= Cardinality(DOMAIN run) /\ Cardinality(DOMAIN run') \in Nat
        /\ Cardinality(DOMAIN run) \in Nat
    BY <1>4, <2>1, FS_Subset, FS_CardinalityType
  <2> QED
    BY <1>1, <2>2, SameSize DEF R!SlotsAreBounded, ResearchBounds
<1>11. R!NoStrandedResearch'
  <2>1. DOMAIN run' # {} \/ wakes' # {}
    BY <1>2, <1>4
  <2> QED
    BY <2>1 DEF R!NoStrandedResearch
<1> QED
  BY <1>6, <1>8, <1>9, <1>10, <1>11 DEF RInv

LEMMA QueuedKeepsRInv ==
  ASSUME ResearchBounds, RInv, R!queueResearch
  PROVE  RInv'
<1>1. /\ ResearchTypes /\ SlotsAreTaken /\ PathsAreHome
      /\ R!SlotsAreBounded /\ R!NoStrandedResearch /\ R!PagesGoHome
  BY DEF RInv
<1>2. PICK n \in 0..MaxTasks : home \in [1..n -> Projects]
  BY <1>1 DEF ResearchTypes
<1>3. n \in Nat /\ Cardinality(DOMAIN home) = n
  <2>1. Cardinality(1..n) = n
    BY FS_Interval
  <2> QED
    BY <1>2, <2>1
<1> DEFINE id == n + 1
<1>4. /\ n < MaxTasks /\ tasks' = R!Put(tasks, id, "queued") /\ home' = R!Put(home, id, project)
      /\ wakes' = wakes \cup {[by |-> id, why |-> "queued", path |-> project]}
      /\ UNCHANGED <<project, resets, run, saved, mishaps, unsettled, strays>>
  BY <1>3, SameSize DEF R!queueResearch
<1>5. id \notin DOMAIN home /\ id \in 0..MaxTasks /\ id \in R!Ids
  BY <1>2, <1>3, <1>4 DEF R!Ids, ResearchBounds
<1>6. /\ home' \in [1..id -> Projects] /\ DOMAIN home' = DOMAIN home \cup {id}
      /\ \A i \in DOMAIN home : home'[i] = home[i]
  <2>1. 1..id = (1..n) \cup {id}
    BY <1>3
  <2> QED
    BY <1>1, <1>2, <1>4, <1>5, <2>1 DEF R!Put, ResearchTypes
<1>7. /\ DOMAIN tasks' = DOMAIN tasks \cup {id} /\ tasks' \in [DOMAIN tasks' -> R!Status]
      /\ Running(tasks)' = Running(tasks)
  <2>1. tasks \in [DOMAIN tasks -> R!Status] /\ id \notin DOMAIN tasks
    BY <1>1, <1>5 DEF ResearchTypes
  <2>2. "queued" \in R!Status /\ "queued" \notin R!RunningStatus
    BY DEF R!Status, R!RunningStatus
  <2> QED
    BY <1>4, <2>1, <2>2 DEF R!Put, Running
<1> HIDE DEF id
<1>8. ResearchTypes'
  <2>1. \E m \in 0..MaxTasks : home' \in [1..m -> Projects]
    BY <1>5, <1>6
  <2>2. wakes' \subseteq [by : R!Ids, why : {"queued", "finished"}, path : Projects]
    BY <1>1, <1>4, <1>5 DEF ResearchTypes
  <2> QED
    BY <1>1, <1>4, <1>6, <1>7, <2>1, <2>2 DEF ResearchTypes
<1>9. SlotsAreTaken' /\ R!SlotsAreBounded' /\ R!NoStrandedResearch'
  BY <1>1, <1>4, <1>7 DEF SlotsAreTaken, R!SlotsAreBounded, R!NoStrandedResearch
<1>10. PathsAreHome' /\ R!PagesGoHome'
  BY <1>1, <1>4, <1>6 DEF PathsAreHome, R!PagesGoHome, ResearchTypes
<1> QED
  BY <1>8, <1>9, <1>10 DEF RInv

LEMMA WakeKeepsRInv ==
  ASSUME ResearchBounds, RInv, NEW w \in wakes, R!processQueue(w)
  PROVE  RInv'
<1>1. /\ ResearchTypes /\ SlotsAreTaken /\ PathsAreHome
      /\ R!SlotsAreBounded /\ R!NoStrandedResearch /\ R!PagesGoHome
  BY DEF RInv
<1> DEFINE Q == R!Queued(tasks)
           started == R!FirstQueued(tasks)
           r == Cardinality(Running(tasks))
<1>2. /\ wakes' = wakes \ {w}
      /\ tasks' = [i \in DOMAIN tasks |-> IF i \in started THEN "searching" ELSE tasks[i]]
      /\ run' = [i \in DOMAIN run \cup started |->
                   IF i \in started THEN [pc |-> "searching", path |-> w.path] ELSE run[i]]
      /\ strays' = strays \cup {i \in started : home[i] # w.path}
      /\ UNCHANGED <<project, resets, saved, home, mishaps, unsettled>>
  BY DEF R!processQueue
<1>3. started \subseteq Q /\ Q \subseteq DOMAIN tasks /\ \A i \in Q : tasks[i] = "queued"
  BY DEF R!FirstQueued, R!Queued
<1>4. started = {i \in Q : Cardinality({j \in Q : j < i}) + r < maxConcurrent}
  <2>1. R!getRunningCount(tasks) = r
    BY SameSize DEF R!getRunningCount, Running
  <2> QED
    BY <2>1, SameSize DEF R!FirstQueued
<1>5. w.path \in Projects /\ "searching" \in R!RunningStatus /\ "queued" \notin R!RunningStatus
      /\ "searching" \in R!Status
  BY <1>1 DEF ResearchTypes, R!RunningStatus, R!Status
<1>6. PICK n \in 0..MaxTasks : home \in [1..n -> Projects]
  BY <1>1 DEF ResearchTypes
<1>7. n \in Nat /\ Q \in SUBSET (1..n) /\ IsFiniteSet(1..n)
  <2>1. n \in Nat /\ 0 \in Int /\ 1 \in Int /\ n \in Int
    BY <1>6
  <2>2. Q \in SUBSET (1..n)
    BY <1>1, <1>3, <1>6 DEF ResearchTypes
  <2> QED
    BY <2>1, <2>2, FS_Interval
<1> HIDE DEF Q, started
<1>8. Running(tasks) \subseteq DOMAIN run /\ IsFiniteSet(Running(tasks)) /\ r \in Nat
      /\ IsFiniteSet(DOMAIN run) /\ IsFiniteSet(started) /\ Cardinality(started) \in Nat
  <2>1. IsFiniteSet(DOMAIN run) /\ Running(tasks) \in SUBSET DOMAIN run
    BY <1>1, RunIsFinite DEF SlotsAreTaken
  <2>2. IsFiniteSet(started)
    BY <1>3, <1>7, FS_Subset
  <2>3. IsFiniteSet(Running(tasks))
    BY <2>1, FS_Subset
  <2> QED
    BY <2>1, <2>2, <2>3, FS_CardinalityType
<1>9. ResearchTypes'
  <2>1. tasks' \in [DOMAIN tasks -> R!Status] /\ DOMAIN tasks' = DOMAIN tasks
    BY <1>1, <1>2, <1>5 DEF ResearchTypes
  <2>2. run' \in [DOMAIN run \cup started -> Run] /\ DOMAIN run' = DOMAIN run \cup started
    <3>1. [pc |-> "searching", path |-> w.path] \in Run
      BY <1>5 DEF Run
    <3> QED
      BY <1>1, <1>2, <3>1 DEF ResearchTypes
  <2>3. DOMAIN run \cup started \subseteq DOMAIN home
    BY <1>1, <1>3 DEF ResearchTypes
  <2> QED
    BY <1>1, <1>2, <2>1, <2>2, <2>3 DEF ResearchTypes
<1>10. Running(tasks)' = Running(tasks) \cup started /\ DOMAIN run' = DOMAIN run \cup started
  BY <1>2, <1>3, <1>5 DEF Running
<1>11. SlotsAreTaken'
  BY <1>1, <1>2, <1>10 DEF SlotsAreTaken
<1>12. PathsAreHome' /\ R!PagesGoHome'
  <2>1. PathsAreHome'
    BY <1>1, <1>2 DEF PathsAreHome
  <2>2. R!PagesGoHome'
    BY <1>1, <1>2 DEF R!PagesGoHome
  <2> QED
    BY <2>1, <2>2
<1>13. R!SlotsAreBounded'
  <2>1. SUFFICES ASSUME ~unsettled PROVE Cardinality(DOMAIN run') <= maxConcurrent
    BY <1>2, SameSize DEF R!SlotsAreBounded
  <2>2. DOMAIN run = Running(tasks)
    BY <1>1, <2>1 DEF SlotsAreTaken
  <2>3. r <= maxConcurrent
    BY <1>1, <2>1, <2>2, SameSize DEF R!SlotsAreBounded
  <2>4. maxConcurrent \in Nat
    BY DEF ResearchBounds
  <2> HIDE DEF r
  <2>5. Cardinality(started) + r <= maxConcurrent
    BY <1>4, <1>7, <1>8, <2>3, <2>4, FirstFit
  <2>6. /\ IsFiniteSet(DOMAIN run \cap started)
        /\ Cardinality(DOMAIN run \cup started) =
             Cardinality(DOMAIN run) + Cardinality(started) - Cardinality(DOMAIN run \cap started)
    BY <1>8, FS_Union, FS_Subset
  <2>7. Cardinality(DOMAIN run \cap started) \in Nat
    BY <2>6, FS_CardinalityType
  <2>8. Cardinality(DOMAIN run) = r
    BY <2>2 DEF r
  <2> QED
    BY <1>8, <1>10, <2>4, <2>5, <2>6, <2>7, <2>8
<1>14. R!NoStrandedResearch'
  <2>1. SUFFICES ASSUME R!Queued(tasks)' # {} PROVE DOMAIN run' # {}
    BY DEF R!NoStrandedResearch
  <2>2. Q # {}
    BY <1>2, <1>5, <2>1 DEF Q, R!Queued
  <2>3. CASE Running(tasks) = {}
    <3>1. r = 0
      BY <2>3, FS_EmptySet
    <3>2. \E i \in Q : Cardinality({j \in Q : j < i}) + 0 < maxConcurrent
      BY <1>7, <2>2, LeastIsFirst DEF ResearchBounds
    <3>3. started # {}
      BY <1>4, <3>1, <3>2
    <3> QED
      BY <1>10, <3>3
  <2>4. CASE Running(tasks) # {}
    BY <1>8, <1>10, <2>4
  <2> QED
    BY <2>3, <2>4
<1> QED
  BY <1>9, <1>11, <1>12, <1>13, <1>14 DEF RInv

LEMMA EmptiedKeepsRInv ==
  ASSUME ResearchBounds, RInv, NEW S, tasks' = R!Drop(tasks, S),
         DOMAIN tasks \cap S \cap Running(tasks) = {} \/ unsettled' \/ DOMAIN run = {},
         project' \in Projects, resets' \in 0..MaxResets, unsettled' \in BOOLEAN,
         unsettled => unsettled', UNCHANGED <<run, wakes, saved, home, mishaps, strays>>
  PROVE  RInv'
<1>1. /\ ResearchTypes /\ SlotsAreTaken /\ PathsAreHome
      /\ R!SlotsAreBounded /\ R!NoStrandedResearch /\ R!PagesGoHome
  BY DEF RInv
<1>2. /\ DOMAIN tasks' = DOMAIN tasks \ S /\ tasks' \in [DOMAIN tasks' -> R!Status]
      /\ Running(tasks)' = Running(tasks) \ S /\ R!Queued(tasks)' \subseteq R!Queued(tasks)
  <2>1. tasks \in [DOMAIN tasks -> R!Status]
    BY <1>1 DEF ResearchTypes
  <2> QED
    BY <2>1 DEF R!Drop, Running, R!Queued
<1>3. ResearchTypes'
  BY <1>1, <1>2 DEF ResearchTypes
<1>4. SlotsAreTaken'
  BY <1>1, <1>2 DEF SlotsAreTaken, Running
<1>5. PathsAreHome' /\ R!SlotsAreBounded' /\ R!PagesGoHome'
  BY <1>1 DEF PathsAreHome, R!SlotsAreBounded, R!PagesGoHome
<1>6. R!NoStrandedResearch'
  BY <1>1, <1>2 DEF R!NoStrandedResearch
<1> QED
  BY <1>3, <1>4, <1>5, <1>6 DEF RInv

LEMMA NextRInv ==
  ASSUME ResearchBounds, RInv, [R!Next]_(R!vars)
  PROVE  RInv'
<1>1. ResearchTypes /\ SlotsAreTaken
  BY DEF RInv
<1>2. ASSUME R!queueResearch PROVE RInv'
  BY <1>2, QueuedKeepsRInv
<1>3. ASSUME NEW w \in wakes, R!processQueue(w) PROVE RInv'
  BY <1>3, WakeKeepsRInv
<1>4. ASSUME NEW id \in DOMAIN run, R!Search(id) \/ R!Synthesize(id) \/ R!Save(id) PROVE RInv'
  <2>1. /\ UNCHANGED <<project, resets, home, unsettled, strays>>
        /\ saved' = saved \/ saved' = saved \cup {<<id, run[id].path>>}
    BY <1>4 DEF R!Search, R!Synthesize, R!Save
  <2>2. mishaps' \in 0..MaxMishaps
    BY <1>1, <1>4 DEF R!Search, R!Synthesize, R!Save, ResearchTypes, ResearchBounds
  <2>3. GoesOnOrEnds(id)
    BY <1>4 DEF R!Search, R!Synthesize, R!Save, R!GoesOn, GoesOnOrEnds, R!RunningStatus
  <2> QED
    BY <2>1, <2>2, <2>3, EndsKeepRInv
<1>5. ASSUME NEW id \in DOMAIN tasks, R!removeTask(id) PROVE RInv'
  <2>1. /\ tasks' = R!Drop(tasks, {id}) /\ id \notin Running(tasks)
        /\ UNCHANGED <<project, resets, run, wakes, saved, home, mishaps, strays>>
    BY <1>5 DEF R!removeTask, Running, R!RunningStatus
  <2>2. unsettled' \in BOOLEAN /\ (unsettled => unsettled')
    BY <1>1, <1>5 DEF R!removeTask, R!Unsettles, ResearchTypes
  <2> QED
    BY <1>1, <2>1, <2>2, EmptiedKeepsRInv DEF ResearchTypes
<1>6. ASSUME NEW p \in Projects, R!SwitchProject(p) PROVE RInv'
  <2>1. tasks' = R!Drop(tasks, DOMAIN tasks)
    BY <1>6 DEF R!SwitchProject, R!Drop
  <2>2. /\ unsettled' \in BOOLEAN /\ (unsettled => unsettled') /\ (unsettled' \/ DOMAIN run = {})
    BY <1>1, <1>6 DEF R!SwitchProject, R!Unsettles, R!Quiet, ResearchTypes
  <2>3. /\ project' \in Projects /\ resets' \in 0..MaxResets
        /\ UNCHANGED <<run, wakes, saved, home, mishaps, strays>>
    BY <1>1, <1>6 DEF R!SwitchProject, ResearchTypes, ResearchBounds
  <2> QED
    BY <2>1, <2>2, <2>3, EmptiedKeepsRInv
<1>7. ASSUME UNCHANGED R!vars PROVE RInv'
  BY <1>7 DEF R!vars, R!store, RInv, ResearchTypes, SlotsAreTaken, Running, PathsAreHome, R!SlotsAreBounded,
              R!NoStrandedResearch, R!Queued, R!PagesGoHome
<1> QED
  BY <1>2, <1>3, <1>4, <1>5, <1>6, <1>7 DEF R!Next, R!Step

LEMMA RInvSuffices ==
  ASSUME ResearchBounds, RInv
  PROVE  R!TypeOK /\ R!SlotsAreBounded /\ R!NoStrandedResearch /\ R!PagesGoHome
BY ResearchTypesSuffice DEF RInv

\* However tasks end, are removed, or lose their store under them, no more run
\* than there are slots as long as the store is theirs, none is queued with
\* nobody left to start it, and a page goes to the project its task was queued
\* in unless the wake of another project's task began it (deep-research.ts).
THEOREM ResearchIsBoundedAndGoesHome ==
  ASSUME ResearchBounds
  PROVE  R!Spec => [](R!TypeOK /\ R!SlotsAreBounded /\ R!NoStrandedResearch /\ R!PagesGoHome)
<1>1. R!Init => RInv
  BY InitRInv
<1>2. RInv /\ [R!Next]_(R!vars) => RInv'
  BY NextRInv
<1>3. RInv => R!TypeOK /\ R!SlotsAreBounded /\ R!NoStrandedResearch /\ R!PagesGoHome
  BY RInvSuffices
<1> QED
  BY <1>1, <1>2, <1>3, PTL DEF R!Spec
-----------------------------------------------------------------------------
\* A sequence with one more element.
LEMMA AppendFits ==
  ASSUME NEW S, NEW s \in Seq(S), NEW x \in S
  PROVE  /\ Append(s, x) \in Seq(S) /\ DOMAIN Append(s, x) = 1 .. (Len(s) + 1)
         /\ \A j \in DOMAIN s : j \in DOMAIN Append(s, x) /\ Append(s, x)[j] = s[j]
         /\ Append(s, x)[Len(s) + 1] = x
         /\ DOMAIN Append(s, x) = DOMAIN s \cup {Len(s) + 1}
         /\ Len(Append(s, x)) = Len(s) + 1 /\ Len(s) \in Nat /\ DOMAIN s = 1 .. Len(s)
OBVIOUS

(***************************************************************************)
(* Patrols.                                                                *)
(***************************************************************************)
\* The automatic patrols under way are as many as the flag says: none or one.
FlagCounts ==
  /\ inFlight \in BOOLEAN /\ patrols \in Seq({"auto", "manual"})
  /\ \A i, j \in DOMAIN patrols : patrols[i] = "auto" /\ patrols[j] = "auto" => i = j
  /\ inFlight <=> \E i \in DOMAIN patrols : patrols[i] = "auto"

\* A closed project has no daemon and only lifecycles that were stopped; an open
\* one has the daemon or a lifecycle that will start it.
DaemonIsComing ==
  /\ opened \in BOOLEAN /\ daemon \in BOOLEAN /\ loading \in Seq(BOOLEAN)
  /\ IF opened THEN daemon \/ \E i \in DOMAIN loading : ~loading[i]
     ELSE ~daemon /\ \A i \in DOMAIN loading : loading[i]

PInv == FlagCounts /\ DaemonIsComing

\* What is left of a sequence without its i-th element.
LEMMA WithoutKeepsTheOthers ==
  ASSUME NEW S, NEW s \in Seq(S), NEW i \in DOMAIN s
  PROVE  /\ P!Without(s, i) \in Seq(S)
         /\ DOMAIN P!Without(s, i) = 1 .. (Len(s) - 1)
         /\ \A j \in 1 .. (Len(s) - 1) : P!Without(s, i)[j] = s[IF j < i THEN j ELSE j + 1]
<1> DEFINE a == SubSeq(s, 1, i - 1)
           b == SubSeq(s, i + 1, Len(s))
<1>1. i \in 1 .. Len(s) /\ Len(s) \in Nat
  OBVIOUS
<1>2. a \in Seq(S) /\ Len(a) = i - 1 /\ \A j \in 1 .. (i - 1) : a[j] = s[j]
  BY <1>1
<1>3. b \in Seq(S) /\ Len(b) = Len(s) - i /\ \A j \in 1 .. (Len(s) - i) : b[j] = s[j + i]
  BY <1>1
<1>4. P!Without(s, i) = a \o b
  BY DEF P!Without
<1> HIDE DEF a, b
<1>5. a \o b \in Seq(S) /\ Len(a \o b) = Len(s) - 1
  BY <1>1, <1>2, <1>3
<1>6. ASSUME NEW j \in 1 .. (Len(s) - 1) PROVE (a \o b)[j] = s[IF j < i THEN j ELSE j + 1]
  <2>1. CASE j < i
    BY <1>1, <1>2, <1>3, <2>1
  <2>2. CASE ~(j < i)
    <3>0. j - (i - 1) \in 1 .. (Len(s) - i) /\ j \in 1 .. (Len(a) + Len(b)) /\ j > Len(a)
      BY <1>1, <1>2, <1>3, <2>2
    <3>1. (a \o b)[j] = b[j - (i - 1)] /\ j - (i - 1) \in 1 .. (Len(s) - i)
      <4>1. \A k \in 1 .. (Len(a) + Len(b)) : (a \o b)[k] = IF k <= Len(a) THEN a[k] ELSE b[k - Len(a)]
        BY <1>2, <1>3, ConcatProperties
      <4>2. ~(j <= Len(a)) /\ Len(a) = i - 1
        BY <1>1, <1>2, <3>0
      <4> QED
        BY <3>0, <4>1, <4>2
    <3> QED
      BY <1>1, <1>3, <3>1, <2>2
  <2> QED
    BY <2>1, <2>2
<1> QED
  BY <1>1, <1>4, <1>5, <1>6

\* The flag turns a second automatic patrol away, whoever asks.
LEMMA ScheduleKeepsTheFlag ==
  ASSUME FlagCounts, P!scheduleAuto
  PROVE  FlagCounts'
<1>1. CASE inFlight
  BY <1>1 DEF FlagCounts, P!scheduleAuto
<1>2. CASE ~inFlight
  <2>1. patrols' = Append(patrols, "auto") /\ inFlight' = TRUE
    BY <1>2 DEF P!scheduleAuto
  <2> QED
    BY <1>2, <2>1, AppendFits DEF FlagCounts
<1> QED
  BY <1>1, <1>2

LEMMA ManualKeepsTheFlag ==
  ASSUME FlagCounts, P!StartManual
  PROVE  FlagCounts'
<1>1. patrols' = Append(patrols, "manual") /\ inFlight' = inFlight
  BY DEF P!StartManual
<1> QED
  BY <1>1, AppendFits DEF FlagCounts

\* A patrol that is over takes its flag with it, and no other's.
LEMMA OverKeepsTheFlag ==
  ASSUME FlagCounts, NEW i \in DOMAIN patrols, P!Over(i, TRUE)
  PROVE  FlagCounts'
<1>1. patrols' = P!Without(patrols, i) /\ inFlight' = IF patrols[i] = "auto" THEN FALSE ELSE inFlight
  BY DEF P!Over
<1>2. /\ patrols' \in Seq({"auto", "manual"}) /\ DOMAIN patrols' = 1 .. (Len(patrols) - 1)
      /\ \A j \in 1 .. (Len(patrols) - 1) : patrols'[j] = patrols[IF j < i THEN j ELSE j + 1]
  BY <1>1, WithoutKeepsTheOthers DEF FlagCounts
<1>3. patrols \in Seq({"auto", "manual"}) /\ i \in 1 .. Len(patrols) /\ Len(patrols) \in Nat
  BY DEF FlagCounts
<1>4. \A j, k \in DOMAIN patrols' : patrols'[j] = "auto" /\ patrols'[k] = "auto" => j = k
  <2> TAKE j, k \in DOMAIN patrols'
  <2> HAVE patrols'[j] = "auto" /\ patrols'[k] = "auto"
  <2>1. (IF j < i THEN j ELSE j + 1) = (IF k < i THEN k ELSE k + 1)
    BY <1>2, <1>3 DEF FlagCounts
  <2> QED
    BY <1>2, <1>3, <2>1
<1>5. CASE patrols[i] = "auto"
  <2>1. ~ \E j \in DOMAIN patrols' : patrols'[j] = "auto"
    <3> SUFFICES ASSUME NEW j \in DOMAIN patrols', patrols'[j] = "auto" PROVE FALSE
      OBVIOUS
    <3>1. (IF j < i THEN j ELSE j + 1) = i
      BY <1>2, <1>3, <1>5 DEF FlagCounts
    <3> QED
      BY <1>2, <1>3, <3>1
  <2> QED
    BY <1>1, <1>2, <1>4, <1>5, <2>1 DEF FlagCounts
<1>6. CASE patrols[i] # "auto"
  <2>1. ASSUME NEW k \in DOMAIN patrols, patrols[k] = "auto"
        PROVE  \E j \in DOMAIN patrols' : patrols'[j] = "auto"
    <3>1. k \in 1 .. Len(patrols) /\ k # i
      BY <1>3, <1>6, <2>1
    <3>2. CASE k < i
      <4>1. k \in 1 .. (Len(patrols) - 1)
        BY <1>3, <3>1, <3>2
      <4> QED
        BY <1>2, <2>1, <3>2, <4>1
    <3>3. CASE k > i
      <4>1. k - 1 \in 1 .. (Len(patrols) - 1) /\ ~(k - 1 < i) /\ k - 1 + 1 = k
        BY <1>3, <3>1, <3>3
      <4> QED
        BY <1>2, <2>1, <4>1
    <3> QED
      BY <1>3, <3>1, <3>2, <3>3
  <2>2. ASSUME NEW j \in DOMAIN patrols', patrols'[j] = "auto"
        PROVE  \E k \in DOMAIN patrols : patrols[k] = "auto"
    <3>1. (IF j < i THEN j ELSE j + 1) \in DOMAIN patrols
      BY <1>2, <1>3
    <3> QED
      BY <1>2, <2>2, <3>1
  <2> QED
    BY <1>1, <1>2, <1>4, <1>6, <2>1, <2>2 DEF FlagCounts
<1> QED
  BY <1>5, <1>6

\* The last lifecycle of an open project starts the daemon; one that was
\* stopped leaves it to the others.
LEMMA PolicyReadKeepsDaemon ==
  ASSUME DaemonIsComing, NEW i \in DOMAIN loading, P!PolicyRead(i)
  PROVE  DaemonIsComing'
<1>1. loading' = P!Without(loading, i) /\ daemon' = (daemon \/ ~loading[i]) /\ opened' = opened
  BY DEF P!PolicyRead
<1>2. /\ loading' \in Seq(BOOLEAN) /\ DOMAIN loading' = 1 .. (Len(loading) - 1)
      /\ \A j \in 1 .. (Len(loading) - 1) : loading'[j] = loading[IF j < i THEN j ELSE j + 1]
  BY <1>1, WithoutKeepsTheOthers DEF DaemonIsComing
<1>3. loading \in Seq(BOOLEAN) /\ i \in 1 .. Len(loading) /\ Len(loading) \in Nat
      /\ daemon' \in BOOLEAN
  BY <1>1 DEF DaemonIsComing
<1>4. CASE opened
  <2> SUFFICES ASSUME ~daemon' PROVE \E j \in DOMAIN loading' : ~loading'[j]
    BY <1>1, <1>2, <1>3, <1>4 DEF DaemonIsComing
  <2>1. PICK k \in DOMAIN loading : ~loading[k]
    BY <1>1, <1>4 DEF DaemonIsComing
  <2>a. loading[i]
    BY <1>1
  <2>2. k \in 1 .. Len(loading) /\ k # i
    BY <1>3, <2>1, <2>a
  <2>3. CASE k < i
    <3>1. k \in 1 .. (Len(loading) - 1)
      BY <1>3, <2>2, <2>3
    <3> QED
      BY <1>2, <2>1, <2>3, <3>1
  <2>4. CASE k > i
    <3>1. k - 1 \in 1 .. (Len(loading) - 1) /\ ~(k - 1 < i) /\ k - 1 + 1 = k
      BY <1>3, <2>2, <2>4
    <3> QED
      BY <1>2, <2>1, <3>1
  <2> QED
    BY <1>3, <2>2, <2>3, <2>4
<1>5. CASE ~opened
  <2>1. \A j \in DOMAIN loading : loading[j]
    BY <1>5 DEF DaemonIsComing
  <2>2. ~daemon'
    BY <1>1, <1>5, <2>1 DEF DaemonIsComing
  <2>3. \A j \in DOMAIN loading' : (IF j < i THEN j ELSE j + 1) \in DOMAIN loading
    BY <1>2, <1>3
  <2>4. \A j \in DOMAIN loading' : loading'[j]
    BY <1>2, <2>1, <2>3
  <2> QED
    BY <1>1, <1>2, <1>3, <1>5, <2>2, <2>4 DEF DaemonIsComing
<1> QED
  BY <1>4, <1>5 DEF DaemonIsComing

LEMMA OpeningsKeepDaemon ==
  ASSUME DaemonIsComing, P!OpenProject \/ P!CloseProject
  PROVE  DaemonIsComing'
<1>1. CASE P!OpenProject
  <2>1. opened' = TRUE /\ daemon' = daemon /\ loading' = Append(loading, FALSE)
    BY <1>1 DEF P!OpenProject
  <2>2. loading' \in Seq(BOOLEAN) /\ Len(loading) + 1 \in DOMAIN loading' /\ loading'[Len(loading) + 1] = FALSE
    BY <2>1, AppendFits DEF DaemonIsComing
  <2> QED
    BY <2>1, <2>2 DEF DaemonIsComing
<1>2. CASE P!CloseProject
  <2>1. opened' = FALSE /\ daemon' = FALSE /\ loading' = [i \in DOMAIN loading |-> TRUE]
    BY <1>2 DEF P!CloseProject
  <2>2. loading' \in Seq(BOOLEAN)
    <3>1. loading \in Seq(BOOLEAN) /\ DOMAIN loading = 1 .. Len(loading) /\ Len(loading) \in Nat
      BY DEF DaemonIsComing
    <3> QED
      BY <2>1, <3>1
  <2> QED
    BY <2>1, <2>2 DEF DaemonIsComing
<1> QED
  BY <1>1, <1>2

LEMMA InitPInv ==
  ASSUME P!Init
  PROVE  PInv
<1>1. patrols = <<>> /\ loading = <<>> /\ inFlight = FALSE /\ opened = FALSE /\ daemon = FALSE
  BY DEF P!Init
<1>2. patrols \in Seq({"auto", "manual"}) /\ loading \in Seq(BOOLEAN) /\ DOMAIN patrols = {} /\ DOMAIN loading = {}
  BY <1>1
<1> QED
  BY <1>1, <1>2 DEF PInv, FlagCounts, DaemonIsComing

LEMMA NextPInv ==
  ASSUME PInv, P!Next \/ UNCHANGED P!vars
  PROVE  PInv'
<1> USE DEF PInv
<1>1. ASSUME NEW r \in Recorders, P!BeginRecord(r) PROVE PInv'
  BY <1>1 DEF P!BeginRecord, P!projectVars, FlagCounts, DaemonIsComing
<1>2. ASSUME NEW r \in Recorders, P!EndRecord(r) PROVE PInv'
  <2>1. UNCHANGED <<opened, loading, daemon>> /\ (P!scheduleAuto \/ UNCHANGED <<patrols, inFlight>>)
    BY <1>2 DEF P!EndRecord, P!projectVars
  <2>2. DaemonIsComing'
    BY <2>1 DEF DaemonIsComing
  <2> QED
    BY <2>1, <2>2, ScheduleKeepsTheFlag DEF FlagCounts
<1>3. CASE P!StartManual
  BY <1>3, ManualKeepsTheFlag DEF P!StartManual, P!projectVars, DaemonIsComing
<1>4. ASSUME NEW i \in DOMAIN patrols, P!PatrolDone(i) \/ P!PatrolFails(i) PROVE PInv'
  <2>1. P!Over(i, TRUE)
    BY <1>4 DEF P!PatrolDone, P!PatrolFails
  <2>2. DaemonIsComing'
    BY <2>1 DEF P!Over, P!projectVars, DaemonIsComing
  <2> QED
    BY <2>1, <2>2, OverKeepsTheFlag
<1>5. ASSUME NEW s \in checks, P!CheckDone(s) PROVE PInv'
  <2>1. UNCHANGED <<opened, loading, daemon>> /\ (P!scheduleAuto \/ UNCHANGED <<patrols, inFlight>>)
    BY <1>5 DEF P!CheckDone, P!projectVars
  <2>2. DaemonIsComing'
    BY <2>1 DEF DaemonIsComing
  <2> QED
    BY <2>1, <2>2, ScheduleKeepsTheFlag DEF FlagCounts
<1>6. ASSUME NEW i \in DOMAIN loading, P!PolicyRead(i) PROVE PInv'
  <2>1. FlagCounts'
    BY <1>6 DEF P!PolicyRead, FlagCounts
  <2> QED
    BY <1>6, <2>1, PolicyReadKeepsDaemon
<1>7. CASE P!OpenProject \/ P!CloseProject
  <2>1. FlagCounts'
    <3>1. UNCHANGED <<patrols, inFlight>>
      BY <1>7 DEF P!OpenProject, P!CloseProject
    <3> QED
      BY <3>1 DEF FlagCounts
  <2> QED
    BY <1>7, <2>1, OpeningsKeepDaemon
<1>8. CASE P!Check \/ P!Dismiss \/ P!Tick \/ UNCHANGED P!vars
  BY <1>8 DEF P!Check, P!Dismiss, P!Tick, P!vars, P!projectVars, FlagCounts, DaemonIsComing
<1> QED
  BY <1>1, <1>2, <1>3, <1>4, <1>5, <1>6, <1>7, <1>8 DEF P!Next

LEMMA PInvSuffices ==
  ASSUME PInv
  PROVE  P!OneAutoPatrol /\ P!DaemonFollowsProject
<1> DEFINE autos == {i \in DOMAIN patrols : patrols[i] = "auto"}
<1>1. Cardinality(autos) <= 1
  <2>1. CASE autos = {}
    BY <2>1, FS_EmptySet
  <2>2. CASE autos # {}
    <3>0. PICK i \in DOMAIN patrols : patrols[i] = "auto"
      BY <2>2
    <3>1. autos = {i}
      BY <3>0 DEF PInv, FlagCounts
    <3>2. Cardinality({i}) = 1
      BY FS_Singleton
    <3> QED
      BY <3>1, <3>2
  <2> QED
    BY <2>1, <2>2
<1>2. P!OneAutoPatrol
  BY <1>1 DEF P!OneAutoPatrol, P!Cardinality, Cardinality
<1>3. P!DaemonFollowsProject
  BY DEF PInv, DaemonIsComing, P!DaemonFollowsProject
<1> QED
  BY <1>2, <1>3

\* One automatic patrol at a time, and a daemon for an open project.
THEOREM PatrolsTakeTurns ==
  P!Spec => [](P!OneAutoPatrol /\ P!DaemonFollowsProject)
<1>1. PInv /\ [P!Next]_(P!vars) => PInv'
  BY NextPInv
<1> QED
  BY InitPInv, PInvSuffices, <1>1, PTL DEF P!Spec
-----------------------------------------------------------------------------
(***************************************************************************)
(* The Claude Code bridge.                                                 *)
(***************************************************************************)
BridgeBounds == MaxLines \in Nat

Told == B!Lines \cup {<<e, 0>> : e \in B!Ends}

\* Where the call is and which listeners are up, as long as nothing ended it.
AbortIsHeard == onAbort \/ completion \in {"policy", "returned"}
ListenersFollowTheCall ==
  /\ completion = "policy" => finished = "no" /\ aborted = "no"
  /\ finished = "no" =>
       /\ aborted # "early"
       /\ completion \in {"policy", "listenData"} => listening = {}
       /\ completion = "listenDone" => listening = {"data"}
       /\ completion \notin {"policy", "listenData", "listenDone"} => listening = {"data", "done"}

\* What is ended has no listeners, unless it was aborted before they were up.
EndsAreDeaf ==
  finished # "no" /\ aborted # "early" => listening = {} /\ completion \notin {"listenData", "listenDone"}

\* The task begins when the child has been started; when it reaps, all that the
\* child will ever print has been emitted.
TaskFollowsChild ==
  /\ task = "none" => events = <<>> /\ drained = 0
  /\ task # "none" => completion \in {"spawned", "returned"} /\ child # "none"
  /\ task \in {"reaping", "over"} => drained = printed /\ child # "runs"

\* One end, the last thing the caller is told.
EndComesLast ==
  /\ finished = "no" => \A i \in DOMAIN caller : caller[i][1] = "line"
  /\ \A i, j \in DOMAIN caller : caller[i][1] \in B!Ends /\ caller[j][1] \in B!Ends => i = j
  /\ aborted # "early" => \A i \in DOMAIN caller :
       caller[i] = <<"line", i>> \/ (i = Len(caller) /\ caller[i][1] \in B!Ends)
  /\ finished = "onDone" /\ aborted = "no" => task = "over" /\ Len(caller) = printed + 1

\* The lines the caller was not told yet are the events on their way, then the end.
EventsFollow ==
  finished = "no" =>
    /\ Len(caller) <= drained
    /\ Len(events) = drained - Len(caller) + (IF task = "over" THEN 1 ELSE 0)
    /\ \A i \in 1 .. (drained - Len(caller)) : events[i] = <<"line", Len(caller) + i>>
    /\ task = "over" => events[Len(events)][1] \in B!Ends

BridgeTypes ==
  /\ completion \in {"policy", "listenData", "listenDone", "spawning", "failed", "spawned", "returned"}
  /\ listening \subseteq {"data", "done"} /\ finished \in {"no", "onDone", "onError"}
  /\ onAbort \in BOOLEAN /\ aborted \in {"no", "early", "late"}
  /\ killing \in {0, 1} /\ children \in BOOLEAN
  /\ child \in {"none", "runs", "killed", "exited"}
  /\ task \in {"none", "draining", "reaping", "over"}
  /\ drained \in Nat /\ printed \in Nat /\ drained <= printed /\ printed <= MaxLines
  /\ caller \in Seq(Told) /\ events \in Seq(Told)

BInv == /\ BridgeTypes /\ AbortIsHeard /\ ListenersFollowTheCall /\ EndsAreDeaf
        /\ TaskFollowsChild /\ EndComesLast /\ EventsFollow

LEMMA ToldIs ==
  /\ \A x \in Told : x[1] \in {"line", "onDone", "onError"} /\ (x[1] \notin B!Ends => x[1] = "line")
  /\ \A e \in B!Ends : <<e, 0>> \in Told /\ e # "line" /\ <<e, 0>>[1] = e /\ e # "no"
  /\ \A i \in 1 .. MaxLines : <<"line", i>> \in Told /\ <<"line", i>>[1] = "line" /\ <<"line", i>>[1] \notin B!Ends
BY DEF Told, B!Lines, B!Ends

LEMMA InitBInv ==
  ASSUME BridgeBounds, B!Init
  PROVE  BInv
<1>1. /\ completion = "policy" /\ listening = {} /\ finished = "no" /\ onAbort = FALSE /\ aborted = "no"
      /\ killing = 0 /\ child = "none" /\ children = FALSE /\ task = "none" /\ printed = 0 /\ drained = 0
      /\ caller = <<>> /\ events = <<>>
  BY DEF B!Init
<1>2. <<>> \in Seq(Told) /\ Len(caller) = 0 /\ Len(events) = 0 /\ DOMAIN caller = {}
  BY <1>1
<1>3. BridgeTypes
  <2>1. onAbort \in BOOLEAN /\ children \in BOOLEAN
    BY <1>1
  <2>2. caller \in Seq(Told) /\ events \in Seq(Told)
    BY <1>1, <1>2
  <2>3. drained \in Nat /\ printed \in Nat /\ drained <= printed /\ printed <= MaxLines
    BY <1>1 DEF BridgeBounds
  <2>4. /\ listening \subseteq {"data", "done"} /\ finished \in {"no", "onDone", "onError"}
        /\ killing \in {0, 1} /\ aborted \in {"no", "early", "late"}
    BY <1>1
  <2>5. /\ completion \in {"policy", "listenData", "listenDone", "spawning", "failed", "spawned", "returned"}
        /\ child \in {"none", "runs", "killed", "exited"}
        /\ task \in {"none", "draining", "reaping", "over"}
    BY <1>1
  <2> QED
    BY <2>1, <2>2, <2>3, <2>4, <2>5 DEF BridgeTypes
<1>6. AbortIsHeard
  BY <1>1 DEF AbortIsHeard
<1>4. ListenersFollowTheCall /\ EndsAreDeaf /\ TaskFollowsChild /\ EndComesLast
  BY <1>1, <1>2 DEF ListenersFollowTheCall, EndsAreDeaf, TaskFollowsChild, EndComesLast
<1>5. EventsFollow
  <2>d. drained = 0
    BY <1>1
  <2>e. Len(caller) = 0
    BY <1>2
  <2>a. drained - Len(caller) = 0
    BY <2>d, <2>e
  <2>b. 1 .. 0 = {}
    OBVIOUS
  <2>c. task # "over"
    BY <1>1
  <2>1. drained - Len(caller) = 0 /\ 1 .. 0 = {} /\ task # "over"
    BY <2>a, <2>b, <2>c
  <2> QED
    BY <1>1, <1>2, <2>1 DEF EventsFollow
<1> QED
  BY <1>3, <1>4, <1>5, <1>6 DEF BInv

\* The first end: told last.
LEMMA FirstEndComesLast ==
  ASSUME BInv, finished = "no", NEW how \in B!Ends, finished' = how, caller' = Append(caller, <<how, 0>>),
         how = "onDone" /\ aborted' = "no" => task' = "over" /\ Len(caller) = printed'
  PROVE  caller' \in Seq(Told) /\ EndComesLast' /\ EventsFollow' /\ finished' \in {"onDone", "onError"}
<1>1. <<how, 0>> \in Told /\ how # "line" /\ how # "no" /\ how \in {"onDone", "onError"} /\ <<how, 0>>[1] = how
  BY ToldIs DEF B!Ends
<1>2. /\ caller' \in Seq(Told) /\ DOMAIN caller' = 1 .. (Len(caller) + 1) /\ Len(caller') = Len(caller) + 1
      /\ \A j \in DOMAIN caller : caller'[j] = caller[j]
      /\ caller'[Len(caller) + 1] = <<how, 0>>
      /\ DOMAIN caller' = DOMAIN caller \cup {Len(caller) + 1}
  BY <1>1, AppendFits DEF BInv, BridgeTypes
<1>3. \A i \in DOMAIN caller : caller'[i][1] = "line" /\ caller'[i][1] \notin B!Ends /\ caller'[i] = <<"line", i>>
  <2>1. \A i \in DOMAIN caller : caller[i][1] = "line"
    BY DEF BInv, EndComesLast
  <2>2. "line" \notin B!Ends
    BY DEF B!Ends
  <2>3. aborted # "early"
    BY DEF BInv, ListenersFollowTheCall
  <2> QED
    BY <1>2, <2>1, <2>2, <2>3 DEF BInv, EndComesLast
<1>4. \A i, j \in DOMAIN caller' : caller'[i][1] \in B!Ends /\ caller'[j][1] \in B!Ends => i = j
  BY <1>2, <1>3
<1>5. \A i \in DOMAIN caller' :
        caller'[i] = <<"line", i>> \/ (i = Len(caller') /\ caller'[i][1] \in B!Ends)
  BY <1>1, <1>2, <1>3
<1>6. finished' = "onDone" /\ aborted' = "no" => task' = "over" /\ Len(caller') = printed' + 1
  BY <1>2
<1>7. EndComesLast'
  BY <1>1, <1>4, <1>5, <1>6 DEF EndComesLast
<1>8. EventsFollow'
  BY <1>1 DEF EventsFollow
<1> QED
  BY <1>1, <1>2, <1>7, <1>8

\* What was told, and what is on its way, does not change.
LEMMA TellingStays ==
  ASSUME BInv, UNCHANGED <<finished, caller, events, drained>>,
         task' = "over" <=> task = "over", task = "over" => printed' = printed,
         aborted' = aborted \/ (aborted = "no" /\ finished = "no" /\ aborted' = "late")
  PROVE  EndComesLast' /\ EventsFollow'
<1>1. EventsFollow'
  BY DEF BInv, EventsFollow
<1>2. EndComesLast'
  BY DEF BInv, EndComesLast
<1> QED
  BY <1>1, <1>2

LEMMA FrontKeepsBInv ==
  ASSUME BInv, B!CheckPolicy \/ B!ListenData \/ B!ListenDone \/ B!SpawnChild \/ B!Register \/ B!SpawnFails
               \/ B!Return \/ B!Abort
  PROVE  BInv'
<1> USE DEF B!front, B!back
<1>1. CASE B!CheckPolicy
  <2>1. /\ completion = "policy"
        /\ UNCHANGED <<aborted, killing, child, children, task, printed, drained, events>>
    BY <1>1 DEF B!CheckPolicy
  <2>2. finished = "no" /\ aborted = "no" /\ listening = {}
    BY <2>1 DEF BInv, ListenersFollowTheCall
  <2>3. task = "none"
    BY <2>1 DEF BInv, TaskFollowsChild
  <2>4. CASE completion' = "returned" /\ B!finishWith("onError") /\ UNCHANGED onAbort
    <3>1. finished' = "onError" /\ caller' = Append(caller, <<"onError", 0>>) /\ listening' = {}
      BY <2>2, <2>4 DEF B!finishWith
    <3>2. "onError" \in B!Ends
      BY DEF B!Ends
    <3>3. caller' \in Seq(Told) /\ EndComesLast' /\ EventsFollow' /\ finished' \in {"onDone", "onError"}
      BY <2>2, <3>1, <3>2, FirstEndComesLast
    <3>4. BridgeTypes'
      BY <2>1, <2>4, <3>1, <3>3 DEF BInv, BridgeTypes
    <3>5. ListenersFollowTheCall' /\ EndsAreDeaf' /\ TaskFollowsChild'
      BY <2>1, <2>2, <2>3, <2>4, <3>1 DEF BInv, ListenersFollowTheCall, EndsAreDeaf, TaskFollowsChild
    <3>6. AbortIsHeard'
      BY <2>4 DEF AbortIsHeard
    <3> QED
      BY <3>3, <3>4, <3>5, <3>6 DEF BInv
  <2>5. CASE completion' = "listenData" /\ onAbort' = TRUE /\ UNCHANGED <<finished, caller, listening>>
    <3>1. EndComesLast' /\ EventsFollow'
      BY <2>1, <2>5, TellingStays
    <3>2. BridgeTypes'
      BY <2>1, <2>5 DEF BInv, BridgeTypes
    <3>3. ListenersFollowTheCall' /\ EndsAreDeaf' /\ TaskFollowsChild'
      BY <2>1, <2>2, <2>3, <2>5 DEF BInv, ListenersFollowTheCall, EndsAreDeaf, TaskFollowsChild
    <3>4. AbortIsHeard'
      BY <2>5 DEF AbortIsHeard
    <3> QED
      BY <3>1, <3>2, <3>3, <3>4 DEF BInv
  <2> QED
    BY <1>1, <2>4, <2>5 DEF B!CheckPolicy
<1>2. CASE B!ListenData \/ B!ListenDone
  <2>1. /\ UNCHANGED <<finished, onAbort, aborted, caller, killing, child, children, task, printed, drained, events>>
        /\ \/ completion = "listenData" /\ completion' = "listenDone" /\ listening' = listening \cup {"data"}
           \/ completion = "listenDone" /\ completion' = "spawning" /\ listening' = listening \cup {"done"}
    BY <1>2 DEF B!ListenData, B!ListenDone, B!Listen
  <2>2. EndComesLast' /\ EventsFollow'
    BY <2>1, TellingStays
  <2>3. BridgeTypes'
    BY <2>1 DEF BInv, BridgeTypes
  <2>4. finished = "no" => /\ aborted # "early"
                           /\ \/ completion' = "listenDone" /\ listening' = {"data"}
                              \/ completion' = "spawning" /\ listening' = {"data", "done"}
    BY <2>1 DEF BInv, ListenersFollowTheCall
  <2>5. ListenersFollowTheCall'
    BY <2>1, <2>4 DEF ListenersFollowTheCall
  <2>6. EndsAreDeaf' /\ TaskFollowsChild'
    BY <2>1 DEF BInv, EndsAreDeaf, TaskFollowsChild
  <2>7. AbortIsHeard'
    BY <2>1 DEF BInv, AbortIsHeard
  <2> QED
    BY <2>2, <2>3, <2>5, <2>6, <2>7 DEF BInv
<1>3. CASE B!SpawnChild \/ B!Register \/ B!SpawnFails
  <2>1. /\ UNCHANGED <<listening, finished, onAbort, aborted, caller, killing, printed, drained, events>>
        /\ completion = "spawning"
        /\ \/ child' = "runs" /\ UNCHANGED <<completion, task, children>>
           \/ child # "none" /\ child' = child /\ children' = TRUE /\ task' = "draining" /\ completion' = "spawned"
           \/ child' \in {"none", "killed"} /\ UNCHANGED <<task, children>> /\ completion' = "failed"
    BY <1>3 DEF B!SpawnChild, B!Register, B!SpawnFails
  <2>2. task = "none"
    BY <2>1 DEF BInv, TaskFollowsChild
  <2>3. EndComesLast' /\ EventsFollow'
    BY <2>1, <2>2, TellingStays
  <2>4. BridgeTypes'
    BY <2>1 DEF BInv, BridgeTypes
  <2>5. completion' \in {"spawning", "spawned", "failed"}
    BY <2>1
  <2>6. ListenersFollowTheCall' /\ EndsAreDeaf'
    BY <2>1, <2>5 DEF BInv, ListenersFollowTheCall, EndsAreDeaf
  <2>7. TaskFollowsChild'
    BY <2>1, <2>2 DEF BInv, TaskFollowsChild
  <2>8. AbortIsHeard'
    BY <2>1 DEF BInv, AbortIsHeard
  <2> QED
    BY <2>3, <2>4, <2>6, <2>7, <2>8 DEF BInv
<1>4. CASE B!Return
  <2>1. /\ completion' = "returned" /\ onAbort' = FALSE /\ completion \in {"spawned", "failed"}
        /\ UNCHANGED <<aborted, killing, child, children, task, printed, drained, events>>
    BY <1>4 DEF B!Return
  <2>2. AbortIsHeard' /\ TaskFollowsChild'
    BY <2>1 DEF BInv, AbortIsHeard, TaskFollowsChild
  <2>3. completion \notin {"policy", "listenData", "listenDone"}
        /\ completion' \notin {"policy", "listenData", "listenDone"}
    BY <2>1
  <2>4. CASE completion = "failed" /\ finished = "no"
    <3>1. finished' = "onError" /\ caller' = Append(caller, <<"onError", 0>>) /\ listening' = {}
      BY <1>4, <2>4 DEF B!Return, B!finishWith
    <3>2. "onError" \in B!Ends
      BY DEF B!Ends
    <3>3. caller' \in Seq(Told) /\ EndComesLast' /\ EventsFollow' /\ finished' \in {"onDone", "onError"}
      BY <2>1, <2>4, <3>1, <3>2, FirstEndComesLast
    <3>4. BridgeTypes'
      BY <2>1, <3>1, <3>3 DEF BInv, BridgeTypes
    <3>5. ListenersFollowTheCall' /\ EndsAreDeaf'
      BY <2>3, <3>1 DEF ListenersFollowTheCall, EndsAreDeaf
    <3> QED
      BY <3>3, <3>4, <3>5, <2>2 DEF BInv
  <2>5. CASE ~(completion = "failed" /\ finished = "no")
    <3>1. UNCHANGED <<finished, caller, listening>>
      BY <1>4, <2>5 DEF B!Return, B!finishWith
    <3>2. EndComesLast' /\ EventsFollow'
      BY <2>1, <3>1, TellingStays
    <3>3. BridgeTypes'
      BY <2>1, <3>1 DEF BInv, BridgeTypes
    <3>4. ListenersFollowTheCall' /\ EndsAreDeaf'
      BY <2>1, <2>3, <3>1 DEF BInv, ListenersFollowTheCall, EndsAreDeaf
    <3> QED
      BY <3>2, <3>3, <3>4, <2>2 DEF BInv
  <2> QED
    BY <2>4, <2>5
<1>5. CASE B!Abort
  <2>1. /\ aborted = "no" /\ completion # "policy" /\ finished = "no"
        /\ aborted' = IF listening = {"data", "done"} THEN "late" ELSE "early"
        /\ UNCHANGED <<completion, onAbort, child, children, task, printed, drained, events>>
    BY <1>5 DEF B!Abort
  <2>2. AbortIsHeard' /\ TaskFollowsChild'
    BY <2>1 DEF BInv, AbortIsHeard, TaskFollowsChild
  <2>3. completion \in {"listenData", "listenDone"} => aborted' = "early"
    <3>1. completion \in {"listenData", "listenDone"} => listening \in {{}, {"data"}}
      BY <2>1 DEF BInv, ListenersFollowTheCall
    <3>2. {} # {"data", "done"} /\ {"data"} # {"data", "done"}
      <4>1. "done" \in {"data", "done"} /\ "done" \notin {} /\ "done" \notin {"data"}
        OBVIOUS
      <4> QED
        BY <4>1
    <3> QED
      BY <2>1, <3>1, <3>2
  <2>4. CASE onAbort
    <3>1. finished' = "onDone" /\ caller' = Append(caller, <<"onDone", 0>>) /\ listening' = {} /\ killing' = 1
      BY <1>5, <2>1, <2>4 DEF B!Abort, B!finishWith
    <3>2. "onDone" \in B!Ends /\ aborted' # "no"
      BY <2>1 DEF B!Ends
    <3>3. caller' \in Seq(Told) /\ EndComesLast' /\ EventsFollow' /\ finished' \in {"onDone", "onError"}
      BY <2>1, <3>1, <3>2, FirstEndComesLast
    <3>4. BridgeTypes'
      BY <2>1, <3>1, <3>3 DEF BInv, BridgeTypes
    <3>5. ListenersFollowTheCall' /\ EndsAreDeaf'
      BY <2>1, <2>3, <3>1 DEF ListenersFollowTheCall, EndsAreDeaf
    <3> QED
      BY <3>3, <3>4, <3>5, <2>2 DEF BInv
  <2>5. CASE ~onAbort
    <3>1. UNCHANGED <<finished, caller, listening, killing>>
      BY <1>5, <2>5 DEF B!Abort
    <3>2. completion = "returned"
      BY <2>1, <2>5 DEF BInv, AbortIsHeard
    <3>3. aborted' = "late"
      BY <2>1, <3>2 DEF BInv, ListenersFollowTheCall
    <3>4. EndComesLast' /\ EventsFollow'
      BY <2>1, <3>1, <3>3, TellingStays
    <3>5. BridgeTypes'
      BY <2>1, <3>1, <3>3 DEF BInv, BridgeTypes
    <3>6. ListenersFollowTheCall' /\ EndsAreDeaf'
      BY <2>1, <3>1, <3>2, <3>3 DEF BInv, ListenersFollowTheCall, EndsAreDeaf
    <3> QED
      BY <3>4, <3>5, <3>6, <2>2 DEF BInv
  <2> QED
    BY <2>4, <2>5
<1> QED
  BY <1>1, <1>2, <1>3, <1>4, <1>5

\* The child, the kill and the task: the caller is told nothing.
LEMMA BackKeepsBInv ==
  ASSUME BInv, BridgeBounds, B!Kill \/ B!PrintLine \/ B!Exit \/ B!EmitLine \/ B!EndOfOutput \/ B!Reap
  PROVE  BInv'
<1> USE DEF B!front
<1>1. UNCHANGED <<completion, listening, finished, onAbort, aborted, caller>>
  BY DEF B!Kill, B!PrintLine, B!Exit, B!EmitLine, B!EndOfOutput, B!Reap
<1>2. AbortIsHeard' /\ ListenersFollowTheCall' /\ EndsAreDeaf'
  <2>1. AbortIsHeard'
    BY <1>1 DEF BInv, AbortIsHeard
  <2> QED
    BY <1>1, <2>1 DEF BInv, ListenersFollowTheCall, EndsAreDeaf
<1>3. CASE B!Kill \/ B!PrintLine \/ B!Exit
  <2>1. /\ UNCHANGED <<task, drained, events>>
        /\ child = "runs" \/ (child' = child /\ printed' = printed)
        /\ printed' = printed \/ (printed < MaxLines /\ printed' = printed + 1)
        /\ child' \in {child, "killed", "exited"}
        /\ killing' \in {killing, 0} /\ children' \in {children, FALSE}
        /\ printed' # printed => child' = child
    BY <1>3 DEF B!Kill, B!PrintLine, B!Exit
  <2>2. task = "over" => child # "runs"
    BY DEF BInv, TaskFollowsChild
  <2>3. EndComesLast' /\ EventsFollow'
    BY <1>1, <2>1, <2>2, TellingStays
  <2>4. BridgeTypes'
    <3>1. BridgeTypes
      BY DEF BInv
    <3>2. printed' \in Nat /\ printed' <= MaxLines /\ printed <= printed'
      BY <2>1, <3>1 DEF BridgeTypes, BridgeBounds
    <3>3. drained' \in Nat /\ drained' <= printed'
      BY <2>1, <3>1, <3>2 DEF BridgeTypes
    <3>4. killing' \in {0, 1}
      BY <2>1, <3>1 DEF BridgeTypes
    <3>5. children' \in BOOLEAN /\ child' \in {"none", "runs", "killed", "exited"}
      BY <2>1, <3>1, Zenon DEF BridgeTypes
    <3> QED
      BY <1>1, <2>1, <3>1, <3>2, <3>3, <3>4, <3>5, Zenon DEF BridgeTypes
  <2>5. TaskFollowsChild'
    BY <1>1, <2>1 DEF BInv, TaskFollowsChild
  <2> QED
    BY <1>2, <2>3, <2>4, <2>5 DEF BInv
<1>4. CASE B!EmitLine
  <2>1. /\ task = "draining" /\ drained < printed /\ drained' = drained + 1
        /\ events' = Append(events, <<"line", drained + 1>>)
        /\ UNCHANGED <<killing, child, children, task, printed>>
    BY <1>4 DEF B!EmitLine
  <2>2. drained \in Nat /\ printed \in Nat /\ printed <= MaxLines /\ events \in Seq(Told)
    BY DEF BInv, BridgeTypes
  <2>3. drained + 1 \in 1 .. MaxLines
    BY <2>1, <2>2 DEF BridgeBounds
  <2>4. <<"line", drained + 1>> \in Told
    BY <2>3, ToldIs
  <2>5. /\ events' \in Seq(Told) /\ Len(events') = Len(events) + 1 /\ Len(events) \in Nat
        /\ \A j \in 1 .. Len(events) : events'[j] = events[j]
        /\ events'[Len(events) + 1] = <<"line", drained + 1>>
    BY <2>1, <2>2, <2>4, AppendFits
  <2>6. BridgeTypes'
    BY <1>1, <2>1, <2>2, <2>5 DEF BInv, BridgeTypes
  <2>7. TaskFollowsChild'
    BY <1>1, <2>1 DEF BInv, TaskFollowsChild
  <2>8. EndComesLast'
    BY <1>1, <2>1 DEF BInv, EndComesLast
  <2>9. EventsFollow'
    <3> SUFFICES ASSUME finished = "no" PROVE EventsFollow'
      BY <1>1 DEF EventsFollow
    <3>1. /\ Len(caller) <= drained /\ Len(events) = drained - Len(caller) /\ Len(caller) \in Nat
          /\ \A i \in 1 .. (drained - Len(caller)) : events[i] = <<"line", Len(caller) + i>>
      <4>1. caller \in Seq(Told)
        BY DEF BInv, BridgeTypes
      <4> QED
        BY <2>1, <2>2, <4>1 DEF BInv, EventsFollow
    <3>2. Len(caller') <= drained' /\ Len(events') = drained' - Len(caller') /\ task' # "over"
      BY <1>1, <2>1, <2>2, <2>5, <3>1
    <3>3. ASSUME NEW i \in 1 .. (drained' - Len(caller'))
          PROVE  events'[i] = <<"line", Len(caller') + i>>
      <4>1. CASE i = Len(events) + 1
        <5>1. Len(caller') + i = drained + 1
          BY <1>1, <2>2, <3>1, <4>1
        <5> QED
          BY <2>5, <4>1, <5>1
      <4>2. CASE i # Len(events) + 1
        <5>1. i \in 1 .. Len(events) /\ i \in 1 .. (drained - Len(caller))
          BY <1>1, <2>1, <2>2, <3>1, <3>3, <4>2
        <5> QED
          BY <1>1, <2>5, <3>1, <5>1
      <4> QED
        BY <4>1, <4>2
    <3> QED
      BY <3>2, <3>3 DEF EventsFollow
  <2> QED
    BY <1>2, <2>6, <2>7, <2>8, <2>9 DEF BInv
<1>5. CASE B!EndOfOutput
  <2>1. /\ task = "draining" /\ drained = printed /\ child # "runs" /\ task' = "reaping"
        /\ UNCHANGED <<killing, child, children, printed, drained, events>>
    BY <1>5 DEF B!EndOfOutput
  <2>2. EndComesLast' /\ EventsFollow'
    BY <1>1, <2>1, TellingStays
  <2>3. BridgeTypes'
    BY <1>1, <2>1 DEF BInv, BridgeTypes
  <2>4. TaskFollowsChild'
    BY <1>1, <2>1 DEF BInv, TaskFollowsChild
  <2> QED
    BY <1>2, <2>2, <2>3, <2>4 DEF BInv
<1>6. CASE B!Reap
  <2>1. /\ task = "reaping" /\ task' = "over" /\ children' = FALSE
        /\ UNCHANGED <<killing, child, printed, drained>>
    BY <1>6 DEF B!Reap
  <2>2. PICK how \in B!Ends : events' = Append(events, <<how, 0>>)
    BY <1>6 DEF B!Reap, B!Ends
  <2>3. events \in Seq(Told) /\ <<how, 0>> \in Told /\ drained \in Nat /\ caller \in Seq(Told)
    BY <2>2, ToldIs DEF BInv, BridgeTypes
  <2>4. /\ events' \in Seq(Told) /\ Len(events') = Len(events) + 1 /\ Len(events) \in Nat
        /\ \A j \in 1 .. Len(events) : events'[j] = events[j]
        /\ events'[Len(events) + 1] = <<how, 0>>
    BY <2>2, <2>3, AppendFits
  <2>5. BridgeTypes'
    BY <1>1, <2>1, <2>4 DEF BInv, BridgeTypes
  <2>6. TaskFollowsChild'
    BY <1>1, <2>1 DEF BInv, TaskFollowsChild
  <2>7. EndComesLast'
    <3>1. ~(finished = "onDone" /\ aborted = "no")
      BY <2>1 DEF BInv, EndComesLast
    <3> QED
      BY <1>1, <3>1 DEF BInv, EndComesLast
  <2>8. EventsFollow'
    <3> SUFFICES ASSUME finished = "no" PROVE EventsFollow'
      BY <1>1 DEF EventsFollow
    <3>1. /\ Len(caller) <= drained /\ Len(events) = drained - Len(caller) /\ Len(caller) \in Nat
          /\ \A i \in 1 .. (drained - Len(caller)) : events[i] = <<"line", Len(caller) + i>>
      BY <2>1, <2>3 DEF BInv, EventsFollow
    <3>2. events'[Len(events')][1] = how
      BY <2>4
    <3>3. Len(caller') <= drained' /\ Len(events') = drained' - Len(caller') + 1
      BY <1>1, <2>1, <2>3, <2>4, <3>1
    <3>4. \A i \in 1 .. (drained' - Len(caller')) : events'[i] = <<"line", Len(caller') + i>>
      BY <1>1, <2>1, <2>3, <2>4, <3>1
    <3> QED
      BY <2>1, <2>2, <3>2, <3>3, <3>4 DEF EventsFollow
  <2> QED
    BY <1>2, <2>5, <2>6, <2>7, <2>8 DEF BInv
<1> QED
  BY <1>3, <1>4, <1>5, <1>6

LEMMA DeliverKeepsBInv ==
  ASSUME BInv, BridgeBounds, B!Deliver
  PROVE  BInv'
<1> DEFINE e == Head(events)
<1>1. /\ events # <<>> /\ events' = Tail(events)
      /\ UNCHANGED <<completion, onAbort, aborted, killing, child, children, task, printed, drained>>
      /\ IF e[1] \in B!Ends
         THEN IF "done" \in listening THEN B!finishWith(e[1]) ELSE UNCHANGED <<finished, caller, listening>>
         ELSE /\ caller' = IF "data" \in listening THEN Append(caller, e) ELSE caller
              /\ UNCHANGED <<finished, listening>>
  BY DEF B!Deliver, B!back
<1>2. /\ events \in Seq(Told) /\ caller \in Seq(Told) /\ drained \in Nat /\ printed \in Nat
      /\ drained <= printed /\ printed <= MaxLines
  BY DEF BInv, BridgeTypes
<1>3. /\ Len(events) \in Nat /\ Len(events) > 0 /\ e = events[1] /\ e \in Told /\ Tail(events) \in Seq(Told)
      /\ Len(Tail(events)) = Len(events) - 1
      /\ \A i \in 1 .. (Len(events) - 1) : Tail(events)[i] = events[i + 1]
      /\ Len(caller) \in Nat
  BY <1>1, <1>2
<1> HIDE DEF e
\* What is delivered comes of a task, and then the listeners are up or down for good.
<1>4. task # "none" /\ completion \in {"spawned", "returned"}
  <2>1. events # <<>>
    BY <1>1
  <2> QED
    BY <2>1 DEF BInv, TaskFollowsChild
<1>5. finished = "no" => listening = {"data", "done"}
  BY <1>4 DEF BInv, ListenersFollowTheCall
<1>6. AbortIsHeard' /\ TaskFollowsChild'
  <2>1. AbortIsHeard'
    BY <1>1 DEF BInv, AbortIsHeard
  <2>2. TaskFollowsChild'
    BY <1>1, <1>4 DEF BInv, TaskFollowsChild
  <2> QED
    BY <2>1, <2>2
<1>7. finished = "no" =>
        /\ aborted # "early" /\ Len(caller) <= drained
        /\ Len(events) = drained - Len(caller) + (IF task = "over" THEN 1 ELSE 0)
        /\ \A i \in 1 .. (drained - Len(caller)) : events[i] = <<"line", Len(caller) + i>>
  BY DEF BInv, EventsFollow, ListenersFollowTheCall
<1>8. CASE finished = "no" /\ e[1] \in B!Ends
  <2>1. finished' = e[1] /\ caller' = Append(caller, <<e[1], 0>>) /\ listening' = {}
    BY <1>1, <1>5, <1>8 DEF B!finishWith
  <2>2. task = "over" /\ Len(caller) = drained
    <3>1. ~(1 \in 1 .. (drained - Len(caller)))
      <4>1. SUFFICES ASSUME 1 \in 1 .. (drained - Len(caller)) PROVE FALSE
        OBVIOUS
      <4>2. events[1] = <<"line", Len(caller) + 1>>
        BY <1>7, <1>8, <4>1
      <4>3. e[1] = "line"
        BY <1>3, <4>2
      <4> QED
        BY <1>8, <4>3 DEF B!Ends
    <3>2. Len(caller) = drained
      BY <1>2, <1>3, <1>7, <1>8, <3>1
    <3> QED
      BY <1>2, <1>3, <1>7, <1>8, <3>2
  <2>3. drained = printed
    BY <2>2 DEF BInv, TaskFollowsChild
  <2>4. caller' \in Seq(Told) /\ EndComesLast' /\ EventsFollow' /\ finished' \in {"onDone", "onError"}
    BY <1>1, <1>8, <2>1, <2>2, <2>3, FirstEndComesLast
  <2>5. BridgeTypes'
    BY <1>1, <1>3, <2>1, <2>4 DEF BInv, BridgeTypes
  <2>6. ListenersFollowTheCall' /\ EndsAreDeaf'
    BY <1>1, <1>4, <2>1, <2>4 DEF ListenersFollowTheCall, EndsAreDeaf
  <2> QED
    BY <1>6, <2>4, <2>5, <2>6 DEF BInv
<1>9. CASE finished = "no" /\ e[1] \notin B!Ends
  <2>1. caller' = Append(caller, e) /\ UNCHANGED <<finished, listening>>
    BY <1>1, <1>5, <1>9
  <2>2. e[1] = "line"
    BY <1>3, <1>9, ToldIs
  <2>3. 1 \in 1 .. (drained - Len(caller))
    <3>1. CASE drained - Len(caller) = 0
      <4>1. task = "over" /\ Len(events) = 1
        BY <1>2, <1>3, <1>7, <1>9, <3>1
      <4>2. events[Len(events)][1] \in B!Ends
        BY <1>9, <4>1 DEF BInv, EventsFollow
      <4> QED
        BY <1>3, <1>9, <4>1, <4>2
    <3> QED
      BY <1>2, <1>3, <1>7, <1>9, <3>1
  <2>4. e = <<"line", Len(caller) + 1>>
    BY <1>3, <1>7, <1>9, <2>3
  <2>5. /\ caller' \in Seq(Told) /\ DOMAIN caller' = 1 .. (Len(caller) + 1) /\ Len(caller') = Len(caller) + 1
        /\ \A j \in DOMAIN caller : caller'[j] = caller[j]
        /\ caller'[Len(caller) + 1] = e
        /\ DOMAIN caller' = DOMAIN caller \cup {Len(caller) + 1}
    BY <1>2, <1>3, <2>1, AppendFits
  <2>6. EndComesLast'
    <3>1. \A i \in DOMAIN caller' : caller'[i][1] = "line"
      BY <1>9, <2>2, <2>5 DEF BInv, EndComesLast
    <3>2. "line" \notin B!Ends /\ finished' = "no"
      BY <1>9, <2>1 DEF B!Ends
    <3>3. \A i \in DOMAIN caller : caller[i] = <<"line", i>>
      <4>1. \A i \in DOMAIN caller : caller[i][1] \notin B!Ends
        BY <1>9, <3>2 DEF BInv, EndComesLast
      <4> QED
        BY <1>7, <1>9, <4>1 DEF BInv, EndComesLast
    <3>4. \A i \in DOMAIN caller' : caller'[i] = <<"line", i>>
      BY <2>4, <2>5, <3>3
    <3> QED
      BY <3>1, <3>2, <3>4 DEF EndComesLast
  <2>7. EventsFollow'
    <3>1. /\ Len(caller') <= drained'
          /\ Len(events') = drained' - Len(caller') + (IF task' = "over" THEN 1 ELSE 0)
      <4>1. task' = task /\ drained' = drained /\ Len(events') = Len(events) - 1
        BY <1>1, <1>3
      <4> QED
        BY <1>2, <1>3, <1>7, <1>9, <2>3, <2>5, <4>1
    <3>2. ASSUME NEW i \in 1 .. (drained' - Len(caller'))
          PROVE  events'[i] = <<"line", Len(caller') + i>>
      <4>1. i + 1 \in 1 .. (drained - Len(caller)) /\ i \in 1 .. (Len(events) - 1)
        BY <1>1, <1>2, <1>3, <1>7, <1>9, <2>5, <3>2
      <4>2. events'[i] = events[i + 1]
        BY <1>1, <1>3, <4>1
      <4>3. events[i + 1] = <<"line", Len(caller) + (i + 1)>>
        BY <1>7, <1>9, <4>1
      <4>4. Len(caller) + (i + 1) = Len(caller') + i
        BY <1>3, <2>5, <4>1
      <4> QED
        BY <4>2, <4>3, <4>4
    <3>3. ASSUME task' = "over" PROVE events'[Len(events')][1] \in B!Ends
      <4>1. task = "over" /\ Len(events) = drained - Len(caller) + 1
        BY <1>1, <1>7, <1>9, <3>3
      <4>2. Len(events') = Len(events) - 1 /\ Len(events) - 1 \in 1 .. (Len(events) - 1)
        BY <1>1, <1>2, <1>3, <2>3, <4>1
      <4>3. events'[Len(events')] = events[Len(events)]
        BY <1>1, <1>3, <4>2
      <4>4. events[Len(events)][1] \in B!Ends
        BY <1>9, <4>1 DEF BInv, EventsFollow
      <4> QED
        BY <4>3, <4>4
    <3> QED
      BY <3>1, <3>2, <3>3 DEF EventsFollow
  <2>8. BridgeTypes'
    BY <1>1, <1>3, <2>1, <2>5 DEF BInv, BridgeTypes
  <2>9. ListenersFollowTheCall' /\ EndsAreDeaf'
    BY <1>1, <2>1 DEF BInv, ListenersFollowTheCall, EndsAreDeaf
  <2> QED
    BY <1>6, <2>6, <2>7, <2>8, <2>9 DEF BInv
<1>10. CASE finished # "no"
  <2>1. UNCHANGED <<finished, listening>>
    BY <1>1, <1>10 DEF B!finishWith
  <2>2. caller' = caller \/ (aborted = "early" /\ e[1] \notin B!Ends /\ caller' = Append(caller, e))
    <3>1. aborted # "early" => listening = {}
      BY <1>10 DEF BInv, EndsAreDeaf
    <3> QED
      BY <1>1, <1>10, <3>1 DEF B!finishWith
  <2>3. caller' \in Seq(Told)
    BY <1>2, <1>3, <2>2, AppendFits
  <2>4. EndComesLast'
    <3>1. CASE caller' = caller
      BY <1>1, <2>1, <3>1 DEF BInv, EndComesLast
    <3>2. CASE aborted = "early" /\ e[1] \notin B!Ends /\ caller' = Append(caller, e)
      <4>1. /\ \A j \in DOMAIN caller : caller'[j] = caller[j]
            /\ caller'[Len(caller) + 1] = e /\ DOMAIN caller' = DOMAIN caller \cup {Len(caller) + 1}
        BY <1>2, <1>3, <3>2, AppendFits
      <4>2. \A i, j \in DOMAIN caller' : caller'[i][1] \in B!Ends /\ caller'[j][1] \in B!Ends => i = j
        BY <3>2, <4>1 DEF BInv, EndComesLast
      <4> QED
        BY <1>1, <1>10, <2>1, <3>2, <4>2 DEF EndComesLast
    <3> QED
      BY <2>2, <3>1, <3>2
  <2>5. EventsFollow'
    BY <1>10, <2>1 DEF EventsFollow
  <2>6. BridgeTypes'
    BY <1>1, <1>3, <2>1, <2>3 DEF BInv, BridgeTypes
  <2>7. ListenersFollowTheCall' /\ EndsAreDeaf'
    BY <1>1, <2>1 DEF BInv, ListenersFollowTheCall, EndsAreDeaf
  <2> QED
    BY <1>6, <2>4, <2>5, <2>6, <2>7 DEF BInv
<1> QED
  BY <1>8, <1>9, <1>10

LEMMA NextBInv ==
  ASSUME BridgeBounds, BInv, B!Next \/ UNCHANGED B!vars
  PROVE  BInv'
<1>1. CASE UNCHANGED B!vars
  <2>1. UNCHANGED <<completion, listening, finished, onAbort, aborted, caller, killing, child, children, task,
                    printed, drained, events>>
    BY <1>1 DEF B!vars, B!front, B!back
  <2>2. BridgeTypes' /\ TaskFollowsChild'
    BY <2>1 DEF BInv, BridgeTypes, TaskFollowsChild
  <2>3. AbortIsHeard'
    BY <2>1 DEF BInv, AbortIsHeard
  <2>4. ListenersFollowTheCall' /\ EndsAreDeaf' /\ EndComesLast' /\ EventsFollow'
    BY <2>1 DEF BInv, ListenersFollowTheCall, EndsAreDeaf, EndComesLast, EventsFollow
  <2> QED
    BY <2>2, <2>3, <2>4 DEF BInv
<1> QED
  BY <1>1, FrontKeepsBInv, BackKeepsBInv, DeliverKeepsBInv DEF B!Next, B!Step

LEMMA BInvSuffices ==
  ASSUME BridgeBounds, BInv
  PROVE  B!TypeOK /\ B!ToldOnce /\ B!NothingAfterTheEnd
<1>1. caller \in Seq(Told) /\ events \in Seq(Told)
  BY DEF BInv, BridgeTypes
<1>2. B!Range(caller) \subseteq Told /\ B!Range(events) \subseteq Told
  BY <1>1 DEF B!Range
<1>3. B!TypeOK
  <2>1. drained <= printed /\ printed \in 0 .. MaxLines
    BY DEF BInv, BridgeTypes, BridgeBounds
  <2>2. /\ completion \in {"policy", "listenData", "listenDone", "spawning", "failed", "spawned", "returned"}
        /\ listening \subseteq {"data", "done"} /\ finished \in {"no"} \cup B!Ends
        /\ aborted \in {"no", "early", "late"} /\ killing \in 0 .. 1
        /\ child \in {"none", "runs", "killed", "exited"}
        /\ task \in {"none", "draining", "reaping", "over"}
    BY DEF BInv, BridgeTypes, B!Ends
  <2>3. onAbort \in BOOLEAN /\ children \in BOOLEAN
    BY DEF BInv, BridgeTypes
  <2> QED
    BY <1>2, <2>1, <2>2, <2>3 DEF B!TypeOK, Told
<1>4. B!ToldOnce
  BY DEF BInv, EndComesLast, B!ToldOnce
<1>5. B!NothingAfterTheEnd
  <2> SUFFICES ASSUME aborted # "early", NEW i \in DOMAIN caller, caller[i][1] \in B!Ends PROVE i = Len(caller)
    BY DEF B!NothingAfterTheEnd
  <2>1. caller[i] # <<"line", i>>
    BY DEF B!Ends
  <2> QED
    BY <2>1 DEF BInv, EndComesLast
<1> QED
  BY <1>3, <1>4, <1>5

\* The caller of the Claude Code CLI hears its lines in order, one end, and
\* then nothing (claude-cli-transport.ts, claude_cli.rs).
THEOREM CallersAreToldOnce ==
  ASSUME BridgeBounds
  PROVE  B!Spec => [](B!TypeOK /\ B!ToldOnce /\ B!NothingAfterTheEnd)
<1>1. BInv /\ [B!Next]_(B!vars) => BInv'
  BY NextBInv
<1> QED
  BY InitBInv, BInvSuffices, <1>1, PTL DEF B!Spec
-----------------------------------------------------------------------------
(***************************************************************************)
(* Calls of models.                                                        *)
(***************************************************************************)
Fields == {"at", "aborted", "timer", "cancel", "sent", "line", "tokens", "thoughts", "event", "why"}

\* A call that has not begun has no answer and no event.
NotBegun(r) == r.tokens = <<>> /\ r.why = "none" /\ r.event = L!Nothing

\* What went out was allowed.
WentOut(r) == r.at \in {"fetching", "reading"} \/ r.tokens # <<>> \/ r.why = "whole"

LInv ==
  /\ DOMAIN llm = Calls
  /\ \A c \in Calls : DOMAIN llm[c] = Fields /\ (llm[c].at = "idle" => NotBegun(llm[c]))
  /\ L!EgressIsTold

LEMMA InitLInv ==
  ASSUME L!Init
  PROVE  LInv
BY DEF L!Init, L!Idle, LInv, NotBegun, L!EgressIsTold, Fields

\* The call goes on or ends: its event stays, and it has gone out before.
LEMMA OneCallKeepsLInv ==
  ASSUME LInv, NEW c \in Calls, NEW r, llm' = [llm EXCEPT ![c] = r], UNCHANGED <<log, lost>>,
         DOMAIN r = Fields, r.event = llm[c].event,
         r.at = "idle" => NotBegun(r),
         WentOut(r) => WentOut(llm[c])
  PROVE  LInv'
<1>1. DOMAIN llm' = Calls /\ llm'[c] = r /\ \A d \in Calls \ {c} : llm'[d] = llm[d]
  BY DEF LInv
<1>2. L!EgressIsTold'
  <2> SUFFICES ASSUME NEW d \in Calls, llm'[d].event # L!Nothing
               PROVE  /\ llm'[d].event.project # L!NoProject => llm'[d].event \in lost \cup log
                      /\ WentOut(llm'[d]) => llm'[d].event.allowed
    BY <1>1 DEF L!EgressIsTold, L!Running, WentOut, L!Nothing
  <2>1. llm'[d].event = llm[d].event /\ (WentOut(llm'[d]) => WentOut(llm[d]))
    BY <1>1
  <2>2. /\ llm[d].event.project # L!NoProject => llm[d].event \in lost \cup log
        /\ WentOut(llm[d]) => llm[d].event.allowed
    BY <2>1 DEF LInv, L!EgressIsTold, L!Running, WentOut
  <2> QED
    BY <2>1, <2>2
<1> QED
  BY <1>1, <1>2 DEF LInv, NotBegun

\* What an end leaves of a call.
LEMMA EndedIs ==
  ASSUME NEW r, NEW at, NEW why
  PROVE  /\ DOMAIN L!Ended(r, at, why) = Fields
         /\ L!Ended(r, at, why).event = r.event /\ L!Ended(r, at, why).tokens = r.tokens
         /\ L!Ended(r, at, why).at = at /\ L!Ended(r, at, why).why = why
BY DEF L!Ended, L!Idle, Fields

LEMMA UnlessIs ==
  ASSUME NEW r, NEW why, why # "whole"
  PROVE  /\ DOMAIN L!Unless(r, why) = Fields
         /\ L!Unless(r, why).event = r.event /\ L!Unless(r, why).tokens = r.tokens
         /\ L!Unless(r, why).at \in {"done", "error"} /\ L!Unless(r, why).why # "whole"
<1>1. L!Unless(r, why) = L!Ended(r, "done", "cancelled") \/ L!Unless(r, why) = L!Ended(r, "error", why)
  BY DEF L!Unless
<1> QED
  BY <1>1, EndedIs

LEMMA BeginKeepsLInv ==
  ASSUME LInv, NEW c \in Calls, NEW policy, NEW p, NEW ok \in BOOLEAN, L!Begin(c, policy, p, ok)
  PROVE  LInv'
<1> DEFINE e == L!Event(c, policy, p)
           r == [llm[c] EXCEPT !.timer = "running", !.event = e]
           s == IF e.allowed THEN [r EXCEPT !.at = "fetching"] ELSE L!Unless(r, "blocked")
<1>1. /\ llm[c].at = "idle" /\ llm' = [llm EXCEPT ![c] = s]
      /\ log' = IF ok THEN log \cup L!Logged(e) ELSE log
      /\ lost' = IF ok THEN lost ELSE lost \cup {e}
  BY DEF L!Begin
<1>2. DOMAIN llm[c] = Fields /\ NotBegun(llm[c])
  BY <1>1 DEF LInv
<1>3. DOMAIN r = Fields /\ r.event = e /\ r.tokens = <<>> /\ r.why = "none"
  BY <1>2 DEF Fields, NotBegun
<1>4. DOMAIN s = Fields /\ s.event = e /\ s.at # "idle" /\ (WentOut(s) => e.allowed)
  <2>1. CASE e.allowed
    <3>1. s = [r EXCEPT !.at = "fetching"]
      BY <2>1
    <3> HIDE DEF e, r, s
    <3> QED
      BY <1>3, <2>1, <3>1 DEF Fields
  <2>2. CASE ~e.allowed
    <3>1. s = L!Unless(r, "blocked")
      BY <2>2
    <3> HIDE DEF e, r, s
    <3> QED
      BY <1>3, <3>1, UnlessIs DEF WentOut
  <2> QED
    BY <2>1, <2>2
<1>5. e.project # L!NoProject => e \in lost' \cup log'
  BY <1>1 DEF L!Logged
<1> HIDE DEF e, r, s
<1>6. DOMAIN llm' = Calls /\ llm'[c] = s /\ \A d \in Calls \ {c} : llm'[d] = llm[d]
  BY <1>1 DEF LInv
<1>7. lost \cup log \subseteq lost' \cup log'
  BY <1>1
<1>8. L!EgressIsTold'
  <2> SUFFICES ASSUME NEW d \in Calls, llm'[d].event # L!Nothing
               PROVE  /\ llm'[d].event.project # L!NoProject => llm'[d].event \in lost' \cup log'
                      /\ WentOut(llm'[d]) => llm'[d].event.allowed
    BY DEF L!EgressIsTold, L!Running, WentOut, L!Nothing
  <2>1. CASE d = c
    BY <1>4, <1>5, <1>6, <2>1
  <2>2. CASE d # c
    BY <1>6, <1>7, <2>2 DEF LInv, L!EgressIsTold, L!Running, WentOut
  <2> QED
    BY <2>1, <2>2
<1> QED
  BY <1>4, <1>6, <1>8 DEF LInv, NotBegun

LEMMA NextLInv ==
  ASSUME LInv, L!Next \/ UNCHANGED L!vars
  PROVE  LInv'
<1>1. CASE UNCHANGED L!vars
  BY <1>1 DEF L!vars, LInv, NotBegun, L!EgressIsTold, L!Running
<1>2. ASSUME NEW c \in Calls, NEW policy \in L!Policies, NEW p \in Logs \cup {L!NoProject},
             NEW ok \in BOOLEAN, L!Begin(c, policy, p, ok)
      PROVE  LInv'
  BY <1>2, BeginKeepsLInv
<1>3. ASSUME NEW c \in Calls, L!Abort(c) PROVE LInv'
  <2> DEFINE r == IF L!Running(c) THEN L!Aborted(llm[c]) ELSE [llm[c] EXCEPT !.aborted = TRUE]
  <2>1. llm' = [llm EXCEPT ![c] = r] /\ UNCHANGED <<log, lost>>
    BY <1>3 DEF L!Abort, L!Running, L!Aborted
  <2>2. DOMAIN llm[c] = Fields /\ (llm[c].at = "idle" => NotBegun(llm[c]))
    BY DEF LInv
  <2>3. /\ DOMAIN r = Fields /\ r.event = llm[c].event /\ r.at = llm[c].at /\ r.tokens = llm[c].tokens
        /\ r.why = llm[c].why
    BY <2>2 DEF L!Aborted, Fields
  <2> HIDE DEF r
  <2> QED
    BY <2>1, <2>2, <2>3, OneCallKeepsLInv DEF NotBegun, WentOut
<1>4. ASSUME NEW c \in Calls, L!Fire(c) PROVE LInv'
  <2> DEFINE r == [llm[c] EXCEPT !.timer = "fired", !.cancel = TRUE]
  <2>1. llm' = [llm EXCEPT ![c] = r] /\ UNCHANGED <<log, lost>>
    BY <1>4 DEF L!Fire
  <2>2. DOMAIN llm[c] = Fields /\ (llm[c].at = "idle" => NotBegun(llm[c]))
    BY DEF LInv
  <2>3. /\ DOMAIN r = Fields /\ r.event = llm[c].event /\ r.at = llm[c].at /\ r.tokens = llm[c].tokens
        /\ r.why = llm[c].why
    BY <2>2 DEF Fields
  <2> HIDE DEF r
  <2> QED
    BY <2>1, <2>2, <2>3, OneCallKeepsLInv DEF NotBegun, WentOut
<1>5. ASSUME NEW c \in Calls, L!FetchCancelled(c) \/ L!FetchFails(c) \/ L!ReadFails(c) PROVE LInv'
  <2>1. PICK why \in {"timeout", "network"} : L!Goes(c, L!Unless(llm[c], why))
    BY <1>5 DEF L!FetchCancelled, L!FetchFails, L!ReadFails
  <2> DEFINE r == L!Unless(llm[c], why)
  <2>2. llm' = [llm EXCEPT ![c] = r] /\ UNCHANGED <<log, lost>>
    BY <2>1 DEF L!Goes
  <2>3. /\ DOMAIN r = Fields /\ r.event = llm[c].event /\ r.tokens = llm[c].tokens
        /\ r.at \in {"done", "error"} /\ r.why # "whole"
    BY UnlessIs
  <2> HIDE DEF r
  <2> QED
    BY <2>2, <2>3, OneCallKeepsLInv DEF WentOut
<1>6. ASSUME NEW c \in Calls, L!Refused(c) \/ L!ReadCancelled(c) PROVE LInv'
  <2>1. \/ L!Goes(c, L!Ended(llm[c], "error", "http"))
        \/ L!Goes(c, L!Ended(llm[c], "done", "cancelled"))
    BY <1>6 DEF L!Refused, L!ReadCancelled
  <2>2. PICK r : /\ L!Goes(c, r)
                 /\ r = L!Ended(llm[c], "error", "http") \/ r = L!Ended(llm[c], "done", "cancelled")
    BY <2>1
  <2>3. llm' = [llm EXCEPT ![c] = r] /\ UNCHANGED <<log, lost>>
    BY <2>2 DEF L!Goes
  <2>4. /\ DOMAIN r = Fields /\ r.event = llm[c].event /\ r.tokens = llm[c].tokens
        /\ r.at \in {"done", "error"} /\ r.why # "whole"
    BY <2>2, EndedIs
  <2> QED
    BY <2>3, <2>4, OneCallKeepsLInv DEF WentOut
<1>7. ASSUME NEW c \in Calls, L!Responds(c) PROVE LInv'
  <2> DEFINE r == [llm[c] EXCEPT !.at = "reading"]
  <2>1. llm' = [llm EXCEPT ![c] = r] /\ UNCHANGED <<log, lost>> /\ llm[c].at = "fetching"
    BY <1>7 DEF L!Responds, L!Goes
  <2>2. DOMAIN llm[c] = Fields
    BY DEF LInv
  <2>3. DOMAIN r = Fields /\ r.event = llm[c].event /\ r.at = "reading"
    BY <2>2 DEF Fields
  <2> HIDE DEF r
  <2> QED
    BY <2>1, <2>3, OneCallKeepsLInv DEF WentOut
<1>8. ASSUME NEW c \in Calls, NEW n \in 1 .. MaxChunk, L!Chunk(c, n) PROVE LInv'
  <2> DEFINE d == L!Decode(SubSeq(L!Bytes(c), llm[c].sent + 1, llm[c].sent + n))
             p == L!Parsed(llm[c].line, d.out)
             q == [llm[c] EXCEPT !.sent = llm[c].sent + n]
             r == L!Fed(q, p.lines, p.rest)
  <2>1. llm' = [llm EXCEPT ![c] = r] /\ UNCHANGED <<log, lost>> /\ llm[c].at = "reading"
    BY <1>8 DEF L!Chunk
  <2>2. DOMAIN llm[c] = Fields
    BY DEF LInv
  <2>3. DOMAIN q = Fields /\ q.event = llm[c].event /\ q.at = "reading"
    BY <2>1, <2>2 DEF Fields
  <2> HIDE DEF d, p, q
  <2>5. DOMAIN r = Fields /\ r.event = llm[c].event /\ r.at = "reading"
    BY <2>3 DEF L!Fed, Fields
  <2> HIDE DEF r
  <2> QED
    BY <2>1, <2>5, OneCallKeepsLInv DEF WentOut
<1>9. ASSUME NEW c \in Calls, L!Ends(c) PROVE LInv'
  <2> DEFINE q == L!WithRest(llm[c])
  <2>1. /\ llm[c].at = "reading"
        /\ L!Goes(c, L!Ended(q, "error", "thoughts")) \/ L!Goes(c, L!Ended(q, "done", "whole"))
    BY <1>9 DEF L!Ends
  <2>2. DOMAIN llm[c] = Fields
    BY DEF LInv
  <2>3. q.event = llm[c].event
    BY <2>2 DEF L!WithRest, L!Fed, Fields
  <2> HIDE DEF q
  <2>4. PICK r : /\ L!Goes(c, r) /\ DOMAIN r = Fields /\ r.event = llm[c].event
                 /\ r.at \in {"done", "error"}
    BY <2>1, <2>3, EndedIs
  <2>5. llm' = [llm EXCEPT ![c] = r] /\ UNCHANGED <<log, lost>>
    BY <2>4 DEF L!Goes
  <2> QED
    BY <2>1, <2>4, <2>5, OneCallKeepsLInv DEF WentOut
<1> QED
  BY <1>1, <1>2, <1>3, <1>4, <1>5, <1>6, <1>7, <1>8, <1>9 DEF L!Next, L!Step

\* No request leaves without an event in the log of its project, or one the disk
\* refused, and what went out is told of as allowed (egress-log.ts).
THEOREM RequestsAreToldOf ==
  L!Spec => []L!EgressIsTold
<1>1. LInv /\ [L!Next]_(L!vars) => LInv'
  BY NextLInv
<1>2. LInv => L!EgressIsTold
  BY DEF LInv
<1> QED
  BY InitLInv, <1>1, <1>2, PTL DEF L!Spec
-----------------------------------------------------------------------------
(***************************************************************************)
(* The chat.                                                               *)
(***************************************************************************)
ChatBounds == MaxConvs \in Nat

\* Conversations are numbered as they are created, here, in the save that is due
\* and on the disk.
Numbered(convs) == convs \subseteq 1 .. created
ChatsAreNumbered ==
  /\ created \in Nat /\ created <= MaxConvs
  /\ Numbered(conversations) /\ (activeId = 0 \/ activeId \in conversations)
  /\ DOMAIN chats = {"conversations", "chats"} /\ Numbered(chats.conversations)
  /\ \A t \in saving : Numbered(t.convs)

\* What is about to be saved is what the store has, unless an answer is due.
SaveIsDue == ~isStreaming => saving \subseteq {[convs |-> conversations, ms |-> messages]}

ChatInv == ChatsAreNumbered /\ SaveIsDue /\ H!SavedChatsMatch

LEMMA InitChatInv ==
  ASSUME ChatBounds, H!Init
  PROVE  ChatInv
BY DEF H!Init, ChatBounds, ChatInv, ChatsAreNumbered, SaveIsDue, H!SavedChatsMatch, Numbered

\* A change of the store that is saved later, or is one of an answer due.
LEMMA ChangeKeepsMatch ==
  ASSUME saving' = (IF isStreaming THEN saving ELSE H!Subscribed(conversations', messages')),
         isStreaming => isStreaming'
  PROVE  SaveIsDue' /\ H!SavedChatsMatch'
BY DEF SaveIsDue, H!SavedChatsMatch, H!Subscribed

LEMMA SavedMatches ==
  ASSUME saving' = H!Subscribed(conversations', messages')
  PROVE  SaveIsDue' /\ H!SavedChatsMatch'
BY DEF SaveIsDue, H!SavedChatsMatch, H!Subscribed

\* The first part of a send makes a conversation when there is none.
LEMMA BeginKeepsChatInv ==
  ASSUME ChatBounds, ChatInv, NEW ms, H!Begin(ms), UNCHANGED chats
  PROVE  ChatInv'
<1>1. SaveIsDue' /\ H!SavedChatsMatch'
  BY ChangeKeepsMatch DEF H!Begin
<1>2. ChatsAreNumbered'
  <2>1. /\ created' \in Nat /\ created <= created' /\ created' <= MaxConvs
        /\ Numbered(conversations)' /\ activeId' \in conversations'
    BY DEF ChatInv, ChatsAreNumbered, Numbered, H!Begin, ChatBounds
  <2>2. Numbered(chats.conversations)' /\ \A t \in saving : t.convs \subseteq 1 .. created'
    BY <2>1 DEF ChatInv, ChatsAreNumbered, Numbered
  <2>3. \A t \in saving' : t \in saving \/ t.convs = conversations'
    BY DEF H!Begin, H!Subscribed
  <2> QED
    BY <2>1, <2>2, <2>3 DEF ChatInv, ChatsAreNumbered, Numbered
<1> QED
  BY <1>1, <1>2 DEF ChatInv

LEMMA DeleteKeepsChatInv ==
  ASSUME ChatBounds, ChatInv, NEW c \in conversations, H!deleteConversation(c)
  PROVE  ChatInv'
<1>1. SaveIsDue' /\ H!SavedChatsMatch'
  BY ChangeKeepsMatch DEF H!deleteConversation
<1>2. activeId' = 0 \/ activeId' \in conversations'
  <2>1. CASE activeId = c /\ conversations' # {}
    <3>1. conversations' \subseteq 1 .. created /\ created \in Nat
      BY DEF ChatInv, ChatsAreNumbered, Numbered, H!deleteConversation
    <3>3. \E d \in conversations' : \A e \in conversations' : e <= d
      BY <2>1, <3>1, HasGreatest
    <3>4. activeId' = CHOOSE d \in conversations' : \A e \in conversations' : e <= d
      BY <2>1 DEF H!deleteConversation
    <3> QED
      BY <3>3, <3>4
  <2>2. CASE ~(activeId = c /\ conversations' # {})
    BY <2>2 DEF H!deleteConversation, ChatInv, ChatsAreNumbered
  <2> QED
    BY <2>1, <2>2
<1>3. /\ conversations' \subseteq conversations /\ created' = created
      /\ \A t \in saving' : t \in saving \/ t.convs = conversations'
  <2>1. /\ conversations' = conversations \ {c} /\ created' = created
        /\ saving' = IF isStreaming THEN saving ELSE H!Subscribed(conversations', messages')
    BY DEF H!deleteConversation
  <2> QED
    BY <2>1 DEF H!Subscribed
<1>4. DOMAIN chats' = {"conversations", "chats"} /\ chats'.conversations = chats.conversations
  <2>1. DOMAIN chats = {"conversations", "chats"} /\ chats' = [chats EXCEPT !.chats[c] = <<>>]
    BY DEF H!deleteConversation, ChatInv, ChatsAreNumbered
  <2> QED
    BY <2>1
<1>5. ChatsAreNumbered'
  BY <1>2, <1>3, <1>4 DEF ChatInv, ChatsAreNumbered, Numbered
<1> QED
  BY <1>1, <1>5 DEF ChatInv

LEMMA SaveKeepsChatInv ==
  ASSUME ChatBounds, ChatInv, H!SaveFires
  PROVE  ChatInv'
<1>1. PICK t \in saving :
        chats' = [conversations |-> t.convs,
                  chats |-> [c \in H!Convs |-> IF H!Of(c, t.ms) = <<>> THEN chats.chats[c] ELSE H!Of(c, t.ms)]]
  BY DEF H!SaveFires
<1>2. saving' = {} /\ UNCHANGED <<conversations, activeId, messages, isStreaming, created>>
  BY DEF H!SaveFires, H!store
<1>3. DOMAIN chats' = {"conversations", "chats"} /\ chats'.conversations = t.convs
  BY <1>1
<1>4. ChatsAreNumbered'
  BY <1>2, <1>3 DEF ChatInv, ChatsAreNumbered, Numbered
<1>5. SaveIsDue'
  BY <1>2 DEF SaveIsDue
<1>6. H!SavedChatsMatch'
  <2> SUFFICES ASSUME ~isStreaming PROVE H!SavedChatsMatch'
    BY <1>2 DEF H!SavedChatsMatch
  <2>1. t.convs = conversations /\ t.ms = messages
    BY DEF ChatInv, SaveIsDue
  <2>2. ASSUME NEW c \in conversations, H!Of(c, messages) # <<>>
        PROVE  chats'.chats[c] = H!Of(c, messages)
    <3>0. created \in Nat /\ created <= MaxConvs /\ c \in 1 .. created
      BY DEF ChatInv, ChatsAreNumbered, Numbered
    <3>1. c \in H!Convs
      BY <3>0 DEF H!Convs, ChatBounds
    <3> QED
      BY <1>1, <2>1, <2>2, <3>1
  <2> QED
    BY <1>2, <1>3, <2>1, <2>2 DEF H!SavedChatsMatch
<1> QED
  BY <1>4, <1>5, <1>6 DEF ChatInv

\* What is loaded is what the disk has; it is saved again.
LEMMA RestartKeepsChatInv ==
  ASSUME ChatInv, conversations' = chats.conversations, UNCHANGED <<chats, created>>,
         activeId' = 0 \/ activeId' \in conversations',
         saving' = IF conversations' = {} THEN {} ELSE H!Subscribed(conversations', messages')
  PROVE  ChatInv'
<1>1. SaveIsDue' /\ H!SavedChatsMatch'
  BY DEF SaveIsDue, H!SavedChatsMatch, H!Subscribed
<1>2. ChatsAreNumbered'
  BY DEF ChatInv, ChatsAreNumbered, Numbered, H!Subscribed
<1> QED
  BY <1>1, <1>2 DEF ChatInv

LEMMA NextChatInv ==
  ASSUME ChatBounds, ChatInv, H!Next \/ UNCHANGED H!vars
  PROVE  ChatInv'
<1>1. CASE H!SaveFires
  BY <1>1, SaveKeepsChatInv
<1>2. ASSUME NEW n \in DOMAIN sends, H!Retrieve(n) PROVE ChatInv'
  BY <1>2 DEF H!Retrieve, H!store, ChatInv, ChatsAreNumbered, Numbered, SaveIsDue, H!SavedChatsMatch
<1>3. ASSUME NEW n \in DOMAIN sends, H!Answer(n) PROVE ChatInv'
  <2>1. SaveIsDue' /\ H!SavedChatsMatch'
    <3>1. saving' = H!Subscribed(conversations', messages')
      BY <1>3 DEF H!Answer
    <3> QED
      BY <3>1, SavedMatches
  <2>2. ChatsAreNumbered'
    BY <1>3 DEF H!Answer, H!Subscribed, ChatInv, ChatsAreNumbered, Numbered
  <2> QED
    BY <2>1, <2>2 DEF ChatInv
<1>4. CASE H!createConversation
  <2>1. SaveIsDue' /\ H!SavedChatsMatch'
    <3>1. saving' = IF isStreaming THEN saving ELSE H!Subscribed(conversations', messages')
      BY <1>4 DEF H!createConversation
    <3> QED
      BY <1>4, <3>1, ChangeKeepsMatch DEF H!createConversation
  <2>2. /\ created' = created + 1 /\ created < MaxConvs /\ conversations' = conversations \cup {created + 1}
        /\ activeId' = created + 1 /\ UNCHANGED chats
        /\ \A t \in saving' : t \in saving \/ t.convs = conversations'
    BY <1>4 DEF H!createConversation, H!Subscribed
  <2>3. ChatsAreNumbered'
    <3>1. created \in Nat /\ created' \in Nat /\ created' <= MaxConvs
      BY <2>2 DEF ChatInv, ChatsAreNumbered, ChatBounds
    <3>2. 1 .. created \subseteq 1 .. created' /\ created + 1 \in 1 .. created'
      BY <2>2, <3>1
    <3>3. Numbered(conversations)' /\ (activeId' = 0 \/ activeId' \in conversations')
      BY <2>2, <3>2 DEF ChatInv, ChatsAreNumbered, Numbered
    <3>4. \A t \in saving' : t.convs \subseteq 1 .. created'
      BY <2>2, <3>2, <3>3 DEF ChatInv, ChatsAreNumbered, Numbered
    <3>5. DOMAIN chats' = {"conversations", "chats"} /\ Numbered(chats.conversations)'
      BY <2>2, <3>2 DEF ChatInv, ChatsAreNumbered, Numbered
    <3> QED
      BY <3>1, <3>3, <3>4, <3>5 DEF ChatsAreNumbered, Numbered
  <2> QED
    BY <2>1, <2>3 DEF ChatInv
<1>5. CASE H!handleSend
  BY <1>5, BeginKeepsChatInv DEF H!handleSend
<1>6. CASE H!handleStop
  BY <1>6 DEF H!handleStop, H!store, ChatInv, ChatsAreNumbered, Numbered, SaveIsDue, H!SavedChatsMatch
<1>7. CASE H!handleRegenerate
  <2>1. SaveIsDue' /\ H!SavedChatsMatch'
    <3>1. saving' = H!Subscribed(conversations', messages')
      BY <1>7 DEF H!handleRegenerate
    <3> QED
      BY <3>1, SavedMatches
  <2>2. ChatsAreNumbered'
    BY <1>7 DEF H!handleRegenerate, H!Subscribed, ChatInv, ChatsAreNumbered, Numbered
  <2> QED
    BY <2>1, <2>2 DEF ChatInv
<1>8. CASE H!Restart
  BY <1>8, RestartKeepsChatInv DEF H!Restart
<1>9. ASSUME NEW c \in conversations, H!setActiveConversation(c) PROVE ChatInv'
  <2>1. /\ UNCHANGED <<conversations, messages, isStreaming, created, chats>> /\ activeId' = c
        /\ saving' = IF isStreaming THEN saving ELSE H!Subscribed(conversations', messages')
    BY <1>9 DEF H!setActiveConversation
  <2>2. SaveIsDue' /\ H!SavedChatsMatch'
    BY <2>1, ChangeKeepsMatch
  <2>3. ChatsAreNumbered'
    <3>1. \A t \in saving' : t \in saving \/ t.convs = conversations
      BY <2>1 DEF H!Subscribed
    <3> QED
      BY <2>1, <3>1 DEF ChatInv, ChatsAreNumbered, Numbered
  <2> QED
    BY <2>2, <2>3 DEF ChatInv
<1>10. ASSUME NEW n \in redo, H!Resend(n) PROVE ChatInv'
  BY <1>10, BeginKeepsChatInv DEF H!Resend
<1>11. CASE UNCHANGED H!vars
  BY <1>11 DEF H!vars, H!store, ChatInv, ChatsAreNumbered, Numbered, SaveIsDue, H!SavedChatsMatch
<1> QED
  BY <1>1, <1>2, <1>3, <1>4, <1>5, <1>6, <1>7, <1>8, <1>9, <1>10, <1>11, DeleteKeepsChatInv
  DEF H!Next, H!Step

\* Whatever is created, sent, answered, deleted, regenerated and restarted, when
\* nothing is streaming and no save is due the disk has the chats the store has
\* (chat-store.ts, auto-save.ts, persist.ts).
THEOREM ChatsAreSaved ==
  ASSUME ChatBounds
  PROVE  H!Spec => []H!SavedChatsMatch
<1>1. ChatInv /\ [H!Next]_(H!vars) => ChatInv'
  BY NextChatInv
<1>2. ChatInv => H!SavedChatsMatch
  BY DEF ChatInv
<1> QED
  BY InitChatInv, <1>1, <1>2, PTL DEF H!Spec
=============================================================================

----------------------------- MODULE PageEditor -----------------------------
(***************************************************************************)
(* The page editor: the panel that loads the selected file and saves it a  *)
(* second after the last change (src/components/layout/preview-panel.tsx), *)
(* and the editor it holds (components/editor/wiki-editor.tsx), which is   *)
(* made anew for each file, for each content, and each time it is opened.  *)
(*                                                                         *)
(* A text is the file it was loaded from and the changes it holds.         *)
(***************************************************************************)
EXTENDS Naturals, FiniteSets

CONSTANTS Files, NoFile,
  MaxEdits, MaxSelections, MaxForeign  \* bounds: changes typed, clicks, other writers

VARIABLES
  disk,       \* file -> the text on disk
  selected,   \* selectedFile
  reads,      \* files being read for the panel
  fileContent,  \* the text handed to the editor
  lastLoaded, \* lastLoadedRef
  mode,       \* "read" or "edit"
  doc,        \* the text in the editor
  timer,      \* the armed save, {} or {[file, text]}
  edits, selections, foreign,
  typed,      \* history: what was typed into which file
  slips       \* history: the user has
              \* "rushed": edited, or selected another file, before one was loaded
              \* "left" a file, the editor or the panel before a change was saved,
              \*   or opened the editor again on a file that had been saved
              \* "disturbed": another writer changed a file in use

counters == <<edits, selections, foreign>>
vars == <<disk, selected, reads, fileContent, lastLoaded, mode, doc, timer, counters, typed, slips>>

Changes == 1..(MaxEdits + MaxForeign)
Text == [of : Files \cup {NoFile}, has : SUBSET Changes]
Empty == [of |-> NoFile, has |-> {}]

TypeOK ==
  /\ disk \in [Files -> Text]
  /\ selected \in Files \cup {NoFile} /\ reads \subseteq Files
  /\ {fileContent, lastLoaded, doc} \subseteq Text
  /\ mode \in {"read", "edit"}
  /\ timer \subseteq [file : Files, text : Text] /\ Cardinality(timer) <= 1
  /\ edits \in 0..MaxEdits /\ selections \in 0..MaxSelections /\ foreign \in 0..MaxForeign
  /\ typed \subseteq Files \X Changes

Init ==
  /\ disk = [f \in Files |-> [of |-> f, has |-> {}]]
  /\ selected = NoFile /\ reads = {}
  /\ fileContent = Empty /\ lastLoaded = Empty /\ doc = Empty
  /\ mode = "read" /\ timer = {}
  /\ edits = 0 /\ selections = 0 /\ foreign = 0 /\ typed = {} /\ slips = {}

-----------------------------------------------------------------------------
Loaded == reads = {} /\ fileContent.of = selected
Slip(what, when) == IF when THEN {what} ELSE {}
Leaving == slips' = slips \cup Slip("left", timer # {}) \cup Slip("rushed", reads # {})

\* A file is selected: the editor is made anew and the file is read, while the
\* content of the last one is still there.  The armed save stays armed.
Select(f) ==
  /\ f # selected /\ selections < MaxSelections /\ Leaving
  /\ selections' = selections + 1
  /\ selected' = f /\ mode' = "read" /\ reads' = reads \cup {f}
  /\ UNCHANGED <<disk, fileContent, lastLoaded, doc, timer, edits, foreign, typed>>

\* Nothing is selected any more: the panel goes on to live, without a text.
Deselect ==
  /\ selected # NoFile /\ Leaving
  /\ selected' = NoFile /\ mode' = "read"
  /\ fileContent' = Empty /\ lastLoaded' = Empty
  /\ UNCHANGED <<disk, reads, doc, timer, counters, typed>>

\* A read ends, for whatever file it was begun.  An open editor is made anew.
ReadDone(f) ==
  /\ f \in reads /\ reads' = reads \ {f}
  /\ lastLoaded' = disk[f] /\ fileContent' = disk[f]
  /\ doc' = IF mode = "edit" /\ fileContent # disk[f] THEN disk[f] ELSE doc
  /\ UNCHANGED <<disk, selected, mode, timer, counters, typed, slips>>

\* The editor opens with the content last loaded, and not with what it saved.
OpenEditor ==
  /\ selected # NoFile /\ mode = "read"
  /\ slips' = slips \cup Slip("rushed", ~Loaded) \cup Slip("left", fileContent # disk[selected])
  /\ mode' = "edit" /\ doc' = fileContent
  /\ UNCHANGED <<disk, selected, reads, fileContent, lastLoaded, timer, counters, typed>>

CloseEditor ==
  /\ mode = "edit" /\ Leaving
  /\ mode' = "read"
  /\ UNCHANGED <<disk, selected, reads, fileContent, lastLoaded, doc, timer, counters, typed>>

\* Plausible bugs that the properties must catch stand next to the definition
\* they are variants of; no specification uses them.
ArmOnce(text) == IF timer # {} THEN timer ELSE {[file |-> selected, text |-> text]}

\* handleSave: a change puts the save off by a second; it names its file.
Arm(text) == IF text = lastLoaded THEN timer ELSE {[file |-> selected, text |-> text]}

Type ==
  /\ mode = "edit" /\ slips' = slips \cup Slip("rushed", ~Loaded) /\ edits < MaxEdits
  /\ edits' = edits + 1
  /\ doc' = [doc EXCEPT !.has = @ \cup {edits + 1}]
  /\ timer' = Arm(doc')
  /\ typed' = typed \cup {<<selected, edits + 1>>}
  /\ UNCHANGED <<disk, selected, reads, fileContent, lastLoaded, mode, selections, foreign>>

FireHere ==
  /\ selected # NoFile
  /\ \E t \in timer : disk' = [disk EXCEPT ![selected] = t.text] /\ lastLoaded' = t.text
  /\ timer' = {}
  /\ UNCHANGED <<selected, reads, fileContent, mode, doc, counters, typed, slips>>

\* The save; what was written counts as loaded, whatever is selected now.
Fire ==
  /\ \E t \in timer : disk' = [disk EXCEPT ![t.file] = t.text] /\ lastLoaded' = t.text
  /\ timer' = {}
  /\ UNCHANGED <<selected, reads, fileContent, mode, doc, counters, typed, slips>>

\* The panel goes: the armed save with it.
Unmount ==
  /\ timer # {} /\ Leaving /\ timer' = {}
  /\ UNCHANGED <<disk, selected, reads, fileContent, lastLoaded, mode, doc, counters, typed>>

\* An ingest, a sweep or a patch writes the file; the panel does not notice.
ForeignWrite(f) ==
  /\ foreign < MaxForeign
  /\ slips' = slips \cup Slip("disturbed", f = selected \/ timer # {})
  /\ foreign' = foreign + 1
  /\ disk' = [disk EXCEPT ![f].has = @ \cup {MaxEdits + foreign + 1}]
  /\ typed' = typed \cup {<<f, MaxEdits + foreign + 1>>}
  /\ UNCHANGED <<selected, reads, fileContent, lastLoaded, mode, doc, timer, edits, selections>>

Next ==
  \/ Deselect \/ OpenEditor \/ CloseEditor \/ Type \/ Fire \/ Unmount
  \/ \E f \in Files : Select(f) \/ ReadDone(f) \/ ForeignWrite(f)
Spec == Init /\ [][Next]_vars

-----------------------------------------------------------------------------
\* A file is never overwritten with the text of another one, although the save
\* may fire when another file is selected.  Once "rushed", a read that
\* ends late, or a change made before its end, puts one file over the other.
NoForeignText == "rushed" \notin slips => \A f \in Files : disk[f].of = f

\* What was typed reaches the disk and stays there (without slips; each
\* of them breaks it: a change made within a second after one in another file
\* cancels its save, the reopened editor starts from the old text, and a text
\* loaded before another writer came replaces what it wrote).
ChangesSurvive ==
  slips = {} => \A c \in typed : c[2] \in disk[c[1]].has \/ \E t \in timer : t.file = c[1] /\ c[2] \in t.text.has
=============================================================================

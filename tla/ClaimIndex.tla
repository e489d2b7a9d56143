----------------------------- MODULE ClaimIndex -----------------------------
(***************************************************************************)
(* The claims of a wiki: `.llm-wiki/claims.jsonl`, one record a line       *)
(* (claims.ts), the anchors that mark a claim in its page                  *)
(* (claim-anchors.ts), and the two maintenance passes that rewrite the     *)
(* file as a whole: the repair of provenance (claim-provenance-repair.ts)  *)
(* and the rebuild from the pages (claim-ops.ts).                          *)
(*                                                                         *)
(* Records are only ever appended, also for a claim that has one, and a    *)
(* crash may leave half a line.  A rewrite reads the file, works, and      *)
(* writes all of it.  A record is [id, refs, own]: its source references   *)
(* and whether its text is the claim's or a stand-in.                      *)
(***************************************************************************)
EXTENDS Integers, SequencesExt

CONSTANTS
  Claims, Files,  \* claim ids; source files
  None,
  MaxLines,       \* bound: lines of the index
  MaxRewrites,    \* bound: repairs and rebuilds
  MaxEdits        \* bound: edits of pages and of sources

VARIABLES
  index,    \* the lines of claims.jsonl: records, Junk, or Half when the last has no end
  anchors,  \* the claims anchored in pages
  writing,  \* claims whose page is written and whose record is not
  sources,  \* the source files that can be read and hold the snippets
  repair,   \* what the repair has read, or None
  scan,     \* what the rebuild's scan has found: anchors and ids, or None
  merge,    \* what the rebuild has read the second time, or None
  rewrites, edits,
  clean     \* history: nothing was appended since the rewrite at work began

vars == <<index, anchors, writing, sources, repair, scan, merge, rewrites, edits, clean>>

\* A line that parses to no record; one that a crash left without its end.
Junk == [id |-> None, refs |-> {}, own |-> FALSE]
Half == [Junk EXCEPT !.own = TRUE]
Records(lines) == SelectSeq(lines, LAMBDA l : l.id # None)
Ids(records) == {records[i].id : i \in DOMAIN records}

Init ==
  /\ index = <<>> /\ anchors = {} /\ writing = {} /\ sources = Files
  /\ repair = None /\ scan = None /\ merge = None /\ rewrites = 0 /\ edits = 0 /\ clean = TRUE

\* readClaimIndex: a line that is no record is left out.
readClaimIndex == Records(index)

\* A line written after half a line is part of it.
Line(lines, l) ==
  IF lines # <<>> /\ Last(lines) = Half THEN [lines EXCEPT ![Len(lines)] = Junk] ELSE Append(lines, l)

-----------------------------------------------------------------------------
\* writeCrystallizedQueryPage: the page with its anchors comes first ...
WritePage(c) ==
  /\ c \notin writing
  /\ anchors' = anchors \cup {c}
  /\ writing' = writing \cup {c}
  /\ UNCHANGED <<index, sources, repair, scan, merge, rewrites, edits, clean>>

\* ... then appendClaimRecords adds the record, cited to some files.
AppendRecord(c, cited) ==
  /\ c \in writing /\ Len(index) < MaxLines
  /\ writing' = writing \ {c}
  /\ index' = Line(index, [id |-> c, refs |-> [path : cited, hash : {FALSE}], own |-> TRUE])
  /\ clean' = FALSE
  /\ UNCHANGED <<anchors, sources, repair, scan, merge, rewrites, edits>>

\* The append fails, or the program stops before it, or half way.
AppendFails(c) ==
  /\ c \in writing
  /\ writing' = writing \ {c}
  /\ UNCHANGED <<index, anchors, sources, repair, scan, merge, rewrites, edits, clean>>

Crash ==
  /\ edits < MaxEdits
  /\ edits' = edits + 1
  /\ writing' = {} /\ repair' = None /\ scan' = None /\ merge' = None
  /\ index' \in {index} \cup (IF writing # {} /\ Len(index) < MaxLines THEN {Line(index, Half)} ELSE {})
  /\ clean' = FALSE
  /\ UNCHANGED <<anchors, sources, rewrites>>

\* A page loses an anchor; a source is deleted or no longer holds the snippet.
Edit ==
  /\ edits < MaxEdits
  /\ edits' = edits + 1
  /\ \/ \E c \in anchors : anchors' = anchors \ {c} /\ UNCHANGED sources
     \/ \E f \in sources : sources' = sources \ {f} /\ UNCHANGED anchors
  /\ UNCHANGED <<index, writing, repair, scan, merge, rewrites, clean>>

-----------------------------------------------------------------------------
(***************************************************************************)
(* The repair: applyClaimProvenanceRepair.                                 *)
(***************************************************************************)
\* mergeClaimSourceRefs: a bare path gives way to the same path with a hash.
MergeRefs(refs) == {r \in refs : r.hash \/ ~\E q \in refs : q.path = r.path /\ q.hash}

RefsOfReadable(refs) == MergeRefs({[r EXCEPT !.hash = TRUE] : r \in {q \in refs : q.path \in sources}})

\* planClaimRepair's loop: an unreadable source keeps its reference.
EnrichedRefs(refs) == MergeRefs({[r EXCEPT !.hash = @ \/ r.path \in sources] : r \in refs})

\* planClaimRepair: a claim with any hash is complete, one without any
\* reference beyond repair.
Repaired(record) ==
  IF record.refs = {} \/ \E r \in record.refs : r.hash THEN record
  ELSE [record EXCEPT !.refs = EnrichedRefs(@)]

LastOf(id, records) == records[CHOOSE i \in DOMAIN records :
                                 records[i].id = id /\ \A j \in DOMAIN records : records[j].id = id => j <= i]

BeginRepair ==
  /\ repair = None /\ scan = None /\ merge = None /\ rewrites < MaxRewrites
  /\ rewrites' = rewrites + 1
  /\ repair' = readClaimIndex
  /\ clean' = TRUE
  /\ UNCHANGED <<index, anchors, writing, sources, scan, merge, edits>>

\* The repaired records are kept by id: of several, the last stands for all.
WriteRepair ==
  /\ repair # None
  /\ index' = [i \in DOMAIN repair |-> Repaired(LastOf(repair[i].id, repair))]
  /\ repair' = None
  /\ UNCHANGED <<anchors, writing, sources, scan, merge, rewrites, edits, clean>>

-----------------------------------------------------------------------------
(***************************************************************************)
(* The rebuild: applyClaimIndexRebuild.                                    *)
(***************************************************************************)
\* scanClaimIndexRebuild
BeginRebuild ==
  /\ repair = None /\ scan = None /\ merge = None /\ rewrites < MaxRewrites
  /\ rewrites' = rewrites + 1
  /\ scan' = [anchors |-> anchors, ids |-> Ids(readClaimIndex)]
  /\ clean' = TRUE
  /\ UNCHANGED <<index, anchors, writing, sources, repair, merge, edits>>

\* Anchors without a record get one with a stand-in text and no reference.
Recovered(s) == {[id |-> c, refs |-> {}, own |-> FALSE] : c \in s.anchors \ s.ids}

\* The second read of the index.
ReadAgain ==
  /\ scan # None /\ merge = None
  /\ merge' = readClaimIndex
  /\ UNCHANGED <<index, anchors, writing, sources, repair, scan, rewrites, edits, clean>>

\* mergeClaimRecords: the incoming record wins, the references are joined.
Over(record, incoming) ==
  LET mine == {r \in incoming : r.id = record.id}
  IN IF mine = {} THEN record
     ELSE [(CHOOSE r \in mine : TRUE) EXCEPT !.refs = @ \cup record.refs]

MergeIntoExisting(existing, incoming) ==
  [i \in DOMAIN existing |-> Over(LastOf(existing[i].id, existing), incoming)]

mergeClaimRecords(existing, incoming) ==
  [i \in DOMAIN existing |-> Over(LastOf(existing[i].id, existing), incoming)]
  \o SetToSeq({r \in incoming : r.id \notin Ids(existing)})

WriteRebuild ==
  /\ merge # None
  /\ index' = mergeClaimRecords(merge, Recovered(scan))
  /\ scan' = None /\ merge' = None
  /\ UNCHANGED <<anchors, writing, sources, repair, rewrites, edits, clean>>

Next ==
  \/ \E c \in Claims : WritePage(c) \/ AppendFails(c) \/ \E cited \in SUBSET Files : AppendRecord(c, cited)
  \/ Crash \/ Edit
  \/ BeginRepair \/ WriteRepair \/ BeginRebuild \/ ReadAgain \/ WriteRebuild

Spec == Init /\ [][Next]_vars

-----------------------------------------------------------------------------
Paths(record) == {r.path : r \in record.refs}

(***************************************************************************)
(* A rewrite with nothing appended since it read loses no claim, none of   *)
(* the files and hashes the claim's last record cites, and no text.        *)
(***************************************************************************)
RewriteKeeps ==
  \A id \in Ids(readClaimIndex) :
    /\ id \in Ids(Records(index'))
    /\ LET old == LastOf(id, readClaimIndex)
           new == LastOf(id, Records(index'))
       IN /\ Paths(old) \subseteq Paths(new)
          /\ {r \in old.refs : r.hash} \subseteq new.refs
          /\ old.own => new.own

CleanRewritesKeep == (WriteRepair \/ WriteRebuild) /\ clean => RewriteKeeps
ClaimsKeepTheirSources == [][CleanRewritesKeep]_vars

(***************************************************************************)
(* After a rebuild every anchor it found in a page has a claim, whatever   *)
(* was appended, half written or lost before.                              *)
(***************************************************************************)
RebuildsFind == WriteRebuild => scan.anchors \subseteq Ids(Records(index'))
AnchorsFindTheirClaims == [][RebuildsFind]_vars
=============================================================================

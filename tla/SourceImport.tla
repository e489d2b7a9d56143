----------------------------- MODULE SourceImport -----------------------------
(***************************************************************************)
(* Bringing files in under raw/sources and taking them out again             *)
(* (sources-view.tsx): an import finds a name that is free and copies, a     *)
(* folder is copied whole, text is extracted beside it all and kept          *)
(* (commands/fs.rs), and a second click deletes.  What a deletion does to    *)
(* the wiki is WikiWriters', what becomes of the queue IngestQueue's.        *)
(***************************************************************************)
EXTENDS Integers, Sequences, FiniteSetsExt

CONSTANTS
  Kind,         \* of each file name: "text" (extracted), "image" (image or media), "opaque" (no text)
  Selections,   \* what a user may pick: sequences of [name, content]
  Folders,      \* folders a user may pick: [dir, files]
  Ingested,     \* names that a folder's import queues
  MaxCounter,   \* bound: suffixes that are tried (99 in the code)
  MaxImports,   \* bound: imports and imports of folders
  MaxDeletes,   \* bound: deletions
  MaxMishaps    \* bound: copies that fail

VARIABLES
  raw,          \* files under raw/sources: path -> content
  cache,        \* extracted texts: path -> [content, valid], valid: not older than the file
  jobs,         \* extractions under way
  imports,      \* imports under way
  importing,    \* whether the buttons of the header are off
  listed,       \* the files shown
  armed,        \* the row whose next click deletes, or Nothing
  deletes,      \* deletions under way
  queued,       \* paths given to the ingest queue
  told,         \* history: paths brought in, and what came in between
  counts

vars == <<raw, cache, jobs, imports, importing, listed, armed, deletes, queued, told, counts>>

Nothing == [nothing |-> TRUE]

\* A file: its folder ("" for none), its name, and the suffix it was given: 0
\* none, 1 the date, 2 and more a counter.
Path(dir, name, suffix) == [dir |-> dir, name |-> name, suffix |-> suffix]

Init ==
  /\ raw = <<>> /\ cache = <<>> /\ jobs = {} /\ imports = {} /\ importing = FALSE
  /\ listed = {} /\ armed = Nothing /\ deletes = {} /\ queued = {}
  /\ told = [brought |-> {}, overlap |-> FALSE, late |-> FALSE, leftover |-> FALSE, partial |-> FALSE]
  /\ counts = [imports |-> 0, deletes |-> 0, mishaps |-> 0]

-----------------------------------------------------------------------------
\* readFile answers for an image whether there is one or not, and fails for a
\* file that is there and is no text.
Reads(path) ==
  \/ Kind[path.name] = "image"
  \/ Kind[path.name] = "text" /\ path \in DOMAIN raw

\* getUniqueDestPath: the first of the names that cannot be read; the time is
\* the last resort.  A mutant does not look.
TakeTheName(name) == Path("", name, 0)
getUniqueDestPath(name) ==
  LET free == {n \in 0..MaxCounter : ~Reads(Path("", name, n))} IN
  IF free # {} THEN Path("", name, Min(free))
  ELSE Path("", name, Max({MaxCounter} \cup {p.suffix : p \in {p \in DOMAIN raw : p.name = name}}) + 1)

\* A file is written, by a copy that may keep the time of the original: then
\* the text extracted before seems to belong to it still.
Put(files, new) == [p \in DOMAIN files \cup DOMAIN new |-> IF p \in DOMAIN new THEN new[p] ELSE files[p]]
Without(files, gone) == [p \in DOMAIN files \ gone |-> files[p]]
Extracted(paths) == {p \in paths : Kind[p.name] = "text"}
Copied(new, keepsTime) ==
  /\ raw' = Put(raw, new)
  /\ cache' = [p \in DOMAIN cache |-> IF p \in DOMAIN new THEN [cache[p] EXCEPT !.valid = keepsTime] ELSE cache[p]]
  /\ jobs' = jobs \cup {[path |-> p, content |-> new[p]] : p \in Extracted(DOMAIN new)}
Late(paths) == \E job \in jobs : job.path \in paths
Stale(paths) == \E p \in paths : p \in DOMAIN cache

Mishap(happens) ==
  /\ happens => counts.mishaps < MaxMishaps
  /\ counts' = [counts EXCEPT !.mishaps = @ + IF happens THEN 1 ELSE 0]

-----------------------------------------------------------------------------
\* handleImport.  The buttons of the empty list stay on while one is under way.
CanImport == (~importing \/ listed = {}) /\ counts.imports < MaxImports

Pick(selection) ==
  /\ CanImport /\ counts' = [counts EXCEPT !.imports = @ + 1]
  /\ importing' = TRUE
  /\ imports' = imports \cup {[id |-> counts.imports, left |-> selection, dest |-> Nothing, done |-> {}, ends |-> FALSE]}
  /\ told' = [told EXCEPT !.overlap = @ \/ imports # {}]
  /\ UNCHANGED <<raw, cache, jobs, listed, armed, deletes, queued>>

Becomes(i, new) == imports' = (imports \ {i}) \cup {new}

FindDest(i) ==
  /\ i \in imports /\ i.left # <<>> /\ i.dest = Nothing
  /\ Becomes(i, [i EXCEPT !.dest = getUniqueDestPath(Head(i.left).name)])
  /\ UNCHANGED <<raw, cache, jobs, importing, listed, armed, deletes, queued, told, counts>>

Copy(i, fails, keepsTime) ==
  /\ i \in imports /\ i.dest # Nothing /\ Mishap(fails)
  /\ LET over == [i EXCEPT !.left = Tail(@), !.dest = Nothing] IN
     IF fails THEN Becomes(i, over) /\ UNCHANGED <<raw, cache, jobs, told>>
     ELSE /\ Becomes(i, [over EXCEPT !.done = @ \cup {i.dest}])
          /\ Copied([p \in {i.dest} |-> Head(i.left).content], keepsTime)
          /\ told' = [told EXCEPT !.brought = @ \cup {i.dest}, !.late = @ \/ Late({i.dest}), !.leftover = @ \/ Stale({i.dest})]
  /\ UNCHANGED <<importing, listed, armed, deletes, queued>>

EndImport(i) ==
  /\ i \in imports /\ i.left = <<>> /\ ~i.ends
  /\ importing' = FALSE /\ Becomes(i, [i EXCEPT !.ends = TRUE])
  /\ UNCHANGED <<raw, cache, jobs, listed, armed, deletes, queued, told, counts>>

\* The list is read again, and then what was copied is queued.
Enqueue(i) ==
  /\ i \in imports /\ i.ends /\ imports' = imports \ {i}
  /\ listed' = DOMAIN raw /\ queued' = queued \cup i.done
  /\ UNCHANGED <<raw, cache, jobs, importing, armed, deletes, told, counts>>

\* handleImportFolder: copy_directory writes over what bears the same name; if
\* it fails half-way, what it copied stays and is not queued.
PickFolder(folder, fails, keepsTime) ==
  /\ CanImport
  /\ fails => counts.mishaps < MaxMishaps
  /\ counts' = [counts EXCEPT !.imports = @ + 1, !.mishaps = @ + IF fails THEN 1 ELSE 0]
  /\ \E some \in SUBSET folder.files :
       /\ fails \/ some = folder.files
       /\ LET new == {Path(folder.dir, f.name, 0) : f \in some}
              content == [p \in new |-> (CHOOSE f \in some : f.name = p.name).content] IN
          /\ Copied(content, keepsTime)
          /\ queued' = queued \cup IF fails THEN {} ELSE {p \in new : p.name \in Ingested}
          /\ listed' = IF fails THEN listed ELSE DOMAIN raw'
          /\ told' = [told EXCEPT !.brought = @ \cup {p \in new : p.name \in Ingested}, !.partial = @ \/ fails,
                                  !.overlap = @ \/ imports # {}, !.late = @ \/ Late(new), !.leftover = @ \/ Stale(new)]
  /\ importing' = FALSE
  /\ UNCHANGED <<imports, armed, deletes>>

\* preprocess_file, which nobody waits for.
Preprocessed(job) ==
  /\ job \in jobs /\ jobs' = jobs \ {job}
  /\ cache' = Put(cache, [p \in {job.path} |-> [content |-> job.content, valid |-> TRUE]])
  /\ UNCHANGED <<raw, imports, importing, listed, armed, deletes, queued, told, counts>>

Refresh ==
  /\ listed # DOMAIN raw /\ listed' = DOMAIN raw
  /\ UNCHANGED <<raw, cache, jobs, imports, importing, armed, deletes, queued, told, counts>>

-----------------------------------------------------------------------------
\* decideDeleteClick: a first click on a row, a file's or a folder's, arms it
\* for five seconds; a second one deletes what the list shows.
Row(path, folder) == [path |-> path, folder |-> folder]
Rows == {Row(p, FALSE) : p \in listed} \cup {Row(Path(p.dir, "", 0), TRUE) : p \in {p \in listed : p.dir # ""}}

Arm(row) ==
  /\ row \in Rows /\ armed # row.path /\ counts.deletes < MaxDeletes
  /\ armed' = row.path
  /\ UNCHANGED <<raw, cache, jobs, imports, importing, listed, deletes, queued, told, counts>>
Disarm ==
  /\ armed # Nothing /\ armed' = Nothing
  /\ UNCHANGED <<raw, cache, jobs, imports, importing, listed, deletes, queued, told, counts>>

Fire(row) ==
  /\ row \in Rows /\ armed = row.path /\ armed' = Nothing
  /\ counts.deletes < MaxDeletes /\ counts' = [counts EXCEPT !.deletes = @ + 1]
  /\ LET files == IF row.folder THEN {p \in listed : p.dir = row.path.dir} ELSE {row.path} IN
     deletes' = deletes \cup {[row |-> row, left |-> files, cached |-> Nothing, shown |-> files]}
  /\ UNCHANGED <<raw, cache, jobs, imports, importing, listed, queued, told>>

DeleteBecomes(d, new) == deletes' = (deletes \ {d}) \cup {new}

\* deleteSourceWithCascade: the file, then the text of the file of that name in
\* the outermost folder.  A file that is gone ends the deletion, but a folder's.
Unlink(d, p) ==
  /\ d \in deletes /\ d.cached = Nothing /\ p \in d.left
  /\ LET over == [d EXCEPT !.left = @ \ {p}] IN
     IF p \in DOMAIN raw THEN DeleteBecomes(d, [over EXCEPT !.cached = Path("", p.name, p.suffix)])
     ELSE IF d.row.folder THEN DeleteBecomes(d, over) ELSE deletes' = deletes \ {d}
  /\ raw' = Without(raw, {p})
  /\ told' = [told EXCEPT !.late = @ \/ Late({p})]
  /\ UNCHANGED <<cache, jobs, imports, importing, listed, armed, queued, counts>>
DropCache(d) ==
  /\ d \in deletes /\ d.cached # Nothing
  /\ DeleteBecomes(d, [d EXCEPT !.cached = Nothing])
  /\ cache' = Without(cache, {d.cached})
  /\ UNCHANGED <<raw, jobs, imports, importing, listed, armed, queued, told, counts>>

\* handleDeleteFolder takes the folder away with all that is in it by then.
EndDelete(d) ==
  /\ d \in deletes /\ d.left = {} /\ d.cached = Nothing /\ deletes' = deletes \ {d}
  /\ LET inside == {p \in DOMAIN raw \cup DOMAIN cache : d.row.folder /\ p.dir = d.row.path.dir} IN
     /\ raw' = Without(raw, inside) /\ cache' = Without(cache, inside)
     /\ told' = [told EXCEPT !.late = @ \/ Late(inside)]
  /\ listed' = DOMAIN raw'
  /\ UNCHANGED <<jobs, imports, importing, armed, queued, counts>>

Next ==
  \/ \E selection \in Selections : Pick(selection)
  \/ \E i \in imports : FindDest(i) \/ EndImport(i) \/ Enqueue(i) \/ (\E fails, keeps \in BOOLEAN : Copy(i, fails, keeps))
  \/ \E folder \in Folders, fails, keeps \in BOOLEAN : PickFolder(folder, fails, keeps)
  \/ \E job \in jobs : Preprocessed(job)
  \/ Refresh \/ Disarm
  \/ \E row \in Rows : Arm(row) \/ Fire(row)
  \/ \E d \in deletes : DropCache(d) \/ EndDelete(d) \/ (\E p \in d.left : Unlink(d, p))

Spec == Init /\ [][Next]_vars

-----------------------------------------------------------------------------
(***************************************************************************)
(* An import writes over no file (sources-view.tsx:500), if imports do not   *)
(* run side by side and the file can be read as text or is an image; and     *)
(* what goes from disk was shown when its deletion was confirmed, or came    *)
(* into the folder afterwards (sources-tree-delete.ts:18).                   *)
(***************************************************************************)
Confirmed(p) == \E d \in deletes : p \in d.shown \/ (d.row.folder /\ p.dir = d.row.path.dir)
FilesAreKept ==
  \A p \in DOMAIN raw :
    /\ p \notin DOMAIN raw' => Confirmed(p)
    /\ p \in DOMAIN raw' /\ raw'[p] # raw[p] /\ p.dir = "" /\ Kind[p.name] # "opaque" => told'.overlap

(***************************************************************************)
(* The text read of a source is that of the file, unless the file was        *)
(* replaced or taken away while it was being extracted, or written where     *)
(* an extracted text was (fs.rs:119); and when no import is under way        *)
(* everything brought in was queued, unless a folder's copy failed.          *)
(***************************************************************************)
TextOf(p) == IF p \in DOMAIN cache /\ cache[p].valid THEN cache[p].content ELSE raw[p]
TextsAreCurrent ==
  /\ ~told.late /\ ~told.leftover => \A p \in Extracted(DOMAIN raw) : TextOf(p) = raw[p]
  /\ imports = {} /\ ~told.partial => told.brought \subseteq queued

\* Refuted: an import keeps every file, the text of a file is always its own,
\* the first file of a name keeps it ("file.pdf (first time)",
\* sources-view.tsx:501), and only what was seen is deleted ("delete exactly
\* what the user saw", sources-tree-delete.ts:18).
NothingIsOverwritten == \A p \in DOMAIN raw \cap DOMAIN raw' : p.dir = "" => raw'[p] = raw[p]
AllTextsAreCurrent == \A p \in Extracted(DOMAIN raw) : TextOf(p) = raw[p]
FirstKeepsItsName ==
  \A p \in DOMAIN raw' \ DOMAIN raw : p.suffix # 0 => \E q \in DOMAIN raw \cup told.brought : q.name = p.name
OnlyTheSeenGoes == \A p \in DOMAIN raw \ DOMAIN raw' : \E d \in deletes : p \in d.shown
=============================================================================

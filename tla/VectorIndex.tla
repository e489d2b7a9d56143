---------------------------- MODULE VectorIndex ----------------------------
(***************************************************************************)
(* embedding.ts over vectorstore.rs: a page is cut into chunks, every chunk *)
(* is embedded by a request of its own, and the rows of the page are        *)
(* replaced by a delete and an add.  Two writers do this side by side: the  *)
(* ingest of a page and "re-index all" of the settings; deleting a page     *)
(* removes its rows.  A page is known to the index by its file's stem only. *)
(***************************************************************************)
EXTENDS Naturals, Sequences, FiniteSets, Functions

CONSTANTS
  Pages,       \* paths of pages
  Stem,        \* [Pages -> ids]: getFileStem
  ChunkCount,  \* version of a page -> its number of chunks
  TextSize,    \* number of a chunk -> length of its text, in units of the floor of 64
  MaxRetries,  \* fetchEmbedding's maxRetries
  MaxWrites, MaxMishaps, MaxReindexes \* bounds

VARIABLES
  files,     \* version of each page, 0: no such file
  model,     \* the configured model, by the dimension of its vectors
  dimension, \* of the table, 0: no table yet
  rows,      \* id -> its rows, [page, version, chunk]
  jobs,      \* the two writers
  removing,  \* ids whose page is deleted and whose rows are not yet
  writes, mishaps, reindexes, \* counters for the bounds
  disturbed, \* ids at which a call failed or two writers met (history)
  complete   \* the version of each page whose rows were all written (history)

vars == <<files, model, dimension, rows, jobs, removing, writes,
          mishaps, reindexes, disturbed, complete>>

Ids == {Stem[p] : p \in Pages}
Writers == {"ingest", "reindex"}
Versions == DOMAIN ChunkCount
Idle == [at |-> "idle", todo |-> {}, page |-> CHOOSE p \in Pages : TRUE, version |-> 0, chunk |-> 0,
         size |-> 0, attempts |-> 0, got |-> <<>>, dim |-> 0]

TypeOK ==
  /\ files \in [Pages -> {0} \cup Versions]
  /\ model \in 1..2 /\ dimension \in 0..2
  /\ DOMAIN rows = Ids
  /\ \A w \in Writers : jobs[w].at \in {"idle", "next", "fetch", "delete", "add"}
  /\ removing \subseteq Ids /\ disturbed \subseteq Ids

Init ==
  /\ files \in [Pages -> {0, 1}]
  /\ model = 1 /\ dimension = 0
  /\ rows = [i \in Ids |-> <<>>]
  /\ jobs = [w \in Writers |-> Idle]
  /\ removing = {} /\ writes = 0 /\ mishaps = 0 /\ reindexes = 0
  /\ disturbed = {} /\ complete = [p \in Pages |-> 0]

Busy(i) == {w \in Writers : jobs[w].at \in {"fetch", "delete", "add"} /\ Stem[jobs[w].page] = i}
Mishap(i) ==
  /\ mishaps < MaxMishaps /\ mishaps' = mishaps + 1
  /\ disturbed' = disturbed \cup {i}

-----------------------------------------------------------------------------
\* An ingest has written page p, and embeds it (step 6 of autoIngest).
Ingest(p) ==
  /\ jobs["ingest"].at = "idle" /\ writes < MaxWrites
  /\ files[p] + 1 \in Versions
  /\ writes' = writes + 1
  /\ files' = [files EXCEPT ![p] = @ + 1]
  /\ jobs' = [jobs EXCEPT !["ingest"] = [Idle EXCEPT !.at = "next", !.todo = {p}, !.dim = model]]
  /\ UNCHANGED <<model, dimension, rows, removing, mishaps, reindexes, disturbed, complete>>

\* embedAllPages lists the pages there are.
Reindex ==
  /\ jobs["reindex"].at = "idle" /\ reindexes < MaxReindexes
  /\ reindexes' = reindexes + 1
  /\ jobs' = [jobs EXCEPT !["reindex"] =
                [Idle EXCEPT !.at = "next", !.todo = {p \in Pages : files[p] # 0}, !.dim = model]]
  /\ UNCHANGED <<files, model, dimension, rows, removing, writes, mishaps, disturbed, complete>>

\* The next page is read and chunked; a page that is gone, or has no text, is
\* passed over (a mutant: and asked for again).
TodoKept(todo, p) == IF files[p] = 0 THEN todo ELSE todo \ {p}
TodoAfter(todo, p) == todo \ {p}
Take(w, p) ==
  /\ jobs[w].at = "next" /\ p \in jobs[w].todo
  /\ LET job == [jobs[w] EXCEPT !.todo = TodoAfter(@, p)]
         skip == files[p] = 0 \/ ChunkCount[files[p]] = 0
     IN
     /\ jobs' = [jobs EXCEPT ![w] =
          IF skip THEN job
          ELSE [job EXCEPT !.at = "fetch", !.page = p, !.version = files[p], !.chunk = 1,
                           !.size = TextSize[1], !.attempts = 0, !.got = <<>>]]
     /\ disturbed' = IF ~skip /\ (Busy(Stem[p]) # {} \/ Stem[p] \in removing)
                     THEN disturbed \cup {Stem[p]} ELSE disturbed
  /\ UNCHANGED <<files, model, dimension, rows, removing, writes, mishaps, reindexes, complete>>

JobDone(w) ==
  /\ jobs[w].at = "next" /\ jobs[w].todo = {}
  /\ jobs' = [jobs EXCEPT ![w] = Idle]
  /\ UNCHANGED <<files, model, dimension, rows, removing, writes, mishaps, reindexes, disturbed, complete>>

\* The chunk is done with: the next one, or the rows; nothing embedded writes
\* nothing.
Onward(w, got) ==
  LET job == jobs[w] IN
  \/ /\ job.chunk < ChunkCount[job.version]
     /\ jobs' = [jobs EXCEPT ![w] =
          [job EXCEPT !.chunk = @ + 1, !.size = TextSize[job.chunk + 1], !.attempts = 0, !.got = got]]
  \/ /\ job.chunk = ChunkCount[job.version]
     /\ jobs' = [jobs EXCEPT ![w] = [job EXCEPT !.at = IF got = <<>> THEN "next" ELSE "delete", !.got = got]]

\* fetchEmbedding: an answer with a vector,
Embedded(w) ==
  /\ jobs[w].at = "fetch"
  /\ Onward(w, Append(jobs[w].got, jobs[w].chunk))
  /\ UNCHANGED <<files, model, dimension, rows, removing, writes, mishaps, reindexes, disturbed, complete>>

\* or a rejection of the input as too long: half of it is tried, as long as it
\* is over the floor and a retry is left,
Halves(job) == job.size > 1 /\ job.attempts + 1 <= MaxRetries
TooLong(w) ==
  /\ jobs[w].at = "fetch" /\ Halves(jobs[w])
  /\ jobs' = [jobs EXCEPT ![w].size = @ \div 2, ![w].attempts = @ + 1]
  /\ UNCHANGED <<files, model, dimension, rows, removing, writes, mishaps, reindexes, disturbed, complete>>

\* or a failure for good: this chunk has no row.
ChunkFails(w) ==
  /\ jobs[w].at = "fetch"
  /\ Mishap(Stem[jobs[w].page])
  /\ Onward(w, jobs[w].got)
  /\ UNCHANGED <<files, model, dimension, rows, removing, writes, reindexes, complete>>

-----------------------------------------------------------------------------
RowsOf(job) == [n \in DOMAIN job.got |-> [page |-> job.page, version |-> job.version, chunk |-> job.got[n]]]
Whole(p, v) == [n \in 1..ChunkCount[v] |-> [page |-> p, version |-> v, chunk |-> n]]

\* vector_upsert_chunks.  Without a table one is made, of these rows.
CreateTable(w) ==
  /\ jobs[w].at = "delete" /\ dimension = 0
  /\ dimension' = jobs[w].dim
  /\ rows' = [rows EXCEPT ![Stem[jobs[w].page]] = RowsOf(jobs[w])]
  /\ jobs' = [jobs EXCEPT ![w].at = "next"]
  /\ complete' = [complete EXCEPT ![jobs[w].page] = IF RowsOf(jobs[w]) = Whole(jobs[w].page, jobs[w].version) THEN jobs[w].version ELSE @]
  /\ UNCHANGED <<files, model, removing, writes, mishaps, reindexes, disturbed>>

\* With one, the rows of the id go (a mutant of it: they stay) ...
KeepRows(i) == rows
DropRows(i) == [rows EXCEPT ![i] = <<>>]
DeleteRows(w) ==
  /\ jobs[w].at = "delete" /\ dimension # 0
  /\ rows' = DropRows(Stem[jobs[w].page])
  /\ jobs' = [jobs EXCEPT ![w].at = "add"]
  /\ UNCHANGED <<files, model, dimension, removing, writes, mishaps, reindexes, disturbed, complete>>

\* (a failure to delete is printed, and the rows are added all the same)
DeleteRowsFails(w) ==
  /\ jobs[w].at = "delete" /\ dimension # 0
  /\ Mishap(Stem[jobs[w].page])
  /\ jobs' = [jobs EXCEPT ![w].at = "add"]
  /\ UNCHANGED <<files, model, dimension, rows, removing, writes, reindexes, complete>>

\* ... and the new ones come,
AddRows(w) ==
  /\ jobs[w].at = "add" /\ jobs[w].dim = dimension
  /\ rows' = [rows EXCEPT ![Stem[jobs[w].page]] = @ \o RowsOf(jobs[w])]
  /\ complete' = [complete EXCEPT ![jobs[w].page] = IF RowsOf(jobs[w]) = Whole(jobs[w].page, jobs[w].version) THEN jobs[w].version ELSE @]
  /\ jobs' = [jobs EXCEPT ![w].at = "next"]
  /\ UNCHANGED <<files, model, dimension, removing, writes, mishaps, reindexes, disturbed>>

\* unless the vectors of another model have another dimension than the table.
AddRowsFails(w) ==
  /\ jobs[w].at = "add"
  /\ IF jobs[w].dim # dimension
     THEN mishaps' = mishaps /\ disturbed' = disturbed \cup {Stem[jobs[w].page]}
     ELSE Mishap(Stem[jobs[w].page])
  /\ jobs' = [jobs EXCEPT ![w].at = "next"]
  /\ UNCHANGED <<files, model, dimension, rows, removing, writes, reindexes, complete>>

-----------------------------------------------------------------------------
\* cascadeDeleteWikiPage: the file, and then the rows of its stem; a failure
\* of the second is swallowed.
DeletePage(p) ==
  /\ files[p] # 0 /\ writes < MaxWrites /\ Stem[p] \notin removing
  /\ writes' = writes + 1
  /\ files' = [files EXCEPT ![p] = 0]
  /\ complete' = [complete EXCEPT ![p] = 0]
  /\ removing' = removing \cup {Stem[p]}
  /\ disturbed' = IF Busy(Stem[p]) # {} THEN disturbed \cup {Stem[p]} ELSE disturbed
  /\ UNCHANGED <<model, dimension, rows, jobs, mishaps, reindexes>>

\* A mutant: nothing asks for the rows of a deleted page.
RowsForgotten(i) == rows
RowsWithout(i) == DropRows(i)
DeleteRowsOf(i) ==
  /\ i \in removing
  /\ rows' = RowsWithout(i)
  /\ removing' = removing \ {i}
  /\ complete' = [p \in Pages |-> IF Stem[p] = i THEN 0 ELSE complete[p]]
  /\ UNCHANGED <<files, model, dimension, jobs, writes, mishaps, reindexes, disturbed>>

DeleteRowsOfFails(i) ==
  /\ i \in removing
  /\ Mishap(i)
  /\ removing' = removing \ {i}
  /\ UNCHANGED <<files, model, dimension, rows, jobs, writes, reindexes, complete>>

\* The settings: another model.
ChangeModel ==
  /\ model = 1 /\ model' = 2
  /\ UNCHANGED <<files, dimension, rows, jobs, removing, writes, mishaps, reindexes, disturbed, complete>>

Write(w) == CreateTable(w) \/ DeleteRows(w) \/ DeleteRowsFails(w) \/ AddRows(w) \/ AddRowsFails(w)
Step ==
  \/ \E w \in Writers :
       \/ JobDone(w) \/ Embedded(w) \/ TooLong(w) \/ ChunkFails(w) \/ Write(w)
       \/ \E p \in Pages : Take(w, p)
  \/ \E i \in Ids : DeleteRowsOf(i) \/ DeleteRowsOfFails(i)
Next ==
  \/ \E p \in Pages : Ingest(p) \/ DeletePage(p)
  \/ Reindex \/ ChangeModel \/ Step

Spec == Init /\ [][Next]_vars /\ WF_vars(Step)

-----------------------------------------------------------------------------
(***************************************************************************)
(* Where no call failed and no two writers met, the rows of an id are those *)
(* of one page at one time, each chunk once, and there are none when no     *)
(* page has that name.                                                     *)
(***************************************************************************)
RowsAreOfOnePage ==
  \A i \in Ids \ disturbed : Busy(i) = {} /\ i \notin removing =>
    \/ rows[i] = <<>>
    \/ /\ \E p \in Pages, v \in Versions : Stem[p] = i /\ rows[i] = Whole(p, v)
       /\ \E p \in Pages : Stem[p] = i /\ files[p] # 0

(***************************************************************************)
(* Whatever the server answers, re-indexing comes to an end.               *)
(***************************************************************************)
ReindexEnds == \A w \in Writers : jobs[w].at # "idle" ~> jobs[w].at = "idle"

(***************************************************************************)
(* "Every transient failure leaves the existing v2 rows intact": a page all *)
(* of whose rows were written has them, as long as it is what it was.       *)
(***************************************************************************)
FailuresKeepRows ==
  \A p \in Pages :
    /\ files[p] # 0 /\ complete[p] = files[p]
    /\ Busy(Stem[p]) = {} /\ Stem[p] \notin removing
    /\ \A q \in Pages \ {p} : Stem[q] # Stem[p]
    => \A n \in 1..ChunkCount[files[p]] : Whole(p, files[p])[n] \in Range(rows[Stem[p]])
=============================================================================

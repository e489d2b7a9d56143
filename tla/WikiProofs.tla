----------------------------- MODULE WikiProofs -----------------------------
(***************************************************************************)
(* Proofs about what is derived from the wiki and what keeps it: the rows  *)
(* of the search, the two graphs, the images, the import of files, the     *)
(* settings, the check for updates, the digests and the review view, each  *)
(* for any values of its constants.  The parts share no state, so each is  *)
(* an instance with variables of its own; where two have a constant of one *)
(* name (a set of pages, a bound), it is one constant here.                *)
(*                                                                         *)
(* Each section has the invariant of its part, that it holds initially,    *)
(* that every step keeps it, and the theorem that follows.  RunProofs uses *)
(* them for the runs.                                                      *)
(***************************************************************************)
EXTENDS Integers, Sequences, FiniteSets, FiniteSetTheorems, SequenceTheorems, WellFoundedInduction,
        TLAPS

CONSTANTS
  \* of VectorIndex
  Pages, Stem, ChunkCount, TextSize, MaxRetries, MaxWrites, MaxMishaps, MaxReindexes,
  \* of GraphCache
  Projects, MaxSwitches, Askers, MaxBumps,
  \* of GraphInsights
  Nodes, Structural, Types, MaxEdges, MaxHidden,
  \* of ImageCascade
  Docs, Slots, Unusable, MaxImages, Concurrency, Ingests, MaxPasses,
  \* of SourceImport
  Kind, Selections, Folders, Ingested, MaxCounter, MaxImports, MaxDeletes,
  \* of AppSettings
  Presets, Values, Default, MaxEdits, MaxSaves, MaxCrashes,
  \* of UpdateCheck
  Releases, MaxRestarts, MaxAsks, MaxChoices, MaxFailures, MaxHours,
  \* of Crystallization
  Contents, Features, Conversations, None, MaxAnswers, MaxUpdates,
  \* of ReviewDesk
  Order, ItemKind, Labels, Affected, Wanted, Title, Slug, Prefixed, Wiki, Foreign,
  Searchable, BatchSize, MaxBatches, Headings, MaxEvents, MaxSweeps

VARIABLES
  \* of VectorIndex
  texts, model, dimension, rows, jobs, removing, writes, mishaps, reindexes, disturbed,
  complete,
  \* of GraphCache
  project, switches, versions, dataVersion, cachedGraph, asker, noted,
  \* of GraphInsights
  links, edges, stage, community, waved, highlighted, hidden, total, sent,
  \* of ImageCascade
  media, textCache, captionCache, document, run, passes,
  \* of SourceImport
  sources, textCaches, extracts, imports, importing, sourceList, armed, deletes, queued,
  toasts, asked,
  \* of AppSettings
  store, draft, mem, disk, env, chains, bounds,
  \* of UpdateCheck
  state, stored, flights, start, persisted, checks, world, shown, tries,
  \* of Crystallization
  said, queue, planned, adds, updates, version, saves, pages, indexed, listed, logged,
  held, updated, confirmed, failures,
  \* of ReviewDesk
  toReview, wiki, index, acts, research, sweep, since, told, counts

N == INSTANCE VectorIndex WITH files <- texts
G == INSTANCE GraphCache WITH pages <- versions
V == INSTANCE GraphInsights WITH raw <- links, dismissed <- waved
I == INSTANCE ImageCascade WITH page <- document
J == INSTANCE SourceImport WITH raw <- sources, cache <- textCaches, jobs <- extracts, listed
  <- sourceList, told <- toasts, counts <- asked
S == INSTANCE AppSettings
U == INSTANCE UpdateCheck WITH mem <- state, disk <- stored, writes <- flights, told <- shown,
  counts <- tries
D == INSTANCE Crystallization WITH claims <- indexed, saved <- confirmed, mishaps <- failures
W == INSTANCE ReviewDesk WITH items <- toReview, pages <- wiki, Kind <- ItemKind

-----------------------------------------------------------------------------
(***************************************************************************)
(* The rows of the pages.                                                  *)
(***************************************************************************)
ChunksHaveSizes ==
  /\ Pages # {} /\ ChunkCount \in Seq(Nat) /\ 1 \in DOMAIN ChunkCount
  /\ TextSize \in Seq(Nat) /\ \A v \in DOMAIN ChunkCount : ChunkCount[v] <= Len(TextSize)

IndexJobs ==
  [at : {"idle", "next", "fetch", "delete", "add"}, todo : SUBSET Pages, page : Pages, version : {0} \cup N!Versions,
   chunk : Nat, size : Nat, attempts : Nat, got : Seq(Nat), dim : 0 .. 2]
IndexTypes ==
  /\ texts \in [Pages -> {0} \cup N!Versions] /\ model \in 1 .. 2 /\ dimension \in 0 .. 2
  /\ DOMAIN rows = N!Ids /\ jobs \in [N!Writers -> IndexJobs]
  /\ removing \subseteq N!Ids /\ disturbed \subseteq N!Ids

\* A writer is at a chunk of the version it read, and after them at its rows.
Writing(w) == jobs[w].at \in {"fetch", "delete", "add"}
IdOf(w) == Stem[jobs[w].page]
ChunksInTurn ==
  \A w \in N!Writers :
    /\ Writing(w) => jobs[w].version \in N!Versions
    /\ jobs[w].at = "fetch" => jobs[w].chunk \in 1 .. ChunkCount[jobs[w].version]

\* Where nothing went wrong one writer is at an id, none while its rows are
\* still to be removed, of a page that is there; it has every chunk so far, and
\* no rows are left when it adds its own.
OneWriterAnId ==
  \A w \in N!Writers : Writing(w) /\ IdOf(w) \notin disturbed =>
    /\ IdOf(w) \notin removing /\ texts[jobs[w].page] # 0
    /\ \A x \in N!Writers : Writing(x) /\ IdOf(x) = IdOf(w) => x = w
ChunksInOrder ==
  \A w \in N!Writers : Writing(w) /\ IdOf(w) \notin disturbed =>
    /\ jobs[w].at = "fetch" => jobs[w].got = [n \in 1 .. jobs[w].chunk - 1 |-> n]
    /\ jobs[w].at # "fetch" => jobs[w].got = [n \in 1 .. ChunkCount[jobs[w].version] |-> n]
    /\ jobs[w].at = "add" => rows[IdOf(w)] = <<>>

NInv == IndexTypes /\ ChunksInTurn /\ OneWriterAnId /\ ChunksInOrder /\ N!RowsAreOfOnePage

LEMMA InitNInv ==
  ASSUME ChunksHaveSizes, N!Init
  PROVE  NInv
<1>1. N!Idle \in IndexJobs /\ N!Idle.at = "idle"
  BY DEF ChunksHaveSizes, N!Idle, IndexJobs
<1>2. jobs = [w \in N!Writers |-> N!Idle] /\ \A w \in N!Writers : jobs[w].at = "idle"
  BY <1>1 DEF N!Init
<1>3. IndexTypes
  <2>1. texts \in [Pages -> {0} \cup N!Versions]
    BY DEF N!Init, N!Versions, ChunksHaveSizes
  <2> QED
    BY <1>1, <1>2, <2>1 DEF N!Init, IndexTypes, N!Ids
<1> QED
  BY <1>2, <1>3 DEF N!Init, NInv, ChunksInTurn, OneWriterAnId, ChunksInOrder, N!RowsAreOfOnePage, Writing

LEMMA NInvSuffices ==
  ASSUME NInv
  PROVE  N!TypeOK /\ N!RowsAreOfOnePage
BY DEF NInv, IndexTypes, IndexJobs, N!TypeOK

-----------------------------------------------------------------------------
\* A step of one writer.
LEMMA WriterMoves ==
  ASSUME NInv, NEW w \in N!Writers, NEW r \in IndexJobs, jobs' = [jobs EXCEPT ![w] = r]
  PROVE  jobs' \in [N!Writers -> IndexJobs] /\ jobs'[w] = r /\ \A x \in N!Writers : x # w => jobs'[x] = jobs[x]
BY DEF NInv, IndexTypes

\* Who is busy, in terms of the writers.
LEMMA BusyFacts ==
  ASSUME NEW i
  PROVE  /\ N!Busy(i) = {} <=> \A w \in N!Writers : Writing(w) => IdOf(w) # i
         /\ \A w \in N!Writers : Writing(w) => w \in N!Busy(IdOf(w))
BY DEF N!Busy, Writing, IdOf

\* A writer that is at no page, before and after.
LEMMA AsideKeepsNInv ==
  ASSUME NInv, NEW w \in N!Writers, NEW r \in IndexJobs, jobs' = [jobs EXCEPT ![w] = r],
         ~Writing(w), r.at \in {"idle", "next"},
         UNCHANGED <<model, dimension, rows, removing, disturbed>>,
         texts' \in [Pages -> {0} \cup N!Versions], \A p \in Pages : texts[p] # 0 => texts'[p] # 0
  PROVE  NInv'
<1>1. jobs' \in [N!Writers -> IndexJobs] /\ jobs'[w] = r /\ \A x \in N!Writers : x # w => jobs'[x] = jobs[x]
  BY WriterMoves
<1>2. \A x \in N!Writers : /\ Writing(x)' <=> Writing(x)
                           /\ Writing(x) => jobs'[x] = jobs[x] /\ IdOf(x)' = IdOf(x)
  BY <1>1 DEF Writing, IdOf
<1>3. IndexTypes'
  BY <1>1 DEF NInv, IndexTypes
<1>4. ChunksInTurn'
  <2> SUFFICES ASSUME NEW x \in N!Writers
               PROVE  /\ Writing(x)' => jobs'[x].version \in N!Versions
                      /\ jobs'[x].at = "fetch" => jobs'[x].chunk \in 1 .. ChunkCount[jobs'[x].version]
    BY DEF ChunksInTurn
  <2> QED
    BY <1>1, <1>2 DEF NInv, ChunksInTurn, Writing
<1>5. OneWriterAnId'
  BY <1>2 DEF NInv, OneWriterAnId, IndexTypes, IndexJobs
<1>6. ChunksInOrder'
  BY <1>2 DEF NInv, ChunksInOrder
<1>7. ASSUME NEW i PROVE N!Busy(i)' = {} <=> N!Busy(i) = {}
  BY <1>2 DEF N!Busy, Writing, IdOf
<1>8. N!RowsAreOfOnePage'
  BY <1>7 DEF NInv, N!RowsAreOfOnePage
<1> QED
  BY <1>3, <1>4, <1>5, <1>6, <1>8 DEF NInv

\* A writer at a page, before and after.
LEMMA AtItKeepsNInv ==
  ASSUME NInv, NEW w \in N!Writers, NEW r \in IndexJobs, jobs' = [jobs EXCEPT ![w] = r],
         Writing(w), r.at \in {"fetch", "delete", "add"}, r.page = jobs[w].page, r.version = jobs[w].version,
         r.at = "fetch" => r.chunk \in 1 .. ChunkCount[r.version],
         UNCHANGED <<texts, model, dimension, removing>>, disturbed \subseteq disturbed', disturbed' \subseteq N!Ids,
         DOMAIN rows' = DOMAIN rows, \A i \in N!Ids : i # IdOf(w) => rows'[i] = rows[i],
         IdOf(w) \notin disturbed' =>
           /\ r.at = "fetch" => r.got = [n \in 1 .. r.chunk - 1 |-> n]
           /\ r.at # "fetch" => r.got = [n \in 1 .. ChunkCount[r.version] |-> n]
           /\ r.at = "add" => rows'[IdOf(w)] = <<>>
  PROVE  NInv'
<1>1. jobs' \in [N!Writers -> IndexJobs] /\ jobs'[w] = r /\ \A x \in N!Writers : x # w => jobs'[x] = jobs[x]
  BY WriterMoves
<1>2. /\ \A x \in N!Writers : /\ Writing(x)' <=> Writing(x)
                              /\ IdOf(x)' = IdOf(x) /\ jobs'[x].page = jobs[x].page /\ IdOf(x) \in N!Ids
  BY <1>1 DEF Writing, IdOf, NInv, IndexTypes, IndexJobs, N!Ids
<1>3. IndexTypes'
  BY <1>1 DEF NInv, IndexTypes
<1>4. ChunksInTurn'
  <2> SUFFICES ASSUME NEW x \in N!Writers
               PROVE  /\ Writing(x)' => jobs'[x].version \in N!Versions
                      /\ jobs'[x].at = "fetch" => jobs'[x].chunk \in 1 .. ChunkCount[jobs'[x].version]
    BY DEF ChunksInTurn
  <2>1. CASE x = w
    BY <1>1, <2>1 DEF NInv, ChunksInTurn
  <2>2. CASE x # w
    BY <1>1, <1>2, <2>2 DEF NInv, ChunksInTurn
  <2> QED
    BY <2>1, <2>2
<1>5. OneWriterAnId'
  BY <1>2 DEF NInv, OneWriterAnId
<1>6. ChunksInOrder'
  <2> SUFFICES ASSUME NEW x \in N!Writers, Writing(x), IdOf(x) \notin disturbed'
               PROVE  /\ jobs'[x].at = "fetch" => jobs'[x].got = [n \in 1 .. jobs'[x].chunk - 1 |-> n]
                      /\ jobs'[x].at # "fetch" => jobs'[x].got = [n \in 1 .. ChunkCount[jobs'[x].version] |-> n]
                      /\ jobs'[x].at = "add" => rows'[IdOf(x)] = <<>>
    BY <1>2 DEF ChunksInOrder
  <2>1. CASE x = w
    BY <1>1, <2>1
  <2>2. CASE x # w
    <3>1. IdOf(x) # IdOf(w) /\ IdOf(x) \notin disturbed
      BY <2>2 DEF NInv, OneWriterAnId
    <3> QED
      BY <1>1, <1>2, <2>2, <3>1 DEF NInv, ChunksInOrder
  <2> QED
    BY <2>1, <2>2
<1>7. ASSUME NEW i PROVE N!Busy(i)' = N!Busy(i)
  BY <1>2 DEF N!Busy, Writing, IdOf
<1>8. w \in N!Busy(IdOf(w))
  BY DEF N!Busy, Writing, IdOf
<1>9. N!RowsAreOfOnePage'
  <2> SUFFICES ASSUME NEW i \in N!Ids \ disturbed', N!Busy(i)' = {}, i \notin removing
               PROVE  \/ rows'[i] = <<>>
                      \/ /\ \E p \in Pages, v \in N!Versions : Stem[p] = i /\ rows'[i] = N!Whole(p, v)
                         /\ \E p \in Pages : Stem[p] = i /\ texts[p] # 0
    BY DEF N!RowsAreOfOnePage, N!Ids
  <2>1. i # IdOf(w) /\ N!Busy(i) = {}
    BY <1>7, <1>8
  <2> QED
    BY <2>1 DEF NInv, N!RowsAreOfOnePage
<1> QED
  BY <1>3, <1>4, <1>5, <1>6, <1>9 DEF NInv

\* A writer leaves a page.
LEMMA LeavingKeepsNInv ==
  ASSUME NInv, NEW w \in N!Writers, NEW r \in IndexJobs, jobs' = [jobs EXCEPT ![w] = r],
         Writing(w), r.at = "next",
         UNCHANGED <<texts, model, removing>>, dimension' \in 0 .. 2,
         disturbed \subseteq disturbed', disturbed' \subseteq N!Ids,
         DOMAIN rows' = DOMAIN rows, \A i \in N!Ids : i # IdOf(w) => rows'[i] = rows[i],
         IdOf(w) \notin disturbed' =>
           rows'[IdOf(w)] = <<>> \/ \E v \in N!Versions : rows'[IdOf(w)] = N!Whole(jobs[w].page, v)
  PROVE  NInv'
<1>1. jobs' \in [N!Writers -> IndexJobs] /\ jobs'[w] = r /\ \A x \in N!Writers : x # w => jobs'[x] = jobs[x]
  BY WriterMoves
<1>2. /\ \A x \in N!Writers \ {w} : /\ Writing(x)' <=> Writing(x)
                                    /\ IdOf(x)' = IdOf(x) /\ jobs'[x] = jobs[x]
      /\ ~Writing(w)' /\ \A x \in N!Writers : IdOf(x) \in N!Ids /\ jobs[x].page \in Pages
  BY <1>1 DEF Writing, IdOf, NInv, IndexTypes, IndexJobs, N!Ids
<1>3. IndexTypes'
  BY <1>1 DEF NInv, IndexTypes
<1>4. ChunksInTurn'
  <2> SUFFICES ASSUME NEW x \in N!Writers
               PROVE  /\ Writing(x)' => jobs'[x].version \in N!Versions
                      /\ jobs'[x].at = "fetch" => jobs'[x].chunk \in 1 .. ChunkCount[jobs'[x].version]
    BY DEF ChunksInTurn
  <2>1. CASE x = w
    BY <1>1, <1>2, <2>1
  <2>2. CASE x # w
    BY <1>1, <1>2, <2>2 DEF NInv, ChunksInTurn
  <2> QED
    BY <2>1, <2>2
<1>5. OneWriterAnId'
  BY <1>2 DEF NInv, OneWriterAnId
<1>6. ChunksInOrder'
  <2> SUFFICES ASSUME NEW x \in N!Writers \ {w}, Writing(x), IdOf(x) \notin disturbed'
               PROVE  /\ jobs[x].at = "fetch" => jobs[x].got = [n \in 1 .. jobs[x].chunk - 1 |-> n]
                      /\ jobs[x].at # "fetch" => jobs[x].got = [n \in 1 .. ChunkCount[jobs[x].version] |-> n]
                      /\ jobs[x].at = "add" => rows'[IdOf(x)] = <<>>
    BY <1>2 DEF ChunksInOrder
  <2>1. IdOf(x) # IdOf(w) /\ IdOf(x) \notin disturbed
    BY DEF NInv, OneWriterAnId
  <2> QED
    BY <1>2, <2>1 DEF NInv, ChunksInOrder
<1>7. ASSUME NEW i, i # IdOf(w) PROVE N!Busy(i)' = N!Busy(i)
  BY <1>2, <1>7 DEF N!Busy, Writing, IdOf
<1>8. N!RowsAreOfOnePage'
  <2> SUFFICES ASSUME NEW i \in N!Ids \ disturbed', N!Busy(i)' = {}, i \notin removing
               PROVE  \/ rows'[i] = <<>>
                      \/ /\ \E p \in Pages, v \in N!Versions : Stem[p] = i /\ rows'[i] = N!Whole(p, v)
                         /\ \E p \in Pages : Stem[p] = i /\ texts[p] # 0
    BY DEF N!RowsAreOfOnePage, N!Ids
  <2>1. CASE i # IdOf(w)
    BY <1>7, <2>1 DEF NInv, N!RowsAreOfOnePage
  <2>2. CASE i = IdOf(w)
    <3>1. texts[jobs[w].page] # 0 /\ Stem[jobs[w].page] = i
      BY <2>2 DEF NInv, OneWriterAnId, IdOf
    <3> QED
      BY <1>2, <2>2, <3>1
  <2> QED
    BY <2>1, <2>2
<1> QED
  BY <1>3, <1>4, <1>5, <1>6, <1>8 DEF NInv

\* Nobody moves.
LEMMA StillKeepsNInv ==
  ASSUME NInv, UNCHANGED jobs, IndexTypes', disturbed \subseteq disturbed',
         \A w \in N!Writers : Writing(w) /\ IdOf(w) \notin disturbed' =>
           /\ rows'[IdOf(w)] = rows[IdOf(w)] /\ IdOf(w) \notin removing' /\ texts'[jobs[w].page] # 0,
         N!RowsAreOfOnePage'
  PROVE  NInv'
<1>1. \A w \in N!Writers : (Writing(w)' <=> Writing(w)) /\ IdOf(w)' = IdOf(w) /\ jobs'[w] = jobs[w]
  BY DEF Writing, IdOf
<1>2. ChunksInTurn'
  BY <1>1 DEF NInv, ChunksInTurn
<1>3. OneWriterAnId'
  BY <1>1 DEF NInv, OneWriterAnId
<1>4. ChunksInOrder'
  BY <1>1 DEF NInv, ChunksInOrder
<1> QED
  BY <1>2, <1>3, <1>4 DEF NInv

-----------------------------------------------------------------------------
\* A writer that begins.
LEMMA BegunFacts ==
  ASSUME NEW job \in IndexJobs, NEW todo \in SUBSET Pages, NEW dim \in 0 .. 2
  PROVE  LET r == [job EXCEPT !.at = "next", !.todo = todo, !.dim = dim] IN r \in IndexJobs /\ r.at = "next"
BY DEF IndexJobs

LEMMA IngestKeepsNInv ==
  ASSUME ChunksHaveSizes, NInv, (\E p \in Pages : N!Ingest(p)) \/ N!Reindex
  PROVE  NInv'
<1>1. N!Idle \in IndexJobs
  BY DEF ChunksHaveSizes, N!Idle, IndexJobs
<1>2. CASE \E p \in Pages : N!Ingest(p)
  <2>1. PICK p \in Pages : N!Ingest(p)
    BY <1>2
  <2> DEFINE r == [N!Idle EXCEPT !.at = "next", !.todo = {p}, !.dim = model]
  <2>2. /\ jobs["ingest"].at = "idle" /\ texts[p] + 1 \in N!Versions /\ texts' = [texts EXCEPT ![p] = texts[p] + 1]
        /\ jobs' = [jobs EXCEPT !["ingest"] = r]
        /\ UNCHANGED <<model, dimension, rows, removing, disturbed>>
    BY <2>1 DEF N!Ingest
  <2>3. r \in IndexJobs /\ r.at = "next"
    <3>1. model \in 0 .. 2
      BY DEF NInv, IndexTypes
    <3> QED
      BY <1>1, <3>1, BegunFacts
  <2>4. texts' \in [Pages -> {0} \cup N!Versions] /\ \A q \in Pages : texts[q] # 0 => texts'[q] # 0
    <3>1. N!Versions \subseteq Nat \ {0}
      BY DEF N!Versions, ChunksHaveSizes
    <3> QED
      BY <2>2, <3>1 DEF NInv, IndexTypes
  <2>5. "ingest" \in N!Writers /\ ~Writing("ingest")
    BY <2>2 DEF N!Writers, Writing
  <2> HIDE DEF r
  <2> QED
    BY <2>2, <2>3, <2>4, <2>5, AsideKeepsNInv
<1>3. CASE N!Reindex
  <2> DEFINE r == [N!Idle EXCEPT !.at = "next", !.todo = {p \in Pages : texts[p] # 0}, !.dim = model]
  <2>1. /\ jobs["reindex"].at = "idle" /\ jobs' = [jobs EXCEPT !["reindex"] = r]
        /\ UNCHANGED <<texts, model, dimension, rows, removing, disturbed>>
    BY <1>3 DEF N!Reindex
  <2>2. r \in IndexJobs /\ r.at = "next"
    <3>1. model \in 0 .. 2
      BY DEF NInv, IndexTypes
    <3> QED
      BY <1>1, <3>1, BegunFacts
  <2>3. texts' \in [Pages -> {0} \cup N!Versions]
    BY <2>1 DEF NInv, IndexTypes
  <2>4. "reindex" \in N!Writers /\ ~Writing("reindex")
    BY <2>1 DEF N!Writers, Writing
  <2> HIDE DEF r
  <2> QED
    BY <2>1, <2>2, <2>3, <2>4, AsideKeepsNInv
<1> QED
  BY <1>2, <1>3

LEMMA JobDoneKeepsNInv ==
  ASSUME ChunksHaveSizes, NInv, NEW w \in N!Writers, N!JobDone(w)
  PROVE  NInv'
<1>1. N!Idle \in IndexJobs /\ N!Idle.at = "idle"
  BY DEF ChunksHaveSizes, N!Idle, IndexJobs
<1>2. /\ jobs' = [jobs EXCEPT ![w] = N!Idle] /\ ~Writing(w)
      /\ UNCHANGED <<texts, model, dimension, rows, removing, disturbed>>
  BY DEF N!JobDone, Writing
<1>3. texts' \in [Pages -> {0} \cup N!Versions]
  BY <1>2 DEF NInv, IndexTypes
<1> QED
  BY <1>1, <1>2, <1>3, AsideKeepsNInv

LEMMA TakeKeepsNInv ==
  ASSUME ChunksHaveSizes, NInv, NEW w \in N!Writers, NEW p \in Pages, N!Take(w, p)
  PROVE  NInv'
<1> DEFINE job == [jobs[w] EXCEPT !.todo = jobs[w].todo \ {p}]
           skip == texts[p] = 0 \/ ChunkCount[texts[p]] = 0
           r == [job EXCEPT !.at = "fetch", !.page = p, !.version = texts[p], !.chunk = 1,
                            !.size = TextSize[1], !.attempts = 0, !.got = <<>>]
<1>1. /\ jobs[w].at = "next" /\ jobs' = [jobs EXCEPT ![w] = IF skip THEN job ELSE r]
      /\ disturbed' = IF ~skip /\ (N!Busy(Stem[p]) # {} \/ Stem[p] \in removing)
                      THEN disturbed \cup {Stem[p]} ELSE disturbed
      /\ UNCHANGED <<texts, model, dimension, rows, removing, writes, mishaps, reindexes, complete>>
  BY DEF N!Take, N!TodoAfter
<1>2. ~Writing(w) /\ jobs[w] \in IndexJobs
  BY <1>1 DEF Writing, NInv, IndexTypes
<1>3. job \in IndexJobs /\ job.at = "next"
  BY <1>1, <1>2 DEF IndexJobs
<1>4. texts \in [Pages -> {0} \cup N!Versions]
  BY DEF NInv, IndexTypes
<1>5. CASE skip
  <2> HIDE DEF job
  <2> QED
    BY <1>1, <1>2, <1>3, <1>4, <1>5, AsideKeepsNInv
<1>6. CASE ~skip
  <2>1. texts[p] \in N!Versions /\ ChunkCount[texts[p]] \in Nat \ {0} /\ TextSize[1] \in Nat
    <3>1. texts[p] \in N!Versions /\ ChunkCount[texts[p]] # 0
      BY <1>4, <1>6
    <3>2. ChunkCount[texts[p]] \in Nat /\ ChunkCount[texts[p]] <= Len(TextSize) /\ Len(TextSize) \in Nat
      BY <3>1 DEF ChunksHaveSizes, N!Versions
    <3>3. 1 \in 1 .. Len(TextSize)
      BY <3>1, <3>2
    <3> QED
      BY <3>1, <3>2, <3>3 DEF ChunksHaveSizes
  <2>2. /\ r \in IndexJobs /\ r.at = "fetch" /\ r.page = p /\ r.version = texts[p] /\ r.chunk = 1 /\ r.got = <<>>
    <3> HIDE DEF job
    <3>1. PICK v \in N!Versions, size \in Nat : v = texts[p] /\ size = TextSize[1]
      BY <2>1
    <3>0. PICK was \in IndexJobs : was = job
      BY <1>3
    <3>2. PICK t : t = [was EXCEPT !.at = "fetch", !.page = p, !.version = v, !.chunk = 1,
                                   !.size = size, !.attempts = 0, !.got = <<>>]
      OBVIOUS
    <3>3. t \in IndexJobs /\ t.at = "fetch" /\ t.page = p /\ t.version = v /\ t.chunk = 1 /\ t.got = <<>>
      <4> HIDE DEF r, skip
      <4>1. <<>> \in Seq(Nat) /\ 1 \in Nat /\ 0 \in Nat
        OBVIOUS
      <4> QED
        BY <3>2, <4>1 DEF IndexJobs
    <3>4. t = r
      BY <3>0, <3>1, <3>2
    <3> HIDE DEF r
    <3> QED
      BY <3>1, <3>3, <3>4
  <2> HIDE DEF job, r
  <2>3. jobs' = [jobs EXCEPT ![w] = r]
    BY <1>1, <1>6
  <2>4. jobs' \in [N!Writers -> IndexJobs] /\ jobs'[w] = r /\ \A x \in N!Writers : x # w => jobs'[x] = jobs[x]
    BY <2>2, <2>3, WriterMoves
  <2>5. /\ \A x \in N!Writers \ {w} : /\ Writing(x)' <=> Writing(x)
                                      /\ IdOf(x)' = IdOf(x) /\ jobs'[x] = jobs[x]
        /\ Writing(w)' /\ IdOf(w)' = Stem[p]
    BY <2>2, <2>4 DEF Writing, IdOf
  <2>6. disturbed \subseteq disturbed' /\ disturbed' \subseteq N!Ids
    BY <1>1 DEF NInv, IndexTypes, N!Ids
  <2>7. Stem[p] \notin disturbed' =>
          Stem[p] \notin removing /\ \A x \in N!Writers : Writing(x) => IdOf(x) # Stem[p]
    BY <1>1, <1>6 DEF N!Busy, Writing, IdOf
  <2>8. IndexTypes'
    BY <1>1, <2>4, <2>6 DEF NInv, IndexTypes
  <2>9. ChunksInTurn'
    <3> SUFFICES ASSUME NEW x \in N!Writers
                 PROVE  /\ Writing(x)' => jobs'[x].version \in N!Versions
                        /\ jobs'[x].at = "fetch" => jobs'[x].chunk \in 1 .. ChunkCount[jobs'[x].version]
      BY DEF ChunksInTurn
    <3>1. CASE x = w
      BY <2>1, <2>2, <2>4, <3>1
    <3>2. CASE x # w
      BY <2>4, <2>5, <3>2 DEF NInv, ChunksInTurn
    <3> QED
      BY <3>1, <3>2
  <2>10. OneWriterAnId'
    <3> SUFFICES ASSUME NEW x \in N!Writers, Writing(x)', IdOf(x)' \notin disturbed'
                 PROVE  /\ IdOf(x)' \notin removing /\ texts[jobs'[x].page] # 0
                        /\ \A y \in N!Writers : Writing(y)' /\ IdOf(y)' = IdOf(x)' => y = x
      BY <1>1 DEF OneWriterAnId
    <3>1. CASE x = w
      BY <1>6, <2>2, <2>4, <2>5, <2>7, <3>1
    <3>2. CASE x # w
      BY <2>5, <2>6, <2>7, <3>2 DEF NInv, OneWriterAnId
    <3> QED
      BY <3>1, <3>2
  <2>11. ChunksInOrder'
    <3> SUFFICES ASSUME NEW x \in N!Writers, Writing(x)', IdOf(x)' \notin disturbed'
                 PROVE  /\ jobs'[x].at = "fetch" => jobs'[x].got = [n \in 1 .. jobs'[x].chunk - 1 |-> n]
                        /\ jobs'[x].at # "fetch" => jobs'[x].got = [n \in 1 .. ChunkCount[jobs'[x].version] |-> n]
                        /\ jobs'[x].at = "add" => rows[IdOf(x)'] = <<>>
      BY <1>1 DEF ChunksInOrder
    <3>1. CASE x = w
      <4>1. <<>> = [n \in 1 .. 1 - 1 |-> n]
        OBVIOUS
      <4> QED
        BY <2>2, <2>4, <3>1, <4>1
    <3>2. CASE x # w
      BY <2>5, <2>6, <3>2 DEF NInv, ChunksInOrder
    <3> QED
      BY <3>1, <3>2
  <2>12. ASSUME NEW i, N!Busy(i)' = {} PROVE N!Busy(i) = {}
    BY <2>5, <2>12, <1>2 DEF N!Busy, Writing, IdOf
  <2>13. N!RowsAreOfOnePage'
    BY <1>1, <2>6, <2>12 DEF NInv, N!RowsAreOfOnePage, N!Ids
  <2> QED
    BY <2>8, <2>9, <2>10, <2>11, <2>13 DEF NInv
<1> QED
  BY <1>5, <1>6

\* The next chunk, or the rows.
LEMMA OnwardFacts ==
  ASSUME ChunksHaveSizes, NInv, NEW w \in N!Writers, jobs[w].at = "fetch", NEW got \in Seq(Nat), N!Onward(w, got)
  PROVE  \E r \in IndexJobs :
           /\ jobs' = [jobs EXCEPT ![w] = r] /\ r.page = jobs[w].page /\ r.version = jobs[w].version /\ r.got = got
           /\ \/ r.at = "fetch" /\ r.chunk = jobs[w].chunk + 1 /\ r.chunk \in 1 .. ChunkCount[r.version]
              \/ /\ r.at = (IF got = <<>> THEN "next" ELSE "delete")
                 /\ jobs[w].chunk = ChunkCount[jobs[w].version]
<1>1. PICK job \in IndexJobs : job = jobs[w]
  BY DEF NInv, IndexTypes
<1>2. job.version \in N!Versions /\ job.chunk \in 1 .. ChunkCount[job.version]
  BY <1>1 DEF NInv, ChunksInTurn, Writing
<1>3. PICK count \in Nat : count = ChunkCount[job.version] /\ count <= Len(TextSize)
  BY <1>2 DEF ChunksHaveSizes, N!Versions
<1>4. job.chunk \in Nat /\ 1 <= job.chunk /\ job.chunk <= count /\ Len(TextSize) \in Nat
  BY <1>2, <1>3 DEF ChunksHaveSizes
<1>5. \/ /\ job.chunk < count
         /\ jobs' = [jobs EXCEPT ![w] =
              [job EXCEPT !.chunk = job.chunk + 1, !.size = TextSize[job.chunk + 1], !.attempts = 0, !.got = got]]
      \/ /\ job.chunk = count
         /\ jobs' = [jobs EXCEPT ![w] = [job EXCEPT !.at = IF got = <<>> THEN "next" ELSE "delete", !.got = got]]
  BY <1>1, <1>3 DEF N!Onward
<1>6. CASE job.chunk < count
  <2>1. job.chunk + 1 \in 1 .. count /\ job.chunk + 1 \in Nat /\ job.chunk + 1 \in 1 .. Len(TextSize)
    BY <1>3, <1>4, <1>6
  <2>2. PICK size \in Nat : size = TextSize[job.chunk + 1]
    BY <2>1 DEF ChunksHaveSizes
  <2>3. PICK next \in 1 .. count : next = job.chunk + 1 /\ next \in Nat
    BY <2>1
  <2> DEFINE r == [job EXCEPT !.chunk = next, !.size = size, !.attempts = 0, !.got = got]
  <2>4. r \in IndexJobs /\ r.page = job.page /\ r.version = job.version /\ r.got = got /\ r.at = job.at /\ r.chunk = next
    BY <2>3 DEF IndexJobs
  <2>5. jobs' = [jobs EXCEPT ![w] = r]
    BY <1>4, <1>5, <1>6, <2>2, <2>3
  <2> HIDE DEF r
  <2> QED
    BY <1>1, <1>3, <2>3, <2>4, <2>5
<1>7. CASE job.chunk = count
  <2> DEFINE r == [job EXCEPT !.at = IF got = <<>> THEN "next" ELSE "delete", !.got = got]
  <2>1. /\ r \in IndexJobs /\ r.page = job.page /\ r.version = job.version /\ r.got = got
        /\ r.at = IF got = <<>> THEN "next" ELSE "delete"
    BY DEF IndexJobs
  <2>2. jobs' = [jobs EXCEPT ![w] = r]
    BY <1>4, <1>5, <1>7
  <2> HIDE DEF r
  <2> QED
    BY <1>1, <1>3, <1>7, <2>1, <2>2
<1> QED
  BY <1>4, <1>6, <1>7

LEMMA LongerList == \A s \in Seq(Nat), n \in Nat : Append(s, n) \in Seq(Nat) /\ Append(s, n) # <<>>
<1> TAKE s \in Seq(Nat), n \in Nat
<1>1. Append(s, n) \in Seq(Nat)
  OBVIOUS
<1>2. Append(s, n) # <<>>
  OBVIOUS
<1> QED
  BY <1>1, <1>2

LEMMA EmbeddedKeepsNInv ==
  ASSUME ChunksHaveSizes, NInv, NEW w \in N!Writers, N!Embedded(w)
  PROVE  NInv'
<1> DEFINE more == Append(jobs[w].got, jobs[w].chunk)
<1>1. /\ jobs[w].at = "fetch" /\ N!Onward(w, more)
      /\ UNCHANGED <<texts, model, dimension, rows, removing, disturbed>>
  BY DEF N!Embedded
<1>2. jobs[w] \in IndexJobs /\ Writing(w)
  BY <1>1 DEF NInv, IndexTypes, Writing
<1>3. jobs[w].got \in Seq(Nat) /\ jobs[w].chunk \in Nat /\ jobs[w].chunk \in 1 .. ChunkCount[jobs[w].version]
  BY <1>1, <1>2 DEF IndexJobs, NInv, ChunksInTurn
<1>4. more \in Seq(Nat) /\ more # <<>>
  BY <1>3, LongerList
<1>5. IdOf(w) \notin disturbed => more = [n \in 1 .. jobs[w].chunk |-> n]
  <2> SUFFICES ASSUME IdOf(w) \notin disturbed PROVE more = [n \in 1 .. jobs[w].chunk |-> n]
    OBVIOUS
  <2>1. PICK c \in Nat \ {0} : c = jobs[w].chunk
    BY <1>3
  <2>2. jobs[w].got = [n \in 1 .. c - 1 |-> n]
    BY <1>1, <1>2, <2>1 DEF NInv, ChunksInOrder
  <2>3. c - 1 \in Nat /\ [n \in 1 .. c - 1 |-> n] \in Seq(Nat) /\ Len([n \in 1 .. c - 1 |-> n]) = c - 1
    BY <2>1
  <2>4. Append([n \in 1 .. c - 1 |-> n], c) = [n \in 1 .. c |-> n]
    BY <2>1, <2>3
  <2> QED
    BY <2>1, <2>2, <2>4
<1> HIDE DEF more
<1>6. PICK r \in IndexJobs :
        /\ jobs' = [jobs EXCEPT ![w] = r] /\ r.page = jobs[w].page /\ r.version = jobs[w].version /\ r.got = more
        /\ \/ r.at = "fetch" /\ r.chunk = jobs[w].chunk + 1 /\ r.chunk \in 1 .. ChunkCount[r.version]
           \/ /\ r.at = (IF more = <<>> THEN "next" ELSE "delete")
              /\ jobs[w].chunk = ChunkCount[jobs[w].version]
  BY <1>1, <1>4, OnwardFacts
<1>7. IdOf(w) \notin disturbed =>
        /\ r.at = "fetch" => r.got = [n \in 1 .. r.chunk - 1 |-> n]
        /\ r.at # "fetch" => r.got = [n \in 1 .. ChunkCount[r.version] |-> n]
  <2> SUFFICES ASSUME IdOf(w) \notin disturbed
               PROVE  /\ r.at = "fetch" => r.got = [n \in 1 .. r.chunk - 1 |-> n]
                      /\ r.at # "fetch" => r.got = [n \in 1 .. ChunkCount[r.version] |-> n]
    OBVIOUS
  <2>1. PICK c \in Nat : c = jobs[w].chunk /\ r.got = [n \in 1 .. c |-> n]
    BY <1>3, <1>5, <1>6
  <2>2. CASE r.at = "fetch"
    <3>1. r.chunk - 1 = c
      BY <1>4, <1>6, <2>1, <2>2
    <3> QED
      BY <2>1, <2>2, <3>1
  <2>3. CASE r.at # "fetch"
    BY <1>6, <2>1, <2>3
  <2> QED
    BY <2>2, <2>3
<1>8. /\ disturbed \subseteq disturbed' /\ disturbed' \subseteq N!Ids
      /\ r.at \in {"fetch", "delete", "add"} /\ r.at # "add"
      /\ (r.at = "fetch" => r.chunk \in 1 .. ChunkCount[r.version])
  BY <1>1, <1>4, <1>6 DEF NInv, IndexTypes
<1> QED
  BY <1>1, <1>2, <1>6, <1>7, <1>8, AtItKeepsNInv

LEMMA ChunkFailsKeepsNInv ==
  ASSUME ChunksHaveSizes, NInv, NEW w \in N!Writers, N!ChunkFails(w)
  PROVE  NInv'
<1>1. /\ jobs[w].at = "fetch" /\ N!Onward(w, jobs[w].got) /\ disturbed' = disturbed \cup {IdOf(w)}
      /\ UNCHANGED <<texts, model, dimension, rows, removing>>
  BY DEF N!ChunkFails, N!Mishap, IdOf
<1>2. jobs[w].got \in Seq(Nat) /\ Writing(w) /\ IdOf(w) \in N!Ids
  BY <1>1 DEF NInv, IndexTypes, IndexJobs, Writing, IdOf, N!Ids
<1>3. PICK r \in IndexJobs :
        /\ jobs' = [jobs EXCEPT ![w] = r] /\ r.page = jobs[w].page /\ r.version = jobs[w].version /\ r.got = jobs[w].got
        /\ \/ r.at = "fetch" /\ r.chunk = jobs[w].chunk + 1 /\ r.chunk \in 1 .. ChunkCount[r.version]
           \/ /\ r.at = (IF jobs[w].got = <<>> THEN "next" ELSE "delete")
              /\ jobs[w].chunk = ChunkCount[jobs[w].version]
  BY <1>1, <1>2, OnwardFacts
<1>4. disturbed \subseteq disturbed' /\ disturbed' \subseteq N!Ids /\ IdOf(w) \in disturbed'
  BY <1>1, <1>2 DEF NInv, IndexTypes
<1>5. CASE r.at = "next"
  <2>1. dimension' \in 0 .. 2
    BY <1>1 DEF NInv, IndexTypes
  <2> QED
    BY <1>1, <1>2, <1>3, <1>4, <1>5, <2>1, LeavingKeepsNInv
<1>6. CASE r.at # "next"
  <2>1. r.at \in {"fetch", "delete", "add"} /\ (r.at = "fetch" => r.chunk \in 1 .. ChunkCount[r.version])
    BY <1>3, <1>6
  <2> QED
    BY <1>1, <1>2, <1>3, <1>4, <2>1, AtItKeepsNInv
<1> QED
  BY <1>5, <1>6

LEMMA TooLongKeepsNInv ==
  ASSUME NInv, NEW w \in N!Writers, N!TooLong(w)
  PROVE  NInv'
<1>1. PICK job \in IndexJobs : job = jobs[w]
  BY DEF NInv, IndexTypes
<1>2. PICK size : size = job.size \div 2
  OBVIOUS
<1>3. PICK attempts : attempts = job.attempts + 1
  OBVIOUS
<1>4. size \in Nat /\ attempts \in Nat
  <2>1. job.size \in Nat /\ job.attempts \in Nat
    BY DEF IndexJobs
  <2> QED
    BY <1>2, <1>3, <2>1
<1> DEFINE r == [job EXCEPT !.size = size, !.attempts = attempts]
<1>5. job.at = "fetch" /\ UNCHANGED <<texts, model, dimension, rows, removing, disturbed>>
  BY <1>1 DEF N!TooLong
<1>6. jobs' = [jobs EXCEPT ![w] = r]
  BY <1>1, <1>2, <1>3 DEF N!TooLong, NInv, IndexTypes
<1>7. /\ r \in IndexJobs /\ r.at = "fetch" /\ r.page = job.page /\ r.version = job.version /\ r.chunk = job.chunk
      /\ r.got = job.got
  BY <1>4, <1>5 DEF IndexJobs
<1> HIDE DEF r
<1>8. Writing(w) /\ job.chunk \in 1 .. ChunkCount[job.version]
  BY <1>1, <1>5 DEF NInv, ChunksInTurn, Writing
<1>9. IdOf(w) \notin disturbed => job.got = [n \in 1 .. job.chunk - 1 |-> n]
  BY <1>1, <1>5, <1>8 DEF NInv, ChunksInOrder
<1>10. disturbed \subseteq disturbed' /\ disturbed' \subseteq N!Ids
  BY <1>5 DEF NInv, IndexTypes
<1> QED
  BY <1>1, <1>5, <1>6, <1>7, <1>8, <1>9, <1>10, AtItKeepsNInv

-----------------------------------------------------------------------------
\* The rows of a page whose chunks are all there.
LEMMA WholeFacts ==
  ASSUME NInv, NEW w \in N!Writers, jobs[w].at \in {"delete", "add"}, IdOf(w) \notin disturbed
  PROVE  N!RowsOf(jobs[w]) = N!Whole(jobs[w].page, jobs[w].version) /\ jobs[w].version \in N!Versions
<1>1. jobs[w].got = [n \in 1 .. ChunkCount[jobs[w].version] |-> n] /\ jobs[w].version \in N!Versions
  BY DEF NInv, ChunksInOrder, ChunksInTurn, Writing
<1> QED
  BY <1>1 DEF N!RowsOf, N!Whole

\* A field of a job.
LEMMA AtFacts ==
  ASSUME NInv, NEW w \in N!Writers, NEW at \in {"idle", "next", "fetch", "delete", "add"},
         jobs' = [jobs EXCEPT ![w].at = at]
  PROVE  \E r \in IndexJobs :
           /\ jobs' = [jobs EXCEPT ![w] = r] /\ r.at = at /\ r.page = jobs[w].page /\ r.version = jobs[w].version
           /\ r.got = jobs[w].got
<1>1. PICK job \in IndexJobs : job = jobs[w]
  BY DEF NInv, IndexTypes
<1>2. [job EXCEPT !.at = at] \in IndexJobs
  BY DEF IndexJobs
<1>3. jobs' = [jobs EXCEPT ![w] = [job EXCEPT !.at = at]]
  BY <1>1 DEF NInv, IndexTypes
<1> QED
  BY <1>1, <1>2, <1>3 DEF IndexJobs

LEMMA WriteKeepsNInv ==
  ASSUME ChunksHaveSizes, NInv, NEW w \in N!Writers, N!Write(w)
  PROVE  NInv'
<1>1. jobs[w].at \in {"delete", "add"} /\ Writing(w) /\ IdOf(w) \in N!Ids /\ jobs[w].dim \in 0 .. 2
  BY DEF N!Write, N!CreateTable, N!DeleteRows, N!DeleteRowsFails, N!AddRows, N!AddRowsFails, Writing,
         NInv, IndexTypes, IndexJobs, IdOf, N!Ids
<1>2. dimension \in 0 .. 2 /\ disturbed \subseteq N!Ids
  BY DEF NInv, IndexTypes
<1>3. CASE N!CreateTable(w)
  <2>1. /\ dimension' = jobs[w].dim /\ rows' = [rows EXCEPT ![IdOf(w)] = N!RowsOf(jobs[w])]
        /\ jobs' = [jobs EXCEPT ![w].at = "next"] /\ UNCHANGED <<texts, model, removing, disturbed>>
    BY <1>3 DEF N!CreateTable, IdOf
  <2>2. PICK r \in IndexJobs : jobs' = [jobs EXCEPT ![w] = r] /\ r.at = "next"
    BY <2>1, AtFacts
  <2>3. DOMAIN rows' = DOMAIN rows /\ \A i \in N!Ids : i # IdOf(w) => rows'[i] = rows[i]
    BY <2>1
  <2>4. rows'[IdOf(w)] = N!RowsOf(jobs[w])
    BY <1>1, <2>1 DEF NInv, IndexTypes
  <2>5. IdOf(w) \notin disturbed' => \E v \in N!Versions : rows'[IdOf(w)] = N!Whole(jobs[w].page, v)
    BY <1>1, <2>1, <2>4, WholeFacts
  <2> QED
    BY <1>1, <1>2, <2>1, <2>2, <2>3, <2>5, LeavingKeepsNInv
<1>4. CASE N!DeleteRows(w)
  <2>1. /\ rows' = [rows EXCEPT ![IdOf(w)] = <<>>] /\ jobs' = [jobs EXCEPT ![w].at = "add"]
        /\ UNCHANGED <<texts, model, dimension, removing, disturbed>> /\ jobs[w].at = "delete"
    BY <1>4 DEF N!DeleteRows, N!DropRows, IdOf
  <2>2. PICK r \in IndexJobs :
          jobs' = [jobs EXCEPT ![w] = r] /\ r.at = "add" /\ r.page = jobs[w].page /\ r.version = jobs[w].version
          /\ r.got = jobs[w].got
    BY <2>1, AtFacts
  <2>3. /\ DOMAIN rows' = DOMAIN rows /\ (\A i \in N!Ids : i # IdOf(w) => rows'[i] = rows[i])
        /\ rows'[IdOf(w)] = <<>>
    BY <1>1, <2>1 DEF NInv, IndexTypes
  <2>4. IdOf(w) \notin disturbed => jobs[w].got = [n \in 1 .. ChunkCount[jobs[w].version] |-> n]
    BY <1>1, <2>1 DEF NInv, ChunksInOrder
  <2> QED
    BY <1>1, <1>2, <2>1, <2>2, <2>3, <2>4, AtItKeepsNInv
<1>5. CASE N!DeleteRowsFails(w)
  <2>1. /\ jobs' = [jobs EXCEPT ![w].at = "add"] /\ disturbed' = disturbed \cup {IdOf(w)}
        /\ UNCHANGED <<texts, model, dimension, removing, rows>>
    BY <1>5 DEF N!DeleteRowsFails, N!Mishap, IdOf
  <2>2. PICK r \in IndexJobs :
          jobs' = [jobs EXCEPT ![w] = r] /\ r.at = "add" /\ r.page = jobs[w].page /\ r.version = jobs[w].version
    BY <2>1, AtFacts
  <2> QED
    BY <1>1, <1>2, <2>1, <2>2, AtItKeepsNInv
<1>6. CASE N!AddRows(w)
  <2>1. /\ rows' = [rows EXCEPT ![IdOf(w)] = rows[IdOf(w)] \o N!RowsOf(jobs[w])]
        /\ jobs' = [jobs EXCEPT ![w].at = "next"] /\ jobs[w].at = "add"
        /\ UNCHANGED <<texts, model, dimension, removing, disturbed>>
    BY <1>6 DEF N!AddRows, IdOf
  <2>2. PICK r \in IndexJobs : jobs' = [jobs EXCEPT ![w] = r] /\ r.at = "next"
    BY <2>1, AtFacts
  <2>3. /\ DOMAIN rows' = DOMAIN rows /\ (\A i \in N!Ids : i # IdOf(w) => rows'[i] = rows[i])
        /\ rows'[IdOf(w)] = rows[IdOf(w)] \o N!RowsOf(jobs[w])
    BY <1>1, <2>1 DEF NInv, IndexTypes
  <2>4. IdOf(w) \notin disturbed' => \E v \in N!Versions : rows'[IdOf(w)] = N!Whole(jobs[w].page, v)
    <3> SUFFICES ASSUME IdOf(w) \notin disturbed
                 PROVE  \E v \in N!Versions : rows'[IdOf(w)] = N!Whole(jobs[w].page, v)
      BY <2>1
    <3>1. rows[IdOf(w)] = <<>>
      BY <1>1, <2>1 DEF NInv, ChunksInOrder
    <3>2. N!RowsOf(jobs[w]) = N!Whole(jobs[w].page, jobs[w].version) /\ jobs[w].version \in N!Versions
      BY <1>1, WholeFacts
    <3>3. PICK whole : whole = N!Whole(jobs[w].page, jobs[w].version)
      OBVIOUS
    <3>4. \E T : whole \in Seq(T)
      <4>1. PICK count \in Nat : count = ChunkCount[jobs[w].version]
        BY <3>2 DEF ChunksHaveSizes, N!Versions
      <4> DEFINE Row(n) == [page |-> jobs[w].page, version |-> jobs[w].version, chunk |-> n]
                 T == {Row(n) : n \in 1 .. count}
      <4>2. whole = [n \in 1 .. count |-> Row(n)]
        BY <3>3, <4>1 DEF N!Whole
      <4>3. \A n \in 1 .. count : Row(n) \in T
        OBVIOUS
      <4> HIDE DEF Row, T
      <4>4. whole \in Seq(T)
        BY <4>1, <4>2, <4>3
      <4> QED
        BY <4>4
    <3>5. <<>> \o whole = whole
      BY <3>4
    <3> QED
      BY <2>3, <3>1, <3>2, <3>3, <3>5
  <2> QED
    BY <1>1, <1>2, <2>1, <2>2, <2>3, <2>4, LeavingKeepsNInv
<1>7. CASE N!AddRowsFails(w)
  <2>1. /\ jobs' = [jobs EXCEPT ![w].at = "next"] /\ disturbed' = disturbed \cup {IdOf(w)}
        /\ UNCHANGED <<texts, model, dimension, removing, rows>>
    BY <1>7 DEF N!AddRowsFails, N!Mishap, IdOf
  <2>2. PICK r \in IndexJobs : jobs' = [jobs EXCEPT ![w] = r] /\ r.at = "next"
    BY <2>1, AtFacts
  <2> QED
    BY <1>1, <1>2, <2>1, <2>2, LeavingKeepsNInv
<1> QED
  BY <1>3, <1>4, <1>5, <1>6, <1>7 DEF N!Write

-----------------------------------------------------------------------------
LEMMA DeletePageKeepsNInv ==
  ASSUME NInv, NEW p \in Pages, N!DeletePage(p)
  PROVE  NInv'
<1>1. /\ texts' = [texts EXCEPT ![p] = 0] /\ removing' = removing \cup {Stem[p]}
      /\ disturbed' = IF N!Busy(Stem[p]) # {} THEN disturbed \cup {Stem[p]} ELSE disturbed
      /\ UNCHANGED <<model, dimension, rows, jobs>>
  BY DEF N!DeletePage
<1>2. Stem[p] \in N!Ids /\ texts \in [Pages -> {0} \cup N!Versions]
  BY DEF N!Ids, NInv, IndexTypes
<1>3. IndexTypes' /\ disturbed \subseteq disturbed'
  BY <1>1, <1>2 DEF NInv, IndexTypes
<1>4. ASSUME NEW w \in N!Writers, Writing(w), IdOf(w) \notin disturbed'
      PROVE  rows'[IdOf(w)] = rows[IdOf(w)] /\ IdOf(w) \notin removing' /\ texts'[jobs[w].page] # 0
  <2>1. IdOf(w) # Stem[p]
    BY <1>1, <1>4 DEF N!Busy, Writing, IdOf
  <2>2. jobs[w].page # p /\ jobs[w].page \in Pages
    BY <2>1 DEF IdOf, NInv, IndexTypes, IndexJobs
  <2> QED
    BY <1>1, <1>2, <1>3, <1>4, <2>1, <2>2 DEF NInv, OneWriterAnId
<1>5. N!RowsAreOfOnePage'
  <2> SUFFICES ASSUME NEW i \in N!Ids \ disturbed', N!Busy(i) = {}, i \notin removing'
               PROVE  \/ rows[i] = <<>>
                      \/ /\ \E q \in Pages, v \in N!Versions : Stem[q] = i /\ rows[i] = N!Whole(q, v)
                         /\ \E q \in Pages : Stem[q] = i /\ texts'[q] # 0
    BY <1>1 DEF N!RowsAreOfOnePage, N!Ids, N!Busy
  <2>1. i \notin removing /\ i # Stem[p] /\ i \notin disturbed
    BY <1>1, <1>3
  <2>2. \A q \in Pages : Stem[q] = i => texts'[q] = texts[q]
    BY <1>1, <1>2, <2>1
  <2> QED
    BY <2>1, <2>2 DEF NInv, N!RowsAreOfOnePage
<1> QED
  BY <1>1, <1>3, <1>4, <1>5, StillKeepsNInv

LEMMA RemovalKeepsNInv ==
  ASSUME NInv, NEW i \in N!Ids, N!DeleteRowsOf(i) \/ N!DeleteRowsOfFails(i)
  PROVE  NInv'
<1>1. i \in removing /\ removing' = removing \ {i} /\ UNCHANGED <<texts, model, dimension, jobs>>
  BY DEF N!DeleteRowsOf, N!DeleteRowsOfFails
<1>2. \/ rows' = [rows EXCEPT ![i] = <<>>] /\ disturbed' = disturbed
      \/ rows' = rows /\ disturbed' = disturbed \cup {i}
  BY DEF N!DeleteRowsOf, N!DeleteRowsOfFails, N!RowsWithout, N!DropRows, N!Mishap
<1>3. IndexTypes' /\ disturbed \subseteq disturbed'
  BY <1>1, <1>2 DEF NInv, IndexTypes
<1>4. \A j \in N!Ids : j # i => rows'[j] = rows[j]
  BY <1>2 DEF NInv, IndexTypes
<1>5. i \notin disturbed' => rows'[i] = <<>>
  BY <1>2 DEF NInv, IndexTypes
<1>6. ASSUME NEW w \in N!Writers, Writing(w), IdOf(w) \notin disturbed'
      PROVE  rows'[IdOf(w)] = rows[IdOf(w)] /\ IdOf(w) \notin removing' /\ texts'[jobs[w].page] # 0
  <2>1. IdOf(w) # i /\ IdOf(w) \in N!Ids
    BY <1>1, <1>3, <1>6 DEF NInv, OneWriterAnId, IdOf, IndexTypes, IndexJobs, N!Ids
  <2> QED
    BY <1>1, <1>3, <1>4, <1>6, <2>1 DEF NInv, OneWriterAnId
<1>7. N!RowsAreOfOnePage'
  <2> SUFFICES ASSUME NEW j \in N!Ids \ disturbed', N!Busy(j) = {}, j \notin removing'
               PROVE  \/ rows'[j] = <<>>
                      \/ /\ \E q \in Pages, v \in N!Versions : Stem[q] = j /\ rows'[j] = N!Whole(q, v)
                         /\ \E q \in Pages : Stem[q] = j /\ texts[q] # 0
    BY <1>1 DEF N!RowsAreOfOnePage, N!Ids, N!Busy
  <2> QED
    BY <1>1, <1>3, <1>4, <1>5 DEF NInv, N!RowsAreOfOnePage
<1> QED
  BY <1>1, <1>3, <1>6, <1>7, StillKeepsNInv

LEMMA NextNInv ==
  ASSUME ChunksHaveSizes, NInv, [N!Next]_(N!vars)
  PROVE  NInv'
<1>1. CASE UNCHANGED N!vars \/ N!ChangeModel
  <2>1. UNCHANGED <<texts, dimension, rows, jobs, removing, disturbed>> /\ model' \in 1 .. 2
    BY <1>1 DEF N!vars, N!ChangeModel, NInv, IndexTypes
  <2>2. IndexTypes' /\ N!RowsAreOfOnePage'
    BY <2>1 DEF NInv, IndexTypes, N!RowsAreOfOnePage, N!Busy
  <2> QED
    BY <2>1, <2>2, StillKeepsNInv DEF NInv, OneWriterAnId
<1> QED
  BY <1>1, IngestKeepsNInv, JobDoneKeepsNInv, TakeKeepsNInv, EmbeddedKeepsNInv, ChunkFailsKeepsNInv,
     TooLongKeepsNInv, WriteKeepsNInv, DeletePageKeepsNInv, RemovalKeepsNInv
  DEF N!Next, N!Step

\* Where no call failed and no two writers met, the rows of a page's id are
\* those of one page as it was at one time, each chunk once and in order, and
\* there are none without a page (embedding.ts, vectorstore.rs): for any pages,
\* stems, versions and numbers of chunks.
THEOREM RowsStayOfOnePage ==
  ASSUME ChunksHaveSizes
  PROVE  N!Spec => [](N!TypeOK /\ N!RowsAreOfOnePage)
<1>1. N!Init => NInv
  BY InitNInv
<1>2. NInv /\ [N!Next]_(N!vars) => NInv'
  BY NextNInv
<1>3. NInv => N!TypeOK /\ N!RowsAreOfOnePage
  BY NInvSuffices
<1> QED
  BY <1>1, <1>2, <1>3, PTL DEF N!Spec

-----------------------------------------------------------------------------
(***************************************************************************)
(* The graph that is kept.                                                 *)
(***************************************************************************)
Counts == [Pages -> Nat]
Building(a) == asker[a].at \in {"asked", "reading"}
GraphTypes ==
  /\ project \in Projects /\ dataVersion \in Nat
  /\ versions \in [Projects -> Counts] /\ noted \in [Projects -> Counts]
  /\ DOMAIN asker = Askers
  /\ \A a \in Askers :
       \/ asker[a] = G!Idle
       \/ asker[a] \in [at : {"asked"}, path : Projects, version : 0 .. dataVersion, floor : Counts]
       \/ /\ asker[a] \in [at : {"reading"}, path : Projects, version : 0 .. dataVersion, floor : Counts,
                           graph : UNION {[Z -> Nat] : Z \in SUBSET Pages}]
       \/ asker[a] \in [at : {"got"}, path : Projects, floor : Counts, of : Projects, graph : Counts]
  /\ cachedGraph = G!Nothing \/ cachedGraph \in [path : Projects, version : 0 .. dataVersion, graph : Counts]

\* Pages only grow: what was announced is there, and what a search waits for too.
AnnouncedIsThere == \A x \in Projects, p \in Pages : noted[x][p] <= versions[x][p]
FloorIsThere ==
  \A a \in Askers : Building(a) =>
    /\ \A p \in Pages : asker[a].floor[p] <= versions[asker[a].path][p]
    /\ asker[a].version = dataVersion => asker[a].floor = noted[asker[a].path]

\* Who asks for one project at one version waits for the same.
Alike(a, b) == asker[a].path = asker[b].path /\ asker[a].version = asker[b].version
OneFloor ==
  \A a, b \in Askers : Building(a) /\ Building(b) /\ Alike(a, b) => asker[a].floor = asker[b].floor

\* A page that was read is at least as it was announced, and so is the graph
\* that is kept, for whoever it serves.
ReadIsCurrent ==
  \A a \in Askers : asker[a].at = "reading" =>
    \A p \in DOMAIN asker[a].graph : asker[a].graph[p] >= asker[a].floor[p]
KeptIsCurrent ==
  cachedGraph # G!Nothing =>
    /\ cachedGraph.version = dataVersion =>
         \A p \in Pages : cachedGraph.graph[p] >= noted[cachedGraph.path][p]
    /\ \A a \in Askers : Building(a) /\ G!Hit(a) =>
         \A p \in Pages : cachedGraph.graph[p] >= asker[a].floor[p]

GInv == /\ GraphTypes /\ AnnouncedIsThere /\ FloorIsThere /\ OneFloor /\ ReadIsCurrent
        /\ KeptIsCurrent /\ G!GraphsAreCurrent

LEMMA InitGInv ==
  ASSUME G!Init
  PROVE  GInv
<1>1. /\ \A a \in Askers : asker[a] = G!Idle /\ asker[a].at = "idle"
      /\ cachedGraph = G!Nothing
      /\ versions \in [Projects -> Counts] /\ \A x \in Projects, p \in Pages : versions[x][p] = 0
  BY DEF G!Init, G!Idle, Counts
<1> QED
  BY <1>1
  DEF G!Init, GInv, GraphTypes, AnnouncedIsThere, FloorIsThere, OneFloor, ReadIsCurrent, KeptIsCurrent,
      G!GraphsAreCurrent, Building

LEMMA WriteKeepsGInv ==
  ASSUME GInv, NEW x \in Projects, NEW p \in Pages, G!Write(x, p)
  PROVE  GInv'
<1>1. /\ versions' \in [Projects -> Counts]
      /\ \A y \in Projects, q \in Pages : versions'[y][q] >= versions[y][q]
  BY DEF G!Write, GInv, GraphTypes, Counts
<1>2. \A y \in Projects, q \in Pages : versions[y][q] \in Nat /\ versions'[y][q] \in Nat /\ noted[y][q] \in Nat
  BY <1>1 DEF GInv, GraphTypes, Counts
<1>3. \A a \in Askers : Building(a) => /\ asker[a].path \in Projects
                                       /\ \A q \in Pages : asker[a].floor[q] \in Nat
  BY DEF GInv, GraphTypes, Counts, Building, G!Idle
<1>4. GraphTypes' /\ OneFloor' /\ ReadIsCurrent' /\ KeptIsCurrent' /\ G!GraphsAreCurrent'
  BY <1>1
  DEF G!Write, GInv, GraphTypes, OneFloor, ReadIsCurrent, KeptIsCurrent, G!GraphsAreCurrent, Building, Alike,
      G!Hit, G!Nothing, G!Idle
<1>5. AnnouncedIsThere'
  BY <1>1, <1>2 DEF G!Write, GInv, AnnouncedIsThere
<1>6. FloorIsThere'
  BY <1>1, <1>2, <1>3 DEF G!Write, GInv, FloorIsThere, Building
<1> QED
  BY <1>4, <1>5, <1>6 DEF GInv

LEMMA BumpKeepsGInv ==
  ASSUME GInv, G!bumpDataVersion
  PROVE  GInv'
<1>1. /\ dataVersion \in Nat /\ dataVersion' = dataVersion + 1 /\ noted' = versions
      /\ UNCHANGED <<project, versions, cachedGraph, asker, switches>>
  BY DEF G!bumpDataVersion, GInv, GraphTypes
<1>2. \A a \in Askers : Building(a) => asker[a].version \in 0 .. dataVersion
  BY DEF GInv, GraphTypes, Building, G!Idle
<1>3. cachedGraph # G!Nothing => cachedGraph.version \in 0 .. dataVersion
  BY DEF GInv, GraphTypes
<1>4. GraphTypes'
  <2>1. 0 .. dataVersion \subseteq 0 .. dataVersion'
    BY <1>1
  <2> QED
    BY <1>1, <2>1 DEF GInv, GraphTypes, G!Idle, G!Nothing
<1>5. AnnouncedIsThere' /\ OneFloor' /\ ReadIsCurrent' /\ G!GraphsAreCurrent'
  <2>1. \A y \in Projects, q \in Pages : versions[y][q] \in Nat
    BY DEF GInv, GraphTypes, Counts
  <2> QED
    BY <1>1, <2>1
    DEF GInv, AnnouncedIsThere, OneFloor, ReadIsCurrent, G!GraphsAreCurrent, Building, Alike
<1>6. FloorIsThere'
  BY <1>1, <1>2 DEF GInv, FloorIsThere, Building
<1>7. KeptIsCurrent'
  BY <1>1, <1>3 DEF GInv, KeptIsCurrent, Building, G!Hit, G!Nothing
<1> QED
  BY <1>4, <1>5, <1>6, <1>7 DEF GInv

LEMMA SwitchKeepsGInv ==
  ASSUME GInv, NEW x \in Projects, G!Switch(x)
  PROVE  GInv'
BY DEF G!Switch, GInv, GraphTypes, AnnouncedIsThere, FloorIsThere, OneFloor, ReadIsCurrent, KeptIsCurrent,
       G!GraphsAreCurrent, Building, Alike, G!Hit, G!Nothing, G!Idle

\* A step of a search that leaves pages, version and what is kept alone.
LEMMA AskerKeepsGInv ==
  ASSUME GInv, NEW a \in Askers, NEW r, asker' = [asker EXCEPT ![a] = r],
         UNCHANGED <<project, versions, dataVersion, cachedGraph, switches, noted>>,
         GraphTypes',
         Building(a)' => /\ \A p \in Pages : r.floor[p] <= versions[r.path][p]
                         /\ r.version = dataVersion => r.floor = noted[r.path]
                         /\ \A b \in Askers \ {a} : Building(b) /\ asker[b].path = r.path
                                                    /\ asker[b].version = r.version
                              => asker[b].floor = r.floor
                         /\ cachedGraph # G!Nothing /\ cachedGraph.version = r.version
                            /\ cachedGraph.path = r.path =>
                              \A p \in Pages : cachedGraph.graph[p] >= r.floor[p],
         r.at = "reading" => \A p \in DOMAIN r.graph : r.graph[p] >= r.floor[p],
         r.at = "got" => r.of = r.path /\ \A p \in Pages : r.graph[p] >= r.floor[p]
  PROVE  GInv'
<1>1. asker'[a] = r /\ \A b \in Askers \ {a} : asker'[b] = asker[b]
  BY DEF GInv, GraphTypes
<1>2. FloorIsThere'
  BY <1>1 DEF GInv, FloorIsThere, Building
<1>3. OneFloor'
  BY <1>1 DEF GInv, OneFloor, Building, Alike
<1>4. ReadIsCurrent' /\ G!GraphsAreCurrent' /\ AnnouncedIsThere'
  BY <1>1 DEF GInv, ReadIsCurrent, G!GraphsAreCurrent, AnnouncedIsThere
<1>5. KeptIsCurrent'
  BY <1>1 DEF GInv, KeptIsCurrent, Building, G!Hit, G!Nothing
<1> QED
  BY <1>2, <1>3, <1>4, <1>5 DEF GInv

LEMMA AskKeepsGInv ==
  ASSUME GInv, NEW a \in Askers, G!Ask(a)
  PROVE  GInv'
<1> DEFINE r == [at |-> "asked", path |-> project, version |-> dataVersion, floor |-> noted[project]]
<1>1. /\ asker' = [asker EXCEPT ![a] = r]
      /\ UNCHANGED <<project, versions, dataVersion, cachedGraph, switches, noted>>
  BY DEF G!Ask
<1>2. r \in [at : {"asked"}, path : Projects, version : 0 .. dataVersion, floor : Counts]
  BY DEF GInv, GraphTypes
<1>3. GraphTypes'
  BY <1>1, <1>2 DEF GInv, GraphTypes, G!Idle, G!Nothing
<1>4. \A p \in Pages : r.floor[p] <= versions[r.path][p]
  BY DEF GInv, GraphTypes, AnnouncedIsThere
<1>5. \A b \in Askers \ {a} : Building(b) /\ asker[b].path = r.path /\ asker[b].version = r.version
                              => asker[b].floor = r.floor
  BY DEF GInv, FloorIsThere
<1>6. cachedGraph # G!Nothing /\ cachedGraph.version = r.version /\ cachedGraph.path = r.path =>
        \A p \in Pages : cachedGraph.graph[p] >= r.floor[p]
  BY DEF GInv, KeptIsCurrent
<1>7. r.at = "asked" /\ (r.version = dataVersion => r.floor = noted[r.path])
  OBVIOUS
<1> HIDE DEF r
<1> QED
  BY <1>1, <1>3, <1>4, <1>5, <1>6, <1>7, AskerKeepsGInv

LEMMA BuildKeepsGInv ==
  ASSUME GInv, NEW a \in Askers, G!Build(a)
  PROVE  GInv'
<1>0. /\ asker[a] \in [at : {"asked"}, path : Projects, version : 0 .. dataVersion, floor : Counts]
      /\ Building(a)
  BY DEF G!Build, GInv, GraphTypes, G!Idle, Building
<1>1. CASE cachedGraph # G!Nothing /\ G!Hit(a)
  <2> DEFINE r == [at |-> "got", floor |-> asker[a].floor, path |-> asker[a].path,
                   graph |-> cachedGraph.graph, of |-> cachedGraph.path]
  <2>1. /\ asker' = [asker EXCEPT ![a] = r]
        /\ UNCHANGED <<project, versions, dataVersion, cachedGraph, switches, noted>>
    BY <1>1 DEF G!Build
  <2>2. /\ r \in [at : {"got"}, path : Projects, floor : Counts, of : Projects, graph : Counts]
        /\ r.of = r.path /\ r.at = "got"
    BY <1>0, <1>1 DEF GInv, GraphTypes, G!Hit
  <2>3. GraphTypes'
    BY <2>1, <2>2 DEF GInv, GraphTypes, G!Idle, G!Nothing
  <2>4. \A p \in Pages : r.graph[p] >= r.floor[p]
    BY <1>0, <1>1 DEF GInv, KeptIsCurrent
  <2>5. ~Building(a)'
    BY <2>1 DEF Building, GInv, GraphTypes
  <2> HIDE DEF r
  <2> QED
    BY <2>1, <2>2, <2>3, <2>4, <2>5, AskerKeepsGInv
<1>2. CASE ~(cachedGraph # G!Nothing /\ G!Hit(a))
  <2> DEFINE r == [at |-> "reading", floor |-> asker[a].floor, path |-> asker[a].path,
                   version |-> asker[a].version, graph |-> <<>>]
  <2>1. /\ asker' = [asker EXCEPT ![a] = r]
        /\ UNCHANGED <<project, versions, dataVersion, cachedGraph, switches, noted>>
    BY <1>2 DEF G!Build
  <2>2. DOMAIN r.graph = {} /\ r.graph \in [{} -> Nat]
    OBVIOUS
  <2>3. r \in [at : {"reading"}, path : Projects, version : 0 .. dataVersion, floor : Counts,
               graph : UNION {[Z -> Nat] : Z \in SUBSET Pages}]
    BY <1>0, <2>2
  <2>4. GraphTypes'
    BY <2>1, <2>3 DEF GInv, GraphTypes, G!Idle, G!Nothing
  <2>5. r.floor = asker[a].floor /\ r.path = asker[a].path /\ r.version = asker[a].version /\ r.at = "reading"
    OBVIOUS
  <2>6. \A p \in Pages : r.floor[p] <= versions[r.path][p]
    BY <1>0, <2>5 DEF GInv, FloorIsThere
  <2>7. r.version = dataVersion => r.floor = noted[r.path]
    BY <1>0, <2>5 DEF GInv, FloorIsThere
  <2>8. \A b \in Askers \ {a} : Building(b) /\ asker[b].path = r.path /\ asker[b].version = r.version
                                => asker[b].floor = r.floor
    BY <1>0, <2>5 DEF GInv, OneFloor, Alike
  <2>9. cachedGraph # G!Nothing /\ cachedGraph.version = r.version /\ cachedGraph.path = r.path => FALSE
    BY <1>2, <2>5 DEF G!Hit
  <2> HIDE DEF r
  <2> QED
    BY <2>1, <2>2, <2>4, <2>5, <2>6, <2>7, <2>8, <2>9, AskerKeepsGInv
<1> QED
  BY <1>1, <1>2

LEMMA ReadPageKeepsGInv ==
  ASSUME GInv, NEW a \in Askers, NEW p \in Pages, G!ReadPage(a, p)
  PROVE  GInv'
<1>0. /\ asker[a] \in [at : {"reading"}, path : Projects, version : 0 .. dataVersion, floor : Counts,
                       graph : UNION {[Z -> Nat] : Z \in SUBSET Pages}]
      /\ Building(a)
  BY DEF G!ReadPage, GInv, GraphTypes, G!Idle, Building
<1> DEFINE g == [q \in DOMAIN asker[a].graph \cup {p} |->
                   IF q = p THEN versions[asker[a].path][p] ELSE asker[a].graph[q]]
           r == [asker[a] EXCEPT !.graph = g]
<1>1. /\ asker' = [asker EXCEPT ![a] = r]
      /\ UNCHANGED <<project, versions, dataVersion, cachedGraph, switches, noted>>
  BY DEF G!ReadPage
<1>2. versions[asker[a].path][p] \in Nat
  BY <1>0 DEF GInv, GraphTypes, Counts
<1>3. g \in UNION {[Z -> Nat] : Z \in SUBSET Pages}
  <2>1. PICK Z \in SUBSET Pages : asker[a].graph \in [Z -> Nat]
    BY <1>0
  <2>2. g \in [Z \cup {p} -> Nat]
    BY <1>2, <2>1
  <2> QED
    BY <2>2
<1>4. \A q \in DOMAIN g : g[q] >= asker[a].floor[q]
  BY <1>0 DEF GInv, ReadIsCurrent, FloorIsThere
<1> HIDE DEF g
<1>5. /\ r \in [at : {"reading"}, path : Projects, version : 0 .. dataVersion, floor : Counts,
                graph : UNION {[Z -> Nat] : Z \in SUBSET Pages}]
      /\ r.floor = asker[a].floor /\ r.path = asker[a].path /\ r.version = asker[a].version
      /\ r.at = "reading" /\ r.graph = g
  BY <1>0, <1>3
<1> HIDE DEF r
<1>6. GraphTypes'
  BY <1>1, <1>5 DEF GInv, GraphTypes, G!Idle, G!Nothing
<1>7. \A q \in Pages : r.floor[q] <= versions[r.path][q]
  BY <1>0, <1>5 DEF GInv, FloorIsThere
<1>8. r.version = dataVersion => r.floor = noted[r.path]
  BY <1>0, <1>5 DEF GInv, FloorIsThere
<1>9. \A b \in Askers \ {a} : Building(b) /\ asker[b].path = r.path /\ asker[b].version = r.version
                              => asker[b].floor = r.floor
  BY <1>0, <1>5 DEF GInv, OneFloor, Alike
<1>10. cachedGraph # G!Nothing /\ cachedGraph.version = r.version /\ cachedGraph.path = r.path =>
         \A q \in Pages : cachedGraph.graph[q] >= r.floor[q]
  BY <1>0, <1>5 DEF GInv, KeptIsCurrent, G!Hit
<1> QED
  BY <1>1, <1>4, <1>5, <1>6, <1>7, <1>8, <1>9, <1>10, AskerKeepsGInv

LEMMA BuiltKeepsGInv ==
  ASSUME GInv, NEW a \in Askers, G!Built(a)
  PROVE  GInv'
<1>0. /\ asker[a] \in [at : {"reading"}, path : Projects, version : 0 .. dataVersion, floor : Counts,
                       graph : UNION {[Z -> Nat] : Z \in SUBSET Pages}]
      /\ Building(a)
  BY DEF G!Built, GInv, GraphTypes, G!Idle, Building
<1> DEFINE g == asker[a].graph
           k == [path |-> asker[a].path, version |-> asker[a].version, graph |-> g]
           r == [at |-> "got", floor |-> asker[a].floor, path |-> asker[a].path, graph |-> g,
                 of |-> asker[a].path]
<1>1. /\ asker' = [asker EXCEPT ![a] = r] /\ cachedGraph' = k
      /\ UNCHANGED <<project, versions, dataVersion, switches, noted>>
  BY DEF G!Built, G!VersionOf
<1>2. g \in Counts
  BY <1>0 DEF G!Built, Counts
<1>3. \A p \in Pages : g[p] >= asker[a].floor[p]
  BY <1>0, <1>2 DEF G!Built, GInv, ReadIsCurrent
<1> HIDE DEF g
<1>4. /\ k \in [path : Projects, version : 0 .. dataVersion, graph : Counts]
      /\ k.path = asker[a].path /\ k.version = asker[a].version /\ k.graph = g
  BY <1>0, <1>2
<1>5. /\ r \in [at : {"got"}, path : Projects, floor : Counts, of : Projects, graph : Counts]
      /\ r.at = "got" /\ r.of = r.path /\ r.floor = asker[a].floor /\ r.graph = g
  BY <1>0, <1>2
<1> HIDE DEF k, r
<1>6. asker'[a] = r /\ \A b \in Askers \ {a} : asker'[b] = asker[b]
  BY <1>1 DEF GInv, GraphTypes
<1>7. GraphTypes'
  BY <1>1, <1>4, <1>5, <1>6 DEF GInv, GraphTypes, G!Idle
<1>8. FloorIsThere' /\ OneFloor' /\ ReadIsCurrent' /\ AnnouncedIsThere'
  BY <1>1, <1>5, <1>6
  DEF GInv, FloorIsThere, OneFloor, ReadIsCurrent, AnnouncedIsThere, Building, Alike
<1>9. G!GraphsAreCurrent'
  BY <1>3, <1>5, <1>6 DEF GInv, G!GraphsAreCurrent
<1>10. KeptIsCurrent'
  <2>1. k.version = dataVersion => \A p \in Pages : k.graph[p] >= noted[k.path][p]
    BY <1>0, <1>3, <1>4 DEF GInv, FloorIsThere
  <2>2. \A b \in Askers \ {a} : Building(b) /\ k.version = asker[b].version /\ k.path = asker[b].path =>
          \A p \in Pages : k.graph[p] >= asker[b].floor[p]
    BY <1>0, <1>3, <1>4 DEF GInv, OneFloor, Alike
  <2> QED
    BY <1>1, <1>5, <1>6, <2>1, <2>2 DEF KeptIsCurrent, Building, G!Hit
<1> QED
  BY <1>7, <1>8, <1>9, <1>10 DEF GInv

LEMMA UseKeepsGInv ==
  ASSUME GInv, NEW a \in Askers, G!Use(a)
  PROVE  GInv'
<1>1. /\ asker' = [asker EXCEPT ![a] = G!Idle] /\ G!Idle.at = "idle"
      /\ UNCHANGED <<project, versions, dataVersion, cachedGraph, switches, noted>>
  BY DEF G!Use, G!Idle
<1>2. GraphTypes'
  BY <1>1 DEF GInv, GraphTypes, G!Nothing, G!Idle
<1>3. ~Building(a)'
  BY <1>1 DEF Building, GInv, GraphTypes
<1> QED
  BY <1>1, <1>2, <1>3, AskerKeepsGInv

LEMMA NextGInv ==
  ASSUME GInv, [G!Next]_(G!vars)
  PROVE  GInv'
<1>1. CASE UNCHANGED G!vars
  BY <1>1
  DEF G!vars, GInv, GraphTypes, AnnouncedIsThere, FloorIsThere, OneFloor, ReadIsCurrent, KeptIsCurrent,
      G!GraphsAreCurrent, Building, Alike, G!Hit, G!Nothing, G!Idle
<1> QED
  BY <1>1, WriteKeepsGInv, BumpKeepsGInv, SwitchKeepsGInv, AskKeepsGInv, BuildKeepsGInv, ReadPageKeepsGInv,
     BuiltKeepsGInv, UseKeepsGInv
  DEF G!Next

\* A search, a chat turn or the graph view gets the graph of its own project,
\* with every page at least as it was at the last bump of dataVersion before it
\* asked, whoever built that graph and whichever build ended first
\* (typed-graph.ts, graph-relevance.ts): for any number of them, of pages and
\* of projects.
THEOREM KeptGraphsAreCurrent == G!Spec => []G!GraphsAreCurrent
<1>1. G!Init => GInv
  BY InitGInv
<1>2. GInv /\ [G!Next]_(G!vars) => GInv'
  BY NextGInv
<1>3. GInv => G!GraphsAreCurrent
  BY DEF GInv
<1> QED
  BY <1>1, <1>2, <1>3, PTL DEF G!Spec

-----------------------------------------------------------------------------
(***************************************************************************)
(* The graph view.                                                         *)
(***************************************************************************)
\* Every link of the load has its edge and every edge comes from a link; two
\* pages have one edge.
LinksAndEdges ==
  /\ \E T : links \in Seq(T)
  /\ \A j \in DOMAIN links : \E k \in DOMAIN edges : {k[1], k[2]} = {links[j].source, links[j].target} /\ links[j].type \in edges[k]
  /\ \A k \in DOMAIN edges : /\ k = <<k[1], k[2]>> /\ k[1] # k[2] /\ <<k[2], k[1]>> \notin DOMAIN edges
                             /\ \E j \in DOMAIN links : {k[1], k[2]} = {links[j].source, links[j].target}

VInv == LinksAndEdges /\ sent \subseteq waved

LEMMA EmptyLoad ==
  ASSUME links = <<>>, edges = <<>>
  PROVE  LinksAndEdges
<1>1. <<>> \in Seq({})
  OBVIOUS
<1> QED
  BY <1>1 DEF LinksAndEdges

LEMMA InitVInv ==
  ASSUME V!Init
  PROVE  VInv
BY EmptyLoad DEF V!Init, VInv

LEMMA SameSizeV == \A Z : V!Cardinality(Z) = Cardinality(Z)
BY DEF V!Cardinality, Cardinality

\* A page with one link or none has one neighbour or none.
LEMMA FewLinksFewNeighbours ==
  ASSUME VInv, NEW n, V!linkCount(n) <= 1
  PROVE  V!Cardinality(V!Neighbours(n)) <= 1
<1> DEFINE at == {j \in DOMAIN links : n \in {links[j].source, links[j].target}}
<1>1. IsFiniteSet(at)
  <2>1. \E T : links \in Seq(T)
    BY DEF VInv, LinksAndEdges
  <2>2. Len(links) \in Nat /\ DOMAIN links = 1 .. Len(links)
    BY <2>1
  <2>3. IsFiniteSet(1 .. Len(links))
    BY <2>2, FS_Interval
  <2> QED
    BY <2>2, <2>3, FS_Subset
<1>2. Cardinality(at) <= 1
  BY SameSizeV DEF V!linkCount
<1>3. ASSUME NEW i \in at, NEW j \in at, i # j PROVE FALSE
  <2> HIDE DEF at
  <2>1. IsFiniteSet({i}) /\ Cardinality({i}) = 1
    BY FS_Singleton
  <2>2. j \notin {i}
    BY <1>3
  <2> DEFINE two == {i} \cup {j}
  <2>3. two \subseteq at
    BY <1>3
  <2>4. Cardinality(two) = Cardinality({i}) + 1
    BY <2>1, <2>2, FS_AddElement
  <2> HIDE DEF two
  <2>5. IsFiniteSet(two) /\ Cardinality(two) <= Cardinality(at)
    BY <1>1, <2>3, FS_Subset
  <2>6. Cardinality(two) = 2
    BY <2>1, <2>4
  <2>7. Cardinality(at) \in Nat
    BY <1>1, FS_CardinalityType
  <2> QED
    BY <1>2, <2>5, <2>6, <2>7
<1>4. ASSUME NEW m \in V!Neighbours(n)
      PROVE  m # n /\ \E j \in at : {m, n} = {links[j].source, links[j].target}
  <2>1. PICK k \in DOMAIN edges : {m, n} = {k[1], k[2]}
    BY <1>4 DEF V!Neighbours
  <2>2. k[1] # k[2] /\ \E j \in DOMAIN links : {k[1], k[2]} = {links[j].source, links[j].target}
    BY DEF VInv, LinksAndEdges
  <2> QED
    BY <2>1, <2>2
<1>5. ASSUME NEW m \in V!Neighbours(n), NEW l \in V!Neighbours(n) PROVE m = l
  <2>1. PICK j \in at : m # n /\ {m, n} = {links[j].source, links[j].target}
    BY <1>4
  <2>2. PICK i \in at : l # n /\ {l, n} = {links[i].source, links[i].target}
    BY <1>4
  <2> QED
    BY <1>3, <2>1, <2>2
<1>6. V!Neighbours(n) = {} \/ \E m : V!Neighbours(n) = {m}
  BY <1>5
<1>7. \A Z : V!Cardinality(Z) = Cardinality(Z)
  BY SameSizeV
<1> DEFINE all == V!Neighbours(n)
<1>8. all = {} \/ \E m : all = {m}
  BY <1>6
<1> HIDE DEF all
<1>9. Cardinality(all) <= 1
  <2>1. Cardinality({}) = 0 /\ \A m : Cardinality({m}) = 1
    BY FS_EmptySet, FS_Singleton
  <2>2. Cardinality(all) = 0 \/ Cardinality(all) = 1
    BY <1>8, <2>1
  <2> QED
    BY <2>2
<1> QED
  BY <1>7, <1>9 DEF all

LEMMA VInvSuffices ==
  ASSUME VInv
  PROVE  V!OneEdgePerPair
<1>1. \A k \in DOMAIN edges : <<k[2], k[1]>> \notin DOMAIN edges
  BY DEF VInv, LinksAndEdges
<1>2. \A e \in V!Range(links) : \E k \in DOMAIN edges : {k[1], k[2]} = {e.source, e.target} /\ e.type \in edges[k]
  BY DEF VInv, LinksAndEdges, V!Range
<1>3. \A n \in V!Isolated : V!Cardinality(V!Neighbours(n)) <= 1
  BY FewLinksFewNeighbours DEF V!Isolated
<1>4. \A k \in V!Connections : {k[1], k[2]} \notin sent
  BY DEF VInv, V!Connections, V!InsightKey
<1> QED
  BY <1>1, <1>2, <1>3, <1>4 DEF V!OneEdgePerPair

LEMMA LinkKeepsVInv ==
  ASSUME VInv, NEW m \in Nodes, NEW n \in Nodes, NEW type, V!Link(m, n, type)
  PROVE  VInv'
<1> DEFINE key == V!KeyOf(m, n)
           new == [source |-> m, target |-> n, type |-> type]
<1>1. /\ m # n /\ links' = Append(links, new) /\ UNCHANGED <<waved, sent>>
      /\ edges' = [k \in DOMAIN edges \cup {key} |->
           (IF k \in DOMAIN edges THEN edges[k] ELSE {}) \cup IF k = key THEN {type} ELSE {}]
  BY DEF V!Link
<1>2. /\ key = <<key[1], key[2]>> /\ {key[1], key[2]} = {m, n} /\ key[1] # key[2]
      /\ <<key[2], key[1]>> \notin DOMAIN edges
  <2>1. CASE <<n, m>> \in DOMAIN edges
    <3>1. key = <<n, m>> /\ <<m, n>> \notin DOMAIN edges
      BY <2>1 DEF V!KeyOf, VInv, LinksAndEdges
    <3> QED
      BY <1>1, <3>1
  <2>2. CASE <<n, m>> \notin DOMAIN edges
    <3>1. key = <<m, n>>
      BY <2>2 DEF V!KeyOf
    <3> QED
      BY <1>1, <2>2, <3>1
  <2> QED
    BY <2>1, <2>2
<1>3. new.source = m /\ new.target = n /\ new.type = type
  OBVIOUS
<1>4. PICK T : links \in Seq(T)
  BY DEF VInv, LinksAndEdges
<1>5. /\ Len(links) \in Nat /\ DOMAIN links = 1 .. Len(links) /\ links' \in Seq(T \cup {new})
      /\ DOMAIN links' = 1 .. Len(links) + 1 /\ links'[Len(links) + 1] = new
      /\ \A j \in DOMAIN links : links'[j] = links[j]
  BY <1>1, <1>4
<1> HIDE DEF key, new
<1>6. DOMAIN edges' = DOMAIN edges \cup {key} /\ type \in edges'[key] /\ \A k \in DOMAIN edges : edges[k] \subseteq edges'[k]
  BY <1>1
<1>7. \A j \in DOMAIN links' : j = Len(links) + 1 \/ j \in DOMAIN links
  BY <1>5
<1>8. \A j \in DOMAIN links' : \E k \in DOMAIN edges' : {k[1], k[2]} = {links'[j].source, links'[j].target} /\ links'[j].type \in edges'[k]
  <2>1. ASSUME NEW j \in DOMAIN links' PROVE \E k \in DOMAIN edges' : {k[1], k[2]} = {links'[j].source, links'[j].target} /\ links'[j].type \in edges'[k]
    <3>1. CASE j = Len(links) + 1
      <4>1. links'[j].source = m /\ links'[j].target = n /\ links'[j].type = type
        BY <1>3, <1>5, <3>1
      <4> QED
        BY <1>2, <1>6, <4>1
    <3>2. CASE j \in DOMAIN links
      <4>1. PICK k \in DOMAIN edges : {k[1], k[2]} = {links[j].source, links[j].target} /\ links[j].type \in edges[k]
        BY <3>2 DEF VInv, LinksAndEdges
      <4> QED
        BY <1>5, <1>6, <3>2, <4>1
    <3> QED
      BY <1>7, <3>1, <3>2
  <2> QED
    BY <2>1
<1>9. \A k \in DOMAIN edges' : \E j \in DOMAIN links' : {k[1], k[2]} = {links'[j].source, links'[j].target}
  <2>1. ASSUME NEW k \in DOMAIN edges' PROVE \E j \in DOMAIN links' : {k[1], k[2]} = {links'[j].source, links'[j].target}
    <3>1. CASE k = key
      <4>1. Len(links) + 1 \in DOMAIN links'
        BY <1>5
      <4> QED
        BY <1>2, <1>3, <1>5, <3>1, <4>1
    <3>2. CASE k \in DOMAIN edges
      <4>1. PICK j \in DOMAIN links : {k[1], k[2]} = {links[j].source, links[j].target}
        BY <3>2 DEF VInv, LinksAndEdges
      <4>2. j \in DOMAIN links' /\ links'[j] = links[j]
        BY <1>5
      <4> QED
        BY <4>1, <4>2
    <3> QED
      BY <1>6, <3>1, <3>2
  <2> QED
    BY <2>1
<1>10. \A k \in DOMAIN edges' : k = <<k[1], k[2]>> /\ k[1] # k[2] /\ <<k[2], k[1]>> \notin DOMAIN edges'
  <2>1. ASSUME NEW k \in DOMAIN edges' PROVE k = <<k[1], k[2]>> /\ k[1] # k[2]
    <3>1. CASE k = key
      BY <1>2, <3>1
    <3>2. CASE k \in DOMAIN edges
      BY <3>2 DEF VInv, LinksAndEdges
    <3> QED
      BY <1>6, <3>1, <3>2
  <2>2. ASSUME NEW k \in DOMAIN edges', <<k[2], k[1]>> = key PROVE FALSE
    <3>1. k[2] = key[1] /\ k[1] = key[2]
      BY <2>2
    <3>2. k = <<key[2], key[1]>>
      BY <2>1, <3>1
    <3>3. CASE k = key
      BY <1>1, <1>2, <3>1, <3>3
    <3> QED
      BY <1>2, <1>6, <3>2, <3>3
  <2>3. ASSUME NEW k \in DOMAIN edges', <<k[2], k[1]>> \in DOMAIN edges PROVE FALSE
    <3>1. CASE k = key
      BY <1>2, <2>3, <3>1
    <3>2. CASE k \in DOMAIN edges
      BY <2>3, <3>2 DEF VInv, LinksAndEdges
    <3> QED
      BY <1>6, <3>1, <3>2
  <2> QED
    BY <1>6, <2>1, <2>2, <2>3
<1> QED
  BY <1>1, <1>5, <1>8, <1>9, <1>10 DEF VInv, LinksAndEdges

LEMMA NextVInv ==
  ASSUME VInv, [V!Next]_(V!vars)
  PROVE  VInv'
<1>1. CASE \E m, n \in Nodes, t \in Types : V!Link(m, n, t)
  BY <1>1, LinkKeepsVInv
<1>2. CASE V!Load
  <2>1. links' = <<>> /\ edges' = <<>> /\ UNCHANGED <<waved, sent>>
    BY <1>2 DEF V!Load
  <2>2. <<>> \in Seq({})
    OBVIOUS
  <2>3. LinksAndEdges'
    BY <2>1, <2>2 DEF LinksAndEdges
  <2> QED
    BY <2>1, <2>3 DEF VInv
<1>3. CASE \E k \in V!Connections : V!Dismiss(k)
  <2>1. UNCHANGED <<links, edges>> /\ sent' \subseteq waved'
    BY <1>3 DEF V!Dismiss, V!InsightKey, VInv
  <2> QED
    BY <2>1 DEF VInv, LinksAndEdges
<1>4. CASE UNCHANGED <<links, edges, waved, sent>>
  BY <1>4 DEF VInv, LinksAndEdges
<1>5. ASSUME \/ UNCHANGED V!vars \/ V!resetFilters
             \/ \E f \in V!Communities : V!Show(f)
             \/ \E ids \in V!Gaps \cup {{k[1], k[2]} : k \in V!Connections} : V!Highlight(ids)
             \/ \E n \in Nodes : V!Hide(n)
      PROVE  UNCHANGED <<links, edges, waved, sent>>
  BY <1>5 DEF V!vars, V!resetFilters, V!Show, V!Highlight, V!Hide
<1> QED
  BY <1>1, <1>2, <1>3, <1>4, <1>5 DEF V!Next

\* Two pages have one edge with every type of link between them, a page told to
\* be isolated has one neighbour at most, and an insight dismissed does not come
\* back (wiki-graph.ts, graph-insights.ts): for any pages, links and loads.
THEOREM GraphsHaveOneEdgePerPair == V!Spec => []V!OneEdgePerPair
<1>1. V!Init => VInv
  BY InitVInv
<1>2. VInv /\ [V!Next]_(V!vars) => VInv'
  BY NextVInv
<1>3. VInv => V!OneEdgePerPair
  BY VInvSuffices
<1> QED
  BY <1>1, <1>2, <1>3, PTL DEF V!Spec

-----------------------------------------------------------------------------
(***************************************************************************)
(* The images.                                                             *)
(***************************************************************************)
DocumentsHaveSlots == \E T : Slots \in [Docs -> Seq(T)]

LEMMA SameSize == \A Z : I!Cardinality(Z) = Cardinality(Z)
BY DEF I!Cardinality, Cardinality

\* The place of a number among those of a set.
Place(Z, u) == Cardinality({v \in Z : v <= u})

LEMMA PlaceFacts ==
  ASSUME NEW Z \in SUBSET Nat, IsFiniteSet(Z)
  PROVE  /\ Cardinality(Z) \in Nat
         /\ \A u \in Z : Place(Z, u) \in 1 .. Cardinality(Z)
         /\ \A u, v \in Z : Place(Z, u) = Place(Z, v) => u = v
         /\ \A n \in 1 .. Cardinality(Z) : \E u \in Z : Place(Z, u) = n
<1>1. Cardinality(Z) \in Nat
  BY FS_CardinalityType
<1> DEFINE Below(u) == {v \in Z : v <= u}
<1>2. ASSUME NEW u PROVE IsFiniteSet(Below(u)) /\ Cardinality(Below(u)) \in Nat /\ Cardinality(Below(u)) <= Cardinality(Z)
  <2>1. Below(u) \in SUBSET Z
    OBVIOUS
  <2> HIDE DEF Below
  <2> QED
    BY <2>1, FS_Subset, FS_CardinalityType
<1>3. ASSUME NEW u \in Z PROVE Cardinality(Below(u)) # 0
  <2>1. u \in Below(u)
    OBVIOUS
  <2> HIDE DEF Below
  <2> QED
    BY <1>2, <2>1, FS_EmptySet
<1>4. ASSUME NEW u \in Z, NEW v \in Z, u < v PROVE Cardinality(Below(u)) # Cardinality(Below(v))
  <2>1. Below(u) \in SUBSET Below(v) /\ v \in Below(v) /\ v \notin Below(u)
    <3>1. u \in Nat /\ v \in Nat
      OBVIOUS
    <3>2. \A x \in Z : x <= u => x <= v
      BY <1>4, <3>1
    <3>3. v <= v /\ ~(v <= u)
      BY <1>4, <3>1
    <3>4. Below(u) \subseteq Below(v)
      BY <3>2
    <3>5. v \in Below(v) /\ v \notin Below(u)
      BY <3>3
    <3> QED
      BY <3>4, <3>5
  <2> HIDE DEF Below
  <2> QED
    BY <1>2, <2>1, FS_Subset
<1>5. \A u : Place(Z, u) = Cardinality(Below(u))
  BY DEF Place
<1> HIDE DEF Below
<1>6. \A u \in Z : Place(Z, u) \in 1 .. Cardinality(Z)
  BY <1>1, <1>2, <1>3, <1>5
<1>7. ASSUME NEW u \in Z, NEW v \in Z, Place(Z, u) = Place(Z, v) PROVE u = v
  <2>1. u < v \/ v < u \/ u = v
    OBVIOUS
  <2> QED
    BY <1>4, <1>5, <1>7, <2>1
<1>8. \A n \in 1 .. Cardinality(Z) : \E u \in Z : Place(Z, u) = n
  <2> DEFINE T == 1 .. Cardinality(Z)
             f == [u \in Z |-> Place(Z, u)]
  <2>1. f \in [Z -> T]
    BY <1>6
  <2>2. f \in Injection(Z, T)
    BY <1>7, <2>1 DEF Injection, IsInjective
  <2>3. IsFiniteSet(T) /\ Cardinality(T) = Cardinality(Z)
    BY <1>1, FS_Interval
  <2>4. f \in Surjection(Z, T)
    BY <2>2, <2>3, FS_Injection
  <2> QED
    BY <2>4 DEF Surjection
<1> QED
  BY <1>1, <1>6, <1>7, <1>8

-----------------------------------------------------------------------------
\* The number an image is saved under says which image it is.
Number(d, j) == Place(I!Usable(d), j)
IsImage(d, n, hash) == \E j \in I!Usable(d) : Number(d, j) = n /\ hash = Slots[d][j]
IsReference(d, r) == r.slot \in I!Usable(d) /\ r.number = Number(d, r.slot) /\ r.number \in Nat

LEMMA UsableFacts ==
  ASSUME DocumentsHaveSlots, NEW d \in Docs
  PROVE  I!Usable(d) \in SUBSET Nat /\ IsFiniteSet(I!Usable(d))
<1>1. Len(Slots[d]) \in Nat /\ DOMAIN Slots[d] = 1 .. Len(Slots[d])
  BY DEF DocumentsHaveSlots
<1>2. IsFiniteSet(1 .. Len(Slots[d]))
  BY <1>1, FS_Interval
<1>3. I!Usable(d) \in SUBSET (1 .. Len(Slots[d]))
  BY <1>1 DEF I!Usable
<1> QED
  BY <1>1, <1>2, <1>3, FS_Subset

LEMMA NumbersTell ==
  ASSUME DocumentsHaveSlots, NEW d \in Docs, NEW r, IsReference(d, r), NEW hash, IsImage(d, r.number, hash)
  PROVE  hash = Slots[d][r.slot]
BY UsableFacts, PlaceFacts DEF IsReference, IsImage, Number

LEMMA ReferenceFacts ==
  ASSUME DocumentsHaveSlots, NEW d \in Docs, NEW unsaved
  PROVE  \A r \in I!References(d, unsaved) : IsReference(d, r)
<1>1. ASSUME NEW r \in I!References(d, unsaved) PROVE IsReference(d, r)
  <2>1. PICK j \in I!Reached(d, unsaved) : r = [number |-> I!NumberOf(d, j, unsaved), slot |-> j] /\ r.number \in Nat
    BY DEF I!References
  <2>2. j \in I!Usable(d)
    BY DEF I!Reached
  <2>3. I!NumberOf(d, j, unsaved) = Number(d, j)
    BY SameSize DEF I!NumberOf, Number, Place
  <2> QED
    BY <2>1, <2>2, <2>3 DEF IsReference
<1> QED
  BY <1>1

NumbersOf(refs) == {r.number : r \in refs}

LEMMA UrlFacts ==
  ASSUME DocumentsHaveSlots, NEW d \in Docs, NEW refs, \A r \in refs : IsReference(d, r)
  PROVE  NumbersOf(refs) \in SUBSET Nat /\ IsFiniteSet(NumbersOf(refs))
<1> DEFINE most == Cardinality(I!Usable(d))
<1>1. most \in Nat
  BY UsableFacts, PlaceFacts
<1>2. NumbersOf(refs) \in SUBSET (1 .. most)
  BY UsableFacts, PlaceFacts DEF IsReference, Number, NumbersOf
<1> HIDE DEF most
<1>3. IsFiniteSet(1 .. most)
  BY <1>1, FS_Interval
<1> QED
  BY <1>1, <1>2, <1>3, FS_Subset

-----------------------------------------------------------------------------
\* Every file holds the image of its number, every reference, list and caption
\* is of the image it names.
AreReferences(d, refs) == \A r \in refs : IsReference(d, r)
IsSection(d, list) == \A e \in list : IsReference(d, e) /\ (e.alt # I!Nothing => e.alt.of = Slots[d][e.slot])
FilesAreRight ==
  /\ DOMAIN media = Docs /\ \A d \in Docs : \A n \in DOMAIN media[d] : IsImage(d, n, media[d][n])
  /\ DOMAIN textCache = Docs /\ \A d \in Docs : textCache[d] # I!Nothing => AreReferences(d, textCache[d].refs)
CaptionsAreRight(cache) == \A hash \in DOMAIN cache : cache[hash].of = hash
PagesAreRight ==
  DOMAIN document = Docs /\ \A d \in Docs : document[d] = <<>> \/ \E list : document[d] = <<list>> /\ IsSection(d, list)

\* The pool: what was taken is at work, captioned or failed, no number twice.
Urls(r) == NumbersOf(r.refs)
PoolIsRight(r) ==
  /\ CaptionsAreRight(r.cache) /\ IsFiniteSet(r.work)
  /\ r.next \in 1 .. Cardinality(Urls(r)) + 1
  /\ \A w \in r.work :
       /\ "number" \in DOMAIN w /\ w.number \in Urls(r) /\ w.number \notin DOMAIN r.got /\ Place(Urls(r), w.number) < r.next
       /\ "hash" \in DOMAIN w => IsImage(r.doc, w.number, w.hash)
  /\ \A v, w \in r.work : v.number = w.number => v = w
  /\ \A n \in DOMAIN r.got : Place(Urls(r), n) < r.next
  /\ r.failed + Cardinality(r.work) + Cardinality(DOMAIN r.got) = r.next - 1
RunFields == {"at", "doc", "refs", "hit", "saved", "cache", "next", "work", "got", "fresh", "cached", "failed", "aborted"}
IsRun(r) ==
  /\ RunFields \subseteq DOMAIN r
  /\ r.doc \in Docs /\ AreReferences(r.doc, r.refs) /\ AreReferences(r.doc, r.saved)
  /\ r.fresh \in Nat /\ r.cached \in Nat /\ r.failed \in Nat /\ r.aborted \in BOOLEAN
  /\ IsFiniteSet(DOMAIN r.got) /\ r.fresh + r.cached = Cardinality(DOMAIN r.got)
  /\ \A n \in DOMAIN r.got : n \in Urls(r) /\ IsImage(r.doc, n, r.got[n].of)
  /\ r.at \in {"read", "extracted"} => r.next = 1 /\ r.work = {} /\ DOMAIN r.got = {} /\ r.failed = 0
  /\ r.at = "captioning" => PoolIsRight(r)
  /\ r.at = "captioned" /\ ~r.aborted /\ Urls(r) # {} => r.failed = Cardinality(Urls(r) \ DOMAIN r.got)
RunsAreRight == DOMAIN run = Ingests /\ \A i \in Ingests : run[i] = I!Waiting \/ IsRun(run[i])

IInv == FilesAreRight /\ CaptionsAreRight(captionCache) /\ PagesAreRight /\ RunsAreRight

LEMMA InitIInv ==
  ASSUME I!Init
  PROVE  IInv
BY DEF I!Init, IInv, FilesAreRight, CaptionsAreRight, PagesAreRight, RunsAreRight, I!Nothing

LEMMA IInvSuffices ==
  ASSUME DocumentsHaveSlots, IInv
  PROVE  I!ImagesAreInPlace /\ I!ThePoolIsThorough
<1>1. ASSUME NEW d \in Docs, NEW r, IsReference(d, r) PROVE I!Holds(d, r)
  BY <1>1, NumbersTell DEF I!Holds, IInv, FilesAreRight
<1>2. ASSUME NEW d \in Docs
      PROVE  /\ Len(document[d]) <= 1
             /\ \A list \in I!Range(document[d]) : IsSection(d, list)
  <2>1. CASE document[d] = <<>>
    BY <2>1 DEF I!Range
  <2>2. ASSUME NEW list, document[d] = <<list>>, IsSection(d, list)
        PROVE  Len(document[d]) <= 1 /\ \A x \in I!Range(document[d]) : IsSection(d, x)
    BY <2>2 DEF I!Range
  <2> QED
    BY <2>1, <2>2 DEF IInv, PagesAreRight
<1>3. ASSUME NEW i \in Ingests, run[i] # I!Waiting, NEW r \in run[i].refs
      PROVE  /\ I!Holds(run[i].doc, r)
             /\ r.number \in DOMAIN run[i].got => run[i].got[r.number].of = Slots[run[i].doc][r.slot]
  <2>1. IsRun(run[i])
    BY <1>3 DEF IInv, RunsAreRight
  <2>2. run[i].doc \in Docs /\ IsReference(run[i].doc, r)
    BY <1>3, <2>1 DEF IsRun, AreReferences
  <2>3. r.number \in DOMAIN run[i].got => IsImage(run[i].doc, r.number, run[i].got[r.number].of)
    BY <2>1 DEF IsRun
  <2> QED
    BY <1>1, <2>2, <2>3, NumbersTell
<1>4. I!ImagesAreInPlace
  <2>1. \A d \in Docs : textCache[d] # I!Nothing => \A r \in textCache[d].refs : I!Holds(d, r)
    BY <1>1 DEF IInv, FilesAreRight, AreReferences
  <2>2. \A d \in Docs : \A list \in I!Range(document[d]) : \A r \in list : I!Holds(d, r) /\ (r.alt # I!Nothing => r.alt.of = Slots[d][r.slot])
    BY <1>1, <1>2 DEF IsSection
  <2> QED
    BY <1>2, <1>3, <2>1, <2>2 DEF I!ImagesAreInPlace
<1>5. ASSUME NEW i \in Ingests, run[i] # I!Waiting
      PROVE  /\ run[i].fresh + run[i].cached = I!Cardinality(DOMAIN run[i].got)
             /\ run[i].at = "captioned" /\ ~run[i].aborted /\ I!Urls(i) # {} =>
                  run[i].failed = I!Cardinality(I!Urls(i) \ DOMAIN run[i].got)
  <2>1. IsRun(run[i]) /\ I!Urls(i) = Urls(run[i])
    BY <1>5 DEF IInv, RunsAreRight, I!Urls, Urls, NumbersOf
  <2> QED
    BY <2>1, SameSize DEF IsRun
<1> QED
  BY <1>4, <1>5 DEF I!ThePoolIsThorough

-----------------------------------------------------------------------------
LEMMA SavedFacts ==
  ASSUME DocumentsHaveSlots, FilesAreRight, NEW d \in Docs, NEW unsaved
  PROVE  \A n \in DOMAIN I!Saved(d, unsaved) : IsImage(d, n, I!Saved(d, unsaved)[n])
<1> DEFINE refs == I!References(d, unsaved)
           fresh(n) == {r \in refs : r.number = n}
           all == {r.number : r \in refs} \cup DOMAIN media[d]
           saved == [n \in all |-> IF fresh(n) = {} THEN media[d][n] ELSE Slots[d][(CHOOSE r \in fresh(n) : TRUE).slot]]
<1>1. I!Saved(d, unsaved) = saved
  BY DEF I!Saved
<1>2. \A r \in refs : IsReference(d, r)
  BY ReferenceFacts
<1> HIDE DEF refs
<1>3. ASSUME NEW n \in all PROVE IsImage(d, n, saved[n])
  <2>1. CASE fresh(n) = {}
    <3>1. n \in DOMAIN media[d] /\ saved[n] = media[d][n]
      BY <1>3, <2>1
    <3> QED
      BY <3>1 DEF FilesAreRight
  <2>2. CASE fresh(n) # {}
    <3>1. PICK r \in fresh(n) : saved[n] = Slots[d][r.slot]
      BY <1>3, <2>2
    <3>2. r.number = n /\ IsReference(d, r)
      BY <1>2
    <3> QED
      BY <3>1, <3>2 DEF IsImage, IsReference
  <2> QED
    BY <2>1, <2>2
<1>4. DOMAIN saved = all
  OBVIOUS
<1> QED
  BY <1>1, <1>3, <1>4

\* What a step leaves alone, or writes, stays right.
LEMMA FilesStayRight ==
  ASSUME DocumentsHaveSlots, FilesAreRight,
         \/ UNCHANGED media
         \/ \E d \in Docs : \E unsaved : media' = [media EXCEPT ![d] = I!Saved(d, unsaved)],
         \/ UNCHANGED textCache
         \/ \E d \in Docs : \E unsaved : textCache' = [textCache EXCEPT ![d] = [refs |-> I!References(d, unsaved)]]
  PROVE  FilesAreRight'
<1>1. DOMAIN media' = Docs /\ \A d \in Docs : \A n \in DOMAIN media'[d] : IsImage(d, n, media'[d][n])
  <2>1. CASE UNCHANGED media
    BY <2>1 DEF FilesAreRight
  <2>2. CASE \E d \in Docs : \E unsaved : media' = [media EXCEPT ![d] = I!Saved(d, unsaved)]
    <3> PICK d \in Docs : \E unsaved : media' = [media EXCEPT ![d] = I!Saved(d, unsaved)]
      BY <2>2
    <3>1. PICK unsaved : media' = [media EXCEPT ![d] = I!Saved(d, unsaved)]
      OBVIOUS
    <3>2. /\ DOMAIN media' = Docs /\ media'[d] = I!Saved(d, unsaved)
          /\ \A e \in Docs : e # d => media'[e] = media[e]
      BY <3>1 DEF FilesAreRight
    <3>3. ASSUME NEW e \in Docs, NEW n \in DOMAIN media'[e] PROVE IsImage(e, n, media'[e][n])
      <4>1. CASE e = d
        BY <3>2, <3>3, <4>1, SavedFacts
      <4>2. CASE e # d
        BY <3>2, <3>3, <4>2 DEF FilesAreRight
      <4> QED
        BY <4>1, <4>2
    <3> QED
      BY <3>2, <3>3
  <2> QED
    BY <2>1, <2>2
<1>2. DOMAIN textCache' = Docs /\ \A d \in Docs : textCache'[d] # I!Nothing => AreReferences(d, textCache'[d].refs)
  <2>1. CASE UNCHANGED textCache
    BY <2>1 DEF FilesAreRight
  <2>2. CASE \E d \in Docs : \E unsaved : textCache' = [textCache EXCEPT ![d] = [refs |-> I!References(d, unsaved)]]
    <3> PICK d \in Docs : \E unsaved : textCache' = [textCache EXCEPT ![d] = [refs |-> I!References(d, unsaved)]]
      BY <2>2
    <3>1. PICK unsaved : textCache' = [textCache EXCEPT ![d] = [refs |-> I!References(d, unsaved)]]
      OBVIOUS
    <3>2. /\ DOMAIN textCache' = Docs /\ textCache'[d].refs = I!References(d, unsaved)
          /\ \A e \in Docs : e # d => textCache'[e] = textCache[e]
      BY <3>1 DEF FilesAreRight
    <3>3. AreReferences(d, I!References(d, unsaved))
      BY ReferenceFacts DEF AreReferences
    <3> QED
      BY <3>2, <3>3 DEF FilesAreRight
  <2> QED
    BY <2>1, <2>2
<1> QED
  BY <1>1, <1>2 DEF FilesAreRight, I!Nothing

LEMMA RunsStayRight ==
  ASSUME RunsAreRight, NEW i \in Ingests, NEW new, I!Becomes(i, new), IsRun(new)
  PROVE  RunsAreRight'
<1>1. run' = [run EXCEPT ![i] = new] /\ DOMAIN run = Ingests
  BY DEF I!Becomes, RunsAreRight
<1>2. DOMAIN run' = Ingests /\ run'[i] = new /\ \A j \in Ingests : j # i => run'[j] = run[j]
  BY <1>1
<1>3. \A j \in Ingests : run'[j] = I!Waiting \/ IsRun(run'[j])
  BY <1>2 DEF RunsAreRight
<1> QED
  BY <1>2, <1>3 DEF RunsAreRight, I!Waiting

LEMMA WaitingIsAt == I!Waiting.at = "waiting"
BY DEF I!Waiting

-----------------------------------------------------------------------------
LEMMA PreviewKeepsIInv ==
  ASSUME DocumentsHaveSlots, IInv, NEW d \in Docs, NEW unsaved, NEW keep \in BOOLEAN, I!Preview(d, unsaved, keep)
  PROVE  IInv'
<1>1. FilesAreRight'
  BY FilesStayRight DEF I!Preview, I!ReadAfresh, IInv
<1> QED
  BY <1>1 DEF I!Preview, IInv, CaptionsAreRight, PagesAreRight, RunsAreRight, I!Waiting

LEMMA BegunRunFacts ==
  ASSUME NEW d \in Docs, NEW refs, NEW hit, AreReferences(d, refs)
  PROVE  IsRun(I!Begun(d, refs, hit))
<1> DEFINE new == I!Begun(d, refs, hit)
<1>1. /\ DOMAIN new = RunFields
      /\ new.at = "read" /\ new.doc = d /\ new.refs = refs /\ new.saved = {} /\ new.next = 1 /\ new.work = {}
      /\ DOMAIN new.got = {} /\ new.fresh = 0 /\ new.cached = 0 /\ new.failed = 0 /\ new.aborted = FALSE
  BY DEF I!Begun, RunFields
<1> HIDE DEF new
<1>2. IsFiniteSet({}) /\ Cardinality({}) = 0
  BY FS_EmptySet
<1>3. IsFiniteSet(DOMAIN new.got) /\ new.fresh + new.cached = Cardinality(DOMAIN new.got)
  BY <1>1, <1>2
<1>4. AreReferences(new.doc, new.refs) /\ AreReferences(new.doc, new.saved)
  BY <1>1 DEF AreReferences
<1>5. new.aborted \in BOOLEAN
  BY <1>1
<1>6. new.fresh \in Nat /\ new.cached \in Nat /\ new.failed \in Nat
  BY <1>1
<1>7. new.at # "captioning" /\ new.at # "captioned"
  BY <1>1
<1>8. RunFields \subseteq DOMAIN new /\ new.doc \in Docs /\ \A n : n \notin DOMAIN new.got
  BY <1>1
<1>9. IsRun(new)
  BY <1>1, <1>3, <1>4, <1>5, <1>6, <1>7, <1>8 DEF IsRun
<1> QED
  BY <1>9 DEF new

LEMMA StartKeepsIInv ==
  ASSUME DocumentsHaveSlots, IInv, NEW i \in Ingests, NEW d \in Docs, NEW hit, NEW unsaved, I!Start(i, d, hit, unsaved)
  PROVE  IInv'
<1>1. UNCHANGED <<textCache, captionCache, document>>
  BY DEF I!Start
<1>2. FilesAreRight'
  BY <1>1, FilesStayRight DEF I!Start, I!ReadAfresh, IInv
<1>3. CASE textCache[d] # I!Nothing
  <2>1. I!Becomes(i, I!Begun(d, textCache[d].refs, hit)) /\ AreReferences(d, textCache[d].refs)
    BY <1>3 DEF I!Start, IInv, FilesAreRight
  <2>2. RunsAreRight'
    BY <2>1, BegunRunFacts, RunsStayRight DEF IInv
  <2> QED
    BY <1>1, <1>2, <2>2 DEF IInv, CaptionsAreRight, PagesAreRight
<1>4. CASE textCache[d] = I!Nothing
  <2>1. I!Becomes(i, I!Begun(d, I!References(d, unsaved), hit)) /\ AreReferences(d, I!References(d, unsaved))
    BY <1>4, ReferenceFacts DEF I!Start, AreReferences
  <2>2. RunsAreRight'
    BY <2>1, BegunRunFacts, RunsStayRight DEF IInv
  <2> QED
    BY <1>1, <1>2, <2>2 DEF IInv, CaptionsAreRight, PagesAreRight
<1> QED
  BY <1>3, <1>4

\* A step of one ingest that leaves the files, captions and pages alone.
LEMMA StepOfRun ==
  ASSUME IInv, NEW i \in Ingests, NEW new, I!Becomes(i, new), IsRun(new), UNCHANGED <<media, textCache, captionCache, document>>
  PROVE  IInv'
<1>1. RunsAreRight'
  BY RunsStayRight DEF IInv
<1> QED
  BY <1>1 DEF IInv, FilesAreRight, CaptionsAreRight, PagesAreRight, I!Nothing

LEMMA AbortKeepsIInv ==
  ASSUME IInv, NEW i \in Ingests, I!Abort(i)
  PROVE  IInv'
<1> DEFINE new == [run[i] EXCEPT !.aborted = TRUE]
<1>1. I!Becomes(i, new) /\ run[i].at # "waiting" /\ UNCHANGED <<media, textCache, captionCache, document>>
  BY DEF I!Abort
<1>2. IsRun(run[i])
  BY <1>1, WaitingIsAt DEF IInv, RunsAreRight
<1>3. IsRun(new)
  <2>1. /\ DOMAIN new = DOMAIN run[i] /\ new.aborted = TRUE
        /\ \A f \in RunFields \ {"aborted"} : new[f] = run[i][f]
    BY <1>2 DEF IsRun, RunFields
  <2>2. /\ new.at = run[i].at /\ new.doc = run[i].doc /\ new.refs = run[i].refs /\ new.saved = run[i].saved
        /\ new.cache = run[i].cache /\ new.next = run[i].next /\ new.work = run[i].work /\ new.got = run[i].got
        /\ new.fresh = run[i].fresh /\ new.cached = run[i].cached /\ new.failed = run[i].failed
    BY <2>1 DEF RunFields
  <2> HIDE DEF new
  <2> QED
    BY <1>2, <2>1, <2>2 DEF IsRun, PoolIsRight, Urls
<1> HIDE DEF new
<1> QED
  BY <1>1, <1>3, StepOfRun

LEMMA ExtractKeepsIInv ==
  ASSUME DocumentsHaveSlots, IInv, NEW i \in Ingests, NEW unsaved, I!Extract(i, unsaved)
  PROVE  IInv'
<1> DEFINE d == run[i].doc
           saved == I!ImagesOf(d, unsaved)
           new == [run[i] EXCEPT !.at = "extracted", !.saved = saved]
           lost == {j \in I!Usable(d) : \E k \in unsaved : k <= j}
<1>1. /\ run[i].at = "read" /\ I!Becomes(i, new) /\ media' = [media EXCEPT ![d] = I!Saved(d, lost)]
      /\ UNCHANGED <<textCache, captionCache, document>>
  BY DEF I!Extract
<1>2. IsRun(run[i]) /\ d \in Docs
  BY <1>1, WaitingIsAt DEF IInv, RunsAreRight, IsRun
<1> HIDE DEF lost
<1>3. FilesAreRight'
  BY <1>1, <1>2, FilesStayRight DEF IInv
<1>4. AreReferences(d, saved)
  BY <1>2, ReferenceFacts DEF AreReferences, I!ImagesOf
<1> HIDE DEF saved
<1>5. /\ DOMAIN new = DOMAIN run[i] /\ new.at = "extracted" /\ new.saved = saved
      /\ new.doc = run[i].doc /\ new.refs = run[i].refs
      /\ new.next = run[i].next /\ new.work = run[i].work /\ new.got = run[i].got /\ new.aborted = run[i].aborted
      /\ new.fresh = run[i].fresh /\ new.cached = run[i].cached /\ new.failed = run[i].failed
  BY <1>2 DEF IsRun, RunFields
<1>6. IsRun(new)
  <2> HIDE DEF new
  <2> QED
    BY <1>1, <1>2, <1>4, <1>5 DEF IsRun, Urls
<1> HIDE DEF new
<1>7. RunsAreRight'
  BY <1>1, <1>6, RunsStayRight DEF IInv
<1> QED
  BY <1>1, <1>3, <1>7 DEF IInv, CaptionsAreRight, PagesAreRight

LEMMA CaptionKeepsIInv ==
  ASSUME DocumentsHaveSlots, IInv, NEW i \in Ingests, NEW enabled, I!Caption(i, enabled)
  PROVE  IInv'
<1> DEFINE ended == [run[i] EXCEPT !.at = "done"]
           without == [run[i] EXCEPT !.at = "captioned"]
           pool == [run[i] EXCEPT !.at = "captioning", !.cache = captionCache]
<1>1. /\ run[i].at = "extracted" /\ UNCHANGED <<media, textCache, captionCache, document>>
      /\ I!Becomes(i, ended) \/ (I!Urls(i) = {} /\ I!Becomes(i, without)) \/ I!Becomes(i, pool)
  BY DEF I!Caption
<1>2. IsRun(run[i])
  BY <1>1, WaitingIsAt DEF IInv, RunsAreRight
<1>3. I!Urls(i) = Urls(run[i])
  BY DEF I!Urls, Urls, NumbersOf
<1>4. IsRun(ended)
  <2>1. /\ DOMAIN ended = DOMAIN run[i] /\ ended.at = "done" /\ ended.saved = run[i].saved
        /\ ended.doc = run[i].doc /\ ended.refs = run[i].refs /\ ended.got = run[i].got /\ ended.aborted = run[i].aborted
        /\ ended.fresh = run[i].fresh /\ ended.cached = run[i].cached /\ ended.failed = run[i].failed
    BY <1>2 DEF IsRun, RunFields
  <2> HIDE DEF ended
  <2> QED
    BY <1>2, <2>1 DEF IsRun, Urls
<1>5. ASSUME Urls(run[i]) = {} PROVE IsRun(without)
  <2>1. /\ DOMAIN without = DOMAIN run[i] /\ without.at = "captioned" /\ without.saved = run[i].saved
        /\ without.doc = run[i].doc /\ without.refs = run[i].refs /\ without.got = run[i].got /\ without.aborted = run[i].aborted
        /\ without.fresh = run[i].fresh /\ without.cached = run[i].cached /\ without.failed = run[i].failed
    BY <1>2 DEF IsRun, RunFields
  <2> HIDE DEF without
  <2> QED
    BY <1>2, <1>5, <2>1 DEF IsRun, Urls
<1>6. IsRun(pool)
  <2>1. /\ DOMAIN pool = DOMAIN run[i] /\ pool.at = "captioning" /\ pool.saved = run[i].saved /\ pool.cache = captionCache
        /\ pool.doc = run[i].doc /\ pool.refs = run[i].refs /\ pool.got = run[i].got /\ pool.aborted = run[i].aborted
        /\ pool.fresh = run[i].fresh /\ pool.cached = run[i].cached /\ pool.failed = run[i].failed
        /\ pool.next = run[i].next /\ pool.work = run[i].work
    BY <1>2 DEF IsRun, RunFields
  <2> HIDE DEF pool
  <2>2. pool.next = 1 /\ pool.work = {} /\ DOMAIN pool.got = {} /\ pool.failed = 0
    BY <1>1, <1>2, <2>1 DEF IsRun
  <2>3. Cardinality(Urls(pool)) \in Nat
    <3>1. Urls(pool) \in SUBSET Nat /\ IsFiniteSet(Urls(pool))
      BY <1>2, <2>1, UrlFacts DEF IsRun, AreReferences, Urls
    <3> QED
      BY <3>1, FS_CardinalityType
  <2>4. IsFiniteSet({}) /\ Cardinality({}) = 0
    BY FS_EmptySet
  <2>5. PoolIsRight(pool)
    BY <2>1, <2>2, <2>3, <2>4 DEF PoolIsRight, IInv, CaptionsAreRight
  <2> QED
    BY <1>2, <2>1, <2>5 DEF IsRun, Urls
<1> HIDE DEF ended, without, pool
<1> QED
  BY <1>1, <1>3, <1>4, <1>5, <1>6, StepOfRun

-----------------------------------------------------------------------------
\* What a worker does to the pool.
SameRun(new, r) ==
  /\ DOMAIN new = DOMAIN r /\ new.at = r.at /\ new.doc = r.doc /\ new.refs = r.refs /\ new.saved = r.saved /\ new.aborted = r.aborted

LEMMA PoolFacts ==
  ASSUME DocumentsHaveSlots, NEW r, IsRun(r), r.at = "captioning"
  PROVE  /\ PoolIsRight(r)
         /\ Urls(r) \in SUBSET Nat /\ IsFiniteSet(Urls(r)) /\ Cardinality(Urls(r)) \in Nat
         /\ r.next \in Nat /\ Cardinality(r.work) \in Nat /\ Cardinality(DOMAIN r.got) \in Nat
<1>1. Urls(r) \in SUBSET Nat /\ IsFiniteSet(Urls(r))
  BY UrlFacts DEF IsRun, AreReferences, Urls
<1>2. Cardinality(Urls(r)) \in Nat
  BY <1>1, FS_CardinalityType
<1>3. PoolIsRight(r)
  BY DEF IsRun
<1>4. r.next \in Nat
  BY <1>2, <1>3 DEF PoolIsRight
<1>5. IsFiniteSet(r.work) /\ IsFiniteSet(DOMAIN r.got)
  BY <1>3 DEF PoolIsRight, IsRun
<1> QED
  BY <1>1, <1>2, <1>3, <1>4, <1>5, FS_CardinalityType

\* One that failed is gone from the work.
LEMMA FailedKeepsRun ==
  ASSUME DocumentsHaveSlots, NEW r, IsRun(r), r.at = "captioning", NEW w \in r.work, NEW new,
         SameRun(new, r), new.work = r.work \ {w}, new.failed = r.failed + 1,
         new.got = r.got, new.cache = r.cache, new.next = r.next, new.fresh = r.fresh, new.cached = r.cached
  PROVE  IsRun(new)
<1>1. Urls(new) = Urls(r)
  BY DEF SameRun, Urls
<1>2. IsFiniteSet(new.work) /\ Cardinality(new.work) = Cardinality(r.work) - 1
  <2>1. IsFiniteSet(r.work)
    BY PoolFacts DEF PoolIsRight
  <2> QED
    BY <2>1, FS_RemoveElement
<1>3. r.failed \in Nat
  BY DEF IsRun
<1>4. new.failed + Cardinality(new.work) + Cardinality(DOMAIN new.got) = new.next - 1
  BY <1>2, <1>3, PoolFacts DEF PoolIsRight
<1>5. PoolIsRight(new)
  BY <1>1, <1>2, <1>4, PoolFacts DEF PoolIsRight, SameRun
<1> QED
  BY <1>1, <1>3, <1>5 DEF IsRun, SameRun

\* One that has its caption is gone from the work, and its number is new among
\* those that have one.
LEMMA CaptionedKeepsRun ==
  ASSUME DocumentsHaveSlots, NEW r, IsRun(r), r.at = "captioning", NEW w \in r.work, NEW new, NEW caption,
         IsImage(r.doc, w.number, caption.of), CaptionsAreRight(new.cache),
         SameRun(new, r), new.work = r.work \ {w}, new.got = I!With(r.got, w.number, caption),
         new.failed = r.failed, new.next = r.next, new.fresh \in Nat, new.cached \in Nat,
         new.fresh + new.cached = r.fresh + r.cached + 1
  PROVE  IsRun(new)
<1>1. Urls(new) = Urls(r)
  BY DEF SameRun, Urls
<1>2. IsFiniteSet(new.work) /\ Cardinality(new.work) = Cardinality(r.work) - 1
  <2>1. IsFiniteSet(r.work)
    BY PoolFacts DEF PoolIsRight
  <2> QED
    BY <2>1, FS_RemoveElement
<1>3. r.failed \in Nat /\ r.fresh \in Nat /\ r.cached \in Nat
  BY DEF IsRun
<1>4. w.number \in Urls(r) /\ w.number \notin DOMAIN r.got /\ Place(Urls(r), w.number) < r.next
  BY PoolFacts DEF PoolIsRight
<1>5. /\ DOMAIN new.got = DOMAIN r.got \cup {w.number} /\ new.got[w.number] = caption
      /\ \A n \in DOMAIN r.got : n # w.number => new.got[n] = r.got[n]
  BY DEF I!With
<1>6. IsFiniteSet(DOMAIN r.got) /\ r.fresh + r.cached = Cardinality(DOMAIN r.got)
  BY DEF IsRun
<1>7. IsFiniteSet(DOMAIN new.got) /\ Cardinality(DOMAIN new.got) = Cardinality(DOMAIN r.got) + 1
  BY <1>4, <1>5, <1>6, FS_AddElement
<1>8. new.failed + Cardinality(new.work) + Cardinality(DOMAIN new.got) = new.next - 1
  BY <1>2, <1>3, <1>7, PoolFacts DEF PoolIsRight
<1>9. \A v \in new.work : v \in r.work /\ v.number # w.number
  BY PoolFacts DEF PoolIsRight
<1>10. PoolIsRight(new)
  <2>1. \A v \in new.work : v.number \notin DOMAIN new.got
    BY <1>5, <1>9, PoolFacts DEF PoolIsRight
  <2>2. \A n \in DOMAIN new.got : Place(Urls(r), n) < new.next
    BY <1>4, <1>5, PoolFacts DEF PoolIsRight
  <2> QED
    BY <1>1, <1>2, <1>8, <1>9, <2>1, <2>2, PoolFacts DEF PoolIsRight, SameRun
<1>11. \A n \in DOMAIN new.got : n \in Urls(new) /\ IsImage(new.doc, n, new.got[n].of)
  <2>1. ASSUME NEW n \in DOMAIN new.got PROVE n \in Urls(r) /\ IsImage(r.doc, n, new.got[n].of)
    <3>1. CASE n = w.number
      BY <1>4, <1>5, <3>1
    <3>2. CASE n # w.number
      <4>1. n \in DOMAIN r.got /\ new.got[n] = r.got[n]
        BY <1>5, <3>2
      <4> QED
        BY <4>1 DEF IsRun
    <3> QED
      BY <3>1, <3>2
  <2> QED
    BY <1>1, <2>1 DEF SameRun
<1>12. new.fresh + new.cached = Cardinality(DOMAIN new.got)
  BY <1>3, <1>6, <1>7, PoolFacts
<1>13. /\ RunFields \subseteq DOMAIN new /\ new.doc \in Docs /\ AreReferences(new.doc, new.refs) /\ AreReferences(new.doc, new.saved)
       /\ new.failed \in Nat /\ new.aborted \in BOOLEAN /\ new.at = "captioning"
  BY DEF IsRun, SameRun
<1> QED
  BY <1>7, <1>10, <1>11, <1>12, <1>13 DEF IsRun

LEMMA TakeKeepsIInv ==
  ASSUME DocumentsHaveSlots, IInv, NEW i \in Ingests, I!Take(i)
  PROVE  IInv'
<1> DEFINE r == run[i]
           u == I!NthUrl(i, r.next)
           w == [number |-> u]
           new == [r EXCEPT !.work = r.work \cup {w}, !.next = r.next + 1]
<1>1. /\ r.at = "captioning" /\ r.next <= I!Cardinality(I!Urls(i)) /\ I!Becomes(i, new)
      /\ UNCHANGED <<media, textCache, captionCache, document>>
  BY DEF I!Take
<1>2. IsRun(r)
  BY <1>1, WaitingIsAt DEF IInv, RunsAreRight
<1>3. I!Urls(i) = Urls(r)
  BY DEF I!Urls, Urls, NumbersOf
<1>4. r.next \in 1 .. Cardinality(Urls(r))
  BY <1>1, <1>2, <1>3, SameSize, PoolFacts DEF PoolIsRight
<1>5. u \in Urls(r) /\ Place(Urls(r), u) = r.next
  <2>1. \E x \in Urls(r) : Place(Urls(r), x) = r.next
    BY <1>1, <1>2, <1>4, PoolFacts, PlaceFacts
  <2>2. u = CHOOSE x \in Urls(r) : Place(Urls(r), x) = r.next
    BY <1>3, SameSize DEF I!NthUrl, Place
  <2> HIDE DEF u
  <2> QED
    BY <2>1, <2>2
<1>6. /\ SameRun(new, r) /\ new.work = r.work \cup {w} /\ new.next = r.next + 1 /\ new.got = r.got /\ new.cache = r.cache
      /\ new.failed = r.failed /\ new.fresh = r.fresh /\ new.cached = r.cached
  BY <1>2 DEF SameRun, IsRun, RunFields
<1>7. DOMAIN w = {"number"} /\ w.number = u
  OBVIOUS
<1> HIDE DEF new, w, u
<1>8. PoolIsRight(r) /\ r.next \in Nat
  BY <1>1, <1>2, PoolFacts
<1>9. \A v \in r.work : v.number # u
  BY <1>5, <1>8 DEF PoolIsRight
<1>10. IsFiniteSet(new.work) /\ Cardinality(new.work) = Cardinality(r.work) + 1
  <2>1. IsFiniteSet(r.work) /\ w \notin r.work
    BY <1>7, <1>8, <1>9 DEF PoolIsRight
  <2>2. IsFiniteSet(r.work \cup {w}) /\ Cardinality(r.work \cup {w}) = Cardinality(r.work) + 1
    BY <2>1, FS_AddElement
  <2> QED
    BY <1>6, <2>2
<1>11. new.failed + Cardinality(new.work) + Cardinality(DOMAIN new.got) = new.next - 1
  <2>1. r.failed \in Nat
    BY <1>2 DEF IsRun
  <2> QED
    BY <1>1, <1>2, <1>6, <1>8, <1>10, <2>1, PoolFacts DEF PoolIsRight
<1>12. Urls(new) = Urls(r)
  BY <1>6 DEF SameRun, Urls
<1>13. u \notin DOMAIN r.got
  BY <1>5, <1>8 DEF PoolIsRight
<1>14. new.next \in 1 .. Cardinality(Urls(r)) + 1
  BY <1>1, <1>2, <1>4, <1>6, PoolFacts
<1>15. ASSUME NEW v \in new.work
       PROVE  /\ "number" \in DOMAIN v /\ v.number \in Urls(r) /\ v.number \notin DOMAIN r.got /\ Place(Urls(r), v.number) < new.next
              /\ "hash" \in DOMAIN v => IsImage(r.doc, v.number, v.hash)
  <2>1. CASE v = w
    BY <1>5, <1>6, <1>7, <1>8, <1>13, <2>1
  <2>2. CASE v \in r.work
    <3>1. Place(Urls(r), v.number) \in Nat
      BY <1>1, <1>2, <1>8, <2>2, PoolFacts, PlaceFacts DEF PoolIsRight
    <3> QED
      BY <1>6, <1>8, <2>2, <3>1 DEF PoolIsRight
  <2> QED
    BY <1>6, <2>1, <2>2
<1>16. \A n \in DOMAIN r.got : Place(Urls(r), n) < new.next
  <2>1. ASSUME NEW n \in DOMAIN r.got PROVE Place(Urls(r), n) < new.next
    <3>1. n \in Urls(r)
      BY <1>2 DEF IsRun
    <3>2. Place(Urls(r), n) \in Nat
      BY <1>1, <1>2, <3>1, PoolFacts, PlaceFacts
    <3>3. Place(Urls(r), n) < r.next
      BY <1>8 DEF PoolIsRight
    <3> QED
      BY <1>6, <1>8, <3>2, <3>3
  <2> QED
    BY <2>1
<1>17. \A v, x \in new.work : v.number = x.number => v = x
  BY <1>6, <1>7, <1>8, <1>9 DEF PoolIsRight
<1>18. PoolIsRight(new)
  BY <1>6, <1>8, <1>10, <1>11, <1>12, <1>14, <1>15, <1>16, <1>17 DEF PoolIsRight, SameRun
<1>19. IsRun(new)
  BY <1>1, <1>2, <1>6, <1>12, <1>18 DEF IsRun, SameRun
<1> QED
  BY <1>1, <1>19, StepOfRun

LEMMA LookKeepsIInv ==
  ASSUME DocumentsHaveSlots, IInv, NEW i \in Ingests, NEW w \in run[i].work, I!Look(i, w)
  PROVE  IInv'
<1> DEFINE r == run[i]
           bytes == media[r.doc]
           rest == r.work \ {w}
           caption == r.cache[bytes[w.number]]
           looked == [number |-> w.number, hash |-> bytes[w.number]]
           fails == [r EXCEPT !.work = rest, !.failed = r.failed + 1]
           known == [r EXCEPT !.work = rest, !.got = I!With(r.got, w.number, caption), !.cached = r.cached + 1]
           asks == [r EXCEPT !.work = rest \cup {looked}]
<1>1. /\ r.at = "captioning" /\ UNCHANGED <<media, textCache, captionCache, document>>
      /\ \/ I!Becomes(i, fails)
         \/ w.number \in DOMAIN bytes /\ bytes[w.number] \in DOMAIN r.cache /\ I!Becomes(i, known)
         \/ w.number \in DOMAIN bytes /\ I!Becomes(i, asks)
  BY DEF I!Look
<1>2. IsRun(r)
  BY <1>1, WaitingIsAt DEF IInv, RunsAreRight
<1>3. w.number \in DOMAIN bytes => IsImage(r.doc, w.number, bytes[w.number])
  BY <1>2 DEF IInv, FilesAreRight, IsRun
<1>4. IsRun(fails)
  <2>1. /\ SameRun(fails, r) /\ fails.work = rest /\ fails.failed = r.failed + 1 /\ fails.got = r.got
        /\ fails.cache = r.cache /\ fails.next = r.next /\ fails.fresh = r.fresh /\ fails.cached = r.cached
    BY <1>2 DEF SameRun, IsRun, RunFields
  <2> HIDE DEF fails
  <2> QED
    BY <1>1, <1>2, <2>1, FailedKeepsRun
<1>5. ASSUME w.number \in DOMAIN bytes, bytes[w.number] \in DOMAIN r.cache PROVE IsRun(known)
  <2>1. /\ SameRun(known, r) /\ known.work = rest /\ known.failed = r.failed /\ known.got = I!With(r.got, w.number, caption)
        /\ known.cache = r.cache /\ known.next = r.next /\ known.fresh = r.fresh /\ known.cached = r.cached + 1
    BY <1>2 DEF SameRun, IsRun, RunFields
  <2> HIDE DEF known
  <2>2. CaptionsAreRight(r.cache) /\ caption.of = bytes[w.number]
    BY <1>1, <1>2, <1>5, PoolFacts DEF PoolIsRight, CaptionsAreRight
  <2>3. IsImage(r.doc, w.number, caption.of)
    BY <1>3, <1>5, <2>2
  <2>4. known.fresh \in Nat /\ known.cached \in Nat /\ known.fresh + known.cached = r.fresh + r.cached + 1
    BY <1>2, <2>1 DEF IsRun
  <2> HIDE DEF caption, r, rest
  <2>5. CaptionsAreRight(known.cache)
    BY <2>1, <2>2
  <2> QED
    BY <1>1, <1>2, <2>1, <2>3, <2>4, <2>5, CaptionedKeepsRun DEF r, rest
<1>6. ASSUME w.number \in DOMAIN bytes PROVE IsRun(asks)
  <2>1. /\ SameRun(asks, r) /\ asks.work = rest \cup {looked} /\ asks.failed = r.failed /\ asks.got = r.got
        /\ asks.cache = r.cache /\ asks.next = r.next /\ asks.fresh = r.fresh /\ asks.cached = r.cached
    BY <1>2 DEF SameRun, IsRun, RunFields
  <2>2. "number" \in DOMAIN looked /\ looked.number = w.number /\ looked.hash = bytes[w.number]
    OBVIOUS
  <2>3. IsImage(r.doc, looked.number, looked.hash)
    BY <1>3, <1>6, <2>2
  <2> HIDE DEF asks, looked
  <2>4. PoolIsRight(r) /\ Cardinality(r.work) \in Nat
    BY <1>1, <1>2, PoolFacts
  <2>5. \A v \in rest : v \in r.work /\ v.number # w.number
    BY <2>4 DEF PoolIsRight
  <2>6. IsFiniteSet(rest) /\ Cardinality(rest) = Cardinality(r.work) - 1
    BY <2>4, FS_RemoveElement DEF PoolIsRight
  <2>7. looked \notin rest
    BY <2>2, <2>5
  <2> HIDE DEF rest
  <2>8. IsFiniteSet(asks.work) /\ Cardinality(asks.work) = Cardinality(r.work)
    <3>1. IsFiniteSet(rest \cup {looked}) /\ Cardinality(rest \cup {looked}) = Cardinality(rest) + 1
      BY <2>6, <2>7, FS_AddElement
    <3> QED
      BY <2>1, <2>4, <2>6, <3>1
  <2>9. Urls(asks) = Urls(r)
    BY <2>1 DEF SameRun, Urls
  <2>10. ASSUME NEW v \in asks.work
         PROVE  /\ "number" \in DOMAIN v /\ v.number \in Urls(r) /\ v.number \notin DOMAIN r.got /\ Place(Urls(r), v.number) < r.next
                /\ "hash" \in DOMAIN v => IsImage(r.doc, v.number, v.hash)
    <3>1. CASE v = looked
      BY <2>2, <2>3, <2>4, <3>1 DEF PoolIsRight
    <3>2. CASE v \in rest
      BY <2>4, <2>5, <3>2 DEF PoolIsRight
    <3> QED
      BY <2>1, <3>1, <3>2
  <2>11. \A v, x \in asks.work : v.number = x.number => v = x
    BY <2>1, <2>2, <2>4, <2>5 DEF PoolIsRight
  <2>12. PoolIsRight(asks)
    BY <2>1, <2>4, <2>8, <2>9, <2>10, <2>11 DEF PoolIsRight, SameRun
  <2> QED
    BY <1>1, <1>2, <2>1, <2>9, <2>12 DEF IsRun, SameRun
<1> HIDE DEF fails, known, asks
<1> QED
  BY <1>1, <1>4, <1>5, <1>6, StepOfRun

LEMMA AnswerKeepsIInv ==
  ASSUME DocumentsHaveSlots, IInv, NEW i \in Ingests, NEW w \in run[i].work, NEW whole, I!Answer(i, w, whole)
  PROVE  IInv'
<1> DEFINE r == run[i]
           caption == [of |-> w.hash, whole |-> whole]
           new == [r EXCEPT !.work = r.work \ {w}, !.cache = I!With(r.cache, w.hash, caption),
                            !.got = I!With(r.got, w.number, caption), !.fresh = r.fresh + 1]
<1>1. r.at = "captioning" /\ "hash" \in DOMAIN w /\ I!Becomes(i, new) /\ UNCHANGED <<media, textCache, captionCache, document>>
  BY DEF I!Answer, I!Asked
<1>2. IsRun(r)
  BY <1>1, WaitingIsAt DEF IInv, RunsAreRight
<1>3. /\ SameRun(new, r) /\ new.work = r.work \ {w} /\ new.failed = r.failed /\ new.got = I!With(r.got, w.number, caption)
      /\ new.cache = I!With(r.cache, w.hash, caption) /\ new.next = r.next /\ new.fresh = r.fresh + 1 /\ new.cached = r.cached
  BY <1>2 DEF SameRun, IsRun, RunFields
<1>4. caption.of = w.hash
  OBVIOUS
<1> HIDE DEF new, caption
<1>5. IsImage(r.doc, w.number, caption.of) /\ CaptionsAreRight(r.cache)
  BY <1>1, <1>2, <1>4, PoolFacts DEF PoolIsRight
<1>6. CaptionsAreRight(new.cache)
  BY <1>3, <1>4, <1>5 DEF CaptionsAreRight, I!With
<1>7. new.fresh \in Nat /\ new.cached \in Nat /\ new.fresh + new.cached = r.fresh + r.cached + 1
  BY <1>2, <1>3 DEF IsRun
<1>8. IsRun(new)
  BY <1>1, <1>2, <1>3, <1>5, <1>6, <1>7, CaptionedKeepsRun
<1> QED
  BY <1>1, <1>8, StepOfRun

LEMMA AnswerFailsKeepsIInv ==
  ASSUME DocumentsHaveSlots, IInv, NEW i \in Ingests, NEW w \in run[i].work, I!AnswerFails(i, w)
  PROVE  IInv'
<1> DEFINE r == run[i]
           new == [r EXCEPT !.work = r.work \ {w}, !.failed = r.failed + 1]
<1>1. r.at = "captioning" /\ I!Becomes(i, new) /\ UNCHANGED <<media, textCache, captionCache, document>>
  BY DEF I!AnswerFails, I!Asked, I!Failed
<1>2. IsRun(r)
  BY <1>1, WaitingIsAt DEF IInv, RunsAreRight
<1>3. /\ SameRun(new, r) /\ new.work = r.work \ {w} /\ new.failed = r.failed + 1 /\ new.got = r.got
      /\ new.cache = r.cache /\ new.next = r.next /\ new.fresh = r.fresh /\ new.cached = r.cached
  BY <1>2 DEF SameRun, IsRun, RunFields
<1> HIDE DEF new
<1>4. IsRun(new)
  BY <1>1, <1>2, <1>3, FailedKeepsRun
<1> QED
  BY <1>1, <1>4, StepOfRun

LEMMA PoolEndsKeepsIInv ==
  ASSUME DocumentsHaveSlots, IInv, NEW i \in Ingests, I!PoolEnds(i)
  PROVE  IInv'
<1> DEFINE r == run[i]
           new == [r EXCEPT !.at = "captioned"]
<1>1. /\ r.at = "captioning" /\ r.work = {} /\ (r.aborted \/ r.next > I!Cardinality(I!Urls(i))) /\ I!Becomes(i, new)
      /\ captionCache' = (IF r.fresh > 0 THEN r.cache ELSE captionCache) /\ UNCHANGED <<media, textCache, document>>
  BY DEF I!PoolEnds
<1>2. IsRun(r)
  BY <1>1, WaitingIsAt DEF IInv, RunsAreRight
<1>3. PoolIsRight(r)
  BY <1>1, <1>2, PoolFacts
<1>4. CaptionsAreRight(captionCache)'
  <2>1. captionCache' = r.cache \/ captionCache' = captionCache
    BY <1>1
  <2>2. CaptionsAreRight(captionCache')
    BY <1>3, <2>1 DEF PoolIsRight, IInv
  <2> QED
    BY <2>2 DEF CaptionsAreRight
<1>5. /\ DOMAIN new = DOMAIN r /\ new.at = "captioned" /\ new.doc = r.doc /\ new.refs = r.refs /\ new.saved = r.saved
      /\ new.aborted = r.aborted /\ new.got = r.got /\ new.failed = r.failed /\ new.fresh = r.fresh /\ new.cached = r.cached
  BY <1>2 DEF IsRun, RunFields
<1> HIDE DEF new
<1>6. ASSUME ~r.aborted PROVE r.failed = Cardinality(Urls(r) \ DOMAIN r.got)
  <2> DEFINE all == Urls(r)
             got == DOMAIN r.got
  <2>1. I!Urls(i) = all
    BY DEF I!Urls, Urls, NumbersOf
  <2>2. r.next > Cardinality(all)
    BY <1>1, <1>6, <2>1, SameSize
  <2>3. IsFiniteSet(all) /\ Cardinality(all) \in Nat /\ Cardinality(got) \in Nat /\ r.next \in 1 .. Cardinality(all) + 1
    BY <1>1, <1>2, <1>3, PoolFacts DEF PoolIsRight
  <2>4. r.next = Cardinality(all) + 1
    BY <2>2, <2>3
  <2>5. Cardinality(r.work) = 0
    BY <1>1, FS_EmptySet
  <2>6. r.failed \in Nat /\ r.failed + Cardinality(r.work) + Cardinality(got) = r.next - 1
    BY <1>2, <1>3 DEF PoolIsRight, IsRun
  <2>7. r.failed = Cardinality(all) - Cardinality(got)
    BY <2>3, <2>4, <2>5, <2>6
  <2>8. all \cap got = got
    BY <1>2 DEF IsRun
  <2> HIDE DEF all, got
  <2>9. Cardinality(all \ got) = Cardinality(all) - Cardinality(all \cap got)
    BY <2>3, FS_Difference
  <2> QED
    BY <2>7, <2>8, <2>9 DEF all, got
<1>7. Urls(new) = Urls(r)
  BY <1>5 DEF Urls
<1>8. IsRun(new)
  BY <1>2, <1>5, <1>6, <1>7 DEF IsRun
<1>9. RunsAreRight'
  BY <1>1, <1>8, RunsStayRight DEF IInv
<1> QED
  BY <1>1, <1>4, <1>9 DEF IInv, FilesAreRight, PagesAreRight, I!Nothing

LEMMA InjectKeepsIInv ==
  ASSUME DocumentsHaveSlots, IInv, NEW i \in Ingests, NEW keeps, I!Inject(i, keeps)
  PROVE  IInv'
<1> DEFINE r == run[i]
           d == r.doc
           list == I!SectionOf(d, r.saved)
           new == [r EXCEPT !.at = "done"]
<1>1. /\ r.at = "captioned" /\ I!Becomes(i, new) /\ UNCHANGED <<media, textCache, captionCache>>
      /\ \/ document' = [document EXCEPT ![d] = <<list>>]
         \/ document' = [document EXCEPT ![d] = document[d]]
  BY DEF I!Inject, I!Injected
<1>2. IsRun(r) /\ d \in Docs /\ AreReferences(d, r.saved)
  BY <1>1, WaitingIsAt DEF IInv, RunsAreRight, IsRun
<1>3. IsSection(d, list)
  <2>1. ASSUME NEW e \in list PROVE IsReference(d, e) /\ (e.alt # I!Nothing => e.alt.of = Slots[d][e.slot])
    <3>1. PICK x \in r.saved : e = [number |-> x.number, slot |-> x.slot, alt |-> I!CaptionOf(d, x.slot)]
      BY DEF I!SectionOf
    <3>2. e.number = x.number /\ e.slot = x.slot /\ e.alt = I!CaptionOf(d, x.slot)
      BY <3>1
    <3>3. IsReference(d, x)
      BY <1>2 DEF AreReferences
    <3>4. I!CaptionOf(d, x.slot) # I!Nothing => I!CaptionOf(d, x.slot).of = Slots[d][x.slot]
      BY DEF I!CaptionOf, IInv, CaptionsAreRight
    <3> QED
      BY <3>2, <3>3, <3>4 DEF IsReference
  <2> QED
    BY <2>1 DEF IsSection
<1> HIDE DEF list
<1>4. DOMAIN document' = Docs /\ \A e \in Docs : document'[e] = document[e] \/ (e = d /\ document'[e] = <<list>>)
  BY <1>1, <1>2 DEF IInv, PagesAreRight
<1>5. \A e \in Docs : document'[e] = <<>> \/ \E x : document'[e] = <<x>> /\ IsSection(e, x)
  BY <1>3, <1>4 DEF IInv, PagesAreRight
<1>6. PagesAreRight'
  BY <1>4, <1>5 DEF PagesAreRight, IsSection, I!Nothing
<1>7. /\ DOMAIN new = DOMAIN r /\ new.at = "done" /\ new.doc = r.doc /\ new.refs = r.refs /\ new.saved = r.saved
      /\ new.aborted = r.aborted /\ new.got = r.got /\ new.failed = r.failed /\ new.fresh = r.fresh /\ new.cached = r.cached
  BY <1>2 DEF IsRun, RunFields
<1> HIDE DEF new
<1>8. IsRun(new)
  BY <1>2, <1>7 DEF IsRun, Urls
<1>9. RunsAreRight'
  BY <1>1, <1>8, RunsStayRight DEF IInv
<1> QED
  BY <1>1, <1>6, <1>9 DEF IInv, FilesAreRight, CaptionsAreRight, I!Nothing

LEMMA NextIInv ==
  ASSUME DocumentsHaveSlots, IInv, [I!Next]_(I!vars)
  PROVE  IInv'
<1>1. CASE UNCHANGED I!vars
  BY <1>1 DEF I!vars, IInv, FilesAreRight, CaptionsAreRight, PagesAreRight, RunsAreRight, I!Nothing, I!Waiting
<1>2. CASE \E d \in Docs, keep \in BOOLEAN : \E u \in SUBSET I!Usable(d) : I!Preview(d, u, keep)
  BY <1>2, PreviewKeepsIInv
<1>3. ASSUME NEW i \in Ingests,
             \/ \E d \in Docs, hit \in BOOLEAN : \E u \in SUBSET I!Usable(d) : I!Start(i, d, hit, u)
             \/ I!Abort(i) \/ I!PoolEnds(i)
             \/ run[i].at = "read" /\ \E u \in SUBSET I!Usable(run[i].doc) : I!Extract(i, u)
             \/ \E enabled \in BOOLEAN : I!Caption(i, enabled)
             \/ I!Take(i)
             \/ run[i].at = "captioning" /\ \E w \in run[i].work :
                  I!Look(i, w) \/ I!AnswerFails(i, w) \/ \E whole \in BOOLEAN : I!Answer(i, w, whole)
             \/ \E keeps \in BOOLEAN : I!Inject(i, keeps)
      PROVE  IInv'
  BY <1>3, StartKeepsIInv, AbortKeepsIInv, PoolEndsKeepsIInv, ExtractKeepsIInv, CaptionKeepsIInv, TakeKeepsIInv,
     LookKeepsIInv, AnswerFailsKeepsIInv, AnswerKeepsIInv, InjectKeepsIInv
<1> QED
  BY <1>1, <1>2, <1>3 DEF I!Next

\* Every reference, list and caption is of the image that stands there in the
\* document, and the pool deals with every image once (extract_images.rs,
\* image-caption-pipeline.ts): for any documents, any number of workers and any
\* ingests that follow or overlap.
THEOREM ImagesStayInPlace ==
  DocumentsHaveSlots => (I!Spec => [](I!ImagesAreInPlace /\ I!ThePoolIsThorough))
<1> SUFFICES ASSUME DocumentsHaveSlots
             PROVE  I!Spec => [](I!ImagesAreInPlace /\ I!ThePoolIsThorough)
  OBVIOUS
<1>1. I!Init => IInv
  BY InitIInv
<1>2. IInv /\ [I!Next]_(I!vars) => IInv'
  BY NextIInv
<1>3. IInv => I!ImagesAreInPlace /\ I!ThePoolIsThorough
  BY IInvSuffices
<1> QED
  BY <1>1, <1>2, <1>3, PTL DEF I!Spec

-----------------------------------------------------------------------------
(***************************************************************************)
(* The import of files.                                                    *)
(***************************************************************************)
Picked == UNION {{s[n] : n \in 1 .. Len(s)} : s \in Selections}
ImportBounds ==
  /\ MaxCounter \in Nat /\ \A folder \in Folders : folder.dir # ""
  /\ \A name \in DOMAIN Kind : Kind[name] \in {"text", "image", "opaque"}
  /\ Selections \subseteq Seq(Picked) /\ \A file \in Picked : file.name \in DOMAIN Kind

\* Records have the fields their steps change.
ImportTypes ==
  /\ {"brought", "overlap", "late", "leftover", "partial"} \subseteq DOMAIN toasts
  /\ toasts.overlap \in BOOLEAN /\ toasts.late \in BOOLEAN /\ toasts.leftover \in BOOLEAN /\ toasts.partial \in BOOLEAN
  /\ \A i \in imports : {"left", "dest", "done", "ends"} \subseteq DOMAIN i /\ i.left \in Seq(Picked)
  /\ \A i \in imports : i.dest # J!Nothing => i.left # <<>>
  /\ \A d \in deletes : {"row", "left", "cached", "shown"} \subseteq DOMAIN d /\ d.left \subseteq d.shown
\* The suffixes given so far have a largest.
SuffixesAreBounded ==
  /\ \E b \in Nat : \A p \in DOMAIN sources : p.suffix \in 0 .. b
  /\ \A i \in imports : i.dest # J!Nothing => i.dest.dir = "" /\ i.dest.suffix \in Nat

\* An import alone has a name that is still free.
ImportsAlone ==
  ~toasts.overlap =>
    /\ \A i, j \in imports : i = j
    /\ \A i \in imports : i.dest # J!Nothing /\ Kind[i.dest.name] # "opaque" => i.dest \notin DOMAIN sources
\* A text that is kept, or on its way, is of the file as it is.
TextsAreOfTheirFiles ==
  ~toasts.late /\ ~toasts.leftover =>
    /\ \A p \in DOMAIN textCaches \cap DOMAIN sources : textCaches[p].valid => textCaches[p].content = sources[p]
    /\ \A job \in extracts : job.path \in DOMAIN sources => job.content = sources[job.path]
\* What was brought in is queued, or an import still has it to queue.
BroughtIsQueued ==
  ~toasts.partial => \A p \in toasts.brought : p \in queued \/ \E i \in imports : p \in i.done

JInv == ImportTypes /\ SuffixesAreBounded /\ ImportsAlone /\ TextsAreOfTheirFiles /\ BroughtIsQueued

LEMMA InitJInv ==
  ASSUME J!Init
  PROVE  JInv
<1>1. sources = <<>> /\ DOMAIN sources = {} /\ DOMAIN textCaches = {} /\ imports = {} /\ deletes = {} /\ extracts = {}
  BY DEF J!Init
<1>2. toasts = [brought |-> {}, overlap |-> FALSE, late |-> FALSE, leftover |-> FALSE, partial |-> FALSE]
  BY DEF J!Init
<1>3. ImportTypes
  BY <1>1, <1>2 DEF ImportTypes
<1>4. SuffixesAreBounded
  <2>1. 0 \in Nat
    OBVIOUS
  <2> QED
    BY <1>1, <2>1 DEF SuffixesAreBounded
<1> QED
  BY <1>1, <1>2, <1>3, <1>4 DEF JInv, ImportsAlone, TextsAreOfTheirFiles, BroughtIsQueued

LEMMA JInvSuffices ==
  ASSUME JInv
  PROVE  J!TextsAreCurrent
<1>1. ASSUME ~toasts.late, ~toasts.leftover, NEW p \in DOMAIN sources PROVE J!TextOf(p) = sources[p]
  BY <1>1 DEF JInv, TextsAreOfTheirFiles, J!TextOf
<1> QED
  BY <1>1 DEF JInv, BroughtIsQueued, J!TextsAreCurrent, J!Extracted

-----------------------------------------------------------------------------
LEMMA HasLeast ==
  ASSUME NEW Z \in SUBSET Nat, Z # {}
  PROVE  \E m \in Z : \A i \in Z : m <= i
<1>1. PICK m \in Z : \A i \in Z : ~ (<<i, m>> \in OpToRel(<, Nat))
  BY WFMin, NatLessThanWellFounded
<1>2. \A i \in Z : i < m => <<i, m>> \in OpToRel(<, Nat)
  BY DEF OpToRel
<1>3. \A i \in Z : ~(i < m)
  BY <1>1, <1>2
<1>4. m \in Nat /\ \A i \in Z : i \in Nat
  OBVIOUS
<1>5. \A i \in Z : m <= i
  BY <1>3, <1>4
<1> QED
  BY <1>5
\* The largest of numbers that are bounded.
LEMMA LargestThereIs ==
  ASSUME NEW T \in SUBSET Nat, T # {}, NEW b \in Nat, \A x \in T : x <= b
  PROVE  \E m \in T : \A x \in T : m >= x
<1> DEFINE Bounds == {n \in Nat : \A x \in T : x <= n}
<1>1. PICK least \in Bounds : \A n \in Bounds : least <= n
  <2>1. Bounds # {} /\ Bounds \in SUBSET Nat
    OBVIOUS
  <2> QED
    BY <2>1, HasLeast
<1>2. least \in T
  <2> SUFFICES ASSUME least \notin T PROVE FALSE
    OBVIOUS
  <2>1. least \in Nat /\ \A x \in T : x \in Nat /\ x <= least /\ x # least
    OBVIOUS
  <2>2. least # 0
    <3>1. PICK x : x \in T
      OBVIOUS
    <3> QED
      BY <2>1, <3>1
  <2>3. least - 1 \in Nat /\ \A x \in T : x <= least - 1
    BY <2>1, <2>2
  <2> QED
    BY <1>1, <2>1, <2>3
<1> QED
  BY <1>2

\* The name an import is given is free, but for a file that is no text.
LEMMA DestIsFree ==
  ASSUME ImportBounds, SuffixesAreBounded, NEW name \in DOMAIN Kind
  PROVE  \E suffix \in Nat :
           /\ J!getUniqueDestPath(name) = J!Path("", name, suffix)
           /\ Kind[name] # "opaque" => J!Path("", name, suffix) \notin DOMAIN sources
<1> DEFINE free == {n \in 0 .. MaxCounter : ~J!Reads(J!Path("", name, n))}
           given == {MaxCounter} \cup {p.suffix : p \in {q \in DOMAIN sources : q.name = name}}
<1>1. J!getUniqueDestPath(name) =
        IF free # {} THEN J!Path("", name, J!Min(free)) ELSE J!Path("", name, J!Max(given) + 1)
  BY DEF J!getUniqueDestPath
<1>2. MaxCounter \in Nat /\ Kind[name] \in {"text", "image", "opaque"}
  BY DEF ImportBounds
<1>3. CASE free # {}
  <2>1. free \subseteq 0 .. MaxCounter /\ \A n \in free : ~J!Reads(J!Path("", name, n))
    OBVIOUS
  <2>2. J!getUniqueDestPath(name) = J!Path("", name, J!Min(free))
    BY <1>1, <1>3
  <2> HIDE DEF free
  <2>3. free \in SUBSET Nat
    <3>1. \A n \in 0 .. MaxCounter : n \in Nat
      BY <1>2
    <3> QED
      BY <2>1, <3>1
  <2>4. \E m \in free : \A i \in free : m <= i
    BY <1>3, <2>3, HasLeast
  <2>5. PICK n : n = J!Min(free)
    OBVIOUS
  <2>6. n \in free
    BY <2>4, <2>5 DEF J!Min
  <2>7. n \in Nat /\ J!Path("", name, n).name = name /\ ~J!Reads(J!Path("", name, n))
    BY <2>1, <2>3, <2>6 DEF J!Path
  <2>8. Kind[name] # "opaque" => J!Path("", name, n) \notin DOMAIN sources
    BY <1>2, <2>7 DEF J!Reads
  <2> QED
    BY <2>2, <2>5, <2>7, <2>8
<1>4. CASE free = {}
  <2>1. PICK b \in Nat : \A p \in DOMAIN sources : p.suffix \in 0 .. b
    BY DEF SuffixesAreBounded
  <2>2. \A x \in given : x = MaxCounter \/ x \in 0 .. b
    BY <2>1
  <2>3. MaxCounter \in given
    OBVIOUS
  <2>4. \A p \in DOMAIN sources : p.name = name => p.suffix \in given
    OBVIOUS
  <2> HIDE DEF given
  <2>5. given \in SUBSET Nat /\ given # {}
    BY <1>2, <2>2, <2>3
  <2>6. b + MaxCounter \in Nat /\ \A x \in given : x <= b + MaxCounter
    BY <1>2, <2>2
  <2>7. \E m \in given : \A x \in given : m >= x
    BY <2>5, <2>6, LargestThereIs
  <2>8. PICK m : m = J!Max(given)
    OBVIOUS
  <2>9. m \in given /\ \A x \in given : m >= x
    BY <2>7, <2>8 DEF J!Max
  <2>10. m \in Nat /\ m + 1 \in Nat /\ m + 1 \notin given
    BY <2>5, <2>9
  <2>11. J!Path("", name, m + 1).name = name /\ J!Path("", name, m + 1).suffix = m + 1
    BY DEF J!Path
  <2>12. J!Path("", name, m + 1) \notin DOMAIN sources
    BY <2>4, <2>10, <2>11
  <2> QED
    BY <1>1, <1>4, <2>8, <2>10, <2>12
<1> QED
  BY <1>3, <1>4

-----------------------------------------------------------------------------
\* What an import changes of itself.
LEMMA BecomesFacts ==
  ASSUME NEW i \in imports, NEW new, J!Becomes(i, new)
  PROVE  /\ new \in imports' /\ \A k \in imports' : k = new \/ (k \in imports /\ k # i)
         /\ \A k \in imports : k = i \/ k \in imports'
BY DEF J!Becomes

LEMMA PickKeepsJInv ==
  ASSUME ImportBounds, JInv, NEW selection \in Selections, J!Pick(selection)
  PROVE  JInv'
<1> DEFINE new == [id |-> asked.imports, left |-> selection, dest |-> J!Nothing, done |-> {}, ends |-> FALSE]
<1>1. /\ imports' = imports \cup {new} /\ toasts' = [toasts EXCEPT !.overlap = toasts.overlap \/ imports # {}]
      /\ UNCHANGED <<sources, textCaches, extracts, sourceList, armed, deletes, queued>>
  BY DEF J!Pick
<1>2. /\ DOMAIN toasts' = DOMAIN toasts /\ (toasts'.overlap <=> toasts.overlap \/ imports # {}) /\ toasts'.overlap \in BOOLEAN
      /\ toasts'.late = toasts.late /\ toasts'.leftover = toasts.leftover /\ toasts'.partial = toasts.partial
      /\ toasts'.brought = toasts.brought
  BY <1>1 DEF JInv, ImportTypes
<1>3. {"left", "dest", "done", "ends"} \subseteq DOMAIN new /\ new.dest = J!Nothing /\ new.left \in Seq(Picked)
  BY DEF ImportBounds
<1>4. \A i \in imports' : i = new \/ i \in imports
  BY <1>1
<1> HIDE DEF new
<1>5. ImportTypes'
  BY <1>1, <1>2, <1>3, <1>4 DEF JInv, ImportTypes
<1>6. SuffixesAreBounded'
  BY <1>1, <1>3, <1>4 DEF JInv, SuffixesAreBounded, J!Nothing
<1>7. ImportsAlone'
  BY <1>1, <1>2, <1>3, <1>4 DEF JInv, ImportsAlone, J!Nothing
<1>8. TextsAreOfTheirFiles' /\ BroughtIsQueued'
  BY <1>1, <1>2 DEF JInv, TextsAreOfTheirFiles, BroughtIsQueued
<1> QED
  BY <1>5, <1>6, <1>7, <1>8 DEF JInv

LEMMA FindDestKeepsJInv ==
  ASSUME ImportBounds, JInv, NEW i \in imports, J!FindDest(i)
  PROVE  JInv'
<1> DEFINE dest == J!getUniqueDestPath(Head(i.left).name)
           new == [i EXCEPT !.dest = dest]
<1>1. /\ J!Becomes(i, new) /\ UNCHANGED <<sources, textCaches, extracts, importing, sourceList, armed, deletes, queued, toasts, asked>>
  BY DEF J!FindDest
<1>2. dest.dir = "" /\ dest.suffix \in Nat /\ (Kind[dest.name] # "opaque" => dest \notin DOMAIN sources)
  <2>1. i.left \in Seq(Picked) /\ i.left # <<>>
    BY DEF JInv, ImportTypes, J!FindDest
  <2>2. PICK name : name = Head(i.left).name /\ name \in DOMAIN Kind
    <3>1. Head(i.left) \in Picked
      BY <2>1
    <3> QED
      BY <3>1 DEF ImportBounds
  <2>3. PICK suffix \in Nat : /\ dest = J!Path("", name, suffix)
                              /\ Kind[name] # "opaque" => J!Path("", name, suffix) \notin DOMAIN sources
    BY <2>2, DestIsFree DEF JInv
  <2> HIDE DEF dest
  <2>4. dest.dir = "" /\ dest.suffix = suffix /\ dest.name = name
    BY <2>3 DEF J!Path
  <2> QED
    BY <2>3, <2>4
<1> HIDE DEF dest
<1>3. i.left # <<>> /\ DOMAIN new = DOMAIN i /\ new.dest = dest /\ new.done = i.done /\ new.left = i.left
  BY DEF JInv, ImportTypes, J!FindDest
<1> HIDE DEF new
<1>4. /\ new \in imports' /\ \A k \in imports' : k = new \/ (k \in imports /\ k # i)
      /\ \A k \in imports : k = i \/ k \in imports'
  BY <1>1, BecomesFacts
<1>5. ImportTypes'
  BY <1>1, <1>3, <1>4 DEF JInv, ImportTypes
<1>6. SuffixesAreBounded'
  BY <1>1, <1>2, <1>3, <1>4 DEF JInv, SuffixesAreBounded, J!Nothing
<1>7. ImportsAlone'
  BY <1>1, <1>2, <1>3, <1>4 DEF JInv, ImportsAlone, J!Nothing
<1>8. TextsAreOfTheirFiles'
  BY <1>1 DEF JInv, TextsAreOfTheirFiles
<1>9. BroughtIsQueued'
  BY <1>1, <1>3, <1>4 DEF JInv, BroughtIsQueued
<1> QED
  BY <1>5, <1>6, <1>7, <1>8, <1>9 DEF JInv

LEMMA CopyKeepsJInv ==
  ASSUME ImportBounds, JInv, NEW i \in imports, NEW fails \in BOOLEAN, NEW keepsTime \in BOOLEAN,
         J!Copy(i, fails, keepsTime)
  PROVE  JInv'
<1> DEFINE over == [i EXCEPT !.left = Tail(i.left), !.dest = J!Nothing]
           next == IF fails THEN over ELSE [over EXCEPT !.done = over.done \cup {i.dest}]
           content == Head(i.left).content
<1>1. i.dest # J!Nothing /\ UNCHANGED <<importing, sourceList, armed, deletes, queued>> /\ J!Becomes(i, next)
  BY DEF J!Copy
<1>2. fails => UNCHANGED <<sources, textCaches, extracts, toasts>>
  BY DEF J!Copy
<1>3. ~fails => /\ J!Copied([p \in {i.dest} |-> content], keepsTime)
                /\ toasts' = [toasts EXCEPT !.brought = toasts.brought \cup {i.dest},
                                        !.late = toasts.late \/ J!Late({i.dest}),
                                        !.leftover = toasts.leftover \/ J!Stale({i.dest})]
  BY DEF J!Copy
<1>4. /\ DOMAIN next = DOMAIN i /\ next.dest = J!Nothing
      /\ next.done = IF fails THEN i.done ELSE i.done \cup {i.dest}
  BY DEF JInv, ImportTypes
<1>5. next.left \in Seq(Picked)
  <2>1. i.left \in Seq(Picked) /\ i.left # <<>> /\ next.left = Tail(i.left)
    BY <1>1 DEF JInv, ImportTypes
  <2> QED
    BY <2>1
<1> HIDE DEF next, content
<1>6. /\ next \in imports' /\ \A k \in imports' : k = next \/ (k \in imports /\ k # i)
      /\ \A k \in imports : k = i \/ k \in imports'
  BY <1>1, BecomesFacts
<1>7. /\ DOMAIN toasts' = DOMAIN toasts /\ toasts'.overlap = toasts.overlap /\ toasts'.partial = toasts.partial
      /\ toasts'.brought = IF fails THEN toasts.brought ELSE toasts.brought \cup {i.dest}
      /\ toasts'.late \in BOOLEAN /\ (~toasts'.late => ~toasts.late /\ (fails \/ ~J!Late({i.dest})))
      /\ toasts'.leftover \in BOOLEAN /\ (~toasts'.leftover => ~toasts.leftover /\ (fails \/ ~J!Stale({i.dest})))
  BY <1>2, <1>3 DEF JInv, ImportTypes
<1>8. ImportTypes'
  BY <1>1, <1>4, <1>5, <1>6, <1>7 DEF JInv, ImportTypes
<1>9. /\ fails => sources' = sources
      /\ ~fails => /\ DOMAIN sources' = DOMAIN sources \cup {i.dest} /\ sources'[i.dest] = content
                   /\ \A p \in DOMAIN sources : p # i.dest => sources'[p] = sources[p]
  BY <1>2, <1>3 DEF J!Copied, J!Put
<1>10. SuffixesAreBounded'
  <2>1. \A k \in imports' : k.dest # J!Nothing => k.dest.dir = "" /\ k.dest.suffix \in Nat
    BY <1>4, <1>6 DEF JInv, SuffixesAreBounded
  <2>2. PICK b \in Nat : \A p \in DOMAIN sources : p.suffix \in 0 .. b
    BY DEF JInv, SuffixesAreBounded
  <2>3. i.dest.suffix \in Nat
    BY <1>1 DEF JInv, SuffixesAreBounded
  <2>4. b + i.dest.suffix \in Nat /\ i.dest.suffix \in 0 .. b + i.dest.suffix
        /\ \A x \in 0 .. b : x \in 0 .. b + i.dest.suffix
    BY <2>2, <2>3
  <2>5. \A p \in DOMAIN sources' : p.suffix \in 0 .. b + i.dest.suffix
    BY <1>9, <2>2, <2>4
  <2> QED
    BY <2>1, <2>4, <2>5 DEF SuffixesAreBounded, J!Nothing
<1>11. ImportsAlone'
  BY <1>4, <1>6, <1>7, <1>9 DEF JInv, ImportsAlone, J!Nothing
<1>12. TextsAreOfTheirFiles'
  <2>1. CASE fails
    BY <1>2, <2>1 DEF JInv, TextsAreOfTheirFiles
  <2>2. CASE ~fails
    <3> SUFFICES ASSUME ~toasts'.late, ~toasts'.leftover
                 PROVE  /\ \A p \in DOMAIN textCaches' \cap DOMAIN sources' : textCaches'[p].valid => textCaches'[p].content = sources'[p]
                        /\ \A job \in extracts' : job.path \in DOMAIN sources' => job.content = sources'[job.path]
      BY DEF TextsAreOfTheirFiles
    <3>1. i.dest \notin DOMAIN textCaches /\ \A job \in extracts : job.path # i.dest
      BY <1>7, <2>2 DEF J!Stale, J!Late
    <3>2. DOMAIN textCaches' = DOMAIN textCaches /\ \A p \in DOMAIN textCaches : textCaches'[p] = textCaches[p]
      BY <1>3, <2>2, <3>1 DEF J!Copied
    <3>3. \A job \in extracts' : job \in extracts \/ (job.path = i.dest /\ job.content = content)
      BY <1>3, <2>2 DEF J!Copied, J!Extracted
    <3> QED
      BY <1>7, <1>9, <2>2, <3>1, <3>2, <3>3 DEF JInv, TextsAreOfTheirFiles
  <2> QED
    BY <2>1, <2>2
<1>13. BroughtIsQueued'
  BY <1>1, <1>4, <1>6, <1>7 DEF JInv, BroughtIsQueued
<1> QED
  BY <1>8, <1>10, <1>11, <1>12, <1>13 DEF JInv

LEMMA EndImportKeepsJInv ==
  ASSUME JInv, NEW i \in imports, J!EndImport(i) \/ J!Enqueue(i)
  PROVE  JInv'
<1>1. CASE J!EndImport(i)
  <2> DEFINE new == [i EXCEPT !.ends = TRUE]
  <2>1. J!Becomes(i, new) /\ UNCHANGED <<sources, textCaches, extracts, sourceList, armed, deletes, queued, toasts, asked>>
    BY <1>1 DEF J!EndImport
  <2>2. DOMAIN new = DOMAIN i /\ new.left = i.left /\ new.dest = i.dest /\ new.done = i.done
    BY DEF JInv, ImportTypes
  <2> HIDE DEF new
  <2>3. /\ new \in imports' /\ \A k \in imports' : k = new \/ (k \in imports /\ k # i)
        /\ \A k \in imports : k = i \/ k \in imports'
    BY <2>1, BecomesFacts
  <2>4. ImportTypes'
    BY <2>1, <2>2, <2>3 DEF JInv, ImportTypes, J!Nothing
  <2>5. SuffixesAreBounded' /\ ImportsAlone'
    BY <2>1, <2>2, <2>3 DEF JInv, SuffixesAreBounded, ImportsAlone, J!Nothing
  <2>6. TextsAreOfTheirFiles' /\ BroughtIsQueued'
    BY <2>1, <2>2, <2>3 DEF JInv, TextsAreOfTheirFiles, BroughtIsQueued
  <2> QED
    BY <2>4, <2>5, <2>6 DEF JInv
<1>2. CASE J!Enqueue(i)
  <2>1. /\ imports' = imports \ {i} /\ queued' = queued \cup i.done
        /\ UNCHANGED <<sources, textCaches, extracts, armed, deletes, toasts, asked>>
    BY <1>2 DEF J!Enqueue
  <2>2. ImportTypes' /\ SuffixesAreBounded' /\ ImportsAlone'
    BY <2>1 DEF JInv, ImportTypes, SuffixesAreBounded, ImportsAlone, J!Nothing
  <2>3. TextsAreOfTheirFiles' /\ BroughtIsQueued'
    BY <2>1 DEF JInv, TextsAreOfTheirFiles, BroughtIsQueued
  <2> QED
    BY <2>2, <2>3 DEF JInv
<1> QED
  BY <1>1, <1>2

LEMMA PickFolderKeepsJInv ==
  ASSUME ImportBounds, JInv, NEW folder \in Folders, NEW fails \in BOOLEAN, NEW keepsTime \in BOOLEAN,
         J!PickFolder(folder, fails, keepsTime)
  PROVE  /\ JInv'
         /\ \A p \in DOMAIN sources : p \in DOMAIN sources' /\ (sources'[p] # sources[p] => p.dir = folder.dir)
<1>1. PICK some \in SUBSET folder.files :
        LET new == {J!Path(folder.dir, f.name, 0) : f \in some}
            content == [p \in new |-> (CHOOSE f \in some : f.name = p.name).content] IN
        /\ J!Copied(content, keepsTime)
        /\ queued' = queued \cup (IF fails THEN {} ELSE {p \in new : p.name \in Ingested})
        /\ toasts' = [toasts EXCEPT !.brought = toasts.brought \cup {p \in new : p.name \in Ingested},
                                !.partial = toasts.partial \/ fails, !.overlap = toasts.overlap \/ imports # {},
                                !.late = toasts.late \/ J!Late(new), !.leftover = toasts.leftover \/ J!Stale(new)]
  BY DEF J!PickFolder
<1> DEFINE new == {J!Path(folder.dir, f.name, 0) : f \in some}
           content == [p \in new |-> (CHOOSE f \in some : f.name = p.name).content]
           more == {p \in new : p.name \in Ingested}
<1>2. /\ J!Copied(content, keepsTime) /\ queued' = queued \cup (IF fails THEN {} ELSE more)
      /\ toasts' = [toasts EXCEPT !.brought = toasts.brought \cup more,
                              !.partial = toasts.partial \/ fails, !.overlap = toasts.overlap \/ imports # {},
                              !.late = toasts.late \/ J!Late(new), !.leftover = toasts.leftover \/ J!Stale(new)]
      /\ UNCHANGED <<imports, armed, deletes>>
  BY <1>1 DEF J!PickFolder
<1>3. \A p \in new : p.dir = folder.dir /\ p.suffix = 0
  BY DEF J!Path
<1>4. DOMAIN content = new
  OBVIOUS
<1> HIDE DEF new, content, more
<1>5. /\ DOMAIN toasts' = DOMAIN toasts /\ toasts'.overlap \in BOOLEAN /\ toasts'.partial \in BOOLEAN
      /\ toasts'.brought = toasts.brought \cup more
      /\ toasts'.late \in BOOLEAN /\ (~toasts'.late => ~toasts.late /\ ~J!Late(new))
      /\ toasts'.leftover \in BOOLEAN /\ (~toasts'.leftover => ~toasts.leftover /\ ~J!Stale(new))
      /\ (~toasts'.overlap => ~toasts.overlap /\ imports = {}) /\ (~toasts'.partial => ~toasts.partial /\ ~fails)
  BY <1>2 DEF JInv, ImportTypes
<1>6. /\ DOMAIN sources' = DOMAIN sources \cup new /\ \A p \in new : sources'[p] = content[p]
      /\ \A p \in DOMAIN sources : p \notin new => sources'[p] = sources[p]
  BY <1>2, <1>4 DEF J!Copied, J!Put
<1>7. ImportTypes'
  BY <1>2, <1>5 DEF JInv, ImportTypes
<1>8. SuffixesAreBounded'
  <2>1. PICK b \in Nat : \A p \in DOMAIN sources : p.suffix \in 0 .. b
    BY DEF JInv, SuffixesAreBounded
  <2>2. 0 \in 0 .. b
    OBVIOUS
  <2>3. \A p \in DOMAIN sources' : p.suffix \in 0 .. b
    BY <1>3, <1>6, <2>1, <2>2
  <2> QED
    BY <1>2, <2>3 DEF JInv, SuffixesAreBounded, J!Nothing
<1>9. ImportsAlone'
  BY <1>2, <1>5 DEF ImportsAlone
<1>10. TextsAreOfTheirFiles'
  <2> SUFFICES ASSUME ~toasts'.late, ~toasts'.leftover
               PROVE  /\ \A p \in DOMAIN textCaches' \cap DOMAIN sources' : textCaches'[p].valid => textCaches'[p].content = sources'[p]
                      /\ \A job \in extracts' : job.path \in DOMAIN sources' => job.content = sources'[job.path]
    BY DEF TextsAreOfTheirFiles
  <2>1. (\A p \in new : p \notin DOMAIN textCaches) /\ \A job \in extracts : job.path \notin new
    BY <1>5 DEF J!Stale, J!Late
  <2>2. DOMAIN textCaches' = DOMAIN textCaches /\ \A p \in DOMAIN textCaches : textCaches'[p] = textCaches[p]
    BY <1>2, <1>4, <2>1 DEF J!Copied
  <2>3. \A job \in extracts' : job \in extracts \/ (job.path \in new /\ job.content = content[job.path])
    BY <1>2, <1>4 DEF J!Copied, J!Extracted
  <2> QED
    BY <1>5, <1>6, <2>1, <2>2, <2>3 DEF JInv, TextsAreOfTheirFiles
<1>11. BroughtIsQueued'
  BY <1>2, <1>5 DEF JInv, BroughtIsQueued
<1> QED
  BY <1>3, <1>6, <1>7, <1>8, <1>9, <1>10, <1>11 DEF JInv

\* Files and texts only go.
LEMMA FewerFilesKeepJInv ==
  ASSUME JInv, ImportTypes', UNCHANGED <<extracts, imports, queued>>,
         DOMAIN sources' \subseteq DOMAIN sources, \A p \in DOMAIN sources' : sources'[p] = sources[p],
         DOMAIN textCaches' \subseteq DOMAIN textCaches, \A p \in DOMAIN textCaches' : textCaches'[p] = textCaches[p],
         toasts'.overlap = toasts.overlap, toasts'.partial = toasts.partial, toasts'.brought = toasts.brought,
         ~toasts'.late => ~toasts.late, ~toasts'.leftover => ~toasts.leftover
  PROVE  JInv'
<1>1. SuffixesAreBounded' /\ ImportsAlone'
  BY DEF JInv, SuffixesAreBounded, ImportsAlone, J!Nothing
<1>2. TextsAreOfTheirFiles' /\ BroughtIsQueued'
  BY DEF JInv, TextsAreOfTheirFiles, BroughtIsQueued
<1> QED
  BY <1>1, <1>2 DEF JInv

LEMMA PreprocessedKeepsJInv ==
  ASSUME JInv, NEW job \in extracts, J!Preprocessed(job)
  PROVE  JInv'
<1>1. /\ extracts' = extracts \ {job} /\ textCaches' = J!Put(textCaches, [p \in {job.path} |-> [content |-> job.content, valid |-> TRUE]])
      /\ UNCHANGED <<sources, imports, importing, sourceList, armed, deletes, queued, toasts, asked>>
  BY DEF J!Preprocessed
<1>2. /\ DOMAIN textCaches' = DOMAIN textCaches \cup {job.path} /\ textCaches'[job.path].content = job.content
      /\ \A p \in DOMAIN textCaches : p # job.path => textCaches'[p] = textCaches[p]
  BY <1>1 DEF J!Put
<1>3. TextsAreOfTheirFiles'
  <2> SUFFICES ASSUME ~toasts.late, ~toasts.leftover
               PROVE  /\ \A p \in DOMAIN textCaches' \cap DOMAIN sources :
                           textCaches'[p].valid => textCaches'[p].content = sources[p]
                      /\ \A one \in extracts : one.path \in DOMAIN sources => one.content = sources[one.path]
    BY <1>1 DEF TextsAreOfTheirFiles
  <2>1. /\ \A p \in DOMAIN textCaches \cap DOMAIN sources :
              textCaches[p].valid => textCaches[p].content = sources[p]
        /\ \A one \in extracts : one.path \in DOMAIN sources => one.content = sources[one.path]
    BY DEF JInv, TextsAreOfTheirFiles
  <2> QED
    BY <1>2, <2>1
<1> QED
  BY <1>1, <1>3
  DEF JInv, ImportTypes, SuffixesAreBounded, ImportsAlone, BroughtIsQueued, J!Nothing

LEMMA FireKeepsJInv ==
  ASSUME JInv, NEW row, J!Fire(row)
  PROVE  JInv'
<1> DEFINE files == IF row.folder THEN {p \in sourceList : p.dir = row.path.dir} ELSE {row.path}
           new == [row |-> row, left |-> files, cached |-> J!Nothing, shown |-> files]
<1>1. deletes' = deletes \cup {new} /\ UNCHANGED <<sources, textCaches, extracts, imports, importing, sourceList, queued, toasts>>
  BY DEF J!Fire
<1>2. {"row", "left", "cached", "shown"} \subseteq DOMAIN new /\ new.left = new.shown
  OBVIOUS
<1> HIDE DEF new
<1>3. ImportTypes'
  BY <1>1, <1>2 DEF JInv, ImportTypes, J!Nothing
<1> QED
  BY <1>1, <1>3
  DEF JInv, TextsAreOfTheirFiles, SuffixesAreBounded, ImportsAlone, BroughtIsQueued, J!Nothing

\* A step of a deletion takes only what was confirmed.
LEMMA UnlinkKeepsJInv ==
  ASSUME JInv, NEW d \in deletes, NEW p \in d.left, J!Unlink(d, p)
  PROVE  JInv' /\ \A q \in DOMAIN sources : (q \notin DOMAIN sources' => J!Confirmed(q)) /\ (q \in DOMAIN sources' => sources'[q] = sources[q])
<1> DEFINE over == [d EXCEPT !.left = d.left \ {p}]
           on == [over EXCEPT !.cached = J!Path("", p.name, p.suffix)]
<1>1. /\ sources' = J!Without(sources, {p}) /\ toasts' = [toasts EXCEPT !.late = toasts.late \/ J!Late({p})]
      /\ UNCHANGED <<textCaches, extracts, imports, importing, sourceList, armed, queued, asked>>
      /\ \/ J!DeleteBecomes(d, on) \/ J!DeleteBecomes(d, over) \/ deletes' = deletes \ {d}
  BY DEF J!Unlink
<1>2. /\ DOMAIN over = DOMAIN d /\ over.left \subseteq over.shown
      /\ DOMAIN on = DOMAIN d /\ on.left \subseteq on.shown
  BY DEF JInv, ImportTypes
<1> HIDE DEF over, on
<1>3. \A e \in deletes' : e \in deletes \/ e = over \/ e = on
  BY <1>1 DEF J!DeleteBecomes
<1>4. /\ DOMAIN toasts' = DOMAIN toasts /\ toasts'.overlap = toasts.overlap /\ toasts'.partial = toasts.partial
      /\ toasts'.brought = toasts.brought /\ toasts'.leftover = toasts.leftover /\ toasts'.late \in BOOLEAN
      /\ (~toasts'.late => ~toasts.late)
  BY <1>1 DEF JInv, ImportTypes
<1>5. ImportTypes'
  BY <1>1, <1>2, <1>3, <1>4 DEF JInv, ImportTypes, J!Nothing
<1>6. DOMAIN sources' = DOMAIN sources \ {p} /\ \A q \in DOMAIN sources' : sources'[q] = sources[q]
  BY <1>1 DEF J!Without
<1>7. J!Confirmed(p)
  BY DEF JInv, ImportTypes, J!Confirmed
<1>8. JInv'
  BY <1>1, <1>4, <1>5, <1>6, FewerFilesKeepJInv
<1> QED
  BY <1>6, <1>7, <1>8

LEMMA DropCacheKeepsJInv ==
  ASSUME JInv, NEW d \in deletes, J!DropCache(d)
  PROVE  JInv'
<1> DEFINE on == [d EXCEPT !.cached = J!Nothing]
<1>1. /\ J!DeleteBecomes(d, on) /\ textCaches' = J!Without(textCaches, {d.cached})
      /\ UNCHANGED <<sources, extracts, imports, importing, sourceList, armed, queued, toasts, asked>>
  BY DEF J!DropCache
<1>2. DOMAIN on = DOMAIN d /\ on.left \subseteq on.shown
  BY DEF JInv, ImportTypes
<1> HIDE DEF on
<1>3. \A e \in deletes' : e \in deletes \/ e = on
  BY <1>1 DEF J!DeleteBecomes
<1>4. ImportTypes'
  BY <1>1, <1>2, <1>3 DEF JInv, ImportTypes, J!Nothing
<1>5. DOMAIN textCaches' \subseteq DOMAIN textCaches /\ \A q \in DOMAIN textCaches' : textCaches'[q] = textCaches[q]
  BY <1>1 DEF J!Without
<1> QED
  BY <1>1, <1>4, <1>5, FewerFilesKeepJInv

LEMMA EndDeleteKeepsJInv ==
  ASSUME JInv, NEW d \in deletes, J!EndDelete(d)
  PROVE  JInv' /\ \A q \in DOMAIN sources : (q \notin DOMAIN sources' => J!Confirmed(q)) /\ (q \in DOMAIN sources' => sources'[q] = sources[q])
<1> DEFINE inside == {p \in DOMAIN sources \cup DOMAIN textCaches : d.row.folder /\ p.dir = d.row.path.dir}
<1>1. /\ deletes' = deletes \ {d} /\ sources' = J!Without(sources, inside) /\ textCaches' = J!Without(textCaches, inside)
      /\ toasts' = [toasts EXCEPT !.late = toasts.late \/ J!Late(inside)]
      /\ UNCHANGED <<extracts, imports, importing, armed, queued, asked>>
  BY DEF J!EndDelete
<1>2. \A q \in inside : J!Confirmed(q)
  BY DEF J!Confirmed
<1> HIDE DEF inside
<1>3. /\ DOMAIN toasts' = DOMAIN toasts /\ toasts'.overlap = toasts.overlap /\ toasts'.partial = toasts.partial
      /\ toasts'.brought = toasts.brought /\ toasts'.leftover = toasts.leftover /\ toasts'.late \in BOOLEAN
      /\ (~toasts'.late => ~toasts.late)
  BY <1>1 DEF JInv, ImportTypes
<1>4. ImportTypes'
  BY <1>1, <1>3 DEF JInv, ImportTypes, J!Nothing
<1>5. /\ DOMAIN sources' = DOMAIN sources \ inside /\ \A q \in DOMAIN sources' : sources'[q] = sources[q]
      /\ DOMAIN textCaches' \subseteq DOMAIN textCaches /\ \A q \in DOMAIN textCaches' : textCaches'[q] = textCaches[q]
  BY <1>1 DEF J!Without
<1>6. JInv'
  BY <1>1, <1>3, <1>4, <1>5, FewerFilesKeepJInv
<1> QED
  BY <1>2, <1>5, <1>6

LEMMA NextJInv ==
  ASSUME ImportBounds, JInv, [J!Next]_(J!vars)
  PROVE  JInv'
<1>1. CASE UNCHANGED J!vars \/ J!Refresh \/ J!Disarm \/ \E row \in J!Rows : J!Arm(row)
  <2>1. UNCHANGED <<sources, textCaches, extracts, imports, deletes, queued, toasts>>
    BY <1>1 DEF J!vars, J!Refresh, J!Disarm, J!Arm
  <2> QED
    BY <2>1 DEF JInv, ImportTypes, TextsAreOfTheirFiles, SuffixesAreBounded, ImportsAlone, BroughtIsQueued, J!Nothing
<1> QED
  BY <1>1, PickKeepsJInv, FindDestKeepsJInv, CopyKeepsJInv, EndImportKeepsJInv, PickFolderKeepsJInv,
     PreprocessedKeepsJInv, FireKeepsJInv, UnlinkKeepsJInv, DropCacheKeepsJInv, EndDeleteKeepsJInv
  DEF J!Next

\* A step that replaces a file of the outermost folder is a copy to a name that
\* an import next to it took.
LEMMA StepKeepsFiles ==
  ASSUME ImportBounds, JInv, [J!Next]_(J!vars)
  PROVE  J!FilesAreKept
<1>1. CASE \E i \in imports, fails, keeps \in BOOLEAN : J!Copy(i, fails, keeps)
  <2>1. PICK i \in imports, fails \in BOOLEAN, keeps \in BOOLEAN : J!Copy(i, fails, keeps)
    BY <1>1
  <2>2. /\ i.dest # J!Nothing
        /\ \/ sources' = sources
           \/ /\ sources' = J!Put(sources, [p \in {i.dest} |-> Head(i.left).content])
              /\ toasts' = [toasts EXCEPT !.brought = toasts.brought \cup {i.dest},
                                      !.late = toasts.late \/ J!Late({i.dest}),
                                      !.leftover = toasts.leftover \/ J!Stale({i.dest})]
    BY <2>1 DEF J!Copy, J!Copied
  <2>3. CASE sources' = sources
    BY <2>3 DEF J!FilesAreKept
  <2>4. CASE sources' # sources
    <3>1. /\ DOMAIN sources' = DOMAIN sources \cup {i.dest} /\ \A p \in DOMAIN sources : p # i.dest => sources'[p] = sources[p]
          /\ toasts'.overlap = toasts.overlap
      BY <2>2, <2>4 DEF J!Put, JInv, ImportTypes
    <3>2. i.dest \in DOMAIN sources /\ Kind[i.dest.name] # "opaque" => toasts.overlap
      BY <2>2 DEF JInv, ImportsAlone, ImportTypes
    <3> QED
      BY <3>1, <3>2 DEF J!FilesAreKept
  <2> QED
    BY <2>3, <2>4
<1>2. CASE \E folder \in Folders, fails, keeps \in BOOLEAN : J!PickFolder(folder, fails, keeps)
  BY <1>2, PickFolderKeepsJInv DEF J!FilesAreKept, ImportBounds
<1>3. CASE \E d \in deletes : J!EndDelete(d) \/ (\E p \in d.left : J!Unlink(d, p))
  BY <1>3, UnlinkKeepsJInv, EndDeleteKeepsJInv DEF J!FilesAreKept
<1>4. CASE UNCHANGED sources
  BY <1>4 DEF J!FilesAreKept
<1> QED
  BY <1>1, <1>2, <1>3, <1>4
  DEF J!Next, J!vars, J!Pick, J!FindDest, J!EndImport, J!Enqueue, J!Preprocessed, J!Refresh, J!Disarm, J!Arm, J!Fire,
      J!DropCache

\* The text kept of a source is that of the file, and what an import brought in
\* is queued, but for what was replaced while it was read; an import alone
\* writes over no file that can be read, and no file goes that was not shown
\* when its deletion was confirmed (sources-view.tsx, commands/fs.rs): for any
\* files, folders and kinds of file.
THEOREM ImportsKeepFiles ==
  ASSUME ImportBounds
  PROVE  J!Spec => []J!TextsAreCurrent /\ [][J!FilesAreKept]_(J!vars)
<1>1. J!Init => JInv
  BY InitJInv
<1>2. JInv /\ [J!Next]_(J!vars) => JInv'
  BY NextJInv
<1>3. JInv => J!TextsAreCurrent
  BY JInvSuffices
<1>4. JInv /\ [J!Next]_(J!vars) => J!FilesAreKept
  BY StepKeepsFiles
<1> QED
  BY <1>1, <1>2, <1>3, <1>4, PTL DEF J!Spec

-----------------------------------------------------------------------------
(***************************************************************************)
(* The settings.                                                           *)
(***************************************************************************)
NoneIsNoPreset == S!NoPreset \notin Presets

Texts == Values \cup {Default}
Hosts == Texts \cup {S!Unset, S!Seeded}
Actives == Presets \cup {S!NoPreset}
Models == [preset : Actives, value : Texts]
Stores == [llm : Models, overrides : [Presets -> Texts], active : Actives, embedding : Texts, proxy : Texts,
           network : Hosts]
Drafts == [llm : Models, embedding : Texts, proxy : Texts, network : Hosts]
PersistChains ==
  {c \in [kind : {"persist"}, step : 1 .. 3, overrides : [Presets -> Texts], active : Actives] :
     c.step = 3 => c.active # S!NoPreset}
SaveChains == [kind : {"save"}, step : 1 .. 6, draft : Drafts]
Chains == PersistChains \cup SaveChains
SettingsTypes ==
  /\ store \in Stores /\ mem \in Stores /\ disk \in Stores /\ draft \in Drafts /\ env \in Texts
  /\ chains \in Seq(Chains)
  /\ bounds \in [edits : Nat, saves : Nat, crashes : Nat]

\* The chains of one kind that are at some of their steps, and which of them
\* was begun last: that at the earliest step, of these the one further behind.
At(s, k, lo, hi) == {i \in 1 .. Len(s) : s[i].kind = k /\ s[i].step >= lo /\ s[i].step <= hi}
Newest(s, i, Z) ==
  i \in Z /\ \A j \in Z \ {i} : s[i].step < s[j].step \/ (s[i].step = s[j].step /\ i > j)
\* The same chain, though a step further.
SameChain(c, d) ==
  /\ c.kind = d.kind
  /\ c.kind = "persist" => c.overrides = d.overrides /\ c.active = d.active
  /\ c.kind = "save" => c.draft = d.draft

\* A chain is in the class that has to set what the bridge holds, or nothing
\* is, and then the two agree.
OverridesAgree ==
  /\ \A i \in 1 .. Len(chains) : Newest(chains, i, At(chains, "persist", 1, 1)) =>
       chains[i].overrides = store.overrides
  /\ At(chains, "persist", 1, 1) = {} => mem.overrides = store.overrides
ActiveAgrees ==
  /\ \A i \in 1 .. Len(chains) : Newest(chains, i, At(chains, "persist", 1, 2)) =>
       chains[i].active = store.active /\ chains[i].overrides = store.overrides
  /\ At(chains, "persist", 1, 2) = {} =>
       /\ mem.active = store.active
       /\ store.active # S!NoPreset => store.llm = S!Resolved(store.active, store.overrides)
EmbeddingAgrees ==
  /\ \A i \in 1 .. Len(chains) : Newest(chains, i, At(chains, "save", 2, 2)) =>
       chains[i].draft.embedding = store.embedding
  /\ At(chains, "save", 2, 2) = {} => mem.embedding = store.embedding
ProxyAgrees ==
  /\ \A i \in 1 .. Len(chains) : Newest(chains, i, At(chains, "save", 3, 3)) =>
       chains[i].draft.proxy = store.proxy
  /\ At(chains, "save", 3, 3) = {} => mem.proxy = store.proxy
  /\ At(chains, "save", 4, 4) = {} => disk.proxy = mem.proxy
EnvAgrees ==
  /\ \A i \in 1 .. Len(chains) : Newest(chains, i, At(chains, "save", 3, 6)) =>
       chains[i].draft.proxy = store.proxy
  /\ At(chains, "save", 3, 6) = {} => env = store.proxy
NetworkAgrees ==
  /\ \A i \in 1 .. Len(chains) : Newest(chains, i, At(chains, "save", 5, 5)) =>
       chains[i].draft.network = store.network
  /\ At(chains, "save", 5, 5) = {} /\ mem.network # S!Unset => store.network = mem.network

\* The model: who has yet to write it down, in the order they will, unless a
\* chain has still to make one of its preset.
Writers(s) ==
  {i \in 1 .. Len(s) : (s[i].kind = "persist" /\ s[i].step = 3) \/ (s[i].kind = "save" /\ s[i].step = 1)}
Unresolved(s) ==
  {i \in 1 .. Len(s) : s[i].kind = "persist" /\ s[i].step <= 2 /\ s[i].active # S!NoPreset}
ModelOf(c) == IF c.kind = "persist" THEN S!Resolved(c.active, c.overrides) ELSE c.draft.llm
LastOf(i, Z) == i \in Z /\ \A j \in Z : j <= i
ModelAgrees ==
  /\ draft.llm = store.llm
  /\ Unresolved(chains) = {} =>
       /\ \A i \in 1 .. Len(chains) : LastOf(i, Writers(chains)) => ModelOf(chains[i]) = store.llm
       /\ Writers(chains) = {} => mem.llm = store.llm

\* What the one save there was has done so far.
OneSaveSoFar ==
  /\ bounds.saves = 0 => \A i \in 1 .. Len(chains) : chains[i].kind # "save"
  /\ bounds.saves = 1 =>
       /\ \A i, j \in 1 .. Len(chains) : chains[i].kind = "save" /\ chains[j].kind = "save" => i = j
       /\ \A i \in 1 .. Len(chains) : chains[i].kind = "save" =>
            /\ chains[i].step >= 2 => store.embedding = chains[i].draft.embedding
            /\ chains[i].step >= 3 => /\ mem.embedding = chains[i].draft.embedding
                                      /\ store.proxy = chains[i].draft.proxy
            /\ chains[i].step >= 4 => mem.proxy = chains[i].draft.proxy
            /\ chains[i].step >= 5 => store.network = chains[i].draft.network
            /\ chains[i].step >= 6 => mem.network = chains[i].draft.network

Agreements == /\ OverridesAgree /\ ActiveAgrees /\ EmbeddingAgrees /\ ProxyAgrees /\ EnvAgrees
              /\ NetworkAgrees /\ ModelAgrees /\ OneSaveSoFar
SInv == SettingsTypes /\ Agreements

-----------------------------------------------------------------------------
\* The chains after a step: a new one behind the others, the first one behind
\* the others and a step further, the first one gone.
Further(c) == [c EXCEPT !.step = c.step + 1]

LEMMA ChainFacts ==
  ASSUME NEW c \in Chains
  PROVE  /\ c.kind \in {"persist", "save"} /\ c.step \in Nat /\ c.step >= 1
         /\ c.kind = "persist" => c \in PersistChains
         /\ c.kind = "save" => c \in SaveChains
         /\ Further(c).step = c.step + 1 /\ SameChain(Further(c), c)
         /\ c.kind = "persist" /\ (c.step = 1 \/ (c.step = 2 /\ c.active # S!NoPreset)) => Further(c) \in Chains
         /\ c.kind = "save" /\ c.step < 6 => Further(c) \in Chains
BY DEF Chains, PersistChains, SaveChains, Further, SameChain

LEMMA AppendedFacts ==
  ASSUME NEW s \in Seq(Chains), NEW c \in Chains
  PROVE  /\ Append(s, c) \in Seq(Chains) /\ Len(s) \in Nat /\ Len(Append(s, c)) = Len(s) + 1
         /\ Append(s, c)[Len(s) + 1] = c
         /\ \A i \in 1 .. Len(s) : Append(s, c)[i] = s[i] /\ s[i] \in Chains
OBVIOUS

LEMMA TailFacts ==
  ASSUME NEW s \in Seq(Chains), s # <<>>
  PROVE  /\ Tail(s) \in Seq(Chains) /\ Head(s) = s[1] /\ s[1] \in Chains
         /\ Len(s) \in Nat \ {0} /\ Len(Tail(s)) = Len(s) - 1
         /\ \A i \in 1 .. Len(s) - 1 : Tail(s)[i] = s[i + 1]
         /\ \A i \in 1 .. Len(s) : s[i] \in Chains
<1>1. Len(s) \in Nat \ {0}
  BY EmptySeq
<1> QED
  BY <1>1, HeadTailProperties

LEMMA SettingFacts ==
  ASSUME NEW s \in Seq(Chains), s # <<>>, Further(Head(s)) \in Chains
  PROVE  LET t == Append(Tail(s), Further(Head(s))) IN
         /\ t \in Seq(Chains) /\ Head(s) = s[1] /\ s[1] \in Chains
         /\ Len(s) \in Nat \ {0} /\ Len(t) = Len(s) /\ t[Len(s)] = Further(s[1])
         /\ \A i \in 1 .. Len(s) - 1 : t[i] = s[i + 1]
         /\ \A i \in 1 .. Len(s) : s[i] \in Chains
BY TailFacts, AppendedFacts

-----------------------------------------------------------------------------
\* A class lost none of those that are to write for it.
Stays(s, t, k, lo, hi) ==
  /\ At(t, k, lo, hi) = {} => At(s, k, lo, hi) = {}
  /\ \A i \in 1 .. Len(t) : Newest(t, i, At(t, k, lo, hi)) =>
       \E j \in 1 .. Len(s) : Newest(s, j, At(s, k, lo, hi)) /\ SameChain(t[i], s[j])

\* A chain that begins is the newest of the first class it is in, and is in no
\* other.
LEMMA BegunIsNewest ==
  ASSUME NEW s \in Seq(Chains), NEW c \in Chains, NEW hi \in Nat, c.step = 1, hi >= 1,
         NEW i \in 1 .. Len(s) + 1, Newest(Append(s, c), i, At(Append(s, c), c.kind, 1, hi))
  PROVE  i = Len(s) + 1
<1> DEFINE t == Append(s, c)
<1>1. /\ Len(s) \in Nat /\ Len(t) = Len(s) + 1 /\ t[Len(s) + 1] = c
      /\ \A j \in 1 .. Len(s) : t[j] = s[j] /\ s[j] \in Chains /\ s[j].step \in Nat
  BY AppendedFacts, ChainFacts
<1> HIDE DEF t
<1>2. Len(s) + 1 \in At(t, c.kind, 1, hi)
  BY <1>1 DEF At
<1>3. i \in At(t, c.kind, 1, hi)
  BY DEF Newest, t
<1>4. ASSUME i # Len(s) + 1 PROVE FALSE
  <2>1. t[i].step < c.step \/ (t[i].step = c.step /\ i > Len(s) + 1)
    BY <1>1, <1>2, <1>4 DEF Newest, t
  <2>2. t[i].step >= 1
    BY <1>3 DEF At
  <2>3. i \in 1 .. Len(s) /\ t[i].step \in Nat
    BY <1>1, <1>4
  <2> QED
    BY <1>1, <2>1, <2>2, <2>3
<1> QED
  BY <1>4

LEMMA BegunIsElsewhere ==
  ASSUME NEW s \in Seq(Chains), NEW c \in Chains, NEW k, NEW lo \in Nat, NEW hi \in Nat,
         c.step = 1, c.kind # k \/ lo > 1
  PROVE  Stays(s, Append(s, c), k, lo, hi)
<1> DEFINE t == Append(s, c)
<1>1. /\ Len(s) \in Nat /\ Len(t) = Len(s) + 1 /\ t[Len(s) + 1] = c
      /\ \A j \in 1 .. Len(s) : t[j] = s[j]
  BY AppendedFacts
<1> HIDE DEF t
<1>2. At(t, k, lo, hi) = At(s, k, lo, hi)
  BY <1>1 DEF At
<1>3. \A i \in At(s, k, lo, hi) : i \in 1 .. Len(s)
  BY DEF At
<1>4. \A i : Newest(t, i, At(t, k, lo, hi)) => i \in 1 .. Len(s) /\ Newest(s, i, At(s, k, lo, hi))
  BY <1>1, <1>2, <1>3 DEF Newest
<1> QED
  BY <1>1, <1>2, <1>4 DEF t, Stays, SameChain

\* What happens to a class when the first chain goes a step further.
LEMMA FurtherInside ==
  ASSUME NEW s \in Seq(Chains), s # <<>>, Further(Head(s)) \in Chains, NEW lo \in Nat, NEW hi \in Nat,
         lo <= s[1].step, s[1].step + 1 <= hi,
         NEW t, t = Append(Tail(s), Further(Head(s)))
  PROVE  Stays(s, t, s[1].kind, lo, hi)
<1> DEFINE n == Len(s)
           k == s[1].kind
<1>1. /\ n \in Nat \ {0} /\ Len(t) = n /\ t[n] = Further(s[1])
      /\ \A i \in 1 .. n - 1 : t[i] = s[i + 1]
      /\ \A i \in 1 .. n : s[i] \in Chains /\ s[i].step \in Nat
      /\ t[n].step = s[1].step + 1 /\ SameChain(t[n], s[1]) /\ s[1].step \in Nat /\ t[n].kind = k
  BY SettingFacts, ChainFacts DEF SameChain
<1>2. n \in At(t, k, lo, hi) /\ 1 \in At(s, k, lo, hi)
  BY <1>1 DEF At
<1>3. \A i \in 1 .. n - 1 : i \in At(t, k, lo, hi) <=> i + 1 \in At(s, k, lo, hi)
  BY <1>1 DEF At
<1>4. ASSUME NEW i \in 1 .. n, Newest(t, i, At(t, k, lo, hi))
      PROVE  \E j \in 1 .. n : Newest(s, j, At(s, k, lo, hi)) /\ SameChain(t[i], s[j])
  <2>1. CASE i = n
    <3>1. ASSUME NEW j \in At(s, k, lo, hi) \ {1}
          PROVE  s[1].step < s[j].step \/ (s[1].step = s[j].step /\ 1 > j)
      <4>1. j \in 1 .. n /\ j - 1 \in 1 .. n - 1 /\ s[j].step \in Nat
        BY <1>1 DEF At
      <4>2. j - 1 \in At(t, k, lo, hi) \ {n} /\ t[j - 1] = s[j]
        BY <1>1, <1>3, <4>1
      <4>3. t[n].step < t[j - 1].step \/ (t[n].step = t[j - 1].step /\ n > j - 1)
        BY <1>4, <2>1, <4>2 DEF Newest
      <4> QED
        BY <1>1, <4>1, <4>2, <4>3
    <3>2. Newest(s, 1, At(s, k, lo, hi))
      BY <1>2, <3>1 DEF Newest
    <3> QED
      BY <1>1, <2>1, <3>2
  <2>2. CASE i # n
    <3>1. i \in 1 .. n - 1 /\ i + 1 \in 1 .. n /\ t[i] = s[i + 1] /\ s[i + 1].step \in Nat
      <4>1. n \in Nat /\ i \in 1 .. n /\ i # n
        BY <1>1, <2>2
      <4>2. i \in 1 .. n - 1 /\ i + 1 \in 1 .. n
        BY <4>1
      <4> QED
        BY <1>1, <4>2
    <3>2. i + 1 \in At(s, k, lo, hi)
      BY <1>3, <1>4, <3>1 DEF Newest
    <3>3. ASSUME NEW j \in At(s, k, lo, hi) \ {i + 1}
          PROVE  s[i + 1].step < s[j].step \/ (s[i + 1].step = s[j].step /\ i + 1 > j)
      <4>1. j \in 1 .. n /\ s[j].step \in Nat
        BY <1>1 DEF At
      <4>2. CASE j = 1
        <5>1. t[i].step < t[n].step \/ (t[i].step = t[n].step /\ i > n)
          BY <1>2, <1>4, <2>2 DEF Newest
        <5> QED
          BY <1>1, <3>1, <4>1, <4>2, <5>1
      <4>3. CASE j # 1
        <5>1. j - 1 \in 1 .. n - 1
          BY <4>1, <4>3, <1>1
        <5>2. j - 1 \in At(t, k, lo, hi) \ {i} /\ t[j - 1] = s[j]
          BY <1>1, <1>3, <3>1, <4>1, <5>1
        <5>3. t[i].step < t[j - 1].step \/ (t[i].step = t[j - 1].step /\ i > j - 1)
          BY <1>4, <5>2 DEF Newest
        <5> QED
          BY <1>1, <3>1, <4>1, <5>1, <5>2, <5>3
      <4> QED
        BY <4>2, <4>3
    <3>4. Newest(s, i + 1, At(s, k, lo, hi))
      BY <3>2, <3>3 DEF Newest
    <3> QED
      BY <3>1, <3>4 DEF SameChain
  <2> QED
    BY <2>1, <2>2
<1> QED
  BY <1>1, <1>2, <1>4 DEF Stays

\* The first chain has left the class, whether it goes on or ends.
Behind(s, t) ==
  /\ Len(t) \in {Len(s) - 1, Len(s)}
  /\ \A i \in 1 .. Len(s) - 1 : t[i] = s[i + 1]

LEMMA HeadLeaves ==
  ASSUME NEW s \in Seq(Chains), s # <<>>, NEW t, Behind(s, t), NEW k, NEW lo \in Nat, NEW hi \in Nat,
         1 \in At(s, k, lo, hi), s[1].step = hi, Len(s) \notin At(t, k, lo, hi)
  PROVE  /\ At(t, k, lo, hi) = {} => Newest(s, 1, At(s, k, lo, hi))
         /\ \A i \in 1 .. Len(t) : Newest(t, i, At(t, k, lo, hi)) =>
              \E j \in 1 .. Len(s) : Newest(s, j, At(s, k, lo, hi)) /\ SameChain(t[i], s[j])
<1> DEFINE n == Len(s)
<1>1. /\ n \in Nat \ {0} /\ Len(t) \in {n - 1, n} /\ \A i \in 1 .. n - 1 : t[i] = s[i + 1]
      /\ \A i \in 1 .. n : s[i] \in Chains /\ s[i].step \in Nat
  BY TailFacts, ChainFacts DEF Behind
<1>2. \A i \in 1 .. n - 1 : i \in At(t, k, lo, hi) <=> i + 1 \in At(s, k, lo, hi)
  BY <1>1 DEF At
<1>3. \A i \in At(t, k, lo, hi) : i \in 1 .. n - 1
  BY <1>1 DEF At
<1>4. ASSUME At(t, k, lo, hi) = {} PROVE Newest(s, 1, At(s, k, lo, hi))
  <2>1. \A j \in At(s, k, lo, hi) : j = 1
    <3> SUFFICES ASSUME NEW j \in At(s, k, lo, hi), j # 1 PROVE FALSE
      OBVIOUS
    <3>1. j \in 1 .. n
      BY DEF At
    <3>2. j - 1 \in 1 .. n - 1 /\ (j - 1) + 1 = j
      BY <3>1, <1>1
    <3>3. j - 1 \in At(t, k, lo, hi)
      BY <1>2, <3>2
    <3> QED
      BY <1>4, <3>3
  <2> QED
    BY <2>1 DEF Newest
<1>5. ASSUME NEW i, Newest(t, i, At(t, k, lo, hi))
      PROVE  \E j \in 1 .. n : Newest(s, j, At(s, k, lo, hi)) /\ SameChain(t[i], s[j])
  <2>1. i \in 1 .. n - 1 /\ i + 1 \in 1 .. n /\ t[i] = s[i + 1] /\ s[i + 1].step \in Nat
    BY <1>1, <1>3, <1>5 DEF Newest
  <2>2. i + 1 \in At(s, k, lo, hi)
    BY <1>2, <1>5, <2>1 DEF Newest
  <2>3. ASSUME NEW j \in At(s, k, lo, hi) \ {i + 1}
        PROVE  s[i + 1].step < s[j].step \/ (s[i + 1].step = s[j].step /\ i + 1 > j)
    <3>1. j \in 1 .. n /\ s[j].step \in Nat
      BY <1>1 DEF At
    <3>2. CASE j = 1
      BY <2>1, <2>2, <3>1, <3>2 DEF At
    <3>3. CASE j # 1
      <4>1. j - 1 \in 1 .. n - 1
        BY <3>1, <3>3, <1>1
      <4>2. j - 1 \in At(t, k, lo, hi) \ {i} /\ t[j - 1] = s[j]
        BY <1>1, <1>2, <2>1, <3>1, <4>1
      <4>3. t[i].step < t[j - 1].step \/ (t[i].step = t[j - 1].step /\ i > j - 1)
        BY <1>5, <4>2 DEF Newest
      <4> QED
        BY <1>1, <2>1, <3>1, <4>1, <4>2, <4>3
    <3> QED
      BY <3>2, <3>3
  <2>4. Newest(s, i + 1, At(s, k, lo, hi))
    BY <2>2, <2>3 DEF Newest
  <2> QED
    BY <2>1, <2>4 DEF SameChain
<1> QED
  BY <1>4, <1>5

\* The first chain is not of the class, before or after.
LEMMA HeadIsElsewhere ==
  ASSUME NEW s \in Seq(Chains), s # <<>>, NEW t, Behind(s, t), NEW k, NEW lo \in Nat, NEW hi \in Nat,
         1 \notin At(s, k, lo, hi), Len(s) \notin At(t, k, lo, hi)
  PROVE  Stays(s, t, k, lo, hi)
<1> DEFINE n == Len(s)
<1>1. /\ n \in Nat \ {0} /\ Len(t) \in {n - 1, n} /\ \A i \in 1 .. n - 1 : t[i] = s[i + 1]
      /\ \A i \in 1 .. n : s[i] \in Chains /\ s[i].step \in Nat
  BY TailFacts, ChainFacts DEF Behind
<1>2. \A i \in 1 .. n - 1 : i \in At(t, k, lo, hi) <=> i + 1 \in At(s, k, lo, hi)
  BY <1>1 DEF At
<1>3. \A i \in At(t, k, lo, hi) : i \in 1 .. n - 1
  BY <1>1 DEF At
<1>4. \A j \in At(s, k, lo, hi) : j - 1 \in 1 .. n - 1 /\ j - 1 \in At(t, k, lo, hi) /\ t[j - 1] = s[j]
  <2> SUFFICES ASSUME NEW j \in At(s, k, lo, hi)
               PROVE  j - 1 \in 1 .. n - 1 /\ j - 1 \in At(t, k, lo, hi) /\ t[j - 1] = s[j]
    OBVIOUS
  <2>1. j \in 1 .. n /\ j # 1
    BY DEF At
  <2>2. j - 1 \in 1 .. n - 1 /\ (j - 1) + 1 = j
    BY <1>1, <2>1
  <2> QED
    BY <1>1, <1>2, <2>2
<1>5. ASSUME NEW i, Newest(t, i, At(t, k, lo, hi))
      PROVE  \E j \in 1 .. n : Newest(s, j, At(s, k, lo, hi)) /\ SameChain(t[i], s[j])
  <2>1. i \in 1 .. n - 1 /\ i + 1 \in 1 .. n /\ t[i] = s[i + 1] /\ s[i + 1].step \in Nat
    BY <1>1, <1>3, <1>5 DEF Newest
  <2>2. i + 1 \in At(s, k, lo, hi)
    BY <1>2, <1>5, <2>1 DEF Newest
  <2>3. ASSUME NEW j \in At(s, k, lo, hi) \ {i + 1}
        PROVE  s[i + 1].step < s[j].step \/ (s[i + 1].step = s[j].step /\ i + 1 > j)
    <3>1. j - 1 \in At(t, k, lo, hi) \ {i} /\ t[j - 1] = s[j] /\ j \in Int
      <4>1. j \in 1 .. n
        BY DEF At
      <4> QED
        BY <1>1, <1>4, <2>1, <4>1
    <3>2. t[i].step < t[j - 1].step \/ (t[i].step = t[j - 1].step /\ i > j - 1)
      BY <1>5, <3>1 DEF Newest
    <3> QED
      BY <2>1, <3>1, <3>2
  <2>4. Newest(s, i + 1, At(s, k, lo, hi))
    BY <2>2, <2>3 DEF Newest
  <2> QED
    BY <2>1, <2>4 DEF SameChain
<1> QED
  BY <1>4, <1>5 DEF Stays

\* The first chain enters the class by its first step: it is the newest there.
LEMMA HeadEnters ==
  ASSUME NEW s \in Seq(Chains), s # <<>>, Further(Head(s)) \in Chains, NEW lo \in Nat, NEW hi \in Nat,
         s[1].step + 1 = lo, lo <= hi,
         NEW t, t = Append(Tail(s), Further(Head(s)))
  PROVE  /\ At(t, s[1].kind, lo, hi) # {}
         /\ \A i \in 1 .. Len(t) : Newest(t, i, At(t, s[1].kind, lo, hi)) => SameChain(t[i], s[1])
<1> DEFINE n == Len(s)
           k == s[1].kind
<1>1. /\ n \in Nat \ {0} /\ Len(t) = n /\ t[n] = Further(s[1]) /\ t \in Seq(Chains)
      /\ \A i \in 1 .. n - 1 : t[i] = s[i + 1]
      /\ \A i \in 1 .. n : s[i] \in Chains /\ s[i].step \in Nat
      /\ t[n].step = s[1].step + 1 /\ SameChain(t[n], s[1]) /\ s[1].step \in Nat /\ t[n].kind = k
  BY SettingFacts, ChainFacts DEF SameChain
<1>2. n \in At(t, k, lo, hi)
  BY <1>1 DEF At
<1>3. ASSUME NEW i \in 1 .. n, Newest(t, i, At(t, k, lo, hi)), i # n PROVE FALSE
  <2>1. i \in 1 .. n - 1 /\ t[i] = s[i + 1] /\ i + 1 \in 1 .. n
    <3>1. n \in Nat /\ i \in 1 .. n /\ i # n
      BY <1>1, <1>3
    <3>2. i \in 1 .. n - 1 /\ i + 1 \in 1 .. n
      BY <3>1
    <3> QED
      BY <1>1, <3>2
  <2>2. t[i].step \in Nat /\ t[i].step >= lo
    BY <1>1, <1>3, <2>1 DEF Newest, At
  <2>3. t[i].step < t[n].step \/ (t[i].step = t[n].step /\ i > n)
    BY <1>2, <1>3 DEF Newest
  <2> QED
    BY <1>1, <2>1, <2>2, <2>3
<1> QED
  BY <1>1, <1>2, <1>3

-----------------------------------------------------------------------------
\* The same of those that write the model, whose order is that of the chains.
LEMMA HeadWrites ==
  ASSUME NEW s \in Seq(Chains), s # <<>>, NEW t, Behind(s, t), Len(s) \notin Writers(t)
  PROVE  /\ \A i \in 1 .. Len(t) : LastOf(i, Writers(t)) =>
              i + 1 \in 1 .. Len(s) /\ LastOf(i + 1, Writers(s)) /\ t[i] = s[i + 1]
         /\ Writers(t) = {} => Writers(s) = {} \/ LastOf(1, Writers(s))
<1> DEFINE n == Len(s)
<1>1. n \in Nat \ {0} /\ Len(t) \in {n - 1, n} /\ \A i \in 1 .. n - 1 : t[i] = s[i + 1]
  BY TailFacts DEF Behind
<1>2. \A i \in Writers(t) : i \in 1 .. n - 1 /\ t[i] = s[i + 1] /\ i + 1 \in Writers(s) /\ i + 1 \in 1 .. n
  <2> SUFFICES ASSUME NEW i \in Writers(t)
               PROVE  i \in 1 .. n - 1 /\ t[i] = s[i + 1] /\ i + 1 \in Writers(s) /\ i + 1 \in 1 .. n
    OBVIOUS
  <2>1. i \in 1 .. Len(t) /\ i # n
    BY DEF Writers
  <2>2. i \in 1 .. n - 1 /\ i + 1 \in 1 .. n
    BY <1>1, <2>1
  <2> QED
    BY <1>1, <2>2 DEF Writers
<1>3. \A j \in Writers(s) : j \in 1 .. n /\ (j # 1 => j - 1 \in Writers(t))
  <2> SUFFICES ASSUME NEW j \in Writers(s) PROVE j \in 1 .. n /\ (j # 1 => j - 1 \in Writers(t))
    OBVIOUS
  <2>1. j \in 1 .. n
    BY DEF Writers
  <2>2. CASE j # 1
    <3>1. j - 1 \in 1 .. n - 1 /\ (j - 1) + 1 = j /\ j - 1 \in 1 .. Len(t)
      BY <1>1, <2>1, <2>2
    <3> QED
      BY <1>1, <2>1, <3>1 DEF Writers
  <2> QED
    BY <2>1, <2>2
<1>4. ASSUME NEW i \in 1 .. Len(t), LastOf(i, Writers(t)) PROVE LastOf(i + 1, Writers(s))
  <2>1. i \in Writers(t) /\ i \in 1 .. n - 1 /\ i + 1 \in Writers(s)
    BY <1>2, <1>4 DEF LastOf
  <2>2. ASSUME NEW j \in Writers(s) PROVE j <= i + 1
    <3>1. j \in 1 .. n /\ (j # 1 => j - 1 <= i)
      BY <1>3, <1>4 DEF LastOf
    <3> QED
      BY <1>1, <2>1, <3>1
  <2> QED
    BY <2>1, <2>2 DEF LastOf
<1>5. ASSUME Writers(t) = {}, Writers(s) # {} PROVE LastOf(1, Writers(s))
  <2>1. \A j \in Writers(s) : j = 1
    BY <1>3, <1>5
  <2> QED
    BY <1>5, <2>1 DEF LastOf
<1> QED
  BY <1>2, <1>4, <1>5 DEF LastOf

LEMMA HeadHasNoneToResolve ==
  ASSUME NEW s \in Seq(Chains), s # <<>>, NEW t, Behind(s, t),
         1 \in Unresolved(s) => Len(s) \in Unresolved(t), Unresolved(t) = {}
  PROVE  Unresolved(s) = {}
<1> DEFINE n == Len(s)
<1>1. n \in Nat \ {0} /\ Len(t) \in {n - 1, n} /\ \A i \in 1 .. n - 1 : t[i] = s[i + 1]
  BY TailFacts DEF Behind
<1> SUFFICES ASSUME NEW j \in Unresolved(s) PROVE FALSE
  OBVIOUS
<1>2. j \in 1 .. n /\ j # 1
  BY DEF Unresolved
<1>3. j - 1 \in 1 .. n - 1 /\ (j - 1) + 1 = j /\ j - 1 \in 1 .. Len(t)
  BY <1>1, <1>2
<1>4. j - 1 \in Unresolved(t)
  BY <1>1, <1>2, <1>3 DEF Unresolved
<1> QED
  BY <1>4

LEMMA BegunWrites ==
  ASSUME NEW s \in Seq(Chains), NEW c \in Chains, c.step = 1
  PROVE  LET t == Append(s, c) IN
         /\ c.kind = "persist" => Writers(t) = Writers(s)
         /\ c.kind = "save" => \A i : LastOf(i, Writers(t)) => i = Len(s) + 1
         /\ c.kind = "save" => Len(s) + 1 \in Writers(t)
         /\ c.kind = "save" \/ c.active = S!NoPreset => Unresolved(t) = Unresolved(s)
         /\ c.kind = "persist" /\ c.active # S!NoPreset => Unresolved(t) # {}
<1> DEFINE t == Append(s, c)
<1>1. /\ Len(s) \in Nat /\ Len(t) = Len(s) + 1 /\ t[Len(s) + 1] = c
      /\ \A j \in 1 .. Len(s) : t[j] = s[j]
  BY AppendedFacts
<1> HIDE DEF t
<1>2. c.kind = "persist" => Writers(t) = Writers(s)
  BY <1>1 DEF Writers
<1>3. c.kind = "save" => Len(s) + 1 \in Writers(t)
  BY <1>1 DEF Writers
<1>4. \A i \in Writers(t) : i \in 1 .. Len(s) + 1
  BY <1>1 DEF Writers
<1>5. c.kind = "save" => \A i : LastOf(i, Writers(t)) => i = Len(s) + 1
  BY <1>1, <1>3, <1>4 DEF LastOf
<1>6. (c.kind = "save" \/ c.active = S!NoPreset) => Unresolved(t) = Unresolved(s)
  BY <1>1 DEF Unresolved
<1>7. c.kind = "persist" /\ c.active # S!NoPreset => Len(s) + 1 \in Unresolved(t)
  BY <1>1 DEF Unresolved
<1> QED
  BY <1>2, <1>3, <1>5, <1>6, <1>7 DEF t

-----------------------------------------------------------------------------
\* Who agreed before agrees after, as long as the class lost none and neither
\* side changed.
LEMMA AgreementsStay ==
  ASSUME SettingsTypes, chains' \in Seq(Chains), Agreements
  PROVE  /\ Stays(chains, chains', "persist", 1, 1)
            /\ store'.overrides = store.overrides /\ mem'.overrides = mem.overrides => OverridesAgree'
         /\ Stays(chains, chains', "persist", 1, 2)
            /\ store'.overrides = store.overrides /\ store'.active = store.active /\ store'.llm = store.llm
            /\ mem'.active = mem.active => ActiveAgrees'
         /\ Stays(chains, chains', "save", 2, 2)
            /\ store'.embedding = store.embedding /\ mem'.embedding = mem.embedding => EmbeddingAgrees'
         /\ Stays(chains, chains', "save", 3, 3) /\ Stays(chains, chains', "save", 4, 4)
            /\ store'.proxy = store.proxy /\ mem'.proxy = mem.proxy /\ disk'.proxy = disk.proxy => ProxyAgrees'
         /\ Stays(chains, chains', "save", 3, 6)
            /\ store'.proxy = store.proxy /\ env' = env => EnvAgrees'
         /\ Stays(chains, chains', "save", 5, 5)
            /\ store'.network = store.network /\ mem'.network = mem.network => NetworkAgrees'
<1>1. \A s, k, lo, hi : \A i \in At(s, k, lo, hi) : s[i].kind = k
  BY DEF At
<1>2. \A s, k, lo, hi, i : Newest(s, i, At(s, k, lo, hi)) => s[i].kind = k
  BY <1>1 DEF Newest
<1>3. ASSUME Stays(chains, chains', "persist", 1, 1),
             store'.overrides = store.overrides, mem'.overrides = mem.overrides
      PROVE  OverridesAgree'
  BY <1>2, <1>3 DEF Agreements, OverridesAgree, Stays, SameChain
<1>4. ASSUME Stays(chains, chains', "persist", 1, 2), store'.overrides = store.overrides,
             store'.active = store.active, store'.llm = store.llm, mem'.active = mem.active
      PROVE  ActiveAgrees'
  BY <1>2, <1>4 DEF Agreements, ActiveAgrees, Stays, SameChain, S!Resolved
<1>5. ASSUME Stays(chains, chains', "save", 2, 2), store'.embedding = store.embedding,
             mem'.embedding = mem.embedding
      PROVE  EmbeddingAgrees'
  BY <1>2, <1>5 DEF Agreements, EmbeddingAgrees, Stays, SameChain
<1>6. ASSUME Stays(chains, chains', "save", 3, 3), Stays(chains, chains', "save", 4, 4),
             store'.proxy = store.proxy, mem'.proxy = mem.proxy, disk'.proxy = disk.proxy
      PROVE  ProxyAgrees'
  BY <1>2, <1>6 DEF Agreements, ProxyAgrees, Stays, SameChain
<1>7. ASSUME Stays(chains, chains', "save", 3, 6), store'.proxy = store.proxy, env' = env
      PROVE  EnvAgrees'
  BY <1>2, <1>7 DEF Agreements, EnvAgrees, Stays, SameChain
<1>8. ASSUME Stays(chains, chains', "save", 5, 5), store'.network = store.network,
             mem'.network = mem.network
      PROVE  NetworkAgrees'
  BY <1>2, <1>8 DEF Agreements, NetworkAgrees, Stays, SameChain, S!Unset
<1> QED
  BY <1>3, <1>4, <1>5, <1>6, <1>7, <1>8

-----------------------------------------------------------------------------
LEMMA InitSInv ==
  ASSUME S!Init
  PROVE  SInv
<1>1. S!Fresh \in Stores /\ DOMAIN S!Fresh = DOMAIN S!Fresh
  BY DEF S!Fresh, S!Builtin, Stores, Models, Actives, Texts, Hosts
<1>2. [S!Fresh EXCEPT !.network = S!Unset] \in Stores
  BY <1>1 DEF Stores, Hosts
<1>3. S!DraftOf(S!Fresh) \in Drafts /\ S!DraftOf(S!Fresh).llm = S!Fresh.llm
  BY <1>1 DEF S!DraftOf, Stores, Drafts
<1>4. SettingsTypes
  BY <1>1, <1>2, <1>3 DEF S!Init, SettingsTypes, Texts
<1>5. Len(chains) = 0
  BY DEF S!Init
<1>6. /\ store.active = S!NoPreset
      /\ mem.overrides = store.overrides /\ mem.active = store.active /\ mem.embedding = store.embedding
      /\ mem.proxy = store.proxy /\ mem.llm = store.llm /\ mem.network = S!Unset /\ disk.proxy = mem.proxy
      /\ env = store.proxy /\ draft.llm = store.llm /\ bounds.saves = 0
  BY <1>3 DEF S!Init, S!Fresh
<1> QED
  BY <1>4, <1>5, <1>6
  DEF SInv, Agreements, OverridesAgree, ActiveAgrees, EmbeddingAgrees, ProxyAgrees, EnvAgrees, NetworkAgrees,
      ModelAgrees, OneSaveSoFar

LEMMA EditKeepsSInv ==
  ASSUME SInv, NEW k \in S!Drafted, NEW v \in Values, S!Edit(k, v)
  PROVE  SInv'
<1>1. /\ draft' = [draft EXCEPT ![k] = v] /\ UNCHANGED <<store, mem, disk, env, chains>>
      /\ bounds' = [bounds EXCEPT !.edits = @ + 1]
  BY DEF S!Edit, S!Edited
<1>2. draft' \in Drafts /\ draft'.llm = draft.llm
  BY <1>1 DEF SInv, SettingsTypes, Drafts, S!Drafted, Texts, Hosts
<1>3. bounds' \in [edits : Nat, saves : Nat, crashes : Nat] /\ bounds'.saves = bounds.saves
  BY <1>1 DEF SInv, SettingsTypes
<1> QED
  BY <1>1, <1>2, <1>3
  DEF SInv, SettingsTypes, Agreements, OverridesAgree, ActiveAgrees, EmbeddingAgrees, ProxyAgrees, EnvAgrees,
      NetworkAgrees, ModelAgrees, OneSaveSoFar

\* A chain of a preset begins, with what the store has by then.
LEMMA PersistBegins ==
  ASSUME SInv, NEW c \in PersistChains, c.step = 1, chains' = Append(chains, c),
         store' \in Stores, draft' \in Drafts, UNCHANGED <<mem, disk, env>>,
         bounds' = [bounds EXCEPT !.edits = @ + 1],
         c.overrides = store'.overrides, c.active = store'.active,
         store'.embedding = store.embedding, store'.proxy = store.proxy, store'.network = store.network,
         draft'.llm = store'.llm,
         c.active = S!NoPreset => store'.llm = store.llm
  PROVE  SInv'
<1>1. /\ c \in Chains /\ c.kind = "persist" /\ chains \in Seq(Chains)
      /\ bounds' \in [edits : Nat, saves : Nat, crashes : Nat] /\ bounds'.saves = bounds.saves
  BY DEF Chains, PersistChains, SInv, SettingsTypes
<1>2. /\ chains' \in Seq(Chains) /\ Len(chains) \in Nat /\ Len(chains') = Len(chains) + 1
      /\ chains'[Len(chains) + 1] = c
      /\ \A i \in 1 .. Len(chains) : chains'[i] = chains[i]
  BY <1>1, AppendedFacts
<1>3. SettingsTypes'
  BY <1>1, <1>2 DEF SInv, SettingsTypes
<1>4. Len(chains) + 1 \in At(chains', "persist", 1, 1) /\ Len(chains) + 1 \in At(chains', "persist", 1, 2)
  BY <1>1, <1>2 DEF At
<1>5. OverridesAgree' /\ ActiveAgrees'
  <2>1. \A i \in 1 .. Len(chains') :
          /\ Newest(chains', i, At(chains', "persist", 1, 1)) => chains'[i] = c
          /\ Newest(chains', i, At(chains', "persist", 1, 2)) => chains'[i] = c
    BY <1>1, <1>2, BegunIsNewest
  <2> QED
    BY <1>4, <2>1 DEF OverridesAgree, ActiveAgrees
<1>6. EmbeddingAgrees' /\ ProxyAgrees' /\ EnvAgrees' /\ NetworkAgrees'
  <2>1. /\ Stays(chains, chains', "save", 2, 2) /\ Stays(chains, chains', "save", 3, 3)
        /\ Stays(chains, chains', "save", 4, 4) /\ Stays(chains, chains', "save", 3, 6)
        /\ Stays(chains, chains', "save", 5, 5)
    BY <1>1, BegunIsElsewhere
  <2> QED
    BY <1>2, <2>1, AgreementsStay DEF SInv
<1>7. ModelAgrees'
  <2>1. /\ Writers(chains') = Writers(chains)
        /\ c.active = S!NoPreset => Unresolved(chains') = Unresolved(chains)
        /\ c.active # S!NoPreset => Unresolved(chains') # {}
    BY <1>1, BegunWrites
  <2>2. \A i \in Writers(chains) : i \in 1 .. Len(chains)
    BY DEF Writers
  <2>3. \A i : LastOf(i, Writers(chains)) => i \in 1 .. Len(chains)
    BY <2>2 DEF LastOf
  <2> QED
    BY <1>2, <2>1, <2>3 DEF ModelAgrees, SInv, Agreements
<1>8. OneSaveSoFar'
  <2>1. \A i \in 1 .. Len(chains') : chains'[i].kind = "save" =>
          i \in 1 .. Len(chains) /\ chains'[i] = chains[i]
    BY <1>1, <1>2
  <2> QED
    BY <1>1, <2>1 DEF OneSaveSoFar, SInv, Agreements
<1> QED
  BY <1>3, <1>5, <1>6, <1>7, <1>8 DEF SInv, Agreements

LEMMA TypeKeepsSInv ==
  ASSUME NoneIsNoPreset, SInv, NEW p \in Presets, NEW v \in Values, S!Type(p, v)
  PROVE  SInv'
<1> DEFINE next == [store.overrides EXCEPT ![p] = v]
           c == S!Persist(next, store.active)
<1>1. store \in Stores /\ draft \in Drafts /\ draft.llm = store.llm
  BY DEF SInv, SettingsTypes, Agreements, ModelAgrees
<1>2. next \in [Presets -> Texts] /\ next[p] = v /\ v \in Texts
  BY <1>1 DEF Stores, Texts
<1>3. chains' = Append(chains, c) /\ UNCHANGED <<mem, disk, env>> /\ bounds' = [bounds EXCEPT !.edits = @ + 1]
  BY DEF S!Type, S!Edited
<1>4. \/ /\ store.active = p /\ store' = [store EXCEPT !.overrides = next, !.llm = S!Resolved(p, next)]
         /\ draft' = S!DraftOf(store')
      \/ store.active # p /\ store' = [store EXCEPT !.overrides = next] /\ draft' = draft
  BY DEF S!Type, S!Sets
<1> HIDE DEF next
<1>5. S!Resolved(p, next) \in Models
  BY <1>2 DEF S!Resolved, Models, Actives
<1>6. /\ store' \in Stores /\ store'.overrides = next /\ store'.active = store.active
      /\ store'.embedding = store.embedding /\ store'.proxy = store.proxy /\ store'.network = store.network
      /\ store.active # p => store'.llm = store.llm
  BY <1>1, <1>2, <1>4, <1>5 DEF Stores
<1>7. draft' \in Drafts /\ draft'.llm = store'.llm
  BY <1>1, <1>4, <1>6 DEF S!DraftOf, Drafts, Stores
<1>8. c \in PersistChains /\ c.step = 1 /\ c.overrides = next /\ c.active = store.active
  BY <1>1, <1>2 DEF S!Persist, PersistChains, Stores
<1>9. store.active = S!NoPreset => store.active # p
  BY DEF NoneIsNoPreset
<1> HIDE DEF c
<1> QED
  BY <1>3, <1>6, <1>7, <1>8, <1>9, PersistBegins

LEMMA ToggleKeepsSInv ==
  ASSUME SInv, NEW p \in Presets, S!Toggle(p)
  PROVE  SInv'
<1> DEFINE next == IF store.active = p THEN S!NoPreset ELSE p
           c == S!Persist(store.overrides, next)
<1>1. store \in Stores /\ draft \in Drafts /\ draft.llm = store.llm
  BY DEF SInv, SettingsTypes, Agreements, ModelAgrees
<1>2. /\ chains' = Append(chains, c) /\ UNCHANGED <<draft, mem, disk, env>>
      /\ bounds' = [bounds EXCEPT !.edits = @ + 1] /\ store' = [store EXCEPT !.active = next]
  BY DEF S!Toggle, S!Edited
<1>3. next \in Actives
  BY DEF Actives
<1> HIDE DEF next
<1>4. /\ store' \in Stores /\ store'.active = next /\ store'.overrides = store.overrides
      /\ store'.embedding = store.embedding /\ store'.proxy = store.proxy /\ store'.network = store.network
      /\ store'.llm = store.llm
  BY <1>1, <1>2, <1>3 DEF Stores
<1>5. c \in PersistChains /\ c.step = 1 /\ c.overrides = store.overrides /\ c.active = next
  BY <1>1, <1>3 DEF S!Persist, PersistChains, Stores
<1> HIDE DEF c
<1> QED
  BY <1>1, <1>2, <1>4, <1>5, PersistBegins

LEMMA SaveKeepsSInv ==
  ASSUME SInv, S!Save
  PROVE  SInv'
<1> DEFINE c == [kind |-> "save", step |-> 1, draft |-> draft]
<1>1. store \in Stores /\ draft \in Drafts /\ draft.llm = store.llm /\ chains \in Seq(Chains)
  BY DEF SInv, SettingsTypes, Agreements, ModelAgrees
<1>2. /\ chains' = Append(chains, c) /\ UNCHANGED <<mem, disk, env>>
      /\ bounds' = [bounds EXCEPT !.saves = @ + 1]
      /\ store' = [store EXCEPT !.llm = draft.llm] /\ draft' = S!DraftOf(store')
  BY DEF S!Save, S!Sets
<1>3. store' = store
  BY <1>1, <1>2 DEF Stores
<1>4. draft' \in Drafts /\ draft'.llm = store.llm
  BY <1>1, <1>2, <1>3 DEF S!DraftOf, Drafts, Stores
<1>5. c \in Chains /\ c.kind = "save" /\ c.step = 1 /\ c.draft = draft
  BY <1>1 DEF Chains, SaveChains
<1>6. /\ bounds' \in [edits : Nat, saves : Nat, crashes : Nat] /\ bounds'.saves = bounds.saves + 1
      /\ bounds.saves \in Nat
  BY <1>2 DEF SInv, SettingsTypes
<1> HIDE DEF c
<1>7. /\ chains' \in Seq(Chains) /\ Len(chains) \in Nat /\ Len(chains') = Len(chains) + 1
      /\ chains'[Len(chains) + 1] = c
      /\ \A i \in 1 .. Len(chains) : chains'[i] = chains[i]
  BY <1>1, <1>2, <1>5, AppendedFacts
<1>8. SettingsTypes'
  BY <1>1, <1>2, <1>3, <1>4, <1>6, <1>7 DEF SInv, SettingsTypes
<1>9. /\ OverridesAgree' /\ ActiveAgrees' /\ EmbeddingAgrees' /\ ProxyAgrees' /\ EnvAgrees'
      /\ NetworkAgrees'
  <2>1. /\ Stays(chains, chains', "save", 2, 2) /\ Stays(chains, chains', "save", 3, 3)
        /\ Stays(chains, chains', "save", 4, 4) /\ Stays(chains, chains', "save", 3, 6)
        /\ Stays(chains, chains', "save", 5, 5)
    <3>1. \A lo, hi \in Nat : lo > 1 => Stays(chains, chains', "save", lo, hi)
      BY <1>1, <1>2, <1>5, BegunIsElsewhere
    <3> QED
      BY <3>1
  <2>2. Stays(chains, chains', "persist", 1, 1) /\ Stays(chains, chains', "persist", 1, 2)
    BY <1>1, <1>2, <1>5, BegunIsElsewhere
  <2> QED
    BY <1>2, <1>3, <1>7, <2>1, <2>2, AgreementsStay DEF SInv
<1>10. ModelAgrees'
  <2>1. /\ \A i : LastOf(i, Writers(chains')) => i = Len(chains) + 1
        /\ Writers(chains') # {}
    BY <1>1, <1>2, <1>5, BegunWrites
  <2>2. ModelOf(c) = store.llm
    BY <1>1, <1>5 DEF ModelOf
  <2> QED
    BY <1>3, <1>4, <1>7, <2>1, <2>2 DEF ModelAgrees
<1>11. OneSaveSoFar'
  <2>1. CASE bounds.saves = 0
    <3>1. \A i \in 1 .. Len(chains') : chains'[i].kind = "save" => i = Len(chains) + 1
      BY <1>7, <2>1 DEF OneSaveSoFar, SInv, Agreements
    <3> QED
      BY <1>5, <1>6, <1>7, <2>1, <3>1 DEF OneSaveSoFar
  <2>2. CASE bounds.saves # 0
    BY <1>6, <2>2 DEF OneSaveSoFar
  <2> QED
    BY <2>1, <2>2
<1> QED
  BY <1>8, <1>9, <1>10, <1>11 DEF SInv, Agreements

-----------------------------------------------------------------------------
\* The first chain goes on, or ends: what that means for the classes.
LEMMA GoesOn ==
  ASSUME SInv, chains # <<>>, NEW c, c = Head(chains),
         \/ c.kind = "persist" /\ (c.step = 1 \/ (c.step = 2 /\ c.active # S!NoPreset))
         \/ c.kind = "save" /\ c.step < 6,
         chains' = S!Onward
  PROVE  /\ c = chains[1] /\ c \in Chains /\ 1 \in 1 .. Len(chains) /\ Len(chains) \in Nat
         /\ chains' = Append(Tail(chains), Further(Head(chains))) /\ Further(Head(chains)) \in Chains
         /\ chains' \in Seq(Chains) /\ Len(chains') = Len(chains) /\ Behind(chains, chains')
         /\ chains'[Len(chains)].kind = c.kind /\ chains'[Len(chains)].step = c.step + 1
         /\ SameChain(chains'[Len(chains)], c)
<1>1. chains \in Seq(Chains) /\ Head(chains) = chains[1] /\ chains[1] \in Chains
  BY TailFacts DEF SInv, SettingsTypes
<1>2. chains' = Append(Tail(chains), Further(Head(chains)))
  BY DEF S!Onward, Further
<1>3. Further(Head(chains)) \in Chains
  BY <1>1, ChainFacts
<1>4. /\ chains' \in Seq(Chains) /\ Len(chains) \in Nat \ {0} /\ Len(chains') = Len(chains)
      /\ chains'[Len(chains)] = Further(chains[1])
      /\ \A i \in 1 .. Len(chains) - 1 : chains'[i] = chains[i + 1]
  BY <1>1, <1>2, <1>3, SettingFacts
<1> QED
  BY <1>1, <1>2, <1>3, <1>4, ChainFacts DEF Behind, SameChain

LEMMA GoesAway ==
  ASSUME SInv, chains # <<>>, NEW c, c = Head(chains), chains' = Tail(chains)
  PROVE  /\ c = chains[1] /\ c \in Chains /\ 1 \in 1 .. Len(chains) /\ Len(chains) \in Nat
         /\ chains' \in Seq(Chains) /\ Len(chains') = Len(chains) - 1 /\ Behind(chains, chains')
BY TailFacts DEF SInv, SettingsTypes, Behind

\* A class that the first chain is in neither before nor after stays.
LEMMA ElsewhereStays ==
  ASSUME SInv, chains # <<>>, NEW c, c = chains[1], Behind(chains, chains'), Len(chains) \in Nat,
         NEW k, NEW lo \in Nat, NEW hi \in Nat,
         c.kind # k \/ c.step < lo \/ c.step > hi, c.step \in Nat,
         \/ Len(chains') = Len(chains) - 1
         \/ /\ chains'[Len(chains)].kind = c.kind /\ chains'[Len(chains)].step = c.step + 1
            /\ c.kind # k \/ c.step + 1 < lo \/ c.step + 1 > hi
  PROVE  Stays(chains, chains', k, lo, hi)
<1>1. 1 \notin At(chains, k, lo, hi)
  BY DEF At
<1>2. Len(chains) \notin At(chains', k, lo, hi)
  BY DEF At
<1> QED
  BY <1>1, <1>2, HeadIsElsewhere DEF SInv, SettingsTypes

LEMMA OtherKindStays ==
  ASSUME SInv, chains # <<>>, NEW c, c = chains[1], Behind(chains, chains'),
         NEW k, c.kind # k, NEW lo \in Nat, NEW hi \in Nat,
         \/ Len(chains') = Len(chains) - 1
         \/ Len(chains') = Len(chains) /\ chains'[Len(chains)].kind = c.kind
  PROVE  Stays(chains, chains', k, lo, hi)
<1>1. 1 \notin At(chains, k, lo, hi)
  BY DEF At
<1>2. Len(chains) \in Nat
  BY DEF SInv, SettingsTypes
<1>3. Len(chains) \notin At(chains', k, lo, hi)
  BY <1>2 DEF At
<1> QED
  BY <1>1, <1>3, HeadIsElsewhere DEF SInv, SettingsTypes

\* The chains of saves are what they were, as the first chain is none.
LEMMA OneSaveStays ==
  ASSUME SInv, chains # <<>>, chains[1].kind = "persist", Behind(chains, chains'), bounds' = bounds,
         \/ Len(chains') = Len(chains) - 1
         \/ Len(chains') = Len(chains) /\ chains'[Len(chains)].kind = "persist",
         store'.embedding = store.embedding, store'.proxy = store.proxy, store'.network = store.network,
         mem'.embedding = mem.embedding, mem'.proxy = mem.proxy, mem'.network = mem.network
  PROVE  OneSaveSoFar'
<1>0. Len(chains) \in Nat
  BY DEF SInv, SettingsTypes
<1>1. \A i \in 1 .. Len(chains') : chains'[i].kind = "save" =>
        i \in 1 .. Len(chains) - 1 /\ i + 1 \in 1 .. Len(chains) /\ chains'[i] = chains[i + 1]
  <2> SUFFICES ASSUME NEW i \in 1 .. Len(chains'), chains'[i].kind = "save"
               PROVE  i \in 1 .. Len(chains) - 1 /\ i + 1 \in 1 .. Len(chains) /\ chains'[i] = chains[i + 1]
    OBVIOUS
  <2>1. i \in 1 .. Len(chains) - 1 /\ i + 1 \in 1 .. Len(chains)
    <3>1. CASE Len(chains') = Len(chains) - 1
      BY <1>0, <3>1
    <3>2. CASE Len(chains') = Len(chains) /\ chains'[Len(chains)].kind = "persist"
      <4>1. i \in 1 .. Len(chains) /\ i # Len(chains)
        BY <3>2
      <4> QED
        BY <1>0, <4>1
    <3> QED
      BY <3>1, <3>2
  <2> QED
    BY <2>1 DEF Behind
<1>2. \A i, j \in 1 .. Len(chains) - 1 : i + 1 = j + 1 => i = j
  BY <1>0
<1>3. CASE bounds.saves = 0
  BY <1>1, <1>3 DEF SInv, Agreements, OneSaveSoFar
<1>4. CASE bounds.saves = 1
  <2>1. \A i, j \in 1 .. Len(chains) : chains[i].kind = "save" /\ chains[j].kind = "save" => i = j
    BY <1>4 DEF SInv, Agreements, OneSaveSoFar
  <2>2. \A i, j \in 1 .. Len(chains') : chains'[i].kind = "save" /\ chains'[j].kind = "save" => i = j
    BY <1>1, <1>2, <2>1
  <2>3. \A i \in 1 .. Len(chains) : chains[i].kind = "save" =>
        /\ chains[i].step >= 2 => store.embedding = chains[i].draft.embedding
        /\ chains[i].step >= 3 => /\ mem.embedding = chains[i].draft.embedding
                                  /\ store.proxy = chains[i].draft.proxy
        /\ chains[i].step >= 4 => mem.proxy = chains[i].draft.proxy
        /\ chains[i].step >= 5 => store.network = chains[i].draft.network
        /\ chains[i].step >= 6 => mem.network = chains[i].draft.network
    BY <1>4 DEF SInv, Agreements, OneSaveSoFar
  <2>4. \A i \in 1 .. Len(chains') : chains'[i].kind = "save" =>
        /\ chains'[i].step >= 2 => store'.embedding = chains'[i].draft.embedding
        /\ chains'[i].step >= 3 => /\ mem'.embedding = chains'[i].draft.embedding
                                   /\ store'.proxy = chains'[i].draft.proxy
        /\ chains'[i].step >= 4 => mem'.proxy = chains'[i].draft.proxy
        /\ chains'[i].step >= 5 => store'.network = chains'[i].draft.network
        /\ chains'[i].step >= 6 => mem'.network = chains'[i].draft.network
    <3> TAKE i \in 1 .. Len(chains')
    <3> HAVE chains'[i].kind = "save"
    <3>1. i + 1 \in 1 .. Len(chains) /\ chains'[i] = chains[i + 1]
      BY <1>1
    <3> QED
      BY <2>3, <3>1
  <2> QED
    BY <1>4, <2>2, <2>4 DEF OneSaveSoFar
<1> QED
  BY <1>3, <1>4 DEF OneSaveSoFar

\* The chain that had to resolve the preset has done so: if none has to any
\* more, it was the last, and had what the store has.
LEMMA ResolverLeaves ==
  ASSUME SInv, chains # <<>>, chains[1].kind = "persist", chains[1].step = 2, Behind(chains, chains'),
         \/ Len(chains') = Len(chains) - 1
         \/ Len(chains') = Len(chains) /\ chains'[Len(chains)].step = 3
  PROVE  /\ At(chains', "persist", 1, 2) = {} =>
              chains[1].active = store.active /\ chains[1].overrides = store.overrides
         /\ \A i \in 1 .. Len(chains') : Newest(chains', i, At(chains', "persist", 1, 2)) =>
              chains'[i].active = store.active /\ chains'[i].overrides = store.overrides
<1>1. chains \in Seq(Chains) /\ Len(chains) \in Nat \ {0}
  BY TailFacts DEF SInv, SettingsTypes
<1>2. 1 \in At(chains, "persist", 1, 2) /\ Len(chains) \notin At(chains', "persist", 1, 2)
  BY <1>1 DEF At
<1>3. /\ At(chains', "persist", 1, 2) = {} => Newest(chains, 1, At(chains, "persist", 1, 2))
      /\ \A i \in 1 .. Len(chains') : Newest(chains', i, At(chains', "persist", 1, 2)) =>
           \E j \in 1 .. Len(chains) : /\ Newest(chains, j, At(chains, "persist", 1, 2))
                                       /\ SameChain(chains'[i], chains[j])
  BY <1>1, <1>2, HeadLeaves
<1>4. \A j \in 1 .. Len(chains) : Newest(chains, j, At(chains, "persist", 1, 2)) =>
        chains[j].active = store.active /\ chains[j].overrides = store.overrides /\ chains[j].kind = "persist"
  BY DEF SInv, Agreements, ActiveAgrees, Newest, At
<1> QED
  BY <1>1, <1>3, <1>4 DEF SameChain

LEMMA PersistsKeepsSInv ==
  ASSUME SInv, S!Persists
  PROVE  SInv'
<1> DEFINE llm == S!Resolved(Head(chains).active, Head(chains).overrides)
<1>1. PICK c : c = Head(chains)
  OBVIOUS
<1>2. /\ chains # <<>> /\ c.kind = "persist" /\ UNCHANGED <<disk, env, bounds>>
      /\ \/ c.step = 1 /\ mem' = [mem EXCEPT !.overrides = c.overrides] /\ chains' = S!Onward
            /\ UNCHANGED <<store, draft>>
         \/ c.step = 2 /\ c.active = S!NoPreset /\ mem' = [mem EXCEPT !.active = c.active]
            /\ chains' = Tail(chains) /\ UNCHANGED <<store, draft>>
         \/ c.step = 2 /\ c.active # S!NoPreset /\ mem' = [mem EXCEPT !.active = c.active]
            /\ chains' = S!Onward /\ store' = [store EXCEPT !.llm = llm] /\ draft' = S!DraftOf(store')
         \/ c.step \notin {1, 2} /\ mem' = [mem EXCEPT !.llm = llm] /\ chains' = Tail(chains)
            /\ UNCHANGED <<store, draft>>
  BY <1>1 DEF S!Persists, S!Sets
<1>3. /\ c \in PersistChains /\ c = chains[1] /\ c.step \in 1 .. 3 /\ chains \in Seq(Chains)
      /\ store \in Stores /\ mem \in Stores /\ Len(chains) \in Nat
      /\ c \in Chains /\ Head(chains) = c
  BY <1>1, <1>2, ChainFacts, TailFacts DEF SInv, SettingsTypes, PersistChains
<1>4. c.step # 1 /\ c.active # S!NoPreset => llm \in Models
  <2>1. Head(chains).active \in Actives /\ Head(chains).overrides \in [Presets -> Texts]
    BY <1>1, <1>3 DEF PersistChains
  <2> QED
    BY <1>1, <2>1 DEF S!Resolved, Models, Actives
<1> HIDE DEF llm
<1>5. Agreements /\ SettingsTypes
  BY DEF SInv
<1>6. CASE c.step = 1
  <2>1. /\ mem' = [mem EXCEPT !.overrides = c.overrides] /\ chains' = S!Onward /\ UNCHANGED <<store, draft>>
    BY <1>2, <1>6
  <2>2. /\ chains' = Append(Tail(chains), Further(Head(chains))) /\ Further(Head(chains)) \in Chains
        /\ chains' \in Seq(Chains) /\ Len(chains') = Len(chains) /\ Behind(chains, chains')
        /\ chains'[Len(chains)].kind = c.kind /\ chains'[Len(chains)].step = 2
        /\ SameChain(chains'[Len(chains)], c)
    BY <1>1, <1>2, <1>6, <2>1, GoesOn
  <2>3. /\ mem' \in Stores /\ mem'.overrides = c.overrides /\ mem'.active = mem.active
        /\ mem'.embedding = mem.embedding /\ mem'.proxy = mem.proxy /\ mem'.network = mem.network
        /\ mem'.llm = mem.llm
    BY <1>3, <2>1 DEF Stores, PersistChains
  <2>4. SettingsTypes'
    BY <1>2, <1>5, <2>1, <2>2, <2>3 DEF SettingsTypes
  <2>5. \A lo, hi \in Nat : Stays(chains, chains', "save", lo, hi)
    BY <1>2, <1>3, <2>2, OtherKindStays
  <2>6. Stays(chains, chains', "persist", 1, 2)
    <3>1. chains[1].kind = "persist" /\ chains[1].step = 1
      BY <1>2, <1>3, <1>6
    <3>2. 1 <= chains[1].step /\ chains[1].step + 1 <= 2
      BY <3>1
    <3>3. Stays(chains, chains', chains[1].kind, 1, 2)
      BY <1>2, <1>3, <2>2, <3>2, FurtherInside
    <3> QED
      BY <3>1, <3>3
  <2>7. /\ ActiveAgrees' /\ EmbeddingAgrees' /\ ProxyAgrees' /\ EnvAgrees' /\ NetworkAgrees'
    BY <1>2, <1>5, <2>1, <2>2, <2>3, <2>5, <2>6, AgreementsStay
  <2>8. OverridesAgree'
    <3>1. 1 \in At(chains, "persist", 1, 1) /\ Len(chains) \notin At(chains', "persist", 1, 1)
      BY <1>2, <1>3, <1>6, <2>2, EmptySeq DEF At
    <3>2. /\ At(chains', "persist", 1, 1) = {} => Newest(chains, 1, At(chains, "persist", 1, 1))
          /\ \A i \in 1 .. Len(chains') : Newest(chains', i, At(chains', "persist", 1, 1)) =>
               \E j \in 1 .. Len(chains) : /\ Newest(chains, j, At(chains, "persist", 1, 1))
                                           /\ SameChain(chains'[i], chains[j])
      <4>1. /\ chains \in Seq(Chains) /\ chains # <<>> /\ Behind(chains, chains')
            /\ chains[1].step = 1 /\ 1 \in Nat
        BY <1>2, <1>3, <1>6, <2>2
      <4> QED
        BY <3>1, <4>1, HeadLeaves
    <3>3. \A j \in 1 .. Len(chains) : Newest(chains, j, At(chains, "persist", 1, 1)) =>
            chains[j].overrides = store.overrides /\ chains[j].kind = "persist"
      BY <1>5 DEF Agreements, OverridesAgree, Newest, At
    <3>4. 1 \in 1 .. Len(chains)
      BY <3>1 DEF At
    <3> QED
      BY <1>3, <2>1, <2>3, <3>2, <3>3, <3>4 DEF OverridesAgree, SameChain
  <2>9. ModelAgrees'
    <3>1. 1 \notin Writers(chains) /\ Len(chains) \notin Writers(chains')
      BY <1>2, <1>3, <1>6, <2>2 DEF Writers
    <3>2. 1 \in Unresolved(chains) => Len(chains) \in Unresolved(chains')
      BY <1>2, <1>3, <1>6, <2>2 DEF Unresolved, SameChain
    <3>3. Unresolved(chains') = {} => Unresolved(chains) = {}
      BY <1>2, <1>3, <2>2, <3>2, HeadHasNoneToResolve
    <3>4. /\ \A i \in 1 .. Len(chains') : LastOf(i, Writers(chains')) =>
               /\ i + 1 \in 1 .. Len(chains) /\ LastOf(i + 1, Writers(chains)) /\ chains'[i] = chains[i + 1]
          /\ Writers(chains') = {} => Writers(chains) = {}
      BY <1>2, <1>3, <2>2, <3>1, HeadWrites DEF LastOf
    <3> QED
      BY <1>5, <2>1, <2>3, <3>3, <3>4 DEF Agreements, ModelAgrees
  <2>10. OneSaveSoFar'
    BY <1>2, <1>3, <2>1, <2>2, <2>3, OneSaveStays
  <2> QED
    BY <2>4, <2>7, <2>8, <2>9, <2>10 DEF SInv, Agreements
<1>7. CASE c.step = 2 /\ c.active = S!NoPreset
  <2>1. mem' = [mem EXCEPT !.active = c.active] /\ chains' = Tail(chains) /\ UNCHANGED <<store, draft>>
    BY <1>2, <1>7
  <2>2. chains' \in Seq(Chains) /\ Len(chains') = Len(chains) - 1 /\ Behind(chains, chains')
    BY <1>1, <1>2, <2>1, GoesAway
  <2>3. /\ mem' \in Stores /\ mem'.overrides = mem.overrides /\ mem'.active = c.active
        /\ mem'.embedding = mem.embedding /\ mem'.proxy = mem.proxy /\ mem'.network = mem.network
        /\ mem'.llm = mem.llm
    BY <1>3, <2>1 DEF Stores, PersistChains
  <2>4. SettingsTypes'
    BY <1>2, <1>5, <2>1, <2>2, <2>3 DEF SettingsTypes
  <2>5. \A lo, hi \in Nat : Stays(chains, chains', "save", lo, hi)
    BY <1>2, <1>3, <2>2, OtherKindStays
  <2>6. Stays(chains, chains', "persist", 1, 1)
    BY <1>2, <1>3, <1>7, <2>2, ElsewhereStays
  <2>7. OverridesAgree' /\ EmbeddingAgrees' /\ ProxyAgrees' /\ EnvAgrees' /\ NetworkAgrees'
    BY <1>2, <1>5, <2>1, <2>2, <2>3, <2>5, <2>6, AgreementsStay
  <2>8. ActiveAgrees'
    <3>1. /\ At(chains', "persist", 1, 2) = {} =>
               chains[1].active = store.active /\ chains[1].overrides = store.overrides
          /\ \A i \in 1 .. Len(chains') : Newest(chains', i, At(chains', "persist", 1, 2)) =>
               chains'[i].active = store.active /\ chains'[i].overrides = store.overrides
      BY <1>2, <1>3, <1>5, <1>7, <2>2, ResolverLeaves
    <3> QED
      BY <1>3, <1>7, <2>1, <2>3, <3>1 DEF ActiveAgrees
  <2>9. ModelAgrees'
    <3>1. 1 \notin Writers(chains) /\ Len(chains) \notin Writers(chains') /\ 1 \notin Unresolved(chains)
      BY <1>2, <1>3, <1>7, <2>2 DEF Writers, Unresolved
    <3>2. Unresolved(chains') = {} => Unresolved(chains) = {}
      BY <1>2, <1>3, <2>2, <3>1, HeadHasNoneToResolve
    <3>3. /\ \A i \in 1 .. Len(chains') : LastOf(i, Writers(chains')) =>
               /\ i + 1 \in 1 .. Len(chains) /\ LastOf(i + 1, Writers(chains)) /\ chains'[i] = chains[i + 1]
          /\ Writers(chains') = {} => Writers(chains) = {}
      BY <1>2, <1>3, <2>2, <3>1, HeadWrites DEF LastOf
    <3> QED
      BY <1>5, <2>1, <2>3, <3>2, <3>3 DEF Agreements, ModelAgrees
  <2>10. OneSaveSoFar'
    BY <1>2, <1>3, <2>1, <2>2, <2>3, OneSaveStays
  <2> QED
    BY <2>4, <2>7, <2>8, <2>9, <2>10 DEF SInv, Agreements
<1>8. CASE c.step = 2 /\ c.active # S!NoPreset
  <2>1. /\ mem' = [mem EXCEPT !.active = c.active] /\ chains' = S!Onward
        /\ store' = [store EXCEPT !.llm = llm] /\ draft' = S!DraftOf(store')
    BY <1>2, <1>8
  <2>2. /\ chains' = Append(Tail(chains), Further(Head(chains))) /\ Further(Head(chains)) \in Chains
        /\ chains' \in Seq(Chains) /\ Len(chains') = Len(chains) /\ Behind(chains, chains')
        /\ chains'[Len(chains)].kind = c.kind /\ chains'[Len(chains)].step = 3
        /\ SameChain(chains'[Len(chains)], c) /\ Len(chains) \in 1 .. Len(chains')
    BY <1>1, <1>2, <1>8, <2>1, GoesOn
  <2>3. /\ mem' \in Stores /\ mem'.overrides = mem.overrides /\ mem'.active = c.active
        /\ mem'.embedding = mem.embedding /\ mem'.proxy = mem.proxy /\ mem'.network = mem.network
        /\ mem'.llm = mem.llm
    BY <1>3, <2>1 DEF Stores, PersistChains
  <2>4. /\ store' \in Stores /\ store'.llm = llm /\ store'.overrides = store.overrides
        /\ store'.active = store.active /\ store'.embedding = store.embedding
        /\ store'.proxy = store.proxy /\ store'.network = store.network
    BY <1>3, <1>4, <1>8, <2>1 DEF Stores
  <2>5. draft' \in Drafts /\ draft'.llm = store'.llm
    BY <2>1, <2>4 DEF S!DraftOf, Drafts, Stores
  <2>6. SettingsTypes'
    BY <1>2, <1>5, <2>2, <2>3, <2>4, <2>5 DEF SettingsTypes
  <2>7. \A lo, hi \in Nat : Stays(chains, chains', "save", lo, hi)
    BY <1>2, <1>3, <2>2, OtherKindStays
  <2>8. Stays(chains, chains', "persist", 1, 1)
    <3>1. /\ c.step \in Nat /\ c.step > 1 /\ c.step + 1 > 1
          /\ chains'[Len(chains)].step = c.step + 1 /\ chains'[Len(chains)].kind = c.kind
      BY <1>8, <2>2
    <3> QED
      BY <1>2, <1>3, <2>2, <3>1, ElsewhereStays
  <2>9. OverridesAgree' /\ EmbeddingAgrees' /\ ProxyAgrees' /\ EnvAgrees' /\ NetworkAgrees'
    BY <1>2, <1>5, <2>2, <2>3, <2>4, <2>7, <2>8, AgreementsStay
  <2>10. ActiveAgrees'
    <3>1. /\ At(chains', "persist", 1, 2) = {} =>
               chains[1].active = store.active /\ chains[1].overrides = store.overrides
          /\ \A i \in 1 .. Len(chains') : Newest(chains', i, At(chains', "persist", 1, 2)) =>
               chains'[i].active = store.active /\ chains'[i].overrides = store.overrides
      BY <1>2, <1>3, <1>5, <1>8, <2>2, ResolverLeaves
    <3>2. llm = S!Resolved(chains[1].active, chains[1].overrides)
      BY <1>3 DEF llm
    <3> QED
      BY <1>3, <2>3, <2>4, <3>1, <3>2 DEF ActiveAgrees
  <2>11. ModelAgrees'
    <3>1. Len(chains) \in Writers(chains')
      BY <1>2, <2>2 DEF Writers
    <3>2. \A i \in 1 .. Len(chains') : LastOf(i, Writers(chains')) => i = Len(chains)
      <4>1. Len(chains) \in Nat /\ Len(chains') = Len(chains)
        BY <1>3, <2>2
      <4> QED
        BY <3>1, <4>1 DEF LastOf
    <3>3. ModelOf(chains'[Len(chains)]) = llm
      BY <1>2, <1>3, <2>2 DEF ModelOf, SameChain, llm
    <3> QED
      BY <2>4, <2>5, <3>1, <3>2, <3>3 DEF ModelAgrees
  <2>12. OneSaveSoFar'
    BY <1>2, <1>3, <2>2, <2>3, <2>4, OneSaveStays
  <2> QED
    BY <2>6, <2>9, <2>10, <2>11, <2>12 DEF SInv, Agreements
<1>9. CASE c.step = 3
  <2>1. mem' = [mem EXCEPT !.llm = llm] /\ chains' = Tail(chains) /\ UNCHANGED <<store, draft>>
    BY <1>2, <1>9
  <2>2. chains' \in Seq(Chains) /\ Len(chains') = Len(chains) - 1 /\ Behind(chains, chains')
    BY <1>1, <1>2, <2>1, GoesAway
  <2>3. /\ mem' \in Stores /\ mem'.overrides = mem.overrides /\ mem'.active = mem.active
        /\ mem'.embedding = mem.embedding /\ mem'.proxy = mem.proxy /\ mem'.network = mem.network
        /\ mem'.llm = llm
    BY <1>3, <1>4, <1>9, <2>1 DEF Stores, PersistChains
  <2>4. SettingsTypes'
    BY <1>2, <1>5, <2>1, <2>2, <2>3 DEF SettingsTypes
  <2>5. \A lo, hi \in Nat : Stays(chains, chains', "save", lo, hi)
    BY <1>2, <1>3, <2>2, OtherKindStays
  <2>6. Stays(chains, chains', "persist", 1, 1) /\ Stays(chains, chains', "persist", 1, 2)
    BY <1>2, <1>3, <1>9, <2>2, ElsewhereStays
  <2>7. OverridesAgree' /\ ActiveAgrees' /\ EmbeddingAgrees' /\ ProxyAgrees' /\ EnvAgrees' /\ NetworkAgrees'
    BY <1>2, <1>5, <2>1, <2>2, <2>3, <2>5, <2>6, AgreementsStay
  <2>8. ModelAgrees'
    <3>1. 1 \in 1 .. Len(chains) /\ 1 \in Writers(chains)
      BY <1>1, <1>2, <1>3, <1>9, <2>1, GoesAway DEF Writers
    <3>2. Len(chains) \notin Writers(chains') /\ 1 \notin Unresolved(chains)
      BY <1>2, <1>3, <1>9, <2>2 DEF Writers, Unresolved
    <3>3. Unresolved(chains') = {} => Unresolved(chains) = {}
      BY <1>2, <1>3, <2>2, <3>2, HeadHasNoneToResolve
    <3>4. /\ \A i \in 1 .. Len(chains') : LastOf(i, Writers(chains')) =>
               /\ i + 1 \in 1 .. Len(chains) /\ LastOf(i + 1, Writers(chains)) /\ chains'[i] = chains[i + 1]
          /\ Writers(chains') = {} => LastOf(1, Writers(chains))
      BY <1>2, <1>3, <2>2, <3>1, <3>2, HeadWrites
    <3>5. ModelOf(chains[1]) = llm
      BY <1>2, <1>3 DEF ModelOf, llm
    <3> QED
      BY <1>5, <2>1, <2>3, <3>1, <3>3, <3>4, <3>5 DEF Agreements, ModelAgrees
  <2>9. OneSaveSoFar'
    BY <1>2, <1>3, <2>1, <2>2, <2>3, OneSaveStays
  <2> QED
    BY <2>4, <2>7, <2>8, <2>9 DEF SInv, Agreements
<1> QED
  BY <1>3, <1>6, <1>7, <1>8, <1>9

\* What a save that goes on or ends leaves as it was.
LEMMA SaveMoves ==
  ASSUME SInv, chains # <<>>, chains[1].kind = "save", Behind(chains, chains'), Len(chains) \in Nat,
         chains[1].step \in 1 .. 6,
         \/ Len(chains') = Len(chains) - 1 /\ chains[1].step = 6
         \/ /\ Len(chains') = Len(chains) /\ chains'[Len(chains)].kind = "save"
            /\ chains'[Len(chains)].step = chains[1].step + 1
  PROVE  /\ \A lo, hi \in Nat : Stays(chains, chains', "persist", lo, hi)
         /\ \A lo, hi \in Nat : chains[1].step > hi \/ chains[1].step + 1 < lo =>
              Stays(chains, chains', "save", lo, hi)
         /\ Unresolved(chains') = {} => Unresolved(chains) = {}
         /\ Len(chains) \notin Writers(chains')
<1>1. \A lo, hi \in Nat : Stays(chains, chains', "persist", lo, hi)
  BY OtherKindStays
<1>2. ASSUME NEW lo \in Nat, NEW hi \in Nat, chains[1].step > hi \/ chains[1].step + 1 < lo
      PROVE  Stays(chains, chains', "save", lo, hi)
  <2>1. 1 \notin At(chains, "save", lo, hi)
    BY <1>2 DEF At
  <2>2. Len(chains) \notin At(chains', "save", lo, hi)
    BY <1>2 DEF At
  <2> QED
    BY <2>1, <2>2, HeadIsElsewhere DEF SInv, SettingsTypes
<1>3. 1 \notin Unresolved(chains) /\ Len(chains) \notin Writers(chains')
  BY DEF Unresolved, Writers
<1>4. Unresolved(chains') = {} => Unresolved(chains) = {}
  BY <1>3, HeadHasNoneToResolve DEF SInv, SettingsTypes
<1> QED
  BY <1>1, <1>2, <1>3, <1>4

\* The only save there was is the one that moved.
LEMMA OnlyOneSave ==
  ASSUME SInv, chains # <<>>, chains[1].kind = "save", Behind(chains, chains'), bounds.saves \in {0, 1}
  PROVE  /\ bounds.saves = 1
         /\ \A i \in 1 .. Len(chains') : chains'[i].kind = "save" => i = Len(chains)
         /\ chains[1].step >= 2 => store.embedding = chains[1].draft.embedding
         /\ chains[1].step >= 3 => /\ mem.embedding = chains[1].draft.embedding
                                   /\ store.proxy = chains[1].draft.proxy
         /\ chains[1].step >= 4 => mem.proxy = chains[1].draft.proxy
         /\ chains[1].step >= 5 => store.network = chains[1].draft.network
         /\ chains[1].step >= 6 => mem.network = chains[1].draft.network
<1>1. Len(chains) \in Nat \ {0} /\ 1 \in 1 .. Len(chains)
  BY TailFacts DEF SInv, SettingsTypes
<1>2. bounds.saves = 1
  BY <1>1 DEF SInv, Agreements, OneSaveSoFar
<1>3. \A j \in 1 .. Len(chains) : chains[j].kind = "save" => j = 1
  BY <1>1, <1>2 DEF SInv, Agreements, OneSaveSoFar
<1>4. ASSUME NEW i \in 1 .. Len(chains'), chains'[i].kind = "save", i # Len(chains) PROVE FALSE
  <2>1. i \in 1 .. Len(chains) - 1 /\ i + 1 \in 1 .. Len(chains) /\ i + 1 # 1
    <3>1. Len(chains) \in Nat /\ Len(chains') \in {Len(chains) - 1, Len(chains)}
      BY <1>1 DEF Behind
    <3> QED
      BY <1>4, <3>1
  <2>2. chains'[i] = chains[i + 1]
    BY <2>1 DEF Behind
  <2> QED
    BY <1>3, <1>4, <2>1, <2>2
<1> QED
  BY <1>1, <1>2, <1>4 DEF SInv, Agreements, OneSaveSoFar

LEMMA SavesKeepsSInv ==
  ASSUME SInv, S!Saves
  PROVE  SInv'
<1>1. PICK c : c = Head(chains)
  OBVIOUS
<1>2. PICK d : d = c.draft
  OBVIOUS
<1>3. /\ chains # <<>> /\ c.kind = "save" /\ UNCHANGED bounds
      /\ \/ /\ c.step = 1 /\ mem' = [mem EXCEPT !.llm = d.llm]
            /\ store' = [store EXCEPT !.embedding = d.embedding] /\ draft' = S!DraftOf(store')
            /\ chains' = S!Onward /\ UNCHANGED <<disk, env>>
         \/ /\ c.step = 2 /\ mem' = [mem EXCEPT !.embedding = d.embedding]
            /\ store' = [store EXCEPT !.proxy = d.proxy] /\ draft' = S!DraftOf(store')
            /\ chains' = S!Onward /\ UNCHANGED <<disk, env>>
         \/ /\ c.step = 3 /\ mem' = [mem EXCEPT !.proxy = d.proxy] /\ chains' = S!Onward
            /\ UNCHANGED <<store, draft, disk, env>>
         \/ /\ c.step = 4 /\ disk' = mem
            /\ store' = [store EXCEPT !.network = d.network] /\ draft' = S!DraftOf(store')
            /\ chains' = S!Onward /\ UNCHANGED <<mem, env>>
         \/ /\ c.step = 5 /\ mem' = [mem EXCEPT !.network = d.network] /\ chains' = S!Onward
            /\ UNCHANGED <<store, draft, disk, env>>
         \/ /\ c.step \notin {1, 2, 3, 4, 5} /\ env' = d.proxy /\ chains' = Tail(chains)
            /\ UNCHANGED <<store, draft, mem, disk>>
  <2>1. chains # <<>> /\ c.kind = "save" /\ UNCHANGED bounds
    BY <1>1 DEF S!Saves
  <2>2. c.step = 1 => /\ mem' = [mem EXCEPT !.llm = d.llm]
                      /\ store' = [store EXCEPT !.embedding = d.embedding] /\ draft' = S!DraftOf(store')
                      /\ chains' = S!Onward /\ UNCHANGED <<disk, env>>
    BY <1>1, <1>2 DEF S!Saves, S!Sets, S!DraftOfClick
  <2>3. c.step = 2 => /\ mem' = [mem EXCEPT !.embedding = d.embedding]
                      /\ store' = [store EXCEPT !.proxy = d.proxy] /\ draft' = S!DraftOf(store')
                      /\ chains' = S!Onward /\ UNCHANGED <<disk, env>>
    BY <1>1, <1>2 DEF S!Saves, S!Sets, S!DraftOfClick
  <2>4. c.step = 3 => /\ mem' = [mem EXCEPT !.proxy = d.proxy] /\ chains' = S!Onward
                      /\ UNCHANGED <<store, draft, disk, env>>
    BY <1>1, <1>2 DEF S!Saves, S!Sets, S!DraftOfClick
  <2>5. c.step = 4 => /\ disk' = mem
                      /\ store' = [store EXCEPT !.network = d.network] /\ draft' = S!DraftOf(store')
                      /\ chains' = S!Onward /\ UNCHANGED <<mem, env>>
    BY <1>1, <1>2 DEF S!Saves, S!Sets, S!DraftOfClick, S!Flushed
  <2>6. c.step = 5 => /\ mem' = [mem EXCEPT !.network = d.network] /\ chains' = S!Onward
                      /\ UNCHANGED <<store, draft, disk, env>>
    BY <1>1, <1>2 DEF S!Saves, S!Sets, S!DraftOfClick
  <2>7. c.step \notin {1, 2, 3, 4, 5} =>
          env' = d.proxy /\ chains' = Tail(chains) /\ UNCHANGED <<store, draft, mem, disk>>
    BY <1>1, <1>2 DEF S!Saves, S!Sets, S!DraftOfClick
  <2> QED
    BY <2>1, <2>2, <2>3, <2>4, <2>5, <2>6, <2>7
<1>4. /\ c \in SaveChains /\ c = chains[1] /\ c.step \in 1 .. 6 /\ chains \in Seq(Chains)
      /\ store \in Stores /\ mem \in Stores /\ disk \in Stores /\ Len(chains) \in Nat /\ d \in Drafts
      /\ c \in Chains /\ Head(chains) = c /\ draft \in Drafts /\ draft.llm = store.llm
  BY <1>1, <1>2, <1>3, ChainFacts, TailFacts DEF SInv, SettingsTypes, SaveChains, Agreements, ModelAgrees
<1>5. Agreements /\ SettingsTypes
  BY DEF SInv
<1>6. c.step # 6 => /\ chains' = Append(Tail(chains), Further(Head(chains))) /\ Further(Head(chains)) \in Chains
                    /\ chains' \in Seq(Chains) /\ Len(chains') = Len(chains) /\ Behind(chains, chains')
                    /\ chains'[Len(chains)].kind = c.kind /\ chains'[Len(chains)].step = c.step + 1
                    /\ SameChain(chains'[Len(chains)], c)
  <2> SUFFICES ASSUME c.step # 6
               PROVE  /\ chains' = Append(Tail(chains), Further(Head(chains))) /\ Further(Head(chains)) \in Chains
                      /\ chains' \in Seq(Chains) /\ Len(chains') = Len(chains) /\ Behind(chains, chains')
                      /\ chains'[Len(chains)].kind = c.kind /\ chains'[Len(chains)].step = c.step + 1
                      /\ SameChain(chains'[Len(chains)], c)
    OBVIOUS
  <2>1. chains' = S!Onward /\ c.step < 6
    BY <1>3, <1>4
  <2> QED
    BY <1>1, <1>3, <2>1, GoesOn
<1>7. c.step = 6 => chains' \in Seq(Chains) /\ Len(chains') = Len(chains) - 1 /\ Behind(chains, chains')
  BY <1>1, <1>3, GoesAway
<1>8. /\ \A lo, hi \in Nat : Stays(chains, chains', "persist", lo, hi)
      /\ \A lo, hi \in Nat : c.step > hi \/ c.step + 1 < lo => Stays(chains, chains', "save", lo, hi)
      /\ Unresolved(chains') = {} => Unresolved(chains) = {}
      /\ Len(chains) \notin Writers(chains')
  BY <1>3, <1>4, <1>6, <1>7, SaveMoves
<1>8a. \A lo, hi \in Nat : c.step > hi \/ c.step + 1 < lo => Stays(chains, chains', "save", lo, hi)
  BY <1>8
<1>8b. c.step \in 1 .. 6
  BY <1>4
<1>9. chains' \in Seq(Chains) /\ Behind(chains, chains') /\ bounds' = bounds
  BY <1>3, <1>6, <1>7
\* What each step makes of the store, of what the bridge holds, and of the rest.
<1>10. /\ store' \in Stores /\ store'.llm = store.llm /\ store'.overrides = store.overrides
       /\ store'.active = store.active
       /\ store'.embedding = IF c.step = 1 THEN d.embedding ELSE store.embedding
       /\ store'.proxy = IF c.step = 2 THEN d.proxy ELSE store.proxy
       /\ store'.network = IF c.step = 4 THEN d.network ELSE store.network
  <2>1. CASE c.step = 1
    BY <1>3, <1>4, <2>1 DEF Stores, Drafts
  <2>2. CASE c.step = 2
    BY <1>3, <1>4, <2>2 DEF Stores, Drafts
  <2>3. CASE c.step = 4
    BY <1>3, <1>4, <2>3 DEF Stores, Drafts
  <2>4. CASE c.step \notin {1, 2, 4}
    <3>1. store' = store
      BY <1>3, <2>4
    <3> QED
      BY <1>4, <2>4, <3>1
  <2> QED
    BY <2>1, <2>2, <2>3, <2>4
<1>11. /\ mem' \in Stores /\ mem'.overrides = mem.overrides /\ mem'.active = mem.active
       /\ mem'.llm = IF c.step = 1 THEN d.llm ELSE mem.llm
       /\ mem'.embedding = IF c.step = 2 THEN d.embedding ELSE mem.embedding
       /\ mem'.proxy = IF c.step = 3 THEN d.proxy ELSE mem.proxy
       /\ mem'.network = IF c.step = 5 THEN d.network ELSE mem.network
  <2>1. CASE c.step = 1
    BY <1>3, <1>4, <2>1 DEF Stores, Drafts
  <2>2. CASE c.step = 2
    BY <1>3, <1>4, <2>2 DEF Stores, Drafts
  <2>3. CASE c.step = 3
    BY <1>3, <1>4, <2>3 DEF Stores, Drafts
  <2>4. CASE c.step = 5
    BY <1>3, <1>4, <2>4 DEF Stores, Drafts
  <2>5. CASE c.step \notin {1, 2, 3, 5}
    <3>1. mem' = mem
      BY <1>3, <1>4, <2>5
    <3> QED
      BY <1>4, <2>5, <3>1
  <2> QED
    BY <2>1, <2>2, <2>3, <2>4, <2>5
<1>12. /\ draft' \in Drafts /\ draft'.llm = store'.llm
       /\ disk' = (IF c.step = 4 THEN mem ELSE disk) /\ env' = IF c.step = 6 THEN d.proxy ELSE env
  <2>1. draft' \in Drafts /\ draft'.llm = store'.llm
    BY <1>3, <1>4, <1>10 DEF S!DraftOf, Drafts, Stores
  <2>2. disk' = (IF c.step = 4 THEN mem ELSE disk) /\ env' = IF c.step = 6 THEN d.proxy ELSE env
    BY <1>3, <1>4
  <2> QED
    BY <2>1, <2>2
<1>13. SettingsTypes'
  BY <1>4, <1>5, <1>9, <1>10, <1>11, <1>12 DEF SettingsTypes, Drafts
<1>14. OverridesAgree' /\ ActiveAgrees'
  BY <1>5, <1>8, <1>9, <1>10, <1>11, AgreementsStay
<1>15. EmbeddingAgrees'
  <2>1. CASE c.step \notin {1, 2}
    <3>1. Stays(chains, chains', "save", 2, 2)
      BY <1>8a, <1>8b, <2>1
    <3> QED
      BY <1>5, <1>9, <1>10, <1>11, <2>1, <3>1, AgreementsStay
  <2>2. CASE c.step = 1
    <3>1. /\ At(chains', "save", 2, 2) # {}
          /\ \A i \in 1 .. Len(chains') : Newest(chains', i, At(chains', "save", 2, 2)) => SameChain(chains'[i], c)
      <4>1. chains[1].kind = "save" /\ chains[1].step + 1 = 2 /\ c.step # 6
        BY <1>3, <1>4, <2>2
      <4>2. /\ At(chains', chains[1].kind, 2, 2) # {}
            /\ \A i \in 1 .. Len(chains') :
                 Newest(chains', i, At(chains', chains[1].kind, 2, 2)) => SameChain(chains'[i], chains[1])
        <5>1. /\ chains \in Seq(Chains) /\ chains # <<>> /\ Further(Head(chains)) \in Chains
              /\ chains' = Append(Tail(chains), Further(Head(chains)))
          BY <1>3, <1>4, <1>6, <4>1
        <5>2. 2 \in Nat /\ 2 \in Nat /\ 2 <= 2
          OBVIOUS
        <5> QED
          BY <4>1, <5>1, <5>2, HeadEnters
      <4> QED
        BY <1>4, <4>1, <4>2
    <3> QED
      BY <1>2, <1>3, <1>10, <2>2, <3>1 DEF EmbeddingAgrees, SameChain
  <2>3. CASE c.step = 2
    <3>1. /\ At(chains', "save", 2, 2) = {} => c.draft.embedding = store.embedding
          /\ \A i \in 1 .. Len(chains') : Newest(chains', i, At(chains', "save", 2, 2)) =>
               chains'[i].draft.embedding = store.embedding
      <4>1. 1 \in At(chains, "save", 2, 2) /\ Len(chains) \notin At(chains', "save", 2, 2)
        BY <1>3, <1>4, <1>6, <2>3, TailFacts DEF At
      <4>2. /\ At(chains', "save", 2, 2) = {} => Newest(chains, 1, At(chains, "save", 2, 2))
            /\ \A i \in 1 .. Len(chains') : Newest(chains', i, At(chains', "save", 2, 2)) =>
                 \E j \in 1 .. Len(chains) : /\ Newest(chains, j, At(chains, "save", 2, 2))
                                             /\ SameChain(chains'[i], chains[j])
        <5>1. /\ chains \in Seq(Chains) /\ chains # <<>> /\ Behind(chains, chains')
              /\ chains[1].step = 2 /\ 2 \in Nat
          BY <1>3, <1>4, <1>9, <2>3
        <5> QED
          BY <4>1, <5>1, HeadLeaves
      <4>3. \A j \in 1 .. Len(chains) : Newest(chains, j, At(chains, "save", 2, 2)) =>
              chains[j].draft.embedding = store.embedding /\ chains[j].kind = "save"
        BY <1>5 DEF Agreements, EmbeddingAgrees, Newest, At
      <4>4. 1 \in 1 .. Len(chains)
        BY <4>1 DEF At
      <4> QED
        BY <1>4, <4>2, <4>3, <4>4 DEF SameChain
    <3> QED
      BY <1>2, <1>10, <1>11, <2>3, <3>1 DEF EmbeddingAgrees
  <2> QED
    BY <2>1, <2>2, <2>3
<1>16. ProxyAgrees'
  <2>1. CASE c.step \notin {2, 3, 4}
    <3>1. Stays(chains, chains', "save", 3, 3) /\ Stays(chains, chains', "save", 4, 4)
      BY <1>8a, <1>8b, <2>1
    <3> QED
      BY <1>5, <1>9, <1>10, <1>11, <1>12, <2>1, <3>1, AgreementsStay
  <2>2. CASE c.step = 2
    <3>1. /\ At(chains', "save", 3, 3) # {}
          /\ \A i \in 1 .. Len(chains') : Newest(chains', i, At(chains', "save", 3, 3)) => SameChain(chains'[i], c)
      <4>1. chains[1].kind = "save" /\ chains[1].step + 1 = 3 /\ c.step # 6
        BY <1>3, <1>4, <2>2
      <4>2. /\ At(chains', chains[1].kind, 3, 3) # {}
            /\ \A i \in 1 .. Len(chains') :
                 Newest(chains', i, At(chains', chains[1].kind, 3, 3)) => SameChain(chains'[i], chains[1])
        <5>1. /\ chains \in Seq(Chains) /\ chains # <<>> /\ Further(Head(chains)) \in Chains
              /\ chains' = Append(Tail(chains), Further(Head(chains)))
          BY <1>3, <1>4, <1>6, <4>1
        <5>2. 3 \in Nat /\ 3 \in Nat /\ 3 <= 3
          OBVIOUS
        <5> QED
          BY <4>1, <5>1, <5>2, HeadEnters
      <4> QED
        BY <1>4, <4>1, <4>2
    <3>2. Stays(chains, chains', "save", 4, 4)
      BY <1>4, <1>8, <2>2
    <3> QED
      BY <1>2, <1>3, <1>5, <1>10, <1>11, <1>12, <2>2, <3>1, <3>2 DEF ProxyAgrees, SameChain, Agreements, Stays
  <2>3. CASE c.step = 3
    <3>1. /\ At(chains', "save", 3, 3) = {} => c.draft.proxy = store.proxy
          /\ \A i \in 1 .. Len(chains') : Newest(chains', i, At(chains', "save", 3, 3)) =>
               chains'[i].draft.proxy = store.proxy
      <4>1. 1 \in At(chains, "save", 3, 3) /\ Len(chains) \notin At(chains', "save", 3, 3)
        BY <1>3, <1>4, <1>6, <2>3, TailFacts DEF At
      <4>2. /\ At(chains', "save", 3, 3) = {} => Newest(chains, 1, At(chains, "save", 3, 3))
            /\ \A i \in 1 .. Len(chains') : Newest(chains', i, At(chains', "save", 3, 3)) =>
                 \E j \in 1 .. Len(chains) : /\ Newest(chains, j, At(chains, "save", 3, 3))
                                             /\ SameChain(chains'[i], chains[j])
        BY <1>3, <1>4, <1>9, <2>3, <4>1, HeadLeaves
      <4>3. \A j \in 1 .. Len(chains) : Newest(chains, j, At(chains, "save", 3, 3)) =>
              chains[j].draft.proxy = store.proxy /\ chains[j].kind = "save"
        BY <1>5 DEF Agreements, ProxyAgrees, Newest, At
      <4>4. 1 \in 1 .. Len(chains)
        BY <4>1 DEF At
      <4> QED
        BY <1>4, <4>2, <4>3, <4>4 DEF SameChain
    <3>2. Len(chains) \in At(chains', "save", 4, 4)
      BY <1>3, <1>4, <1>6, <2>3, TailFacts DEF At
    <3> QED
      BY <1>2, <1>10, <1>11, <2>3, <3>1, <3>2 DEF ProxyAgrees
  <2>4. CASE c.step = 4
    <3>1. Stays(chains, chains', "save", 3, 3)
      BY <1>4, <1>8, <2>4
    <3>2. \A i \in 1 .. Len(chains') : Newest(chains', i, At(chains', "save", 3, 3)) => chains'[i].kind = "save"
      BY DEF Newest, At
    <3> QED
      BY <1>5, <1>10, <1>11, <1>12, <2>4, <3>1, <3>2 DEF ProxyAgrees, SameChain, Agreements, Stays
  <2> QED
    BY <2>1, <2>2, <2>3, <2>4
<1>17. EnvAgrees'
  <2>1. CASE c.step = 1
    <3>1. Stays(chains, chains', "save", 3, 6)
      BY <1>8a, <1>8b, <2>1
    <3> QED
      BY <1>5, <1>9, <1>10, <1>12, <2>1, <3>1, AgreementsStay
  <2>2. CASE c.step = 2
    <3>1. /\ At(chains', "save", 3, 6) # {}
          /\ \A i \in 1 .. Len(chains') : Newest(chains', i, At(chains', "save", 3, 6)) => SameChain(chains'[i], c)
      <4>1. chains[1].kind = "save" /\ chains[1].step + 1 = 3 /\ c.step # 6
        BY <1>3, <1>4, <2>2
      <4>2. /\ At(chains', chains[1].kind, 3, 6) # {}
            /\ \A i \in 1 .. Len(chains') :
                 Newest(chains', i, At(chains', chains[1].kind, 3, 6)) => SameChain(chains'[i], chains[1])
        <5>1. /\ chains \in Seq(Chains) /\ chains # <<>> /\ Further(Head(chains)) \in Chains
              /\ chains' = Append(Tail(chains), Further(Head(chains)))
          BY <1>3, <1>4, <1>6, <4>1
        <5>2. 3 \in Nat /\ 6 \in Nat /\ 3 <= 6
          OBVIOUS
        <5> QED
          BY <4>1, <5>1, <5>2, HeadEnters
      <4> QED
        BY <1>4, <4>1, <4>2
    <3> QED
      BY <1>2, <1>3, <1>10, <2>2, <3>1 DEF EnvAgrees, SameChain
  <2>3. CASE c.step \in 3 .. 5
    <3>1. 3 <= chains[1].step /\ chains[1].step + 1 <= 6 /\ chains[1].kind = "save" /\ c.step # 6
      BY <1>3, <1>4, <2>3
    <3>2. Stays(chains, chains', chains[1].kind, 3, 6)
      BY <1>3, <1>4, <1>6, <3>1, FurtherInside
    <3>3. Stays(chains, chains', "save", 3, 6)
      BY <3>1, <3>2
    <3> QED
      BY <1>5, <1>9, <1>10, <1>12, <2>3, <3>3, AgreementsStay
  <2>4. CASE c.step = 6
    <3>1. /\ At(chains', "save", 3, 6) = {} => c.draft.proxy = store.proxy
          /\ \A i \in 1 .. Len(chains') : Newest(chains', i, At(chains', "save", 3, 6)) =>
               chains'[i].draft.proxy = store.proxy
      <4>1. 1 \in At(chains, "save", 3, 6) /\ Len(chains) \notin At(chains', "save", 3, 6)
        BY <1>3, <1>4, <1>7, <2>4, TailFacts DEF At
      <4>2. /\ At(chains', "save", 3, 6) = {} => Newest(chains, 1, At(chains, "save", 3, 6))
            /\ \A i \in 1 .. Len(chains') : Newest(chains', i, At(chains', "save", 3, 6)) =>
                 \E j \in 1 .. Len(chains) : /\ Newest(chains, j, At(chains, "save", 3, 6))
                                             /\ SameChain(chains'[i], chains[j])
        BY <1>3, <1>4, <1>9, <2>4, <4>1, HeadLeaves
      <4>3. \A j \in 1 .. Len(chains) : Newest(chains, j, At(chains, "save", 3, 6)) =>
              chains[j].draft.proxy = store.proxy /\ chains[j].kind = "save"
        BY <1>5 DEF Agreements, EnvAgrees, Newest, At
      <4>4. 1 \in 1 .. Len(chains)
        BY <4>1 DEF At
      <4> QED
        BY <1>4, <4>2, <4>3, <4>4 DEF SameChain
    <3> QED
      BY <1>2, <1>10, <1>12, <2>4, <3>1 DEF EnvAgrees
  <2> QED
    BY <1>4, <2>1, <2>2, <2>3, <2>4
<1>18. NetworkAgrees'
  <2>1. CASE c.step \notin {4, 5}
    <3>1. Stays(chains, chains', "save", 5, 5)
      BY <1>8a, <1>8b, <2>1
    <3> QED
      BY <1>5, <1>9, <1>10, <1>11, <2>1, <3>1, AgreementsStay
  <2>2. CASE c.step = 4
    <3>1. /\ At(chains', "save", 5, 5) # {}
          /\ \A i \in 1 .. Len(chains') : Newest(chains', i, At(chains', "save", 5, 5)) => SameChain(chains'[i], c)
      <4>1. chains[1].kind = "save" /\ chains[1].step + 1 = 5 /\ c.step # 6
        BY <1>3, <1>4, <2>2
      <4>2. /\ At(chains', chains[1].kind, 5, 5) # {}
            /\ \A i \in 1 .. Len(chains') :
                 Newest(chains', i, At(chains', chains[1].kind, 5, 5)) => SameChain(chains'[i], chains[1])
        <5>1. /\ chains \in Seq(Chains) /\ chains # <<>> /\ Further(Head(chains)) \in Chains
              /\ chains' = Append(Tail(chains), Further(Head(chains)))
          BY <1>3, <1>4, <1>6, <4>1
        <5>2. 5 \in Nat /\ 5 \in Nat /\ 5 <= 5
          OBVIOUS
        <5> QED
          BY <4>1, <5>1, <5>2, HeadEnters
      <4> QED
        BY <1>4, <4>1, <4>2
    <3> QED
      BY <1>2, <1>3, <1>10, <2>2, <3>1 DEF NetworkAgrees, SameChain
  <2>3. CASE c.step = 5
    <3>1. /\ At(chains', "save", 5, 5) = {} => c.draft.network = store.network
          /\ \A i \in 1 .. Len(chains') : Newest(chains', i, At(chains', "save", 5, 5)) =>
               chains'[i].draft.network = store.network
      <4>1. 1 \in At(chains, "save", 5, 5) /\ Len(chains) \notin At(chains', "save", 5, 5)
        BY <1>3, <1>4, <1>6, <2>3, TailFacts DEF At
      <4>2. /\ At(chains', "save", 5, 5) = {} => Newest(chains, 1, At(chains, "save", 5, 5))
            /\ \A i \in 1 .. Len(chains') : Newest(chains', i, At(chains', "save", 5, 5)) =>
                 \E j \in 1 .. Len(chains) : /\ Newest(chains, j, At(chains, "save", 5, 5))
                                             /\ SameChain(chains'[i], chains[j])
        <5>1. /\ chains \in Seq(Chains) /\ chains # <<>> /\ Behind(chains, chains')
              /\ chains[1].step = 5 /\ 5 \in Nat
          BY <1>3, <1>4, <1>9, <2>3
        <5> QED
          BY <4>1, <5>1, HeadLeaves
      <4>3. \A j \in 1 .. Len(chains) : Newest(chains, j, At(chains, "save", 5, 5)) =>
              chains[j].draft.network = store.network /\ chains[j].kind = "save"
        BY <1>5 DEF Agreements, NetworkAgrees, Newest, At
      <4>4. 1 \in 1 .. Len(chains)
        BY <4>1 DEF At
      <4> QED
        BY <1>4, <4>2, <4>3, <4>4 DEF SameChain
    <3> QED
      BY <1>2, <1>10, <1>11, <2>3, <3>1 DEF NetworkAgrees
  <2> QED
    BY <2>1, <2>2, <2>3
<1>19. ModelAgrees'
  <2>1. \A i \in 1 .. Len(chains') : LastOf(i, Writers(chains')) =>
          /\ i + 1 \in 1 .. Len(chains) /\ LastOf(i + 1, Writers(chains)) /\ chains'[i] = chains[i + 1]
    BY <1>3, <1>4, <1>8, <1>9, HeadWrites
  <2>2. Writers(chains') = {} => Writers(chains) = {} \/ LastOf(1, Writers(chains))
    BY <1>3, <1>4, <1>8, <1>9, HeadWrites
  <2>3. 1 \in Writers(chains) <=> c.step = 1
    BY <1>3, <1>4, TailFacts DEF Writers
  <2>4. ModelOf(chains[1]) = d.llm /\ 1 \in 1 .. Len(chains)
    BY <1>2, <1>3, <1>4, TailFacts DEF ModelOf
  <2>5. ASSUME Unresolved(chains') = {}, Writers(chains') = {} PROVE mem'.llm = store.llm
    <3>1. CASE c.step = 1
      BY <1>5, <1>8, <1>11, <2>2, <2>3, <2>4, <2>5, <3>1 DEF Agreements, ModelAgrees
    <3>2. CASE c.step # 1
      BY <1>5, <1>8, <1>11, <2>2, <2>3, <2>5, <3>2 DEF Agreements, ModelAgrees, LastOf
    <3> QED
      BY <3>1, <3>2
  <2>6. ASSUME Unresolved(chains') = {}, NEW i \in 1 .. Len(chains'), LastOf(i, Writers(chains'))
        PROVE  ModelOf(chains'[i]) = store.llm
    BY <1>5, <1>8, <2>1, <2>6 DEF Agreements, ModelAgrees
  <2> QED
    BY <1>10, <1>12, <2>5, <2>6 DEF ModelAgrees
<1>20. OneSaveSoFar'
  <2>1. CASE bounds.saves \notin {0, 1}
    BY <1>3, <2>1 DEF OneSaveSoFar
  <2>2. CASE bounds.saves \in {0, 1}
    <3>1. /\ bounds.saves = 1
          /\ \A i \in 1 .. Len(chains') : chains'[i].kind = "save" => i = Len(chains)
          /\ c.step >= 2 => store.embedding = d.embedding
          /\ c.step >= 3 => mem.embedding = d.embedding /\ store.proxy = d.proxy
          /\ c.step >= 4 => mem.proxy = d.proxy
          /\ c.step >= 5 => store.network = d.network
          /\ c.step >= 6 => mem.network = d.network
      BY <1>2, <1>3, <1>4, <1>9, <2>2, OnlyOneSave
    <3>2. CASE c.step = 6
      <4>1. \A i \in 1 .. Len(chains') : i # Len(chains)
        BY <1>4, <1>7, <3>2
      <4> QED
        BY <1>3, <3>1, <4>1 DEF OneSaveSoFar
    <3>3. CASE c.step # 6
      <4>1. /\ chains'[Len(chains)].step = c.step + 1 /\ chains'[Len(chains)].draft = d
            /\ Len(chains') = Len(chains)
        BY <1>2, <1>3, <1>6, <3>3 DEF SameChain
      <4>2. /\ c.step + 1 >= 2 => store'.embedding = d.embedding
            /\ c.step + 1 >= 3 => mem'.embedding = d.embedding /\ store'.proxy = d.proxy
            /\ c.step + 1 >= 4 => mem'.proxy = d.proxy
            /\ c.step + 1 >= 5 => store'.network = d.network
            /\ c.step + 1 >= 6 => mem'.network = d.network
        BY <1>4, <1>10, <1>11, <3>1
      <4> QED
        BY <1>3, <3>1, <4>1, <4>2 DEF OneSaveSoFar
    <3> QED
      BY <3>2, <3>3
  <2> QED
    BY <2>1, <2>2
<1> QED
  BY <1>13, <1>14, <1>15, <1>16, <1>17, <1>18, <1>19, <1>20 DEF SInv, Agreements

LEMMA AutoSaveKeepsSInv ==
  ASSUME SInv, S!AutoSave
  PROVE  SInv'
BY DEF S!AutoSave, SInv, SettingsTypes, Agreements, OverridesAgree, ActiveAgrees, EmbeddingAgrees, ProxyAgrees,
       EnvAgrees, NetworkAgrees, ModelAgrees, OneSaveSoFar

LEMMA RestartKeepsSInv ==
  ASSUME SInv, S!Restart
  PROVE  SInv'
<1>1. PICK s : s = S!Reresolved(disk)
  OBVIOUS
<1>2. PICK n : n = S!SeedOf(disk.network, s.llm)
  OBVIOUS
<1>3. /\ disk \in Stores /\ bounds \in [edits : Nat, saves : Nat, crashes : Nat]
  BY DEF SInv, SettingsTypes
<1>4. /\ chains' = <<>> /\ env' = disk.proxy /\ mem' = s /\ disk' = disk
      /\ store' = [s EXCEPT !.network = n] /\ draft' = S!DraftOf(store')
      /\ bounds' = [bounds EXCEPT !.crashes = @ + 1]
  BY <1>1, <1>2 DEF S!Restart, S!Sets
<1>5. /\ s \in Stores /\ s.network = disk.network /\ s.proxy = disk.proxy
      /\ s.active # S!NoPreset => s.llm = S!Resolved(s.active, s.overrides)
  <2>1. CASE disk.active = S!NoPreset
    BY <1>1, <1>3, <2>1 DEF S!Reresolved
  <2>2. CASE disk.active # S!NoPreset
    <3>1. PICK m : m = S!Resolved(disk.active, disk.overrides)
      OBVIOUS
    <3>2. m \in Models
      BY <1>3, <2>2, <3>1 DEF S!Resolved, Models, Actives, Stores
    <3>3. s = [disk EXCEPT !.llm = m]
      BY <1>1, <2>2, <3>1 DEF S!Reresolved
    <3> QED
      BY <1>3, <3>1, <3>2, <3>3 DEF Stores
  <2> QED
    BY <2>1, <2>2
<1>6. n \in Hosts /\ (s.network # S!Unset => n = s.network)
  BY <1>2, <1>3, <1>5 DEF S!SeedOf, Hosts, Texts, Stores
<1>7. /\ store' \in Stores /\ store'.network = n /\ store'.llm = s.llm /\ store'.overrides = s.overrides
      /\ store'.active = s.active /\ store'.embedding = s.embedding /\ store'.proxy = s.proxy
  BY <1>4, <1>5, <1>6 DEF Stores
<1>8. draft' \in Drafts /\ draft'.llm = store'.llm
  BY <1>4, <1>7 DEF S!DraftOf, Drafts, Stores
<1>9. Len(chains') = 0 /\ chains' \in Seq(Chains)
  BY <1>4
<1>10. SettingsTypes'
  BY <1>3, <1>4, <1>5, <1>7, <1>8, <1>9 DEF SettingsTypes, Stores
<1>11. Agreements'
  BY <1>4, <1>5, <1>6, <1>7, <1>8, <1>9
  DEF Agreements, OverridesAgree, ActiveAgrees, EmbeddingAgrees, ProxyAgrees, EnvAgrees, NetworkAgrees,
      ModelAgrees, OneSaveSoFar
<1> QED
  BY <1>10, <1>11 DEF SInv

LEMMA NextSInv ==
  ASSUME NoneIsNoPreset, SInv, [S!Next]_(S!vars)
  PROVE  SInv'
<1>1. CASE UNCHANGED S!vars
  BY <1>1
  DEF S!vars, SInv, SettingsTypes, Agreements, OverridesAgree, ActiveAgrees, EmbeddingAgrees, ProxyAgrees,
      EnvAgrees, NetworkAgrees, ModelAgrees, OneSaveSoFar
<1> QED
  BY <1>1, EditKeepsSInv, TypeKeepsSInv, ToggleKeepsSInv, SaveKeepsSInv, PersistsKeepsSInv, SavesKeepsSInv,
     AutoSaveKeepsSInv, RestartKeepsSInv
  DEF S!Next

LEMMA SInvSuffices ==
  ASSUME SInv
  PROVE  S!SettingsSettle
<1> SUFFICES ASSUME chains = <<>>
             PROVE  /\ store.llm = mem.llm /\ store.overrides = mem.overrides /\ store.active = mem.active
                    /\ store.active # S!NoPreset => store.llm = S!Resolved(store.active, store.overrides)
                    /\ store.embedding = mem.embedding /\ store.proxy = mem.proxy
                    /\ mem.network # S!Unset => store.network = mem.network
                    /\ env = store.proxy /\ disk.proxy = mem.proxy
  BY DEF S!SettingsSettle
<1>1. /\ \A k, lo, hi : At(chains, k, lo, hi) = {}
      /\ Writers(chains) = {} /\ Unresolved(chains) = {}
  BY DEF At, Writers, Unresolved
<1> QED
  BY <1>1
  DEF SInv, Agreements, OverridesAgree, ActiveAgrees, EmbeddingAgrees, ProxyAgrees, EnvAgrees, NetworkAgrees,
      ModelAgrees

\* The last step of a save changes neither side of what it has settled.
LEMMA StepKeepsDraft ==
  ASSUME SInv, [S!Next]_(S!vars)
  PROVE  S!SaveKeepsDraft
<1> SUFFICES ASSUME chains # <<>>, Head(chains).kind = "save", Head(chains).step = 6, bounds.saves = 1,
                    bounds' = bounds
             PROVE  \A k \in S!Drafted : store'[k] = Head(chains).draft[k] /\ mem'[k] = Head(chains).draft[k]
  BY DEF S!SaveKeepsDraft
<1>1. /\ chains[1] = Head(chains) /\ 1 \in 1 .. Len(chains)
  BY TailFacts DEF SInv, SettingsTypes
<1>2. /\ store.embedding = Head(chains).draft.embedding /\ mem.embedding = Head(chains).draft.embedding
      /\ store.proxy = Head(chains).draft.proxy /\ mem.proxy = Head(chains).draft.proxy
      /\ store.network = Head(chains).draft.network /\ mem.network = Head(chains).draft.network
  BY <1>1 DEF SInv, Agreements, OneSaveSoFar
<1>3. store' = store /\ mem' = mem
  <2>1. bounds \in [edits : Nat, saves : Nat, crashes : Nat]
    BY DEF SInv, SettingsTypes
  <2>2. ~S!Edited /\ ~S!Save /\ ~S!Restart
    BY <2>1 DEF S!Edited, S!Save, S!Restart
  <2>3. ~S!Persists /\ (S!Saves => store' = store /\ mem' = mem)
    BY DEF S!Persists, S!Saves
  <2> QED
    BY <2>2, <2>3 DEF S!Next, S!vars, S!Edit, S!Type, S!Toggle, S!AutoSave
<1> QED
  BY <1>2, <1>3 DEF S!Drafted

\* When nothing is under way the window, the bridge, the file and the process
\* agree, however many chains of calls ran into each other and wherever the
\* process ended (llm-provider-section.tsx, project-store.ts); and a save keeps
\* what the user saw when clicking (settings-view.tsx): for any presets and
\* values.
THEOREM SettingsSettleAndStay ==
  ASSUME NoneIsNoPreset
  PROVE  S!Spec => []S!SettingsSettle /\ [][S!SaveKeepsDraft]_(S!vars)
<1>1. S!Init => SInv
  BY InitSInv
<1>2. SInv /\ [S!Next]_(S!vars) => SInv'
  BY NextSInv
<1>3. SInv => S!SettingsSettle
  BY SInvSuffices
<1>4. SInv /\ [S!Next]_(S!vars) => [S!SaveKeepsDraft]_(S!vars)
  BY StepKeepsDraft
<1> QED
  BY <1>1, <1>2, <1>3, <1>4, PTL DEF S!Spec

-----------------------------------------------------------------------------
(***************************************************************************)
(* The check for updates.                                                  *)
(***************************************************************************)
\* Each release is newer than those before it, number by number.
ReleasesInOrder ==
  /\ Len(Releases) \in Nat /\ Len(Releases) >= 2
  /\ \A i, j \in 1 .. Len(Releases) : U!isNewer(Releases[i], Releases[j]) <=> i > j

Choices == [enabled : BOOLEAN, checkedAt : Int, dismissed : Nat]
Known(r) == /\ r \in [kind : {"available", "up-to-date", "error"}, remote : 0 .. world.latest]
            /\ r.kind = "available" <=> r.remote > world.local
WorldOK ==
  /\ world \in [latest : 1 .. Len(Releases), local : 1 .. Len(Releases), allowed : BOOLEAN, hour : Nat]
  /\ world.local <= world.latest
MemOK ==
  /\ DOMAIN state = {"checking", "result", "checkedAt", "dismissed", "enabled"}
  /\ state.checking \in BOOLEAN /\ U!Kept(state) \in Choices
  /\ state.result = U!Nothing \/ Known(state.result)
Stored(d, latest) == d = U!Nothing \/ (d \in Choices /\ d.dismissed <= latest)
UpdateTypes ==
  /\ WorldOK /\ MemOK /\ state.dismissed <= world.latest
  /\ start \in {"waiting", "read", "over"}
  /\ Stored(stored, world.latest) /\ Stored(persisted, world.latest)
  /\ flights \in Seq(Choices) /\ \A i \in 1 .. Len(flights) : Stored(flights[i], world.latest)
  /\ checks \subseteq [by : {"start", "user"}, since : 1 .. world.latest, allowed : BOOLEAN]
  /\ shown \in [wanted : BOOLEAN, closed : SUBSET Nat, early : BOOLEAN, overlap : BOOLEAN, lost : BOOLEAN]

\* What the user chose, as it is kept: in the store, or on disk as long as it
\* was not read back.
OnDisk == IF stored = U!Nothing THEN U!Kept(U!Fresh) ELSE stored
Choice == IF start = "over" THEN U!Kept(state) ELSE OnDisk

\* Before the state is read back nothing is known, chosen or written.
NothingYet ==
  start # "over" => /\ flights = <<>> /\ state.result = U!Nothing /\ U!Kept(state) = U!Kept(U!Fresh)
                    /\ \A c \in checks : c.by = "user"
                    /\ start = "read" => persisted = stored
\* After, the last write is what the store has.
LastWriteIsTheStore ==
  start = "over" => IF flights = <<>> THEN OnDisk = U!Kept(state) ELSE flights[Len(flights)] = U!Kept(state)
\* What was closed is not newer than what is kept as dismissed, and no answer,
\* had or to come, is older.
ChoiceIsTold == shown.wanted = Choice.enabled /\ \A x \in shown.closed : x <= Choice.dismissed
AnswersAreLater ==
  /\ state.result # U!Nothing /\ state.result.kind = "available" => state.result.remote >= Choice.dismissed
  /\ \A c \in checks : /\ c.since >= Choice.dismissed
                       /\ state.result # U!Nothing => c.since >= state.result.remote
OneCheck == (\A c, d \in checks : c = d) /\ (state.checking <=> checks # {})

CalmInv == NothingYet /\ LastWriteIsTheStore /\ ChoiceIsTold /\ AnswersAreLater /\ OneCheck
UInv == UpdateTypes /\ (U!Calm => CalmInv)

-----------------------------------------------------------------------------
LEMMA NothingIsNoChoice == U!Nothing \notin Choices /\ ~Known(U!Nothing)
<1>1. DOMAIN U!Nothing = {"nothing"}
  BY DEF U!Nothing
<1>2. \A c \in Choices : DOMAIN c = {"enabled", "checkedAt", "dismissed"}
  BY DEF Choices
<1>3. Known(U!Nothing) => DOMAIN U!Nothing = {"kind", "remote"}
  BY DEF Known
<1> QED
  BY <1>1, <1>2, <1>3

LEMMA StatusIsKnown ==
  ASSUME ReleasesInOrder, WorldOK, NEW r \in 0 .. world.latest
  PROVE  Known(U!Status(r)) /\ U!Status(r).remote = r
<1>1. CASE r = 0
  BY <1>1 DEF U!Status, U!Result, Known, WorldOK
<1>2. CASE r # 0
  <2>1. /\ r \in 1 .. Len(Releases) /\ world.local \in 1 .. Len(Releases)
        /\ Len(Releases) \in Nat /\ world.latest \in 1 .. Len(Releases)
    BY <1>2 DEF WorldOK, ReleasesInOrder
  <2>2. U!isNewer(Releases[r], Releases[world.local]) <=> r > world.local
    BY <2>1 DEF ReleasesInOrder
  <2> QED
    BY <1>2, <2>1, <2>2 DEF U!Status, U!Result, Known
<1> QED
  BY <1>1, <1>2

LEMMA LastOfTail ==
  ASSUME NEW Z, NEW s \in Seq(Z), s # <<>>
  PROVE  /\ Head(s) = s[1] /\ Head(s) \in Z /\ Tail(s) \in Seq(Z) /\ Len(s) \in Nat \ {0}
         /\ Tail(s) = <<>> => Len(s) = 1
         /\ Tail(s) # <<>> => Tail(s)[Len(Tail(s))] = s[Len(s)]
         /\ \A i \in 1 .. Len(Tail(s)) : Tail(s)[i] = s[i + 1] /\ i + 1 \in 1 .. Len(s)
<1>1. Head(s) = s[1] /\ Head(s) \in Z /\ Tail(s) \in Seq(Z) /\ Len(s) \in Nat \ {0}
  BY HeadTailProperties, EmptySeq
<1>2. Len(Tail(s)) = Len(s) - 1 /\ \A i \in 1 .. Len(Tail(s)) : Tail(s)[i] = s[i + 1]
  BY HeadTailProperties
<1>3. Tail(s) = <<>> <=> Len(Tail(s)) = 0
  BY <1>1, EmptySeq
<1> QED
  BY <1>1, <1>2, <1>3

LEMMA InitUInv ==
  ASSUME ReleasesInOrder, U!Init
  PROVE  UInv
<1>1. /\ state.result = U!Nothing /\ U!Kept(state) = [enabled |-> TRUE, checkedAt |-> -1, dismissed |-> 0]
      /\ state.checking = FALSE /\ state.dismissed = 0
      /\ DOMAIN state = {"checking", "result", "checkedAt", "dismissed", "enabled"}
  BY DEF U!Init, U!Fresh, U!Kept
<1>2. MemOK
  <2>1. [enabled |-> TRUE, checkedAt |-> -1, dismissed |-> 0] \in Choices
    BY DEF Choices
  <2> QED
    BY <1>1, <2>1 DEF MemOK
<1>3. WorldOK /\ world.latest = 2
  BY DEF U!Init, WorldOK, ReleasesInOrder
<1>4. PICK enabled \in BOOLEAN, dismissed \in {0, 2} :
       /\ \/ stored = [enabled |-> enabled, checkedAt |-> 0, dismissed |-> dismissed]
          \/ stored = U!Nothing /\ enabled /\ dismissed = 0
       /\ shown = [wanted |-> enabled, closed |-> {dismissed} \ {0}, early |-> FALSE, overlap |-> FALSE, lost |-> FALSE]
  BY DEF U!Init
<1>5. Stored(stored, world.latest) /\ Stored(persisted, world.latest)
  <2>1. [enabled |-> enabled, checkedAt |-> 0, dismissed |-> dismissed] \in Choices
    BY DEF Choices
  <2>2. dismissed <= world.latest
    BY <1>3
  <2> QED
    BY <1>4, <2>1, <2>2 DEF Stored, U!Init
<1>6. shown \in [wanted : BOOLEAN, closed : SUBSET Nat, early : BOOLEAN, overlap : BOOLEAN, lost : BOOLEAN]
  BY <1>4
<1>7. UpdateTypes
  BY <1>1, <1>2, <1>3, <1>5, <1>6 DEF UpdateTypes, U!Init
<1>8. OnDisk.enabled = enabled /\ OnDisk.dismissed = dismissed
  <2>1. [enabled |-> enabled, checkedAt |-> 0, dismissed |-> dismissed] \in Choices
    BY DEF Choices
  <2>2. CASE stored = [enabled |-> enabled, checkedAt |-> 0, dismissed |-> dismissed]
    BY <2>1, <2>2, NothingIsNoChoice DEF OnDisk
  <2>3. CASE stored = U!Nothing /\ enabled /\ dismissed = 0
    BY <2>3 DEF OnDisk, U!Kept, U!Fresh
  <2> QED
    BY <1>4, <2>2, <2>3
<1>9. CalmInv
  <2>1. /\ flights = <<>> /\ checks = {} /\ start = "waiting"
        /\ U!Kept(state) = U!Kept(U!Fresh)
    BY DEF U!Init
  <2>2. Choice = OnDisk
    BY <2>1 DEF Choice
  <2>3. NothingYet /\ LastWriteIsTheStore
    BY <1>1, <2>1 DEF NothingYet, LastWriteIsTheStore
  <2>4. ChoiceIsTold
    BY <1>4, <1>8, <2>2 DEF ChoiceIsTold
  <2>5. AnswersAreLater /\ OneCheck
    BY <1>1, <2>1 DEF AnswersAreLater, OneCheck
  <2> QED
    BY <2>3, <2>4, <2>5 DEF CalmInv
<1> QED
  BY <1>7, <1>9 DEF UInv

LEMMA ReadBackKeepsUInv ==
  ASSUME UInv, U!ReadBack
  PROVE  UInv'
<1>1. /\ start = "waiting" /\ start' = "read" /\ persisted' = stored
      /\ UNCHANGED <<state, stored, flights, checks, world, shown, tries>>
  BY DEF U!ReadBack
<1>2. UpdateTypes'
  BY <1>1 DEF UInv, UpdateTypes, WorldOK, MemOK, Known, Stored, U!Kept
<1>3. Choice' = Choice /\ OnDisk' = OnDisk /\ (U!Calm' <=> U!Calm)
  BY <1>1 DEF Choice, OnDisk, U!Calm
<1>4. ASSUME CalmInv PROVE CalmInv'
  <2>1. NothingYet'
    BY <1>1, <1>4 DEF CalmInv, NothingYet, U!Kept, U!Fresh
  <2>2. LastWriteIsTheStore' /\ OneCheck'
    BY <1>1, <1>4 DEF CalmInv, LastWriteIsTheStore, OneCheck
  <2>3. ChoiceIsTold' /\ AnswersAreLater'
    BY <1>1, <1>3, <1>4 DEF CalmInv, ChoiceIsTold, AnswersAreLater
  <2> QED
    BY <2>1, <2>2, <2>3 DEF CalmInv
<1> QED
  BY <1>2, <1>3, <1>4 DEF UInv

\* What the state that was read back makes of the store.
LEMMA HydratedIs ==
  ASSUME UInv, start = "read"
  PROVE  LET m == U!Hydrated IN
         /\ DOMAIN m = {"checking", "result", "checkedAt", "dismissed", "enabled"}
         /\ m.checking = state.checking /\ m.result = state.result
         /\ U!Kept(m) \in Choices /\ m.dismissed <= world.latest
         /\ U!Calm => U!Kept(m) = OnDisk
<1> DEFINE m == U!Hydrated
<1>1. /\ DOMAIN state = {"checking", "result", "checkedAt", "dismissed", "enabled"} /\ U!Kept(state) \in Choices
      /\ state.dismissed <= world.latest /\ Stored(persisted, world.latest)
  BY DEF UInv, UpdateTypes, MemOK
<1>2. U!Calm => persisted = stored /\ U!Kept(state) = U!Kept(U!Fresh)
  BY DEF UInv, CalmInv, NothingYet
<1>3. CASE persisted = U!Nothing
  BY <1>1, <1>2, <1>3 DEF U!Hydrated, OnDisk
<1>4. CASE persisted # U!Nothing
  <2>1. persisted \in Choices /\ persisted.dismissed <= world.latest
    BY <1>1, <1>4 DEF Stored
  <2>2. m = [state EXCEPT !.enabled = persisted.enabled, !.checkedAt = persisted.checkedAt,
                        !.dismissed = persisted.dismissed]
    BY <1>4 DEF U!Hydrated
  <2> HIDE DEF m
  <2>3. /\ DOMAIN m = DOMAIN state /\ m.checking = state.checking /\ m.result = state.result
        /\ m.enabled = persisted.enabled /\ m.checkedAt = persisted.checkedAt
        /\ m.dismissed = persisted.dismissed
    BY <1>1, <2>2
  <2>4. U!Kept(m) = persisted
    BY <2>1, <2>3 DEF U!Kept, Choices
  <2> QED
    BY <1>1, <1>2, <1>4, <2>1, <2>3, <2>4 DEF OnDisk, m
<1> QED
  BY <1>3, <1>4

LEMMA HydrateKeepsUInv ==
  ASSUME UInv, U!Hydrate
  PROVE  UInv'
<1> DEFINE m == U!Hydrated
<1>1. /\ DOMAIN m = {"checking", "result", "checkedAt", "dismissed", "enabled"}
      /\ m.checking = state.checking /\ m.result = state.result
      /\ U!Kept(m) \in Choices /\ m.dismissed <= world.latest
      /\ U!Calm => U!Kept(m) = OnDisk
  BY HydratedIs DEF U!Hydrate
<1>2. /\ start = "read" /\ start' = "over" /\ UNCHANGED <<stored, flights, persisted, world, tries>>
      /\ \/ /\ state' = [m EXCEPT !.checking = TRUE]
            /\ checks' = checks \cup {[by |-> "start", since |-> world.latest, allowed |-> world.allowed]}
            /\ shown' = [shown EXCEPT !.overlap = @ \/ checks # {}]
         \/ state' = m /\ UNCHANGED <<checks, shown>>
  BY DEF U!Hydrate
<1> HIDE DEF m
<1>3. /\ DOMAIN state' = DOMAIN m /\ state'.result = m.result /\ state'.dismissed = m.dismissed
      /\ U!Kept(state') = U!Kept(m) /\ state'.checking \in {state.checking, TRUE}
  BY <1>1, <1>2 DEF U!Kept
<1>4. MemOK'
  BY <1>1, <1>2, <1>3 DEF UInv, UpdateTypes, MemOK, Known
<1>5. UpdateTypes'
  <2>1. [by |-> "start", since |-> world.latest, allowed |-> world.allowed]
           \in [by : {"start", "user"}, since : 1 .. world.latest, allowed : BOOLEAN]
    BY DEF UInv, UpdateTypes, WorldOK
  <2>2. checks' \subseteq [by : {"start", "user"}, since : 1 .. world.latest, allowed : BOOLEAN]
    BY <1>2, <2>1 DEF UInv, UpdateTypes
  <2>3. shown' \in [wanted : BOOLEAN, closed : SUBSET Nat, early : BOOLEAN, overlap : BOOLEAN, lost : BOOLEAN]
    BY <1>2 DEF UInv, UpdateTypes
  <2> QED
    BY <1>1, <1>2, <1>3, <1>4, <2>2, <2>3 DEF UInv, UpdateTypes, WorldOK, Stored
<1>6. ASSUME U!Calm' PROVE CalmInv'
  <2>1. U!Calm /\ shown'.wanted = shown.wanted /\ shown'.closed = shown.closed
    BY <1>2, <1>6 DEF U!Calm, UInv, UpdateTypes
  <2>2. CalmInv
    BY <2>1 DEF UInv
  <2>3. /\ flights = <<>> /\ U!Kept(state)' = OnDisk /\ OnDisk' = OnDisk /\ Choice = OnDisk
        /\ Choice' = OnDisk /\ state'.result = U!Nothing
    BY <1>1, <1>2, <1>3, <2>1, <2>2 DEF CalmInv, NothingYet, OnDisk, Choice
  <2>4. NothingYet' /\ LastWriteIsTheStore' /\ ChoiceIsTold'
    BY <1>2, <2>1, <2>2, <2>3 DEF CalmInv, NothingYet, LastWriteIsTheStore, ChoiceIsTold
  <2>5. AnswersAreLater'
    <3>1. world.latest \in Nat /\ OnDisk.dismissed <= world.latest
      BY <1>1, <2>1 DEF UInv, UpdateTypes, WorldOK, U!Kept
    <3> QED
      BY <1>2, <2>2, <2>3, <3>1 DEF CalmInv, AnswersAreLater
  <2>6. OneCheck'
    <3>1. CASE state' = m /\ UNCHANGED <<checks, shown>>
      BY <1>1, <2>2, <3>1 DEF CalmInv, OneCheck
    <3>2. CASE /\ state' = [m EXCEPT !.checking = TRUE]
               /\ checks' = checks \cup {[by |-> "start", since |-> world.latest, allowed |-> world.allowed]}
               /\ shown' = [shown EXCEPT !.overlap = @ \/ checks # {}]
      <4>1. checks = {} /\ state'.checking
        BY <1>1, <1>6, <3>2 DEF U!Calm, UInv, UpdateTypes
      <4> QED
        BY <3>2, <4>1 DEF OneCheck
    <3> QED
      BY <1>2, <3>1, <3>2
  <2> QED
    BY <2>4, <2>5, <2>6 DEF CalmInv
<1> QED
  BY <1>5, <1>6 DEF UInv

\* The answer of a check: what the store then has.
LEMMA AnswerKeepsUInv ==
  ASSUME ReleasesInOrder, UInv, NEW c \in checks, NEW release \in 0 .. Len(Releases),
         U!Answered(c, release) \/ U!AnsweredNow(c, release)
  PROVE  UInv'
<1> DEFINE by == c.by = "user"
           k == [state EXCEPT !.result = U!Status(release), !.checkedAt = world.hour, !.checking = FALSE]
           m == IF by THEN [k EXCEPT !.dismissed = 0] ELSE k
<1>0. /\ c \in [by : {"start", "user"}, since : 1 .. world.latest, allowed : BOOLEAN]
      /\ WorldOK /\ MemOK
  BY DEF UInv, UpdateTypes
<1>1. /\ checks' = checks \ {c} /\ UNCHANGED <<stored, start, persisted, world>>
      /\ U!Arrives(c, release)
      /\ state' = m /\ flights' = Append(flights, U!Kept(m))
      /\ shown' = IF by THEN [shown EXCEPT !.closed = {}, !.early = @ \/ U!Early] ELSE shown
  <2>1. CASE U!Answered(c, release)
    BY <2>1 DEF U!Answered
  <2>2. CASE U!AnsweredNow(c, release)
    <3>1. m = [state EXCEPT !.result = U!Status(release), !.checkedAt = world.hour, !.checking = FALSE,
                          !.dismissed = 0]
      BY <1>0, <2>2 DEF U!AnsweredNow, MemOK
    <3> QED
      BY <2>2, <3>1 DEF U!AnsweredNow
  <2> QED
    BY <2>1, <2>2
<1>2. release \in 0 .. world.latest /\ (release # 0 => release >= c.since)
  BY <1>0, <1>1 DEF U!Arrives, U!Answers, WorldOK
<1>3. Known(U!Status(release)) /\ U!Status(release).remote = release
  BY <1>0, <1>2, StatusIsKnown
<1>4. /\ DOMAIN m = DOMAIN state /\ m.result = U!Status(release) /\ m.checking = FALSE
      /\ m.checkedAt = world.hour /\ m.enabled = state.enabled
      /\ m.dismissed = IF by THEN 0 ELSE state.dismissed
  BY <1>0 DEF MemOK
<1> HIDE DEF k, m, by
<1>5. U!Kept(m) \in Choices /\ U!Kept(m).dismissed = m.dismissed /\ U!Kept(m).enabled = state.enabled
  BY <1>0, <1>4 DEF U!Kept, Choices, MemOK, WorldOK
<1>6. m.dismissed <= world.latest
  BY <1>0, <1>4 DEF UInv, UpdateTypes, WorldOK
<1>7. UpdateTypes'
  <2>1. WorldOK' /\ MemOK' /\ state'.dismissed <= world'.latest
    BY <1>0, <1>1, <1>3, <1>4, <1>5, <1>6 DEF WorldOK, MemOK, Known
  <2>2. /\ flights' \in Seq(Choices) /\ Len(flights') = Len(flights) + 1 /\ Len(flights) \in Nat
        /\ \A i \in 1 .. Len(flights') : flights'[i] = IF i = Len(flights) + 1 THEN U!Kept(m) ELSE flights[i]
    BY <1>1, <1>5 DEF UInv, UpdateTypes
  <2>3. Stored(U!Kept(m), world.latest)
    BY <1>1, <1>5, <1>6 DEF Stored
  <2>4. \A i \in 1 .. Len(flights') : Stored(flights'[i], world.latest)
    BY <1>1, <2>2, <2>3 DEF UInv, UpdateTypes, Stored
  <2>5. shown' \in [wanted : BOOLEAN, closed : SUBSET Nat, early : BOOLEAN, overlap : BOOLEAN, lost : BOOLEAN]
    BY <1>1 DEF UInv, UpdateTypes, U!Early
  <2> QED
    BY <1>1, <2>1, <2>2, <2>4, <2>5 DEF UInv, UpdateTypes, Stored
<1>8. ASSUME U!Calm' PROVE CalmInv'
  <2>1. /\ U!Calm /\ shown'.wanted = shown.wanted /\ shown'.closed = IF by THEN {} ELSE shown.closed
        /\ by => start = "over"
    BY <1>1, <1>8 DEF U!Calm, UInv, UpdateTypes, U!Early
  <2>2. CalmInv
    BY <2>1 DEF UInv
  <2>3. start = "over"
    BY <1>0, <2>1, <2>2 DEF CalmInv, NothingYet, by
  <2>4. checks = {c} /\ checks' = {}
    BY <1>1, <2>2 DEF CalmInv, OneCheck
  <2>5. Choice = U!Kept(state) /\ Choice' = U!Kept(m)
    BY <1>1, <2>3 DEF Choice
  <2>6. U!Kept(state).enabled = state.enabled /\ U!Kept(state).dismissed = state.dismissed
    BY DEF U!Kept
  <2>7. NothingYet' /\ OneCheck'
    BY <1>1, <1>4, <2>3, <2>4 DEF NothingYet, OneCheck
  <2>8. LastWriteIsTheStore'
    BY <1>1, <1>5 DEF LastWriteIsTheStore, UInv, UpdateTypes
  <2>9. ChoiceIsTold'
    BY <1>4, <1>5, <2>1, <2>2, <2>5, <2>6 DEF CalmInv, ChoiceIsTold
  <2>10. AnswersAreLater'
    <3>1. m.result.kind = "available" => release # 0
      BY <1>0, <1>3, <1>4 DEF Known, WorldOK
    <3>2. c.since >= state.dismissed
      BY <2>2, <2>5, <2>6 DEF CalmInv, AnswersAreLater
    <3>3. m.dismissed \in Nat /\ (release # 0 => release >= m.dismissed)
      BY <1>0, <1>2, <1>4, <3>2 DEF WorldOK, MemOK, Choices, U!Kept
    <3> QED
      BY <1>1, <1>3, <1>4, <1>5, <2>4, <2>5, <3>1, <3>3 DEF AnswersAreLater
  <2> QED
    BY <2>7, <2>8, <2>9, <2>10 DEF CalmInv
<1> QED
  BY <1>7, <1>8 DEF UInv

LEMMA CheckNowKeepsUInv ==
  ASSUME UInv, U!CheckNow
  PROVE  UInv'
<1> DEFINE c == [by |-> "user", since |-> world.latest, allowed |-> world.allowed]
<1>1. /\ state' = [state EXCEPT !.checking = TRUE] /\ checks' = checks \cup {c} /\ ~state.checking
      /\ shown' = [shown EXCEPT !.overlap = @ \/ checks # {}]
      /\ UNCHANGED <<stored, flights, start, persisted, world>>
  BY DEF U!CheckNow, U!Begin
<1>2. /\ DOMAIN state' = DOMAIN state /\ state'.result = state.result /\ state'.dismissed = state.dismissed
      /\ U!Kept(state') = U!Kept(state) /\ state'.checking = TRUE
  BY <1>1 DEF UInv, UpdateTypes, MemOK, U!Kept
<1>3. c \in [by : {"start", "user"}, since : 1 .. world.latest, allowed : BOOLEAN]
  BY DEF UInv, UpdateTypes, WorldOK
<1>4. c.since = world.latest /\ c.by = "user"
  OBVIOUS
<1> HIDE DEF c
<1>5. UpdateTypes'
  BY <1>1, <1>2, <1>3 DEF UInv, UpdateTypes, WorldOK, MemOK, Known, Stored
<1>6. ASSUME U!Calm' PROVE CalmInv'
  <2>1. U!Calm /\ shown'.wanted = shown.wanted /\ shown'.closed = shown.closed /\ checks = {}
    BY <1>1, <1>6 DEF U!Calm, UInv, UpdateTypes
  <2>2. CalmInv
    BY <2>1 DEF UInv
  <2>3. Choice' = Choice /\ OnDisk' = OnDisk
    BY <1>1, <1>2 DEF Choice, OnDisk
  <2>4. Choice.dismissed <= world.latest
    <3>1. OnDisk.dismissed <= world.latest
      BY DEF OnDisk, UInv, UpdateTypes, Stored, U!Kept, U!Fresh, WorldOK
    <3> QED
      BY <3>1 DEF Choice, UInv, UpdateTypes, U!Kept
  <2>5. state.result # U!Nothing => state.result.remote <= world.latest
    BY DEF UInv, UpdateTypes, MemOK, Known, WorldOK
  <2>6. NothingYet' /\ LastWriteIsTheStore' /\ ChoiceIsTold' /\ OneCheck'
    BY <1>1, <1>2, <1>4, <2>1, <2>2, <2>3
    DEF CalmInv, NothingYet, LastWriteIsTheStore, ChoiceIsTold, OneCheck
  <2>7. world.latest \in Nat /\ Choice.dismissed \in Nat
    BY DEF UInv, UpdateTypes, WorldOK, Choice, OnDisk, Stored, MemOK, Choices, U!Kept, U!Fresh
  <2>8. AnswersAreLater'
    BY <1>1, <1>2, <1>4, <2>1, <2>2, <2>3, <2>4, <2>5, <2>7 DEF CalmInv, AnswersAreLater, UInv, UpdateTypes, MemOK, Known
  <2> QED
    BY <2>6, <2>8 DEF CalmInv
<1> QED
  BY <1>5, <1>6 DEF UInv

\* The user chooses: the store has it, and it is on its way to the disk.
LEMMA ChoosingKeepsUInv ==
  ASSUME UInv, U!Dismiss \/ U!Toggle
  PROVE  UInv'
<1>0. PICK m : m = state'
  OBVIOUS
<1>1. /\ UNCHANGED <<stored, start, persisted, checks, world>> /\ flights' = Append(flights, U!Kept(m))
      /\ \/ /\ U!hasAvailableUpdate /\ m = [state EXCEPT !.dismissed = state.result.remote]
            /\ shown' = [shown EXCEPT !.closed = @ \cup {state.result.remote}, !.early = @ \/ U!Early]
         \/ /\ m = [state EXCEPT !.enabled = ~state.enabled]
            /\ shown' = [shown EXCEPT !.wanted = ~state.enabled, !.early = @ \/ U!Early]
  BY <1>0 DEF U!Dismiss, U!Toggle, U!Keep
<1>2. /\ DOMAIN state = {"checking", "result", "checkedAt", "dismissed", "enabled"} /\ U!Kept(state) \in Choices
      /\ state.result = U!Nothing \/ Known(state.result)
      /\ state.dismissed <= world.latest /\ WorldOK
  BY DEF UInv, UpdateTypes, MemOK
<1>3. state.checkedAt \in Int /\ state.dismissed \in Nat /\ state.enabled \in BOOLEAN
  BY <1>2 DEF U!Kept, Choices
<1>4. /\ DOMAIN m = DOMAIN state /\ m.result = state.result /\ m.checking = state.checking
      /\ m.checkedAt = state.checkedAt /\ m.dismissed \in Nat /\ m.enabled \in BOOLEAN
      /\ m.dismissed <= world.latest
  <2>1. world.latest \in Nat
    BY <1>2 DEF WorldOK
  <2>2. CASE m = [state EXCEPT !.enabled = ~state.enabled]
    BY <1>2, <1>3, <2>2
  <2>3. CASE U!hasAvailableUpdate /\ m = [state EXCEPT !.dismissed = state.result.remote]
    <3>1. state.result.remote \in Nat /\ state.result.remote <= world.latest
      BY <1>2, <2>1, <2>3 DEF U!hasAvailableUpdate, Known
    <3> QED
      BY <1>2, <1>3, <2>3, <3>1
  <2> QED
    BY <1>1, <2>2, <2>3
<1>5. U!Kept(m) \in Choices /\ U!Kept(m).dismissed = m.dismissed /\ U!Kept(m).enabled = m.enabled
  BY <1>3, <1>4 DEF U!Kept, Choices
<1>6. UpdateTypes'
  <2>1. WorldOK' /\ MemOK' /\ state'.dismissed <= world'.latest
    BY <1>0, <1>1, <1>2, <1>4, <1>5 DEF UInv, UpdateTypes, WorldOK, MemOK, Known
  <2>2. /\ flights' \in Seq(Choices) /\ Len(flights') = Len(flights) + 1 /\ Len(flights) \in Nat
        /\ \A i \in 1 .. Len(flights') : flights'[i] = IF i = Len(flights) + 1 THEN U!Kept(m) ELSE flights[i]
    BY <1>1, <1>5 DEF UInv, UpdateTypes
  <2>3. Stored(U!Kept(m), world.latest)
    BY <1>1, <1>4, <1>5 DEF Stored
  <2>4. \A i \in 1 .. Len(flights') : Stored(flights'[i], world.latest)
    BY <1>1, <2>2, <2>3 DEF UInv, UpdateTypes, Stored
  <2>5. shown' \in [wanted : BOOLEAN, closed : SUBSET Nat, early : BOOLEAN, overlap : BOOLEAN, lost : BOOLEAN]
    <3>1. U!hasAvailableUpdate => state.result.remote \in Nat
      BY <1>2 DEF U!hasAvailableUpdate, Known, WorldOK
    <3>2. (shown.early \/ U!Early) \in BOOLEAN
      OBVIOUS
    <3>3. shown \in [wanted : BOOLEAN, closed : SUBSET Nat, early : BOOLEAN, overlap : BOOLEAN, lost : BOOLEAN]
      BY DEF UInv, UpdateTypes
    <3>4. (~state.enabled) \in BOOLEAN
      OBVIOUS
    <3> HIDE DEF U!Early
    <3>5. CASE shown' = [shown EXCEPT !.closed = @ \cup {state.result.remote}, !.early = @ \/ U!Early] /\ U!hasAvailableUpdate
      <4>1. shown.closed \cup {state.result.remote} \in SUBSET Nat
        BY <3>1, <3>3, <3>5
      <4> QED
        BY <3>2, <3>3, <3>5, <4>1
    <3>6. CASE shown' = [shown EXCEPT !.wanted = ~state.enabled, !.early = @ \/ U!Early]
      BY <3>2, <3>3, <3>4, <3>6
    <3> QED
      BY <1>1, <3>5, <3>6
  <2> QED
    BY <1>1, <2>1, <2>2, <2>4, <2>5 DEF UInv, UpdateTypes, Stored
<1>7. ASSUME U!Calm' PROVE CalmInv'
  <2>1. U!Calm /\ start = "over"
    BY <1>1, <1>7 DEF U!Calm, UInv, UpdateTypes, U!Early
  <2>2. CalmInv
    BY <2>1 DEF UInv
  <2>3. /\ Choice = U!Kept(state) /\ Choice' = U!Kept(m)
        /\ U!Kept(state).enabled = state.enabled /\ U!Kept(state).dismissed = state.dismissed
    BY <1>0, <1>1, <2>1 DEF Choice, U!Kept
  <2>4. NothingYet' /\ OneCheck'
    BY <1>0, <1>1, <1>4, <2>1, <2>2 DEF CalmInv, NothingYet, OneCheck
  <2>5. LastWriteIsTheStore'
    BY <1>0, <1>1, <1>5 DEF LastWriteIsTheStore, UInv, UpdateTypes
  <2>6. CASE /\ U!hasAvailableUpdate /\ m = [state EXCEPT !.dismissed = state.result.remote]
             /\ shown' = [shown EXCEPT !.closed = @ \cup {state.result.remote}, !.early = @ \/ U!Early]
    <3>1. /\ shown'.wanted = shown.wanted /\ shown'.closed = shown.closed \cup {state.result.remote}
          /\ m.enabled = state.enabled /\ m.dismissed = state.result.remote
      BY <1>2, <2>6 DEF UInv, UpdateTypes
    <3>2. /\ state.result.remote \in Nat /\ state.result.remote >= state.dismissed
          /\ \A x \in shown.closed : x \in Nat /\ x <= state.dismissed
          /\ \A c \in checks : c.since \in Nat /\ c.since >= state.result.remote
      BY <1>2, <2>2, <2>3, <2>6
      DEF U!hasAvailableUpdate, Known, WorldOK, CalmInv, AnswersAreLater, ChoiceIsTold, UInv, UpdateTypes
    <3>3. ChoiceIsTold'
      BY <1>3, <1>5, <2>2, <2>3, <3>1, <3>2 DEF CalmInv, ChoiceIsTold
    <3>4. AnswersAreLater'
      BY <1>0, <1>1, <1>4, <1>5, <2>2, <2>3, <3>1, <3>2 DEF CalmInv, AnswersAreLater
    <3> QED
      BY <2>4, <2>5, <3>3, <3>4 DEF CalmInv
  <2>7. CASE /\ m = [state EXCEPT !.enabled = ~state.enabled]
             /\ shown' = [shown EXCEPT !.wanted = ~state.enabled, !.early = @ \/ U!Early]
    <3>1. /\ shown'.wanted = m.enabled /\ shown'.closed = shown.closed /\ m.dismissed = state.dismissed
      BY <1>2, <2>7 DEF UInv, UpdateTypes
    <3>2. ChoiceIsTold' /\ AnswersAreLater'
      BY <1>0, <1>1, <1>4, <1>5, <2>2, <2>3, <3>1 DEF CalmInv, ChoiceIsTold, AnswersAreLater
    <3> QED
      BY <2>4, <2>5, <3>2 DEF CalmInv
  <2> QED
    BY <1>1, <2>6, <2>7
<1> QED
  BY <1>6, <1>7 DEF UInv

LEMMA SaveLandsKeepsUInv ==
  ASSUME UInv, U!SaveLands
  PROVE  UInv'
<1>1. /\ flights \in Seq(Choices) /\ flights # <<>> /\ stored' = Head(flights) /\ flights' = Tail(flights)
      /\ UNCHANGED <<state, start, persisted, checks, world, shown, tries>>
  BY DEF U!SaveLands, UInv, UpdateTypes
<1>2. /\ Head(flights) = flights[1] /\ Head(flights) \in Choices /\ Tail(flights) \in Seq(Choices)
      /\ Len(flights) \in Nat \ {0}
      /\ Tail(flights) = <<>> => Len(flights) = 1
      /\ Tail(flights) # <<>> => Tail(flights)[Len(Tail(flights))] = flights[Len(flights)]
      /\ \A i \in 1 .. Len(Tail(flights)) : Tail(flights)[i] = flights[i + 1] /\ i + 1 \in 1 .. Len(flights)
  BY <1>1, LastOfTail
<1>3. UpdateTypes'
  <2>1. Stored(flights[1], world.latest) /\ \A i \in 1 .. Len(flights') : Stored(flights'[i], world.latest)
    BY <1>1, <1>2 DEF UInv, UpdateTypes
  <2> QED
    BY <1>1, <1>2, <2>1 DEF UInv, UpdateTypes, WorldOK, MemOK, Known, Stored
<1>4. ASSUME U!Calm' PROVE CalmInv'
  <2>1. U!Calm /\ CalmInv
    BY <1>1, <1>4 DEF U!Calm, UInv
  <2>2. start = "over" /\ Choice' = Choice
    BY <1>1, <2>1 DEF CalmInv, NothingYet, Choice
  <2>3. stored' # U!Nothing
    BY <1>1, <1>2, NothingIsNoChoice
  <2>4. LastWriteIsTheStore'
    BY <1>1, <1>2, <2>1, <2>2, <2>3 DEF CalmInv, LastWriteIsTheStore, OnDisk
  <2> QED
    BY <1>1, <2>1, <2>2, <2>4 DEF CalmInv, NothingYet, ChoiceIsTold, AnswersAreLater, OneCheck
<1> QED
  BY <1>3, <1>4 DEF UInv

LEMMA TimePassesKeepsUInv ==
  ASSUME ReleasesInOrder, UInv, U!Publish \/ U!HourPasses
  PROVE  UInv'
<1>1. /\ UNCHANGED <<state, stored, flights, start, persisted, checks, shown, tries>>
      /\ WorldOK' /\ world'.local = world.local /\ world'.latest >= world.latest
      /\ world.latest \in Nat /\ world'.latest \in Nat
  <2>1. /\ world \in [latest : 1 .. Len(Releases), local : 1 .. Len(Releases), allowed : BOOLEAN, hour : Nat]
        /\ world.local <= world.latest /\ Len(Releases) \in Nat
    BY DEF UInv, UpdateTypes, WorldOK, ReleasesInOrder
  <2>2. CASE U!Publish
    <3>1. world' = [world EXCEPT !.latest = world.latest + 1] /\ world.latest < Len(Releases)
      BY <2>2 DEF U!Publish
    <3> QED
      BY <2>1, <2>2, <3>1 DEF U!Publish, WorldOK
  <2>3. CASE U!HourPasses
    <3>1. world' = [world EXCEPT !.hour = world.hour + 1]
      BY <2>3 DEF U!HourPasses
    <3> QED
      BY <2>1, <2>3, <3>1 DEF U!HourPasses, WorldOK
  <2> QED
    BY <2>2, <2>3
<1>2. UpdateTypes'
  <2>1. 1 .. world.latest \subseteq 1 .. world'.latest /\ 0 .. world.latest \subseteq 0 .. world'.latest
    BY <1>1
  <2>2. MemOK' /\ state'.dismissed <= world'.latest
    BY <1>1, <2>1 DEF UInv, UpdateTypes, MemOK, Known, Choices, U!Kept
  <2>3. \A d : Stored(d, world.latest) => Stored(d, world'.latest)
    <3> SUFFICES ASSUME NEW d, d \in Choices, d.dismissed <= world.latest
                 PROVE  d.dismissed <= world'.latest
      BY DEF Stored
    <3> QED
      BY <1>1 DEF Choices
  <2> QED
    BY <1>1, <2>1, <2>2, <2>3 DEF UInv, UpdateTypes
<1>3. U!Calm' => CalmInv'
  BY <1>1 DEF UInv, U!Calm, CalmInv, NothingYet, LastWriteIsTheStore, ChoiceIsTold, AnswersAreLater, OneCheck,
              Choice, OnDisk
<1> QED
  BY <1>2, <1>3 DEF UInv

LEMMA RestartKeepsUInv ==
  ASSUME UInv, NEW local \in 1 .. Len(Releases), U!Restart(local)
  PROVE  UInv'
<1>1. /\ local \in {world.local, world.latest}
      /\ state' = U!Fresh /\ flights' = <<>> /\ start' = "waiting" /\ persisted' = U!Nothing /\ checks' = {}
      /\ world' = [world EXCEPT !.local = local]
      /\ shown' = [shown EXCEPT !.lost = @ \/ flights # <<>>] /\ stored' = stored
  BY DEF U!Restart
<1>2. /\ WorldOK' /\ world'.latest = world.latest /\ world.latest \in Nat
  BY <1>1 DEF UInv, UpdateTypes, WorldOK
<1>3. /\ U!Fresh.result = U!Nothing /\ U!Fresh.checking = FALSE /\ U!Fresh.dismissed = 0
      /\ U!Kept(U!Fresh) \in Choices
      /\ DOMAIN U!Fresh = {"checking", "result", "checkedAt", "dismissed", "enabled"}
  BY DEF U!Fresh, U!Kept, Choices
<1>4. UpdateTypes'
  <2>1. MemOK' /\ state'.dismissed <= world'.latest
    <3>1. state'.dismissed = 0 /\ U!Kept(state') \in Choices /\ state'.result = U!Nothing /\ state'.checking = FALSE
      BY <1>1, <1>3
    <3>2. DOMAIN state' = {"checking", "result", "checkedAt", "dismissed", "enabled"}
      BY <1>1, <1>3
    <3>3. 0 <= world'.latest
      BY <1>2
    <3> QED
      BY <3>1, <3>2, <3>3 DEF MemOK, U!Nothing
  <2>2. Stored(stored', world.latest) /\ Stored(persisted', world.latest)
    BY <1>1, <1>2 DEF UInv, UpdateTypes, Stored
  <2>3. shown' \in [wanted : BOOLEAN, closed : SUBSET Nat, early : BOOLEAN, overlap : BOOLEAN, lost : BOOLEAN]
    BY <1>1 DEF UInv, UpdateTypes
  <2>4. flights' \in Seq(Choices) /\ Len(flights') = 0
    BY <1>1
  <2>5. 1 .. 0 = {}
    OBVIOUS
  <2> QED
    BY <1>1, <1>2, <2>1, <2>2, <2>3, <2>4, <2>5 DEF UpdateTypes
<1>5. ASSUME U!Calm' PROVE CalmInv'
  <2>1. U!Calm /\ flights = <<>> /\ shown'.wanted = shown.wanted /\ shown'.closed = shown.closed
    BY <1>1, <1>5 DEF U!Calm, UInv, UpdateTypes
  <2>2. CalmInv
    BY <2>1 DEF UInv
  <2>3. Choice' = Choice
    BY <1>1, <2>1, <2>2 DEF Choice, OnDisk, CalmInv, LastWriteIsTheStore
  <2> QED
    BY <1>1, <1>3, <2>1, <2>2, <2>3
    DEF CalmInv, NothingYet, LastWriteIsTheStore, ChoiceIsTold, AnswersAreLater, OneCheck
<1> QED
  BY <1>4, <1>5 DEF UInv

LEMMA NextUInv ==
  ASSUME ReleasesInOrder, UInv, [U!Next]_(U!vars)
  PROVE  UInv'
<1>1. CASE UNCHANGED U!vars
  BY <1>1
  DEF U!vars, UInv, UpdateTypes, WorldOK, MemOK, Known, Stored, CalmInv, NothingYet, LastWriteIsTheStore,
       ChoiceIsTold, AnswersAreLater, OneCheck, Choice, OnDisk, U!Calm
<1> QED
  BY <1>1, ReadBackKeepsUInv, HydrateKeepsUInv, AnswerKeepsUInv, CheckNowKeepsUInv, ChoosingKeepsUInv,
     SaveLandsKeepsUInv, TimePassesKeepsUInv, RestartKeepsUInv
  DEF U!Next

LEMMA UInvSuffices ==
  ASSUME UInv
  PROVE  U!ClosedStaysClosed
<1> SUFFICES ASSUME U!Calm
             PROVE  /\ U!shouldShowUpdateBanner => state.result.remote \notin shown.closed
                    /\ U!hasAvailableUpdate <=> state.result # U!Nothing /\ state.result.remote > world.local
                    /\ state.checking <=> checks # {}
  BY DEF U!ClosedStaysClosed
<1>1. CalmInv
  BY DEF UInv
<1>2. state.result # U!Nothing => start = "over"
  BY <1>1 DEF CalmInv, NothingYet, UInv, UpdateTypes
<1>3. state.result # U!Nothing /\ state.result.kind = "available" =>
        /\ state.result.remote \in Nat /\ state.dismissed \in Nat /\ state.result.remote >= state.dismissed
        /\ \A x \in shown.closed : x \in Nat /\ x <= state.dismissed
  BY <1>1, <1>2
  DEF CalmInv, AnswersAreLater, ChoiceIsTold, Choice, U!Kept, UInv, UpdateTypes, MemOK, Known, WorldOK, Choices
<1>4. U!shouldShowUpdateBanner => state.result.remote \notin shown.closed
  BY <1>3 DEF U!shouldShowUpdateBanner, U!hasAvailableUpdate
<1>5. U!hasAvailableUpdate <=> state.result # U!Nothing /\ state.result.remote > world.local
  BY DEF U!hasAvailableUpdate, UInv, UpdateTypes, MemOK, Known
<1> QED
  BY <1>1, <1>4, <1>5 DEF CalmInv, OneCheck

\* Only Hydrate begins a check of its own, and what it goes by is what the user
\* chose last.
LEMMA StepStaysOff ==
  ASSUME UInv, [U!Next]_(U!vars)
  PROVE  U!OffStaysOff
<1> SUFFICES ASSUME U!Calm, NEW c \in checks' \ checks, c.by = "start"
             PROVE  shown.wanted
  BY DEF U!OffStaysOff
<1>1. U!Hydrate
  <2>1. c \in checks' /\ c \notin checks
    OBVIOUS
  <2>2. ~U!CheckNow
    BY <2>1 DEF U!CheckNow, U!Begin
  <2>3. ~(U!ReadBack \/ U!Dismiss \/ U!Toggle \/ U!SaveLands \/ U!Publish \/ U!HourPasses)
    BY <2>1 DEF U!ReadBack, U!Dismiss, U!Toggle, U!SaveLands, U!Publish, U!HourPasses
  <2>4. \A d \in checks, release \in 0 .. Len(Releases) : ~U!Answered(d, release) /\ ~U!AnsweredNow(d, release)
    BY <2>1 DEF U!Answered, U!AnsweredNow
  <2>5. \A local \in 1 .. Len(Releases) : ~U!Restart(local)
    BY <2>1 DEF U!Restart
  <2>6. ~UNCHANGED U!vars
    BY <2>1 DEF U!vars
  <2> QED
    BY <2>2, <2>3, <2>4, <2>5, <2>6 DEF U!Next
<1>2. U!IsDue(U!Hydrated) /\ start = "read"
  BY <1>1 DEF U!Hydrate
<1>3. U!Kept(U!Hydrated) = OnDisk
  BY <1>2, HydratedIs
<1> QED
  BY <1>2, <1>3 DEF U!IsDue, U!Kept, UInv, CalmInv, ChoiceIsTold, Choice

\* A banner that was closed stays closed for its release, over restarts and
\* until the user asks; only what is newer than what is installed is offered;
\* a check shows as under way while it is (update-banner.tsx, update-check.ts);
\* and who switched the check off is not checked for (App.tsx): for any releases
\* that are each newer than those before.
THEOREM ClosedAndOffStay ==
  ASSUME ReleasesInOrder
  PROVE  U!Spec => []U!ClosedStaysClosed /\ [][U!OffStaysOff]_(U!vars)
<1>1. U!Init => UInv
  BY InitUInv
<1>2. UInv /\ [U!Next]_(U!vars) => UInv'
  BY NextUInv
<1>3. UInv => U!ClosedStaysClosed
  BY UInvSuffices
<1>4. UInv /\ [U!Next]_(U!vars) => [U!OffStaysOff]_(U!vars)
  BY StepStaysOff
<1> QED
  BY <1>1, <1>2, <1>3, <1>4, PTL DEF U!Spec

-----------------------------------------------------------------------------
(***************************************************************************)
(* The digests.                                                            *)
(***************************************************************************)
\* A list of items, none twice.
IsQueue(items) ==
  /\ \E T : items \in Seq(T)
  /\ \A i \in DOMAIN items : {"key", "status"} \subseteq DOMAIN items[i]
  /\ \A i, j \in DOMAIN items : items[i].key = items[j].key => i = j

\* What a writer read is a queue, and the one there is unless another wrote it.
WritersRead ==
  /\ version \in Nat /\ IsQueue(D!Items)
  /\ \A w \in adds \cup updates : /\ w.version \in 0 .. version /\ IsQueue(w.read)
                                  /\ w.version = version => w.read = D!Items
  /\ \A a \in adds : "status" \notin DOMAIN a
  /\ \A u \in updates : "status" \in DOMAIN u

\* A save comes to the claims with its page, and to the index with its page or
\* with one that was held back.
SavesInTurn ==
  \A s \in saves :
    /\ {"content", "step"} \subseteq DOMAIN s /\ s.step \in {"page", "claims", "index", "log"}
    /\ s.step = "claims" => D!Path(s.content) \in pages
    /\ s.step \in {"index", "log"} => D!Path(s.content) \in pages \cup held

DInv == WritersRead /\ SavesInTurn /\ D!ListedPagesExist

LEMMA InitDInv ==
  ASSUME D!Init
  PROVE  DInv
<1>1. IsQueue(<<>>)
  <2>1. <<>> \in Seq({})
    OBVIOUS
  <2> QED
    BY <2>1 DEF IsQueue
<1>2. D!Items = <<>>
  BY DEF D!Init, D!Items
<1> QED
  BY <1>1, <1>2 DEF D!Init, DInv, WritersRead, SavesInTurn, D!ListedPagesExist

LEMMA DInvSuffices ==
  ASSUME DInv
  PROVE  D!OneItemPerKey /\ D!ListedPagesExist
BY DEF DInv, WritersRead, IsQueue, D!OneItemPerKey

-----------------------------------------------------------------------------
\* What an addition and a decision make of the items.
LEMMA AddedFacts ==
  ASSUME NEW read, IsQueue(read), NEW key
  PROVE  /\ IsQueue(D!Added(key, read))
         /\ \A i \in DOMAIN read : i \in DOMAIN D!Added(key, read) /\ D!Added(key, read)[i] = read[i]
<1>1. CASE key \in D!Keys(read)
  BY <1>1 DEF D!Added
<1>2. CASE key \notin D!Keys(read)
  <2> DEFINE new == [key |-> key, status |-> "queued"]
             more == Append(read, new)
  <2>1. D!Added(key, read) = more
    BY <1>2 DEF D!Added
  <2>2. PICK T : read \in Seq(T)
    BY DEF IsQueue
  <2>3. Len(read) \in Nat /\ DOMAIN read = 1 .. Len(read) /\ read \in Seq(T \cup {new})
    BY <2>2
  <2>4. /\ more \in Seq(T \cup {new}) /\ DOMAIN more = 1 .. Len(read) + 1
        /\ more[Len(read) + 1] = new /\ \A i \in 1 .. Len(read) : more[i] = read[i]
    BY <2>3
  <2>5. {"key", "status"} \subseteq DOMAIN new /\ new.key = key
    OBVIOUS
  <2>6. \A i \in DOMAIN read : read[i].key # key
    BY <1>2 DEF D!Keys
  <2> HIDE DEF new, more
  <2>7. ASSUME NEW i \in DOMAIN more PROVE i = Len(read) + 1 \/ (i \in DOMAIN read /\ more[i] = read[i])
    BY <2>3, <2>4
  <2>8. IsQueue(more)
    BY <2>3, <2>4, <2>5, <2>6, <2>7 DEF IsQueue
  <2>9. \A i \in DOMAIN read : i \in DOMAIN more /\ more[i] = read[i]
    BY <2>3, <2>4
  <2> QED
    BY <2>1, <2>8, <2>9
<1> QED
  BY <1>1, <1>2

LEMMA UpdatedFacts ==
  ASSUME NEW read, IsQueue(read), NEW key, NEW status
  PROVE  /\ IsQueue(D!Updated(key, status, read))
         /\ \A i \in DOMAIN read : /\ i \in DOMAIN D!Updated(key, status, read)
                                   /\ read[i].key # key => D!Updated(key, status, read)[i] = read[i]
<1> DEFINE Item(i) == IF read[i].key = key THEN [read[i] EXCEPT !.status = status] ELSE read[i]
           Z == {Item(i) : i \in DOMAIN read}
<1>1. PICK next : next = D!Updated(key, status, read)
  OBVIOUS
<1>2. next = [i \in DOMAIN read |-> Item(i)]
  BY <1>1 DEF D!Updated
<1>3. \A i \in DOMAIN read : DOMAIN Item(i) = DOMAIN read[i] /\ Item(i).key = read[i].key /\ Item(i) \in Z
  BY DEF IsQueue
<1>4. \A i \in DOMAIN read : read[i].key # key => Item(i) = read[i]
  OBVIOUS
<1> HIDE DEF Item, Z
<1>5. \E n \in Nat : DOMAIN read = 1 .. n
  BY DEF IsQueue
<1>6. next \in Seq(Z)
  BY <1>2, <1>3, <1>5
<1> QED
  BY <1>1, <1>2, <1>3, <1>4, <1>6 DEF IsQueue

-----------------------------------------------------------------------------
\* A step that writes the queue outdates what was read.
LEMMA WrittenKeepsWriters ==
  ASSUME DInv, IsQueue(D!Items'), version' = version + 1, adds' \subseteq adds, updates' \subseteq updates
  PROVE  WritersRead'
<1>1. version \in Nat
  BY DEF DInv, WritersRead
<1>2. ASSUME NEW w \in adds \cup updates PROVE w.version \in 0 .. version + 1 /\ w.version # version + 1
  <2>1. w.version \in 0 .. version
    BY DEF DInv, WritersRead
  <2> QED
    BY <1>1, <2>1
<1> QED
  BY <1>1, <1>2 DEF DInv, WritersRead

\* The wiki's part is left alone, and then the queue's.
LEMMA SameWiki ==
  ASSUME DInv, UNCHANGED <<saves, pages, indexed, listed, logged, held>>
  PROVE  SavesInTurn' /\ D!ListedPagesExist'
BY DEF DInv, SavesInTurn, D!ListedPagesExist

LEMMA SameQueueKeepsWriters ==
  ASSUME DInv, UNCHANGED <<queue, adds, updates, version>>
  PROVE  WritersRead'
BY DEF DInv, WritersRead, D!Items

LEMMA BeginAddKeepsDInv ==
  ASSUME DInv, NEW p, D!BeginAdd(p)
  PROVE  DInv'
<1> DEFINE new == [key |-> p[2], read |-> D!Items, version |-> version]
<1>1. adds' = adds \cup {new} /\ UNCHANGED <<queue, updates, version, saves, pages, indexed, listed, logged, held>>
  BY DEF D!BeginAdd, D!wiki
<1>2. /\ new.version = version /\ new.read = D!Items /\ "status" \notin DOMAIN new
      /\ version \in 0 .. version /\ IsQueue(D!Items) /\ D!Items' = D!Items
  BY <1>1 DEF DInv, WritersRead, D!Items
<1> HIDE DEF new
<1>3. WritersRead'
  BY <1>1, <1>2 DEF DInv, WritersRead
<1> QED
  BY <1>1, <1>3, SameWiki DEF DInv

LEMMA BeginUpdateKeepsDInv ==
  ASSUME DInv, NEW key, NEW status, D!BeginUpdate(key, status)
  PROVE  DInv'
<1> DEFINE new == [key |-> key, status |-> status, read |-> D!Items, version |-> version]
<1>1. updates' = {new} /\ UNCHANGED <<queue, adds, version, saves, pages, indexed, listed, logged, held>>
  BY DEF D!BeginUpdate, D!wiki
<1>2. /\ new.version = version /\ new.read = D!Items /\ "status" \in DOMAIN new
      /\ version \in 0 .. version /\ IsQueue(D!Items) /\ D!Items' = D!Items
  BY <1>1 DEF DInv, WritersRead, D!Items
<1> HIDE DEF new
<1>3. WritersRead'
  BY <1>1, <1>2 DEF DInv, WritersRead
<1> QED
  BY <1>1, <1>3, SameWiki DEF DInv

\* An item is the queue's, also where there is none that parses.
LEMMA ItemsOf ==
  ASSUME NEW items, IsQueue(items), queue' = items
  PROVE  IsQueue(D!Items')
<1>1. IsQueue(<<>>)
  <2>1. <<>> \in Seq({})
    OBVIOUS
  <2> QED
    BY <2>1 DEF IsQueue
<1> QED
  BY <1>1 DEF D!Items

LEMMA EndAddKeepsDInv ==
  ASSUME DInv, NEW a \in adds, D!EndAdd(a)
  PROVE  DInv' /\ D!WritesKeepDecisions
<1>1. adds' = adds \ {a} /\ UNCHANGED <<updates, saves, pages, indexed, listed, logged, held>>
  BY DEF D!EndAdd, D!wiki
<1>2. IsQueue(a.read) /\ (a.version = version => a.read = D!Items)
  BY DEF DInv, WritersRead
<1>3. PICK next : next = D!Added(a.key, a.read)
  OBVIOUS
<1>4. IsQueue(next) /\ \A i \in DOMAIN a.read : i \in DOMAIN next /\ next[i] = a.read[i]
  BY <1>2, <1>3, AddedFacts
<1>5. CASE UNCHANGED <<queue, version>>
  <2>1. WritersRead'
    BY <1>1, <1>5 DEF DInv, WritersRead, D!Items
  <2>2. D!WritesKeepDecisions
    BY <1>5 DEF D!WritesKeepDecisions
  <2> QED
    BY <1>1, <2>1, <2>2, SameWiki DEF DInv
<1>6. CASE queue' = next /\ version' = version + 1
  <2>1. WritersRead'
    BY <1>1, <1>4, <1>6, ItemsOf, WrittenKeepsWriters
  <2>2. D!WritesKeepDecisions
    <3> SUFFICES ASSUME NEW w \in (adds \ adds') \cup (updates \ updates'), w.version = version, queue # None,
                        NEW i \in DOMAIN queue
                 PROVE  \E j \in DOMAIN queue' : queue'[j] = queue[i]
      BY DEF D!WritesKeepDecisions
    <3>1. w = a /\ a.read = queue
      BY <1>1, <1>2 DEF D!Items
    <3> QED
      BY <1>4, <1>6, <3>1
  <2> QED
    BY <1>1, <2>1, <2>2, SameWiki DEF DInv
<1> QED
  BY <1>3, <1>5, <1>6 DEF D!EndAdd

LEMMA EndUpdateKeepsDInv ==
  ASSUME DInv, NEW u \in updates, D!EndUpdate(u)
  PROVE  DInv' /\ D!WritesKeepDecisions
<1>1. /\ updates' = updates \ {u} /\ version' = version + 1
      /\ UNCHANGED <<adds, saves, pages, indexed, listed, logged, held>>
  BY DEF D!EndUpdate, D!wiki
<1>2. IsQueue(u.read) /\ (u.version = version => u.read = D!Items) /\ u \notin adds
  BY DEF DInv, WritersRead
<1>3. PICK next : next = D!Updated(u.key, u.status, u.read)
  OBVIOUS
<1>4. /\ IsQueue(next) /\ queue' = next
      /\ \A i \in DOMAIN u.read : i \in DOMAIN next /\ (u.read[i].key # u.key => next[i] = u.read[i])
  BY <1>2, <1>3, UpdatedFacts DEF D!EndUpdate
<1>5. WritersRead'
  BY <1>1, <1>4, ItemsOf, WrittenKeepsWriters
<1>6. D!WritesKeepDecisions
  <2> SUFFICES ASSUME NEW w \in (adds \ adds') \cup (updates \ updates'), w.version = version, queue # None,
                      NEW i \in DOMAIN queue, queue[i].key # w.key \/ w \in adds
               PROVE  \E j \in DOMAIN queue' : queue'[j] = queue[i]
    BY DEF D!WritesKeepDecisions
  <2>1. w = u /\ u.read = queue /\ queue[i].key # u.key
    BY <1>1, <1>2 DEF D!Items
  <2> QED
    BY <1>4, <2>1
<1> QED
  BY <1>1, <1>5, <1>6, SameWiki DEF DInv

LEMMA TornKeepsDInv ==
  ASSUME DInv, D!Torn
  PROVE  DInv' /\ D!WritesKeepDecisions
<1>1. /\ adds' = {} /\ updates' = {} /\ saves' = {} /\ queue' = None /\ version' = version + 1
      /\ UNCHANGED <<pages, indexed, listed, logged, held>>
  BY DEF D!Torn
<1>2. IsQueue(D!Items')
  <2>1. <<>> \in Seq({}) /\ D!Items' = <<>>
    BY <1>1 DEF D!Items
  <2> QED
    BY <2>1 DEF IsQueue
<1>3. WritersRead'
  BY <1>1, <1>2, WrittenKeepsWriters
<1> QED
  BY <1>1, <1>3 DEF DInv, SavesInTurn, D!ListedPagesExist, D!WritesKeepDecisions

\* A step of a save.
LEMMA SaveStepKeepsDInv ==
  ASSUME DInv, NEW s \in saves, UNCHANGED <<queue, adds, updates, version>>,
         pages \subseteq pages', held \subseteq held',
         (listed' \cup logged' \cup indexed') \subseteq (pages' \cup held'),
         \/ saves' = saves \ {s}
         \/ \E step \in {"claims", "index", "log"} :
              /\ saves' = (saves \ {s}) \cup {[s EXCEPT !.step = step]}
              /\ step = "claims" => D!Path(s.content) \in pages'
              /\ D!Path(s.content) \in pages' \cup held'
  PROVE  DInv'
<1>1. WritersRead'
  BY SameQueueKeepsWriters
<1>2. ASSUME NEW t \in saves
      PROVE  /\ {"content", "step"} \subseteq DOMAIN t /\ t.step \in {"page", "claims", "index", "log"}
             /\ t.step = "claims" => D!Path(t.content) \in pages'
             /\ t.step \in {"index", "log"} => D!Path(t.content) \in pages' \cup held'
  BY DEF DInv, SavesInTurn
<1>3. D!ListedPagesExist'
  BY DEF D!ListedPagesExist
<1>4. CASE saves' = saves \ {s}
  BY <1>1, <1>2, <1>3, <1>4 DEF DInv, SavesInTurn
<1>5. CASE \E step \in {"claims", "index", "log"} :
             /\ saves' = (saves \ {s}) \cup {[s EXCEPT !.step = step]}
             /\ step = "claims" => D!Path(s.content) \in pages'
             /\ D!Path(s.content) \in pages' \cup held'
  <2>1. PICK step \in {"claims", "index", "log"} :
             /\ saves' = (saves \ {s}) \cup {[s EXCEPT !.step = step]}
             /\ step = "claims" => D!Path(s.content) \in pages'
             /\ D!Path(s.content) \in pages' \cup held'
    BY <1>5
  <2>2. PICK t : t = [s EXCEPT !.step = step]
    OBVIOUS
  <2>3. DOMAIN t = DOMAIN s /\ t.step = step /\ t.content = s.content
    BY <1>2, <2>2
  <2>4. SavesInTurn'
    BY <1>2, <2>1, <2>2, <2>3 DEF SavesInTurn
  <2> QED
    BY <1>1, <1>3, <2>4 DEF DInv
<1> QED
  BY <1>4, <1>5

LEMMA SaveKeepsDInv ==
  ASSUME DInv, NEW s \in saves,
         D!WritePage(s) \/ D!WriteClaims(s) \/ D!UpdateIndex(s) \/ D!AppendLog(s) \/ D!SaveFails(s)
  PROVE  DInv'
<1>1. UNCHANGED <<queue, adds, updates, version>>
  BY DEF D!WritePage, D!WriteClaims, D!UpdateIndex, D!AppendLog, D!SaveFails, D!SameQueue
<1>2. /\ (listed \cup logged \cup indexed) \subseteq (pages \cup held)
      /\ s.step = "claims" => D!Path(s.content) \in pages
      /\ s.step \in {"index", "log"} => D!Path(s.content) \in pages \cup held
  BY DEF DInv, D!ListedPagesExist, SavesInTurn
<1>3. CASE D!WritePage(s)
  BY <1>1, <1>2, <1>3, SaveStepKeepsDInv DEF D!WritePage, D!Go
<1>4. CASE D!WriteClaims(s)
  BY <1>1, <1>2, <1>4, SaveStepKeepsDInv DEF D!WriteClaims, D!Go, D!At
<1>5. CASE D!UpdateIndex(s)
  BY <1>1, <1>2, <1>5, SaveStepKeepsDInv DEF D!UpdateIndex, D!Go, D!At
<1>6. CASE D!AppendLog(s)
  BY <1>1, <1>2, <1>6, SaveStepKeepsDInv DEF D!AppendLog, D!At
<1>7. CASE D!SaveFails(s)
  BY <1>1, <1>2, <1>7, SaveStepKeepsDInv DEF D!SaveFails
<1> QED
  BY <1>3, <1>4, <1>5, <1>6, <1>7

LEMMA BeginSaveKeepsDInv ==
  ASSUME DInv, NEW c, D!BeginSave(c)
  PROVE  DInv'
<1>1. /\ saves' = {[content |-> c, step |-> "page"]} /\ UNCHANGED <<pages, indexed, listed, logged, held>>
      /\ UNCHANGED <<queue, adds, updates, version>>
  BY DEF D!BeginSave, D!SameQueue
<1>2. WritersRead'
  BY <1>1, SameQueueKeepsWriters
<1> QED
  BY <1>1, <1>2 DEF DInv, SavesInTurn, D!ListedPagesExist

LEMMA NextDInv ==
  ASSUME DInv, [D!Next]_(D!vars)
  PROVE  DInv' /\ D!WritesKeepDecisions
<1>1. CASE UNCHANGED D!vars \/ \E conv \in Conversations, c \in Contents : D!Answer(c, conv)
  <2>1. UNCHANGED <<queue, adds, updates, version, saves, pages, indexed, listed, logged, held>>
    BY <1>1 DEF D!vars, D!Answer, D!wiki
  <2> QED
    BY <2>1, SameWiki, SameQueueKeepsWriters DEF DInv, D!WritesKeepDecisions
<1>2. CASE \E p \in planned : D!BeginAdd(p)
  BY <1>2, BeginAddKeepsDInv DEF D!BeginAdd, D!WritesKeepDecisions
<1>3. CASE \E a \in adds : D!EndAdd(a)
  BY <1>3, EndAddKeepsDInv
<1>4. CASE \E c \in Contents, status \in D!Statuses : D!BeginUpdate(c, status)
  BY <1>4, BeginUpdateKeepsDInv DEF D!BeginUpdate, D!WritesKeepDecisions
<1>5. CASE \E u \in updates : D!EndUpdate(u)
  BY <1>5, EndUpdateKeepsDInv
<1>6. CASE D!Torn
  BY <1>6, TornKeepsDInv
<1>7. CASE \E c \in Contents : D!BeginSave(c)
  BY <1>7, BeginSaveKeepsDInv DEF D!BeginSave, D!SameQueue, D!WritesKeepDecisions
<1>8. CASE \E s \in saves : D!WritePage(s) \/ D!WriteClaims(s) \/ D!UpdateIndex(s) \/ D!AppendLog(s) \/ D!SaveFails(s)
  <2>1. UNCHANGED <<adds, updates>>
    BY <1>8 DEF D!WritePage, D!WriteClaims, D!UpdateIndex, D!AppendLog, D!SaveFails, D!SameQueue
  <2> QED
    BY <1>8, <2>1, SaveKeepsDInv DEF D!WritesKeepDecisions
<1> QED
  BY <1>1, <1>2, <1>3, <1>4, <1>5, <1>6, <1>7, <1>8 DEF D!Next

\* However many conversations end at once, no digest is queued twice; none is
\* listed or logged without a page, unless the gate held it back; and a write of
\* the queue that no other came before keeps every decision of the user
\* (consolidation-queue.ts, crystallization-digest.ts): for any answers and any
\* number of writers.
THEOREM DigestsStaySound ==
  D!Spec => [](D!OneItemPerKey /\ D!ListedPagesExist) /\ [][D!WritesKeepDecisions]_(D!vars)
<1>1. D!Init => DInv
  BY InitDInv
<1>2. DInv /\ [D!Next]_(D!vars) => DInv' /\ D!WritesKeepDecisions
  BY NextDInv
<1>3. DInv => D!OneItemPerKey /\ D!ListedPagesExist
  BY DInvSuffices
<1> QED
  BY <1>1, <1>2, <1>3, PTL DEF D!Spec

-----------------------------------------------------------------------------
(***************************************************************************)
(* The review view.                                                        *)
(***************************************************************************)
\* The index has a heading, or none, for each of the two folders.
HeadingsOf == [{"concepts", "queries"} -> {"plain", "none", "odd"}]
HeadingsCover == Headings \subseteq HeadingsOf

IsIndex(x) == {"listed", "heading"} \subseteq DOMAIN x /\ x.heading \in HeadingsOf
IsAct(a) ==
  /\ {"id", "item", "at", "read"} \subseteq DOMAIN a /\ a.item \in W!Items
  /\ a.at = "list" => IsIndex(a.read)
DeskIsTyped ==
  /\ DOMAIN toReview = W!Items /\ research \in [W!Items -> Nat] /\ IsIndex(index)
  /\ told \in [shown : SUBSET W!Items, twice : SUBSET W!Items, made : SUBSET W!Items, overlap : BOOLEAN, mishap : BOOLEAN]
  /\ \A a \in acts : IsAct(a)

\* What is pending has not been researched; of an item that was not pressed
\* twice one decision is under way at most, and then no research was queued and
\* only a sweep can have resolved it.
Acting(i) == \E a \in acts : a.item = i
OneDecision ==
  \A i \in W!Items :
    /\ W!Pending(i) => research[i] = 0
    /\ research[i] <= 1
    /\ i \notin told.twice =>
         /\ \A a, b \in acts : a.item = i /\ b.item = i => a = b
         /\ Acting(i) => research[i] = 0
         /\ Acting(i) /\ toReview[i].state = "resolved" => toReview[i].how \in {"auto-resolved", "llm-judged"}
         /\ i \in told.made => research[i] = 0 /\ (W!Pending(i) => Acting(i))

\* While a sweep reads, what the names were and were not since it began is noted;
\* what it has read is of it.
NamesOfPaths == {p[2] : p \in W!Paths}
SweepSaw ==
  /\ sweep # W!Nothing =>
       /\ {"at", "pending", "ids", "titles", "todo", "left", "judged", "batches"} \subseteq DOMAIN sweep
       /\ sweep.left \subseteq sweep.pending /\ sweep.judged \subseteq sweep.pending
       /\ sweep.at \in {"list", "read"} => since # W!Nothing /\ sweep.ids \cup sweep.titles \subseteq since.had
       /\ sweep.at = "read" /\ ~told.mishap => NamesOfPaths \ sweep.ids \subseteq since.lacked
  /\ since # W!Nothing =>
       /\ {"had", "lacked"} \subseteq DOMAIN since
       /\ W!Names(wiki) \subseteq since.had /\ NamesOfPaths \ W!Ids(wiki) \subseteq since.lacked

\* As long as nothing has met or failed, one decision creates at a time, it has
\* the index as it is, and what is not listed is about to be.
Creates(a) == a.at \notin {"open", "delete"}
NoneIsOdd(x) == \A d \in DOMAIN x.heading : x.heading[d] # "odd"
IndexKeepsUp ==
  ~told.overlap /\ ~told.mishap =>
    /\ \A a, b \in acts : Creates(a) /\ Creates(b) => a = b
    /\ \A a \in acts : a.at = "list" => a.read = index
    /\ NoneIsOdd(index) =>
         \A p \in DOMAIN wiki : p \in index.listed \/ \E a \in acts : a.at \in {"index", "list"} /\ W!Target(a.item) = p

WInv == DeskIsTyped /\ OneDecision /\ SweepSaw /\ IndexKeepsUp

LEMMA InitWInv ==
  ASSUME HeadingsCover, W!Init
  PROVE  WInv
<1>1. DeskIsTyped
  <2>1. PICK heading \in Headings : index = [listed |-> DOMAIN Wiki, heading |-> heading]
    BY DEF W!Init
  <2>2. IsIndex(index)
    BY <2>1 DEF IsIndex, HeadingsCover
  <2> QED
    BY <2>2 DEF DeskIsTyped, W!Init
<1>2. OneDecision
  BY DEF OneDecision, Acting, W!Init
<1>3. SweepSaw
  BY DEF SweepSaw, W!Init
<1>4. IndexKeepsUp
  BY DEF IndexKeepsUp, W!Init
<1> QED
  BY <1>1, <1>2, <1>3, <1>4 DEF WInv

LEMMA WInvSuffices ==
  ASSUME WInv
  PROVE  W!CreatedPagesAreListed /\ W!DecidedOnce
<1>1. W!CreatedPagesAreListed
  BY DEF WInv, IndexKeepsUp, NoneIsOdd, W!CreatedPagesAreListed
<1>2. W!DecidedOnce
  BY DEF WInv, DeskIsTyped, OneDecision, W!DecidedOnce
<1> QED
  BY <1>1, <1>2

-----------------------------------------------------------------------------
\* What resolving does to an item.
LEMMA ResolvedFacts ==
  ASSUME NEW list, NEW ids, NEW how
  PROVE  LET new == W!Resolved(list, ids, how) IN
         /\ DOMAIN new = W!Items
         /\ \A i \in W!Items : \/ i \in ids /\ new[i].state = "resolved" /\ new[i].how = how
                               \/ new[i] = list[i] /\ (i \in ids => list[i].state = "gone")
BY DEF W!Resolved

\* What was read stays so in steps that change neither pages nor the sweep, and
\* in those that change pages.
LEMMA SameSweepSaw ==
  ASSUME SweepSaw, UNCHANGED <<wiki, sweep, since>>, told.mishap => told'.mishap
  PROVE  SweepSaw'
BY DEF SweepSaw, NamesOfPaths, W!Nothing, W!Names, W!Ids

LEMMA ChangeKeepsSweepSaw ==
  ASSUME SweepSaw, UNCHANGED sweep, told.mishap => told'.mishap, NEW ps, W!Change(ps)
  PROVE  SweepSaw'
<1>1. CASE since = W!Nothing
  <2>1. since' = W!Nothing
    BY <1>1 DEF W!Change
  <2> QED
    BY <1>1, <2>1 DEF SweepSaw, W!Nothing
<1>2. CASE since # W!Nothing
  <2> DEFINE had == since.had \cup W!Names(ps)
             lacked == since.lacked \cup (NamesOfPaths \ W!Ids(ps))
  <2>1. wiki' = ps /\ since' = [had |-> had, lacked |-> lacked]
    BY <1>2 DEF W!Change, NamesOfPaths
  <2>2. DOMAIN since' = {"had", "lacked"} /\ since'.had = had /\ since'.lacked = lacked
    BY <2>1
  <2>3. since' # W!Nothing
    <3>1. "had" \notin DOMAIN W!Nothing
      BY DEF W!Nothing
    <3> QED
      BY <2>2, <3>1
  <2>4. W!Names(wiki') \subseteq had /\ NamesOfPaths \ W!Ids(wiki') \subseteq lacked
    BY <2>1
  <2>5. since.had \subseteq had /\ since.lacked \subseteq lacked
    OBVIOUS
  <2>6. /\ W!Nothing' = W!Nothing /\ NamesOfPaths' = NamesOfPaths
        /\ W!Names(wiki)' = W!Names(wiki') /\ W!Ids(wiki)' = W!Ids(wiki')
    BY DEF W!Nothing, NamesOfPaths, W!Names, W!Ids
  <2> HIDE DEF had, lacked
  <2> QED
    BY <1>2, <2>2, <2>3, <2>4, <2>5, <2>6 DEF SweepSaw
<1> QED
  BY <1>1, <1>2

-----------------------------------------------------------------------------
\* Steps that leave the items alone take no decision.
LEMMA SameItemsStand ==
  ASSUME UNCHANGED toReview
  PROVE  W!SweepIsJustified /\ W!DecisionsStand
BY DEF W!SweepIsJustified, W!DecisionsStand

\* A decision goes on: the page of its item may have been made.
LEMMA BecomesKeepsOneDecision ==
  ASSUME DeskIsTyped, OneDecision, NEW a \in acts, NEW new, W!Becomes(a, new), new.item = a.item,
         UNCHANGED <<toReview, research>>, told'.twice = told.twice, told'.made \subseteq told.made \cup {a.item}
  PROVE  OneDecision'
<1>1. acts' = (acts \ {a}) \cup {new} /\ a.item \in W!Items
  BY DEF W!Becomes, DeskIsTyped, IsAct
<1>2. W!Items' = W!Items
  BY DEF W!Items
<1>3. ASSUME NEW i \in W!Items PROVE Acting(i)' <=> Acting(i)
  BY <1>1 DEF Acting
<1>4. ASSUME NEW i \in W!Items PROVE W!Pending(i)' <=> W!Pending(i)
  BY DEF W!Pending
<1>5. ASSUME NEW i \in W!Items, i \notin told.twice, NEW b \in acts', NEW c \in acts', b.item = i, c.item = i
      PROVE  b = c
  <2>1. \A x, y \in acts : x.item = i /\ y.item = i => x = y
    BY <1>5 DEF OneDecision
  <2> QED
    BY <1>1, <1>5, <2>1
<1>6. ASSUME NEW i \in W!Items, i \notin told.twice, i \in told'.made
      PROVE  research[i] = 0 /\ (W!Pending(i) => Acting(i))
  <2>1. CASE i = a.item
    BY <1>6, <2>1 DEF OneDecision, Acting
  <2>2. CASE i # a.item
    BY <1>6, <2>2 DEF OneDecision
  <2> QED
    BY <2>1, <2>2
<1> QED
  BY <1>2, <1>3, <1>4, <1>5, <1>6 DEF OneDecision

\* A decision ends: its item is resolved, and it was pending or only a sweep had
\* resolved it.
LEMMA EndsKeepsOneDecision ==
  ASSUME DeskIsTyped, OneDecision, NEW a \in acts, NEW how, W!Ends(a, how), how \notin {"auto-resolved", "llm-judged"},
         UNCHANGED research, told'.twice = told.twice, told'.made = told.made
  PROVE  OneDecision' /\ W!SweepIsJustified /\ W!DecisionsStand
<1>1. acts' = acts \ {a} /\ a.item \in W!Items /\ toReview' = W!Resolved(toReview, {a.item}, how)
  BY DEF W!Ends, DeskIsTyped, IsAct
<1>2. W!Items' = W!Items
  BY DEF W!Items
<1>3. \A i \in W!Items : \/ i = a.item /\ toReview'[i].state = "resolved" /\ toReview'[i].how = how
                         \/ toReview'[i] = toReview[i] /\ (i = a.item => toReview[i].state = "gone")
  BY <1>1, ResolvedFacts
<1>4. ASSUME NEW i \in W!Items PROVE W!Pending(i)' => W!Pending(i) /\ i # a.item
  <2>1. W!Pending(i)' <=> toReview'[i].state = "pending"
    BY DEF W!Pending
  <2> QED
    BY <1>3, <2>1 DEF W!Pending
<1>5. ASSUME NEW i \in W!Items, i # a.item PROVE Acting(i)' <=> Acting(i)
  BY <1>1, <1>5 DEF Acting
<1>6. ASSUME NEW i \in W!Items, i \notin told.twice, Acting(i)' PROVE i # a.item /\ Acting(i)
  <2>1. \A x, y \in acts : x.item = i /\ y.item = i => x = y
    BY <1>6 DEF OneDecision
  <2>2. PICK b \in acts' : b.item = i
    BY <1>6 DEF Acting
  <2> QED
    BY <1>1, <2>1, <2>2 DEF Acting
<1>7. OneDecision'
  <2>1. ASSUME NEW i \in W!Items, W!Pending(i)' PROVE research[i] = 0
    BY <1>4, <2>1 DEF OneDecision
  <2>2. ASSUME NEW i \in W!Items, i \notin told.twice, NEW b \in acts', NEW c \in acts', b.item = i, c.item = i
        PROVE  b = c
    BY <1>1, <2>2 DEF OneDecision
  <2>3. ASSUME NEW i \in W!Items, i \notin told.twice, Acting(i)'
        PROVE  research[i] = 0 /\ (toReview'[i].state = "resolved" => toReview'[i].how \in {"auto-resolved", "llm-judged"})
    BY <1>3, <1>6, <2>3 DEF OneDecision
  <2>4. ASSUME NEW i \in W!Items, i \notin told.twice, i \in told.made
        PROVE  research[i] = 0 /\ (W!Pending(i)' => Acting(i)')
    BY <1>4, <1>5, <2>4 DEF OneDecision
  <2> QED
    BY <1>2, <2>1, <2>2, <2>3, <2>4 DEF OneDecision
<1>8. W!SweepIsJustified
  BY <1>3 DEF W!SweepIsJustified
<1>9. W!DecisionsStand
  <2>1. ASSUME NEW i \in W!Items \ told.twice, toReview[i].state = "resolved", toReview'[i].how # toReview[i].how
        PROVE  toReview[i].how \in {"auto-resolved", "llm-judged"} /\ \E b \in acts : b.item = i
    <3>1. i = a.item
      BY <1>3, <2>1
    <3> QED
      BY <2>1, <3>1 DEF OneDecision, Acting
  <2> QED
    BY <2>1 DEF W!DecisionsStand
<1> QED
  BY <1>7, <1>8, <1>9

\* A sweep resolves.
LEMMA SweptKeepsOneDecision ==
  ASSUME DeskIsTyped, OneDecision, NEW ids, NEW how \in {"auto-resolved", "llm-judged"}, sweep # W!Nothing, ids \subseteq sweep.pending,
         toReview' = W!Resolved(toReview, ids, how), UNCHANGED <<acts, research, told>>
  PROVE  OneDecision' /\ W!DecisionsStand
<1>1. \A i \in W!Items : \/ i \in ids /\ toReview'[i].state = "resolved" /\ toReview'[i].how = how
                         \/ toReview'[i] = toReview[i]
  BY ResolvedFacts
<1>2. W!Items' = W!Items /\ \A i \in W!Items : (W!Pending(i)' <=> toReview'[i].state = "pending") /\ (Acting(i)' <=> Acting(i))
  BY DEF W!Items, W!Pending, Acting
<1>3. OneDecision'
  BY <1>1, <1>2 DEF OneDecision, W!Pending
<1>4. W!DecisionsStand
  BY <1>1 DEF W!DecisionsStand
<1> QED
  BY <1>3, <1>4

\* Items go.
LEMMA GoneKeepsOneDecision ==
  ASSUME OneDecision, UNCHANGED <<acts, research, told>>,
         \A i \in W!Items : toReview'[i] = toReview[i] \/ toReview'[i] = W!Gone
  PROVE  OneDecision' /\ W!SweepIsJustified /\ W!DecisionsStand
<1>1. W!Items' = W!Items /\ \A i \in W!Items : (W!Pending(i)' <=> toReview'[i].state = "pending") /\ (Acting(i)' <=> Acting(i))
  BY DEF W!Items, W!Pending, Acting
<1>2. \A i \in W!Items : toReview'[i] = toReview[i] \/ (toReview'[i].state = "gone" /\ toReview'[i].how = "none")
  BY DEF W!Gone
<1>3. OneDecision'
  <2>1. ASSUME NEW i \in W!Items PROVE W!Pending(i)' => W!Pending(i)
    BY <1>1, <1>2 DEF W!Pending
  <2>2. ASSUME NEW i \in W!Items, toReview'[i].state = "resolved" PROVE toReview'[i] = toReview[i]
    BY <1>2, <2>2
  <2> QED
    BY <1>1, <2>1, <2>2 DEF OneDecision
<1> QED
  BY <1>2, <1>3 DEF W!SweepIsJustified, W!DecisionsStand

-----------------------------------------------------------------------------
LEMMA FailedFacts ==
  ASSUME DeskIsTyped, NEW fails \in BOOLEAN, W!Failed(fails)
  PROVE  /\ told' \in [shown : SUBSET W!Items, twice : SUBSET W!Items, made : SUBSET W!Items, overlap : BOOLEAN, mishap : BOOLEAN]
         /\ told'.twice = told.twice /\ told'.made = told.made /\ told'.overlap = told.overlap
         /\ told'.mishap <=> told.mishap \/ fails
BY DEF DeskIsTyped, W!Failed

\* The index keeps up with decisions that end before their page or after its
\* entry, and with pages that go.
LEMMA FewerKeepUp ==
  ASSUME IndexKeepsUp, UNCHANGED index, DOMAIN wiki' \subseteq DOMAIN wiki,
         told.overlap => told'.overlap, told.mishap => told'.mishap,
         acts' \subseteq acts, \A b \in acts \ acts' : b.at \notin {"index", "list"}
  PROVE  IndexKeepsUp'
<1>1. \A i : W!Target(i)' = W!Target(i)
  BY DEF W!Target, W!Dir
<1> QED
  BY <1>1 DEF IndexKeepsUp, NoneIsOdd, Creates

LEMMA BecomesTyped ==
  ASSUME DeskIsTyped, NEW a \in acts, NEW new, W!Becomes(a, new), IsAct(new),
         UNCHANGED <<toReview, research>>, IsIndex(index'),
         told' \in [shown : SUBSET W!Items, twice : SUBSET W!Items, made : SUBSET W!Items, overlap : BOOLEAN, mishap : BOOLEAN]
  PROVE  DeskIsTyped'
<1>1. W!Items' = W!Items
  BY DEF W!Items
<1>2. IsIndex(index)' <=> IsIndex(index')
  BY DEF IsIndex
<1>3. \A b \in acts' : IsAct(b)
  BY DEF DeskIsTyped, W!Becomes
<1>4. \A b \in acts' : IsAct(b)' <=> IsAct(b)
  BY <1>1 DEF IsAct, IsIndex
<1> QED
  BY <1>1, <1>2, <1>3, <1>4 DEF DeskIsTyped

LEMMA EndsTyped ==
  ASSUME DeskIsTyped, NEW a \in acts, NEW how, W!Ends(a, how), UNCHANGED <<index, research>>,
         told' \in [shown : SUBSET W!Items, twice : SUBSET W!Items, made : SUBSET W!Items, overlap : BOOLEAN, mishap : BOOLEAN]
  PROVE  DeskIsTyped'
<1>1. W!Items' = W!Items
  BY DEF W!Items
<1>2. DOMAIN toReview' = W!Items
  BY DEF W!Ends, W!Resolved
<1>3. \A b \in acts' : IsAct(b)
  BY DEF DeskIsTyped, W!Ends
<1>4. \A b \in acts' : IsAct(b)' <=> IsAct(b)
  BY <1>1 DEF IsAct, IsIndex
<1> QED
  BY <1>1, <1>2, <1>3, <1>4 DEF DeskIsTyped, IsIndex

\* Steps of a sweep and on the items, which leave decisions and index alone.
LEMMA SameActsTyped ==
  ASSUME DeskIsTyped, DOMAIN toReview' = W!Items, UNCHANGED <<acts, research>>, IsIndex(index'),
         told' \in [shown : SUBSET W!Items, twice : SUBSET W!Items, made : SUBSET W!Items, overlap : BOOLEAN, mishap : BOOLEAN]
  PROVE  DeskIsTyped'
<1>1. W!Items' = W!Items
  BY DEF W!Items
<1>4. \A b \in acts' : IsAct(b)' <=> IsAct(b)
  BY <1>1 DEF IsAct, IsIndex
<1> QED
  BY <1>1, <1>4 DEF DeskIsTyped, IsIndex

LEMMA SameActsKeepOneDecision ==
  ASSUME OneDecision, UNCHANGED <<toReview, acts, research>>, told'.twice = told.twice, told'.made = told.made
  PROVE  OneDecision'
<1>1. W!Items' = W!Items /\ \A i \in W!Items : (W!Pending(i)' <=> W!Pending(i)) /\ (Acting(i)' <=> Acting(i))
  BY DEF W!Items, W!Pending, Acting
<1> QED
  BY <1>1 DEF OneDecision

-----------------------------------------------------------------------------
LEMMA PreviewKeepsWInv ==
  ASSUME WInv, NEW a \in acts, NEW claims, W!Preview(a, claims)
  PROVE  WInv' /\ W!SweepIsJustified /\ W!DecisionsStand
<1> USE DEF WInv
<1>1. SweepSaw'
  BY SameSweepSaw DEF W!Preview
<1>2. CASE W!Duplicate(a.item) \/ claims
  <2>1. W!Ends(a, "held") /\ acts' = acts \ {a} /\ a.at = "create"
    BY <1>2 DEF W!Preview, W!Ends
  <2>2. UNCHANGED <<research, told, index, wiki>>
    BY DEF W!Preview
  <2>3. OneDecision' /\ W!SweepIsJustified /\ W!DecisionsStand
    BY <2>1, <2>2, EndsKeepsOneDecision
  <2>4. DeskIsTyped'
    BY <2>1, <2>2, EndsTyped DEF DeskIsTyped
  <2>5. IndexKeepsUp'
    BY <2>1, <2>2, FewerKeepUp
  <2> QED
    BY <1>1, <2>3, <2>4, <2>5
<1>3. CASE ~(W!Duplicate(a.item) \/ claims)
  <2> DEFINE new == [a EXCEPT !.at = "write"]
  <2>1. W!Becomes(a, new) /\ acts' = (acts \ {a}) \cup {new} /\ a.at = "create" /\ UNCHANGED <<toReview, research, told, index, wiki>>
    BY <1>3 DEF W!Preview, W!Becomes
  <2>2. IsAct(a)
    BY DEF DeskIsTyped
  <2>3. IsAct(new) /\ new.item = a.item /\ new.at = "write"
    BY <2>2 DEF IsAct
  <2> HIDE DEF new
  <2>4. OneDecision'
    BY <2>1, <2>3, BecomesKeepsOneDecision
  <2>5. DeskIsTyped'
    BY <2>1, <2>3, BecomesTyped DEF DeskIsTyped
  <2>6. IndexKeepsUp'
    <3>1. \A i : W!Target(i)' = W!Target(i)
      BY DEF W!Target, W!Dir
    <3> QED
      BY <2>1, <2>3, <3>1 DEF IndexKeepsUp, NoneIsOdd, Creates
  <2> QED
    BY <1>1, <2>1, <2>4, <2>5, <2>6, SameItemsStand
<1> QED
  BY <1>2, <1>3

LEMMA WritePageKeepsWInv ==
  ASSUME WInv, NEW a \in acts, NEW fails \in BOOLEAN, W!WritePage(a, fails)
  PROVE  WInv' /\ W!SweepIsJustified /\ W!DecisionsStand
<1> USE DEF WInv
<1>0. a.at = "write" /\ UNCHANGED <<index, research, sweep>>
  BY DEF W!WritePage
<1>1. CASE fails
  <2>1. W!Ends(a, "failed") /\ acts' = acts \ {a} /\ UNCHANGED <<wiki, since>> /\ told' = [told EXCEPT !.mishap = TRUE]
    BY <1>1 DEF W!WritePage, W!Ends
  <2>2. /\ told' \in [shown : SUBSET W!Items, twice : SUBSET W!Items, made : SUBSET W!Items, overlap : BOOLEAN, mishap : BOOLEAN]
        /\ told'.twice = told.twice /\ told'.made = told.made /\ told'.overlap = told.overlap /\ told'.mishap
    BY <2>1 DEF DeskIsTyped
  <2>3. OneDecision' /\ W!SweepIsJustified /\ W!DecisionsStand
    BY <1>0, <2>1, <2>2, EndsKeepsOneDecision
  <2>4. DeskIsTyped'
    BY <1>0, <2>1, <2>2, EndsTyped
  <2>5. IndexKeepsUp'
    BY <1>0, <2>1, <2>2, FewerKeepUp
  <2>6. SweepSaw'
    BY <1>0, <2>1, <2>2, SameSweepSaw
  <2> QED
    BY <2>3, <2>4, <2>5, <2>6
<1>2. CASE ~fails
  <2> DEFINE new == [a EXCEPT !.at = "index"]
             page == [title |-> Title[a.item], by |-> a.item]
             more == W!Put(wiki, W!Target(a.item), page)
  <2>1. /\ W!Becomes(a, new) /\ acts' = (acts \ {a}) \cup {new} /\ UNCHANGED toReview
        /\ W!Change(more) /\ told' = [told EXCEPT !.made = @ \cup {a.item}]
    BY <1>2 DEF W!WritePage, W!Becomes
  <2>2. IsAct(a)
    BY DEF DeskIsTyped
  <2>3. IsAct(new) /\ new.item = a.item /\ new.at = "index"
    BY <2>2 DEF IsAct
  <2>4. a.item \in W!Items
    BY <2>2 DEF IsAct
  <2>5. /\ told' \in [shown : SUBSET W!Items, twice : SUBSET W!Items, made : SUBSET W!Items, overlap : BOOLEAN, mishap : BOOLEAN]
        /\ told'.twice = told.twice /\ told'.made = told.made \cup {a.item} /\ told'.overlap = told.overlap /\ told'.mishap = told.mishap
    BY <2>1, <2>4 DEF DeskIsTyped
  <2>6. DOMAIN wiki' = DOMAIN wiki \cup {W!Target(a.item)}
    BY <2>1 DEF W!Change, W!Put
  <2> HIDE DEF new, more, page
  <2>7. OneDecision'
    BY <1>0, <2>1, <2>3, <2>5, BecomesKeepsOneDecision
  <2>8. DeskIsTyped'
    <3>1. IsIndex(index')
      BY <1>0 DEF DeskIsTyped
    <3> QED
      BY <1>0, <2>1, <2>3, <2>5, <3>1, BecomesTyped
  <2>9. SweepSaw'
    BY <1>0, <2>1, <2>5, ChangeKeepsSweepSaw
  <2>10. IndexKeepsUp'
    <3>1. \A i : W!Target(i)' = W!Target(i)
      BY DEF W!Target, W!Dir
    <3>2. ASSUME ~told'.overlap, ~told'.mishap, NEW b \in acts', NEW c \in acts', Creates(b), Creates(c)
          PROVE  b = c
      BY <1>0, <2>1, <2>5, <3>2 DEF IndexKeepsUp, Creates
    <3>3. ASSUME ~told'.overlap, ~told'.mishap, NEW b \in acts', b.at = "list"
          PROVE  b.read = index
      BY <1>0, <2>1, <2>3, <2>5, <3>3 DEF IndexKeepsUp
    <3>4. ASSUME ~told'.overlap, ~told'.mishap, NoneIsOdd(index), NEW p \in DOMAIN wiki'
          PROVE  p \in index.listed \/ \E b \in acts' : b.at \in {"index", "list"} /\ W!Target(b.item) = p
      <4>1. CASE p = W!Target(a.item)
        BY <2>1, <2>3, <4>1
      <4>2. CASE p # W!Target(a.item)
        <5>1. p \in index.listed \/ \E b \in acts : b.at \in {"index", "list"} /\ W!Target(b.item) = p
          BY <2>5, <2>6, <3>4, <4>2 DEF IndexKeepsUp
        <5> QED
          BY <1>0, <2>1, <5>1
      <4> QED
        BY <4>1, <4>2
    <3> QED
      BY <1>0, <3>1, <3>2, <3>3, <3>4 DEF IndexKeepsUp, NoneIsOdd, Creates
  <2> QED
    BY <2>1, <2>7, <2>8, <2>9, <2>10, SameItemsStand
<1> QED
  BY <1>1, <1>2

LEMMA ReadIndexKeepsWInv ==
  ASSUME WInv, NEW a \in acts, NEW fails \in BOOLEAN, W!ReadIndex(a, fails)
  PROVE  WInv' /\ W!SweepIsJustified /\ W!DecisionsStand
<1> USE DEF WInv
<1> DEFINE empty == [listed |-> {}, heading |-> [d \in {"concepts", "queries"} |-> "none"]]
           read == IF fails THEN empty ELSE index
           new == [a EXCEPT !.at = "list", !.read = read]
<1>1. /\ a.at = "index" /\ W!Becomes(a, new) /\ acts' = (acts \ {a}) \cup {new}
      /\ UNCHANGED <<toReview, wiki, index, research, sweep, since>>
  BY DEF W!ReadIndex, W!Becomes
<1>2. /\ told' \in [shown : SUBSET W!Items, twice : SUBSET W!Items, made : SUBSET W!Items, overlap : BOOLEAN, mishap : BOOLEAN]
      /\ told'.twice = told.twice /\ told'.made = told.made /\ told'.overlap = told.overlap
      /\ told'.mishap <=> told.mishap \/ fails
  BY FailedFacts DEF W!ReadIndex
<1>3. IsIndex(index) /\ IsAct(a)
  BY DEF DeskIsTyped
<1>4. IsIndex(empty)
  BY DEF IsIndex, HeadingsOf
<1>5. IsIndex(read) /\ (~fails => read = index)
  BY <1>3, <1>4
<1> HIDE DEF read
<1>6. IsAct(new) /\ new.item = a.item /\ new.at = "list" /\ new.read = read
  BY <1>3, <1>5 DEF IsAct
<1> HIDE DEF new
<1>7. OneDecision'
  BY <1>1, <1>2, <1>6, BecomesKeepsOneDecision
<1>8. DeskIsTyped'
  BY <1>1, <1>2, <1>3, <1>6, BecomesTyped
<1>9. SweepSaw'
  BY <1>1, <1>2, SameSweepSaw
<1>10. IndexKeepsUp'
  <2>1. \A i : W!Target(i)' = W!Target(i)
    BY DEF W!Target, W!Dir
  <2> QED
    BY <1>1, <1>2, <1>5, <1>6, <2>1 DEF IndexKeepsUp, NoneIsOdd, Creates
<1> QED
  BY <1>1, <1>7, <1>8, <1>9, <1>10, SameItemsStand

LEMMA WriteIndexKeepsWInv ==
  ASSUME WInv, NEW a \in acts, NEW fails \in BOOLEAN, W!WriteIndex(a, fails)
  PROVE  WInv' /\ W!SweepIsJustified /\ W!DecisionsStand
<1> USE DEF WInv
<1>0. a.at = "list" /\ UNCHANGED <<wiki, research, sweep, since>>
  BY DEF W!WriteIndex
<1>1. /\ told' \in [shown : SUBSET W!Items, twice : SUBSET W!Items, made : SUBSET W!Items, overlap : BOOLEAN, mishap : BOOLEAN]
      /\ told'.twice = told.twice /\ told'.made = told.made /\ told'.overlap = told.overlap
      /\ told'.mishap <=> told.mishap \/ fails
  BY FailedFacts DEF W!WriteIndex
<1>2. SweepSaw'
  BY <1>0, <1>1, SameSweepSaw
<1>3. CASE fails
  <2>1. W!Ends(a, "failed") /\ UNCHANGED index
    BY <1>3 DEF W!WriteIndex
  <2>2. OneDecision' /\ W!SweepIsJustified /\ W!DecisionsStand
    BY <1>0, <1>1, <2>1, EndsKeepsOneDecision
  <2>3. DeskIsTyped'
    BY <1>0, <1>1, <2>1, EndsTyped
  <2>4. IndexKeepsUp'
    BY <1>1, <1>3 DEF IndexKeepsUp
  <2> QED
    BY <1>2, <2>2, <2>3, <2>4
<1>4. CASE ~fails
  <2> DEFINE new == [a EXCEPT !.at = "log", !.read = W!Nothing]
             p == W!Target(a.item)
  <2>1. /\ W!Becomes(a, new) /\ acts' = (acts \ {a}) \cup {new} /\ UNCHANGED toReview
        /\ index' = W!WithEntry(a.read, p)
    BY <1>4 DEF W!WriteIndex, W!Becomes
  <2>2. IsAct(a) /\ IsIndex(a.read)
    BY <1>0 DEF DeskIsTyped, IsAct
  <2>3. IsAct(new) /\ new.item = a.item /\ new.at = "log"
    BY <2>2 DEF IsAct
  <2>4. p[1] \in {"concepts", "queries"}
    BY DEF W!Target, W!Dir
  <2> HIDE DEF new, p
  <2>5. /\ IsIndex(index') /\ (NoneIsOdd(index') => NoneIsOdd(a.read))
        /\ NoneIsOdd(index') => index'.listed = a.read.listed \cup {p}
    <3> DEFINE read == a.read
    <3>1. IsIndex(read) /\ index' = W!WithEntry(read, p)
      BY <2>1, <2>2
    <3> HIDE DEF read
    <3>2. CASE read.heading[p[1]] = "plain"
      <4>1. index' = [read EXCEPT !.listed = read.listed \cup {p}]
        BY <3>1, <3>2 DEF W!WithEntry
      <4> QED
        BY <3>1, <4>1 DEF IsIndex, NoneIsOdd, read
    <3>3. CASE read.heading[p[1]] = "none"
      <4> DEFINE heading == [read.heading EXCEPT ![p[1]] = "plain"]
      <4>1. index' = [listed |-> read.listed \cup {p}, heading |-> heading]
        BY <3>1, <3>3 DEF W!WithEntry
      <4>2. heading \in HeadingsOf /\ \A d \in DOMAIN read.heading : d \in DOMAIN heading /\ (read.heading[d] = "odd" => heading[d] = "odd")
        BY <2>4, <3>1, <3>3 DEF IsIndex, HeadingsOf
      <4> HIDE DEF heading
      <4> QED
        BY <4>1, <4>2 DEF IsIndex, NoneIsOdd, read
    <3>4. CASE read.heading[p[1]] \notin {"plain", "none"}
      <4>1. index' = read
        BY <3>1, <3>4 DEF W!WithEntry
      <4>2. p[1] \in DOMAIN read.heading /\ read.heading[p[1]] = "odd"
        BY <2>4, <3>1, <3>4 DEF IsIndex, HeadingsOf
      <4> QED
        BY <3>1, <4>1, <4>2 DEF NoneIsOdd, read
    <3> QED
      BY <3>2, <3>3, <3>4
  <2>6. OneDecision'
    BY <1>0, <1>1, <2>1, <2>3, BecomesKeepsOneDecision
  <2>7. DeskIsTyped'
    BY <1>0, <1>1, <2>1, <2>3, <2>5, BecomesTyped
  <2>8. IndexKeepsUp'
    <3>1. \A i : W!Target(i)' = W!Target(i)
      BY DEF W!Target, W!Dir
    <3>2. ASSUME ~told'.overlap, ~told'.mishap
          PROVE  /\ a.read = index
                 /\ \A b \in acts : Creates(b) => b = a
                 /\ NoneIsOdd(index) => \A q \in DOMAIN wiki : q \in index.listed \/ \E b \in acts : b.at \in {"index", "list"} /\ W!Target(b.item) = q
      BY <1>0, <1>1, <3>2 DEF IndexKeepsUp, Creates
    <3>3. ASSUME ~told'.overlap, ~told'.mishap, NEW b \in acts', NEW c \in acts', Creates(b), Creates(c)
          PROVE  b = c
      BY <2>1, <3>2, <3>3
    <3>4. ASSUME ~told'.overlap, ~told'.mishap, NEW b \in acts'
          PROVE  b.at # "list"
      BY <2>1, <2>3, <3>2, <3>4 DEF Creates
    <3>5. ASSUME ~told'.overlap, ~told'.mishap, NoneIsOdd(index'), NEW q \in DOMAIN wiki
          PROVE  q \in index'.listed
      <4>1. NoneIsOdd(index) /\ index'.listed = index.listed \cup {p}
        BY <2>5, <3>2, <3>5
      <4>2. q \in index.listed \/ \E b \in acts : b.at \in {"index", "list"} /\ W!Target(b.item) = q
        BY <3>2, <3>5, <4>1
      <4>3. ASSUME NEW b \in acts, b.at \in {"index", "list"}, W!Target(b.item) = q PROVE q = p
        BY <3>2, <3>5, <4>3 DEF Creates, p
      <4> QED
        BY <4>1, <4>2, <4>3
    <3> QED
      BY <1>0, <3>1, <3>3, <3>4, <3>5 DEF IndexKeepsUp, NoneIsOdd, Creates
  <2> QED
    BY <1>2, <2>1, <2>6, <2>7, <2>8, SameItemsStand
<1> QED
  BY <1>3, <1>4

\* The end of a decision, which leaves the index alone.
LEMMA EndKeepsWInv ==
  ASSUME WInv, NEW a \in acts, NEW how, how \notin {"auto-resolved", "llm-judged"}, W!Ends(a, how),
         a.at \notin {"index", "list"}, UNCHANGED <<index, research, sweep>>,
         UNCHANGED <<wiki, since>> \/ \E ps : W!Change(ps) /\ DOMAIN ps \subseteq DOMAIN wiki,
         told' \in [shown : SUBSET W!Items, twice : SUBSET W!Items, made : SUBSET W!Items, overlap : BOOLEAN, mishap : BOOLEAN],
         told'.twice = told.twice, told'.made = told.made, told'.overlap = told.overlap, told.mishap => told'.mishap
  PROVE  WInv' /\ W!SweepIsJustified /\ W!DecisionsStand
<1>1. acts' = acts \ {a}
  BY DEF W!Ends
<1>2. OneDecision' /\ W!SweepIsJustified /\ W!DecisionsStand
  BY EndsKeepsOneDecision DEF WInv
<1>3. DeskIsTyped'
  BY EndsTyped DEF WInv
<1>4. DOMAIN wiki' \subseteq DOMAIN wiki
  BY DEF W!Change
<1>5. IndexKeepsUp'
  BY <1>1, <1>4, FewerKeepUp DEF WInv
<1>6. SweepSaw'
  BY SameSweepSaw, ChangeKeepsSweepSaw DEF WInv
<1> QED
  BY <1>2, <1>3, <1>5, <1>6 DEF WInv

LEMMA FinishKeepsWInv ==
  ASSUME WInv, NEW a \in acts, NEW fails \in BOOLEAN, W!Finish(a, fails)
  PROVE  WInv' /\ W!SweepIsJustified /\ W!DecisionsStand
<1> DEFINE how == IF fails THEN "failed" ELSE "created"
<1>1. W!Ends(a, how) /\ a.at = "log" /\ UNCHANGED <<wiki, index, research, sweep, since>>
  BY DEF W!Finish
<1>2. how \notin {"auto-resolved", "llm-judged"}
  OBVIOUS
<1>3. /\ told' \in [shown : SUBSET W!Items, twice : SUBSET W!Items, made : SUBSET W!Items, overlap : BOOLEAN, mishap : BOOLEAN]
      /\ told'.twice = told.twice /\ told'.made = told.made /\ told'.overlap = told.overlap
      /\ told'.mishap <=> told.mishap \/ fails
  BY FailedFacts DEF W!Finish, WInv
<1> HIDE DEF how
<1> QED
  BY <1>1, <1>2, <1>3, EndKeepsWInv

LEMMA OpenKeepsWInv ==
  ASSUME WInv, NEW a \in acts, W!Open(a)
  PROVE  WInv' /\ W!SweepIsJustified /\ W!DecisionsStand
<1> DEFINE found == a.item \notin Prefixed /\ Affected[a.item] \cap DOMAIN wiki # {}
           more == IF found THEN {a.item} ELSE {}
<1>1. /\ W!Ends(a, "opened") /\ a.at = "open" /\ UNCHANGED <<wiki, index, research, sweep, since>>
      /\ told' = [told EXCEPT !.shown = @ \cup more]
  BY DEF W!Open
<1>2. more \subseteq W!Items
  BY DEF WInv, DeskIsTyped, IsAct
<1> HIDE DEF more
<1>3. /\ told' \in [shown : SUBSET W!Items, twice : SUBSET W!Items, made : SUBSET W!Items, overlap : BOOLEAN, mishap : BOOLEAN]
      /\ told'.twice = told.twice /\ told'.made = told.made /\ told'.overlap = told.overlap /\ told'.mishap = told.mishap
  BY <1>1, <1>2 DEF WInv, DeskIsTyped
<1> QED
  BY <1>1, <1>3, EndKeepsWInv

LEMMA DeleteKeepsWInv ==
  ASSUME WInv, NEW a \in acts, W!Delete(a)
  PROVE  WInv' /\ W!SweepIsJustified /\ W!DecisionsStand
<1>1. a.at = "delete" /\ UNCHANGED <<index, research, sweep, told>>
  BY DEF W!Delete
<1>2. told \in [shown : SUBSET W!Items, twice : SUBSET W!Items, made : SUBSET W!Items, overlap : BOOLEAN, mishap : BOOLEAN]
  BY DEF WInv, DeskIsTyped
<1>3. DOMAIN W!Without(wiki, Affected[a.item]) \subseteq DOMAIN wiki
  BY DEF W!Without
<1>4. CASE W!Ends(a, "deleted") /\ W!Change(W!Without(wiki, Affected[a.item]))
  BY <1>1, <1>2, <1>3, <1>4, EndKeepsWInv
<1>5. CASE W!Ends(a, "failed") /\ UNCHANGED <<wiki, since>>
  BY <1>1, <1>2, <1>5, EndKeepsWInv
<1> QED
  BY <1>4, <1>5 DEF W!Delete

-----------------------------------------------------------------------------
\* Steps on the items alone, which take none that a decision or sweep has.
LEMMA GoneKeepsWInv ==
  ASSUME WInv, DOMAIN toReview' = W!Items, \A i \in W!Items : toReview'[i] = toReview[i] \/ toReview'[i] = W!Gone,
         UNCHANGED <<wiki, index, acts, research, sweep, since, told>>
  PROVE  WInv' /\ W!SweepIsJustified /\ W!DecisionsStand
<1>1. OneDecision' /\ W!SweepIsJustified /\ W!DecisionsStand
  BY GoneKeepsOneDecision DEF WInv
<1>2. DeskIsTyped'
  BY SameActsTyped DEF WInv, DeskIsTyped
<1>3. IndexKeepsUp'
  BY FewerKeepUp DEF WInv
<1>4. SweepSaw'
  BY SameSweepSaw DEF WInv
<1> QED
  BY <1>1, <1>2, <1>3, <1>4 DEF WInv

LEMMA DismissKeepsWInv ==
  ASSUME WInv, NEW i \in W!Items, W!Dismiss(i)
  PROVE  WInv' /\ W!SweepIsJustified /\ W!DecisionsStand
<1>1. toReview' = [toReview EXCEPT ![i] = W!Gone] /\ DOMAIN toReview = W!Items
  BY DEF W!Dismiss, WInv, DeskIsTyped
<1> QED
  BY <1>1, GoneKeepsWInv DEF W!Dismiss

LEMMA ClearKeepsWInv ==
  ASSUME WInv, W!ClearResolved
  PROVE  WInv' /\ W!SweepIsJustified /\ W!DecisionsStand
<1>1. toReview' = [i \in W!Items |-> IF toReview[i].state = "resolved" THEN W!Gone ELSE toReview[i]]
  BY DEF W!ClearResolved
<1> QED
  BY <1>1, GoneKeepsWInv DEF W!ClearResolved

\* A button.
LEMMA BranchFacts ==
  ASSUME NEW label
  PROVE  /\ W!Branch(label) \in {"deep", "open", "delete", "research", "create", "dismiss"}
         /\ W!Branch(label) = "dismiss" => label \in {"Skip", "Approve"}
BY DEF W!Branch, W!LooksLikeResearch, W!IsDismissal

LEMMA ClickKeepsWInv ==
  ASSUME WInv, NEW i \in W!Items, NEW label, W!Click(i, label)
  PROVE  WInv' /\ W!SweepIsJustified /\ W!DecisionsStand
<1> DEFINE branch == W!Branch(label)
           again == IF \E a \in acts : a.item = i THEN {i} ELSE {}
           meets == branch = "create" /\ \E a \in acts : a.at # "open"
           new == [id |-> counts.events, item |-> i, at |-> branch, read |-> W!Nothing]
<1>1. /\ W!Pending(i) /\ UNCHANGED <<wiki, index, sweep, since>>
      /\ told' = [told EXCEPT !.twice = @ \cup again, !.overlap = @ \/ meets]
  BY DEF W!Click
<1>2. /\ branch \in {"deep", "open", "delete", "research", "create", "dismiss"}
      /\ branch = "dismiss" => label \in {"Skip", "Approve"}
  BY BranchFacts
<1>3. again \subseteq W!Items /\ (i \notin again => ~Acting(i)) /\ meets \in BOOLEAN
  BY DEF Acting
<1> HIDE DEF branch, again, meets
<1>4. /\ told' \in [shown : SUBSET W!Items, twice : SUBSET W!Items, made : SUBSET W!Items, overlap : BOOLEAN, mishap : BOOLEAN]
      /\ told'.twice = told.twice \cup again /\ told'.made = told.made /\ told'.mishap = told.mishap
      /\ told'.overlap <=> told.overlap \/ meets
  BY <1>1, <1>3 DEF WInv, DeskIsTyped
<1>5. research[i] = 0 /\ research \in [W!Items -> Nat] /\ toReview[i].state = "pending" /\ DOMAIN toReview = W!Items
  BY <1>1 DEF WInv, OneDecision, DeskIsTyped, W!Pending
<1>6. i \notin told'.twice => ~Acting(i) /\ i \notin told.made
  BY <1>1, <1>3, <1>4 DEF WInv, OneDecision
<1>7. W!Items' = W!Items /\ \A j \in W!Items : W!Pending(j)' <=> toReview'[j].state = "pending"
  BY DEF W!Items, W!Pending
<1>8. SweepSaw'
  BY <1>1, <1>4, SameSweepSaw DEF WInv
<1>9. IsIndex(index')
  BY <1>1 DEF WInv, DeskIsTyped
<1>10. CASE UNCHANGED <<toReview, acts>> /\ research' = [research EXCEPT ![i] = @ + 0]
  <2>1. research' = research
    BY <1>5, <1>10
  <2>2. DeskIsTyped' /\ IndexKeepsUp'
    BY <1>1, <1>4, <1>5, <1>9, <1>10, <2>1, SameActsTyped, FewerKeepUp DEF WInv
  <2>3. OneDecision'
    <3>1. \A j \in W!Items : Acting(j)' <=> Acting(j)
      BY <1>10 DEF Acting
    <3> QED
      BY <1>4, <1>7, <1>10, <2>1, <3>1 DEF WInv, OneDecision, W!Pending
  <2> QED
    BY <1>8, <1>10, <2>2, <2>3, SameItemsStand DEF WInv
<1>11. ASSUME NEW how, how \notin {"auto-resolved", "llm-judged"}, NEW more \in {0, 1},
              toReview' = W!Resolved(toReview, {i}, how), UNCHANGED acts, research' = [research EXCEPT ![i] = @ + more]
       PROVE  WInv' /\ W!SweepIsJustified /\ W!DecisionsStand
  <2>1. /\ DOMAIN toReview' = W!Items
        /\ \A j \in W!Items : \/ j = i /\ toReview'[j].state = "resolved" /\ toReview'[j].how = how
                              \/ j # i /\ toReview'[j] = toReview[j]
    BY <1>5, <1>11, ResolvedFacts
  <2>2. research' \in [W!Items -> Nat] /\ research'[i] <= 1 /\ \A j \in W!Items : j # i => research'[j] = research[j]
    BY <1>5, <1>11
  <2>3. \A j \in W!Items : Acting(j)' <=> Acting(j)
    BY <1>11 DEF Acting
  <2>4. OneDecision'
    <3>1. ASSUME NEW j \in W!Items, j # i
          PROVE  /\ W!Pending(j)' <=> W!Pending(j)
                 /\ j \notin told'.twice => j \notin told.twice
      BY <1>4, <1>7, <2>1, <3>1 DEF W!Pending
    <3>2. ~W!Pending(i)' /\ (i \notin told'.twice => ~Acting(i)' /\ i \notin told'.made)
      BY <1>4, <1>6, <1>7, <2>1, <2>3
    <3>3. ASSUME NEW j \in W!Items, NEW a \in acts', NEW b \in acts', j \notin told'.twice, a.item = j, b.item = j
          PROVE  a = b
      BY <1>4, <1>11, <3>3 DEF WInv, OneDecision
    <3>4. ASSUME NEW j \in W!Items, j # i
          PROVE  /\ W!Pending(j)' => research'[j] = 0
                 /\ research'[j] <= 1
                 /\ j \notin told'.twice =>
                      /\ Acting(j)' => research'[j] = 0
                      /\ Acting(j)' /\ toReview'[j].state = "resolved" => toReview'[j].how \in {"auto-resolved", "llm-judged"}
                      /\ j \in told'.made => research'[j] = 0 /\ (W!Pending(j)' => Acting(j)')
      BY <1>4, <2>1, <2>2, <2>3, <3>1, <3>4 DEF WInv, OneDecision
    <3> QED
      BY <1>7, <2>2, <3>2, <3>3, <3>4 DEF OneDecision
  <2>5. DeskIsTyped'
    <3>1. \A b \in acts' : IsAct(b)' <=> IsAct(b)
      BY <1>7 DEF IsAct, IsIndex
    <3> QED
      BY <1>4, <1>7, <1>9, <1>11, <2>1, <2>2, <3>1 DEF WInv, DeskIsTyped, IsIndex
  <2>6. IndexKeepsUp'
    BY <1>1, <1>4, <1>11, FewerKeepUp DEF WInv
  <2>7. W!SweepIsJustified /\ W!DecisionsStand
    BY <1>5, <1>11, <2>1 DEF W!SweepIsJustified, W!DecisionsStand
  <2> QED
    BY <1>8, <2>4, <2>5, <2>6, <2>7 DEF WInv
<1>12. CASE acts' = acts \cup {new} /\ UNCHANGED <<toReview, research>> /\ branch \in {"open", "delete", "create"}
  <2>1. IsAct(new) /\ new.item = i /\ new.at = branch /\ new.at \notin {"index", "list"}
    BY <1>12 DEF IsAct
  <2> HIDE DEF new
  <2>2. DeskIsTyped'
    <3>1. \A b \in acts' : IsAct(b)' <=> IsAct(b)
      BY <1>7 DEF IsAct, IsIndex
    <3> QED
      BY <1>4, <1>5, <1>7, <1>9, <1>12, <2>1, <3>1 DEF WInv, DeskIsTyped, IsIndex
  <2>3. OneDecision'
    <3>1. ASSUME NEW j \in W!Items, j # i PROVE Acting(j)' <=> Acting(j)
      BY <1>12, <2>1, <3>1 DEF Acting
    <3>2. ASSUME NEW j \in W!Items, NEW a \in acts', NEW b \in acts', j \notin told'.twice, a.item = j, b.item = j
          PROVE  a = b
      <4>1. CASE j = i
        BY <1>6, <1>12, <2>1, <3>2, <4>1 DEF Acting
      <4>2. CASE j # i
        BY <1>4, <1>12, <2>1, <3>2, <4>2 DEF WInv, OneDecision
      <4> QED
        BY <4>1, <4>2
    <3>3. ASSUME NEW j \in W!Items, j # i
          PROVE  /\ W!Pending(j)' => research[j] = 0
                 /\ research[j] <= 1
                 /\ j \notin told'.twice =>
                      /\ Acting(j)' => research[j] = 0
                      /\ Acting(j)' /\ toReview[j].state = "resolved" => toReview[j].how \in {"auto-resolved", "llm-judged"}
                      /\ j \in told'.made => research[j] = 0 /\ (W!Pending(j)' => Acting(j)')
      BY <1>4, <1>7, <1>12, <3>1, <3>3 DEF WInv, OneDecision, W!Pending
    <3>4. i \notin told'.twice => i \notin told'.made
      BY <1>4, <1>6
    <3> QED
      BY <1>5, <1>7, <1>12, <3>2, <3>3, <3>4 DEF OneDecision
  <2>4. IndexKeepsUp'
    <3>1. \A j : W!Target(j)' = W!Target(j)
      BY DEF W!Target, W!Dir
    <3>2. ASSUME ~told'.overlap, ~told'.mishap, NEW b \in acts', NEW c \in acts', Creates(b), Creates(c)
          PROVE  b = c
      <4>1. CASE branch = "create"
        BY <1>4, <1>12, <3>2, <4>1 DEF meets, Creates
      <4>2. CASE branch # "create"
        BY <1>4, <1>12, <2>1, <3>2, <4>2 DEF Creates, WInv, IndexKeepsUp
      <4> QED
        BY <4>1, <4>2
    <3> QED
      BY <1>1, <1>4, <1>12, <2>1, <3>1, <3>2 DEF WInv, IndexKeepsUp, NoneIsOdd, Creates
  <2> QED
    BY <1>8, <1>12, <2>2, <2>3, <2>4, SameItemsStand DEF WInv
<1>13. CASE branch \in {"deep", "research"}
  <2>1. /\ research' = [research EXCEPT ![i] = @ + IF counts.search THEN 1 ELSE 0] /\ UNCHANGED acts
        /\ toReview' = IF counts.search THEN W!Resolved(toReview, {i}, "queued") ELSE toReview
    BY <1>13 DEF W!Click, branch
  <2> QED
    BY <1>10, <1>11, <2>1
<1>14. CASE branch = "dismiss"
  <2>1. toReview' = W!Resolved(toReview, {i}, label) /\ UNCHANGED <<acts, research>>
    BY <1>14 DEF W!Click, branch
  <2>2. research' = [research EXCEPT ![i] = @ + 0] /\ label \notin {"auto-resolved", "llm-judged"}
    BY <1>2, <1>5, <1>14, <2>1
  <2> QED
    BY <1>11, <2>1, <2>2
<1>15. CASE branch \in {"open", "delete", "create"}
  <2>1. acts' = acts \cup {new} /\ UNCHANGED <<toReview, research>>
    BY <1>15 DEF W!Click, branch
  <2> QED
    BY <1>12, <1>15, <2>1
<1> QED
  BY <1>2, <1>13, <1>14, <1>15

-----------------------------------------------------------------------------
\* Steps of a sweep that take no decision.
LEMMA SweepStepKeepsWInv ==
  ASSUME WInv, SweepSaw', UNCHANGED <<toReview, wiki, index, acts, research>>,
         told' \in [shown : SUBSET W!Items, twice : SUBSET W!Items, made : SUBSET W!Items, overlap : BOOLEAN, mishap : BOOLEAN],
         told'.twice = told.twice, told'.made = told.made, told'.overlap = told.overlap, told.mishap => told'.mishap
  PROVE  WInv' /\ W!SweepIsJustified /\ W!DecisionsStand
<1>1. IsIndex(index') /\ DOMAIN toReview' = W!Items
  BY DEF WInv, DeskIsTyped
<1>2. DeskIsTyped'
  BY <1>1, SameActsTyped DEF WInv
<1>3. OneDecision'
  BY SameActsKeepOneDecision DEF WInv
<1>4. IndexKeepsUp'
  BY FewerKeepUp DEF WInv
<1> QED
  BY <1>2, <1>3, <1>4, SameItemsStand DEF WInv

LEMMA SweepFacts ==
  /\ W!Nothing' = W!Nothing /\ NamesOfPaths' = NamesOfPaths
  /\ W!Names(wiki)' = W!Names(wiki') /\ W!Ids(wiki)' = W!Ids(wiki')
  /\ \A r : DOMAIN r # DOMAIN W!Nothing => r # W!Nothing
  /\ DOMAIN W!Nothing = {"nothing"}
  /\ \A ps : W!Ids(ps) \subseteq W!Names(ps)
  /\ \A ps : \A p \in DOMAIN ps : ps[p].title \in W!Names(ps)
BY DEF W!Nothing, NamesOfPaths, W!Names, W!Ids

LEMMA StartSweepKeepsWInv ==
  ASSUME WInv, W!StartSweep
  PROVE  WInv' /\ W!SweepIsJustified /\ W!DecisionsStand
<1> DEFINE pending == {i \in W!Items : W!Pending(i)}
           had == W!Names(wiki)
           lacked == NamesOfPaths \ W!Ids(wiki)
<1>1. /\ sweep' = [at |-> "list", pending |-> pending, ids |-> {}, titles |-> {}, todo |-> {},
                   left |-> {}, judged |-> {}, batches |-> 0]
      /\ since' = [had |-> had, lacked |-> lacked]
      /\ UNCHANGED <<toReview, wiki, index, acts, research, told>>
  BY DEF W!StartSweep, NamesOfPaths
<1> HIDE DEF pending
<1>2. /\ DOMAIN sweep' = {"at", "pending", "ids", "titles", "todo", "left", "judged", "batches"}
      /\ sweep'.left = {} /\ sweep'.judged = {} /\ sweep'.ids = {} /\ sweep'.titles = {} /\ sweep'.at = "list"
  BY <1>1
<1>3. DOMAIN since' = {"had", "lacked"} /\ since'.had = W!Names(wiki') /\ since'.lacked = NamesOfPaths \ W!Ids(wiki')
  BY <1>1
<1> HIDE DEF had, lacked
<1>4. since' # W!Nothing
  BY <1>3, SweepFacts
<1>5. SweepSaw'
  BY <1>2, <1>3, <1>4, SweepFacts DEF SweepSaw
<1> QED
  BY <1>1, <1>5, SweepStepKeepsWInv DEF WInv, DeskIsTyped

LEMMA ListPagesKeepsWInv ==
  ASSUME WInv, NEW fails \in BOOLEAN, W!ListPages(fails)
  PROVE  WInv' /\ W!SweepIsJustified /\ W!DecisionsStand
<1> DEFINE ids == IF fails THEN {} ELSE W!Ids(wiki)
           todo == IF fails THEN {} ELSE DOMAIN wiki
<1>1. /\ sweep # W!Nothing /\ sweep.at = "list"
      /\ sweep' = [sweep EXCEPT !.at = "read", !.ids = ids, !.todo = todo]
      /\ UNCHANGED <<toReview, wiki, index, acts, research, since>>
  BY DEF W!ListPages
<1>2. /\ told' \in [shown : SUBSET W!Items, twice : SUBSET W!Items, made : SUBSET W!Items, overlap : BOOLEAN, mishap : BOOLEAN]
      /\ told'.twice = told.twice /\ told'.made = told.made /\ told'.overlap = told.overlap
      /\ told'.mishap <=> told.mishap \/ fails
  BY FailedFacts DEF W!ListPages, WInv
<1>3. /\ {"at", "pending", "ids", "titles", "todo", "left", "judged", "batches"} \subseteq DOMAIN sweep
      /\ sweep.left \subseteq sweep.pending /\ sweep.judged \subseteq sweep.pending
      /\ since # W!Nothing /\ sweep.titles \subseteq since.had
      /\ {"had", "lacked"} \subseteq DOMAIN since
      /\ W!Names(wiki) \subseteq since.had /\ NamesOfPaths \ W!Ids(wiki) \subseteq since.lacked
  BY <1>1 DEF WInv, SweepSaw
<1>4. ids \subseteq since.had /\ (~fails => ids = W!Ids(wiki))
  BY <1>3, SweepFacts
<1> HIDE DEF ids, todo
<1>5. /\ DOMAIN sweep' = DOMAIN sweep /\ sweep'.at = "read" /\ sweep'.ids = ids /\ sweep'.titles = sweep.titles
      /\ sweep'.left = sweep.left /\ sweep'.judged = sweep.judged /\ sweep'.pending = sweep.pending
  BY <1>1, <1>3
<1>6. SweepSaw'
  BY <1>1, <1>2, <1>3, <1>4, <1>5, SweepFacts DEF SweepSaw
<1> QED
  BY <1>1, <1>2, <1>6, SweepStepKeepsWInv

LEMMA ReadTitleKeepsWInv ==
  ASSUME WInv, W!ReadTitle
  PROVE  WInv' /\ W!SweepIsJustified /\ W!DecisionsStand
<1>1. PICK p \in sweep.todo :
        /\ sweep # W!Nothing /\ sweep.at = "read"
        /\ sweep' = [sweep EXCEPT !.todo = @ \ {p}, !.titles = @ \cup IF p \in DOMAIN wiki THEN {wiki[p].title} ELSE {}]
        /\ UNCHANGED <<toReview, wiki, index, acts, research, since, told>>
  BY DEF W!ReadTitle
<1> DEFINE found == IF p \in DOMAIN wiki THEN {wiki[p].title} ELSE {}
<1>2. found \subseteq W!Names(wiki)
  BY SweepFacts
<1>3. sweep' = [sweep EXCEPT !.todo = @ \ {p}, !.titles = @ \cup found]
  BY <1>1
<1> HIDE DEF found
<1>4. /\ {"at", "pending", "ids", "titles", "todo", "left", "judged", "batches"} \subseteq DOMAIN sweep
      /\ since # W!Nothing /\ sweep.ids \subseteq since.had /\ sweep.titles \subseteq since.had
      /\ W!Names(wiki) \subseteq since.had
  BY <1>1 DEF WInv, SweepSaw
<1>5. /\ DOMAIN sweep' = DOMAIN sweep /\ sweep'.at = "read" /\ sweep'.ids = sweep.ids /\ sweep'.titles = sweep.titles \cup found
      /\ sweep'.left = sweep.left /\ sweep'.judged = sweep.judged /\ sweep'.pending = sweep.pending
  BY <1>1, <1>3, <1>4
<1>6. SweepSaw'
  BY <1>1, <1>2, <1>4, <1>5, SweepFacts DEF WInv, SweepSaw
<1> QED
  BY <1>1, <1>6, SweepStepKeepsWInv DEF WInv, DeskIsTyped

\* A sweep resolves some of what was pending when it began.
LEMMA SweepEndKeepsWInv ==
  ASSUME WInv, SweepSaw', NEW ids, NEW how \in {"auto-resolved", "llm-judged"}, sweep # W!Nothing, ids \subseteq sweep.pending,
         toReview' = W!Resolved(toReview, ids, how), UNCHANGED <<wiki, index, acts, research, told>>
  PROVE  WInv' /\ W!DecisionsStand
<1>1. OneDecision' /\ W!DecisionsStand
  BY SweptKeepsOneDecision DEF WInv
<1>2. DOMAIN toReview' = W!Items /\ IsIndex(index')
  BY DEF W!Resolved, WInv, DeskIsTyped
<1>3. DeskIsTyped'
  BY <1>2, SameActsTyped DEF WInv, DeskIsTyped
<1>4. IndexKeepsUp'
  BY FewerKeepUp DEF WInv
<1> QED
  BY <1>1, <1>3, <1>4 DEF WInv

LEMMA ApplyRulesKeepsWInv ==
  ASSUME WInv, W!ApplyRules
  PROVE  WInv' /\ W!SweepIsJustified /\ W!DecisionsStand
<1> DEFINE ruled == {i \in sweep.pending : W!DealtWith(i)}
           rest == sweep.pending \ ruled
<1>1. /\ sweep # W!Nothing /\ sweep.at = "read" /\ toReview' = W!Resolved(toReview, ruled, "auto-resolved")
      /\ sweep' = IF rest = {} THEN W!Nothing ELSE [sweep EXCEPT !.at = "judge", !.left = rest, !.ids = {}, !.titles = {}]
      /\ since' = W!Nothing /\ UNCHANGED <<wiki, index, acts, research, told>>
  BY DEF W!ApplyRules
<1>2. ruled \subseteq sweep.pending /\ rest \subseteq sweep.pending /\ \A i \in ruled : W!DealtWith(i)
  OBVIOUS
<1> HIDE DEF ruled, rest
<1>3. /\ {"at", "pending", "ids", "titles", "todo", "left", "judged", "batches"} \subseteq DOMAIN sweep
      /\ sweep.judged \subseteq sweep.pending
      /\ sweep.ids \cup sweep.titles \subseteq since.had
      /\ ~told.mishap => NamesOfPaths \ sweep.ids \subseteq since.lacked
  BY <1>1 DEF WInv, SweepSaw
<1>4. SweepSaw'
  <2>1. CASE rest = {}
    BY <1>1, <2>1, SweepFacts DEF SweepSaw
  <2>2. CASE rest # {}
    <3>1. sweep' = [sweep EXCEPT !.at = "judge", !.left = rest, !.ids = {}, !.titles = {}]
      BY <1>1, <2>2
    <3>2. /\ DOMAIN sweep' = DOMAIN sweep /\ sweep'.at = "judge" /\ sweep'.left = rest
          /\ sweep'.judged = sweep.judged /\ sweep'.pending = sweep.pending
      BY <1>3, <3>1
    <3> QED
      BY <1>1, <1>2, <1>3, <3>2, SweepFacts DEF SweepSaw
  <2> QED
    BY <2>1, <2>2
<1>5. WInv' /\ W!DecisionsStand
  BY <1>1, <1>2, <1>4, SweepEndKeepsWInv
<1>6. W!SweepIsJustified
  <2>1. \A i \in W!Items : \/ i \in ruled /\ toReview'[i].how = "auto-resolved"
                           \/ toReview'[i] = toReview[i]
    BY <1>1, ResolvedFacts
  <2>2. ASSUME NEW i \in W!Items, i \in ruled, ~told.mishap
        PROVE  \/ ItemKind[i] = "missing-page" /\ W!CandidateNames(i) \cap since.had # {}
               \/ ItemKind[i] = "duplicate" /\ {p[2] : p \in Affected[i]} \cap since.lacked # {}
    <3>1. CASE ItemKind[i] = "missing-page" /\ W!CandidateNames(i) \cap (sweep.ids \cup sweep.titles) # {}
      BY <1>3, <3>1
    <3>2. CASE ItemKind[i] = "duplicate" /\ ~({p[2] : p \in Affected[i]} \subseteq sweep.ids)
      <4>1. {p[2] : p \in Affected[i]} \subseteq NamesOfPaths
        BY DEF NamesOfPaths, W!Paths
      <4> QED
        BY <1>3, <2>2, <3>2, <4>1
    <3> QED
      BY <1>2, <2>2, <3>1, <3>2 DEF W!DealtWith
  <2> QED
    BY <2>1, <2>2 DEF W!SweepIsJustified
<1> QED
  BY <1>5, <1>6

LEMMA JudgeKeepsWInv ==
  ASSUME WInv, NEW named, W!Judge(named)
  PROVE  WInv' /\ W!SweepIsJustified /\ W!DecisionsStand
<1> DEFINE batch == W!Batch(sweep.left)
           left == sweep.left \ batch
           judged == sweep.judged \cup named
<1>1. /\ sweep # W!Nothing /\ sweep.at = "judge" /\ named \subseteq batch
      /\ \/ sweep' = [sweep EXCEPT !.left = left, !.judged = judged, !.batches = @ + 1] /\ UNCHANGED toReview
         \/ sweep' = W!Nothing /\ toReview' = W!Resolved(toReview, judged, "llm-judged")
      /\ UNCHANGED <<wiki, index, acts, research, since, told>>
  BY DEF W!Judge
<1>2. /\ {"at", "pending", "ids", "titles", "todo", "left", "judged", "batches"} \subseteq DOMAIN sweep
      /\ sweep.left \subseteq sweep.pending /\ sweep.judged \subseteq sweep.pending
  BY <1>1 DEF WInv, SweepSaw
<1>3. batch \subseteq sweep.left
  BY DEF W!Batch
<1>4. left \subseteq sweep.pending /\ judged \subseteq sweep.pending
  BY <1>1, <1>2, <1>3
<1> HIDE DEF batch, left, judged
<1>5. CASE sweep' = [sweep EXCEPT !.left = left, !.judged = judged, !.batches = @ + 1] /\ UNCHANGED toReview
  <2>1. /\ DOMAIN sweep' = DOMAIN sweep /\ sweep'.at = "judge" /\ sweep'.left = left
        /\ sweep'.judged = judged /\ sweep'.pending = sweep.pending
    BY <1>1, <1>2, <1>5
  <2>2. SweepSaw'
    BY <1>1, <1>2, <1>4, <2>1, SweepFacts DEF WInv, SweepSaw
  <2> QED
    BY <1>1, <1>5, <2>2, SweepStepKeepsWInv DEF WInv, DeskIsTyped
<1>6. CASE sweep' = W!Nothing /\ toReview' = W!Resolved(toReview, judged, "llm-judged")
  <2>1. SweepSaw'
    BY <1>1, <1>6, SweepFacts DEF WInv, SweepSaw
  <2>2. WInv' /\ W!DecisionsStand
    BY <1>1, <1>4, <1>6, <2>1, SweepEndKeepsWInv
  <2>3. \A i \in W!Items : \/ i \in judged /\ toReview'[i].how = "llm-judged"
                           \/ toReview'[i] = toReview[i]
    BY <1>6, ResolvedFacts
  <2>4. W!SweepIsJustified
    BY <1>4, <2>3 DEF W!SweepIsJustified
  <2> QED
    BY <2>2, <2>4
<1> QED
  BY <1>1, <1>5, <1>6

-----------------------------------------------------------------------------
\* Others, who write the index with the pages.
LEMMA OtherKeepsWInv ==
  ASSUME WInv, W!Other, NEW ps, W!Change(ps), NEW entries, index' = [index EXCEPT !.listed = entries],
         \A p \in DOMAIN ps : p \in entries \/ (p \in DOMAIN wiki /\ p \notin index.listed),
         UNCHANGED <<toReview, acts, research, sweep>>
  PROVE  WInv' /\ W!SweepIsJustified /\ W!DecisionsStand
<1> DEFINE meets == \E a \in acts : a.at = "list"
<1>1. told' = [told EXCEPT !.overlap = @ \/ meets] /\ wiki' = ps
  BY DEF W!Other, W!Change
<1>2. meets \in BOOLEAN
  OBVIOUS
<1> HIDE DEF meets
<1>3. /\ told' \in [shown : SUBSET W!Items, twice : SUBSET W!Items, made : SUBSET W!Items, overlap : BOOLEAN, mishap : BOOLEAN]
      /\ told'.twice = told.twice /\ told'.made = told.made /\ told'.mishap = told.mishap
      /\ told'.overlap <=> told.overlap \/ meets
  BY <1>1, <1>2 DEF WInv, DeskIsTyped
<1>4. IsIndex(index') /\ index'.heading = index.heading /\ index'.listed = entries
  BY DEF WInv, DeskIsTyped, IsIndex
<1>5. DeskIsTyped'
  BY <1>3, <1>4, SameActsTyped DEF WInv, DeskIsTyped
<1>6. OneDecision'
  BY <1>3, SameActsKeepOneDecision DEF WInv
<1>7. SweepSaw'
  BY <1>3, ChangeKeepsSweepSaw DEF WInv
<1>8. IndexKeepsUp'
  <2>1. \A i : W!Target(i)' = W!Target(i)
    BY DEF W!Target, W!Dir
  <2>2. ASSUME ~told'.overlap, ~told'.mishap, NEW a \in acts PROVE a.at # "list"
    BY <1>3, <2>2 DEF meets
  <2>3. NoneIsOdd(index') <=> NoneIsOdd(index)
    BY <1>4 DEF NoneIsOdd
  <2>4. NoneIsOdd(index)' <=> NoneIsOdd(index')
    BY DEF NoneIsOdd
  <2> QED
    BY <1>1, <1>3, <1>4, <2>1, <2>2, <2>3, <2>4 DEF WInv, IndexKeepsUp, Creates
<1> QED
  BY <1>5, <1>6, <1>7, <1>8, SameItemsStand DEF WInv

LEMMA AppearsKeepsWInv ==
  ASSUME WInv, NEW p, W!Appears(p)
  PROVE  WInv' /\ W!SweepIsJustified /\ W!DecisionsStand
<1> DEFINE page == [title |-> Foreign[p], by |-> "wiki"]
           ps == W!Put(wiki, p, page)
           entries == index.listed \cup {p}
<1>1. /\ W!Other /\ W!Change(ps) /\ index' = [index EXCEPT !.listed = entries] /\ UNCHANGED <<toReview, acts, research, sweep>>
  BY DEF W!Appears
<1>2. DOMAIN ps = DOMAIN wiki \cup {p}
  BY DEF W!Put
<1>3. \A q \in DOMAIN ps : q \in entries \/ (q \in DOMAIN wiki /\ q \notin index.listed)
  BY <1>2
<1> HIDE DEF ps, entries
<1> QED
  BY <1>1, <1>3, OtherKeepsWInv

LEMMA VanishesKeepsWInv ==
  ASSUME WInv, NEW p, W!Vanishes(p)
  PROVE  WInv' /\ W!SweepIsJustified /\ W!DecisionsStand
<1> DEFINE ps == W!Without(wiki, {p})
           entries == index.listed \ {p}
<1>1. /\ W!Other /\ W!Change(ps) /\ index' = [index EXCEPT !.listed = entries] /\ UNCHANGED <<toReview, acts, research, sweep>>
  BY DEF W!Vanishes
<1>2. DOMAIN ps = DOMAIN wiki \ {p}
  BY DEF W!Without
<1>3. \A q \in DOMAIN ps : q \in entries \/ (q \in DOMAIN wiki /\ q \notin index.listed)
  BY <1>2
<1> HIDE DEF ps, entries
<1> QED
  BY <1>1, <1>3, OtherKeepsWInv

LEMMA NextWInv ==
  ASSUME WInv, [W!Next]_(W!vars)
  PROVE  WInv' /\ W!SweepIsJustified /\ W!DecisionsStand
<1>1. CASE UNCHANGED W!vars
  <2>1. UNCHANGED <<toReview, wiki, index, acts, research, sweep, since, told>>
    BY <1>1 DEF W!vars
  <2>2. SweepSaw'
    BY <2>1, SameSweepSaw DEF WInv
  <2> QED
    BY <2>1, <2>2, SweepStepKeepsWInv DEF WInv, DeskIsTyped
<1>2. CASE \E i \in W!Items : W!Dismiss(i) \/ \E label \in W!Buttons(i) : W!Click(i, label)
  BY <1>2, DismissKeepsWInv, ClickKeepsWInv
<1>3. CASE \E a \in acts : W!Open(a) \/ W!Delete(a) \/ \E claims \in BOOLEAN : W!Preview(a, claims)
  BY <1>3, OpenKeepsWInv, DeleteKeepsWInv, PreviewKeepsWInv
<1>4. CASE \E a \in acts, fails \in BOOLEAN : W!WritePage(a, fails) \/ W!ReadIndex(a, fails) \/ W!WriteIndex(a, fails) \/ W!Finish(a, fails)
  BY <1>4, WritePageKeepsWInv, ReadIndexKeepsWInv, WriteIndexKeepsWInv, FinishKeepsWInv
<1>5. CASE \E p \in DOMAIN Foreign : W!Appears(p)
  BY <1>5, AppearsKeepsWInv
<1>6. CASE \E p \in DOMAIN Wiki : W!Vanishes(p)
  BY <1>6, VanishesKeepsWInv
<1>7. CASE sweep # W!Nothing /\ \E named \in SUBSET sweep.left : W!Judge(named)
  BY <1>7, JudgeKeepsWInv
<1>8. CASE \E fails \in BOOLEAN : W!ListPages(fails)
  BY <1>8, ListPagesKeepsWInv
<1> QED
  BY <1>1, <1>2, <1>3, <1>4, <1>5, <1>6, <1>7, <1>8, ClearKeepsWInv, StartSweepKeepsWInv, ReadTitleKeepsWInv, ApplyRulesKeepsWInv DEF W!Next

\* An item that was not pressed twice leads to one page or one research task and
\* stands but for a sweep that had begun before; the page is listed, if nothing
\* met or failed; and what a sweep resolves was so at some time since it began
\* (review-view.tsx, sweep-reviews.ts): for any items, pages and labels.
THEOREM ReviewsStaySound ==
  HeadingsCover => (W!Spec => /\ [](W!CreatedPagesAreListed /\ W!DecidedOnce)
                              /\ [][W!SweepIsJustified /\ W!DecisionsStand]_(W!vars))
<1> SUFFICES ASSUME HeadingsCover
             PROVE  W!Spec => /\ [](W!CreatedPagesAreListed /\ W!DecidedOnce)
                              /\ [][W!SweepIsJustified /\ W!DecisionsStand]_(W!vars)
  OBVIOUS
<1>1. W!Init => WInv
  BY InitWInv
<1>2. WInv /\ [W!Next]_(W!vars) => WInv' /\ W!SweepIsJustified /\ W!DecisionsStand
  BY NextWInv
<1>3. WInv => W!CreatedPagesAreListed /\ W!DecidedOnce
  BY WInvSuffices
<1> QED
  BY <1>1, <1>2, <1>3, PTL DEF W!Spec
=============================================================================

------------------------ MODULE IngestPipelineProofs ------------------------
(***************************************************************************)
(* For any number of calls, sources, pages, aborts, failures and crashes:  *)
(* the ingest pipeline loses no entry of the index or the log, under the   *)
(* two assumptions ChatWaits and ReliableReads; and, under none, a call    *)
(* that finds its source in the cache answers with all of another's work.  *)
(*                                                                         *)
(* One call works at a time, so between the moment a call reads the index  *)
(* (or the log) and the moment it replaces it, nobody else writes it.      *)
(* The lock gives this for two ingests; for a chat only ChatWaits does.    *)
(***************************************************************************)
EXTENDS IngestPipeline, TLAPS

LEMMA IdleJobIsJob == IdleJob \in Job
<1>1. (CHOOSE s \in Sources : TRUE) \in Sources
  BY FileAssumption
<1>2. (CHOOSE v \in Versions : TRUE) \in Versions
  BY FileAssumption
<1> QED
  BY <1>1, <1>2 DEF IdleJob, Job, Steps, Files

\* What a call leaves behind is a job.
LEMMA RemainsIsJob ==
  ASSUME NEW j \in Job, NEW end \in {"done", "failed", "dead"}
  PROVE  Remains(j, end) \in Job /\ Remains(j, end).pc = end
  BY IdleJobIsJob, ZenonT(60) DEF Remains, IdleJob, Job, Steps

LEMMA InitIInv == Init => IInv
<1> SUFFICES ASSUME Init PROVE IInv
  OBVIOUS
<1>1. \A c \in Calls : job[c] = IdleJob /\ job[c].pc = "idle"
  BY DEF Init, IdleJob
<1>2. TypeOK
  BY IdleJobIsJob, NumberAssumption DEF TypeOK, WikiTypeOK, Init, Lock!Init
<1> QED
  BY <1>1, <1>2
  DEF IInv, Init, Lock!Init, StageOfStep, ChatsNeverQueue, OneAtATime, IndexIsKnown,
      HeldIsKnown, BlockOnce, At, Working, IndexToCome, Calls

\* A call that is not at work has nothing to write.
LEMMA OnlyWorkersWrite ==
  ASSUME NEW c \in Calls, ~Working(c)
  PROVE  ~IndexToCome(job[c]) /\ ~At(c, "put")
  BY DEF Working, IndexToCome, At

\* Job j knows what it is going to replace of the index ix, the log lg and
\* the pages pg.
Knows(j, ix, lg, pg) ==
  /\ IndexToCome(j) => ix \subseteq j.listing
  /\ j.pc = "put" /\ j.block = "log" => lg \subseteq j.held
  /\ j.pc = "put" /\ j.block \in Pages => pg[j.block] \subseteq j.held
  /\ j.pc = "put" => j.block \notin j.todo

AtWork(j) == j.pc \in Steps \ {"idle", "queued", "done", "failed", "dead"}

LEMMA WorkerKnows ==
  ASSUME IInv, NEW c \in Calls
  PROVE  job[c] \in Job /\ Knows(job[c], index, log, pages)
  BY FileAssumption
  DEF IInv, TypeOK, Knows, IndexIsKnown, HeldIsKnown, BlockOnce, At, Existing, Pages

LEMMA UpdateIsTyped ==
  ASSUME TypeOK, NEW c \in Calls, NEW j \in Job, Update(c, j)
  PROVE  /\ job' \in [Calls -> Job]
         /\ job'[c] = j
         /\ \A d \in Calls \ {c} : job'[d] = job[d]
  BY DEF TypeOK, Update

LEMMA MishapIsTyped ==
  ASSUME TypeOK, Mishap \/ UNCHANGED mishaps
  PROVE  mishaps' \in 0..MaxMishaps
  BY NumberAssumption DEF TypeOK, Mishap

\* A step of the call at work keeps the invariant when the call still knows
\* what it is going to replace: no other call has anything to come.
LEMMA WorkerKeepsIInv ==
  ASSUME IInv, NEW c \in Calls, NEW j \in Job,
         AtWork(job[c]), AtWork(j), Update(c, j), Knows(j, index', log', pages'),
         UNCHANGED lock, WikiTypeOK', Mishap \/ UNCHANGED mishaps
  PROVE  IInv'
<1>1. /\ job' \in [Calls -> Job]
      /\ job'[c] = j
      /\ \A d \in Calls \ {c} : job'[d] = job[d]
  BY UpdateIsTyped DEF IInv
<1>2. TypeOK'
  BY <1>1, MishapIsTyped DEF IInv, TypeOK, lock
<1>3. Working(c) /\ Working(c)'
  BY <1>1 DEF Working, AtWork
<1>4. \A d \in Calls \ {c} : ~Working(d)' /\ ~IndexToCome(job[d])' /\ ~At(d, "put")'
  BY <1>1, <1>3 DEF IInv, OneAtATime, Working, IndexToCome, At
<1>5. StageOfStep' /\ ChatsNeverQueue'
  BY <1>1, <1>3 DEF IInv, StageOfStep, ChatsNeverQueue, Working, At, Calls, lock
<1>6. OneAtATime'
  BY <1>4 DEF OneAtATime
<1>7. IndexIsKnown' /\ HeldIsKnown' /\ BlockOnce'
  BY <1>1, <1>4 DEF IndexIsKnown, HeldIsKnown, BlockOnce, Knows, At, Existing
<1> QED
  BY <1>2, <1>5, <1>6, <1>7 DEF IInv

\* The same for a step after which some calls are over and nobody else has
\* moved.
LEMMA EndKeepsIInv ==
  ASSUME IInv, TypeOK', index' = index, log' = log, pages' = pages,
         NEW E \in SUBSET Calls,
         \A d \in E : job'[d].pc \in {"done", "failed", "dead"},
         \A d \in Calls \ E : job'[d] = job[d],
         \A d \in E \cap Ingests : stage'[d] = "released",
         \A d \in Ingests \ E : stage'[d] = stage[d]
  PROVE  IInv'
<1> USE DEF IInv
<1>1. \A d \in E : ~Working(d)' /\ ~IndexToCome(job[d])' /\ ~At(d, "put")' /\ ~At(d, "queued")' /\ ~At(d, "idle")'
  BY DEF Working, IndexToCome, At
<1>2. StageOfStep'
  BY <1>1 DEF StageOfStep, Working, At, Calls
<1>3. ChatsNeverQueue'
  BY <1>1 DEF ChatsNeverQueue, At, Calls
<1>4. OneAtATime'
  BY <1>1 DEF OneAtATime, Working
<1>5. IndexIsKnown' /\ HeldIsKnown' /\ BlockOnce'
  BY <1>1 DEF IndexIsKnown, HeldIsKnown, BlockOnce, IndexToCome, At, Existing
<1> QED
  BY <1>2, <1>3, <1>4, <1>5

-----------------------------------------------------------------------------
(***************************************************************************)
(* The steps of the call at work, in the order of the pipeline.            *)
(***************************************************************************)
\* What the read of the index finds is the index.
LEMMA ReadInputsKeepsIInv ==
  ASSUME ReliableReads, IInv, NEW c \in Calls, ReadInputs(c)
  PROVE  IInv'
<1>1. PICK step \in {"check", "generate"}, v \in Versions :
        Update(c, [job[c] EXCEPT !.pc = step, !.ver = v, !.listing = index])
  BY DEF IInv, TypeOK, ReadInputs, Job
<1>2. job[c] \in Job /\ step \in Steps /\ index \in SUBSET Pages
  BY DEF IInv, TypeOK, WikiTypeOK, Steps
<1> DEFINE j == [job[c] EXCEPT !.pc = step, !.ver = v, !.listing = index]
<1>3. j \in Job
  BY <1>2 DEF Job
<1>4. AtWork(j) /\ Knows(j, index, log, pages)
  BY <1>2 DEF Job, AtWork, Knows
<1> HIDE DEF j
<1>5. WikiTypeOK' /\ index' = index /\ log' = log /\ pages' = pages
  BY DEF IInv, TypeOK, WikiTypeOK, ReadInputs, wiki
<1> QED
  BY <1>1, <1>3, <1>4, <1>5, WorkerKeepsIInv DEF j, ReadInputs, At, AtWork, Steps

\* Up to the first block a call holds on to the index it has read.
LEMMA CheckCacheKeepsIInv ==
  ASSUME IInv, NEW c \in Calls, CheckCache(c)
  PROVE  IInv'
<1>1. WikiTypeOK' /\ index' = index /\ log' = log /\ pages' = pages
  BY DEF IInv, TypeOK, WikiTypeOK, CheckCache, wiki
<1>2. AtWork(job[c]) /\ job[c].pc = "check"
  BY DEF CheckCache, At, AtWork, Steps
<1>3. CASE IsHit(job[c].src, job[c].ver) /\ Update(c, [job[c] EXCEPT !.pc = "images", !.hit = TRUE,
                              !.listing = {}, !.written = cache[job[c].src].files])
  <2>1. job[c] \in Job /\ cache[job[c].src].files \in SUBSET Files
    BY <1>3 DEF IInv, TypeOK, WikiTypeOK, IsHit, Job, Entry
  <2> DEFINE files == cache[job[c].src].files
             j == [job[c] EXCEPT !.pc = "images", !.hit = TRUE, !.listing = {}, !.written = files]
  <2> HIDE DEF files
  <2>2. j \in Job /\ j.pc = "images"
    BY <2>1 DEF files, Job, Steps
  <2> HIDE DEF j
  <2>3. AtWork(j) /\ Knows(j, index, log, pages)
    BY <2>2 DEF AtWork, Knows, IndexToCome, Steps
  <2> QED
    BY <1>1, <1>2, <1>3, <2>2, <2>3, WorkerKeepsIInv DEF j, files, CheckCache
<1>4. CASE Goto(c, "analyse")
  <2> DEFINE j == [job[c] EXCEPT !.pc = "analyse"]
  <2>1. j \in Job /\ AtWork(j) /\ Knows(j, index, log, pages)
    BY <1>2, WorkerKnows DEF Job, Steps, AtWork, Knows, IndexToCome
  <2> QED
    BY <1>1, <1>2, <1>4, <2>1, WorkerKeepsIInv DEF Goto, CheckCache
<1> QED
  BY <1>3, <1>4 DEF CheckCache

LEMMA AnalyseKeepsIInv ==
  ASSUME IInv, NEW c \in Calls, Analyse(c)
  PROVE  IInv'
<1>1. WikiTypeOK' /\ index' = index /\ log' = log /\ pages' = pages
  BY DEF IInv, TypeOK, WikiTypeOK, Analyse, wiki
<1>2. AtWork(job[c]) /\ job[c].pc = "analyse"
  BY DEF Analyse, At, AtWork, Steps
<1> DEFINE j == [job[c] EXCEPT !.pc = "generate"]
<1>3. j \in Job /\ AtWork(j) /\ Knows(j, index, log, pages)
  BY <1>2, WorkerKnows DEF Job, Steps, AtWork, Knows, IndexToCome
<1> QED
  BY <1>1, <1>2, <1>3, WorkerKeepsIInv DEF Goto, Analyse

\* The answer's index lists what the prompt's does.
LEMMA GenerateKeepsIInv ==
  ASSUME IInv, NEW c \in Calls, Generate(c)
  PROVE  IInv'
<1>1. WikiTypeOK' /\ index' = index /\ log' = log /\ pages' = pages
  BY DEF IInv, TypeOK, WikiTypeOK, Generate, wiki
<1>2. AtWork(job[c]) /\ job[c].pc = "generate"
  BY DEF Generate, At, AtWork, Steps
<1>3. PICK gen \in Answers(job[c].src) :
        /\ Mishap \/ UNCHANGED mishaps
        /\ Update(c, [job[c] EXCEPT !.pc = "blocks", !.todo = gen,
                         !.listing = IF "index" \in gen THEN Listing(@, gen) ELSE {}])
  BY DEF Generate
<1>4. job[c] \in Job /\ index \subseteq job[c].listing
  BY <1>2, WorkerKnows DEF Knows, IndexToCome
<1>5. gen \in SUBSET Files
  BY <1>4 DEF Job, Answers, Complete, Summary, Files, Pages
<1> DEFINE l == IF "index" \in gen THEN Listing(job[c].listing, gen) ELSE {}
           j == [job[c] EXCEPT !.pc = "blocks", !.todo = gen, !.listing = l]
<1>6. l \in SUBSET Pages /\ ("index" \in gen => index \subseteq l)
  BY <1>4 DEF Listing, Job
<1>7. Update(c, j)
  BY <1>3, <1>4 DEF Job
<1> HIDE DEF l
<1>8. j \in Job /\ j.pc = "blocks" /\ j.todo = gen /\ j.listing = l
  BY <1>4, <1>5, <1>6 DEF Job, Steps
<1> HIDE DEF j
<1>9. AtWork(j) /\ Knows(j, index, log, pages)
  BY <1>6, <1>8 DEF AtWork, Knows, IndexToCome, Steps
<1> QED
  BY <1>1, <1>2, <1>3, <1>7, <1>8, <1>9, WorkerKeepsIInv DEF Generate

LEMMA DropBlockKeepsIInv ==
  ASSUME IInv, NEW c \in Calls, DropBlock(c)
  PROVE  IInv'
<1>1. WikiTypeOK' /\ index' = index /\ log' = log /\ pages' = pages
  BY DEF IInv, TypeOK, WikiTypeOK, DropBlock, wiki
<1>2. AtWork(job[c]) /\ job[c].pc = "blocks"
  BY DEF DropBlock, At, AtWork, Steps
<1>3. PICK b \in Shared \cup {"index"} :
        Update(c, [job[c] EXCEPT !.todo = @ \ {b}, !.listing = IF b = "index" THEN {} ELSE @])
  BY DEF DropBlock
<1>4. job[c] \in Job /\ Knows(job[c], index, log, pages)
  BY WorkerKnows
<1> DEFINE t == job[c].todo \ {b}
           l == IF b = "index" THEN {} ELSE job[c].listing
           j == [job[c] EXCEPT !.todo = t, !.listing = l]
<1>5. t \in SUBSET Files /\ l \in SUBSET Pages /\ ("index" \in t => index \subseteq l)
  BY <1>2, <1>4 DEF Knows, IndexToCome, Job
<1>6. Update(c, j)
  BY <1>3, <1>4 DEF Job
<1> HIDE DEF t, l
<1>7. j \in Job /\ j.pc = "blocks" /\ j.todo = t /\ j.listing = l
  BY <1>2, <1>4, <1>5 DEF Job
<1> HIDE DEF j
<1>8. AtWork(j) /\ Knows(j, index, log, pages)
  BY <1>5, <1>7 DEF AtWork, Knows, IndexToCome, Steps
<1> QED
  BY <1>1, <1>2, <1>6, <1>7, <1>8, WorkerKeepsIInv DEF DropBlock

\* What the read of the log finds is the log.
LEMMA TakeBlockKeepsIInv ==
  ASSUME ReliableReads, IInv, NEW c \in Calls, TakeBlock(c)
  PROVE  IInv'
<1>1. WikiTypeOK' /\ index' = index /\ log' = log /\ pages' = pages
  BY DEF IInv, TypeOK, WikiTypeOK, TakeBlock, wiki
<1>2. AtWork(job[c]) /\ job[c].pc = "blocks"
  BY DEF TakeBlock, At, AtWork, Steps
<1>3. PICK b \in NextBlocks(job[c].todo) :
        Update(c, [job[c] EXCEPT !.pc = "put", !.todo = @ \ {b},
                                 !.block = b, !.held = Existing(b)])
  BY DEF TakeBlock
<1>4. job[c] \in Job /\ Knows(job[c], index, log, pages)
  BY WorkerKnows
<1> DEFINE t == job[c].todo \ {b}
           h == Existing(b)
           j == [job[c] EXCEPT !.pc = "put", !.todo = t, !.block = b, !.held = h]
<1>5. /\ b \in Files /\ t \in SUBSET Files /\ h \in SUBSET Calls
      /\ b = "log" => log \subseteq h
      /\ b \in Pages => pages[b] \subseteq h
      /\ b = "index" \/ "index" \in t => index \subseteq job[c].listing
      /\ b \notin t
  BY <1>2, <1>4, FileAssumption
  DEF NextBlocks, IInv, TypeOK, WikiTypeOK, Job, Existing, Knows, IndexToCome, Pages
<1>6. Update(c, j)
  BY <1>3, <1>4 DEF Job
<1> HIDE DEF t, h
<1>7. /\ j \in Job
      /\ j.pc = "put" /\ j.todo = t /\ j.block = b /\ j.held = h /\ j.listing = job[c].listing
  BY <1>4, <1>5 DEF Job, Steps
<1> HIDE DEF j
<1>8. AtWork(j) /\ Knows(j, index, log, pages)
  BY <1>5, <1>7 DEF AtWork, Knows, IndexToCome, Steps
<1> QED
  BY <1>1, <1>2, <1>6, <1>7, <1>8, WorkerKeepsIInv DEF TakeBlock

\* A call that is through with a block has no listing to write any more, or
\* still has the index among its blocks.
LEMMA BlockOverKnows ==
  ASSUME IInv, NEW c \in Calls, At(c, "put")
  PROVE  LET j == BlockOver(job[c]) IN
         /\ j \in Job
         /\ j.pc = "blocks"
         /\ j.todo = job[c].todo
         /\ "index" \in j.todo => job[c].block # "index" /\ index \subseteq j.listing
<1>1. job[c] \in Job /\ Knows(job[c], index, log, pages) /\ job[c].pc = "put"
  BY WorkerKnows DEF At
<1> DEFINE l == IF job[c].block = "index" THEN {} ELSE job[c].listing
           j == [job[c] EXCEPT !.pc = "blocks", !.block = "log", !.held = {}, !.listing = l]
<1>2. l \in SUBSET Pages /\ ("index" \in job[c].todo => job[c].block # "index" /\ index \subseteq l)
  BY <1>1 DEF Knows, IndexToCome, Job
<1>3. BlockOver(job[c]) = j
  BY <1>1 DEF BlockOver, Job
<1> HIDE DEF l
<1>4. j \in Job /\ j.pc = "blocks" /\ j.todo = job[c].todo /\ j.listing = l
  BY <1>1, <1>2 DEF Job, Steps, Files
<1> QED
  BY <1>2, <1>3, <1>4

\* What a block becomes, of the four outcomes it may have.
BlockEnd(c, j) ==
  \E w, f \in SUBSET Files, r \in SUBSET Pages :
    j = [BlockOver(job[c]) EXCEPT !.written = w, !.failed = f, !.review = r]

LEMMA BlockEndKnows ==
  ASSUME IInv, NEW c \in Calls, At(c, "put"), NEW j, BlockEnd(c, j)
  PROVE  /\ j \in Job /\ AtWork(j) /\ AtWork(job[c])
         /\ "index" \in j.todo => job[c].block # "index" /\ index \subseteq j.listing
         /\ j.pc = "blocks"
<1> DEFINE k == BlockOver(job[c])
<1>1. /\ k \in Job /\ k.pc = "blocks"
      /\ "index" \in k.todo => job[c].block # "index" /\ index \subseteq k.listing
  BY BlockOverKnows
<1>2. PICK w \in SUBSET Files, f \in SUBSET Files, r \in SUBSET Pages :
        j = [k EXCEPT !.written = w, !.failed = f, !.review = r]
  BY DEF BlockEnd
<1> HIDE DEF k
<1> QED
  BY <1>1, <1>2 DEF Job, AtWork, Steps, At

LEMMA WrittenIsBlockEnd ==
  ASSUME IInv, NEW c \in Calls, At(c, "put")
  PROVE  /\ BlockEnd(c, [BlockOver(job[c]) EXCEPT !.written = @ \cup {job[c].block}])
         /\ BlockEnd(c, [BlockOver(job[c]) EXCEPT !.failed = @ \cup {job[c].block}])
         /\ job[c].block \in Pages =>
              BlockEnd(c, [BlockOver(job[c]) EXCEPT !.review = @ \cup {job[c].block}])
<1> DEFINE k == BlockOver(job[c])
<1>1. k \in Job /\ job[c] \in Job
  BY BlockOverKnows, WorkerKnows
<1>2. job[c].block \in Files
  BY <1>1 DEF Job
<1> HIDE DEF k
<1>3. /\ [k EXCEPT !.written = @ \cup {job[c].block}] =
           [k EXCEPT !.written = k.written \cup {job[c].block}, !.failed = k.failed, !.review = k.review]
      /\ [k EXCEPT !.failed = @ \cup {job[c].block}] =
           [k EXCEPT !.written = k.written, !.failed = k.failed \cup {job[c].block}, !.review = k.review]
      /\ [k EXCEPT !.review = @ \cup {job[c].block}] =
           [k EXCEPT !.written = k.written, !.failed = k.failed, !.review = k.review \cup {job[c].block}]
  BY <1>1 DEF Job
<1>4. k.written \in SUBSET Files /\ k.failed \in SUBSET Files /\ k.review \in SUBSET Pages
  BY <1>1 DEF Job
<1>5. /\ k.written \cup {job[c].block} \in SUBSET Files
      /\ k.failed \cup {job[c].block} \in SUBSET Files
      /\ job[c].block \in Pages => k.review \cup {job[c].block} \in SUBSET Pages
  BY <1>2, <1>4
<1>6. \A w, f \in SUBSET Files, r \in SUBSET Pages :
        BlockEnd(c, [k EXCEPT !.written = w, !.failed = f, !.review = r])
  BY DEF BlockEnd, k
<1>7. BlockEnd(c, [k EXCEPT !.written = @ \cup {job[c].block}])
  <2>1. BlockEnd(c, [k EXCEPT !.written = k.written \cup {job[c].block},
                              !.failed = k.failed, !.review = k.review])
    BY <1>4, <1>5, <1>6
  <2> QED
    BY <1>3, <2>1
<1>8. BlockEnd(c, [k EXCEPT !.failed = @ \cup {job[c].block}])
  <2>1. BlockEnd(c, [k EXCEPT !.written = k.written,
                              !.failed = k.failed \cup {job[c].block}, !.review = k.review])
    BY <1>4, <1>5, <1>6
  <2> QED
    BY <1>3, <2>1
<1>9. job[c].block \in Pages => BlockEnd(c, [k EXCEPT !.review = @ \cup {job[c].block}])
  BY <1>3, <1>4, <1>5, <1>6
<1> QED
  BY <1>7, <1>8, <1>9 DEF k

\* The index is replaced by the listing, and no block of the call will need it
\* again; the log by what was read of it with an entry more; a page, or nothing.
LEMMA PutKeepsIInv ==
  ASSUME IInv, NEW c \in Calls, Put(c)
  PROVE  IInv'
<1>1. At(c, "put") /\ UNCHANGED lock /\ (Mishap \/ UNCHANGED mishaps)
  BY DEF Put, PutIndex, PutLog, PutPage, PutPageUnmerged, KeepForReview, PutFails
<1>2. PICK j : BlockEnd(c, j) /\ Update(c, j)
  BY <1>1, WrittenIsBlockEnd
  DEF Put, PutIndex, PutLog, PutPage, PutPageUnmerged, KeepForReview, PutFails, Written
<1>3. index' = index \/ job[c].block = "index"
  BY DEF Put, PutIndex, PutLog, PutPage, PutPageUnmerged, KeepForReview, PutFails, wiki
<1>4. /\ j \in Job /\ AtWork(j) /\ AtWork(job[c])
      /\ "index" \in j.todo => job[c].block # "index" /\ index \subseteq j.listing
      /\ j.pc = "blocks"
  BY <1>1, <1>2, BlockEndKnows
<1>5. Knows(j, index', log', pages')
  BY <1>3, <1>4 DEF Knows, IndexToCome
<1>6. WikiTypeOK'
  <2>1. job[c].held \in SUBSET Calls /\ job[c].listing \in SUBSET Pages
    BY WorkerKnows DEF Job
  <2>2. CASE PutIndex(c) \/ PutLog(c)
    BY <2>1, <2>2 DEF IInv, TypeOK, WikiTypeOK, PutIndex, PutLog
  <2>3. CASE PutPage(c)
    BY <2>1, <2>3 DEF IInv, TypeOK, WikiTypeOK, PutPage
  <2>4. CASE PutPageUnmerged(c)
    BY <2>1, <2>4 DEF IInv, TypeOK, WikiTypeOK, PutPageUnmerged
  <2>5. CASE KeepForReview(c) \/ PutFails(c)
    BY <2>5 DEF IInv, TypeOK, WikiTypeOK, KeepForReview, PutFails, wiki
  <2> QED
    BY <2>2, <2>3, <2>4, <2>5 DEF Put
<1> QED
  BY <1>1, <1>2, <1>4, <1>5, <1>6, WorkerKeepsIInv

-----------------------------------------------------------------------------
(***************************************************************************)
(* After the blocks nothing is left to come.                               *)
(***************************************************************************)
Late == {"summary", "images", "inject", "save", "end"}

\* The job of a call past its blocks, or with none left.
LateChange(c, j) ==
  \E pc \in Late, w \in SUBSET Files, h \in SUBSET Calls :
    j = [job[c] EXCEPT !.pc = pc, !.written = w, !.held = h]

LEMMA LateKeepsIInv ==
  ASSUME IInv, NEW c \in Calls, AtWork(job[c]),
         NEW j, LateChange(c, j), Update(c, j),
         UNCHANGED <<lock, index, log>>, WikiTypeOK', Mishap \/ UNCHANGED mishaps
  PROVE  IInv'
<1>1. job[c] \in Job
  BY WorkerKnows
<1>2. j \in Job /\ j.pc \in Late
  BY <1>1, ZenonT(60) DEF LateChange, Late, Job, Steps
<1>3. AtWork(j) /\ Knows(j, index', log', pages')
  BY <1>2 DEF Late, AtWork, Steps, Knows, IndexToCome
<1> QED
  BY <1>2, <1>3, WorkerKeepsIInv DEF lock

LEMMA GotoIsLate ==
  ASSUME IInv, NEW c \in Calls, NEW step \in Late
  PROVE  LateChange(c, [job[c] EXCEPT !.pc = step])
<1>1. job[c] \in Job
  BY WorkerKnows
<1>2. [job[c] EXCEPT !.pc = step] = [job[c] EXCEPT !.pc = step, !.written = job[c].written, !.held = job[c].held]
  BY <1>1 DEF Job
<1>3. job[c].written \in SUBSET Files /\ job[c].held \in SUBSET Calls
  BY <1>1 DEF Job
<1> QED
  BY <1>2, <1>3 DEF LateChange

\* The steps that write no page.
LEMMA LateGotoKeepsIInv ==
  ASSUME IInv, NEW c \in Calls,
         \/ BlocksDone(c) \/ SkipSummary(c) \/ SummaryFails(c) \/ SkipImages(c)
         \/ SkipCache(c) \/ SaveCacheFails(c)
  PROVE  IInv'
<1>1. /\ job[c].pc \in Late \cup {"blocks"}
      /\ UNCHANGED <<lock, wiki>> /\ (Mishap \/ UNCHANGED mishaps)
  BY DEF BlocksDone, SkipSummary, SummaryFails, SkipImages, SkipCache, SaveCacheFails, At, Late
<1>2. PICK step \in Late : Goto(c, step)
  BY DEF BlocksDone, SkipSummary, SummaryFails, SkipImages, SkipCache, SaveCacheFails, Late, AfterImages
<1>3. AtWork(job[c])
  BY <1>1 DEF AtWork, Late, Steps
<1>4. WikiTypeOK' /\ UNCHANGED <<lock, index, log>>
  BY <1>1 DEF IInv, TypeOK, WikiTypeOK, wiki, lock
<1> QED
  BY <1>1, <1>2, <1>3, <1>4, GotoIsLate, LateKeepsIInv DEF Goto

LEMMA SaveCacheKeepsIInv ==
  ASSUME IInv, NEW c \in Calls, SaveCache(c)
  PROVE  IInv'
<1>1. AtWork(job[c]) /\ UNCHANGED <<lock, index, log>> /\ UNCHANGED mishaps
  BY DEF SaveCache, At, AtWork, Steps, lock
<1>2. WikiTypeOK'
  <2>1. job[c] \in Job
    BY WorkerKnows
  <2>2. [ver |-> job[c].ver, files |-> job[c].written] \in Entry
    BY <2>1 DEF Job, Entry
  <2> QED
    BY <2>2 DEF IInv, TypeOK, WikiTypeOK, SaveCache
<1>3. "end" \in Late
  BY DEF Late
<1> QED
  BY <1>1, <1>2, <1>3, GotoIsLate, LateKeepsIInv DEF SaveCache, Goto

\* The stub of the summary.
LEMMA WriteSummaryKeepsIInv ==
  ASSUME IInv, NEW c \in Calls, WriteSummary(c)
  PROVE  IInv'
<1> DEFINE p == Summary(job[c].src)
           w == job[c].written \cup {p}
<1>1. job[c] \in Job /\ AtWork(job[c]) /\ UNCHANGED <<lock, index, log>> /\ UNCHANGED mishaps
  BY WorkerKnows DEF WriteSummary, At, AtWork, Steps, lock
<1>2. p \in Pages /\ w \in SUBSET Files /\ job[c].held \in SUBSET Calls
  BY <1>1 DEF Summary, Job, Files, Pages
<1>3. WikiTypeOK'
  BY <1>2 DEF IInv, TypeOK, WikiTypeOK, WriteSummary
<1>4. Update(c, [job[c] EXCEPT !.pc = "images", !.written = w])
  BY <1>1 DEF WriteSummary, Job
<1> HIDE DEF p, w
<1>5. [job[c] EXCEPT !.pc = "images", !.written = w]
        = [job[c] EXCEPT !.pc = "images", !.written = w, !.held = job[c].held]
  BY <1>1 DEF Job
<1>6. LateChange(c, [job[c] EXCEPT !.pc = "images", !.written = w])
  BY <1>2, <1>5 DEF LateChange, Late
<1> QED
  BY <1>1, <1>3, <1>4, <1>6, LateKeepsIInv

\* Reading the summary for the images, and writing it back.
LEMMA ImagesKeepIInv ==
  ASSUME IInv, NEW c \in Calls,
         ReadForImages(c) \/ InjectImages(c) \/ InjectFails(c)
  PROVE  IInv'
<1> DEFINE p == Summary(job[c].src)
<1>1. /\ job[c] \in Job /\ AtWork(job[c])
      /\ UNCHANGED <<lock, index, log>> /\ (Mishap \/ UNCHANGED mishaps)
  BY WorkerKnows DEF ReadForImages, InjectImages, InjectFails, At, AtWork, Steps, lock, wiki
<1>2. p \in Pages /\ pages[p] \in SUBSET Calls /\ job[c].held \in SUBSET Calls
      /\ job[c].written \in SUBSET Files /\ AfterImages(c) \in Late
  BY <1>1 DEF Summary, Job, Files, Pages, IInv, TypeOK, WikiTypeOK, AfterImages, Late
<1>3. PICK step \in Late, h \in SUBSET Calls :
        Update(c, [job[c] EXCEPT !.pc = step, !.held = h])
  BY <1>2 DEF ReadForImages, InjectImages, InjectFails, Late
<1>4. [job[c] EXCEPT !.pc = step, !.held = h]
        = [job[c] EXCEPT !.pc = step, !.written = job[c].written, !.held = h]
  BY <1>1 DEF Job
<1>5. LateChange(c, [job[c] EXCEPT !.pc = step, !.held = h])
  BY <1>2, <1>4 DEF LateChange
<1>6. WikiTypeOK'
  BY <1>2 DEF IInv, TypeOK, WikiTypeOK, ReadForImages, InjectImages, InjectFails, wiki
<1> QED
  BY <1>1, <1>3, <1>5, <1>6, LateKeepsIInv

-----------------------------------------------------------------------------
(***************************************************************************)
(* The ends of a call.                                                     *)
(***************************************************************************)
\* A call that throws or returns lets go of the lock.
LEMMA LeaveKeepsIInv ==
  ASSUME IInv, NEW c \in Calls, Throw(c) \/ End(c)
  PROVE  IInv'
<1>1. PICK end \in {"done", "failed"} : Settle(c, end)
  BY DEF Throw, End
<1> DEFINE j == IF c \in Ingests THEN Remains(job[c], end) ELSE [IdleJob EXCEPT !.pc = end]
<1>2. j \in Job /\ j.pc = end
  <2>1. CASE c \in Ingests
    BY <2>1, RemainsIsJob, WorkerKnows
  <2>2. CASE c \notin Ingests
    BY <2>2, IdleJobIsJob DEF Job, Steps
  <2> QED
    BY <2>1, <2>2
<1>3. Update(c, j)
  BY <1>1 DEF Settle
<1> HIDE DEF j
<1>4. /\ job' \in [Calls -> Job]
      /\ job'[c] = j
      /\ \A d \in Calls \ {c} : job'[d] = job[d]
  BY <1>2, <1>3, UpdateIsTyped DEF IInv
<1>5. WikiTypeOK' /\ index' = index /\ log' = log /\ pages' = pages /\ (Mishap \/ UNCHANGED mishaps)
  BY DEF IInv, TypeOK, WikiTypeOK, Throw, End, wiki
<1>6. /\ stage' \in [Ingests -> {"idle", "waiting", "running", "released"}]
      /\ path' = path
      /\ c \in Ingests => stage'[c] = "released"
      /\ \A d \in Ingests \ {c} : stage'[d] = stage[d]
  BY DEF IInv, TypeOK, Throw, End, Lock!Leave, lock
<1>7. TypeOK'
  BY <1>4, <1>5, <1>6, MishapIsTyped DEF IInv, TypeOK
<1> DEFINE E == {c}
<1>8. /\ E \in SUBSET Calls
      /\ \A d \in E : job'[d].pc \in {"done", "failed", "dead"}
      /\ \A d \in Calls \ E : job'[d] = job[d]
      /\ \A d \in E \cap Ingests : stage'[d] = "released"
      /\ \A d \in Ingests \ E : stage'[d] = stage[d]
  BY <1>2, <1>4, <1>6
<1> HIDE DEF E
<1> QED
  BY <1>5, <1>7, <1>8, EndKeepsIInv

\* A crash ends every call, and frees the lock.
LEMMA CrashKeepsIInv ==
  ASSUME IInv, Crash
  PROVE  IInv'
<1> DEFINE E == {c \in Calls : Underway(c)}
<1>1. WikiTypeOK' /\ index' = index /\ log' = log /\ pages' = pages
  BY DEF IInv, TypeOK, WikiTypeOK, Crash, wiki
<1>2. \A c \in Calls : Remains(job[c], "dead") \in Job /\ Remains(job[c], "dead").pc = "dead"
  BY RemainsIsJob, WorkerKnows
<1>3. /\ job' \in [Calls -> Job]
      /\ \A c \in E : job'[c].pc = "dead"
      /\ \A c \in Calls \ E : job'[c] = job[c]
  BY <1>2, WorkerKnows DEF Crash
<1>4. \A c \in Ingests : stage[c] # "idle" /\ c \notin E => stage[c] = "released"
  BY DEF IInv, TypeOK, StageOfStep, Underway, Over, At, Working, Calls
<1>5. \A c \in E \cap Ingests : stage[c] # "idle"
  BY DEF IInv, StageOfStep, Underway, At
<1>6. /\ stage' \in [Ingests -> {"idle", "waiting", "running", "released"}]
      /\ \A c \in E \cap Ingests : stage'[c] = "released"
      /\ \A c \in Ingests \ E : stage'[c] = stage[c]
  BY <1>4, <1>5 DEF Crash
<1>7. TypeOK'
  BY <1>1, <1>3, <1>6, MishapIsTyped DEF IInv, TypeOK, Crash
<1> QED
  BY <1>1, <1>3, <1>6, <1>7, EndKeepsIInv

\* An abort only raises a flag.
LEMMA AbortKeepsIInv ==
  ASSUME IInv, NEW c \in Calls, Abort(c)
  PROVE  IInv'
<1>1. job[c] \in Job /\ WikiTypeOK' /\ UNCHANGED <<lock, index, log, pages>> /\ Mishap
  BY WorkerKnows DEF IInv, TypeOK, WikiTypeOK, Abort, wiki, lock
<1> DEFINE cut == job[c].pc \in {"analyse", "generate"}
<1>2. cut \in BOOLEAN /\ Update(c, [job[c] EXCEPT !.aborted = TRUE, !.cut = cut])
  BY DEF Abort
<1> HIDE DEF cut
<1> DEFINE j == [job[c] EXCEPT !.aborted = TRUE, !.cut = cut]
<1>3. j \in Job
  BY <1>1, <1>2 DEF Job
<1>4. j.pc = job[c].pc /\ j.listing = job[c].listing /\ j.todo = job[c].todo
      /\ j.block = job[c].block /\ j.held = job[c].held
  BY <1>1 DEF Job
<1> HIDE DEF j
<1>5. /\ job' \in [Calls -> Job]
      /\ job'[c] = j
      /\ \A d \in Calls \ {c} : job'[d] = job[d]
  BY <1>2, <1>3, UpdateIsTyped DEF IInv, j
<1>6. TypeOK'
  BY <1>1, <1>5, MishapIsTyped DEF IInv, TypeOK, lock
<1>7. \A d \in Calls : /\ job'[d].pc = job[d].pc /\ job'[d].listing = job[d].listing
                       /\ job'[d].todo = job[d].todo /\ job'[d].block = job[d].block
                       /\ job'[d].held = job[d].held
  BY <1>4, <1>5
<1>8. StageOfStep' /\ ChatsNeverQueue' /\ OneAtATime'
  BY <1>1, <1>7
  DEF IInv, StageOfStep, ChatsNeverQueue, OneAtATime, At, Working, Calls, lock
<1>9. IndexIsKnown' /\ HeldIsKnown' /\ BlockOnce'
  BY <1>1, <1>7 DEF IInv, IndexIsKnown, HeldIsKnown, BlockOnce, At, IndexToCome, Existing
<1> QED
  BY <1>6, <1>8, <1>9 DEF IInv

-----------------------------------------------------------------------------
(***************************************************************************)
(* The beginnings of a call.                                               *)
(***************************************************************************)
LEMMA EnterKeepsIInv ==
  ASSUME IInv, NEW c \in Ingests, Enter(c)
  PROVE  IInv'
<1>1. job[c] \in Job /\ WikiTypeOK' /\ UNCHANGED <<path, index, log, pages, mishaps>>
  BY WorkerKnows DEF IInv, TypeOK, WikiTypeOK, Enter, wiki, Calls, Lock!TakeTicket
<1>2. PICK s \in Sources : Update(c, [job[c] EXCEPT !.pc = "queued", !.src = s])
  BY DEF Enter
<1> DEFINE j == [job[c] EXCEPT !.pc = "queued", !.src = s]
<1>3. j \in Job /\ j.pc = "queued"
  BY <1>1 DEF Job, Steps
<1> HIDE DEF j
<1>4. /\ job' \in [Calls -> Job]
      /\ job'[c].pc = "queued"
      /\ \A d \in Calls \ {c} : job'[d] = job[d]
  BY <1>2, <1>3, UpdateIsTyped DEF IInv, j, Calls
<1>5. /\ stage[c] = "idle" /\ stage'[c] = "waiting"
      /\ stage' \in [Ingests -> {"idle", "waiting", "running", "released"}]
      /\ \A d \in Ingests \ {c} : stage'[d] = stage[d]
  BY DEF IInv, TypeOK, Enter, Lock!TakeTicket
<1>6. TypeOK'
  BY <1>1, <1>4, <1>5 DEF IInv, TypeOK
<1>7. StageOfStep' /\ ChatsNeverQueue' /\ OneAtATime'
  BY <1>4, <1>5, CallAssumption, ZenonT(60)
  DEF IInv, StageOfStep, ChatsNeverQueue, OneAtATime, At, Working, Calls
<1>8. IndexIsKnown' /\ HeldIsKnown' /\ BlockOnce'
  BY <1>1, <1>4 DEF IInv, IndexIsKnown, HeldIsKnown, BlockOnce, At, IndexToCome, Existing
<1> QED
  BY <1>6, <1>7, <1>8 DEF IInv

\* A call that begins to work finds nobody at work.
LEMMA BeginKeepsIInv ==
  ASSUME ChatWaits, IInv, NEW c \in Calls,
         (c \in Ingests /\ Begin(c)) \/ BeginChat(c)
  PROVE  IInv'
<1>1. job[c] \in Job /\ WikiTypeOK' /\ UNCHANGED <<path, index, log, pages, mishaps>>
  BY WorkerKnows DEF IInv, TypeOK, WikiTypeOK, Begin, BeginChat, wiki, lock, Lock!Hold
<1>2. \A d \in Calls : ~Working(d)
  <2>1. CASE c \in Ingests /\ Begin(c)
    <3>1. \A d \in Chats : ~Working(d)
      BY <2>1 DEF Begin, Underway, Over, Working
    <3>2. \A d \in Ingests : stage[d] # "running"
      BY <2>1 DEF Begin, Lock!Hold, Lock!Rivals, IInv, TypeOK
    <3> QED
      BY <3>1, <3>2 DEF IInv, StageOfStep, Calls
  <2>2. CASE BeginChat(c)
    BY <2>2 DEF BeginChat, Underway, Over, Working
  <2> QED
    BY <2>1, <2>2
<1>3. PICK s \in Sources : Update(c, [job[c] EXCEPT !.pc = "read", !.src = s])
  <2>1. [job[c] EXCEPT !.pc = "read"] = [job[c] EXCEPT !.pc = "read", !.src = job[c].src]
        /\ job[c].src \in Sources
    BY <1>1 DEF Job
  <2> QED
    BY <2>1 DEF Begin, BeginChat, Goto
<1> DEFINE j == [job[c] EXCEPT !.pc = "read", !.src = s]
<1>4. j \in Job /\ j.pc = "read"
  BY <1>1 DEF Job, Steps
<1> HIDE DEF j
<1>5. /\ job' \in [Calls -> Job]
      /\ job'[c].pc = "read"
      /\ \A d \in Calls \ {c} : job'[d] = job[d]
  BY <1>3, <1>4, UpdateIsTyped DEF IInv, j
<1>6. /\ c \in Ingests => stage'[c] = "running"
      /\ stage' \in [Ingests -> {"idle", "waiting", "running", "released"}]
      /\ \A d \in Ingests \ {c} : stage'[d] = stage[d]
  BY CallAssumption DEF IInv, TypeOK, Begin, BeginChat, Lock!Hold, lock
<1>7. TypeOK'
  BY <1>1, <1>5, <1>6 DEF IInv, TypeOK
<1>8. StageOfStep' /\ ChatsNeverQueue'
  BY <1>5, <1>6 DEF IInv, StageOfStep, ChatsNeverQueue, At, Working, Calls
<1>9. \A d \in Calls \ {c} : ~Working(d)' /\ ~At(d, "put")' /\ ~IndexToCome(job[d])'
  BY <1>2, <1>5, OnlyWorkersWrite DEF Working, At, IndexToCome
<1>10. OneAtATime' /\ IndexIsKnown' /\ HeldIsKnown' /\ BlockOnce'
  BY <1>5, <1>9 DEF OneAtATime, IndexIsKnown, HeldIsKnown, BlockOnce, At, IndexToCome
<1> QED
  BY <1>7, <1>8, <1>10 DEF IInv

-----------------------------------------------------------------------------
(***************************************************************************)
(* The invariant, and what follows from it.                                *)
(***************************************************************************)
LEMMA NextKeepsIInv ==
  ASSUME ChatWaits, ReliableReads, IInv, [Next]_vars
  PROVE  IInv'
<1>1. ASSUME NEW c \in Calls, Work(c) PROVE IInv'
  BY <1>1, ReadInputsKeepsIInv, CheckCacheKeepsIInv, AnalyseKeepsIInv, LeaveKeepsIInv,
     GenerateKeepsIInv, DropBlockKeepsIInv, TakeBlockKeepsIInv, PutKeepsIInv,
     LateGotoKeepsIInv, WriteSummaryKeepsIInv, ImagesKeepIInv, SaveCacheKeepsIInv
  DEF Work
<1>2. ASSUME NEW c \in Calls, BeginChat(c) \/ Abort(c) PROVE IInv'
  BY <1>2, BeginKeepsIInv, AbortKeepsIInv
<1>3. ASSUME NEW c \in Ingests, Enter(c) \/ Begin(c) PROVE IInv'
  BY <1>3, EnterKeepsIInv, BeginKeepsIInv DEF Calls
<1>4. CASE UNCHANGED vars
  BY <1>4
  DEF vars, lock, wiki, IInv, TypeOK, WikiTypeOK, StageOfStep, ChatsNeverQueue, OneAtATime,
      IndexIsKnown, HeldIsKnown, BlockOnce, IndexToCome, Existing, At, Working
<1> QED
  BY <1>1, <1>2, <1>3, <1>4, CrashKeepsIInv DEF Next

\* One call works at a time, and knows what it is going to replace: the
\* invariant of autoIngest under withProjectLock (ingest.ts:282-292), and of
\* executeIngestWrites only by ChatWaits.
THEOREM Invariance ==
  ASSUME ChatWaits, ReliableReads
  PROVE  Spec => []IInv
<1>1. Init => IInv
  BY InitIInv
<1>2. IInv /\ [Next]_vars => IInv'
  BY NextKeepsIInv
<1> QED
  BY <1>1, <1>2, PTL DEF Spec

\* What a step may not do to the files.
EntriesStay == index \subseteq index' /\ log \subseteq log'
ContributionsStay ==
  \A c \in Calls, p \in Shared : c \in pages[p] => c \in pages'[p] \/ <<c, p>> \in backups'

\* A block is written over what the call has read of the file, or over what it
\* has just put in a backup.
LEMMA PutLosesNothing ==
  ASSUME IInv, NEW c \in Calls, Put(c)
  PROVE  EntriesStay /\ ContributionsStay
<1> DEFINE b == job[c].block
           h == job[c].held
<1>1. At(c, "put") /\ job[c] \in Job /\ Knows(job[c], index, log, pages)
  BY WorkerKnows DEF Put, PutIndex, PutLog, PutPage, PutPageUnmerged, KeepForReview, PutFails
<1>2. CASE PutIndex(c)
  BY <1>1, <1>2 DEF PutIndex, Knows, IndexToCome, At, EntriesStay, ContributionsStay
<1>3. CASE PutLog(c)
  BY <1>1, <1>3 DEF PutLog, Knows, At, EntriesStay, ContributionsStay
<1>4. CASE PutPage(c)
  <2>1. pages[b] \subseteq h /\ pages' = [pages EXCEPT ![b] = h \cup {c}]
    BY <1>1, <1>4 DEF PutPage, Knows, At
  <2>2. EntriesStay
    BY <1>4 DEF PutPage, EntriesStay
  <2> HIDE DEF b, h
  <2>3. ContributionsStay
    BY <2>1 DEF IInv, TypeOK, WikiTypeOK, ContributionsStay, Pages
  <2> QED
    BY <2>2, <2>3
<1>5. CASE PutPageUnmerged(c)
  <2>1. /\ pages[b] \subseteq h /\ pages' = [pages EXCEPT ![b] = {c}]
        /\ backups' = backups \cup (h \X ({b} \cap Shared))
    BY <1>1, <1>5 DEF PutPageUnmerged, Knows, At
  <2>2. EntriesStay
    BY <1>5 DEF PutPageUnmerged, EntriesStay
  <2> HIDE DEF b, h
  <2>3. ContributionsStay
    BY <2>1 DEF IInv, TypeOK, WikiTypeOK, ContributionsStay, Pages
  <2> QED
    BY <2>2, <2>3
<1>6. CASE KeepForReview(c) \/ PutFails(c)
  BY <1>6 DEF KeepForReview, PutFails, wiki, EntriesStay, ContributionsStay
<1> QED
  BY <1>2, <1>3, <1>4, <1>5, <1>6 DEF Put

\* The stub and the images are written to the source's page only.
LEMMA SummaryLosesNothing ==
  ASSUME IInv, NEW c \in Calls, WriteSummary(c) \/ InjectImages(c)
  PROVE  EntriesStay /\ ContributionsStay
<1>1. job[c] \in Job
  BY WorkerKnows
<1>2. Summary(job[c].src) \notin Shared
  BY <1>1, FileAssumption DEF Summary, Job
<1>3. PICK text : pages' = [pages EXCEPT ![Summary(job[c].src)] = text]
  BY DEF WriteSummary, InjectImages
<1>4. ContributionsStay
  BY <1>2, <1>3 DEF IInv, TypeOK, WikiTypeOK, ContributionsStay, Pages
<1> QED
  BY <1>4 DEF WriteSummary, InjectImages, EntriesStay

LEMMA StepLosesNothing ==
  ASSUME IInv, [Next]_vars
  PROVE  EntriesStay /\ ContributionsStay
<1> USE DEF wiki
<1>1. UNCHANGED wiki => EntriesStay /\ ContributionsStay
  BY DEF EntriesStay, ContributionsStay
<1>2. ASSUME NEW c \in Calls, Work(c) PROVE EntriesStay /\ ContributionsStay
  <2>1. CASE Put(c) \/ WriteSummary(c) \/ InjectImages(c)
    BY <2>1, PutLosesNothing, SummaryLosesNothing
  <2>2. CASE SaveCache(c)
    BY <2>2, SMTT(30) DEF SaveCache, EntriesStay, ContributionsStay
  <2>3. CASE \/ ReadInputs(c) \/ CheckCache(c) \/ Analyse(c) \/ Throw(c) \/ Generate(c)
             \/ DropBlock(c) \/ TakeBlock(c) \/ BlocksDone(c) \/ SkipSummary(c)
             \/ SummaryFails(c) \/ SkipImages(c) \/ ReadForImages(c) \/ InjectFails(c)
             \/ SkipCache(c) \/ SaveCacheFails(c) \/ End(c)
    BY <1>1, <2>3, ZenonT(60)
    DEF ReadInputs, CheckCache, Analyse, Throw, Generate, DropBlock, TakeBlock, BlocksDone,
        SkipSummary, SummaryFails, SkipImages, ReadForImages, InjectFails, SkipCache,
        SaveCacheFails, End
  <2> QED
    BY <1>2, <2>1, <2>2, <2>3 DEF Work
<1>3. CASE Crash \/ UNCHANGED vars \/ (\E c \in Calls : BeginChat(c) \/ Abort(c))
             \/ (\E c \in Ingests : Enter(c) \/ Begin(c))
  BY <1>1, <1>3 DEF Crash, vars, BeginChat, Abort, Enter, Begin
<1> QED
  BY <1>2, <1>3 DEF Next

\* No call takes out of the index or the log what another has put there, for
\* any number of calls, aborts, failures and crashes.
THEOREM EntriesAreKept ==
  ASSUME ChatWaits, ReliableReads
  PROVE  Spec => NoEntryLost
<1>1. IInv /\ [Next]_vars => [index \subseteq index' /\ log \subseteq log']_vars
  BY StepLosesNothing DEF EntriesStay
<1> QED
  BY <1>1, Invariance, PTL DEF Spec, NoEntryLost

\* What a call has put on a concept or entity page stays there or is backed up,
\* even when merges and writes fail.
THEOREM ContributionsAreKept ==
  ASSUME ChatWaits, ReliableReads
  PROVE  Spec => NoContributionLost
<1>1. IInv /\ [Next]_vars =>
        [\A c \in Calls, p \in Shared :
           c \in pages[p] => c \in pages'[p] \/ <<c, p>> \in backups']_vars
  BY StepLosesNothing DEF ContributionsStay
<1> QED
  BY <1>1, Invariance, PTL DEF Spec, NoContributionLost

-----------------------------------------------------------------------------
(***************************************************************************)
(* Why a hit is whole, whatever the chats write, the reads return or the   *)
(* calls overlap: every entry of the cache, and every call that has found  *)
(* one, has an author, an ingest that was not a hit, has written just the  *)
(* files of the entry, and is past writing.                                *)
(***************************************************************************)
Author(j, s, v, files) ==
  /\ j.pc \in {"end", "done", "dead"}
  /\ j.src = s /\ j.ver = v /\ j.written = files
  /\ ~j.hit /\ j.failed = {}

HasAuthor(jobs, s, v, files) == \E d \in Ingests : Author(jobs[d], s, v, files)

EntriesHaveAuthors ==
  \A s \in Sources : cache[s] # NoEntry => HasAuthor(job, s, cache[s].ver, cache[s].files)

HitSteps == {"images", "inject", "end", "done", "dead"}
HitsHaveAuthors ==
  \A c \in Calls : job[c].hit =>
    job[c].pc \in HitSteps /\ HasAuthor(job, job[c].src, job[c].ver, job[c].written)

OnlyIngestsSave == \A c \in Calls : At(c, "save") => c \in Ingests /\ ~job[c].hit

Authored == EntriesHaveAuthors /\ HitsHaveAuthors /\ OnlyIngestsSave
WInv == TypeOK /\ StageOfStep /\ Authored

\* What a call at work may become, short of its end.
Sound(c, j) ==
  /\ j \in Job /\ AtWork(j)
  /\ j.hit => j.pc \in HitSteps /\ HasAuthor(job, j.src, j.ver, j.written)
  /\ j.pc = "save" => c \in Ingests /\ ~j.hit

\* No call is an author before its end, so the authors stay what they are.
LEMMA WorkKeepsWInv ==
  ASSUME WInv, NEW c \in Calls, NEW j, Sound(c, j), Update(c, j),
         AtWork(job[c]), job[c].pc # "end",
         UNCHANGED <<lock, cache>>, WikiTypeOK', Mishap \/ UNCHANGED mishaps
  PROVE  WInv'
<1>1. /\ job' \in [Calls -> Job]
      /\ job'[c] = j
      /\ \A d \in Calls \ {c} : job'[d] = job[d]
  BY UpdateIsTyped DEF WInv, Sound
<1>2. TypeOK'
  BY <1>1, MishapIsTyped DEF WInv, TypeOK, lock
<1>3. Working(c) /\ Working(c)'
  BY <1>1 DEF Working, AtWork, Sound
<1>4. StageOfStep'
  BY <1>1, <1>3 DEF WInv, StageOfStep, Working, At, Calls, lock
<1>5. \A s, v, files : HasAuthor(job, s, v, files) => HasAuthor(job', s, v, files)
  <2>1. job[c].pc \notin {"end", "done", "dead"}
    BY DEF AtWork
  <2> QED
    BY <1>1, <2>1 DEF HasAuthor, Author, Calls
<1>6. EntriesHaveAuthors'
  BY <1>5 DEF WInv, Authored, EntriesHaveAuthors
<1>7. HitsHaveAuthors' /\ OnlyIngestsSave'
  BY <1>1, <1>5 DEF WInv, Authored, HitsHaveAuthors, OnlyIngestsSave, Sound, At
<1> QED
  BY <1>2, <1>4, <1>6, <1>7 DEF WInv, Authored

\* A call that has not reached the images yet is no hit.
LEMMA EarlyIsNoHit ==
  ASSUME WInv, NEW c \in Calls, job[c].pc \notin HitSteps
  PROVE  ~job[c].hit
  BY DEF WInv, Authored, HitsHaveAuthors

\* Its steps are sound as long as it does not go and save.
LEMMA EarlyIsSound ==
  ASSUME WInv, NEW c \in Calls, job[c].pc \notin HitSteps,
         NEW j \in Job, j.hit = job[c].hit, AtWork(j), j.pc # "save"
  PROVE  Sound(c, j)
  BY EarlyIsNoHit DEF Sound

\* A step before the images that leaves the cache alone: what is left to show is
\* that the call remains a job.
LEMMA EarlyKeepsWInv ==
  ASSUME WInv, NEW c \in Calls, AtWork(job[c]), job[c].pc \notin HitSteps,
         NEW j \in Job, Update(c, j), j.hit = job[c].hit, AtWork(j), j.pc # "save",
         UNCHANGED <<lock, cache>>, WikiTypeOK', Mishap \/ UNCHANGED mishaps
  PROVE  WInv'
<1>1. job[c].pc # "end"
  BY DEF HitSteps
<1> QED
  BY <1>1, EarlyIsSound, WorkKeepsWInv

\* The steps up to the blocks.
LEMMA ReadInputsKeepsWInv ==
  ASSUME WInv, NEW c \in Calls, ReadInputs(c)
  PROVE  WInv'
<1>1. WikiTypeOK' /\ UNCHANGED <<lock, cache, mishaps>>
  BY DEF WInv, TypeOK, WikiTypeOK, ReadInputs, wiki
<1>2. job[c] \in Job /\ index \in SUBSET Pages
  BY DEF WInv, TypeOK, WikiTypeOK
<1>3. AtWork(job[c]) /\ job[c].pc \notin HitSteps
  BY DEF ReadInputs, At, AtWork, Steps, HitSteps
<1>4. job[c].ver \in Versions
  BY <1>2 DEF Job
<1> DEFINE pc == IF c \in Ingests THEN "check" ELSE "generate"
<1>5. PICK v \in IF c \in Ingests THEN Versions ELSE {job[c].ver},
           listing \in IF ReliableReads THEN {index} ELSE {index, {}} :
        Update(c, [job[c] EXCEPT !.pc = pc, !.ver = v, !.listing = listing])
  BY DEF ReadInputs
<1>8. v \in Versions /\ listing \in SUBSET Pages /\ pc \in {"check", "generate"}
  BY <1>2, <1>4
<1> HIDE DEF pc
<1> DEFINE j == [job[c] EXCEPT !.pc = pc, !.ver = v, !.listing = listing]
<1>6. j \in Job /\ j.pc = pc /\ j.hit = job[c].hit
  BY <1>2, <1>8 DEF Job, Steps
<1> HIDE DEF j
<1>7. AtWork(j) /\ j.pc # "save"
  BY <1>6, <1>8 DEF AtWork, Steps
<1> QED
  BY <1>1, <1>3, <1>5, <1>6, <1>7, EarlyKeepsWInv DEF j

\* A call that finds an entry takes its author over.
LEMMA CheckCacheKeepsWInv ==
  ASSUME WInv, NEW c \in Calls, CheckCache(c)
  PROVE  WInv'
<1>1. WikiTypeOK' /\ UNCHANGED <<lock, cache, mishaps>>
  BY DEF WInv, TypeOK, WikiTypeOK, CheckCache, wiki
<1>2. job[c] \in Job /\ cache \in [Sources -> Entry \cup {NoEntry}]
  BY DEF WInv, TypeOK, WikiTypeOK
<1>3. AtWork(job[c]) /\ job[c].pc = "check"
  BY DEF CheckCache, At, AtWork, Steps
<1>4. CASE IsHit(job[c].src, job[c].ver) /\ Update(c, [job[c] EXCEPT !.pc = "images", !.hit = TRUE,
                              !.listing = {}, !.written = cache[job[c].src].files])
  <2> DEFINE files == cache[job[c].src].files
             j == [job[c] EXCEPT !.pc = "images", !.hit = TRUE, !.listing = {}, !.written = files]
  <2>1. files \in SUBSET Files /\ HasAuthor(job, job[c].src, job[c].ver, files)
    BY <1>2, <1>4 DEF IsHit, Job, Entry, WInv, Authored, EntriesHaveAuthors
  <2> HIDE DEF files
  <2>2. /\ j \in Job /\ j.pc = "images" /\ j.src = job[c].src /\ j.ver = job[c].ver
        /\ j.written = files
    BY <1>2, <2>1 DEF Job, Steps
  <2> HIDE DEF j
  <2>3. Sound(c, j)
    BY <2>1, <2>2 DEF Sound, AtWork, Steps, HitSteps
  <2> QED
    BY <1>1, <1>3, <1>4, <2>3, WorkKeepsWInv DEF j, files
<1>5. CASE Goto(c, "analyse")
  <2> DEFINE j == [job[c] EXCEPT !.pc = "analyse"]
  <2>1. j \in Job /\ j.pc = "analyse" /\ j.hit = job[c].hit
    BY <1>2 DEF Job, Steps
  <2> HIDE DEF j
  <2>2. AtWork(j) /\ j.pc # "save" /\ job[c].pc \notin HitSteps
    BY <1>3, <2>1 DEF AtWork, Steps, HitSteps
  <2> QED
    BY <1>1, <1>3, <1>5, <2>1, <2>2, EarlyKeepsWInv DEF j, Goto
<1> QED
  BY <1>4, <1>5 DEF CheckCache

\* The streams leave the cache to its authors.
LEMMA AnalyseKeepsWInv ==
  ASSUME WInv, NEW c \in Calls, Analyse(c)
  PROVE  WInv'
<1> DEFINE j == [job[c] EXCEPT !.pc = "generate"]
<1>1. j \in Job /\ j.pc = "generate" /\ j.hit = job[c].hit
  BY DEF WInv, TypeOK, Job, Steps
<1>2. Update(c, j)
  BY DEF Analyse, Goto
<1> HIDE DEF j
<1>3. AtWork(j) /\ j.pc # "save"
  BY <1>1 DEF AtWork, Steps
<1>4. AtWork(job[c]) /\ job[c].pc \notin HitSteps
  BY DEF Analyse, At, AtWork, Steps, HitSteps
<1>5. WikiTypeOK' /\ UNCHANGED <<lock, cache, mishaps>>
  BY DEF WInv, TypeOK, WikiTypeOK, Analyse, wiki
<1> QED
  BY <1>1, <1>2, <1>3, <1>4, <1>5, EarlyKeepsWInv

\* The second brings the blocks to be written.
LEMMA GenerateKeepsWInv ==
  ASSUME WInv, NEW c \in Calls, Generate(c)
  PROVE  WInv'
<1>1. PICK gen \in Answers(job[c].src) :
        /\ Mishap \/ UNCHANGED mishaps
        /\ Update(c, [job[c] EXCEPT !.pc = "blocks", !.todo = gen,
                         !.listing = IF "index" \in gen THEN Listing(@, gen) ELSE {}])
  BY DEF Generate
<1> DEFINE l == IF "index" \in gen THEN Listing(job[c].listing, gen) ELSE {}
           j == [job[c] EXCEPT !.pc = "blocks", !.todo = gen, !.listing = l]
<1>2. job[c] \in Job
  BY DEF WInv, TypeOK
<1>3. gen \in SUBSET Files /\ l \in SUBSET Pages
  BY <1>2 DEF Job, Answers, Complete, Summary, Files, Pages, Listing
<1>4. Update(c, j)
  BY <1>1, <1>2 DEF Job
<1> HIDE DEF l
<1>5. j \in Job /\ j.pc = "blocks" /\ j.hit = job[c].hit
  BY <1>2, <1>3 DEF Job, Steps
<1> HIDE DEF j
<1>6. AtWork(j) /\ j.pc # "save"
  BY <1>5 DEF AtWork, Steps
<1>7. AtWork(job[c]) /\ job[c].pc \notin HitSteps
  BY DEF Generate, At, AtWork, Steps, HitSteps
<1>8. WikiTypeOK' /\ UNCHANGED <<lock, cache>>
  BY DEF WInv, TypeOK, WikiTypeOK, Generate, wiki
<1> QED
  BY <1>1, <1>4, <1>5, <1>6, <1>7, <1>8, EarlyKeepsWInv

\* A block that is dropped is not written.
LEMMA DropBlockKeepsWInv ==
  ASSUME WInv, NEW c \in Calls, DropBlock(c)
  PROVE  WInv'
<1>1. WikiTypeOK' /\ UNCHANGED <<lock, cache>> /\ Mishap
  BY DEF WInv, TypeOK, WikiTypeOK, DropBlock, wiki
<1>2. AtWork(job[c]) /\ job[c].pc = "blocks" /\ job[c].pc \notin HitSteps
  BY DEF DropBlock, At, AtWork, Steps, HitSteps
<1>3. PICK b \in Shared \cup {"index"} :
        Update(c, [job[c] EXCEPT !.todo = @ \ {b}, !.listing = IF b = "index" THEN {} ELSE @])
  BY DEF DropBlock
<1>4. job[c] \in Job
  BY DEF WInv, TypeOK
<1> DEFINE t == job[c].todo \ {b}
           l == IF b = "index" THEN {} ELSE job[c].listing
           j == [job[c] EXCEPT !.todo = t, !.listing = l]
<1>5. t \in SUBSET Files /\ l \in SUBSET Pages
  BY <1>4 DEF Job
<1>6. Update(c, j)
  BY <1>3, <1>4 DEF Job
<1> HIDE DEF t, l
<1>7. j \in Job /\ j.pc = job[c].pc /\ j.hit = job[c].hit
  BY <1>4, <1>5 DEF Job
<1> HIDE DEF j
<1>8. AtWork(j) /\ j.pc # "save"
  BY <1>2, <1>7 DEF AtWork
<1> QED
  BY <1>1, <1>2, <1>6, <1>7, <1>8, EarlyKeepsWInv

\* A block is taken up.
LEMMA TakeBlockKeepsWInv ==
  ASSUME WInv, NEW c \in Calls, TakeBlock(c)
  PROVE  WInv'
<1>1. WikiTypeOK' /\ UNCHANGED <<lock, cache, mishaps>>
  BY DEF WInv, TypeOK, WikiTypeOK, TakeBlock, wiki
<1>2. AtWork(job[c]) /\ job[c].pc = "blocks" /\ job[c].pc \notin HitSteps
  BY DEF TakeBlock, At, AtWork, Steps, HitSteps
<1>9. PICK b \in NextBlocks(job[c].todo) :
        \E h \in IF ReliableReads THEN {Existing(b)} ELSE {Existing(b), {}} :
          Update(c, [job[c] EXCEPT !.pc = "put", !.todo = @ \ {b}, !.block = b, !.held = h])
  BY DEF TakeBlock
<1>3. PICK h \in {Existing(b), {}} :
        Update(c, [job[c] EXCEPT !.pc = "put", !.todo = @ \ {b}, !.block = b, !.held = h])
  BY <1>9
<1>4. job[c] \in Job
  BY DEF WInv, TypeOK
<1> DEFINE t == job[c].todo \ {b}
           j == [job[c] EXCEPT !.pc = "put", !.todo = t, !.block = b, !.held = h]
<1>5. b \in Files /\ t \in SUBSET Files /\ h \in SUBSET Calls
  <2>1. job[c].todo \in SUBSET Files
    BY <1>4 DEF Job
  <2>2. b \in job[c].todo
    BY DEF NextBlocks
  <2>3. Existing(b) \in SUBSET Calls
    BY DEF Existing, WInv, TypeOK, WikiTypeOK
  <2> QED
    BY <2>1, <2>2, <2>3
<1>6. Update(c, j)
  BY <1>3, <1>4 DEF Job
<1> HIDE DEF t
<1>7. j \in Job /\ j.pc = "put" /\ j.hit = job[c].hit
  BY <1>4, <1>5 DEF Job, Steps
<1> HIDE DEF j
<1>8. AtWork(j) /\ j.pc # "save"
  BY <1>7 DEF AtWork, Steps
<1> QED
  BY <1>1, <1>2, <1>6, <1>7, <1>8, EarlyKeepsWInv

\* Whatever becomes of a block, its call goes on with the next.
LEMMA PutKeepsWInv ==
  ASSUME WInv, NEW c \in Calls, Put(c)
  PROVE  WInv'
<1>1. At(c, "put") /\ UNCHANGED <<lock, cache>> /\ (Mishap \/ UNCHANGED mishaps)
  BY DEF Put, PutIndex, PutLog, PutPage, PutPageUnmerged, KeepForReview, PutFails, wiki
<1>2. job[c] \in Job
  BY DEF WInv, TypeOK
<1> DEFINE b == job[c].block
           k == BlockOver(job[c])
           Next3 == {[k EXCEPT !.written = @ \cup {b}], [k EXCEPT !.failed = @ \cup {b}]}
                    \cup {[k EXCEPT !.review = @ \cup {q}] : q \in {b} \cap Pages}
<1>3. k \in Job /\ k.pc = "blocks" /\ k.hit = job[c].hit /\ b \in Files
  <2> DEFINE l == IF b = "index" THEN {} ELSE job[c].listing
  <2>1. k = [job[c] EXCEPT !.pc = "blocks", !.block = "log", !.held = {}, !.listing = l]
    BY <1>2 DEF BlockOver, Job
  <2>2. l \in SUBSET Pages
    BY <1>2 DEF Job
  <2> HIDE DEF l, k
  <2> QED
    BY <1>2, <2>1, <2>2 DEF Job, Steps, Files
<1>4. PICK j \in Next3 : Update(c, j)
  BY <1>1 DEF Put, PutIndex, PutLog, PutPage, PutPageUnmerged, KeepForReview, PutFails, Written
<1>5. j \in Job /\ j.pc = "blocks" /\ j.hit = job[c].hit
  <2> HIDE DEF k, b
  <2>1. \A q \in {b} \cap Pages : [k EXCEPT !.review = @ \cup {q}] \in Job
    BY <1>3 DEF Job
  <2>2. [k EXCEPT !.written = @ \cup {b}] \in Job /\ [k EXCEPT !.failed = @ \cup {b}] \in Job
    BY <1>3 DEF Job
  <2>3. j.pc = k.pc /\ j.hit = k.hit
    BY <1>3 DEF Job
  <2> QED
    BY <1>3, <2>1, <2>2, <2>3
<1>6. WikiTypeOK'
  <2>1. job[c].held \in SUBSET Calls /\ job[c].listing \in SUBSET Pages
    BY <1>2 DEF Job
  <2>2. CASE PutIndex(c) \/ PutLog(c)
    BY <2>1, <2>2 DEF WInv, TypeOK, WikiTypeOK, PutIndex, PutLog
  <2>3. CASE PutPage(c)
    BY <2>1, <2>3 DEF WInv, TypeOK, WikiTypeOK, PutPage
  <2>4. CASE PutPageUnmerged(c)
    BY <2>1, <2>4 DEF WInv, TypeOK, WikiTypeOK, PutPageUnmerged
  <2>5. CASE KeepForReview(c) \/ PutFails(c)
    BY <2>5 DEF WInv, TypeOK, WikiTypeOK, KeepForReview, PutFails, wiki
  <2> QED
    BY <2>2, <2>3, <2>4, <2>5 DEF Put
<1>7. AtWork(job[c]) /\ job[c].pc \notin HitSteps /\ AtWork(j) /\ j.pc # "save"
  BY <1>1, <1>5 DEF At, AtWork, Steps, HitSteps
<1> QED
  BY <1>1, <1>4, <1>5, <1>6, <1>7, EarlyKeepsWInv

\* The steps to the images that change nothing but the page of the source.
LEMMA SummaryKeepsWInv ==
  ASSUME WInv, NEW c \in Calls,
         BlocksDone(c) \/ SkipSummary(c) \/ SummaryFails(c) \/ WriteSummary(c)
  PROVE  WInv'
<1>1. job[c] \in Job
  BY DEF WInv, TypeOK
<1>2. /\ job[c].pc \in {"blocks", "summary"}
      /\ UNCHANGED <<lock, cache>> /\ (Mishap \/ UNCHANGED mishaps)
  BY DEF BlocksDone, SkipSummary, SummaryFails, WriteSummary, At, wiki
<1>3. AtWork(job[c]) /\ job[c].pc \notin HitSteps
  BY <1>2 DEF AtWork, Steps, HitSteps
<1>4. CASE WriteSummary(c)
  <2> DEFINE p == Summary(job[c].src)
             w == job[c].written \cup {p}
             j == [job[c] EXCEPT !.pc = "images", !.written = w]
  <2>1. p \in Pages /\ w \in SUBSET Files
    BY <1>1 DEF Summary, Job, Files, Pages
  <2>2. WikiTypeOK'
    BY <1>4, <2>1 DEF WInv, TypeOK, WikiTypeOK, WriteSummary
  <2>3. Update(c, j)
    BY <1>1, <1>4 DEF WriteSummary, Job
  <2> HIDE DEF w
  <2>4. j \in Job /\ j.pc = "images" /\ j.hit = job[c].hit
    BY <1>1, <2>1 DEF Job, Steps
  <2> HIDE DEF j
  <2>5. AtWork(j) /\ j.pc # "save"
    BY <2>4 DEF AtWork, Steps
  <2> QED
    BY <1>2, <1>3, <2>2, <2>3, <2>4, <2>5, EarlyKeepsWInv
<1>5. CASE BlocksDone(c) \/ SkipSummary(c) \/ SummaryFails(c)
  <2>1. PICK pc \in {"summary", "images"} : Goto(c, pc)
    BY <1>5 DEF BlocksDone, SkipSummary, SummaryFails
  <2> DEFINE j == [job[c] EXCEPT !.pc = pc]
  <2>2. j \in Job /\ j.pc = pc /\ j.hit = job[c].hit
    BY <1>1 DEF Job, Steps
  <2>3. Update(c, j)
    BY <2>1 DEF Goto
  <2> HIDE DEF j
  <2>4. AtWork(j) /\ j.pc # "save"
    BY <2>2 DEF AtWork, Steps
  <2>5. WikiTypeOK'
    BY <1>5 DEF WInv, TypeOK, WikiTypeOK, BlocksDone, SkipSummary, SummaryFails, wiki
  <2> QED
    BY <1>2, <1>3, <2>2, <2>3, <2>4, <2>5, EarlyKeepsWInv
<1> QED
  BY <1>4, <1>5

\* A hit goes past the save, with what it has found.
LEMMA ImagesKeepWInv ==
  ASSUME WInv, NEW c \in Calls,
         SkipImages(c) \/ ReadForImages(c) \/ InjectImages(c) \/ InjectFails(c)
  PROVE  WInv'
<1>1. job[c] \in Job /\ job[c].held \in SUBSET Calls
  BY DEF WInv, TypeOK, Job
<1>2. /\ job[c].pc \in {"images", "inject"}
      /\ UNCHANGED <<lock, cache>> /\ (Mishap \/ UNCHANGED mishaps)
  BY DEF SkipImages, ReadForImages, InjectImages, InjectFails, At, wiki
<1>3. Summary(job[c].src) \in Pages
  BY <1>1, SMTT(30) DEF Summary, Job, Pages
<1>4. PICK pc \in {AfterImages(c), "inject"}, h \in SUBSET Calls :
        Update(c, [job[c] EXCEPT !.pc = pc, !.held = h])
  <2>1. CASE SkipImages(c)
    <3>1. [job[c] EXCEPT !.pc = AfterImages(c)]
            = [job[c] EXCEPT !.pc = AfterImages(c), !.held = job[c].held]
      BY <1>1 DEF Job
    <3> QED
      BY <1>1, <2>1, <3>1 DEF SkipImages, Goto
  <2>2. CASE ReadForImages(c)
    <3>1. pages[Summary(job[c].src)] \in SUBSET Calls
      BY <1>3 DEF WInv, TypeOK, WikiTypeOK
    <3> QED
      BY <2>2, <3>1 DEF ReadForImages
  <2>3. CASE InjectImages(c) \/ InjectFails(c)
    BY <2>3 DEF InjectImages, InjectFails
  <2> QED
    BY <2>1, <2>2, <2>3
<1>5. WikiTypeOK'
  <2>1. CASE InjectImages(c)
    BY <1>1, <1>3, <2>1 DEF WInv, TypeOK, WikiTypeOK, InjectImages
  <2>2. CASE SkipImages(c) \/ ReadForImages(c) \/ InjectFails(c)
    BY <2>2 DEF WInv, TypeOK, WikiTypeOK, SkipImages, ReadForImages, InjectFails, wiki
  <2> QED
    BY <2>1, <2>2
<1> DEFINE j == [job[c] EXCEPT !.pc = pc, !.held = h]
<1>6. pc \in {"save", "end", "inject"} /\ (pc = "save" => c \in Ingests /\ ~job[c].hit)
  BY DEF AfterImages
<1>7. /\ j \in Job /\ j.pc = pc /\ j.hit = job[c].hit /\ j.src = job[c].src
      /\ j.ver = job[c].ver /\ j.written = job[c].written
  BY <1>1, <1>6 DEF Job, Steps
<1> HIDE DEF j
<1>8. Sound(c, j)
  BY <1>6, <1>7 DEF Sound, AtWork, Steps, HitSteps, WInv, Authored, HitsHaveAuthors
<1>9. AtWork(job[c]) /\ job[c].pc # "end"
  BY <1>2 DEF AtWork, Steps
<1> QED
  BY <1>2, <1>4, <1>5, <1>8, <1>9, WorkKeepsWInv DEF j

\* A call that saves its entry becomes its author; one that does not, ends all
\* the same.
LEMMA SaveKeepsWInv ==
  ASSUME WInv, NEW c \in Calls, SaveCache(c) \/ SkipCache(c) \/ SaveCacheFails(c)
  PROVE  WInv'
<1> DEFINE j == [job[c] EXCEPT !.pc = "end"]
<1>1. job[c] \in Job /\ job[c].pc = "save" /\ c \in Ingests /\ ~job[c].hit
  BY DEF WInv, TypeOK, SaveCache, SkipCache, SaveCacheFails, At, Authored, OnlyIngestsSave
<1>2. /\ j \in Job /\ j.pc = "end" /\ j.hit = job[c].hit /\ j.src = job[c].src
      /\ j.ver = job[c].ver /\ j.written = job[c].written /\ j.failed = job[c].failed
  BY <1>1 DEF Job, Steps
<1>3. Update(c, j) /\ UNCHANGED lock /\ (Mishap \/ UNCHANGED mishaps)
  BY DEF SaveCache, SkipCache, SaveCacheFails, Goto
<1> HIDE DEF j
<1>4. Sound(c, j)
  BY <1>1, <1>2 DEF Sound, AtWork, Steps
<1>5. AtWork(job[c]) /\ job[c].pc # "end"
  BY <1>1 DEF AtWork, Steps
<1>6. CASE SkipCache(c) \/ SaveCacheFails(c)
  <2>1. WikiTypeOK' /\ UNCHANGED cache
    BY <1>6 DEF WInv, TypeOK, WikiTypeOK, SkipCache, SaveCacheFails, wiki
  <2> QED
    BY <1>3, <1>4, <1>5, <2>1, WorkKeepsWInv
<1>7. CASE SaveCache(c)
  <2> DEFINE e == [ver |-> job[c].ver, files |-> job[c].written]
             s == job[c].src
  <2>1. e \in Entry /\ e.ver = job[c].ver /\ e.files = job[c].written /\ s \in Sources
    BY <1>1 DEF Job, Entry
  <2>2. cache' = [cache EXCEPT ![s] = e]
    BY <1>7 DEF SaveCache
  <2>3. job[c].failed = {}
    BY <1>7 DEF SaveCache, Caches
  <2> HIDE DEF e, s
  <2>4. WikiTypeOK'
    BY <1>7, <2>1, <2>2, ZenonT(60) DEF WInv, TypeOK, WikiTypeOK, SaveCache
  <2>5. /\ job' \in [Calls -> Job] /\ job'[c] = j
        /\ \A d \in Calls \ {c} : job'[d] = job[d]
    BY <1>2, <1>3, UpdateIsTyped DEF WInv
  <2>6. TypeOK'
    BY <1>3, <2>4, <2>5, MishapIsTyped DEF WInv, TypeOK, lock
  <2>7. StageOfStep'
    <3>1. Working(c) /\ Working(c)'
      BY <1>1, <1>2, <2>5 DEF Working
    <3> QED
      BY <1>3, <2>5, <3>1 DEF WInv, StageOfStep, Working, At, Calls, lock
  <2>8. \A t, v, files : HasAuthor(job, t, v, files) => HasAuthor(job', t, v, files)
    BY <1>1, <2>5 DEF HasAuthor, Author, Calls
  <2>9. HasAuthor(job', s, e.ver, e.files)
    <3>1. Author(job'[c], s, e.ver, e.files)
      BY <1>1, <1>2, <2>1, <2>3, <2>5 DEF Author, s
    <3> QED
      BY <1>1, <3>1 DEF HasAuthor
  <2>10. EntriesHaveAuthors'
    <3>1. cache'[s] = e /\ \A t \in Sources \ {s} : cache'[t] = cache[t]
      BY <2>1, <2>2 DEF WInv, TypeOK, WikiTypeOK
    <3>2. \A t \in Sources : cache'[t] # NoEntry => HasAuthor(job', t, cache'[t].ver, cache'[t].files)
      BY <2>8, <2>9, <3>1 DEF WInv, Authored, EntriesHaveAuthors
    <3> QED
      BY <3>2 DEF EntriesHaveAuthors
  <2>11. HitsHaveAuthors' /\ OnlyIngestsSave'
    <3>1. \A d \in Calls : job'[d].hit => d # c /\ job'[d] = job[d]
      BY <1>1, <1>2, <2>5
    <3>2. \A d \in Calls : job'[d].hit =>
            job'[d].pc \in HitSteps /\ HasAuthor(job', job'[d].src, job'[d].ver, job'[d].written)
      BY <2>8, <3>1 DEF WInv, Authored, HitsHaveAuthors
    <3>3. OnlyIngestsSave'
      BY <1>2, <2>5 DEF WInv, Authored, OnlyIngestsSave, At
    <3> QED
      BY <3>2, <3>3 DEF HitsHaveAuthors
  <2> QED
    BY <2>6, <2>7, <2>10, <2>11 DEF WInv, Authored
<1> QED
  BY <1>6, <1>7

\* What is known of a call, of its author and of its hit does not depend on the
\* rest of its state.
Same(j, k) ==
  /\ j.src = k.src /\ j.ver = k.ver /\ j.hit = k.hit
  /\ j.written = k.written /\ j.failed = k.failed

\* A step after which some calls are over that are still known, and nobody else
\* has moved.
LEMMA EndsKeepWInv ==
  ASSUME WInv, TypeOK', cache' = cache,
         NEW E \in SUBSET Calls,
         \A d \in E :
           /\ job'[d].pc \in {"done", "failed", "dead"}
           /\ d \in Ingests \/ job'[d].hit =>
                /\ Same(job'[d], job[d])
                /\ job[d].pc \in {"analyse", "generate"} \/ job'[d].pc # "failed",
         \A d \in Calls \ E : job'[d] = job[d],
         \A d \in E \cap Ingests : stage'[d] = "released",
         \A d \in Ingests \ E : stage'[d] = stage[d]
  PROVE  WInv'
<1>1. \A d \in E : ~Working(d)' /\ ~At(d, "queued")' /\ ~At(d, "idle")' /\ ~At(d, "save")'
  BY DEF Working, At
<1>2. StageOfStep'
  BY <1>1 DEF WInv, StageOfStep, Working, At, Calls
<1>3. \A s, v, files : HasAuthor(job, s, v, files) => HasAuthor(job', s, v, files)
  <2>1. SUFFICES ASSUME NEW s, NEW v, NEW files, NEW d \in Ingests, Author(job[d], s, v, files)
                 PROVE  Author(job'[d], s, v, files)
    BY DEF HasAuthor
  <2>2. CASE d \in E
    BY <2>1, <2>2 DEF Author, Same
  <2>3. CASE d \notin E
    BY <2>1, <2>3 DEF Author, Calls
  <2> QED
    BY <2>2, <2>3
<1>4. EntriesHaveAuthors'
  BY <1>3 DEF WInv, Authored, EntriesHaveAuthors
<1>5. HitsHaveAuthors'
  <2>1. SUFFICES ASSUME NEW d \in Calls, job'[d].hit
                 PROVE  job'[d].pc \in HitSteps /\ HasAuthor(job', job'[d].src, job'[d].ver, job'[d].written)
    BY DEF HitsHaveAuthors
  <2>2. CASE d \notin E
    BY <1>3, <2>1, <2>2 DEF WInv, Authored, HitsHaveAuthors
  <2>3. CASE d \in E
    <3>1. Same(job'[d], job[d])
      BY <2>1, <2>3
    <3>2. job[d].pc \in HitSteps /\ HasAuthor(job, job[d].src, job[d].ver, job[d].written)
      BY <2>1, <3>1 DEF Same, WInv, Authored, HitsHaveAuthors
    <3>3. job'[d].pc \in {"done", "dead"}
      BY <2>1, <2>3, <3>1, <3>2 DEF HitSteps
    <3> QED
      BY <1>3, <3>1, <3>2, <3>3 DEF Same, HitSteps
  <2> QED
    BY <2>2, <2>3
<1>6. OnlyIngestsSave'
  BY <1>1 DEF WInv, Authored, OnlyIngestsSave, At
<1> QED
  BY <1>2, <1>4, <1>5, <1>6 DEF WInv, Authored

\* What a call leaves behind still tells what it was about and has written.
LEMMA RemainsIsSame ==
  ASSUME NEW j \in Job, NEW end \in {"done", "failed", "dead"}
  PROVE  Same(Remains(j, end), j) /\ Remains(j, end).pc = end
  BY IdleJobIsJob DEF Remains, Same, IdleJob, Job, Steps

\* A call that throws was no author and no hit.
LEMMA LeaveKeepsWInv ==
  ASSUME WInv, NEW c \in Calls, Throw(c) \/ End(c)
  PROVE  WInv'
<1>1. job[c] \in Job
  BY DEF WInv, TypeOK
<1>2. PICK end \in {"done", "failed"} :
        Settle(c, end) /\ (end = "failed" => job[c].pc \in {"analyse", "generate"})
  BY DEF Throw, End
<1> DEFINE j == IF c \in Ingests THEN Remains(job[c], end) ELSE [IdleJob EXCEPT !.pc = end]
<1>3. /\ j \in Job /\ j.pc = end
      /\ c \in Ingests => Same(j, job[c])
      /\ c \notin Ingests => ~j.hit
  <2>1. CASE c \in Ingests
    <3>1. j = Remains(job[c], end)
      BY <2>1
    <3> HIDE DEF j
    <3> QED
      BY <1>1, <2>1, <3>1, RemainsIsJob, RemainsIsSame, SMTT(30)
  <2>2. CASE c \notin Ingests
    BY <2>2, IdleJobIsJob DEF IdleJob, Job, Steps
  <2> QED
    BY <2>1, <2>2
<1>4. Update(c, j)
  BY <1>2 DEF Settle
<1> HIDE DEF j
<1>5. /\ job' \in [Calls -> Job]
      /\ job'[c] = j
      /\ \A d \in Calls \ {c} : job'[d] = job[d]
  BY <1>3, <1>4, UpdateIsTyped DEF WInv
<1>6. WikiTypeOK' /\ UNCHANGED <<cache, mishaps>>
  BY DEF WInv, TypeOK, WikiTypeOK, Throw, End, wiki
<1>7. /\ stage' \in [Ingests -> {"idle", "waiting", "running", "released"}]
      /\ path' = path
      /\ c \in Ingests => stage'[c] = "released"
      /\ \A d \in Ingests \ {c} : stage'[d] = stage[d]
  BY DEF WInv, TypeOK, Throw, End, Lock!Leave, lock
<1>8. TypeOK'
  BY <1>5, <1>6, <1>7, MishapIsTyped DEF WInv, TypeOK
<1> DEFINE E == {c}
<1>9. E \in SUBSET Calls
  OBVIOUS
<1>10. \A d \in E :
         /\ job'[d].pc \in {"done", "failed", "dead"}
         /\ d \in Ingests \/ job'[d].hit =>
              /\ Same(job'[d], job[d])
              /\ job[d].pc \in {"analyse", "generate"} \/ job'[d].pc # "failed"
  BY <1>2, <1>3, <1>5
<1>11. /\ \A d \in Calls \ E : job'[d] = job[d]
       /\ \A d \in E \cap Ingests : stage'[d] = "released"
       /\ \A d \in Ingests \ E : stage'[d] = stage[d]
  BY <1>5, <1>7
<1> HIDE DEF E
<1> QED
  BY <1>6, <1>8, <1>9, <1>10, <1>11, EndsKeepWInv

\* A crash takes no author's work back: the files it has written are there.
LEMMA CrashKeepsWInv ==
  ASSUME WInv, Crash
  PROVE  WInv'
<1> DEFINE E == {c \in Calls : Underway(c)}
<1>1. WikiTypeOK' /\ UNCHANGED cache /\ Mishap
  BY DEF WInv, TypeOK, WikiTypeOK, Crash, wiki
<1>2. \A c \in Calls : /\ job[c] \in Job /\ Remains(job[c], "dead") \in Job
                       /\ Remains(job[c], "dead").pc = "dead" /\ Same(Remains(job[c], "dead"), job[c])
  BY RemainsIsJob, RemainsIsSame DEF WInv, TypeOK
<1>3. /\ job' \in [Calls -> Job]
      /\ \A c \in E : job'[c] = Remains(job[c], "dead")
      /\ \A c \in Calls \ E : job'[c] = job[c]
  BY <1>2 DEF Crash
<1>4. \A c \in Ingests : stage[c] # "idle" /\ c \notin E => stage[c] = "released"
  BY DEF WInv, TypeOK, StageOfStep, Underway, Over, At, Working, Calls
<1>5. \A c \in E \cap Ingests : stage[c] # "idle"
  BY DEF WInv, StageOfStep, Underway, At
<1>6. /\ stage' \in [Ingests -> {"idle", "waiting", "running", "released"}]
      /\ \A c \in E \cap Ingests : stage'[c] = "released"
      /\ \A c \in Ingests \ E : stage'[c] = stage[c]
  BY <1>4, <1>5 DEF Crash
<1>7. TypeOK'
  BY <1>1, <1>3, <1>6, MishapIsTyped DEF WInv, TypeOK, Crash
<1>8. \A d \in E : job'[d].pc = "dead" /\ Same(job'[d], job[d])
  BY <1>2, <1>3
<1>9. E \in SUBSET Calls
  OBVIOUS
<1> HIDE DEF E
<1> QED
  BY <1>1, <1>3, <1>6, <1>7, <1>8, <1>9, EndsKeepWInv

\* An abort raises a flag that no author and no hit looks at.
LEMMA AbortKeepsWInv ==
  ASSUME WInv, NEW c \in Calls, Abort(c)
  PROVE  WInv'
<1>1. job[c] \in Job /\ WikiTypeOK' /\ UNCHANGED <<lock, cache>> /\ Mishap
  BY DEF WInv, TypeOK, WikiTypeOK, Abort, wiki
<1> DEFINE cut == job[c].pc \in {"analyse", "generate"}
           j == [job[c] EXCEPT !.aborted = TRUE, !.cut = cut]
<1>2. cut \in BOOLEAN /\ Update(c, j)
  BY DEF Abort
<1> HIDE DEF cut
<1>3. j \in Job /\ j.pc = job[c].pc /\ Same(j, job[c])
  BY <1>1, <1>2 DEF Job, Same
<1> HIDE DEF j
<1>4. job' \in [Calls -> Job] /\ \A d \in Calls : job'[d].pc = job[d].pc /\ Same(job'[d], job[d])
  <2>1. \A d \in Calls : Same(job[d], job[d])
    BY DEF Same
  <2> QED
    BY <1>2, <1>3, <2>1, UpdateIsTyped DEF WInv
<1>5. TypeOK'
  BY <1>1, <1>4, MishapIsTyped DEF WInv, TypeOK, lock
<1>6. StageOfStep'
  BY <1>1, <1>4 DEF WInv, StageOfStep, At, Working, Calls, lock
<1>7. \A s, v, files : HasAuthor(job, s, v, files) => HasAuthor(job', s, v, files)
  BY <1>4 DEF HasAuthor, Author, Same, Calls
<1>8. EntriesHaveAuthors'
  BY <1>1, <1>7 DEF WInv, Authored, EntriesHaveAuthors
<1>9. HitsHaveAuthors' /\ OnlyIngestsSave'
  BY <1>4, <1>7 DEF WInv, Authored, HitsHaveAuthors, OnlyIngestsSave, At, Same
<1> QED
  BY <1>5, <1>6, <1>8, <1>9 DEF WInv, Authored

\* A call that is not at work becomes nobody's author.
LEMMA BeginningsKeepWInv ==
  ASSUME WInv, NEW c \in Calls, NEW j \in Job, Update(c, j),
         job[c].pc \in {"idle", "queued"}, j.pc \in {"queued", "read"}, j.hit = job[c].hit,
         UNCHANGED <<cache>>, TypeOK', StageOfStep'
  PROVE  WInv'
<1>1. /\ job'[c] = j
      /\ \A d \in Calls \ {c} : job'[d] = job[d]
  BY UpdateIsTyped DEF WInv
<1>2. \A s, v, files : HasAuthor(job, s, v, files) => HasAuthor(job', s, v, files)
  BY <1>1 DEF HasAuthor, Author, Calls
<1>3. ~job[c].hit
  BY EarlyIsNoHit DEF HitSteps
<1>4. EntriesHaveAuthors'
  BY <1>2 DEF WInv, Authored, EntriesHaveAuthors
<1>5. HitsHaveAuthors' /\ OnlyIngestsSave'
  BY <1>1, <1>2, <1>3 DEF WInv, Authored, HitsHaveAuthors, OnlyIngestsSave, At
<1> QED
  BY <1>4, <1>5 DEF WInv, Authored

\* An ingest is queued.
LEMMA EnterKeepsWInv ==
  ASSUME WInv, NEW c \in Ingests, Enter(c)
  PROVE  WInv'
<1>1. job[c] \in Job /\ WikiTypeOK' /\ UNCHANGED <<path, cache, mishaps>>
  BY DEF WInv, TypeOK, WikiTypeOK, Enter, wiki, Calls, Lock!TakeTicket
<1>2. PICK s \in Sources : Update(c, [job[c] EXCEPT !.pc = "queued", !.src = s])
  BY DEF Enter
<1> DEFINE j == [job[c] EXCEPT !.pc = "queued", !.src = s]
<1>3. j \in Job /\ j.pc = "queued" /\ j.hit = job[c].hit
  BY <1>1 DEF Job, Steps
<1> HIDE DEF j
<1>4. /\ job' \in [Calls -> Job]
      /\ job'[c].pc = "queued"
      /\ \A d \in Calls \ {c} : job'[d] = job[d]
  BY <1>2, <1>3, UpdateIsTyped DEF WInv, j, Calls
<1>5. /\ stage[c] = "idle" /\ stage'[c] = "waiting"
      /\ stage' \in [Ingests -> {"idle", "waiting", "running", "released"}]
      /\ \A d \in Ingests \ {c} : stage'[d] = stage[d]
  BY DEF WInv, TypeOK, Enter, Lock!TakeTicket
<1>6. TypeOK'
  BY <1>1, <1>4, <1>5 DEF WInv, TypeOK
<1>7. job[c].pc = "idle"
  BY <1>5 DEF WInv, StageOfStep, At
<1>8. StageOfStep'
  BY <1>4, <1>5 DEF WInv, StageOfStep, At, Working, Calls
<1> QED
  BY <1>1, <1>2, <1>3, <1>6, <1>7, <1>8, BeginningsKeepWInv DEF j, Calls

\* A call begins to work.
LEMMA BeginKeepsWInv ==
  ASSUME WInv, NEW c \in Calls, (c \in Ingests /\ Begin(c)) \/ BeginChat(c)
  PROVE  WInv'
<1>1. job[c] \in Job /\ WikiTypeOK' /\ UNCHANGED <<path, cache, mishaps>>
  BY DEF WInv, TypeOK, WikiTypeOK, Begin, BeginChat, wiki, lock, Lock!Hold
<1>2. PICK s \in Sources : Update(c, [job[c] EXCEPT !.pc = "read", !.src = s])
  <2>1. [job[c] EXCEPT !.pc = "read"] = [job[c] EXCEPT !.pc = "read", !.src = job[c].src]
        /\ job[c].src \in Sources
    BY <1>1 DEF Job
  <2> QED
    BY <2>1 DEF Begin, BeginChat, Goto
<1> DEFINE j == [job[c] EXCEPT !.pc = "read", !.src = s]
<1>3. j \in Job /\ j.pc = "read" /\ j.hit = job[c].hit
  BY <1>1 DEF Job, Steps
<1> HIDE DEF j
<1>4. /\ job' \in [Calls -> Job]
      /\ job'[c].pc = "read"
      /\ \A d \in Calls \ {c} : job'[d] = job[d]
  BY <1>2, <1>3, UpdateIsTyped DEF WInv, j
<1>5. /\ c \in Ingests => stage[c] = "waiting" /\ stage'[c] = "running"
      /\ stage' \in [Ingests -> {"idle", "waiting", "running", "released"}]
      /\ \A d \in Ingests \ {c} : stage'[d] = stage[d]
  BY CallAssumption DEF WInv, TypeOK, Begin, BeginChat, Lock!Hold, lock
<1>6. TypeOK'
  BY <1>1, <1>4, <1>5 DEF WInv, TypeOK
<1>7. job[c].pc \in {"idle", "queued"}
  BY <1>5 DEF BeginChat, WInv, StageOfStep, At
<1>8. StageOfStep'
  BY <1>4, <1>5 DEF WInv, StageOfStep, At, Working, Calls
<1> QED
  BY <1>1, <1>2, <1>3, <1>6, <1>7, <1>8, BeginningsKeepWInv DEF j

\* Nothing is in the cache at first.
LEMMA InitWInv == Init => WInv
<1> SUFFICES ASSUME Init PROVE WInv
  OBVIOUS
<1>1. TypeOK /\ StageOfStep
  BY InitIInv DEF IInv
<1>2. \A c \in Calls : job[c].pc = "idle" /\ ~job[c].hit
  BY DEF Init, IdleJob
<1>3. EntriesHaveAuthors
  BY DEF Init, EntriesHaveAuthors
<1> QED
  BY <1>1, <1>2, <1>3 DEF WInv, Authored, HitsHaveAuthors, OnlyIngestsSave, At

\* Every step leaves the entries and the hits their authors.
LEMMA NextKeepsWInv ==
  ASSUME WInv, [Next]_vars
  PROVE  WInv'
<1>1. ASSUME NEW c \in Calls, Work(c) PROVE WInv'
  BY <1>1, ReadInputsKeepsWInv, CheckCacheKeepsWInv, AnalyseKeepsWInv, GenerateKeepsWInv,
     DropBlockKeepsWInv, TakeBlockKeepsWInv, PutKeepsWInv, SummaryKeepsWInv, ImagesKeepWInv,
     SaveKeepsWInv, LeaveKeepsWInv
  DEF Work
<1>2. ASSUME NEW c \in Calls, BeginChat(c) \/ Abort(c) PROVE WInv'
  BY <1>2, BeginKeepsWInv, AbortKeepsWInv
<1>3. ASSUME NEW c \in Ingests, Enter(c) \/ Begin(c) PROVE WInv'
  BY <1>3, EnterKeepsWInv, BeginKeepsWInv DEF Calls
<1>4. CASE UNCHANGED vars
  <2>1. UNCHANGED <<stage, path, job, pages, index, log, cache, backups, mishaps>>
    BY <1>4 DEF vars, lock, wiki
  <2>2. TypeOK' /\ StageOfStep'
    BY <2>1 DEF WInv, TypeOK, WikiTypeOK, StageOfStep, At, Working
  <2>3. Authored'
    BY <2>1 DEF WInv, Authored, EntriesHaveAuthors, HitsHaveAuthors, OnlyIngestsSave, At
  <2> QED
    BY <2>2, <2>3 DEF WInv
<1> QED
  BY <1>1, <1>2, <1>3, <1>4, CrashKeepsWInv DEF Next

\* The variables keep their types, and a call that skips its work because the
\* source is in the cache answers with what another call has written of the
\* same content, in full: whatever failed, was aborted or crashed in between,
\* and however chats and unreadable files interfere.
THEOREM HitsAreWhole == Spec => []CacheIsWhole
<1>1. Init => WInv
  BY InitWInv
<1>2. WInv /\ [Next]_vars => WInv'
  BY NextKeepsWInv
<1>3. WInv => CacheIsWhole
  <2>1. SUFFICES ASSUME WInv, NEW c \in Ingests, job[c].hit
                 PROVE  \E d \in Ingests \ {c} :
                          /\ job[d].src = job[c].src /\ job[d].ver = job[c].ver /\ ~job[d].hit
                          /\ job[d].failed = {} /\ job[d].written = job[c].written
    BY DEF CacheIsWhole, HitIsWhole, WInv
  <2>2. PICK d \in Ingests : Author(job[d], job[c].src, job[c].ver, job[c].written)
    BY <2>1 DEF WInv, Authored, HitsHaveAuthors, HasAuthor, Calls
  <2>3. d # c
    BY <2>1, <2>2 DEF Author
  <2> QED
    BY <2>2, <2>3 DEF Author
<1> QED
  BY <1>1, <1>2, <1>3, PTL DEF Spec

\* The variables keep their types, in every behaviour.
THEOREM TypeCorrect == Spec => []TypeOK
<1>1. CacheIsWhole => TypeOK
  BY DEF CacheIsWhole
<1> QED
  BY <1>1, HitsAreWhole, PTL
=============================================================================

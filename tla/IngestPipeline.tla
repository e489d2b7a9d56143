--------------------------- MODULE IngestPipeline ---------------------------
(***************************************************************************)
(* What an ingest does to the wiki: autoIngest of src/lib/ingest.ts, run   *)
(* by the queue, Save-to-Wiki and deep research, and the chat's            *)
(* executeIngestWrites, which writes the same files.                       *)
(*                                                                         *)
(* autoIngest runs under the project lock; the lock is the abstract one of *)
(* TicketLock, which ProjectLock implements.  executeIngestWrites does not *)
(* take it.  An action is the code from one await to the next.             *)
(*                                                                         *)
(* A page is the set of calls whose text it holds ({}: no such file), the  *)
(* index the set of pages it lists, the log the set of calls it has an     *)
(* entry of.  The model's answer is external: its index lists what the     *)
(* prompt's index lists and the pages it comes with ("preserve all         *)
(* existing entries"), and a stream may end early, at max_tokens, at a     *)
(* lost connection or at an abort; a block that is not closed is dropped   *)
(* (parseFileBlocks).  overview.md is written as index.md is, and left out.*)
(***************************************************************************)
EXTENDS Naturals, FiniteSets

CONSTANTS
  Ingests,        \* calls of autoIngest, numbered in the order they arrive
  Chats,          \* calls of executeIngestWrites
  Project,        \* the one project; other projects share none of its files
  Sources, Versions,
  Shared,         \* concept and entity pages, which any source contributes to
  NoEntry,        \* a source without an entry in the ingest cache
  MaxMishaps,     \* aborts, crashes, writes and merges that fail, blocks that
                  \* are dropped or kept for review, and streams that end
                  \* early, in a behaviour (bound)
  ChatWaits,      \* assumption: the user writes a chat to the wiki only
                  \* while no ingest is under way
  ReliableReads   \* assumption: tryReadFile returns "" only when there is
                  \* no file (it swallows every error)

Calls == Ingests \cup Chats

ASSUME CallAssumption == Ingests \subseteq Nat /\ Ingests \cap Chats = {}
ASSUME FileAssumption ==
  /\ Sources # {} /\ Versions # {}
  /\ Sources \cap Shared = {}
  /\ {"index", "log"} \cap (Sources \cup Shared) = {}
  /\ NoEntry \notin [ver : Versions, files : SUBSET (Sources \cup Shared \cup {"index", "log"})]
ASSUME NumberAssumption == MaxMishaps \in Nat
ASSUME FlagAssumption == {ChatWaits, ReliableReads} \subseteq BOOLEAN

\* wiki/sources/<name>.md is known by its source.
Pages   == Sources \cup Shared
Files   == Pages \cup {"index", "log"}
Summary(s) == s

VARIABLES
  stage, path, ticket, clock,   \* the project lock
  job,                          \* call -> its local state
  pages, index, log, cache,     \* the files
  backups,                      \* .llm-wiki/page-history, of shared pages
  mishaps

lock    == <<stage, path, ticket, clock>>
wiki    == <<pages, index, log, cache, backups>>
vars    == <<lock, job, wiki, mishaps>>

Lock == INSTANCE TicketLock WITH Calls <- Ingests, Paths <- {Project}

Steps == {"idle", "queued", "read", "check", "analyse", "generate", "blocks", "put",
          "summary", "images", "inject", "save", "end", "done", "failed", "dead"}

Entry == [ver : Versions, files : SUBSET Files]

\* listing: the index put into the prompt, and then the one in the answer;
\* todo: the blocks of the answer not yet handled; held: what was read of the
\* file about to be written; review: pages the conflict gate kept back; cut:
\* aborted during a stream.  A field is reset once it is of no more use.
Job == [pc : Steps, src : Sources, ver : Versions, hit : BOOLEAN,
        listing : SUBSET Pages, todo : SUBSET Files,
        block : Files, held : SUBSET Calls, written : SUBSET Files,
        failed : SUBSET Files, review : SUBSET Pages,
        aborted : BOOLEAN, cut : BOOLEAN]

WikiTypeOK ==
  /\ pages \in [Pages -> SUBSET Calls]
  /\ index \subseteq Pages /\ log \subseteq Calls
  /\ cache \in [Sources -> Entry \cup {NoEntry}]
  /\ backups \subseteq Calls \X Shared

TypeOK ==
  /\ stage \in [Ingests -> {"idle", "waiting", "running", "released"}]
  /\ path \in [Ingests -> {Project}]
  /\ job \in [Calls -> Job]
  /\ WikiTypeOK
  /\ mishaps \in 0..MaxMishaps

IdleJob == [pc |-> "idle", src |-> CHOOSE s \in Sources : TRUE,
            ver |-> CHOOSE v \in Versions : TRUE, hit |-> FALSE,
            listing |-> {}, todo |-> {}, block |-> "log", held |-> {},
            written |-> {}, failed |-> {}, review |-> {},
            aborted |-> FALSE, cut |-> FALSE]

Init ==
  /\ Lock!Init
  /\ job = [c \in Calls |-> IdleJob]
  /\ pages = [p \in Pages |-> {}]
  /\ index = {} /\ log = {}
  /\ cache = [s \in Sources |-> NoEntry]
  /\ backups = {}
  /\ mishaps = 0

At(c, step) == job[c].pc = step
Update(c, j) == job' = [job EXCEPT ![c] = j]
Goto(c, step) == Update(c, [job[c] EXCEPT !.pc = step])
Over(c) == job[c].pc \in {"done", "failed", "dead"}
Underway(c) == job[c].pc # "idle" /\ ~Over(c)

Mishap == mishaps < MaxMishaps /\ mishaps' = mishaps + 1

-----------------------------------------------------------------------------
(***************************************************************************)
(* autoIngest up to the writes.                                            *)
(***************************************************************************)
Enter(c) ==
  /\ \A d \in Ingests : d < c => ~At(d, "idle")
  /\ Lock!TakeTicket(c)
  /\ \E s \in Sources : Update(c, [job[c] EXCEPT !.pc = "queued", !.src = s])
  /\ UNCHANGED <<wiki, mishaps>>

\* A call that does not wait for the calls before it.
BeginAtOnce(c) ==
  /\ stage[c] = "waiting"
  /\ stage' = [stage EXCEPT ![c] = "running"]
  /\ ChatWaits => \A d \in Chats : ~Underway(d)
  /\ Goto(c, "read")
  /\ UNCHANGED <<path, ticket, clock, wiki, mishaps>>

Begin(c) ==
  /\ Lock!Hold(c)
  /\ ChatWaits => \A d \in Chats : ~Underway(d)
  /\ Goto(c, "read")
  /\ UNCHANGED <<wiki, mishaps>>

\* A source edited between two calls is read in another version.
ReadInputs(c) ==
  /\ At(c, "read")
  /\ \E v \in IF c \in Ingests THEN Versions ELSE {job[c].ver},
        listing \in IF ReliableReads THEN {index} ELSE {index, {}} :
       Update(c, [job[c] EXCEPT !.pc = IF c \in Ingests THEN "check" ELSE "generate",
                           !.ver = v, !.listing = listing])
  /\ UNCHANGED <<lock, wiki, mishaps>>

\* checkIngestCache: the entry is for this content, and its files are there.
IsHit(s, v) ==
  /\ cache[s] # NoEntry
  /\ cache[s].ver = v
  /\ \A p \in cache[s].files \cap Pages : pages[p] # {}

CheckCache(c) ==
  /\ At(c, "check")
  /\ \/ /\ IsHit(job[c].src, job[c].ver)
        /\ Update(c, [job[c] EXCEPT !.pc = "images", !.hit = TRUE, !.listing = {},
                                   !.written = cache[job[c].src].files])
     \/ ~IsHit(job[c].src, job[c].ver) /\ Goto(c, "analyse")
  /\ UNCHANGED <<lock, wiki, mishaps>>

\* The first stream: whatever it says, even when it was aborted.
Analyse(c) == At(c, "analyse") /\ Goto(c, "generate") /\ UNCHANGED <<lock, wiki, mishaps>>

\* The end of a call: of an ingest, what it read and wrote is still known.
Remains(j, end) ==
  [IdleJob EXCEPT !.pc = end, !.src = j.src, !.ver = j.ver, !.hit = j.hit,
                  !.written = j.written, !.failed = j.failed, !.cut = j.cut]
Settle(c, end) ==
  Update(c, IF c \in Ingests THEN Remains(job[c], end) ELSE [IdleJob EXCEPT !.pc = end])

\* onError of either stream: the call throws, and the lock is released.  In
\* ThrowHolding it is not.
ThrowHolding(c) ==
  /\ c \in Ingests /\ job[c].pc \in {"analyse", "generate"}
  /\ Settle(c, "failed")
  /\ UNCHANGED <<lock, wiki, mishaps>>

Throw(c) ==
  /\ c \in Ingests /\ job[c].pc \in {"analyse", "generate"}
  /\ Lock!Leave(c)
  /\ Settle(c, "failed")
  /\ UNCHANGED <<wiki, mishaps>>

\* What a stream about source s yields: the blocks come in the prompt's order,
\* and end anywhere; the summary may be missing ("LLM may not have generated it
\* correctly").
Complete(s) == {Summary(s), "index", "log"} \cup Shared
Answers(s) ==
  {gen \in SUBSET Complete(s) : /\ "log" \in gen => "index" \in gen
                               /\ "index" \in gen => Shared \subseteq gen}

\* The index of an answer with blocks gen to a prompt with the index seen.
\* ListingOfBlocks takes the other blocks for pages.
ListingOfBlocks(seen, gen) == seen \cup gen
Listing(seen, gen) == seen \cup (gen \cap Pages)

\* The second stream.  When the signal was aborted before the call, streamChat
\* adds its listener too late to be told, and the stream runs to its end.
Generate(c) ==
  /\ At(c, "generate")
  /\ \E gen \in Answers(job[c].src) :
       /\ IF gen = Complete(job[c].src) THEN UNCHANGED mishaps ELSE Mishap
       /\ Update(c, [job[c] EXCEPT !.pc = "blocks", !.todo = gen,
                 !.listing = IF "index" \in gen THEN Listing(@, gen) ELSE {}])
  /\ UNCHANGED <<lock, wiki>>

-----------------------------------------------------------------------------
(***************************************************************************)
(* writeFileBlocks: each block is read, merged and written in turn.        *)
(***************************************************************************)
NextBlocks(todo) ==
  IF todo \cap Sources # {} THEN todo \cap Sources
  ELSE IF todo \cap Shared # {} THEN todo \cap Shared
  ELSE IF "index" \in todo THEN {"index"}
  ELSE todo

\* The language guard, for all but the log and source and entity pages.
DropBlock(c) ==
  /\ At(c, "blocks") /\ Mishap
  /\ \E b \in NextBlocks(job[c].todo) \cap (Shared \cup {"index"}) :
       Update(c, [job[c] EXCEPT !.todo = @ \ {b},
                           !.listing = IF b = "index" THEN {} ELSE @])
  /\ UNCHANGED <<lock, wiki>>

Existing(b) ==
  IF b = "log" THEN log ELSE IF b \in Pages THEN pages[b] ELSE {}

TakeBlock(c) ==
  /\ At(c, "blocks")
  /\ \E b \in NextBlocks(job[c].todo) :
     \E held \in IF ReliableReads THEN {Existing(b)} ELSE {Existing(b), {}} :
       Update(c, [job[c] EXCEPT !.pc = "put", !.todo = @ \ {b},
                           !.block = b, !.held = held])
  /\ UNCHANGED <<lock, wiki, mishaps>>

BlockOver(j) == [j EXCEPT !.pc = "blocks", !.block = "log", !.held = {},
                          !.listing = IF j.block = "index" THEN {} ELSE @]
Written(c) ==
  Update(c, [BlockOver(job[c]) EXCEPT !.written = @ \cup {job[c].block}])

PutIndex(c) ==
  /\ At(c, "put") /\ job[c].block = "index"
  /\ index' = job[c].listing
  /\ Written(c)
  /\ UNCHANGED <<lock, pages, log, cache, backups, mishaps>>

PutLog(c) ==
  /\ At(c, "put") /\ job[c].block = "log"
  /\ log' = job[c].held \cup {c}
  /\ Written(c)
  /\ UNCHANGED <<lock, pages, index, cache, backups, mishaps>>

\* A new page, one that is the same, and one the model has merged.
PutPage(c) ==
  LET p == job[c].block IN
  /\ At(c, "put") /\ p \in Pages
  /\ pages' = [pages EXCEPT ![p] = job[c].held \cup {c}]
  /\ Written(c)
  /\ UNCHANGED <<lock, index, log, cache, backups, mishaps>>

\* The merge has failed or was refused (an aborted stream has no front matter):
\* the new text replaces the old, which is backed up first.
PutPageWithoutBackup(c) ==
  LET p == job[c].block IN
  /\ At(c, "put") /\ p \in Pages /\ job[c].held # {} /\ Mishap
  /\ pages' = [pages EXCEPT ![p] = {c}]
  /\ Written(c)
  /\ UNCHANGED <<lock, index, log, cache, backups>>

PutPageUnmerged(c) ==
  LET p == job[c].block IN
  /\ At(c, "put") /\ p \in Pages /\ job[c].held # {} /\ Mishap
  /\ backups' = backups \cup (job[c].held \X ({p} \cap Shared))
  /\ pages' = [pages EXCEPT ![p] = {c}]
  /\ Written(c)
  /\ UNCHANGED <<lock, index, log, cache>>

\* The conflict gate decides "review-only".
KeepForReview(c) ==
  /\ At(c, "put") /\ job[c].block \in Pages /\ Mishap
  /\ Update(c, [BlockOver(job[c]) EXCEPT !.review = @ \cup {job[c].block}])
  /\ UNCHANGED <<lock, wiki>>

PutFails(c) ==
  /\ At(c, "put") /\ Mishap
  /\ Update(c, [BlockOver(job[c]) EXCEPT !.failed = @ \cup {job[c].block}])
  /\ UNCHANGED <<lock, wiki>>

BlocksDone(c) ==
  /\ At(c, "blocks") /\ job[c].todo = {}
  /\ Goto(c, IF c \in Ingests THEN "summary" ELSE "images")
  /\ UNCHANGED <<lock, wiki, mishaps>>

-----------------------------------------------------------------------------
(***************************************************************************)
(* After the blocks.                                                       *)
(***************************************************************************)
\* hasSourceSummary: some page under wiki/sources/ was written.
NeedsSummary(c) == job[c].written \cap Sources = {} /\ ~job[c].aborted

SkipSummary(c) ==
  /\ At(c, "summary") /\ ~NeedsSummary(c)
  /\ Goto(c, "images")
  /\ UNCHANGED <<lock, wiki, mishaps>>

\* The stub replaces whatever is there.
WriteSummary(c) ==
  LET p == Summary(job[c].src) IN
  /\ At(c, "summary") /\ NeedsSummary(c)
  /\ pages' = [pages EXCEPT ![p] = {c}]
  /\ Update(c, [job[c] EXCEPT !.pc = "images", !.written = @ \cup {p}])
  /\ UNCHANGED <<lock, index, log, cache, backups, mishaps>>

SummaryFails(c) ==
  /\ At(c, "summary") /\ NeedsSummary(c) /\ Mishap
  /\ Goto(c, "images")
  /\ UNCHANGED <<lock, wiki>>

AfterImages(c) == IF c \in Ingests /\ ~job[c].hit THEN "save" ELSE "end"

\* No images, captioning switched off, or an abort (not looked at on a hit).
SkipImages(c) ==
  /\ At(c, "images")
  /\ Goto(c, AfterImages(c))
  /\ UNCHANGED <<lock, wiki, mishaps>>

ReadForImages(c) ==
  /\ At(c, "images") /\ (job[c].aborted => job[c].hit)
  /\ Update(c, [job[c] EXCEPT !.pc = "inject", !.held = pages[Summary(job[c].src)]])
  /\ UNCHANGED <<lock, wiki, mishaps>>

\* The page as it was read with the image section appended, or a stub.
InjectImages(c) ==
  LET p    == Summary(job[c].src)
      text == IF job[c].held = {} THEN {c} ELSE job[c].held IN
  /\ At(c, "inject")
  /\ pages' = [pages EXCEPT ![p] = text]
  /\ Update(c, [job[c] EXCEPT !.pc = AfterImages(c), !.held = {}])
  /\ UNCHANGED <<lock, index, log, cache, backups, mishaps>>

InjectFails(c) ==
  /\ At(c, "inject") /\ Mishap
  /\ Update(c, [job[c] EXCEPT !.pc = AfterImages(c), !.held = {}])
  /\ UNCHANGED <<lock, wiki>>

\* CachesPartly forgets the blocks that could not be written.
CachesPartly(c) == job[c].written # {}
Caches(c) == job[c].written # {} /\ job[c].failed = {}

SaveCache(c) ==
  /\ At(c, "save") /\ Caches(c)
  /\ cache' = [cache EXCEPT ![job[c].src] = [ver |-> job[c].ver, files |-> job[c].written]]
  /\ Goto(c, "end")
  /\ UNCHANGED <<lock, pages, index, log, backups, mishaps>>

SkipCache(c) ==
  /\ At(c, "save") /\ ~Caches(c)
  /\ Goto(c, "end")
  /\ UNCHANGED <<lock, wiki, mishaps>>

SaveCacheFails(c) ==
  /\ At(c, "save") /\ Caches(c) /\ Mishap
  /\ Goto(c, "end")
  /\ UNCHANGED <<lock, wiki>>

End(c) ==
  /\ At(c, "end")
  /\ IF c \in Ingests THEN Lock!Leave(c) ELSE UNCHANGED lock
  /\ Settle(c, "done")
  /\ UNCHANGED <<wiki, mishaps>>

-----------------------------------------------------------------------------
(***************************************************************************)
(* The user and the machine.                                               *)
(***************************************************************************)
\* The button that writes a chat to the wiki.
BeginChat(c) ==
  /\ c \in Chats /\ At(c, "idle")
  /\ ChatWaits => \A d \in Calls : ~Underway(d)
  /\ \E s \in Sources : Update(c, [job[c] EXCEPT !.pc = "read", !.src = s])
  /\ UNCHANGED <<lock, wiki, mishaps>>

\* cancelTask, cancelAllTasks and pauseQueue abort the signal of an ingest.
Abort(c) ==
  /\ c \in Ingests /\ Underway(c) /\ ~job[c].aborted
  /\ Mishap
  /\ Update(c, [job[c] EXCEPT !.aborted = TRUE, !.cut = job[c].pc \in {"analyse", "generate"}])
  /\ UNCHANGED <<lock, wiki>>

\* The calls end where they stand; the next launch starts with a free lock.
Crash ==
  /\ Mishap
  /\ \E c \in Calls : Underway(c)
  /\ job' = [c \in Calls |-> IF Underway(c) THEN Remains(job[c], "dead") ELSE job[c]]
  /\ stage' = [c \in Ingests |-> IF stage[c] = "idle" THEN "idle" ELSE "released"]
  /\ UNCHANGED <<path, ticket, clock, wiki>>

Put(c) == PutIndex(c) \/ PutLog(c) \/ PutPage(c) \/ PutPageUnmerged(c)
          \/ KeepForReview(c) \/ PutFails(c)

Work(c) ==
  \/ ReadInputs(c) \/ CheckCache(c) \/ Analyse(c) \/ Throw(c) \/ Generate(c)
  \/ DropBlock(c) \/ TakeBlock(c) \/ Put(c) \/ BlocksDone(c)
  \/ SkipSummary(c) \/ WriteSummary(c) \/ SummaryFails(c)
  \/ SkipImages(c) \/ ReadForImages(c) \/ InjectImages(c) \/ InjectFails(c)
  \/ SaveCache(c) \/ SkipCache(c) \/ SaveCacheFails(c) \/ End(c)

Next ==
  \/ \E c \in Calls : Work(c) \/ BeginChat(c) \/ Abort(c)
  \/ \E c \in Ingests : Enter(c) \/ Begin(c)
  \/ Crash

Spec == Init /\ [][Next]_vars

\* A request is answered, if only by the timeout of streamChat, and a file
\* operation returns.  Nobody has to click, abort or crash.
FairSpec ==
  /\ Spec
  /\ \A c \in Calls : WF_vars(Work(c))
  /\ \A c \in Ingests : WF_vars(Begin(c))

-----------------------------------------------------------------------------
(***************************************************************************)
(* Properties.                                                             *)
(***************************************************************************)
\* No call takes out of the index, or the log, what another has put there:
\* each reads them only once the one before has written them, across aborts,
\* failed writes and crashes (project-mutex.ts:4-17).
NoEntryLost == [][index \subseteq index' /\ log \subseteq log']_vars

\* The text a call has put on a concept or entity page stays there, or goes to
\* a backup of it: "solves silent data loss across re-ingests"
\* (page-merge.ts:2-5).  Source pages are left out: see RiskyWriteSkipped.
NoContributionLost ==
  [][\A c \in Calls, p \in Shared :
       c \in pages[p] => c \in pages'[p] \/ <<c, p>> \in backups']_vars

\* A call that skips its work because the source is in the cache answers with
\* what another call has written of the same content, and that call had no block
\* that could not be written (ingest.ts:700-707), whatever failed or crashed
\* in between.
HitIsWhole ==
  \A c \in Ingests : job[c].hit =>
    \E d \in Ingests \ {c} :
      /\ job[d].src = job[c].src /\ job[d].ver = job[c].ver /\ ~job[d].hit
      /\ job[d].failed = {} /\ job[d].written = job[c].written

\* Every variable has its type, and a hit is whole.
CacheIsWhole == TypeOK /\ HitIsWhole

\* Every call of autoIngest settles, whatever its streams and writes do, and
\* lets the next one in (project-mutex.ts:27-31).
EveryIngestEnds == \A c \in Ingests : stage[c] = "waiting" ~> stage[c] = "released"

\* "If the signal was aborted [...] the LLM streams returned empty via the abort
\* fast-path [...].  Returning no files lets processNext's length-0 safety net
\* mark the task for retry" (ingest.ts:646-651).
AbortedIngestReturnsNothing ==
  \A c \in Ingests : At(c, "done") /\ job[c].cut => job[c].written = {}

\* "risky writes skip direct overwrite, create or expose review handoff"
\* (README.md:285): while the call that was told to keep a page for review
\* runs, the page stays as it is.
RiskyWriteSkipped ==
  [][\A c \in Calls : ~Over(c) =>
       \A p \in job[c].review : pages[p] # {} => pages'[p] = pages[p]]_vars

-----------------------------------------------------------------------------
(***************************************************************************)
(* Why NoEntryLost and NoContributionLost hold, under ChatWaits and        *)
(* ReliableReads: one call works at a time, and what it is going to write  *)
(* contains what it will replace.                                          *)
(***************************************************************************)
Working(c) == job[c].pc \notin {"idle", "queued", "done", "failed", "dead"}

StageOfStep ==
  \A c \in Ingests :
    /\ At(c, "idle") <=> stage[c] = "idle"
    /\ At(c, "queued") <=> stage[c] = "waiting"
    /\ Working(c) <=> stage[c] = "running"
ChatsNeverQueue == \A c \in Chats : ~At(c, "queued")
OneAtATime == \A c, d \in Calls : Working(c) /\ Working(d) => c = d

IndexToCome(j) ==
  \/ j.pc \in {"check", "analyse", "generate"}
  \/ j.pc \in {"blocks", "put"} /\ "index" \in j.todo
  \/ j.pc = "put" /\ j.block = "index"
IndexIsKnown == \A c \in Calls : IndexToCome(job[c]) => index \subseteq job[c].listing
HeldIsKnown == \A c \in Calls : At(c, "put") => Existing(job[c].block) \subseteq job[c].held
BlockOnce == \A c \in Calls : At(c, "put") => job[c].block \notin job[c].todo

IInv == TypeOK /\ StageOfStep /\ ChatsNeverQueue /\ OneAtATime
        /\ IndexIsKnown /\ HeldIsKnown /\ BlockOnce
=============================================================================

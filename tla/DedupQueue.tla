----------------------------- MODULE DedupQueue -----------------------------
(***************************************************************************)
(* The merging of duplicate pages: the queue of confirmed merges           *)
(* (src/lib/dedup-queue.ts), the merge itself, which rewrites the wiki     *)
(* file by file and takes no lock (executeMerge in dedup-runner.ts), and    *)
(* what it computes (mergeDuplicateGroup in dedup.ts).                     *)
(*                                                                         *)
(* A runner is one call of processNext, from the await it stands at; what  *)
(* a call of processNext begins when another operation ends in it is the   *)
(* step Kick.  The project is open or not: a queue of another project     *)
(* looks the same to this one as no queue.                                 *)
(*                                                                         *)
(* A page is the facts it tells and the keys (normalised slugs, titles)    *)
(* it refers to; an answer of the model that was cut short tells nothing.  *)
(***************************************************************************)
EXTENDS Naturals, Sequences, FiniteSets, SequencesExt

CONSTANTS
  Runners,      \* calls of processNext at once (bound)
  Pages, Index, \* the wiki pages and wiki/index.md
  Keys, Slug, Title,  \* normalised names; page -> its slug, page -> its title
  Merges,       \* the merges a user may confirm: [group, canonical] records
  Refs,         \* file -> the keys it refers to at the start
  Absent, None, \* no file; no runner
  MaxRetries,   \* MAX_RETRIES
  MaxTasks,     \* tasks ever enqueued (bound)
  MaxClicks,    \* retries, cancels, edits, pauses and settings changes (bound)
  MaxMishaps,   \* failed file operations, failed streams and crashes (bound)
  Assumed       \* assumptions on the users, any of
                \* "quietWiki": nobody edits a page while a merge is running
                \* "quickStarts": while a call of processNext is between its
                \*   look at `processing` and its claim, nothing else happens

Files == Pages \cup {Index}
Facts == Pages \cup {0}     \* a page's own facts; 0 is what a user has added
Content == [facts : SUBSET Facts, refs : SUBSET Keys]

ASSUME NameAssumption ==
  /\ Index \notin Pages /\ 0 \notin Pages
  /\ Slug \in [Pages -> Keys] /\ Title \in [Pages -> Keys]
  /\ Refs \in [Files -> SUBSET Keys] /\ Absent \notin Content /\ None \notin Runners
ASSUME MergeAssumption ==
  \A m \in Merges : m.group \subseteq Pages /\ m.canonical \in m.group /\ Cardinality(m.group) >= 2
ASSUME BoundAssumption == {MaxRetries, MaxTasks, MaxClicks, MaxMishaps} \subseteq Nat
ASSUME AssumedAssumption == Assumed \subseteq {"quietWiki", "quickStarts"}

VARIABLES
  open,       \* currentProjectId is this project's
  queue,      \* the tasks in memory
  processing, controller,  \* controller: the runner whose AbortController is kept
  saved,      \* dedup-queue.json
  visits,     \* how often the queue was loaded: tells task objects apart
  usable,     \* hasUsableLlm of the present settings
  runner,     \* the calls of processNext in flight
  file,       \* the wiki on disk
  history,    \* contents in .llm-wiki/page-history
  enqueued, clicks, mishaps, \* bounds
  halted,     \* history: the last call gave up for want of a usable model
  disturbed,  \* history: a running merge was cancelled or left
  mergedAway, \* history: pages deleted by a merge
  canonicals, \* history: pages merged into
  spoiled     \* history: pages of merges that failed or overlapped another

queueVars == <<open, queue, processing, controller, saved, visits>>
bounds    == <<enqueued, clicks, mishaps>>
notes     == <<halted, disturbed>>
marks     == <<mergedAway, canonicals, spoiled>>
vars == <<queueVars, usable, runner, file, history, bounds, notes, marks>>

Status == {"pending", "processing", "failed"}
Task == [id : 1..MaxTasks, merge : Merges, status : Status, tries : Nat]
NoTask == [id |-> 0, merge |-> CHOOSE m \in Merges : TRUE, status |-> "failed", tries |-> 0]
Free == [pc |-> "idle", task |-> NoTask, visit |-> 0, aborted |-> FALSE,
         read |-> <<>>, new |-> {}, todo |-> {}]
Writing == {"backup", "canonical", "rewrite", "delete", "index"}
Merging == {"load", "stream"} \cup Writing
Busy    == {r \in Runners : runner[r].pc \in Merging}
Runner  == [pc : {"idle", "kick", "lookup", "marked", "done"} \cup Merging, task : Task \cup {NoTask},
            visit : Nat, aborted : BOOLEAN, read : {<<>>} \cup [Files -> Content \cup {Absent}],
            new : SUBSET Content, todo : SUBSET Files]

TypeOK ==
  /\ {open, processing, usable, halted, disturbed} \subseteq BOOLEAN
  /\ queue \in Seq(Task) /\ saved \in Seq(Task) /\ visits \in Nat
  /\ controller \in Runners \cup {None}
  /\ runner \in [Runners -> Runner]
  /\ file \in [Files -> Content \cup {Absent}]
  /\ history \subseteq Content
  /\ enqueued \in 0..MaxTasks /\ clicks \in 0..MaxClicks /\ mishaps \in 0..MaxMishaps
  /\ mergedAway \cup canonicals \cup spoiled \subseteq Pages

Init ==
  /\ open = TRUE /\ queue = <<>> /\ saved = <<>> /\ visits = 1
  /\ processing = FALSE /\ controller = None /\ usable = TRUE
  /\ runner = [r \in Runners |-> Free]
  /\ file = [f \in Files |-> [facts |-> {f} \cap Pages, refs |-> Refs[f]]]
  /\ history = {}
  /\ enqueued = 0 /\ clicks = 0 /\ mishaps = MaxMishaps
  /\ halted = FALSE /\ disturbed = FALSE /\ mergedAway = {} /\ canonicals = {} /\ spoiled = {}

-----------------------------------------------------------------------------
Names(ps) == {Slug[p] : p \in ps} \cup {Title[p] : p \in ps}
Exists(f) == file[f] # Absent
Mishap    == mishaps > 0 /\ mishaps' = mishaps - 1
Fine      == UNCHANGED mishaps

\* Writing through a runner's reference to its task: the object is in the queue
\* unless the task was removed or the queue was loaded again in the meantime.
Through(r, Change(_)) ==
  queue' = [i \in DOMAIN queue |->
              IF queue[i].id = runner[r].task.id /\ runner[r].visit = visits
              THEN Change(queue[i]) ELSE queue[i]]
SetStatus(r, status) == Through(r, LAMBDA t : [t EXCEPT !.status = status])

\* saveQueue: what is in memory now; a failed write is swallowed.
SaveQueue == (saved' = queue' /\ Fine) \/ (UNCHANGED saved /\ Mishap)

FirstPending == SelectInSeq(queue, LAMBDA t : t.status = "pending")

-----------------------------------------------------------------------------
(***************************************************************************)
(* Operations of the user.  Each ends in a save and a call of processNext. *)
(***************************************************************************)
Click ==
  open /\ clicks < MaxClicks /\ clicks' = clicks + 1

ThenKick(r) == runner[r].pc = "idle" /\ runner' = [runner EXCEPT ![r] = [Free EXCEPT !.pc = "kick"]]

\* A merge of the same pages that is in the queue, failed ones included, is kept.
enqueueMerge(m, r) ==
  /\ open /\ enqueued < MaxTasks
  /\ \A i \in DOMAIN queue : queue[i].merge.group # m.group
  /\ enqueued' = enqueued + 1
  /\ queue' = Append(queue, [id |-> enqueued + 1, merge |-> m, status |-> "pending", tries |-> 0])
  /\ SaveQueue /\ ThenKick(r)
  /\ UNCHANGED <<open, processing, controller, visits, usable, file, history, clicks, notes, marks>>

\* Of any task: the list on the screen is up to a second old.
retryTask(i, r) ==
  /\ Click
  /\ queue' = [queue EXCEPT ![i].status = "pending", ![i].tries = 0]
  /\ SaveQueue /\ ThenKick(r)
  /\ UNCHANGED <<open, processing, controller, visits, usable, file, history, enqueued, notes, marks>>

\* Abort the kept controller: only a stream that has begun takes notice.
Aborted == [r \in Runners |-> IF r = controller /\ runner[r].pc = "stream"
                              THEN [runner[r] EXCEPT !.aborted = TRUE] ELSE runner[r]]

cancelTask(i, r) ==
  /\ Click /\ runner[r].pc = "idle"
  /\ IF queue[i].status = "processing"
     THEN /\ runner' = [Aborted EXCEPT ![r] = [Free EXCEPT !.pc = "kick"]]
          /\ controller' = None /\ processing' = FALSE /\ disturbed' = TRUE
     ELSE ThenKick(r) /\ UNCHANGED <<controller, processing, disturbed>>
  /\ queue' = RemoveAt(queue, i)
  /\ SaveQueue
  /\ UNCHANGED <<open, visits, usable, file, history, enqueued, halted, marks>>

\* Leaving the project.
pauseQueue ==
  /\ Click
  /\ runner' = Aborted /\ controller' = None /\ processing' = FALSE
  /\ LET paused == [i \in DOMAIN queue |->
                      IF queue[i].status = "processing" THEN [queue[i] EXCEPT !.status = "pending"]
                      ELSE queue[i]]
     IN (saved' = paused /\ Fine) \/ (UNCHANGED saved /\ Mishap)
  /\ queue' = <<>> /\ open' = FALSE
  /\ disturbed' = (disturbed \/ processing)
  /\ UNCHANGED <<visits, usable, file, history, enqueued, halted, marks>>

\* Opening it again.
restoreQueue(r) ==
  /\ ~open /\ open' = TRUE /\ visits' = visits + 1
  /\ processing' = FALSE /\ controller' = None
  /\ queue' = [i \in DOMAIN saved |->
                 IF saved[i].status = "processing" THEN [saved[i] EXCEPT !.status = "pending"]
                 ELSE saved[i]]
  /\ SaveQueue
  /\ IF \E i \in DOMAIN queue' : queue'[i].status = "pending" THEN ThenKick(r) ELSE UNCHANGED runner
  /\ UNCHANGED <<usable, file, history, enqueued, clicks, notes, marks>>

\* The model is set up or taken away; a page gets a fact from another writer.
ChangeSettings ==
  /\ Click /\ usable' = ~usable
  /\ UNCHANGED <<queueVars, runner, file, history, enqueued, mishaps, notes, marks>>

Edit(p) ==
  /\ Click /\ Exists(p)
  /\ "quietWiki" \in Assumed => Busy = {}
  /\ file' = [file EXCEPT ![p].facts = @ \cup {0}]
  /\ UNCHANGED <<queueVars, usable, runner, history, enqueued, mishaps, notes, marks>>

-----------------------------------------------------------------------------
(***************************************************************************)
(* processNext, up to the merge.                                           *)
(***************************************************************************)
Idle(r) == runner' = [runner EXCEPT ![r] = Free]
GoTo(r, pc) == runner' = [runner EXCEPT ![r].pc = pc]

KickAnyway(r) ==
  /\ runner[r].pc \in {"kick", "done"} /\ open
  /\ IF FirstPending # 0
     THEN runner' = [runner EXCEPT ![r] = [Free EXCEPT !.pc = "lookup",
                       !.task = queue[FirstPending], !.visit = visits]]
     ELSE Idle(r)
  /\ UNCHANGED <<queueVars, usable, file, history, bounds, notes, marks>>

\* Up to the first await.  A runner that has ended calls processNext again.
Kick(r) ==
  /\ runner[r].pc = "kick" \/ (runner[r].pc = "done" /\ open)
  /\ LET free == runner[r].pc = "done" \/ ~processing IN
       /\ processing' = (processing /\ runner[r].pc # "done")
       /\ IF free /\ open /\ FirstPending # 0
          THEN runner' = [runner EXCEPT ![r] = [Free EXCEPT !.pc = "lookup",
                            !.task = queue[FirstPending], !.visit = visits]]
          ELSE Idle(r)
       /\ halted' = (halted /\ ~(free /\ open))
  /\ UNCHANGED <<open, queue, controller, saved, visits, usable, file, history, bounds, disturbed, marks>>

\* A run that ends in another project clears the flag of that one; seen from
\* here it just ends.
EndElsewhere(r) ==
  /\ runner[r].pc = "done" /\ ~open
  /\ Idle(r)
  /\ UNCHANGED <<queueVars, usable, file, history, bounds, notes, marks>>

\* The registry has answered; `processing` is not looked at again.
Lookup(r) ==
  /\ runner[r].pc = "lookup"
  /\ IF ~open THEN Idle(r) /\ UNCHANGED <<queue, processing, saved, mishaps>>
     ELSE \/ /\ Mishap /\ SetStatus(r, "failed")
             /\ saved' = queue' /\ GoTo(r, "kick") /\ UNCHANGED processing
          \/ /\ processing' = TRUE /\ SetStatus(r, "processing")
             /\ SaveQueue /\ GoTo(r, "marked")
  /\ UNCHANGED <<open, controller, visits, usable, file, history, enqueued, clicks, notes, marks>>

\* Saved.  Without a usable model the task fails and nothing else is begun.
Marked(r) ==
  /\ runner[r].pc = "marked"
  /\ CASE ~open -> Idle(r) /\ UNCHANGED <<queue, processing, controller, saved, mishaps, halted>>
       [] open /\ ~usable ->
            /\ SetStatus(r, "failed")
            /\ processing' = FALSE /\ halted' = TRUE
            /\ SaveQueue /\ Idle(r) /\ UNCHANGED controller
       [] open /\ usable ->
            /\ controller' = r /\ GoTo(r, "load")
            /\ UNCHANGED <<queue, processing, saved, mishaps, halted>>
  /\ UNCHANGED <<open, visits, usable, file, history, enqueued, clicks, disturbed, marks>>

-----------------------------------------------------------------------------
(***************************************************************************)
(* executeMerge.                                                           *)
(***************************************************************************)
Group(r)     == runner[r].task.merge.group
Canonical(r) == runner[r].task.merge.canonical
Gone(r)      == Group(r) \ {Canonical(r)}
Read(r)      == {f \in Files : runner[r].read[f] # Absent}

\* Plausible bugs that the properties must catch stand next to the definition
\* they are variants of; no specification uses them.
FailureForever(r) ==
  /\ spoiled' = spoiled \cup Group(r)
  /\ controller' = None /\ Through(r, LAMBDA t : [t EXCEPT !.tries = @ + 1, !.status = "pending"])
  /\ saved' = queue' /\ GoTo(r, "done")
FailureReturns(r) ==
  /\ spoiled' = spoiled \cup Group(r)
  /\ SetStatus(r, "failed") /\ saved' = queue' /\ Idle(r) /\ UNCHANGED controller

\* What a failure does: an error for the task, one try less.
Failure(r) ==
  /\ spoiled' = spoiled \cup Group(r)
  /\ IF ~open THEN Idle(r) /\ UNCHANGED <<queue, saved, controller>>
     ELSE /\ controller' = None
          /\ Through(r, LAMBDA t : [t EXCEPT !.tries = @ + 1,
                           !.status = IF t.tries + 1 >= MaxRetries THEN "failed" ELSE "pending"])
          /\ saved' = queue' /\ GoTo(r, "done")

QueueStays == UNCHANGED <<queue, saved, controller>>

\* All pages are read; a page of the group that is missing ends the merge.
Load(r) ==
  /\ runner[r].pc = "load"
  /\ IF \E p \in Group(r) : ~Exists(p) THEN Failure(r)
     ELSE /\ runner' = [runner EXCEPT ![r].pc = "stream", ![r].read = file]
          /\ spoiled' = IF Busy = {r} THEN spoiled ELSE spoiled \cup UNION {Group(s) : s \in Busy}
          /\ QueueStays
  /\ UNCHANGED <<open, processing, visits, usable, file, history, bounds, notes, mergedAway, canonicals>>

RedirectSlugs(refs, r) ==
  IF refs \cap {Slug[p] : p \in Gone(r)} = {} THEN refs
  ELSE (refs \ {Slug[p] : p \in Gone(r)}) \cup {Slug[Canonical(r)]}

\* rewriteCrossReferences: slugs and titles of the pages merged away become the
\* slug of the canonical page.
Redirect(refs, r) ==
  IF refs \cap Names(Gone(r)) = {} THEN refs
  ELSE (refs \ Names(Gone(r))) \cup {Slug[Canonical(r)]}

Rewritten(r) == {f \in Read(r) \ Group(r) : Redirect(runner[r].read[f].refs, r) # runner[r].read[f].refs}

Union(r, field) == UNION {runner[r].read[p][field] : p \in Group(r)}

\* The answer is whole, or cut short by an abort, which streamChat reports as a
\* normal end: the reference arrays are then merged into whatever front matter
\* has come through.  Or the stream fails.
Answer(r) ==
  /\ runner[r].pc = "stream"
  /\ \/ /\ \E facts \in {Union(r, "facts")} \cup (IF runner[r].aborted THEN {{}} ELSE {}),
              refs \in {Union(r, "refs")} \cup (IF runner[r].aborted THEN {{}} ELSE {}) :
             runner' = [runner EXCEPT ![r].pc = "backup", ![r].new = {[facts |-> facts, refs |-> refs]}]
        /\ Fine /\ QueueStays /\ UNCHANGED spoiled
     \/ Mishap /\ Failure(r)
  /\ UNCHANGED <<open, processing, visits, usable, file, history, enqueued, clicks, notes,
                 mergedAway, canonicals>>

\* A write of the merge, or its failure.
Writes(r, ok) == (ok /\ Fine /\ QueueStays /\ UNCHANGED spoiled) \/ (Mishap /\ Failure(r) /\ UNCHANGED <<file, history, mergedAway, canonicals>>)

BackupCanonical(r) ==
  /\ runner[r].pc = "backup"
  /\ Writes(r, /\ history' = history \cup {runner[r].read[f] : f \in {Canonical(r)} \cup Rewritten(r)}
               /\ GoTo(r, "canonical")
               /\ UNCHANGED <<file, mergedAway, canonicals>>)
  /\ UNCHANGED <<open, processing, visits, usable, enqueued, clicks, notes>>

\* Every page that is about to change, as it was read.
Backup(r) ==
  /\ runner[r].pc = "backup"
  /\ Writes(r, /\ history' = history \cup {runner[r].read[f] : f \in Group(r) \cup Rewritten(r)}
               /\ GoTo(r, "canonical")
               /\ UNCHANGED <<file, mergedAway, canonicals>>)
  /\ UNCHANGED <<open, processing, visits, usable, enqueued, clicks, notes>>

WriteCanonical(r) ==
  /\ runner[r].pc = "canonical"
  /\ Writes(r, /\ \E new \in runner[r].new : file' = [file EXCEPT ![Canonical(r)] = new]
               /\ runner' = [runner EXCEPT ![r].pc = "rewrite", ![r].todo = Rewritten(r)]
               /\ canonicals' = canonicals \cup {Canonical(r)}
               /\ UNCHANGED <<history, mergedAway>>)
  /\ UNCHANGED <<open, processing, visits, usable, enqueued, clicks, notes>>

Rewrite(r) ==
  /\ runner[r].pc = "rewrite"
  /\ IF runner[r].todo = {}
     THEN /\ runner' = [runner EXCEPT ![r].pc = "delete", ![r].todo = Gone(r)]
          /\ UNCHANGED <<file, history, mergedAway, canonicals, spoiled, mishaps>> /\ QueueStays
     ELSE \E f \in runner[r].todo :
            Writes(r, /\ file' = [file EXCEPT ![f] =
                                    [runner[r].read[f] EXCEPT !.refs = Redirect(@, r)]]
                      /\ runner' = [runner EXCEPT ![r].todo = @ \ {f}]
                      /\ UNCHANGED <<history, mergedAway, canonicals>>)
  /\ UNCHANGED <<open, processing, visits, usable, enqueued, clicks, notes>>

\* A page that cannot be deleted is left, with a warning, and with what it
\* refers to.
DeleteMerged(r) ==
  /\ runner[r].pc = "delete"
  /\ IF runner[r].todo = {} THEN GoTo(r, "index") /\ UNCHANGED <<file, mergedAway, spoiled, mishaps>>
     ELSE \E p \in runner[r].todo :
            /\ runner' = [runner EXCEPT ![r].todo = @ \ {p}]
            /\ \/ /\ file' = [file EXCEPT ![p] = Absent] /\ Fine
                  /\ mergedAway' = mergedAway \cup {p} /\ UNCHANGED spoiled
               \/ /\ Mishap /\ UNCHANGED <<file, mergedAway>>
                  /\ spoiled' = spoiled \cup Group(r)
  /\ QueueStays
  /\ UNCHANGED <<open, processing, visits, usable, history, enqueued, clicks, notes, canonicals>>

\* rewriteIndexMd drops the entries that name a page merged away by its slug.
WithoutEntries(refs, r) == refs \ {Slug[p] : p \in Gone(r)}

\* The index as it was read, less those entries, replaces the redirected one.
\* Then the task is done.
RewriteIndex(r) ==
  /\ runner[r].pc = "index"
  /\ LET old == runner[r].read[Index]
         new == [old EXCEPT !.refs = WithoutEntries(@, r)]
     IN \/ /\ file' = IF new # old THEN [file EXCEPT ![Index] = new] ELSE file
           /\ UNCHANGED spoiled
           /\ IF ~open THEN Idle(r) /\ QueueStays /\ Fine
              ELSE /\ controller' = None
                   /\ queue' = RemoveFirstMatch(queue, LAMBDA t : t.id = runner[r].task.id)
                   /\ SaveQueue /\ GoTo(r, "done")
        \/ new # old /\ Mishap /\ Failure(r) /\ UNCHANGED file
  /\ UNCHANGED <<open, processing, visits, usable, history, enqueued, clicks, notes, mergedAway, canonicals>>

\* The application dies and is started again with the project open.
Crash ==
  /\ Mishap /\ open
  /\ spoiled' = spoiled \cup UNION {Group(r) : r \in Busy}
  /\ open' = FALSE /\ queue' = <<>> /\ processing' = FALSE /\ controller' = None
  /\ runner' = [r \in Runners |-> Free]
  /\ UNCHANGED <<saved, visits, usable, file, history, enqueued, clicks, notes, mergedAway, canonicals>>

User(r) ==
  \/ \E m \in Merges : enqueueMerge(m, r)
  \/ \E i \in DOMAIN queue : retryTask(i, r) \/ cancelTask(i, r)
  \/ restoreQueue(r)
Run(r) ==
  \/ Kick(r) \/ EndElsewhere(r) \/ Lookup(r) \/ Marked(r)
  \/ Load(r) \/ Answer(r) \/ Backup(r) \/ WriteCanonical(r) \/ Rewrite(r)
  \/ DeleteMerged(r) \/ RewriteIndex(r)

Undisturbed(r) ==
  "quickStarts" \in Assumed =>
    \A s \in Runners \ {r} : runner[s].pc \notin {"kick", "lookup", "done"}

Next ==
  \/ Undisturbed(None) /\ (pauseQueue \/ ChangeSettings \/ Crash \/ \E p \in Pages : Edit(p))
  \/ \E r \in Runners : Undisturbed(r) /\ (User(r) \/ Run(r))
Spec == Init /\ [][Next]_vars

-----------------------------------------------------------------------------
(***************************************************************************)
(* Properties.                                                             *)
(***************************************************************************)
\* Merges run one at a time (the maintenance section says so to the user), until
\* one that is running is cancelled or left: the run that was aborted clears the
\* `processing` flag of its successor when it ends.
OneAtATime == disturbed \/ Cardinality(Busy) <= 1

\* A pending task waits for a call in flight, and never for nothing, unless the
\* last call found no usable model (it returns without a look at the next task).
NoStrandedTask ==
  (open /\ FirstPending # 0) => halted \/ \E r \in Runners : runner[r].pc # "idle"

\* What a page has told is told by some page, or kept in the page history,
\* whatever is cancelled, aborted, failing or cut off, and though merges overlap.
Kept(x) == \/ \E f \in Files : Exists(f) /\ x \in file[f].facts
           \/ \E c \in history : x \in c.facts
NothingIsLost == [][\A x \in Facts : Kept(x) => Kept(x)']_vars

\* The names of pages that are no other page's slug; a duplicate often has the
\* canonical page's slug for a title, which goes on to be a good name.
OwnNames(ps) ==
  {n \in Keys : \E p \in ps : n \in Names({p}) /\ n \notin {Slug[q] : q \in Pages \ {p}}}

\* A page deleted by a merge is referred to no more, neither by slug nor by title,
\* and not by slug in the index; except from pages merged into, for their
\* references are merged and not redirected, and from pages about to be deleted with
\* it; and except by merges that failed, in part or altogether, or overlapped.
DeletedTogether(p, f) == \E r \in Runners : runner[r].pc \in Merging /\ {p, f} \subseteq Gone(r)
LinksFollow ==
  \A p \in mergedAway \ spoiled :
    /\ ~Exists(p)
    /\ \A f \in Pages \ canonicals :
         Exists(f) => file[f].refs \cap OwnNames({p}) = {} \/ DeletedTogether(p, f)
    /\ (\A r \in Runners : p \notin Group(r) \/ runner[r].pc \notin Merging)
         => Slug[p] \notin OwnNames({p}) \cap file[Index].refs

\* Merges run one at a time and a pending one always has something to wait for,
\* until the user cancels or leaves a merge that is running (dedup-queue.ts); and
\* what refers to a page that was merged away follows it (dedup-runner.ts).
MergesAreSound == TypeOK /\ OneAtATime /\ NoStrandedTask /\ LinksFollow

\* What cancelTask says of itself: "abort the LLM call first - the merge writes
\* will be left where they were when the abort fired".
CancelledMergeStops == \A r \in Runners : runner[r].aborted => runner[r].pc # "rewrite"

\* References are consistent after any merge, also in the page merged into and
\* by title in the index: refuted, a merged page keeps the references of the
\* group to itself, and the index is written back from before the redirection.
LinksConsistent ==
  Busy = {} => \A p \in mergedAway \ spoiled : ~Exists(p) =>
    \A f \in Files : Exists(f) => file[f].refs \cap OwnNames({p}) = {}

-----------------------------------------------------------------------------
(***************************************************************************)
(* The instance TLC checks: three pages that refer to each other by slug   *)
(* and by title, two merges that share one of them, and one of all three.  *)
(***************************************************************************)
ThreePages == 1..3
ThreeSlugs == <<"p slug", "q slug", "o slug">>
ThreeTitles == <<"P title", "o slug", "o slug">>
ThreeMerges == {[group |-> {1, 2}, canonical |-> 2], [group |-> {2, 3}, canonical |-> 3],
                [group |-> {1, 2, 3}, canonical |-> 3]}
ThreeRefs == [f \in ThreePages \cup {Index} |->
  IF f = Index THEN {"p slug", "P title", "q slug"} ELSE <<{"o slug"}, {"p slug"}, {"P title"}>>[f]]
Symmetry == Permutations(Runners)
=============================================================================

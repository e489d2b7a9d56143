----------------------------- MODULE WikiWriters -----------------------------
(***************************************************************************)
(* The writers of the wiki that take no lock: the deletion of pages with   *)
(* its sweep of references (src/lib/wiki-page-delete.ts), the deletion of  *)
(* a source (deleteSourceWithCascade in sources-view.tsx), the metadata    *)
(* patches of memory operations (memory-ops-executor.ts,                   *)
(* memory-ops-batch.ts) and their rollback (memory-ops-rollback.ts), beside *)
(* an ingest seen from outside (module IngestPipeline has its inside).     *)
(*                                                                         *)
(* A call in flight is a record that says at which await it stands; an     *)
(* action is the code from one await to the next.  A mishap is a file that *)
(* cannot be read, written or deleted; every caller here catches it and    *)
(* goes on, so what a call has failed to do is noted in `missed`.          *)
(*                                                                         *)
(* A page is its references (wikilinks and reference arrays alike), its    *)
(* sources, one metadata field and the ingests whose text it holds;        *)
(* index.md is a file whose references are its entries.  References name   *)
(* pages by keys, normalised slugs and titles; the aliases of a page are   *)
(* read and looked for with its title, which stands for them.  The vectors *)
(* of a page are in module VectorIndex.                                    *)
(***************************************************************************)
EXTENDS Naturals, FiniteSets

LOCAL INSTANCE TLC

CONSTANTS
  Calls,        \* calls in flight at once (bound)
  Pages, Index, \* the wiki pages and wiki/index.md
  Keys, Slug, Title,  \* normalised names; page -> its slug, page -> its title
  Sources, Metas,     \* source files; values of the patched field
  Absent,       \* the content of a file that does not exist
  Initial,      \* file -> its content at the start
  Batches,      \* the patches: pairs of a set of pages and a value (bound)
  MaxOps,       \* calls begun in a behaviour (bound)
  MaxMishaps,   \* failed file operations in a behaviour (bound)
  Assumed       \* assumptions on timing and failures, any of
                \* "shortWindows": while a call is between reading one file
                \*   and writing it, no other call acts
                \* "ingestWaits": an ingest overlaps none of the other calls
                \* "deletesSucceed": a file that exists can be deleted

Files == Pages \cup {Index}
Content == [refs : SUBSET Keys, sources : SUBSET Sources, meta : Metas, text : SUBSET (1..MaxOps)]

ASSUME NameAssumption ==
  /\ Index \notin Pages /\ Pages \cap Sources = {}
  /\ Slug \in [Pages -> Keys] /\ Title \in [Pages -> Keys]
ASSUME ContentAssumption ==
  /\ Absent \notin Content
  /\ Initial \in [Files -> Content \cup {Absent}] /\ Initial[Index] # Absent
  /\ Batches \subseteq (SUBSET Pages \ {{}}) \X Metas
ASSUME BoundAssumption == MaxOps \in Nat /\ MaxMishaps \in Nat
ASSUME AssumedAssumption == Assumed \subseteq {"shortWindows", "ingestWaits", "deletesSucceed"}

VARIABLES
  file,       \* the wiki on disk
  rawSources, \* the source files on disk
  cached,     \* sources with an entry in the ingest cache
  log,        \* the numbers of the calls with an entry in log.md
  lastBatch,  \* page -> the plan the UI keeps for a rollback, a partial function
  call,       \* the calls in flight
  issued,     \* how many calls have begun
  mishaps,    \* what is left of MaxMishaps
  missed      \* history: pairs <<what was deleted, file a failure left as it was>>

vars == <<file, rawSources, cached, log, lastBatch, call, issued, mishaps, missed>>

Plan == [before : Content, after : Content]
Idle == [pc |-> "idle", op |-> 0, source |-> {}, meta |-> {}, todo |-> {}, targets |-> {},
         keys |-> {}, gone |-> {}, at |-> Index, read |-> {}, plans |-> {}]
Stops == {"idle", "unlink", "fates", "keep", "names", "delete", "sweep", "rewrite", "log",
          "cache", "preview", "patch", "patching", "rollback", "restore", "stream"}

Call == [pc : Stops, op : 0..MaxOps, source : SUBSET Sources, meta : SUBSET Metas,
         todo : SUBSET Files, targets : SUBSET Pages, keys : SUBSET Keys, gone : SUBSET Pages,
         at : Files, read : SUBSET Content, plans : SUBSET (Pages \X Plan)]

TypeOK ==
  /\ file \in [Files -> Content \cup {Absent}] /\ file[Index] # Absent
  /\ rawSources \subseteq Sources /\ cached \subseteq Sources
  /\ log \subseteq 1..MaxOps
  /\ DOMAIN lastBatch \subseteq Pages /\ \A p \in DOMAIN lastBatch : lastBatch[p] \in Plan
  /\ call \in [Calls -> Call]
  /\ issued \in 0..MaxOps /\ mishaps \in 0..MaxMishaps
  /\ missed \subseteq (Pages \cup Sources) \X Files

Init ==
  /\ file = Initial
  /\ rawSources = Sources /\ cached = Sources
  /\ log = {}
  /\ lastBatch = [p \in {} |-> p]
  /\ call = [c \in Calls |-> Idle]
  /\ issued = 0 /\ mishaps = MaxMishaps
  /\ missed = {}

-----------------------------------------------------------------------------
(***************************************************************************)
(* Pieces of the actions.                                                  *)
(***************************************************************************)
Exists(f) == file[f] # Absent
Names(p)  == {Slug[p], Title[p]}
Mishap    == mishaps > 0 /\ mishaps' = mishaps - 1
NoMishap  == UNCHANGED mishaps

\* Between reading a file and writing it, with nothing but that one write left.
InWindow(c) == call[c].pc \in {"keep", "rewrite", "patching", "restore"}
Undisturbed(c) == "shortWindows" \in Assumed => \A d \in Calls \ {c} : ~InWindow(d)

Begin(c, r) ==
  /\ call[c].pc = "idle" /\ issued < MaxOps /\ Undisturbed(c)
  /\ "ingestWaits" \in Assumed => \A d \in Calls : call[d].pc # "stream"
  /\ issued' = issued + 1
  /\ call' = [call EXCEPT ![c] = [r EXCEPT !.op = issued + 1]]

At(c, pc) == call[c].pc = pc /\ Undisturbed(c) /\ UNCHANGED issued

\* The call goes on at pc with file f handled; with nothing left to handle the
\* loop's own continuation is taken by the action that follows it.
Handled(c, f) == [call[c] EXCEPT !.todo = @ \ {f}]
Return(c) == call' = [call EXCEPT ![c] = Idle]

\* Reading f: its content, or nothing, because it is gone or cannot be read.
Unreadable(f) == \/ ~Exists(f) /\ NoMishap
                 \/ Exists(f) /\ Mishap

Deleted(c) == IF call[c].source = {} THEN call[c].targets ELSE call[c].targets \cup call[c].source
Miss(whats, fs) == missed' = missed \cup (whats \X fs)

-----------------------------------------------------------------------------
(***************************************************************************)
(* cascadeDeleteWikiPagesWithRefs.                                         *)
(***************************************************************************)
\* The user deletes a page from the tree or from the lint view.
StartDelete(c, p) ==
  /\ Exists(p)
  /\ Begin(c, [Idle EXCEPT !.pc = "names", !.targets = {p}])
  /\ UNCHANGED <<file, rawSources, cached, log, lastBatch, mishaps, missed>>

\* The titles are read first; a page that cannot be read is known by its slug
\* only, and its title may go on dangling anywhere.
ReadNames(c) ==
  /\ At(c, "names")
  /\ \E unread \in SUBSET call[c].targets :
       /\ {p \in call[c].targets : ~Exists(p)} \subseteq unread
       /\ IF \A p \in unread : ~Exists(p) THEN NoMishap ELSE Mishap
       /\ call' = [call EXCEPT ![c].pc = "delete", ![c].todo = call[c].targets,
            ![c].keys = {Slug[p] : p \in call[c].targets}
                        \cup {Title[p] : p \in call[c].targets \ unread}]
       /\ missed' = (missed \ (call[c].targets \X Files)) \cup (unread \X Files)
  /\ UNCHANGED <<file, rawSources, cached, log, lastBatch>>

\* deleteFile of one target; a failure is logged and the loop goes on.
DeleteOne(c) ==
  /\ At(c, "delete")
  /\ \E p \in call[c].todo \cap Pages :
       \/ /\ Exists(p) /\ NoMishap
          /\ file' = [file EXCEPT ![p] = Absent]
          /\ call' = [call EXCEPT ![c] = [Handled(c, p) EXCEPT !.gone = @ \cup {p}]]
       \/ /\ IF Exists(p) THEN Mishap /\ "deletesSucceed" \notin Assumed ELSE NoMishap
          /\ call' = [call EXCEPT ![c] = Handled(c, p)]
          /\ UNCHANGED file
  /\ UNCHANGED <<rawSources, cached, log, lastBatch, missed>>

\* Plausible bugs that the properties must catch stand next to the definition
\* they are variants of; no specification uses them.
ListPagesOnly(c) ==
  /\ At(c, "delete") /\ call[c].todo = {} /\ NoMishap
  /\ call' = [call EXCEPT ![c].pc = "sweep", ![c].todo = {f \in Pages : Exists(f)} \ call[c].gone]
  /\ UNCHANGED <<file, rawSources, cached, log, lastBatch, missed>>

\* The wiki is listed.  A failed listing throws: the rest is not done.
List(c) ==
  /\ At(c, "delete") /\ call[c].todo = {}
  /\ \/ /\ NoMishap
        /\ call' = [call EXCEPT ![c].pc = "sweep",
                                ![c].todo = {f \in Files : Exists(f)} \ call[c].gone]
        /\ UNCHANGED missed
     \/ Mishap /\ Return(c) /\ Miss(Deleted(c), Files)
  /\ UNCHANGED <<file, rawSources, cached, log, lastBatch>>

\* One file of the sweep is read and, if it refers to a deleted page, rewritten.
Sweep(c) ==
  /\ At(c, "sweep")
  /\ \E f \in call[c].todo :
       \/ /\ Unreadable(f)
          /\ call' = [call EXCEPT ![c] = Handled(c, f)]
          /\ Miss(call[c].targets, {f})
       \/ /\ Exists(f) /\ NoMishap
          /\ call' = [call EXCEPT ![c] =
               IF file[f].refs \cap call[c].keys = {} THEN Handled(c, f)
               ELSE [Handled(c, f) EXCEPT !.pc = "rewrite", !.at = f, !.read = {file[f]}]]
          /\ UNCHANGED missed
  /\ UNCHANGED <<file, rawSources, cached, log, lastBatch>>

\* Writing back what was read, changed by an update; a failure leaves the file.
WriteBack(c, what, Update(_)) ==
  \/ /\ NoMishap
     /\ \E r \in call[c].read : file' = [file EXCEPT ![call[c].at] = Update(r)]
     /\ UNCHANGED missed
  \/ Mishap /\ UNCHANGED file /\ Miss(what, {call[c].at})

StripEveryRef(r, keys) == IF r.refs \cap keys = {} THEN r ELSE [r EXCEPT !.refs = {}]

\* cleanIndexListing and stripDeletedWikilinks, and the reference arrays.
StripRefs(r, keys) == [r EXCEPT !.refs = @ \ keys]

Rewrite(c) ==
  /\ At(c, "rewrite")
  /\ WriteBack(c, call[c].targets, LAMBDA r : StripRefs(r, call[c].keys))
  /\ call' = [call EXCEPT ![c].pc = "sweep", ![c].read = {}]
  /\ UNCHANGED <<rawSources, cached, log, lastBatch>>

\* The cascade is over: a source deletion goes on, a page deletion returns.
EndSweep(c) ==
  /\ At(c, "sweep") /\ call[c].todo = {}
  /\ IF call[c].source = {} THEN Return(c) ELSE call' = [call EXCEPT ![c].pc = "log"]
  /\ UNCHANGED <<file, rawSources, cached, log, lastBatch, mishaps, missed>>

-----------------------------------------------------------------------------
(***************************************************************************)
(* deleteSourceWithCascade.                                                *)
(***************************************************************************)
\* find_related_wiki_pages: every page that names the source, and perhaps
\* others that merely mention it.
StartSource(c, s) ==
  /\ s \in rawSources
  /\ \E related \in SUBSET {p \in Pages : Exists(p)} :
       /\ {p \in Pages : Exists(p) /\ s \in file[p].sources} \subseteq related
       /\ Begin(c, [Idle EXCEPT !.pc = "unlink", !.source = {s}, !.todo = related])
  /\ UNCHANGED <<file, rawSources, cached, log, lastBatch, mishaps, missed>>

\* The source file goes first; if it cannot be deleted the call throws.
Unlink(c) ==
  /\ At(c, "unlink")
  /\ \/ /\ call[c].source \subseteq rawSources /\ NoMishap
        /\ rawSources' = rawSources \ call[c].source
        /\ call' = [call EXCEPT ![c].pc = "fates"]
     \/ /\ IF call[c].source \subseteq rawSources THEN Mishap ELSE NoMishap
        /\ Return(c) /\ UNCHANGED rawSources
  /\ UNCHANGED <<file, cached, log, lastBatch, missed>>

FateOfSoleOnly(sources, s) == IF sources = {s} THEN "delete" ELSE "skip"
FateBySource(sources, s) == IF s \in sources THEN "delete" ELSE "skip"

\* decidePageFate: "skip", "keep" with the other sources, or "delete".
Fate(sources, s) == IF s \notin sources THEN "skip" ELSE IF sources = {s} THEN "delete" ELSE "keep"

DecideFate(c) ==
  /\ At(c, "fates")
  /\ \E p \in call[c].todo, s \in call[c].source :
       \/ /\ Unreadable(p)
          /\ call' = [call EXCEPT ![c] = Handled(c, p)]
          /\ Miss({s}, {p})
       \/ /\ Exists(p) /\ NoMishap /\ UNCHANGED missed
          /\ call' = [call EXCEPT ![c] =
               CASE Fate(file[p].sources, s) = "skip" -> Handled(c, p)
                 [] Fate(file[p].sources, s) = "keep" ->
                      [Handled(c, p) EXCEPT !.pc = "keep", !.at = p, !.read = {file[p]}]
                 [] Fate(file[p].sources, s) = "delete" ->
                      [Handled(c, p) EXCEPT !.targets = @ \cup {p}]]
  /\ UNCHANGED <<file, rawSources, cached, log, lastBatch>>

Keep(c) ==
  /\ At(c, "keep")
  /\ WriteBack(c, call[c].source, LAMBDA r : [r EXCEPT !.sources = @ \ call[c].source])
  /\ call' = [call EXCEPT ![c].pc = "fates", ![c].read = {}]
  /\ UNCHANGED <<rawSources, cached, log, lastBatch>>

\* Pass 2: the pages to delete go through the cascade together.
EndFates(c) ==
  /\ At(c, "fates") /\ call[c].todo = {}
  /\ call' = [call EXCEPT ![c].pc = IF call[c].targets = {} THEN "log" ELSE "names"]
  /\ UNCHANGED <<file, rawSources, cached, log, lastBatch, mishaps, missed>>

\* log.md is read and written back with one more entry.  When the read fails
\* the catch takes the log for empty; when the write fails nothing happens.
AppendLog(c) ==
  /\ At(c, "log")
  /\ \/ NoMishap /\ log' = log \cup {call[c].op}
     \/ Mishap /\ log' \in {log, {call[c].op}}
  /\ call' = [call EXCEPT ![c].pc = "cache"]
  /\ UNCHANGED <<file, rawSources, cached, lastBatch, missed>>

RemoveFromIngestCache(c) ==
  /\ At(c, "cache")
  /\ \/ NoMishap /\ cached' = cached \ call[c].source
     \/ Mishap /\ UNCHANGED cached
  /\ Return(c)
  /\ UNCHANGED <<file, rawSources, log, lastBatch, missed>>

-----------------------------------------------------------------------------
(***************************************************************************)
(* Memory operations: preview, apply, roll back.                           *)
(***************************************************************************)
SetMeta(r, v) == [r EXCEPT !.meta = v]
\* createMetadataPatchPlan.
PlanFor(r, v) == [before |-> r, after |-> SetMeta(r, v)]

\* One suggestion or a batch: the same field value for some pages.
StartPatch(c, ps, v, pc) ==
  /\ Begin(c, [Idle EXCEPT !.pc = pc, !.todo = ps, !.meta = {v}])
  /\ UNCHANGED <<file, rawSources, cached, log, lastBatch, mishaps, missed>>

\* An item is read and planned; a failure becomes an item in error, without plan.
PlanItem(c) ==
  /\ \/ At(c, "preview") \/ At(c, "patch")
  /\ \E p \in call[c].todo, v \in call[c].meta :
       \/ Unreadable(p) /\ call' = [call EXCEPT ![c] = Handled(c, p)]
       \/ /\ Exists(p) /\ NoMishap
          /\ call' = [call EXCEPT ![c] =
               IF call[c].pc = "preview" \/ file[p].meta = v
               THEN [Handled(c, p) EXCEPT !.plans = @ \cup {<<p, PlanFor(file[p], v)>>}]
               ELSE [Handled(c, p) EXCEPT !.pc = "patching", !.at = p, !.read = {file[p]}]]
  /\ UNCHANGED <<file, rawSources, cached, log, lastBatch, missed>>

Patch(c) ==
  /\ At(c, "patching")
  /\ \E v \in call[c].meta, r \in call[c].read :
       \/ /\ NoMishap
          /\ file' = [file EXCEPT ![call[c].at] = SetMeta(r, v)]
          /\ call' = [call EXCEPT ![c].pc = "patch", ![c].read = {},
                                  ![c].plans = @ \cup {<<call[c].at, PlanFor(r, v)>>}]
       \/ Mishap /\ UNCHANGED file /\ call' = [call EXCEPT ![c].pc = "patch", ![c].read = {}]
  /\ UNCHANGED <<rawSources, cached, log, lastBatch, missed>>

\* setLastBatchResult: the results replace those of the batch before.
EndPatch(c) ==
  /\ \/ At(c, "preview") \/ At(c, "patch")
  /\ call[c].todo = {}
  /\ lastBatch' = [p \in {item[1] : item \in call[c].plans} |->
                     (CHOOSE item \in call[c].plans : item[1] = p)[2]]
  /\ Return(c)
  /\ UNCHANGED <<file, rawSources, cached, log, mishaps, missed>>

StartRollback(c, p) ==
  /\ p \in DOMAIN lastBatch
  /\ Begin(c, [Idle EXCEPT !.pc = "rollback", !.at = p, !.plans = {<<p, lastBatch[p]>>}])
  /\ UNCHANGED <<file, rawSources, cached, log, lastBatch, mishaps, missed>>

SafeIfPatched(content, plan) == content.meta = plan.after.meta

\* previewMemoryOpsRollback: safe only if the page holds what the patch wrote.
Safe(content, plan) == content = plan.after

CheckRollback(c) ==
  /\ At(c, "rollback")
  /\ \E item \in call[c].plans :
       \/ Unreadable(call[c].at) /\ Return(c)
       \/ /\ Exists(call[c].at) /\ NoMishap
          /\ IF Safe(file[call[c].at], item[2])
             THEN call' = [call EXCEPT ![c].pc = "restore"]
             ELSE Return(c)
  /\ UNCHANGED <<file, rawSources, cached, log, lastBatch, missed>>

RestorePlan(c) ==
  /\ At(c, "restore") /\ NoMishap
  /\ \E item \in call[c].plans : file' = [file EXCEPT ![call[c].at] = item[2]]
  /\ Return(c)
  /\ UNCHANGED <<rawSources, cached, log, lastBatch, missed>>

Restore(c) ==
  /\ At(c, "restore")
  /\ \/ /\ NoMishap
        /\ \E item \in call[c].plans : file' = [file EXCEPT ![call[c].at] = item[2].before]
     \/ Mishap /\ UNCHANGED file
  /\ Return(c)
  /\ UNCHANGED <<rawSources, cached, log, lastBatch, missed>>

-----------------------------------------------------------------------------
(***************************************************************************)
(* An ingest, from the reads that go into its prompts to its writes.       *)
(***************************************************************************)
BeginIngest(c, s, p) ==
  /\ s \in rawSources
  /\ "ingestWaits" \in Assumed => \A d \in Calls : call[d].pc = "idle"
  /\ Begin(c, [Idle EXCEPT !.pc = "stream", !.source = {s}, !.at = p,
                           !.read = {file[p]} \ {Absent}, !.keys = file[Index].refs])
  /\ UNCHANGED <<file, rawSources, cached, log, lastBatch, mishaps, missed>>

\* The page gets the source's text and a link to an existing page; the index,
\* as it was read, gets an entry.
EndIngest(c) ==
  /\ At(c, "stream")
  /\ "ingestWaits" \in Assumed => \A d \in Calls \ {c} : call[d].pc = "idle"
  /\ \E ref \in {Slug[q] : q \in {q \in Pages : Exists(q)}} \cup {Slug[call[c].at]} :
       LET new == [refs |-> {ref}, sources |-> call[c].source, text |-> {call[c].op},
                   meta |-> CHOOSE v \in Metas : TRUE]
           page == IF call[c].read = {} THEN {new}
                   ELSE {[r EXCEPT !.refs = @ \cup {ref}, !.sources = @ \cup call[c].source,
                                   !.text = @ \cup {call[c].op}] : r \in call[c].read}
       IN \E r \in page :
            file' = [file EXCEPT ![call[c].at] = r,
                                 ![Index].refs = call[c].keys \cup {Slug[call[c].at]}]
  /\ log' = log \cup {call[c].op}
  /\ cached' = cached \cup call[c].source
  /\ Return(c)
  /\ UNCHANGED <<rawSources, lastBatch, mishaps, missed>>

-----------------------------------------------------------------------------
Start(c) ==
  \/ \E p \in Pages : StartDelete(c, p) \/ StartRollback(c, p)
  \/ \E s \in Sources : StartSource(c, s) \/ \E p \in Pages : BeginIngest(c, s, p)
  \/ \E b \in Batches : StartPatch(c, b[1], b[2], "preview") \/ StartPatch(c, b[1], b[2], "patch")

Step(c) ==
  \/ ReadNames(c) \/ DeleteOne(c) \/ List(c) \/ Sweep(c) \/ Rewrite(c) \/ EndSweep(c)
  \/ Unlink(c) \/ DecideFate(c) \/ Keep(c) \/ EndFates(c) \/ AppendLog(c) \/ RemoveFromIngestCache(c)
  \/ PlanItem(c) \/ Patch(c) \/ EndPatch(c) \/ CheckRollback(c) \/ Restore(c)
  \/ EndIngest(c)

\* The application is closed or dies: what was in flight is not resumed.
Crash ==
  /\ mishaps > 0 /\ mishaps' = mishaps - 1
  /\ \E c \in Calls : call[c].pc # "idle"
  /\ call' = [c \in Calls |-> Idle]
  /\ lastBatch' = [p \in {} |-> p]
  /\ missed' = missed \cup UNION {Deleted(c) \X Files : c \in Calls}
  /\ UNCHANGED <<file, rawSources, cached, log, issued>>

Next == Crash \/ \E c \in Calls : Start(c) \/ Step(c)
Spec == Init /\ [][Next]_vars

-----------------------------------------------------------------------------
(***************************************************************************)
(* Properties.                                                             *)
(***************************************************************************)
\* A page that a cascade has deleted is referred to by no file, by slug or by
\* title, except the files the cascade has yet to sweep and those it could not
\* read or write (or all, when it could not read the title or was cut off).
Swept(p) == \E c \in Calls : p \in call[c].targets
NoDanglingRefs ==
  \A p \in Pages, f \in Files :
    (~Exists(p) /\ Initial[p] # Absent /\ Exists(f) /\ file[f].refs \cap Names(p) # {})
      => Swept(p) \/ <<p, f>> \in missed

\* A source that is gone is named by no page but those a failure left behind:
\* two deletions at once never write each other's source back.
NoGhostSource ==
  \A p \in Pages : Exists(p) =>
    \A s \in file[p].sources \ rawSources :
      <<s, p>> \in missed \/ \E c \in Calls : s \in call[c].source

\* What is deleted, page or source, is named nowhere any more, except where a
\* call failed half way (`missed` says where).
WhatIsDeletedIsForgotten == TypeOK /\ NoDanglingRefs /\ NoGhostSource

\* Deleting a source deletes no page that also has another source.
SharedPagesSurvive ==
  [][\A c \in Calls, p \in Pages :
       (call[c].source # {} /\ Exists(p) /\ p \in call'[c].gone \ call[c].gone)
          => file[p].sources \subseteq call[c].source]_vars

\* A link is taken out of a page only if no page of that name is left.
SurvivorsKeepTheirLinks ==
  [][\A f \in Files : (Exists(f) /\ file'[f] # Absent) =>
       \A k \in file[f].refs \ file'[f].refs : \A p \in Pages : k \in Names(p) => ~Exists(p)]_vars

\* Deleting a page or a source leaves the pages of others, and their links, alone.
SurvivorsAreIntact == SharedPagesSurvive /\ SurvivorsKeepTheirLinks

\* No text and no reference ever leaves an existing page by a rollback or a
\* patch: a rollback takes back its own patch, or nothing.
RollbackTakesBackItsPatchOnly ==
  [][\A c \in Calls : (call[c].pc \in {"restore", "patching"} /\ call'[c].pc # call[c].pc) =>
       LET f == call[c].at IN
         Exists(f) /\ file'[f] # Absent => SetMeta(file[f], file'[f].meta) = file'[f]]_vars

-----------------------------------------------------------------------------
(***************************************************************************)
(* The instance TLC checks: two pages that refer to each other by slug and *)
(* by title, one of a single source and one of two.                        *)
(***************************************************************************)
TwoSlugs  == [x \in {"p", "q"} |-> IF x = "p" THEN "p slug" ELSE "q slug"]
TwoTitles == [x \in {"p", "q"} |-> IF x = "p" THEN "P title" ELSE "q slug"]
TwoPages == [f \in {"p", "q", "index"} |->
  CASE f = "index" -> [refs |-> {"p slug", "q slug"}, sources |-> {}, meta |-> 0, text |-> {}]
    [] f = "p"     -> [refs |-> {"q slug"}, sources |-> {"s"}, meta |-> 0, text |-> {}]
    [] f = "q"     -> [refs |-> {"p slug", "P title"}, sources |-> {"s", "t"}, meta |-> 0, text |-> {}]]
TwoMetas == {0, 1}
TwoBatches == {<<{"p"}, 1>>, <<{"p", "q"}, 1>>}
Symmetry == Permutations(Calls)
=============================================================================

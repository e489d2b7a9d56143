------------------------------ MODULE MemoryOps ------------------------------
(***************************************************************************)
(* Memory Ops: what it concludes from a project, and the Maintenance page  *)
(* of the settings at work, which runs a patrol, shows its suggestions and *)
(* applies those the user takes one by one or as a batch, while pages are  *)
(* used, edited and reviewed.                                              *)
(*                                                                         *)
(* The rules: the life cycle and confidence of a page (lifecycle.ts), the  *)
(* evidence about it (memory-ops.ts), and the suggestions of a patrol      *)
(* (memory-ops-rules.ts), with the default policy (memory-ops-policy.ts).  *)
(* A snapshot is [pages, audit, open, today]: the front matter of each     *)
(* page; per page, how often the audit log tells of its use and of         *)
(* anything that reinforces it, and the day of the last of these; the      *)
(* pages with an open review item; the day.  Scores are in 1/10000.        *)
(*                                                                         *)
(* A suggestion carries the values it would set as the patrol saw them;    *)
(* applying it reads the page again but sets those values as they stand,   *)
(* and is itself an event the next patrol counts.                          *)
(***************************************************************************)
EXTENDS Integers, FiniteSets, SequencesExt, TLC

CONSTANTS
  Pages,    \* the wiki's pages, which are also their ids
  Ghost,    \* a link target that is no page
  None,     \* an absent field
  Stride    \* days from one day of the model to the next

Targets == Pages \cup {Ghost}
Tiers == {"working", "episodic", "semantic", "procedural", "archived"}
Statuses == {"ok", "needs-review", "stale", "contradicted"}
Relations == {"supersedes", "superseded_by", "contradicts", "supports"}

-----------------------------------------------------------------------------
(***************************************************************************)
(* lifecycle.ts: calculateLifecycleMetadata.                               *)
(***************************************************************************)
Least(a, b) == IF a < b THEN a ELSE b
Clamp(x) == IF x < 0 THEN 0 ELSE Least(x, 10000)

LifecycleFromType(type) == IF type \in {"query", "source"} THEN "episodic" ELSE "semantic"
Lifecycle(fm) == IF fm.lifecycle \in Tiers THEN fm.lifecycle ELSE LifecycleFromType(fm.type)

HalfLife(tier) == CASE tier = "procedural" -> 365 [] tier = "semantic" -> 180 [] OTHER -> 45

\* Pages are created on day 0; last_confirmed, when present, comes first.
LastConfirmed(fm) == IF fm.confirmed = None THEN 0 ELSE fm.confirmed
Age(fm, today) == Stride * (today - LastConfirmed(fm))

TierScore ==
  [working |-> -800, episodic |-> -200, semantic |-> 600, procedural |-> 1000, archived |-> -1200]
SourceScore(n) == IF n = 0 THEN -800 ELSE Least(2500, 700 * n)

\* log1p(n) * 0.055, at most 0.18.
Boosts == <<381, 604, 762, 885, 985, 1070, 1144, 1208>>
ReinforcementScore(n) == IF n = 0 THEN 0 ELSE IF n <= 8 THEN Boosts[n] ELSE 1800
AgePenalty(fm, today) ==
  LET days == IF Age(fm, today) > 0 THEN Age(fm, today) ELSE 0
      p == Least(2200, (days * 800) \div HalfLife(Lifecycle(fm)))
  IN IF p > 50 THEN p ELSE 0

Confidence(fm, today) ==
  Clamp(4500 + TierScore[Lifecycle(fm)] + SourceScore(Cardinality(fm.sources))
        + ReinforcementScore(fm.count) - AgePenalty(fm, today)
        + Least(500, 200 * Cardinality(fm.supersedes))
        - (IF fm.superseded_by # {} THEN 3500 ELSE 0)
        - (IF fm.contradicts # {} \/ fm.review = "contradicted" THEN 2500 ELSE 0))

\* A status in the front matter is taken as it stands.
ReviewStatus(fm, today) ==
  CASE fm.review \in Statuses -> fm.review
    [] fm.contradicts # {} -> "contradicted"
    [] fm.superseded_by # {} \/ Age(fm, today) > 2 * HalfLife(Lifecycle(fm)) -> "stale"
    [] Confidence(fm, today) < 4500 -> "needs-review"
    [] OTHER -> "ok"

Quality(fm, today) ==
  LET status == ReviewStatus(fm, today)
  IN Clamp(Confidence(fm, today)
           - (CASE status = "contradicted" -> 1800 [] status = "stale" -> 1000
                [] status = "needs-review" -> 600 [] OTHER -> 0))

-----------------------------------------------------------------------------
(***************************************************************************)
(* memory-ops.ts: buildPageEvidenceSummary.                                *)
(***************************************************************************)
Supporters(p, snap) == {q \in Pages : p \in snap.pages[q].supports}
Support(p, snap) == Cardinality(snap.pages[p].sources) + Cardinality(Supporters(p, snap))
Reinforcement(p, snap) == snap.pages[p].count + snap.audit[p].signals

IsStale(p, snap) ==
  LET fm == snap.pages[p]
  IN \/ ReviewStatus(fm, snap.today) \in {"stale", "contradicted"}
     \/ Age(fm, snap.today) > 2 * HalfLife(Lifecycle(fm))

\* The risk flags other than "stale".
BlockingRisk(p, snap) ==
  LET fm == snap.pages[p]
  IN \/ ReviewStatus(fm, snap.today) = "contradicted"
     \/ fm.contradicts # {} \/ fm.superseded_by # {}
     \/ p \in snap.open

-----------------------------------------------------------------------------
(***************************************************************************)
(* memory-ops-rules.ts.  A suggestion is [rule, page, fields]; fields are  *)
(* the front matter it would set, None for one that only asks for review.  *)
(***************************************************************************)
Suggest(cond, rule, p, fields) ==
  IF cond THEN {[rule |-> rule, page |-> p, fields |-> fields]} ELSE {}

\* Bugs the properties must catch stand before the rule they are variants of.
StaleEachTime(p, snap) ==
  LET status == ReviewStatus(snap.pages[p], snap.today)
  IN Suggest(status \in {"stale", "contradicted"}, "stale", p, [review |-> status])

StaleMetadata(p, snap) ==
  LET status == ReviewStatus(snap.pages[p], snap.today)
  IN Suggest(status \in {"stale", "contradicted"} /\ snap.pages[p].review # status,
             "stale", p, [review |-> status])

LowConfidence(p, snap) ==
  LET fm == snap.pages[p]
  IN Suggest(/\ ReviewStatus(fm, snap.today) = "needs-review" /\ fm.review # "needs-review"
             /\ Confidence(fm, snap.today) < 4500,
             "low-confidence", p, [review |-> "needs-review"])

LastConfirmedRefresh(p, snap) ==
  LET last == snap.audit[p].last
      current == snap.pages[p].confirmed
  IN Suggest(/\ last # None /\ Support(p, snap) > 0 /\ ~BlockingRisk(p, snap)
             /\ (IF current = None THEN TRUE ELSE last > current),
             "last-confirmed", p, [confirmed |-> last])

ReinforcementCount(p, snap) ==
  Suggest(snap.audit[p].signals > snap.pages[p].count,
          "reinforcement", p, [count |-> snap.audit[p].signals])

Promotion(p, snap) ==
  LET fm == snap.pages[p]
  IN Suggest(fm.lifecycle = "episodic" /\ Cardinality(fm.sources) >= 2 /\ fm.count >= 3,
             "promote", p, [lifecycle |-> "semantic"])

Archive(p, snap) ==
  Suggest(/\ snap.pages[p].lifecycle # "archived" /\ IsStale(p, snap)
          /\ Support(p, snap) = 0 /\ Reinforcement(p, snap) = 0 /\ snap.audit[p].uses = 0
          /\ ~BlockingRisk(p, snap),
          "archive", p, [lifecycle |-> "archived", review |-> "stale"])

evaluateLifecycleSuggestions(snap) ==
  UNION {StaleMetadata(p, snap) \cup LowConfidence(p, snap) \cup LastConfirmedRefresh(p, snap)
         \cup ReinforcementCount(p, snap) \cup Promotion(p, snap) \cup Archive(p, snap) : p \in Pages}

Reciprocal == [supersedes |-> "superseded_by", superseded_by |-> "supersedes"]

WithLinkOnly(p, q, field, snap) == field :> {p}

\* The field is set as a whole, from what the patrol saw, plus the one link.
WithLink(p, q, field, snap) == field :> (snap.pages[q][field] \cup {p})

\* p's link in `field` resolves to q # p: a contradiction asks for review, a
\* supersession for the same link the other way round.
ResolvedRelation(p, q, field, snap) ==
  CASE field = "contradicts" -> Suggest(TRUE, "contradiction", p, None)
    [] field \in DOMAIN Reciprocal ->
         Suggest(p \notin snap.pages[q][Reciprocal[field]], "reciprocal", q,
                 WithLink(p, q, Reciprocal[field], snap))
    [] OTHER -> {}

evaluateRelationCleanupSuggestions(snap) ==
  UNION {LET p == link[1]
             field == link[2]
             q == link[3] IN
         IF q \in Pages \ {p} THEN ResolvedRelation(p, q, field, snap)
         ELSE Suggest(TRUE, "dangling", p, None)
         : link \in {l \in Pages \X Relations \X Targets : l[3] \in snap.pages[l[1]][l[2]]}}

Suggestions(snap) == evaluateLifecycleSuggestions(snap) \cup evaluateRelationCleanupSuggestions(snap)
Patches(snap) == {s \in Suggestions(snap) : s.fields # None}

-----------------------------------------------------------------------------
CONSTANTS
  Sourced,    \* the pages that begin with a source
  MaxDay,     \* bound: days
  MaxEvents,  \* bound: uses of a page, reviews, edits, patches taken singly
  MaxPatrols  \* bound: patrols

VARIABLES
  pages,    \* the front matter of each page
  audit,    \* what the audit log tells of each page
  open,     \* pages with an open review item
  today,    \* the day
  report,   \* the suggestions of the last patrol that the page still shows
  batch,    \* the suggestions the running batch has not come to, in order
  events,   \* uses, reviews, edits and single patches so far
  patrols,  \* patrols so far
  touched   \* history: the fields written since the patrol behind `report`

vars == <<pages, audit, open, today, report, batch, events, patrols, touched>>

Snapshot == [pages |-> pages, audit |-> audit, open |-> open, today |-> today]

NewPage(type, sources) ==
  [type |-> type, lifecycle |-> None, review |-> None, confirmed |-> None, sources |-> sources,
   count |-> 0] @@ [r \in Relations |-> {}]

\* Day 0 of a wiki of query pages, with one source or none.
Init ==
  /\ pages = [p \in Pages |-> NewPage("query", IF p \in Sourced THEN {1} ELSE {})]
  /\ audit = [p \in Pages |-> [uses |-> 0, signals |-> 0, last |-> None]]
  /\ open = {} /\ today = 0 /\ report = {} /\ batch = <<>> /\ events = 0 /\ patrols = 0
  /\ touched = {}

-----------------------------------------------------------------------------
Happens == events < MaxEvents /\ events' = events + 1

\* An audit event about page p that reinforces it; `use` when it is a use.
Reinforced(log, p, use, day) ==
  [log EXCEPT ![p].signals = @ + 1, ![p].uses = @ + (IF use THEN 1 ELSE 0), ![p].last = day]

\* runMemoryOpsPatrol
runPatrol == Suggestions(Snapshot)

\* handlePatrol, runPatrolAfterPolicyChange
Patrol ==
  /\ patrols < MaxPatrols
  /\ patrols' = patrols + 1
  /\ report' = runPatrol
  /\ touched' = IF batch = <<>> THEN {} ELSE touched
  /\ UNCHANGED <<pages, audit, open, today, batch, events>>

\* createMetadataPatchPlan: the fields are set over the page as it is now.
Patched(fm, fields) == fields @@ fm

\* applyMemoryOpsOperations and the audit event about it, which reinforces
\* the page whether anything changed or not.
applyMemoryOps(s) ==
  /\ pages' = [pages EXCEPT ![s.page] = Patched(@, s.fields)]
  /\ audit' = Reinforced(audit, s.page, FALSE, today)
  /\ report' = report \ {s}
  /\ touched' = touched \cup {<<s.page, f>> : f \in DOMAIN s.fields}

\* handleApplySuggestion
Apply(s) ==
  /\ Happens /\ s.fields # None
  /\ applyMemoryOps(s)
  /\ UNCHANGED <<open, today, batch, patrols>>

\* handleBatchIgnore; a single one ignored is one never applied.
Ignore ==
  /\ report # {}
  /\ report' = {}
  /\ UNCHANGED <<pages, audit, open, today, batch, events, patrols, touched>>

\* handleBatchApply: the selected suggestions, those without a patch left out.
StartBatch(selected) ==
  /\ batch = <<>> /\ selected # {}
  /\ batch' = SetToSeq(selected)
  /\ UNCHANGED <<pages, audit, open, today, report, events, patrols, touched>>

\* applyMemoryOpsBatch, one turn of its loop
BatchStep ==
  /\ batch # <<>>
  /\ applyMemoryOps(Head(batch))
  /\ batch' = Tail(batch)
  /\ UNCHANGED <<open, today, events, patrols>>

-----------------------------------------------------------------------------
(***************************************************************************)
(* What goes on beside it.                                                 *)
(***************************************************************************)
\* A search, a query or a chat turn names the page in the audit log.
Use(p) ==
  /\ Happens
  /\ audit' = Reinforced(audit, p, TRUE, today)
  /\ UNCHANGED <<pages, open, today, report, batch, patrols, touched>>

RaiseReview(p) ==
  /\ Happens /\ p \notin open
  /\ open' = open \cup {p}
  /\ UNCHANGED <<pages, audit, today, report, batch, patrols, touched>>

ResolveReview(p) ==
  /\ Happens /\ p \in open
  /\ open' = open \ {p}
  /\ audit' = Reinforced(audit, p, FALSE, today)
  /\ UNCHANGED <<pages, today, report, batch, patrols, touched>>

\* An ingest or the editor writes the page: a link, a source, or the user's
\* word that the page is right.
Edit(p, fields) ==
  /\ Happens
  /\ pages' = [pages EXCEPT ![p] = Patched(@, fields)]
  /\ touched' = touched \cup {<<p, f>> : f \in DOMAIN fields}
  /\ UNCHANGED <<audit, open, today, report, batch, patrols>>

Edits(p) ==
  {r :> (pages[p][r] \cup {q}) : r \in Relations, q \in Pages \ {p}}
  \cup {"supersedes" :> (pages[p].supersedes \cup {Ghost})}
  \cup {[sources |-> {1, 2}, lifecycle |-> "episodic"], [confirmed |-> today, review |-> "ok"]}

NextDay ==
  /\ today < MaxDay
  /\ today' = today + 1
  /\ UNCHANGED <<pages, audit, open, report, batch, events, patrols, touched>>

Patchable == {s \in report : s.fields # None}

Next ==
  \/ Patrol \/ NextDay
  \/ Ignore
  \/ \E s \in report : Apply(s)
  \/ StartBatch(Patchable)
  \/ BatchStep
  \/ \E p \in Pages : Use(p) \/ RaiseReview(p) \/ ResolveReview(p) \/ \E f \in Edits(p) : Edit(p, f)

Spec == Init /\ [][Next]_vars

-----------------------------------------------------------------------------
\* One round of a user who takes every patch of a patrol, one after the other.
Taken(s, snap) ==
  [snap EXCEPT !.pages[s.page] = Patched(@, s.fields),
               !.audit = Reinforced(@, s.page, FALSE, snap.today)]
Round(snap) == FoldSet(Taken, snap, Patches(snap))
Settled(snap) == Round(Round(Round(Round(Round(snap)))))

(***************************************************************************)
(* Patrols settle: whatever state the wiki is in, a user who takes every   *)
(* patch, patrol after patrol on the same day, comes to a wiki that is     *)
(* left alone, but for the count of reinforcements, which every patch      *)
(* raises again (memory-ops.ts:666).  No rule undoes another's work or its *)
(* own condition.                                                          *)
(***************************************************************************)
Settles == \A s \in Patches(Settled(Snapshot)) : s.rule = "reinforcement"

(***************************************************************************)
(* A patch of fields nobody wrote since the patrol takes nothing away: no  *)
(* link of the page, no reinforcement, no later confirmation               *)
(* (memory-ops-rules.ts:405, whose patch holds the whole list of links).   *)
(***************************************************************************)
LosesNothing(s) ==
  LET old == pages[s.page]
      new == pages'[s.page]
  IN /\ \A r \in Relations : old[r] \subseteq new[r]
     /\ old.count <= new.count
     /\ old.confirmed = None \/ new.confirmed >= old.confirmed

Fresh(s) == \A f \in DOMAIN s.fields : <<s.page, f>> \notin touched

PatchesKeep == \A s \in Patchable \cup Range(batch) : Fresh(s) /\ applyMemoryOps(s) => LosesNothing(s)
PatchesLoseNothing == [][PatchesKeep]_vars
=============================================================================
